-------------------------------- MODULE Ata ---------------------------------
(***************************************************************************)
(* The ATA driver (src/kernel/ata.c) against a drive.  The driver polls:   *)
(* each read of the status register is a step, and between two steps the   *)
(* drive may finish what it was asked, fail it, or take its time.  The     *)
(* driver stops polling after TIMEOUT reads; the drive never learns that.  *)
(*                                                                         *)
(* The 256 words of a sector are transferred in one step: the drive does   *)
(* not change its mind in the middle of a block.  The drive is modelled by *)
(* what the standard says the registers do: it takes no command while BSY  *)
(* or DRQ is set, a new command clears ERR, and a written sector may stay  *)
(* in its cache until it is flushed or the drive finds the time.           *)
(*                                                                         *)
(* Ghost state: `before` is what the disk held when the call began,        *)
(* `abandoned` is set once a call returned with a command still in the     *)
(* drive, `faulted` once the drive failed to store a sector.               *)
(***************************************************************************)
EXTENDS Integers, Sequences

CONSTANTS
    Kinds,    \* what may be on the bus: a subset of AllKinds
    Sectors,  \* number of sectors of the drive
    LbaLimit, \* sectors 28 bits of address can name
    MaxLba,   \* highest sector number asked for
    MaxCount, \* longest transfer
    Data,     \* contents of a sector
    Noise,    \* what the data register reads when no data is there
    TIMEOUT   \* polls before a wait gives up: 100000

AllKinds == {"ata", "atapi", "no drive", "no bus"}

ASSUME AtaAssumption ==
    /\ Kinds \subseteq AllKinds
    /\ Sectors \in Nat \ {0} /\ MaxLba \in Nat /\ MaxCount \in Nat
    /\ LbaLimit \in Nat /\ MaxLba + MaxCount < LbaLimit
    /\ Noise \notin Data
    /\ TIMEOUT \in Nat \ {0}

VARIABLES
    kind,         \* what is on the bus
    status,       \* the drive: "ready", "busy" (BSY), "data" (DRQ), "error" (ERR)
    command,      \* the command the drive is working on
    transfer,     \* the sector in the drive's transfer buffer
    medium,       \* what the platters hold
    cache,        \* sectors written and not yet on the medium
    disk_present, \* the driver's state
    disk_sectors,
    pc,           \* where the running call is, "idle" between calls
    polls,        \* status reads of the running wait
    call,         \* arguments of the running or last call
    buf,          \* the sectors read so far
    result,       \* what the last call returned
    before, abandoned, faulted

driveVars == <<kind, status, command, transfer, medium, cache>>
driverVars == <<disk_present, disk_sectors, pc, polls, call, buf, result>>
ghosts == <<before, abandoned, faulted>>
vars == <<driveVars, driverVars, ghosts>>

-----------------------------------------------------------------------------
Lbas == 0 .. Sectors - 1
None == [op |-> "none", lba |-> 0]

\* What a read of a sector returns: the cache covers the medium.
View == [s \in Lbas |-> IF s \in DOMAIN cache THEN cache[s] ELSE medium[s]]

\* A floating bus reads 0xFF, ERR among its bits; with no drive it reads 0.
ReadsErr == kind = "no bus" \/ status = "error"
ReadsBsy == kind # "no drive" /\ status = "busy"
ReadsDrq == kind # "no drive" /\ status = "data"

Init ==
    /\ kind \in Kinds
    /\ status = "ready"
    /\ command = None
    /\ transfer = Noise
    /\ medium \in [Lbas -> Data]
    /\ cache = [s \in {} |-> Noise]
    /\ disk_present = FALSE
    /\ disk_sectors = 0
    /\ pc = "boot"
    /\ polls = 0
    /\ call = [op |-> "init", lba |-> 0, data |-> <<>>, i |-> 0]
    /\ buf = <<>>
    /\ result = 0
    /\ before = medium
    /\ abandoned = FALSE
    /\ faulted = FALSE

-----------------------------------------------------------------------------
(* The drive. *)

\* outb(ATA_COMMAND): ignored by a drive that is busy or has data to move.
Accept(op, lba) ==
    IF kind \in {"no bus", "no drive"} \/ status \in {"busy", "data"}
    THEN UNCHANGED <<status, command>>
    ELSE /\ status' = "busy"
         /\ command' = [op |-> op, lba |-> lba]

\* A command the drive cannot do ends in ERR.
Refuse ==
    /\ status' = "error"
    /\ command' = None
    /\ UNCHANGED <<transfer, medium, cache>>

DriveReset ==
    /\ status = "busy" /\ command.op = "reset"
    /\ status' = "ready"
    /\ command' = None
    /\ UNCHANGED <<transfer, medium, cache, faulted>>

\* Data is ready for the host, or is wanted from it.
DriveRequest ==
    /\ status = "busy" /\ command.op \in {"identify", "read", "write"}
    /\ \/ /\ command.lba \in Lbas
          /\ status' = "data"
          /\ transfer' = IF command.op = "read" THEN View[command.lba] ELSE Noise
          /\ UNCHANGED <<command, medium, cache>>
       \/ Refuse
    /\ UNCHANGED faulted

\* The sector the host sent goes to the cache, or is lost to a fault.
DriveStore ==
    /\ status = "busy" /\ command.op = "store"
    /\ \/ /\ cache' = [s \in DOMAIN cache \cup {command.lba} |->
                        IF s = command.lba THEN transfer ELSE cache[s]]
          /\ status' = "ready"
          /\ command' = None
          /\ UNCHANGED <<transfer, medium, faulted>>
       \/ Refuse /\ faulted' = TRUE

DriveFlush ==
    /\ status = "busy" /\ command.op = "flush"
    /\ medium' = View
    /\ cache' = [s \in {} |-> Noise]
    /\ status' = "ready"
    /\ command' = None
    /\ UNCHANGED <<transfer, faulted>>

WriteBack(s) ==
    /\ s \in DOMAIN cache
    /\ medium' = [medium EXCEPT ![s] = cache[s]]
    /\ cache' = [t \in DOMAIN cache \ {s} |-> cache[t]]
    /\ UNCHANGED <<status, command, transfer, faulted>>

DriveStep ==
    /\ DriveReset \/ DriveRequest \/ DriveStore \/ DriveFlush \/ \E s \in Lbas : WriteBack(s)
    /\ UNCHANGED <<kind, driverVars, before, abandoned>>

-----------------------------------------------------------------------------
(* The driver. *)

Return(r) ==
    /\ pc' = "idle"
    /\ polls' = 0
    /\ result' = r
    /\ abandoned' = (abandoned \/ command # None)

\* Mutant: a wait that does not count its polls.
AgainForever == UNCHANGED <<pc, polls, result, abandoned>>
\* A poll that saw neither the awaited bit nor ERR.
Again ==
    IF polls + 1 < TIMEOUT
    THEN polls' = polls + 1 /\ UNCHANGED <<pc, result, abandoned>>
    ELSE Return(-1)

\* One poll of ata_wait_ready or ata_wait_drq.
Poll(done, next) ==
    \/ ReadsErr /\ Return(-1)
    \/ /\ ~ReadsErr /\ done
       /\ pc' = next
       /\ polls' = 0
       /\ UNCHANGED <<result, abandoned>>
    \/ ~ReadsErr /\ ~done /\ Again

WaitReady(at, next) == pc = at /\ Poll(~ReadsBsy, next)
\* Mutant: data is taken to be there after the 400 ns.
WaitDrqNot(at, next) == pc = at /\ Poll(TRUE, next)
WaitDrq(at, next) == pc = at /\ Poll(ReadsDrq, next)

\* Every wait of the driver: where it is, and what follows it.
Waits ==
    /\ \/ WaitReady("reset", "select")
       \/ WaitReady("select", "probe")
       \/ WaitReady("identify", "signature")
       \/ WaitDrq("identify data", "sectors")
       \/ WaitReady("ready", "issue")
       \/ WaitDrq("data", "transfer")
       \/ WaitReady("flushed", "next")
    /\ UNCHANGED <<driveVars, disk_present, disk_sectors, call, buf, before, faulted>>

\* ata_init: software reset, whatever the drive was doing.
Boot ==
    /\ pc = "boot"
    /\ IF kind \in {"ata", "atapi"}
       THEN status' = "busy" /\ command' = [op |-> "reset", lba |-> 0]
       ELSE UNCHANGED <<status, command>>
    /\ pc' = "reset"
    /\ UNCHANGED <<kind, transfer, medium, cache, polls, disk_present, disk_sectors, call, buf, result, ghosts>>

\* No drive reads as status 0, before IDENTIFY and after it.
Probe ==
    /\ pc = "probe"
    /\ IF kind = "no drive"
       THEN Return(-1) /\ UNCHANGED <<status, command>>
       ELSE /\ Accept("identify", 0)
            /\ pc' = "identify"
            /\ UNCHANGED <<polls, result, abandoned>>
    /\ UNCHANGED <<kind, transfer, medium, cache, disk_present, disk_sectors, call, buf, before, faulted>>

\* Nonzero LBA registers after IDENTIFY: not an ATA drive.
Signature ==
    /\ pc = "signature"
    /\ IF kind = "atapi"
       THEN Return(-1)
       ELSE pc' = "identify data" /\ UNCHANGED <<polls, result, abandoned>>
    /\ UNCHANGED <<driveVars, disk_present, disk_sectors, call, buf, before, faulted>>

ReadIdentify ==
    /\ pc = "sectors"
    /\ disk_sectors' = IF status = "data" THEN Sectors ELSE Sectors + 1
    /\ disk_present' = TRUE
    /\ status' = IF status = "data" THEN "ready" ELSE status
    /\ command' = IF status = "data" THEN None ELSE command
    /\ pc' = "idle" /\ result' = 0
    /\ UNCHANGED <<kind, transfer, medium, cache, polls, call, buf, ghosts>>

\* A call of ata_read_sectors or ata_write_sectors; `data` is what to write,
\* for a read only its length counts.
Start(op, lba, data) ==
    /\ pc = "idle"
    /\ call' = [op |-> op, lba |-> lba, data |-> data, i |-> 0]
    /\ buf' = <<>>
    /\ before' = View
    /\ IF disk_present /\ data # <<>>
       THEN pc' = "ready" /\ UNCHANGED result
       ELSE pc' = "idle" /\ result' = IF disk_present THEN 0 ELSE -1
    /\ UNCHANGED <<driveVars, disk_present, disk_sectors, polls, abandoned, faulted>>

\* Mutant: every sector of a transfer goes to the first address.
LbaFixed == call.lba % LbaLimit
Lba == (call.lba + call.i) % LbaLimit

Issue ==
    /\ pc = "issue"
    /\ Accept(call.op, Lba)
    /\ pc' = "data"
    /\ UNCHANGED <<kind, transfer, medium, cache, disk_present, disk_sectors, polls, call, buf, result, ghosts>>

\* Mutant: one sector too many.
LastIncluded == call.i = Len(call.data)
Last == call.i + 1 = Len(call.data)

\* The end of the loop's body.
NextSector ==
    IF Last
    THEN Return(0) /\ UNCHANGED call
    ELSE /\ pc' = "ready"
         /\ call' = [call EXCEPT !.i = @ + 1]
         /\ UNCHANGED <<polls, result, abandoned>>

\* The data register delivers only what a command of that direction offers.
ReadWords ==
    /\ pc = "transfer" /\ call.op = "read"
    /\ LET offered == status = "data" /\ command.op \in {"read", "identify"}
       IN  /\ buf' = Append(buf, IF offered THEN transfer ELSE Noise)
           /\ status' = IF offered THEN "ready" ELSE status
           /\ command' = IF offered THEN None ELSE command
    /\ pc' = "next"
    /\ UNCHANGED <<kind, transfer, medium, cache, disk_present, disk_sectors, polls, call, result, ghosts>>

WriteWords ==
    /\ pc = "transfer" /\ call.op = "write"
    /\ LET wanted == status = "data" /\ command.op = "write"
           word == IF call.i + 1 \in DOMAIN call.data THEN call.data[call.i + 1] ELSE Noise
       IN  /\ transfer' = IF wanted THEN word ELSE transfer
           /\ status' = IF wanted THEN "busy" ELSE status
           /\ command' = IF wanted THEN [command EXCEPT !.op = "store"] ELSE command
    /\ pc' = "flush"
    /\ UNCHANGED <<kind, medium, cache, disk_present, disk_sectors, polls, call, buf, result, ghosts>>

\* FLUSH follows the last word at once, without waiting for the drive.
Flush ==
    /\ pc = "flush"
    /\ Accept("flush", 0)
    /\ pc' = "flushed"
    /\ UNCHANGED <<kind, transfer, medium, cache, disk_present, disk_sectors, polls, call, buf, result, ghosts>>

SectorDone ==
    /\ pc = "next"
    /\ NextSector
    /\ UNCHANGED <<driveVars, disk_present, disk_sectors, buf, before, faulted>>

DriverStep ==
    Waits \/ Boot \/ Probe \/ Signature \/ ReadIdentify
    \/ Issue \/ ReadWords \/ WriteWords \/ Flush \/ SectorDone

Next ==
    \/ DriverStep
    \/ DriveStep
    \/ \E lba \in 0..MaxLba, n \in 0..MaxCount :
        \/ Start("read", lba, [k \in 1..n |-> Noise])
        \/ \E data \in [1..n -> Data] : Start("write", lba, data)

Spec == Init /\ [][Next]_vars

\* The driver runs; the drive owes it nothing.
FairSpec == Spec /\ WF_vars(DriverStep)

-----------------------------------------------------------------------------
Asked == call.lba .. call.lba + Len(call.data) - 1

TypeOK ==
    /\ kind \in AllKinds
    /\ status \in {"ready", "busy", "data", "error"}
    /\ status \in {"busy", "data"} <=> command # None
    /\ polls \in 0 .. TIMEOUT - 1
    /\ medium \in [Lbas -> Data] /\ DOMAIN cache \subseteq Lbas
    /\ result \in {0, -1}

\* A read that returns 0 filled the buffer with what the sectors hold, as
\* long as no earlier call left a command behind in the drive.
ReadsAreTrue ==
    pc = "idle" /\ call.op = "read" /\ result = 0 /\ ~abandoned =>
        /\ Len(buf) = Len(call.data)
        /\ \A k \in DOMAIN buf : buf[k] = View[call.lba + k - 1]

\* However a write ends, what it changed is its first sectors, in order; all
\* of them when it returns 0 and the drive never failed to store one.
WriteIsAPrefix ==
    pc = "idle" /\ call.op = "write" /\ disk_present /\ ~abandoned /\ ~faulted =>
        \E n \in 0 .. Len(call.data) :
            /\ result = 0 => n = Len(call.data)
            /\ View = [s \in Lbas |-> IF s \in call.lba .. call.lba + n - 1
                                      THEN call.data[s - call.lba + 1] ELSE before[s]]

\* Nothing but the running write changes a sector, and only its own sectors.
OnlyTheWriteChangesSectors ==
    [][\A s \in Lbas : View'[s] # View[s] /\ ~abandoned =>
        call.op = "write" /\ pc # "idle" /\ s \in Asked]_vars

\* Reads and writes reach a drive only if it identified itself as ATA, with
\* the size it announced.
PresentMeansIdentified ==
    /\ disk_present => kind = "ata" /\ disk_sectors = Sectors
    /\ command.op \in {"read", "write", "store", "flush"} => disk_present

\* Every call returns, though the drive may hang at any point.
EveryCallReturns == pc # "idle" ~> pc = "idle"

\* What ata.h says of a write, "Returns 0 on success, -1 on error/timeout":
\* after a 0 its sectors hold what was written, also when an earlier call
\* gave up waiting and the drive answered late.
SuccessIsWritten ==
    pc = "idle" /\ call.op = "write" /\ result = 0 /\ ~faulted =>
        \A k \in DOMAIN call.data : View[call.lba + k - 1] = call.data[k]

\* What the comment "Flush write cache" promises: a write that returned 0 is
\* on the medium.
SuccessIsDurable ==
    pc = "idle" /\ call.op = "write" /\ result = 0 =>
        \A k \in DOMAIN call.data : medium[call.lba + k - 1] = call.data[k]
=============================================================================
