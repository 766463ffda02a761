----------------------------- MODULE AtaProofs ------------------------------
(***************************************************************************)
(* Proofs about Ata: whatever the drive does, and for every size of disk   *)
(* and transfer and every patience, a driver that has left no command      *)
(* behind reads what the sectors hold, writes prefixes, and changes no     *)
(* sector but those it was asked to write.                                 *)
(***************************************************************************)
EXTENDS Ata, TLAPS

Content == Data \cup {Noise}

Setup == {"boot", "reset", "select", "probe", "identify", "signature", "identify data", "sectors"}
Transferring == {"ready", "issue", "data", "transfer", "flush", "flushed", "next"}

Command == [op : {"none", "reset", "identify", "read", "write", "store", "flush"}, lba : Nat]
Call == [op : {"init", "read", "write"}, lba : 0 .. MaxLba, data : Seq(Content), i : Nat]

\* The drive: a command lies in it exactly while it is busy or has data to
\* move, and only a drive that is there takes one.
DriveOK ==
    /\ status \in {"ready", "busy", "data", "error"}
    /\ command \in Command
    /\ command.op = "none" => command = None
    /\ status \in {"busy", "data"} <=> command # None
    /\ kind \in {"no bus", "no drive"} => command = None
    /\ status = "data" => command.op \in {"identify", "read", "write"}
    /\ status = "data" \/ command.op = "store" => command.lba \in Lbas
    /\ medium \in [Lbas -> Content] /\ transfer \in Content
    /\ DOMAIN cache \subseteq Lbas /\ cache \in [DOMAIN cache -> Content]

\* The driver: where it is in which kind of call.
DriverOK ==
    /\ pc \in Setup \cup Transferring \cup {"idle"}
    /\ call \in Call /\ Len(call.data) <= MaxCount
    /\ buf \in Seq(Content)
    /\ pc \in Setup => call.op = "init"
    /\ pc \in Transferring => call.op \in {"read", "write"} /\ call.i < Len(call.data)
    /\ pc \in {"flush", "flushed"} => call.op = "write"
    /\ abandoned \in BOOLEAN /\ faulted \in BOOLEAN

\* The command of the running call for its sector.
Own(op) == [op |-> op, lba |-> call.lba + call.i]

\* As long as none was left behind, what lies in the drive is the command of
\* the running call.
CommandIsOwn ==
    ~abandoned =>
        /\ pc \in {"idle", "boot", "select", "probe", "ready", "issue", "next"} => command = None
        /\ pc = "reset" => command.op \in {"none", "reset"}
        /\ pc \in {"identify", "signature", "identify data"} => command.op \in {"none", "identify"}
        /\ pc = "sectors" => status = "data" /\ command.op = "identify"
        /\ pc = "data" => command \in {None, Own(call.op)}
        /\ pc = "transfer" => status = "data" /\ command = Own(call.op)
        /\ pc \in {"flush", "flushed"} =>
                command.op \in {"none", "flush"} \/ command = Own("store")

\* The sector a drive offers is what a read of it must return.
OfferIsTrue == status = "data" /\ command.op = "read" => transfer = View[command.lba]

Filled(n) == Len(buf) = n /\ \A k \in 1 .. n : buf[k] = View[call.lba + k - 1]

ReadSoFar ==
    call.op = "read" /\ ~abandoned =>
        /\ pc \in {"ready", "issue", "data", "transfer"} => Filled(call.i)
        /\ pc = "next" => Filled(call.i + 1)
        /\ pc = "idle" /\ result = 0 => Filled(Len(call.data))

Stored(n) ==
    \A s \in Lbas : View[s] = IF s \in call.lba .. call.lba + n - 1
                              THEN call.data[s - call.lba + 1] ELSE before[s]

WrittenSoFar ==
    call.op = "write" /\ ~abandoned /\ ~faulted =>
        /\ pc \in {"ready", "issue", "data", "transfer"} => Stored(call.i)
        /\ pc \in {"flush", "flushed"} =>
            IF command.op = "store"
            THEN Stored(call.i) /\ transfer = call.data[call.i + 1]
            ELSE Stored(call.i + 1)
        /\ pc = "next" => Stored(call.i + 1)
        /\ pc = "idle" => \E n \in 0 .. Len(call.data) :
                            (result = 0 => n = Len(call.data)) /\ Stored(n)

AtaInv == DriveOK /\ DriverOK /\ CommandIsOwn /\ OfferIsTrue /\ ReadSoFar /\ WrittenSoFar

-----------------------------------------------------------------------------
(* What the drive's own steps do to what can be read. *)

LEMMA ViewHasContents == DriveOK => View \in [Lbas -> Content]
  BY DEF DriveOK, View

\* Flushing and writing back move sectors from the cache to the medium and
\* change nothing that can be read.
LEMMA FlushKeepsView ==
    ASSUME DriveOK, DriveFlush, UNCHANGED kind
    PROVE  DriveOK' /\ View' = View /\ status' = "ready" /\ command' = None
<1>1. /\ medium' = View /\ cache' = [s \in {} |-> Noise]
      /\ status' = "ready" /\ command' = None /\ transfer' = transfer
  BY DEF DriveFlush
<1>2. medium' \in [Lbas -> Content] /\ DOMAIN cache' = {} /\ cache' \in [DOMAIN cache' -> Content]
  BY <1>1, ViewHasContents
<1>3. View' = View
  BY <1>1, <1>2, ViewHasContents DEF View
<1>4. DriveOK'
  BY <1>1, <1>2 DEF DriveOK, None, Command
<1> QED  BY <1>1, <1>3, <1>4

LEMMA WriteBackKeepsView ==
    ASSUME NEW s \in Lbas, DriveOK, WriteBack(s), UNCHANGED kind
    PROVE  DriveOK' /\ View' = View
<1>1. /\ s \in DOMAIN cache
      /\ medium' = [medium EXCEPT ![s] = cache[s]]
      /\ cache' = [t \in DOMAIN cache \ {s} |-> cache[t]]
      /\ UNCHANGED <<status, command, transfer, faulted>>
  BY DEF WriteBack
<1>2. /\ medium' \in [Lbas -> Content]
      /\ DOMAIN cache' \subseteq Lbas /\ cache' \in [DOMAIN cache' -> Content]
  BY <1>1 DEF DriveOK
<1>3. View' = View
  BY <1>1, <1>2 DEF DriveOK, View
<1>4. DriveOK'
  BY <1>1, <1>2 DEF DriveOK
<1> QED  BY <1>3, <1>4

\* A store changes its own sector to what the host sent.
LEMMA StoreSetsOne ==
    ASSUME DriveOK, command.op = "store", UNCHANGED <<kind, medium, transfer>>,
           cache' = [s \in DOMAIN cache \cup {command.lba} |->
                        IF s = command.lba THEN transfer ELSE cache[s]],
           status' = "ready", command' = None
    PROVE  DriveOK' /\ View' = [View EXCEPT ![command.lba] = transfer]
<1> DEFINE a == command.lba
<1>1. a \in Lbas /\ transfer \in Content
  BY DEF DriveOK
<1>2. DOMAIN cache' \subseteq Lbas /\ cache' \in [DOMAIN cache' -> Content]
  BY <1>1 DEF DriveOK
<1>3. View' = [View EXCEPT ![a] = transfer]
  BY <1>1 DEF View
<1>4. DriveOK'
  BY <1>2 DEF DriveOK, None, Command
<1> QED  BY <1>3, <1>4

-----------------------------------------------------------------------------
(* Steps after which the drive offers what it offered. *)

LEMMA QuietKeepsDrive ==
    ASSUME DriveOK, OfferIsTrue, UNCHANGED driveVars
    PROVE  DriveOK' /\ OfferIsTrue' /\ View' = View
  BY DEF DriveOK, OfferIsTrue, View, driveVars, Lbas

\* A command written to the drive is taken or ignored.
LEMMA AcceptKeepsDrive ==
    ASSUME DriveOK, OfferIsTrue, NEW op \in {"identify", "read", "write", "flush"},
           NEW lba \in Nat, Accept(op, lba), UNCHANGED <<kind, transfer, medium, cache>>
    PROVE  /\ DriveOK' /\ OfferIsTrue' /\ View' = View
           /\ \/ command' = [op |-> op, lba |-> lba] /\ command = None
              \/ command' = command /\ (command = None \/ status \in {"busy", "data"})
<1>1. View' = View
  BY DEF View
<1>2. CASE kind \in {"no bus", "no drive"} \/ status \in {"busy", "data"}
  BY <1>1, <1>2 DEF Accept, DriveOK, OfferIsTrue
<1>3. CASE ~(kind \in {"no bus", "no drive"} \/ status \in {"busy", "data"})
  <2>1. status' = "busy" /\ command' = [op |-> op, lba |-> lba]
    BY <1>3 DEF Accept
  <2>2. command' # None /\ command'.op = op /\ command' \in Command
    BY <2>1 DEF None, Command
  <2>3. DriveOK' /\ OfferIsTrue'
    BY <1>3, <2>1, <2>2 DEF DriveOK, OfferIsTrue
  <2>4. command = None
    BY <1>3 DEF DriveOK
  <2> QED  BY <1>1, <2>1, <2>3, <2>4
<1> QED  BY <1>2, <1>3

-----------------------------------------------------------------------------
(* The drive. *)

\* What the driver has seen so far stands when a drive step leaves alone what
\* can be read and stores nothing.
LEMMA DriverIsKept ==
    ASSUME AtaInv, UNCHANGED <<pc, call, buf, result, before, abandoned, faulted>>, View' = View,
           command'.op = "store" <=> command.op = "store",
           transfer' = transfer \/ command.op # "store"
    PROVE  DriverOK' /\ ReadSoFar' /\ WrittenSoFar'
<1>1. UNCHANGED <<pc, call, buf, result, before, abandoned, faulted>>
  OBVIOUS
<1>2. DriverOK'
  BY <1>1 DEF AtaInv, DriverOK
<1>3. ReadSoFar'
  BY <1>1 DEF AtaInv, ReadSoFar, Filled
<1>4. \A n \in Int : Stored(n)' <=> Stored(n)
  BY <1>1 DEF Stored, Lbas
<1>5. call \in Call /\ call.i \in Int /\ call.i + 1 \in Int
  BY DEF AtaInv, DriverOK, Call
<1>6. Stored(call.i)' <=> Stored(call.i)
  BY <1>1, <1>4, <1>5 DEF Stored
<1>7. Stored(call.i + 1)' <=> Stored(call.i + 1)
  BY <1>1, <1>4, <1>5 DEF Stored
<1>8. WrittenSoFar'
  BY <1>1, <1>4, <1>6, <1>7 DEF AtaInv, WrittenSoFar
<1> QED  BY <1>2, <1>3, <1>8

LEMMA NothingIsOwn ==
    ASSUME command' = None, ~abandoned' => pc' \notin {"sectors", "transfer"}
    PROVE  CommandIsOwn'
<1>1. command'.op = "none"
  BY DEF None
<1> QED  BY <1>1 DEF CommandIsOwn

LEMMA SameCommandIsOwn ==
    ASSUME CommandIsOwn, UNCHANGED <<command, pc, call, abandoned>>, status = "data" => status' = "data"
    PROVE  CommandIsOwn'
<1>1. Own("store")' = Own("store") /\ Own(call.op)' = Own(call.op)
  BY DEF Own
<1> QED  BY <1>1 DEF CommandIsOwn

LEMMA DriveKeepsInv == AtaInv /\ DriveStep => AtaInv'
<1> SUFFICES ASSUME AtaInv, DriveStep  PROVE AtaInv'
  OBVIOUS
<1>0. /\ UNCHANGED <<kind, driverVars, before, abandoned>>
      /\ UNCHANGED <<pc, polls, call, buf, result, before, abandoned>>
  BY DEF DriveStep, driverVars
<1>a. DriveOK /\ DriverOK /\ CommandIsOwn /\ OfferIsTrue /\ ReadSoFar /\ WrittenSoFar
  BY DEF AtaInv
<1>n. None.op = "none" /\ \A op : Own(op).op = op
  BY DEF None, Own
<1>o. status = "busy" /\ ~abandoned => pc \notin {"sectors", "transfer"}
  BY <1>a DEF CommandIsOwn
\* The drive gives up its command, or turns to the host with it.
<1>1. ASSUME UNCHANGED <<medium, cache, faulted, kind>>, status = "busy",
             command.op # "store",
             \/ status' \in {"ready", "error"} /\ command' = None /\ transfer' = transfer
             \/ /\ status' = "data" /\ command' = command /\ command.lba \in Lbas
                /\ command.op \in {"identify", "read", "write"}
                /\ transfer' = IF command.op = "read" THEN View[command.lba] ELSE Noise
      PROVE  AtaInv'
  <2>1. View' = View
    BY <1>1 DEF View
  <2>2. View \in [Lbas -> Content]
    BY ViewHasContents DEF AtaInv
  <2>3. DriveOK' /\ OfferIsTrue'
    <3>1. transfer' \in Content /\ None \in Command
      BY <1>1, <2>2, <1>a DEF DriveOK, Content, None, Command
    <3>2. CASE status' \in {"ready", "error"} /\ command' = None
      BY <1>1, <3>1, <3>2, <1>a, <1>n DEF DriveOK, OfferIsTrue
    <3>3. CASE /\ status' = "data" /\ command' = command /\ command.lba \in Lbas
               /\ command.op \in {"identify", "read", "write"}
               /\ transfer' = IF command.op = "read" THEN View[command.lba] ELSE Noise
      BY <1>1, <2>1, <3>1, <3>3, <1>a, <1>n DEF DriveOK, OfferIsTrue
    <3> QED  BY <1>1, <3>2, <3>3
  <2>4. DriverOK' /\ ReadSoFar' /\ WrittenSoFar'
    BY <1>0, <1>1, <2>1, DriverIsKept DEF None
  <2>5. CommandIsOwn'
    BY <1>0, <1>1, <1>a, <1>o, NothingIsOwn, SameCommandIsOwn
  <2> QED  BY <2>3, <2>4, <2>5 DEF AtaInv
<1>2. CASE DriveReset
  BY <1>0, <1>1, <1>2 DEF DriveReset
<1>3. CASE DriveRequest
  BY <1>0, <1>1, <1>3 DEF DriveRequest, Refuse
<1>4. CASE DriveFlush
  <2>1. DriveOK' /\ View' = View /\ status' = "ready" /\ command' = None
    BY <1>0, <1>4, FlushKeepsView DEF AtaInv
  <2>2. command.op = "flush" /\ status = "busy" /\ UNCHANGED <<transfer, faulted>>
    BY <1>4 DEF DriveFlush
  <2>3. DriverOK' /\ ReadSoFar' /\ WrittenSoFar'
    BY <1>0, <2>1, <2>2, DriverIsKept DEF None
  <2>4. CommandIsOwn'
    BY <1>0, <2>1, <2>2, <1>o, NothingIsOwn
  <2>5. OfferIsTrue'
    BY <2>1 DEF OfferIsTrue
  <2> QED  BY <2>1, <2>3, <2>4, <2>5 DEF AtaInv
<1>5. ASSUME NEW s \in Lbas, WriteBack(s)  PROVE AtaInv'
  <2>1. DriveOK' /\ View' = View
    BY <1>0, <1>5, WriteBackKeepsView DEF AtaInv
  <2>2. UNCHANGED <<status, command, transfer, faulted>>
    BY <1>5 DEF WriteBack
  <2>3. DriverOK' /\ ReadSoFar' /\ WrittenSoFar'
    BY <1>0, <2>1, <2>2, DriverIsKept
  <2>4. CommandIsOwn'
    BY <1>0, <2>2, <1>a, SameCommandIsOwn
  <2>5. OfferIsTrue'
    BY <2>1, <2>2, <1>a DEF OfferIsTrue
  <2> QED  BY <2>1, <2>3, <2>4, <2>5 DEF AtaInv
\* The sector of a write is stored, or lost.
<1>6. CASE DriveStore
  <2>1. status = "busy" /\ command.op = "store"
    BY <1>6 DEF DriveStore
  <2>2. ~abandoned => pc \in {"flush", "flushed"} /\ command = Own("store") /\ call.op = "write"
    BY <2>1, <1>a, <1>n DEF CommandIsOwn, DriverOK, DriveOK, Setup, Transferring
  <2>3. DriverOK' /\ ReadSoFar'
    <3>1. faulted' \in BOOLEAN
      BY <1>6 DEF DriveStore, AtaInv, DriverOK
    <3> QED  BY <1>0, <2>2, <3>1 DEF AtaInv, DriverOK, ReadSoFar
  <2>4. CommandIsOwn' /\ OfferIsTrue'
    <3>1. command' = None /\ status' \in {"ready", "error"}
      BY <1>6 DEF DriveStore, Refuse
    <3> QED  BY <1>0, <2>1, <1>o, <3>1, NothingIsOwn DEF OfferIsTrue
  <2>5. CASE Refuse /\ faulted' = TRUE
    <3>1. DriveOK'
      BY <1>0, <2>5 DEF Refuse, AtaInv, DriveOK, None, Command
    <3>2. WrittenSoFar'
      BY <2>5 DEF WrittenSoFar
    <3> QED  BY <2>3, <2>4, <3>1, <3>2 DEF AtaInv
  <2>6. CASE /\ cache' = [s \in DOMAIN cache \cup {command.lba} |->
                            IF s = command.lba THEN transfer ELSE cache[s]]
             /\ status' = "ready" /\ command' = None
             /\ UNCHANGED <<transfer, medium, faulted>>
    <3>1. DriveOK' /\ View' = [View EXCEPT ![command.lba] = transfer]
      BY <1>0, <2>1, <2>6, StoreSetsOne DEF AtaInv
    <3>2. WrittenSoFar'
      <4> SUFFICES ASSUME call.op = "write", ~abandoned, ~faulted
                   PROVE  Stored(call.i + 1)'
        BY <1>0, <2>2, <2>6 DEF WrittenSoFar, None
      <4>1. Stored(call.i) /\ transfer = call.data[call.i + 1]
        BY <2>1, <2>2 DEF AtaInv, WrittenSoFar
      <4>2. command.lba = call.lba + call.i /\ call.lba \in Nat /\ call.i \in Nat
        BY <2>2 DEF Own, AtaInv, DriverOK, Call
      <4>3. View \in [Lbas -> Content] /\ Lbas \subseteq Int
        BY ViewHasContents DEF AtaInv, Lbas
      <4>4. ASSUME NEW s \in Lbas
            PROVE  View'[s] = IF s \in call.lba .. call.lba + (call.i + 1) - 1
                              THEN call.data[s - call.lba + 1] ELSE before[s]
        <5>1. CASE s = call.lba + call.i
          <6>1. View'[s] = transfer
            BY <3>1, <4>2, <4>3, <5>1
          <6>2. s \in call.lba .. call.lba + (call.i + 1) - 1 /\ s - call.lba + 1 = call.i + 1
            BY <4>2, <5>1
          <6> QED  BY <4>1, <6>1, <6>2
        <5>2. CASE s # call.lba + call.i
          <6>1. View'[s] = View[s]
            BY <3>1, <4>2, <4>3, <5>2
          <6>2. s \in call.lba .. call.lba + (call.i + 1) - 1 <=> s \in call.lba .. call.lba + call.i - 1
            BY <4>2, <4>3, <5>2
          <6> QED  BY <4>1, <6>1, <6>2 DEF Stored
        <5> QED  BY <5>1, <5>2
      <4> QED  BY <1>0, <4>4 DEF Stored, Lbas
    <3> QED  BY <2>3, <2>4, <3>1, <3>2 DEF AtaInv
  <2> QED  BY <1>6, <2>5, <2>6 DEF DriveStore
<1> QED  BY <1>2, <1>3, <1>4, <1>5, <1>6 DEF DriveStep

-----------------------------------------------------------------------------
(* The driver: waiting, going on and returning. *)

Filling == {"ready", "issue", "data", "transfer"}

\* The driver goes on, within its preparations or within the same sector.
LEMMA GoingOnIsKept ==
    ASSUME AtaInv, UNCHANGED <<call, buf, result, before, abandoned, faulted>>, View' = View,
           \/ pc \in Setup /\ pc' \in Setup
           \/ pc \in Filling /\ pc' \in Filling
    PROVE  DriverOK' /\ ReadSoFar' /\ WrittenSoFar'
<1>1. pc \in Setup => call.op = "init"
  BY DEF AtaInv, DriverOK
<1>2. DriverOK'
  BY DEF AtaInv, DriverOK, Setup, Filling, Transferring
<1>3. Filled(call.i)' <=> Filled(call.i)
  BY DEF Filled
<1>4. Stored(call.i)' <=> Stored(call.i)
  BY DEF Stored, Lbas
<1>5. ReadSoFar'
  BY <1>1, <1>3 DEF AtaInv, ReadSoFar, Setup, Filling
<1>6. WrittenSoFar'
  BY <1>1, <1>4 DEF AtaInv, WrittenSoFar, Setup, Filling
<1> QED  BY <1>2, <1>5, <1>6

\* A call that gives up leaves what it wrote as a prefix, or a command behind.
LEMMA GivingUpKeepsInv ==
    ASSUME AtaInv, Return(-1), pc # "idle",
           UNCHANGED <<driveVars, call, buf, before, faulted>>
    PROVE  AtaInv'
<1>1. /\ pc' = "idle" /\ result' = -1 /\ abandoned' = (abandoned \/ command # None)
      /\ UNCHANGED <<call, buf, before, faulted, command, status>>
  BY DEF Return, driveVars
<1>2. DriveOK' /\ OfferIsTrue' /\ View' = View
  BY QuietKeepsDrive DEF AtaInv
<1>3. DriverOK'
  BY <1>1 DEF AtaInv, DriverOK, Setup, Transferring
<1>4. CommandIsOwn'
  <2>1. abandoned \in BOOLEAN
    BY DEF AtaInv, DriverOK
  <2>2. ~abandoned' => command' = None
    BY <1>1, <2>1
  <2> QED  BY <1>1, <2>2 DEF CommandIsOwn
<1>5. ReadSoFar'
  BY <1>1 DEF ReadSoFar
<1>6. WrittenSoFar'
  <2> SUFFICES ASSUME call.op = "write", ~abandoned', ~faulted
               PROVE  \E n \in 0 .. Len(call.data) : Stored(n)'
    BY <1>1 DEF WrittenSoFar
  <2>1. ~abandoned /\ command = None
    BY <1>1 DEF AtaInv, DriverOK
  <2>2. pc \in Transferring /\ call.i \in Nat /\ call.i < Len(call.data) /\ Len(call.data) \in Nat
    BY DEF AtaInv, DriverOK, Call
  <2>3. \A n \in Int : Stored(n)' <=> Stored(n)
    BY <1>1, <1>2 DEF Stored, Lbas
  <2>4. command.op # "store"
    BY <2>1 DEF None
  <2>5. CASE pc \in Filling
    <3>1. Stored(call.i)
      BY <2>1, <2>5 DEF AtaInv, WrittenSoFar, Filling
    <3>2. call.i \in 0 .. Len(call.data) /\ call.i \in Int
      BY <2>2
    <3> QED  BY <2>3, <3>1, <3>2
  <2>6. CASE pc \in {"flush", "flushed", "next"}
    <3>1. Stored(call.i + 1)
      BY <2>1, <2>4, <2>6 DEF AtaInv, WrittenSoFar
    <3>2. call.i + 1 \in 0 .. Len(call.data) /\ call.i + 1 \in Int
      BY <2>2
    <3> QED  BY <2>3, <3>1, <3>2
  <2> QED  BY <2>2, <2>5, <2>6 DEF Transferring, Filling
<1> QED  BY <1>2, <1>3, <1>4, <1>5, <1>6 DEF AtaInv

\* One poll: the call gives up, waits on, or sees what it waited for.
LEMMA PollKeepsInv ==
    ASSUME AtaInv, NEW done \in BOOLEAN, NEW next, Poll(done, next), pc # "idle",
           UNCHANGED <<driveVars, call, buf, before, faulted>>,
           done /\ pc' = next /\ UNCHANGED <<result, abandoned>> => AtaInv'
    PROVE  AtaInv'
<1>1. CASE Return(-1)
  BY <1>1, GivingUpKeepsInv
<1>2. CASE UNCHANGED <<pc, result, abandoned>>
  <2>1. DriveOK' /\ OfferIsTrue' /\ View' = View /\ UNCHANGED <<command, status, transfer>>
    BY QuietKeepsDrive DEF AtaInv, driveVars
  <2>2. DriverOK' /\ ReadSoFar' /\ WrittenSoFar'
    BY <1>2, <2>1, DriverIsKept
  <2>3. CommandIsOwn'
    BY <1>2, <2>1, SameCommandIsOwn DEF AtaInv
  <2> QED  BY <2>1, <2>2, <2>3 DEF AtaInv
<1> QED  BY <1>1, <1>2 DEF Poll, Again

LEMMA WaitsKeepInv == AtaInv /\ Waits => AtaInv'
<1> SUFFICES ASSUME AtaInv, Waits  PROVE AtaInv'
  OBVIOUS
<1>0. /\ UNCHANGED <<driveVars, call, buf, before, faulted>>
      /\ UNCHANGED <<command, status, transfer, kind>>
  BY DEF Waits, driveVars
<1>1. DriveOK' /\ OfferIsTrue' /\ View' = View
  BY <1>0, QuietKeepsDrive DEF AtaInv
<1>2. DriveOK /\ CommandIsOwn /\ ReadsBsy \in BOOLEAN /\ ReadsDrq \in BOOLEAN
  BY DEF AtaInv, ReadsBsy, ReadsDrq
<1>3. ~ReadsBsy /\ status # "data" => command = None
  BY <1>2 DEF DriveOK, ReadsBsy
<1>4. ReadsDrq => status = "data" /\ command # None /\ command.op # "none"
  BY <1>2 DEF DriveOK, ReadsDrq
<1>d. status = "data" => command.op \in {"identify", "read", "write"}
  BY <1>2 DEF DriveOK
<1>n. command.op = "none" => command = None
  BY <1>2 DEF DriveOK
<1>5. CASE WaitReady("reset", "select")
  <2>1. ASSUME ~ReadsBsy, pc' = "select", UNCHANGED <<result, abandoned>>  PROVE AtaInv'
    <3>1. ~abandoned => command = None
      <4>1. ~abandoned => command.op \in {"none", "reset"}
        BY <1>2, <1>5 DEF CommandIsOwn, WaitReady
      <4> QED  BY <1>3, <1>d, <1>n, <2>1, <4>1
    <3>2. CommandIsOwn'
      BY <1>0, <2>1, <3>1 DEF CommandIsOwn
    <3>3. DriverOK' /\ ReadSoFar' /\ WrittenSoFar'
      BY <1>0, <1>1, <1>5, <2>1, GoingOnIsKept DEF Setup, WaitReady
    <3> QED  BY <1>1, <3>2, <3>3 DEF AtaInv
  <2> QED  BY <1>0, <1>2, <1>5, <2>1, PollKeepsInv DEF WaitReady
<1>6. CASE WaitReady("select", "probe")
  <2>1. ASSUME ~ReadsBsy, pc' = "probe", UNCHANGED <<result, abandoned>>  PROVE AtaInv'
    <3>1. CommandIsOwn'
      BY <1>0, <1>2, <1>6, <2>1 DEF CommandIsOwn, WaitReady
    <3>2. DriverOK' /\ ReadSoFar' /\ WrittenSoFar'
      BY <1>0, <1>1, <1>6, <2>1, GoingOnIsKept DEF Setup, WaitReady
    <3> QED  BY <1>1, <3>1, <3>2 DEF AtaInv
  <2> QED  BY <1>0, <1>2, <1>6, <2>1, PollKeepsInv DEF WaitReady
<1>7. CASE WaitReady("identify", "signature")
  <2>1. ASSUME ~ReadsBsy, pc' = "signature", UNCHANGED <<result, abandoned>>  PROVE AtaInv'
    <3>1. CommandIsOwn'
      BY <1>0, <1>2, <1>7, <2>1 DEF CommandIsOwn, WaitReady
    <3>2. DriverOK' /\ ReadSoFar' /\ WrittenSoFar'
      BY <1>0, <1>1, <1>7, <2>1, GoingOnIsKept DEF Setup, WaitReady
    <3> QED  BY <1>1, <3>1, <3>2 DEF AtaInv
  <2> QED  BY <1>0, <1>2, <1>7, <2>1, PollKeepsInv DEF WaitReady
<1>8. CASE WaitDrq("identify data", "sectors")
  <2>1. ASSUME ReadsDrq, pc' = "sectors", UNCHANGED <<result, abandoned>>  PROVE AtaInv'
    <3>1. CommandIsOwn'
      BY <1>0, <1>2, <1>4, <1>8, <2>1 DEF CommandIsOwn, WaitDrq
    <3>2. DriverOK' /\ ReadSoFar' /\ WrittenSoFar'
      BY <1>0, <1>1, <1>8, <2>1, GoingOnIsKept DEF Setup, WaitDrq
    <3> QED  BY <1>1, <3>1, <3>2 DEF AtaInv
  <2> QED  BY <1>0, <1>2, <1>8, <2>1, PollKeepsInv DEF WaitDrq
<1>9. CASE WaitReady("ready", "issue")
  <2>1. ASSUME ~ReadsBsy, pc' = "issue", UNCHANGED <<result, abandoned>>  PROVE AtaInv'
    <3>1. CommandIsOwn'
      BY <1>0, <1>2, <1>9, <2>1 DEF CommandIsOwn, WaitReady
    <3>2. DriverOK' /\ ReadSoFar' /\ WrittenSoFar'
      BY <1>0, <1>1, <1>9, <2>1, GoingOnIsKept DEF Filling, WaitReady
    <3> QED  BY <1>1, <3>1, <3>2 DEF AtaInv
  <2> QED  BY <1>0, <1>2, <1>9, <2>1, PollKeepsInv DEF WaitReady
<1>10. CASE WaitDrq("data", "transfer")
  <2>1. ASSUME ReadsDrq, pc' = "transfer", UNCHANGED <<result, abandoned>>  PROVE AtaInv'
    <3>1. ~abandoned => status = "data" /\ command = Own(call.op)
      BY <1>2, <1>4, <1>10, <2>1 DEF CommandIsOwn, WaitDrq
    <3>2. Own(call.op)' = Own(call.op)
      BY <1>0 DEF Own
    <3>3. CommandIsOwn'
      BY <1>0, <2>1, <3>1, <3>2 DEF CommandIsOwn
    <3>4. DriverOK' /\ ReadSoFar' /\ WrittenSoFar'
      BY <1>0, <1>1, <1>10, <2>1, GoingOnIsKept DEF Filling, WaitDrq
    <3> QED  BY <1>1, <3>3, <3>4 DEF AtaInv
  <2> QED  BY <1>0, <1>2, <1>10, <2>1, PollKeepsInv DEF WaitDrq
\* The drive has stored the sector, or has said that it could not.
<1>11. CASE WaitReady("flushed", "next")
  <2>1. ASSUME ~ReadsBsy, pc' = "next", UNCHANGED <<result, abandoned>>  PROVE AtaInv'
    <3>0. pc = "flushed"
      BY <1>11 DEF WaitReady
    <3>1. ~abandoned => command = None
      <4>1. ~abandoned => command.op \in {"none", "flush"} \/ command = Own("store")
        BY <1>2, <3>0 DEF CommandIsOwn
      <4>2. command = Own("store") => command.op = "store"
        BY DEF Own
      <4> QED  BY <1>3, <1>d, <1>n, <2>1, <4>1, <4>2
    <3>2. CommandIsOwn'
      BY <1>0, <2>1, <3>1 DEF CommandIsOwn
    <3>3. call.op = "write" /\ DriverOK'
      BY <1>0, <2>1, <3>0 DEF AtaInv, DriverOK, Setup, Transferring
    <3>4. Stored(call.i + 1)' <=> Stored(call.i + 1)
      BY <1>0, <1>1 DEF Stored, Lbas
    <3>5. ~abandoned /\ ~faulted => Stored(call.i + 1)
      BY <3>0, <3>1, <3>3 DEF AtaInv, WrittenSoFar, None
    <3>6. ReadSoFar' /\ WrittenSoFar'
      BY <1>0, <2>1, <3>3, <3>4, <3>5 DEF ReadSoFar, WrittenSoFar
    <3> QED  BY <1>1, <3>2, <3>3, <3>6 DEF AtaInv
  <2> QED  BY <1>0, <1>2, <1>11, <2>1, PollKeepsInv DEF WaitReady
<1> QED  BY <1>5, <1>6, <1>7, <1>8, <1>9, <1>10, <1>11 DEF Waits

-----------------------------------------------------------------------------
(* The driver: identifying the drive. *)

LEMMA BootKeepsInv == AtaInv /\ Boot => AtaInv'
<1> SUFFICES ASSUME AtaInv, Boot  PROVE AtaInv'
  OBVIOUS
<1>1. /\ pc = "boot" /\ pc' = "reset"
      /\ UNCHANGED <<kind, transfer, medium, cache, call, buf, result, before, abandoned, faulted>>
  BY DEF Boot, ghosts
<1>2. View' = View
  BY <1>1 DEF View
<1>3. DriverOK' /\ ReadSoFar' /\ WrittenSoFar'
  BY <1>1, <1>2, GoingOnIsKept DEF Setup
<1>4. DriveOK /\ OfferIsTrue /\ CommandIsOwn
  BY DEF AtaInv
<1>5. CASE kind \in {"ata", "atapi"}
  <2>1. status' = "busy" /\ command' = [op |-> "reset", lba |-> 0]
    BY <1>5 DEF Boot
  <2>2. command' # None /\ command'.op = "reset" /\ command' \in Command
    BY <2>1 DEF None, Command
  <2>3. DriveOK' /\ OfferIsTrue'
    BY <1>1, <1>4, <1>5, <2>1, <2>2 DEF DriveOK, OfferIsTrue
  <2>4. CommandIsOwn'
    BY <1>1, <2>2 DEF CommandIsOwn
  <2> QED  BY <1>3, <2>3, <2>4 DEF AtaInv
<1>6. CASE kind \notin {"ata", "atapi"}
  <2>1. UNCHANGED driveVars
    BY <1>1, <1>6 DEF Boot, driveVars
  <2>2. DriveOK' /\ OfferIsTrue'
    BY <1>4, <2>1, QuietKeepsDrive
  <2>3. ~abandoned => command.op = "none"
    BY <1>1, <1>4 DEF CommandIsOwn, None
  <2>4. CommandIsOwn'
    BY <1>1, <2>1, <2>3 DEF CommandIsOwn, driveVars
  <2> QED  BY <1>3, <2>2, <2>4 DEF AtaInv
<1> QED  BY <1>5, <1>6

LEMMA ProbeKeepsInv == AtaInv /\ Probe => AtaInv'
<1> SUFFICES ASSUME AtaInv, Probe  PROVE AtaInv'
  OBVIOUS
<1>1. /\ pc = "probe"
      /\ UNCHANGED <<kind, transfer, medium, cache, call, buf, before, faulted>>
  BY DEF Probe
<1>2. CASE kind = "no drive"
  BY <1>1, <1>2, GivingUpKeepsInv DEF Probe, driveVars
<1>3. CASE kind # "no drive"
  <2>1. Accept("identify", 0) /\ pc' = "identify" /\ UNCHANGED <<result, abandoned>>
    BY <1>3 DEF Probe
  <2>2. /\ DriveOK' /\ OfferIsTrue' /\ View' = View
        /\ command' = [op |-> "identify", lba |-> 0] \/ command' = command
    BY <1>1, <2>1, AcceptKeepsDrive DEF AtaInv
  <2>3. ~abandoned => command.op = "none"
    BY <1>1 DEF AtaInv, CommandIsOwn, None
  <2>4. CommandIsOwn'
    BY <2>1, <2>2, <2>3 DEF CommandIsOwn
  <2>5. DriverOK' /\ ReadSoFar' /\ WrittenSoFar'
    BY <1>1, <2>1, <2>2, GoingOnIsKept DEF Setup
  <2> QED  BY <2>2, <2>4, <2>5 DEF AtaInv
<1> QED  BY <1>2, <1>3

LEMMA SignatureKeepsInv == AtaInv /\ Signature => AtaInv'
<1> SUFFICES ASSUME AtaInv, Signature  PROVE AtaInv'
  OBVIOUS
<1>1. pc = "signature" /\ UNCHANGED <<driveVars, call, buf, before, faulted>>
  BY DEF Signature
<1>2. CASE kind = "atapi"
  BY <1>1, <1>2, GivingUpKeepsInv DEF Signature
<1>3. CASE kind # "atapi"
  <2>1. pc' = "identify data" /\ UNCHANGED <<result, abandoned, command>>
    BY <1>1, <1>3 DEF Signature, driveVars
  <2>2. DriveOK' /\ OfferIsTrue' /\ View' = View
    BY <1>1, QuietKeepsDrive DEF AtaInv
  <2>3. CommandIsOwn'
    BY <1>1, <2>1 DEF AtaInv, CommandIsOwn
  <2>4. DriverOK' /\ ReadSoFar' /\ WrittenSoFar'
    BY <1>1, <2>1, <2>2, GoingOnIsKept DEF Setup
  <2> QED  BY <2>2, <2>3, <2>4 DEF AtaInv
<1> QED  BY <1>2, <1>3

LEMMA ReadIdentifyKeepsInv == AtaInv /\ ReadIdentify => AtaInv'
<1> SUFFICES ASSUME AtaInv, ReadIdentify  PROVE AtaInv'
  OBVIOUS
<1>1. /\ pc = "sectors" /\ pc' = "idle"
      /\ status' = (IF status = "data" THEN "ready" ELSE status)
      /\ command' = (IF status = "data" THEN None ELSE command)
      /\ UNCHANGED <<kind, transfer, medium, cache, call, buf, before, abandoned, faulted>>
  BY DEF ReadIdentify, ghosts
<1>2. call.op = "init"
  BY <1>1 DEF AtaInv, DriverOK, Setup
<1>3. DriverOK' /\ ReadSoFar' /\ WrittenSoFar'
  BY <1>1, <1>2 DEF AtaInv, DriverOK, ReadSoFar, WrittenSoFar, Setup, Transferring
<1>4. None \in Command
  BY DEF None, Command
<1>5. View' = View
  BY <1>1 DEF View
<1>6. DriveOK' /\ OfferIsTrue'
  <2>1. CASE status = "data"
    BY <1>1, <1>4, <2>1 DEF AtaInv, DriveOK, OfferIsTrue, None
  <2>2. CASE status # "data"
    BY <1>1, <2>2, QuietKeepsDrive DEF AtaInv, driveVars
  <2> QED  BY <2>1, <2>2
<1>7. ~abandoned => status = "data"
  BY <1>1 DEF AtaInv, CommandIsOwn
<1>8. CommandIsOwn'
  BY <1>1, <1>7 DEF CommandIsOwn
<1> QED  BY <1>3, <1>6, <1>8 DEF AtaInv

-----------------------------------------------------------------------------
(* The driver: transfers. *)

\* Sector numbers do not wrap: every sector of a call can be named.
LEMMA LbaIsAsked ==
    ASSUME DriverOK, pc \in Transferring
    PROVE  Lba = call.lba + call.i /\ Lba \in Nat
<1>1. /\ call.lba \in Nat /\ call.lba <= MaxLba /\ call.i \in Nat
      /\ call.i < Len(call.data) /\ Len(call.data) <= MaxCount /\ Len(call.data) \in Nat
  BY AtaAssumption DEF DriverOK, Call
<1>2. MaxLba \in Nat /\ MaxCount \in Nat /\ LbaLimit \in Nat /\ MaxLba + MaxCount < LbaLimit
  BY AtaAssumption
<1>3. call.lba + call.i \in 0 .. LbaLimit - 1
  BY ONLY <1>1, <1>2
<1> QED  BY <1>2, <1>3 DEF Lba

LEMMA IssueKeepsInv == AtaInv /\ Issue => AtaInv'
<1> SUFFICES ASSUME AtaInv, Issue  PROVE AtaInv'
  OBVIOUS
<1>1. /\ pc = "issue" /\ pc' = "data" /\ Accept(call.op, Lba)
      /\ UNCHANGED <<kind, transfer, medium, cache, call, buf, result, before, abandoned, faulted>>
  BY DEF Issue, ghosts
<1>2. call.op \in {"read", "write"} /\ Lba = call.lba + call.i /\ Lba \in Nat
  BY <1>1, LbaIsAsked DEF AtaInv, DriverOK, Transferring
<1>3. /\ DriveOK' /\ OfferIsTrue' /\ View' = View
      /\ command' = [op |-> call.op, lba |-> Lba] \/ command' = command
  BY <1>1, <1>2, AcceptKeepsDrive DEF AtaInv
<1>4. ~abandoned => command = None
  BY <1>1 DEF AtaInv, CommandIsOwn
<1>5. [op |-> call.op, lba |-> Lba] = Own(call.op)'
  BY <1>1, <1>2 DEF Own
<1>6. CommandIsOwn'
  BY <1>1, <1>3, <1>4, <1>5 DEF CommandIsOwn
<1>7. DriverOK' /\ ReadSoFar' /\ WrittenSoFar'
  BY <1>1, <1>3, GoingOnIsKept DEF Filling
<1> QED  BY <1>3, <1>6, <1>7 DEF AtaInv

LEMMA ReadWordsKeepsInv == AtaInv /\ ReadWords => AtaInv'
<1> SUFFICES ASSUME AtaInv, ReadWords  PROVE AtaInv'
  OBVIOUS
<1> DEFINE offered == status = "data" /\ command.op \in {"read", "identify"}
<1>1. /\ pc = "transfer" /\ pc' = "next" /\ call.op = "read"
      /\ buf' = Append(buf, IF offered THEN transfer ELSE Noise)
      /\ status' = (IF offered THEN "ready" ELSE status)
      /\ command' = (IF offered THEN None ELSE command)
      /\ UNCHANGED <<kind, transfer, medium, cache, call, result, before, abandoned, faulted>>
  BY DEF ReadWords, ghosts
<1>2. None \in Command /\ View' = View
  BY <1>1 DEF None, Command, View
<1>3. DriveOK' /\ OfferIsTrue'
  <2>1. CASE offered
    BY <1>1, <1>2, <2>1 DEF AtaInv, DriveOK, OfferIsTrue, None
  <2>2. CASE ~offered
    BY <1>1, <2>2, QuietKeepsDrive DEF AtaInv, driveVars
  <2> QED  BY <2>1, <2>2
<1>4. ~abandoned => offered /\ command = Own("read")
  <2>1. Own("read").op = "read"
    BY DEF Own
  <2> QED  BY <1>1, <2>1 DEF AtaInv, CommandIsOwn
<1>5. CommandIsOwn'
  BY <1>1, <1>4 DEF CommandIsOwn
<1>6. DriverOK'
  <2>1. (IF offered THEN transfer ELSE Noise) \in Content
    BY DEF AtaInv, DriveOK, Content
  <2>2. buf' \in Seq(Content)
    BY <1>1, <2>1 DEF AtaInv, DriverOK
  <2> QED  BY <1>1, <2>2 DEF AtaInv, DriverOK, Setup, Transferring
<1>7. ReadSoFar'
  <2> SUFFICES ASSUME ~abandoned  PROVE Filled(call.i + 1)'
    BY <1>1 DEF ReadSoFar
  <2>1. Filled(call.i)
    BY <1>1 DEF AtaInv, ReadSoFar
  <2>2. call.i \in Nat /\ call.lba \in Nat /\ buf \in Seq(Content)
    BY DEF AtaInv, DriverOK, Call
  <2>3. buf' = Append(buf, View[call.lba + call.i])
    <3>1. command.lba = call.lba + call.i /\ command.op = "read"
      BY <1>4 DEF Own
    <3> QED  BY <1>1, <1>4, <3>1 DEF AtaInv, OfferIsTrue
  <2>4. Len(buf') = call.i + 1 /\ \A k \in 1 .. call.i + 1 : buf'[k] = View[call.lba + k - 1]
    <3>1. Len(buf) = call.i /\ \A k \in 1 .. call.i : buf[k] = View[call.lba + k - 1]
      BY <2>1 DEF Filled
    <3>2. Len(buf') = call.i + 1 /\ buf'[call.i + 1] = View[call.lba + call.i]
      BY <2>2, <2>3, <3>1
    <3>3. ASSUME NEW k \in 1 .. call.i  PROVE buf'[k] = View[call.lba + k - 1]
      BY <2>2, <2>3, <3>1
    <3>4. ASSUME NEW k \in 1 .. call.i + 1, k \notin 1 .. call.i
          PROVE  buf'[k] = View[call.lba + k - 1]
      <4>1. k = call.i + 1 /\ call.lba + k - 1 = call.lba + call.i
        BY <2>2, <3>4
      <4> QED  BY <3>2, <4>1
    <3> QED  BY <3>2, <3>3, <3>4
  <2> QED  BY <1>1, <1>2, <2>4 DEF Filled
<1>8. WrittenSoFar'
  BY <1>1 DEF WrittenSoFar
<1> QED  BY <1>3, <1>5, <1>6, <1>7, <1>8 DEF AtaInv

LEMMA WriteWordsKeepsInv == AtaInv /\ WriteWords => AtaInv'
<1> SUFFICES ASSUME AtaInv, WriteWords  PROVE AtaInv'
  OBVIOUS
<1> DEFINE wanted == status = "data" /\ command.op = "write"
           word == IF call.i + 1 \in DOMAIN call.data THEN call.data[call.i + 1] ELSE Noise
<1>1. /\ pc = "transfer" /\ pc' = "flush" /\ call.op = "write"
      /\ transfer' = (IF wanted THEN word ELSE transfer)
      /\ status' = (IF wanted THEN "busy" ELSE status)
      /\ command' = (IF wanted THEN [command EXCEPT !.op = "store"] ELSE command)
      /\ UNCHANGED <<kind, medium, cache, call, buf, result, before, abandoned, faulted>>
  BY DEF WriteWords, ghosts
<1>2. View' = View
  BY <1>1 DEF View
<1>3. word = call.data[call.i + 1] /\ word \in Content
  <2>1. /\ call.i \in Nat /\ call.data \in Seq(Content) /\ call.i < Len(call.data)
    BY <1>1 DEF AtaInv, DriverOK, Transferring, Call
  <2>2. call.i + 1 \in DOMAIN call.data /\ call.data[call.i + 1] \in Content
    BY <2>1
  <2> QED  BY <2>2
<1>4. /\ DriveOK /\ command \in Command
      /\ wanted => /\ [command EXCEPT !.op = "store"] \in Command
                   /\ [command EXCEPT !.op = "store"].op = "store"
                   /\ [command EXCEPT !.op = "store"].lba \in Lbas
                   /\ [command EXCEPT !.op = "store"] # None
  BY DEF AtaInv, DriveOK, Command, None
<1>5. DriveOK' /\ OfferIsTrue'
  <2>1. CASE wanted
    BY <1>1, <1>3, <1>4, <2>1 DEF DriveOK, OfferIsTrue
  <2>2. CASE ~wanted
    BY <1>1, <1>2, <2>2, QuietKeepsDrive DEF AtaInv, driveVars
  <2> QED  BY <2>1, <2>2
<1>6. ~abandoned => wanted /\ command' = Own("store")' /\ command'.op = "store"
  <2>1. Own("write").op = "write" /\ [Own("write") EXCEPT !.op = "store"] = Own("store")
    BY DEF Own
  <2>2. ~abandoned => wanted /\ command = Own("write")
    BY <1>1, <2>1 DEF AtaInv, CommandIsOwn
  <2>3. Own("store")' = Own("store") /\ Own("store").op = "store"
    BY <1>1 DEF Own
  <2> QED  BY <1>1, <2>1, <2>2, <2>3
<1>7. CommandIsOwn'
  BY <1>1, <1>6 DEF CommandIsOwn
<1>8. DriverOK'
  BY <1>1 DEF AtaInv, DriverOK, Setup, Transferring
<1>9. ReadSoFar'
  BY <1>1 DEF ReadSoFar
<1>10. WrittenSoFar'
  <2>1. Stored(call.i)' <=> Stored(call.i)
    BY <1>1, <1>2 DEF Stored, Lbas
  <2>2. ~abandoned /\ ~faulted => Stored(call.i)
    BY <1>1 DEF AtaInv, WrittenSoFar
  <2> QED  BY <1>1, <1>3, <1>6, <2>1, <2>2 DEF WrittenSoFar
<1> QED  BY <1>5, <1>7, <1>8, <1>9, <1>10 DEF AtaInv

\* FLUSH is ignored by a drive that still stores the sector.
LEMMA FlushKeepsInv == AtaInv /\ Flush => AtaInv'
<1> SUFFICES ASSUME AtaInv, Flush  PROVE AtaInv'
  OBVIOUS
<1>1. /\ pc = "flush" /\ pc' = "flushed" /\ Accept("flush", 0)
      /\ UNCHANGED <<kind, transfer, medium, cache, call, buf, result, before, abandoned, faulted>>
  BY DEF Flush, ghosts
<1>2. /\ DriveOK' /\ OfferIsTrue' /\ View' = View
      /\ \/ command' = [op |-> "flush", lba |-> 0] /\ command = None
         \/ command' = command
  BY <1>1, AcceptKeepsDrive DEF AtaInv
<1>3. ~abandoned => command.op \in {"none", "flush"} \/ command = Own("store")
  BY <1>1 DEF AtaInv, CommandIsOwn
<1>4. Own("store")' = Own("store")
  BY <1>1 DEF Own
<1>5. CommandIsOwn'
  BY <1>1, <1>2, <1>3, <1>4 DEF CommandIsOwn
<1>6. call.op = "write" /\ DriverOK'
  BY <1>1 DEF AtaInv, DriverOK, Setup, Transferring
<1>7. command'.op = "store" <=> command.op = "store"
  BY <1>2 DEF None
<1>8. /\ Stored(call.i)' <=> Stored(call.i)
      /\ Stored(call.i + 1)' <=> Stored(call.i + 1)
  BY <1>1, <1>2 DEF Stored, Lbas
<1>9. ReadSoFar' /\ WrittenSoFar'
  BY <1>1, <1>6, <1>7, <1>8 DEF AtaInv, ReadSoFar, WrittenSoFar
<1> QED  BY <1>2, <1>5, <1>6, <1>9 DEF AtaInv

LEMMA SectorDoneKeepsInv == AtaInv /\ SectorDone => AtaInv'
<1> SUFFICES ASSUME AtaInv, SectorDone  PROVE AtaInv'
  OBVIOUS
<1>1. pc = "next" /\ NextSector /\ UNCHANGED <<driveVars, buf, before, faulted>>
  BY DEF SectorDone
<1>2. DriveOK' /\ OfferIsTrue' /\ View' = View /\ command' = command
  BY <1>1, QuietKeepsDrive DEF AtaInv, driveVars
<1>3. ~abandoned => command = None
  BY <1>1 DEF AtaInv, CommandIsOwn
<1>4. /\ call \in Call /\ call.i \in Nat /\ call.i < Len(call.data) /\ Len(call.data) \in Nat
      /\ call.op \in {"read", "write"} /\ abandoned \in BOOLEAN
  BY <1>1 DEF AtaInv, DriverOK, Transferring, Call
<1>5. \A n \in Int : /\ (Stored(n) /\ call' = call => Stored(n)')
                     /\ (Filled(n) /\ call' = call => Filled(n)')
  BY <1>1, <1>2 DEF Stored, Filled, Lbas
<1>6. ~abandoned /\ call.op = "read" => Filled(call.i + 1)
  BY <1>1 DEF AtaInv, ReadSoFar
<1>7. ~abandoned /\ ~faulted /\ call.op = "write" => Stored(call.i + 1)
  BY <1>1 DEF AtaInv, WrittenSoFar
<1>8. CASE Last
  <2>1. /\ pc' = "idle" /\ result' = 0 /\ abandoned' = (abandoned \/ command # None)
        /\ call' = call /\ call.i + 1 = Len(call.data)
    BY <1>1, <1>8 DEF NextSector, Return, Last
  <2>2. DriverOK' /\ CommandIsOwn'
    BY <1>1, <1>2, <1>3, <1>4, <2>1 DEF AtaInv, DriverOK, CommandIsOwn, Setup, Transferring
  <2>3. ReadSoFar'
    BY <1>4, <1>5, <1>6, <2>1 DEF ReadSoFar
  <2>4. WrittenSoFar'
    <3> SUFFICES ASSUME ~abandoned, ~faulted, call.op = "write"
                 PROVE  \E n \in 0 .. Len(call.data) : n = Len(call.data) /\ Stored(n)'
      BY <1>1, <1>3, <1>4, <2>1 DEF WrittenSoFar
    <3>1. Stored(call.i + 1)'
      BY <1>4, <1>5, <1>7, <2>1
    <3> QED  BY <1>4, <2>1, <3>1
  <2> QED  BY <1>2, <2>2, <2>3, <2>4 DEF AtaInv
<1>9. CASE ~Last
  <2>1. /\ pc' = "ready" /\ call' = [call EXCEPT !.i = @ + 1]
        /\ UNCHANGED <<result, abandoned>> /\ call.i + 1 # Len(call.data)
    BY <1>1, <1>9 DEF NextSector, Last
  <2>2. /\ call' \in Call /\ call'.i = call.i + 1
        /\ call'.op = call.op /\ call'.lba = call.lba /\ call'.data = call.data
    BY <1>4, <2>1 DEF Call
  <2>3. DriverOK' /\ CommandIsOwn'
    BY <1>1, <1>2, <1>3, <1>4, <2>1, <2>2 DEF AtaInv, DriverOK, CommandIsOwn, Setup, Transferring
  <2>4. (Filled(call.i + 1) => Filled(call.i)') /\ (Stored(call.i + 1) => Stored(call.i)')
    BY <1>1, <1>2, <2>2 DEF Filled, Stored, Lbas
  <2>5. ReadSoFar' /\ WrittenSoFar'
    BY <1>1, <1>6, <1>7, <2>1, <2>2, <2>4 DEF ReadSoFar, WrittenSoFar
  <2> QED  BY <1>2, <2>3, <2>5 DEF AtaInv
<1> QED  BY <1>8, <1>9

\* A call begins with nothing read and nothing written.
LEMMA StartKeepsInv ==
    ASSUME AtaInv, NEW op \in {"read", "write"}, NEW lba \in 0 .. MaxLba,
           NEW data \in Seq(Content), Len(data) <= MaxCount, Start(op, lba, data)
    PROVE  AtaInv'
<1>1. /\ pc = "idle" /\ call' = [op |-> op, lba |-> lba, data |-> data, i |-> 0]
      /\ buf' = <<>> /\ before' = View
      /\ \/ pc' = "ready" /\ data # <<>>
         \/ pc' = "idle" /\ (result' = 0 => data = <<>>)
      /\ UNCHANGED <<driveVars, abandoned, faulted>>
  BY DEF Start
<1>2. DriveOK' /\ OfferIsTrue' /\ View' = View /\ command' = command
  BY <1>1, QuietKeepsDrive DEF AtaInv, driveVars
<1>3. /\ call' \in Call /\ call'.op = op /\ call'.lba = lba /\ call'.data = data /\ call'.i = 0
  BY <1>1 DEF Call
<1>4. Len(data) \in Nat /\ (data # <<>> => 0 < Len(data)) /\ (data = <<>> => Len(data) = 0)
  OBVIOUS
<1>5. DriverOK'
  <2>1. buf' \in Seq(Content) /\ abandoned' \in BOOLEAN /\ faulted' \in BOOLEAN
    BY <1>1 DEF AtaInv, DriverOK
  <2>2. pc' \in {"ready", "idle"} /\ (pc' = "ready" => 0 < Len(data))
    BY <1>1, <1>4
  <2> QED  BY <1>3, <2>1, <2>2 DEF DriverOK, Setup, Transferring
<1>6. CommandIsOwn'
  BY <1>1, <1>2 DEF AtaInv, CommandIsOwn
<1>7. Filled(0)' /\ Stored(0)'
  <2>1. Len(buf') = 0
    BY <1>1
  <2>2. ASSUME NEW s \in Lbas
        PROVE  View'[s] = IF s \in lba .. lba + 0 - 1 THEN data[s - lba + 1] ELSE before'[s]
    BY <1>1, <1>2
  <2> QED  BY <1>3, <2>1, <2>2 DEF Filled, Stored, Lbas
<1>8. ReadSoFar'
  BY <1>1, <1>3, <1>4, <1>7 DEF ReadSoFar
<1>9. WrittenSoFar'
  <2>1. 0 \in 0 .. Len(data) /\ (result' = 0 /\ pc' = "idle" => 0 = Len(data))
    BY <1>1, <1>4
  <2> QED  BY <1>1, <1>3, <1>7, <2>1 DEF WrittenSoFar
<1> QED  BY <1>2, <1>5, <1>6, <1>8, <1>9 DEF AtaInv

-----------------------------------------------------------------------------
(* The theorems. *)

LEMMA InitInv == Init => AtaInv
<1> SUFFICES ASSUME Init  PROVE AtaInv
  OBVIOUS
<1>1. /\ pc = "boot" /\ call = [op |-> "init", lba |-> 0, data |-> <<>>, i |-> 0]
      /\ buf = <<>> /\ status = "ready" /\ command = None /\ transfer = Noise
      /\ medium \in [Lbas -> Data] /\ cache = [s \in {} |-> Noise]
      /\ abandoned = FALSE /\ faulted = FALSE
  BY DEF Init
<1>2. DriveOK
  BY <1>1 DEF DriveOK, None, Command, Content
<1>3. call \in Call /\ Len(call.data) = 0 /\ call.op = "init"
  BY <1>1, AtaAssumption DEF Call
<1>4. DriverOK
  <2>1. Len(call.data) <= MaxCount /\ buf \in Seq(Content)
    BY <1>1, <1>3, AtaAssumption
  <2> QED  BY <1>1, <1>3, <2>1 DEF DriverOK, Setup, Transferring
<1>5. CommandIsOwn /\ OfferIsTrue
  BY <1>1 DEF CommandIsOwn, OfferIsTrue
<1>6. ReadSoFar /\ WrittenSoFar
  BY <1>3 DEF ReadSoFar, WrittenSoFar
<1> QED  BY <1>2, <1>4, <1>5, <1>6 DEF AtaInv

LEMMA StutterInv == AtaInv /\ UNCHANGED vars => AtaInv'
<1> SUFFICES ASSUME AtaInv, UNCHANGED vars  PROVE AtaInv'
  OBVIOUS
<1>1. /\ UNCHANGED driveVars
      /\ UNCHANGED <<pc, call, buf, result, before, abandoned, faulted, command, status, transfer>>
  BY DEF vars, driveVars, driverVars, ghosts
<1>2. DriveOK' /\ OfferIsTrue' /\ View' = View
  BY <1>1, QuietKeepsDrive DEF AtaInv
<1>3. DriverOK' /\ ReadSoFar' /\ WrittenSoFar'
  BY <1>1, <1>2, DriverIsKept
<1>4. CommandIsOwn'
  BY <1>1, SameCommandIsOwn DEF AtaInv
<1> QED  BY <1>2, <1>3, <1>4 DEF AtaInv

LEMMA NextInv == AtaInv /\ [Next]_vars => AtaInv'
<1> SUFFICES ASSUME AtaInv, [Next]_vars  PROVE AtaInv'
  OBVIOUS
<1>1. CASE DriverStep
  BY <1>1, WaitsKeepInv, BootKeepsInv, ProbeKeepsInv, SignatureKeepsInv, ReadIdentifyKeepsInv,
     IssueKeepsInv, ReadWordsKeepsInv, WriteWordsKeepsInv, FlushKeepsInv, SectorDoneKeepsInv
     DEF DriverStep
<1>2. CASE DriveStep
  BY <1>2, DriveKeepsInv
<1>3. ASSUME NEW lba \in 0 .. MaxLba, NEW n \in 0 .. MaxCount,
             Start("read", lba, [k \in 1 .. n |-> Noise])
      PROVE  AtaInv'
  <2>1. [k \in 1 .. n |-> Noise] \in Seq(Content) /\ Len([k \in 1 .. n |-> Noise]) = n
    BY AtaAssumption DEF Content
  <2> QED  BY <1>3, <2>1, StartKeepsInv, AtaAssumption
<1>4. ASSUME NEW lba \in 0 .. MaxLba, NEW n \in 0 .. MaxCount, NEW data \in [1 .. n -> Data],
             Start("write", lba, data)
      PROVE  AtaInv'
  <2>1. data \in Seq(Content) /\ Len(data) = n
    BY AtaAssumption DEF Content
  <2> QED  BY <1>4, <2>1, StartKeepsInv, AtaAssumption
<1>5. CASE UNCHANGED vars
  BY <1>5, StutterInv
<1> QED  BY <1>1, <1>2, <1>3, <1>4, <1>5 DEF Next

\* The whole invariant: drive and driver agree on the command they are at, as
\* long as no call left one behind.
THEOREM AtaInvariant == Spec => []AtaInv
  BY InitInv, NextInv, PTL DEF Spec

\* ata_read_sectors: a read that returns 0 has filled the buffer with what
\* the sectors hold, unless an earlier call left a command in the drive.
THEOREM ReadsAreRight == Spec => []ReadsAreTrue
<1>1. AtaInv => ReadsAreTrue
  <2> SUFFICES ASSUME AtaInv, pc = "idle", call.op = "read", result = 0, ~abandoned
               PROVE  Len(buf) = Len(call.data) /\ \A k \in DOMAIN buf : buf[k] = View[call.lba + k - 1]
    BY DEF ReadsAreTrue
  <2>1. Filled(Len(call.data))
    BY DEF AtaInv, ReadSoFar
  <2>2. buf \in Seq(Content) /\ DOMAIN buf = 1 .. Len(buf)
    BY DEF AtaInv, DriverOK
  <2> QED  BY <2>1, <2>2 DEF Filled
<1> QED  BY <1>1, AtaInvariant, PTL

\* ata_write_sectors: however a write ends, the sectors it changed are its
\* first ones, and all of them when it returns 0 and no store failed.
THEOREM WritesArePrefixes == Spec => []WriteIsAPrefix
<1>1. AtaInv => WriteIsAPrefix
  <2> SUFFICES ASSUME AtaInv, pc = "idle", call.op = "write", ~abandoned, ~faulted
               PROVE  \E n \in 0 .. Len(call.data) :
                        /\ result = 0 => n = Len(call.data)
                        /\ View = [s \in Lbas |-> IF s \in call.lba .. call.lba + n - 1
                                                  THEN call.data[s - call.lba + 1] ELSE before[s]]
    BY DEF WriteIsAPrefix
  <2>1. PICK n \in 0 .. Len(call.data) : (result = 0 => n = Len(call.data)) /\ Stored(n)
    BY DEF AtaInv, WrittenSoFar
  <2>2. View = [s \in Lbas |-> IF s \in call.lba .. call.lba + n - 1
                               THEN call.data[s - call.lba + 1] ELSE before[s]]
    BY <2>1 DEF Stored, View
  <2> QED  BY <2>1, <2>2
<1> QED  BY <1>1, AtaInvariant, PTL

\* No step of the driver changes a sector that can be read, and of the steps
\* of the drive only the store of the running write does, in a sector that
\* write was asked for.
LEMMA StepChangesOnlyAsked ==
    ASSUME AtaInv, [Next]_vars, NEW s \in Lbas, View'[s] # View[s], ~abandoned
    PROVE  call.op = "write" /\ pc # "idle" /\ s \in Asked
<1>1. CASE UNCHANGED <<medium, cache>>
  BY <1>1 DEF View
<1>2. DriverStep \/ (\E lba \in 0..MaxLba, n \in 0..MaxCount :
                        \/ Start("read", lba, [k \in 1..n |-> Noise])
                        \/ \E data \in [1..n -> Data] : Start("write", lba, data))
        => UNCHANGED <<medium, cache>>
  BY DEF DriverStep, Start, Waits, Boot, Probe, Signature, ReadIdentify, Issue, ReadWords,
         WriteWords, Flush, SectorDone, driveVars
<1>3. UNCHANGED vars => UNCHANGED <<medium, cache>>
  BY DEF vars, driveVars
<1>4. CASE DriveStep
  <2>1. UNCHANGED kind
    BY <1>4 DEF DriveStep
  <2>2. DriveReset \/ DriveRequest => UNCHANGED <<medium, cache>>
    BY DEF DriveReset, DriveRequest, Refuse
  <2>3. DriveFlush => View' = View
    BY <2>1, FlushKeepsView DEF AtaInv
  <2>4. (\E t \in Lbas : WriteBack(t)) => View' = View
    BY <2>1, WriteBackKeepsView DEF AtaInv
  <2>5. CASE DriveStore
    <3>1. command.op = "store" /\ (UNCHANGED <<medium, cache>> \/
            /\ cache' = [t \in DOMAIN cache \cup {command.lba} |->
                            IF t = command.lba THEN transfer ELSE cache[t]]
            /\ status' = "ready" /\ command' = None
            /\ UNCHANGED <<transfer, medium, faulted>>)
      BY <2>5 DEF DriveStore, Refuse
    <3>0. ~UNCHANGED <<medium, cache>>
      BY DEF View
    <3>2. View' = [View EXCEPT ![command.lba] = transfer]
      BY <2>1, <3>0, <3>1, StoreSetsOne DEF AtaInv
    <3>3. s = command.lba
      BY <3>2, ViewHasContents DEF AtaInv
    <3>4. pc \in {"flush", "flushed"} /\ command = Own("store") /\ call.op = "write"
      <4>1. status = "busy" /\ command.op = "store" /\ DriverOK /\ DriveOK /\ CommandIsOwn
        BY <2>5, <3>1 DEF DriveStore, AtaInv
      <4>2. None.op = "none" /\ \A op : Own(op).op = op
        BY DEF None, Own
      <4> QED  BY <4>1, <4>2 DEF CommandIsOwn, DriverOK, DriveOK, Setup, Transferring
    <3>5. call.lba \in Nat /\ call.i \in Nat /\ call.i < Len(call.data) /\ Len(call.data) \in Nat
      BY <3>4 DEF AtaInv, DriverOK, Transferring, Call
    <3>6. s = call.lba + call.i
      BY <3>3, <3>4 DEF Own
    <3> QED  BY <3>4, <3>5, <3>6 DEF Asked
  <2> QED  BY <1>1, <1>4, <2>2, <2>3, <2>4, <2>5 DEF DriveStep
<1> QED  BY <1>1, <1>2, <1>3, <1>4 DEF Next

\* Until a call leaves a command behind, no read, no failed call and no
\* answer of the drive touches a sector that was not asked to be written.
THEOREM OnlyWritesChangeSectors == Spec => OnlyTheWriteChangesSectors
<1>1. AtaInv /\ [Next]_vars =>
        [\A s \in Lbas : View'[s] # View[s] /\ ~abandoned =>
            call.op = "write" /\ pc # "idle" /\ s \in Asked]_vars
  BY StepChangesOnlyAsked
<1> QED  BY <1>1, AtaInvariant, PTL DEF Spec, OnlyTheWriteChangesSectors

=============================================================================
