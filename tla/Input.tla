------------------------------- MODULE Input --------------------------------
(***************************************************************************)
(* How a byte from the keyboard or the mouse reaches its driver: the 8042  *)
(* controller with its single output buffer, the two 8259 interrupt        *)
(* controllers, the interrupt handlers (src/kernel/idt.c, pic.c, pit.c,    *)
(* and the port reads of keyboard.c and mouse.c), the scheduler the timer  *)
(* calls (sched.c, context_switch.S), mouse_init talking to the controller *)
(* by polling, and the kernel's main loop that sleeps in hlt.              *)
(*                                                                         *)
(* The instructions of a handler that touch a port are steps of their own; *)
(* the devices act between any two of them.  The interrupt controller      *)
(* keeps a request latched when the byte that raised it has been taken by  *)
(* polling, as the emulated one this kernel is run on does.  Characters    *)
(* and movements are counted, not spelled: module Keyboard has the         *)
(* keyboard's tables and ring, module Screen what a packet does to the     *)
(* cursor.                                                                 *)
(***************************************************************************)
EXTENDS Integers, Sequences, FiniteSets, FiniteSetsExt

CONSTANTS
    MaxKeys,    \* keys pressed
    MaxPackets, \* packets the mouse sends
    YieldEvery, \* ticks between two calls of sched_yield (10 in the code)
    Quiet       \* nobody touches keyboard or mouse before the kernel is up

ASSUME InputAssumption == MaxKeys \in Nat /\ MaxPackets \in Nat
                            /\ YieldEvery \in Nat \ {0} /\ Quiet \in BOOLEAN

VARIABLES
    irr,         \* interrupt requests latched
    isr,         \* interrupts in service; 2 is the slave's line on the master
    imr,         \* masked lines
    iflag,       \* the processor takes interrupts
    obuf,        \* output buffer of the 8042, Empty or a byte
    kbd_irq, aux_irq, \* the 8042 raises IRQ 1 for the keyboard's bytes, 12 for the mouse's
    status,      \* where the byte came from that mouse_init took for the configuration
    answers,     \* bytes the controller itself has still to deliver
    keys,        \* bytes of the keyboard on their way
    packets,     \* bytes of the mouse on their way
    streaming,   \* the mouse reports movements
    pressed, moves,  \* what the user has done so far
    pc,          \* where the kernel is
    frames,      \* the kernel stack: the interrupt handlers running, innermost first
    pit_ticks,   \* timer interrupts, modulo YieldEvery
    current_task, rsp, \* the task running, or "none"; its saved stack
    mouse_cycle, mouse_bytes, \* the packet decoder
    chars,       \* characters in the keyboard's ring
    moved        \* the mouse has changed since the last mouse_poll

picVars == <<irr, isr, imr>>
deviceVars == <<obuf, kbd_irq, aux_irq, status, answers, keys, packets, streaming, pressed, moves>>
driverVars == <<mouse_cycle, mouse_bytes, chars, moved>>
schedVars == <<pit_ticks, current_task, rsp>>
vars == <<picVars, iflag, deviceVars, pc, frames, schedVars, driverVars>>

-----------------------------------------------------------------------------
\* A byte names where it comes from; a mouse byte its packet and its place
\* in it, 0 for the answer to a command.  An answer has bit 3 set (0xFA), a
\* first byte too; a movement may have it or not.
Byte(src, packet, place, bit3) ==
    [src |-> src, packet |-> packet, place |-> place, bit3 |-> bit3]
Empty == Byte("none", 0, 0, FALSE)
Config == Byte("controller", 0, 0, FALSE)
Key == Byte("keyboard", 0, 0, FALSE)
Ack == Byte("mouse", 0, 0, TRUE)

Lines == {0, 1, 12}
Line(byte) == IF byte.src = "mouse" THEN 12 ELSE 1
OnMaster(irq) == IF irq >= 8 THEN 2 ELSE irq

Init ==
    /\ irr = {} /\ isr = {}
    /\ imr = Lines
    /\ iflag = FALSE
    /\ obuf = Empty
    /\ kbd_irq = TRUE /\ aux_irq = FALSE /\ status = "none"
    /\ answers = <<>> /\ keys = <<>> /\ packets = <<>>
    /\ streaming = FALSE
    /\ pressed = 0 /\ moves = 0
    /\ pc = "unmask"
    /\ frames = <<>>
    /\ pit_ticks = 0 /\ current_task = "none" /\ rsp = <<>>
    /\ mouse_cycle = 0
    /\ mouse_bytes = [i \in 0..2 |-> Empty]
    /\ chars = 0
    /\ moved = FALSE

-----------------------------------------------------------------------------
(* The user and the devices. *)

Booting == pc \in {"unmask", "read config", "config", "write config", "defaults",
                   "defaults ack", "stream", "stream ack", "sched", "sti", "settle"}
Idle == UNCHANGED <<isr, imr, iflag, pc, frames, schedVars, driverVars>>

Press ==
    /\ Quiet => ~Booting
    /\ pressed < MaxKeys
    /\ pressed' = pressed + 1
    /\ keys' = Append(keys, Key)
    /\ UNCHANGED <<irr, obuf, kbd_irq, aux_irq, status, answers, packets, streaming, moves>> /\ Idle

Move ==
    /\ Quiet => ~Booting
    /\ streaming
    /\ moves < MaxPackets
    /\ moves' = moves + 1
    /\ \E bit3 \in BOOLEAN :
        packets' = packets \o [i \in 1..3 |-> Byte("mouse", moves', i, i = 1 \/ bit3)]
    /\ UNCHANGED <<irr, obuf, kbd_irq, aux_irq, status, answers, keys, streaming, pressed>> /\ Idle

\* The controller puts the next byte of one source into its empty buffer and
\* raises that source's line.
Load ==
    /\ obuf = Empty
    /\ \/ /\ answers # <<>>
          /\ obuf' = Head(answers) /\ answers' = Tail(answers)
          /\ UNCHANGED <<keys, packets>>
       \/ /\ keys # <<>>
          /\ obuf' = Head(keys) /\ keys' = Tail(keys)
          /\ UNCHANGED <<answers, packets>>
       \/ /\ packets # <<>>
          /\ obuf' = Head(packets) /\ packets' = Tail(packets)
          /\ UNCHANGED <<answers, keys>>
    /\ irr' = irr \cup {irq \in {Line(obuf')} : IF irq = 1 THEN kbd_irq ELSE aux_irq}
    /\ UNCHANGED <<kbd_irq, aux_irq, status, streaming, pressed, moves>> /\ Idle

\* Channel 0 of the PIT.  Its period outlasts the handlers of what is
\* latched; a tick that meets other requests is one that came before them.
Tick ==
    /\ irr = {}
    /\ irr' = {0}
    /\ UNCHANGED deviceVars /\ Idle

-----------------------------------------------------------------------------
(* Interrupts. *)

\* The master lets a request through when nothing of its priority or a
\* higher one is in service.
Deliverable(irq) ==
    /\ irq \in irr \ imr
    /\ irq >= 8 => 2 \notin imr
    /\ irq \notin isr
    /\ \A level \in isr \cap 0..7 : OnMaster(irq) < level

\* Mutant: the gates leave interrupts enabled.
GateKeepsInterruptsOn == TRUE
\* The gates are of type 0x8E: the processor clears IF on entry.
GateInterruptsOn == FALSE

\* Highest priority first; a hlt ends when an interrupt is taken.
Dispatch(irq) ==
    /\ iflag
    /\ Deliverable(irq)
    /\ \A other \in Lines : Deliverable(other) => irq <= other
    /\ irr' = irr \ {irq}
    /\ isr' = isr \cup {irq, OnMaster(irq)}
    /\ frames' = <<[irq |-> irq, at |-> "entry"]>> \o frames
    /\ iflag' = GateInterruptsOn
    /\ pc' = IF pc = "halted" THEN "clock" ELSE pc
    /\ UNCHANGED <<imr, deviceVars, schedVars, driverVars>>

\* A non-specific end of interrupt: the highest priority in service ends.
EndOnMaster(set) == IF set \cap 0..7 = {} THEN set ELSE set \ {Min(set \cap 0..7)}

pic_send_eoi(irq, set) == EndOnMaster(IF irq >= 8 THEN set \ {12} ELSE set)

Top == frames[1]
GoTo(at) == frames' = [frames EXCEPT ![1].at = at]

\* The status port says that a byte is there; not whose.
DataReady == obuf # Empty

\* irq_handler: the timer counts and yields, the others look at the status
\* port first.
HandlerEntry ==
    /\ frames # <<>> /\ Top.at = "entry"
    /\ IF Top.irq = 0
       THEN /\ pit_ticks' = (pit_ticks + 1) % YieldEvery
            /\ GoTo(IF pit_ticks' = 0 THEN "yield" ELSE "first eoi")
       ELSE GoTo(IF DataReady THEN "data" ELSE "eoi") /\ UNCHANGED pit_ticks
    /\ UNCHANGED <<picVars, iflag, deviceVars, pc, current_task, rsp, driverVars>>

\* sched_yield: round robin over a list of one.  context_switch saves the
\* stack of the task that runs and loads the next one's, its own.
HandlerYield ==
    /\ frames # <<>> /\ Top.at = "yield"
    /\ rsp' = frames
    /\ frames' = [rsp' EXCEPT ![1].at = "first eoi"]
    /\ UNCHANGED <<picVars, iflag, deviceVars, pc, pit_ticks, current_task, driverVars>>

\* The end of pit_handler; irq_handler sends another.
HandlerFirstEoi ==
    /\ frames # <<>> /\ Top.at = "first eoi"
    /\ isr' = pic_send_eoi(0, isr)
    /\ GoTo("eoi")
    /\ UNCHANGED <<irr, imr, iflag, deviceVars, pc, schedVars, driverVars>>

\* kbd_irq_handler takes the byte whatever its source; half of the bytes
\* make no character.
TakeKey ==
    /\ frames # <<>> /\ Top.at = "data" /\ Top.irq = 1
    /\ \/ chars' = chars + 1
       \/ UNCHANGED chars
    /\ UNCHANGED <<mouse_cycle, mouse_bytes, moved>>

NextCycle(cycle) == (cycle + 1) % 3

\* mouse_handler_c: a first byte must have bit 3, a third completes a packet.
TakeMouseByte ==
    /\ frames # <<>> /\ Top.at = "data" /\ Top.irq = 12
    /\ IF mouse_cycle = 0 /\ ~obuf.bit3
       THEN UNCHANGED <<mouse_cycle, mouse_bytes, moved>>
       ELSE /\ mouse_bytes' = [mouse_bytes EXCEPT ![mouse_cycle] = obuf]
            /\ mouse_cycle' = NextCycle(mouse_cycle)
            /\ moved' = (moved \/ mouse_cycle = 2)
    /\ UNCHANGED chars

HandlerData ==
    /\ TakeKey \/ TakeMouseByte
    /\ obuf' = Empty
    /\ GoTo("eoi")
    /\ UNCHANGED <<picVars, iflag, kbd_irq, aux_irq, status, answers, keys, packets, streaming,
                   pressed, moves, pc,
                   schedVars>>

HandlerEoi ==
    /\ frames # <<>> /\ Top.at = "eoi"
    /\ isr' = pic_send_eoi(Top.irq, isr)
    /\ frames' = Tail(frames)
    /\ iflag' = TRUE
    /\ UNCHANGED <<irr, imr, deviceVars, pc, schedVars, driverVars>>

-----------------------------------------------------------------------------
(* The kernel outside its handlers: mouse_init, sti, and the main loop. *)

Running == frames = <<>>
Step(at, next) == Running /\ pc = at /\ pc' = next

\* Mutant: the timer stays masked.
UnmaskedNoTimer == {1, 12}
Unmasked == {0, 1, 12}

Unmask ==
    /\ Step("unmask", "read config")
    /\ imr' = imr \ Unmasked
    /\ UNCHANGED <<irr, isr, iflag, deviceVars, frames, schedVars, driverVars>>

\* Commands of mouse_init; the controller or the mouse answers each.
Ask(at, next, answer) ==
    /\ Step(at, next)
    /\ IF answer = Ack
       THEN packets' = Append(packets, Ack) /\ UNCHANGED answers
       ELSE answers' = Append(answers, answer) /\ UNCHANGED packets
    /\ streaming' = (streaming \/ at = "stream")
    /\ UNCHANGED <<picVars, iflag, obuf, kbd_irq, aux_irq, status, keys, pressed, moves, frames, schedVars, driverVars>>

\* mouse_wait(0) and the read of the data port, whoever filled it; the
\* devices answer long before a wait runs out.
Await(at, next) ==
    /\ Step(at, next)
    /\ obuf # Empty
    /\ obuf' = Empty
    /\ status' = IF at = "config" THEN obuf.src ELSE status
    /\ UNCHANGED <<picVars, iflag, kbd_irq, aux_irq, answers, keys, packets, streaming, pressed,
                   moves, frames, schedVars, driverVars>>

\* The byte read goes back with the mouse's interrupt enabled; if it was a
\* key's, bit 0 of it decides about the keyboard's.
WriteConfig ==
    /\ Step("write config", "defaults")
    /\ aux_irq' = TRUE
    /\ kbd_irq' \in IF status = "controller" THEN {kbd_irq} ELSE BOOLEAN
    /\ UNCHANGED <<picVars, iflag, obuf, status, answers, keys, packets, streaming, pressed,
                   moves, frames, schedVars, driverVars>>

\* sched_init: what runs becomes the one task, its own successor.
sched_init ==
    /\ Step("sched", "sti")
    /\ current_task' = "main"
    /\ UNCHANGED <<picVars, iflag, deviceVars, frames, pit_ticks, rsp, driverVars>>

Sti ==
    /\ Step("sti", "settle")
    /\ iflag' = TRUE
    /\ UNCHANGED <<picVars, deviceVars, frames, schedVars, driverVars>>

\* The delay loop of ten million turns outlasts what was pending at sti.
Settle ==
    /\ Step("settle", "clock")
    /\ irr = {}
    /\ UNCHANGED <<picVars, iflag, deviceVars, frames, schedVars, driverVars>>

\* Mutant: the answer to the last command is left to the handler.
AfterStreamUnread == "sched"
AfterStream == "stream ack"
AfterMouse == "sched"

MouseInit ==
    \/ Ask("read config", "config", Config)
    \/ Await("config", "write config")
    \/ WriteConfig
    \/ Ask("defaults", "defaults ack", Ack)
    \/ Await("defaults ack", "stream")
    \/ Ask("stream", AfterStream, Ack)
    \/ Await("stream ack", AfterMouse)

Hlt ==
    /\ Step("hlt", "halted")
    /\ UNCHANGED <<picVars, iflag, deviceVars, frames, schedVars, driverVars>>

\* update_menubar_clock, then mouse_poll.
Clock ==
    /\ Step("clock", "mouse")
    /\ UNCHANGED <<picVars, iflag, deviceVars, frames, schedVars, driverVars>>
MousePoll ==
    /\ Step("mouse", "keys")
    /\ moved' = FALSE
    /\ UNCHANGED <<picVars, iflag, deviceVars, frames, schedVars, mouse_cycle, mouse_bytes, chars>>
KeyPoll ==
    /\ Step("keys", IF chars > 0 THEN "keys" ELSE "hlt")
    /\ chars' = IF chars > 0 THEN chars - 1 ELSE 0
    /\ UNCHANGED <<picVars, iflag, deviceVars, frames, schedVars, mouse_cycle, mouse_bytes, moved>>

Kernel == Unmask \/ MouseInit \/ sched_init \/ Sti \/ Settle \/ Hlt \/ Clock \/ MousePoll \/ KeyPoll
Handler == HandlerEntry \/ HandlerYield \/ HandlerFirstEoi \/ HandlerData \/ HandlerEoi

Next ==
    \/ Press \/ Move \/ Load \/ Tick \/ Handler \/ Kernel
    \/ \E irq \in Lines : Dispatch(irq)

Spec == Init /\ [][Next]_vars

\* The processor runs, the controller delivers, the timer ticks; the user
\* owes nothing.  Each line and the kernel proper are interrupted again and
\* again but not for good: a timer period is thousands of handlers long.
FairSpec ==
    /\ Spec
    /\ WF_vars(Handler) /\ WF_vars(Load) /\ WF_vars(Tick)
    /\ SF_vars(Kernel) /\ \A irq \in Lines : SF_vars(Dispatch(irq))

-----------------------------------------------------------------------------
\* An end of interrupt ends the interrupt whose handler sends it, although
\* the timer's is sent twice: in service is what the running handlers serve
\* and nothing else, and a handler's own interrupt stays in service until
\* its first end.
EoiEndsItsOwn ==
    LET served == {frames[k].irq : k \in DOMAIN frames}
        ended == {0 : k \in {j \in DOMAIN frames : frames[j].irq = 0 /\ frames[j].at = "eoi"}}
    IN  isr = (served \ ended) \cup {OnMaster(irq) : irq \in served \ ended}

\* sched_yield has a task to save: the timer does not interrupt a kernel
\* whose sched_init has not run (current_task would be NULL).
YieldHasATask == frames # <<>> /\ Top.at = "yield" => current_task # "none"

\* The decoder takes the bytes of one packet in their order: what it holds
\* as first byte is a packet's first byte, and so on ("First byte: buttons
\* and overflow bits", mouse.c:77).
DecoderInStep ==
    \A i \in 0 .. mouse_cycle - 1 :
        /\ mouse_bytes[i].src = "mouse" /\ mouse_bytes[i].place = i + 1
        /\ mouse_bytes[i].packet = mouse_bytes[0].packet

\* A byte in the buffer has its interrupt pending or its handler about to
\* read it: otherwise nobody would take it and the controller could not
\* deliver another one, ever.
FullBufferIsAnnounced ==
    obuf # Empty /\ ~Booting =>
        \/ Line(obuf) \in irr
        \/ \E k \in DOMAIN frames : frames[k].irq = Line(obuf) /\ frames[k].at # "eoi"

\* Whatever the user does is dealt with: bytes reach the drivers, and the
\* main loop gets to the characters and movements although an interrupt may
\* come between its last look and hlt.
InputIsHandled ==
    ~Booting /\ (obuf # Empty \/ chars > 0 \/ moved) ~> obuf = Empty /\ chars = 0 /\ ~moved

TypeOK ==
    /\ irr \subseteq Lines /\ isr \subseteq {0, 1, 2, 12} /\ imr \subseteq Lines
    /\ mouse_cycle \in 0..2
    /\ chars \in 0..MaxKeys + 3 * MaxPackets + 3
    /\ Len(frames) <= 1
    /\ iflag => frames = <<>>
=============================================================================
