----------------------------- MODULE InputProofs ----------------------------
(***************************************************************************)
(* Proofs about Input, for any number of keys and packets and any rhythm   *)
(* of the scheduler.  Whatever the user and the devices do, each end of    *)
(* interrupt ends the interrupt of the handler that sends it, and the      *)
(* scheduler finds a task; and a mouse that is left alone while the system *)
(* boots has its packets decoded in step.                                  *)
(***************************************************************************)
EXTENDS Input, TLAPS

Frame == [irq : Lines, at : {"entry", "yield", "first eoi", "data", "eoi"}]

\* At most one handler runs, with interrupts off.
FramesOK ==
    /\ frames = <<>> \/ \E f \in Frame : frames = <<f>>
    /\ frames # <<>> =>
        /\ ~iflag
        /\ Top.at \in {"yield", "first eoi"} => Top.irq = 0
        /\ Top.at = "data" => Top.irq \in {1, 12}

\* In service is the interrupt of the handler that runs, on both chips,
\* until the timer's handler has sent the first of its two ends.
ServiceOK ==
    isr = IF frames = <<>> \/ (Top.irq = 0 /\ Top.at = "eoi") THEN {}
          ELSE {Top.irq, OnMaster(Top.irq)}

BeforeTask == {"unmask", "read config", "config", "write config", "defaults",
               "defaults ack", "stream", "stream ack", "sched"}

\* No interrupt before sti, and a task before that.
BootOrder ==
    /\ pc \in BeforeTask \cup {"sti"} => ~iflag /\ frames = <<>>
    /\ pc \notin BeforeTask => current_task # "none"

InterruptInv == FramesOK /\ ServiceOK /\ BootOrder

-----------------------------------------------------------------------------
(* The end of interrupt. *)

LEMMA MinOfOne == ASSUME NEW n \in Nat  PROVE Min({n}) = n
  BY DEF Min

\* With one interrupt in service the command ends it; with none it does
\* nothing.
LEMMA EoiEndsOne ==
    ASSUME NEW irq \in Lines
    PROVE  /\ pic_send_eoi(irq, {irq, OnMaster(irq)}) = {}
           /\ pic_send_eoi(irq, {}) = {}
<1>1. CASE irq \in {0, 1}
  <2>1. {irq, OnMaster(irq)} = {irq} /\ ~(irq >= 8)
    BY <1>1 DEF OnMaster
  <2>2. irq \in Nat /\ irq \in 0..7
    BY <1>1
  <2>3. {irq} \cap 0..7 = {irq} /\ Min({irq}) = irq
    BY <2>2, MinOfOne
  <2> QED  BY <2>1, <2>3 DEF pic_send_eoi, EndOnMaster
<1>2. CASE irq = 12
  <2>1. {irq, OnMaster(irq)} \ {12} = {2} /\ irq >= 8 /\ {} \ {12} = {}
    BY <1>2 DEF OnMaster
  <2>2. {2} \cap 0..7 = {2} /\ Min({2}) = 2
    BY MinOfOne
  <2> QED  BY <2>1, <2>2 DEF pic_send_eoi, EndOnMaster
<1> QED  BY <1>1, <1>2 DEF Lines

-----------------------------------------------------------------------------
(* Steps of handlers and of the kernel. *)

LEMMA QuietInterrupts ==
    ASSUME InterruptInv, UNCHANGED <<isr, iflag, frames>>,
           pc' \in BeforeTask \cup {"sti"} => pc \in BeforeTask \cup {"sti"},
           current_task' = current_task,
           pc' \notin BeforeTask => pc \notin BeforeTask
    PROVE  InterruptInv'
  BY DEF InterruptInv, FramesOK, ServiceOK, BootOrder, Top

LEMMA OneFrame ==
    ASSUME NEW f \in Frame, NEW at
    PROVE  /\ [<<f>> EXCEPT ![1].at = at] = <<[irq |-> f.irq, at |-> at]>>
           /\ <<f>>[1] = f /\ <<f>> # <<>> /\ Tail(<<f>>) = <<>>
<1>1. <<f>>[1] = f /\ <<f>> # <<>> /\ Tail(<<f>>) = <<>>
  OBVIOUS
<1>2. [f EXCEPT !.at = at] = [irq |-> f.irq, at |-> at]
  <2>1. f = [irq |-> f.irq, at |-> f.at]
    BY DEF Frame
  <2> QED  BY <2>1
<1>3. [<<f>> EXCEPT ![1].at = at] = <<[f EXCEPT !.at = at]>>
  OBVIOUS
<1> QED  BY <1>1, <1>2, <1>3

\* A handler that moves on and does not end its interrupt.
LEMMA MovingOn ==
    ASSUME InterruptInv, NEW at \in {"yield", "first eoi", "data", "eoi"},
           frames # <<>>, frames' = [frames EXCEPT ![1].at = at], Top.at # "eoi",
           at \in {"yield", "first eoi"} => Top.irq = 0,
           at \in {"data", "eoi"} => Top.irq \in {1, 12},
           UNCHANGED <<isr, iflag, pc, current_task>>
    PROVE  InterruptInv'
<1>1. PICK f \in Frame : frames = <<f>>
  BY DEF InterruptInv, FramesOK
<1> DEFINE g == [irq |-> f.irq, at |-> at]
<1>2. g \in Frame /\ g.irq = f.irq /\ g.at = at
  BY DEF Frame
<1>3. frames' = <<g>> /\ Top' = g /\ Top = f /\ frames' # <<>>
  <2>1. frames' = <<g>> /\ <<f>>[1] = f
    BY <1>1, OneFrame
  <2>2. <<g>>[1] = g /\ <<g>> # <<>>
    BY <1>2, OneFrame
  <2> QED  BY <1>1, <2>1, <2>2 DEF Top
<1> HIDE DEF g
<1>4. FramesOK'
  BY <1>2, <1>3 DEF InterruptInv, FramesOK
<1>5. isr = {f.irq, OnMaster(f.irq)}
  BY <1>3 DEF InterruptInv, ServiceOK
<1>6. ServiceOK'
  <2>1. at = "eoi" => f.irq # 0
    BY <1>3
  <2>2. ~(g.irq = 0 /\ g.at = "eoi")
    BY <1>2, <2>1
  <2>3. isr' = {g.irq, OnMaster(g.irq)}
    BY <1>2, <1>5
  <2> QED  BY <1>3, <2>2, <2>3 DEF ServiceOK, OnMaster
<1>7. BootOrder'
  BY DEF InterruptInv, BootOrder
<1> QED  BY <1>4, <1>6, <1>7 DEF InterruptInv

LEMMA HandlerKeepsInv == InterruptInv /\ Handler => InterruptInv'
<1> SUFFICES ASSUME InterruptInv, Handler  PROVE InterruptInv'
  OBVIOUS
<1>0. frames # <<>>
  BY DEF Handler, HandlerEntry, HandlerYield, HandlerFirstEoi, HandlerData, TakeKey, TakeMouseByte, HandlerEoi
<1>f. PICK f \in Frame : frames = <<f>> /\ Top = f
  BY <1>0, OneFrame DEF InterruptInv, FramesOK, Top
<1>1. CASE HandlerEntry
  <2>1. Top.at = "entry" /\ UNCHANGED <<isr, iflag, pc, current_task>> /\ Top.irq \in Lines
    BY <1>1, <1>f DEF HandlerEntry, picVars, Frame
  <2>2. CASE Top.irq = 0
    <3>1. \E at \in {"yield", "first eoi"} : frames' = [frames EXCEPT ![1].at = at]
      BY <1>1, <2>2 DEF HandlerEntry, GoTo
    <3> QED  BY <1>0, <2>1, <2>2, <3>1, MovingOn
  <2>3. CASE Top.irq # 0
    <3>1. \E at \in {"data", "eoi"} : frames' = [frames EXCEPT ![1].at = at]
      BY <1>1, <2>3 DEF HandlerEntry, GoTo
    <3> QED  BY <1>0, <2>1, <2>3, <3>1, MovingOn DEF Lines
  <2> QED  BY <2>2, <2>3
<1>2. CASE HandlerYield
  <2>1. /\ Top.at = "yield" /\ UNCHANGED <<isr, iflag, pc, current_task>> /\ Top.irq = 0
        /\ frames' = [frames EXCEPT ![1].at = "first eoi"]
    BY <1>0, <1>2 DEF HandlerYield, picVars, InterruptInv, FramesOK
  <2> QED  BY <1>0, <2>1, MovingOn
<1>3. CASE HandlerData
  <2>1. /\ Top.at = "data" /\ UNCHANGED <<isr, iflag, pc, current_task>> /\ Top.irq \in {1, 12}
        /\ frames' = [frames EXCEPT ![1].at = "eoi"]
    BY <1>0, <1>3 DEF HandlerData, TakeKey, TakeMouseByte, GoTo, picVars, schedVars
  <2> QED  BY <1>0, <2>1, MovingOn
\* The first of the two ends finds the timer's interrupt in service,
<1>4. CASE HandlerFirstEoi
  <2>1. /\ f.at = "first eoi" /\ f.irq = 0 /\ isr' = pic_send_eoi(0, isr)
        /\ frames' = [frames EXCEPT ![1].at = "eoi"]
        /\ UNCHANGED <<iflag, pc, current_task>>
    BY <1>0, <1>4, <1>f DEF HandlerFirstEoi, GoTo, schedVars, InterruptInv, FramesOK
  <2>2. isr = {0, OnMaster(0)} /\ 0 \in Lines
    BY <1>0, <1>f, <2>1 DEF InterruptInv, ServiceOK, Lines
  <2>3. isr' = {}
    BY <2>1, <2>2, EoiEndsOne
  <2>4. frames' = <<[irq |-> 0, at |-> "eoi"]>> /\ [irq |-> 0, at |-> "eoi"] \in Frame
    BY <1>f, <2>1, OneFrame DEF Frame, Lines
  <2>5. Top' = [irq |-> 0, at |-> "eoi"] /\ frames' # <<>>
    BY <2>4, OneFrame DEF Top
  <2>6. FramesOK'
    BY <1>0, <2>1, <2>4, <2>5 DEF InterruptInv, FramesOK
  <2>7. ServiceOK'
    BY <2>3, <2>5 DEF ServiceOK
  <2>8. BootOrder'
    BY <1>0, <2>1 DEF InterruptInv, BootOrder
  <2> QED  BY <2>6, <2>7, <2>8 DEF InterruptInv
\* the second finds nothing.
<1>5. CASE HandlerEoi
  <2>1. /\ f.at = "eoi" /\ isr' = pic_send_eoi(f.irq, isr) /\ frames' = Tail(frames)
        /\ iflag' = TRUE /\ UNCHANGED <<pc, current_task>>
    BY <1>0, <1>5, <1>f DEF HandlerEoi, schedVars
  <2>2. f.irq \in Lines /\ (isr = {} \/ isr = {f.irq, OnMaster(f.irq)})
    BY <1>0, <1>f DEF InterruptInv, ServiceOK, Frame
  <2>3. isr' = {}
    BY <2>1, <2>2, EoiEndsOne
  <2>4. frames' = <<>>
    BY <1>f, <2>1, OneFrame
  <2>5. BootOrder'
    BY <1>0, <2>1 DEF InterruptInv, BootOrder
  <2> QED  BY <2>3, <2>4, <2>5 DEF InterruptInv, FramesOK, ServiceOK
<1> QED  BY <1>1, <1>2, <1>3, <1>4, <1>5 DEF Handler

LEMMA DispatchKeepsInv == ASSUME NEW irq \in Lines, InterruptInv, Dispatch(irq)  PROVE InterruptInv'
<1>1. /\ iflag /\ isr' = isr \cup {irq, OnMaster(irq)}
      /\ frames' = <<[irq |-> irq, at |-> "entry"]>> \o frames
      /\ ~iflag' /\ pc' = (IF pc = "halted" THEN "clock" ELSE pc)
      /\ UNCHANGED current_task
  BY DEF Dispatch, GateInterruptsOn, schedVars
<1>2. frames = <<>> /\ isr = {} /\ pc \notin BeforeTask \cup {"sti"}
  BY <1>1 DEF InterruptInv, FramesOK, ServiceOK, BootOrder
<1>3. [irq |-> irq, at |-> "entry"] \in Frame
  BY DEF Frame
<1>4. frames' = <<[irq |-> irq, at |-> "entry"]>>
  BY <1>1, <1>2
<1>5. Top' = [irq |-> irq, at |-> "entry"] /\ frames' # <<>>
  BY <1>3, <1>4, OneFrame DEF Top
<1>6. FramesOK' /\ ServiceOK'
  BY <1>1, <1>2, <1>3, <1>4, <1>5 DEF FramesOK, ServiceOK
<1>7. BootOrder'
  BY <1>1, <1>2 DEF InterruptInv, BootOrder, BeforeTask
<1> QED  BY <1>6, <1>7 DEF InterruptInv

LEMMA KernelKeepsInv == InterruptInv /\ Kernel => InterruptInv'
<1> SUFFICES ASSUME InterruptInv, Kernel  PROVE InterruptInv'
  OBVIOUS
<1>1. CASE Unmask \/ MouseInit
  BY <1>1, QuietInterrupts DEF Unmask, MouseInit, Ask, Await, WriteConfig, Step, BeforeTask,
     AfterStream, AfterMouse, picVars, schedVars
<1>2. CASE sched_init \/ Sti
  <2>1. frames = <<>> /\ frames' = <<>> /\ isr' = isr
    BY <1>2 DEF sched_init, Sti, Step, Running, picVars
  <2>2. FramesOK' /\ ServiceOK'
    BY <2>1 DEF InterruptInv, FramesOK, ServiceOK
  <2>3. \/ pc = "sched" /\ pc' = "sti" /\ iflag' = iflag /\ current_task' = "main"
        \/ pc = "sti" /\ pc' = "settle" /\ current_task' = current_task
    BY <1>2 DEF sched_init, Sti, Step, schedVars
  <2>4. BootOrder'
    <3>1. CASE pc = "sched" /\ pc' = "sti" /\ iflag' = iflag /\ current_task' = "main"
      <4>1. ~iflag /\ ~iflag' /\ current_task' # "none"
        BY <3>1 DEF InterruptInv, BootOrder, BeforeTask
      <4> QED  BY <2>1, <4>1 DEF BootOrder
    <3>2. CASE pc = "sti" /\ pc' = "settle" /\ current_task' = current_task
      <4>1. current_task' # "none"
        BY <3>2 DEF InterruptInv, BootOrder, BeforeTask
      <4> QED  BY <3>2, <4>1 DEF BootOrder, BeforeTask
    <3> QED  BY <2>3, <3>1, <3>2
  <2> QED  BY <2>2, <2>4 DEF InterruptInv
<1>3. CASE Settle \/ Hlt \/ Clock \/ MousePoll \/ KeyPoll
  <2>1. UNCHANGED <<isr, iflag, frames, current_task>>
    BY <1>3 DEF Settle, Hlt, Clock, MousePoll, KeyPoll, picVars, schedVars
  <2>2. pc \notin BeforeTask /\ pc' \notin BeforeTask \cup {"sti"}
    BY <1>3 DEF Settle, Hlt, Clock, MousePoll, KeyPoll, Step, BeforeTask
  <2> QED  BY <2>1, <2>2, QuietInterrupts
<1> QED  BY <1>1, <1>2, <1>3 DEF Kernel

LEMMA InitInterrupts == Init => InterruptInv
  BY DEF Init, InterruptInv, FramesOK, ServiceOK, BootOrder, BeforeTask

LEMMA NextInterrupts == InterruptInv /\ [Next]_vars => InterruptInv'
<1> SUFFICES ASSUME InterruptInv, [Next]_vars  PROVE InterruptInv'
  OBVIOUS
<1>1. CASE Press \/ Move \/ Load \/ Tick \/ UNCHANGED vars
  <2>1. UNCHANGED <<isr, iflag, frames, pc, current_task>>
    BY <1>1 DEF Press, Move, Load, Tick, Idle, vars, picVars, schedVars
  <2> QED  BY <2>1, QuietInterrupts
<1> QED  BY <1>1, HandlerKeepsInv, KernelKeepsInv, DispatchKeepsInv DEF Next

\* The whole invariant of the interrupt controllers, the handlers and the
\* order of the boot.
THEOREM InterruptInvariant == Spec => []InterruptInv
  BY InitInterrupts, NextInterrupts, PTL DEF Spec

\* irq_handler and pit_handler: what is in service is what runs, so that no
\* end of interrupt, not even the timer's second one, ends another interrupt.
THEOREM EndsAreOwn == Spec => []EoiEndsItsOwn
<1>1. InterruptInv => EoiEndsItsOwn
  <2> SUFFICES ASSUME InterruptInv  PROVE EoiEndsItsOwn
    OBVIOUS
  <2> DEFINE served == {frames[k].irq : k \in DOMAIN frames}
             ended == {0 : k \in {j \in DOMAIN frames : frames[j].irq = 0 /\ frames[j].at = "eoi"}}
  <2>1. CASE frames = <<>>
    <3>1. served = {} /\ isr = {}
      BY <2>1 DEF InterruptInv, ServiceOK
    <3> QED  BY <3>1 DEF EoiEndsItsOwn
  <2>2. CASE frames # <<>>
    <3>1. PICK f \in Frame : frames = <<f>> /\ Top = f
      BY <2>2, OneFrame DEF InterruptInv, FramesOK, Top
    <3>2. DOMAIN frames = {1} /\ frames[1] = f
      BY <3>1
    <3>3. served = {f.irq}
      BY <3>2
    <3>4. CASE f.irq = 0 /\ f.at = "eoi"
      <4>1. isr = {}
        BY <3>1, <3>4 DEF InterruptInv, ServiceOK
      <4>2. ended = {0}
        BY <3>2, <3>4
      <4> QED  BY <3>3, <3>4, <4>1, <4>2 DEF EoiEndsItsOwn
    <3>5. CASE ~(f.irq = 0 /\ f.at = "eoi")
      <4>1. isr = {f.irq, OnMaster(f.irq)}
        BY <2>2, <3>1, <3>5 DEF InterruptInv, ServiceOK
      <4>2. ended = {}
        BY <3>2, <3>5
      <4> QED  BY <3>3, <4>1, <4>2 DEF EoiEndsItsOwn
    <3> QED  BY <3>4, <3>5
  <2> QED  BY <2>1, <2>2
<1> QED  BY <1>1, InterruptInvariant, PTL

\* sched_yield never looks at a current_task that sched_init has not set.
THEOREM YieldFindsATask == Spec => []YieldHasATask
<1>1. InterruptInv => YieldHasATask
  BY DEF InterruptInv, BootOrder, YieldHasATask, BeforeTask
<1> QED  BY <1>1, InterruptInvariant, PTL


-----------------------------------------------------------------------------
(* The mouse's packet decoder stays in step, for any number of keys and    *)
(* packets, when nobody touches keyboard or mouse during the boot:         *)
(* mouse_init then reads every answer itself (BootOK), afterwards a byte   *)
(* in the buffer belongs to the one interrupt pending or served (Claimed), *)
(* and no byte is lost or overtaken between mouse and decoder (InOrder).   *)

\* The n-th byte of the mouse's movements.
IsByte(b, n) ==
    /\ b.src = "mouse" /\ b.packet \in Nat /\ b.place \in 1 .. 3
    /\ 3 * (b.packet - 1) + b.place = n
    /\ b.place = 1 => b.bit3

MouseByte == [src : {"mouse"}, packet : Nat, place : 0 .. 3, bit3 : BOOLEAN]

\* How many of them the decoder has been given.
InBuffer == IF obuf.src = "mouse" THEN 1 ELSE 0
Taken == 3 * moves - Len(packets) - InBuffer

\* No byte is lost or out of place between mouse and decoder, and the
\* decoder holds the first bytes of the packet it has not completed.
InOrder ==
    /\ packets \in Seq(MouseByte) /\ moves \in Nat
    /\ obuf.src = "mouse" => IsByte(obuf, Taken + 1)
    /\ \A k \in 1 .. Len(packets) : IsByte(packets[k], Taken + InBuffer + k)
    /\ mouse_cycle \in 0 .. 2
    /\ \E p \in Nat :
        /\ Taken = 3 * p + mouse_cycle
        /\ \A i \in 0 .. mouse_cycle - 1 :
            mouse_bytes[i].src = "mouse" /\ mouse_bytes[i].packet = p + 1 /\ mouse_bytes[i].place = i + 1

\* A byte in the buffer belongs to the interrupt that is pending or whose
\* handler is about to read it, and no other is pending.
Serving(irq) == frames # <<>> /\ Top.irq = irq /\ Top.at \in {"entry", "data"}
Claimed ==
    \A irq \in {1, 12} :
        /\ irq \in irr \/ Serving(irq) => obuf # Empty /\ Line(obuf) = irq
        /\ ~(irq \in irr /\ Serving(irq))

Silent == obuf = Empty /\ answers = <<>> /\ packets = <<>>
Answered(set, answer) ==
    \/ obuf = Empty /\ set = <<answer>>
    \/ obuf = answer /\ set = <<>>

\* While it boots undisturbed the kernel reads every answer itself.
BootOK ==
    Booting =>
        /\ keys = <<>> /\ moves = 0 /\ mouse_cycle = 0
        /\ frames # <<>> => Top.at # "data"
        /\ pc \in {"unmask", "read config", "write config", "defaults", "stream", "sched", "sti", "settle"} => Silent
        /\ pc = "config" => packets = <<>> /\ Answered(answers, Config)
        /\ pc \in {"defaults ack", "stream ack"} => answers = <<>> /\ Answered(packets, Ack)

RunOK == ~Booting => answers = <<>> /\ keys \in Seq({Key}) /\ Claimed /\ InOrder

DecoderInv == DOMAIN mouse_bytes = 0 .. 2 /\ BootOK /\ RunOK

LEMMA AppendOne == ASSUME NEW x  PROVE Append(<<>>, x) = <<x>>
  OBVIOUS

LEMMA Sources ==
    /\ Empty.src = "none" /\ Key.src = "keyboard" /\ Config.src = "controller" /\ Ack.src = "mouse"
    /\ Key # Empty /\ Config # Empty /\ Ack # Empty
  BY DEF Empty, Key, Config, Ack, Byte

-----------------------------------------------------------------------------
(* The order of the mouse's bytes. *)

LEMMA OrderStays ==
    ASSUME InOrder, UNCHANGED <<packets, moves, mouse_cycle, mouse_bytes>>,
           obuf' = obuf \/ (obuf.src # "mouse" /\ obuf'.src # "mouse")
    PROVE  InOrder'
<1>1. InBuffer' = InBuffer /\ Taken' = Taken
  BY DEF InBuffer, Taken
<1>2. obuf'.src = "mouse" => IsByte(obuf', Taken + 1)
  BY DEF InOrder
<1> QED  BY <1>1, <1>2 DEF InOrder

LEMMA MoveKeepsOrder == ASSUME InOrder, Move  PROVE InOrder'
<1> PICK bit3 \in BOOLEAN :
        packets' = packets \o [i \in 1 .. 3 |-> Byte("mouse", moves', i, i = 1 \/ bit3)]
  BY DEF Move
<1> DEFINE new == [i \in 1 .. 3 |-> Byte("mouse", moves + 1, i, i = 1 \/ bit3)]
<1>1. moves' = moves + 1 /\ UNCHANGED <<obuf, mouse_cycle, mouse_bytes>> /\ packets' = packets \o new
  BY DEF Move, Idle, driverVars
<1>2. moves \in Nat /\ packets \in Seq(MouseByte)
  BY DEF InOrder
<1>3. /\ new \in Seq(MouseByte) /\ Len(new) = 3
      /\ \A i \in 1 .. 3 : IsByte(new[i], 3 * moves + i)
  <2>1. ASSUME NEW i \in 1 .. 3
        PROVE  new[i] \in MouseByte /\ IsByte(new[i], 3 * moves + i)
    <3> DEFINE b == new[i]
    <3> DEFINE t == i = 1 \/ bit3
    <3>1. b = [src |-> "mouse", packet |-> moves + 1, place |-> i, bit3 |-> t]
      BY DEF Byte
    <3>2. t \in BOOLEAN /\ moves + 1 \in Nat /\ i \in 0 .. 3 /\ i \in 1 .. 3 /\ (i = 1 => t)
      BY <1>2
    <3>3. 3 * (moves + 1 - 1) + i = 3 * moves + i
      BY <1>2
    <3> HIDE DEF b, t
    <3>4. b \in MouseByte
      BY <3>1, <3>2 DEF MouseByte
    <3>5. b.src = "mouse" /\ b.packet = moves + 1 /\ b.place = i /\ b.bit3 = t
      BY <3>1
    <3>6. IsByte(b, 3 * moves + i)
      <4>1. b.place = 1 => b.bit3
        BY <3>2, <3>5
      <4>2. 3 * (b.packet - 1) + b.place = 3 * moves + i
        BY <1>2, <3>3, <3>5
      <4> QED  BY <3>2, <3>5, <4>1, <4>2 DEF IsByte
    <3> QED  BY <3>4, <3>6 DEF b
  <2>2. new \in [1 .. 3 -> MouseByte]
    BY <2>1
  <2> HIDE DEF new
  <2>3. new \in Seq(MouseByte) /\ Len(new) = 3
    <3> DEFINE n == 3
    <3>1. n \in Nat /\ n = 3 /\ new = [k \in 1 .. n |-> new[k]] /\ \A k \in 1 .. n : new[k] \in MouseByte
      BY <2>2
    <3> HIDE DEF n
    <3>2. new \in Seq(MouseByte)
      BY <3>1
    <3>3. Len(new) = n
      BY <3>1
    <3> QED  BY <3>1, <3>2, <3>3
  <2> QED  BY <2>1, <2>3
<1> HIDE DEF new
<1>4. /\ packets' \in Seq(MouseByte) /\ Len(packets') = Len(packets) + 3 /\ Len(packets) \in Nat
      /\ \A k \in 1 .. Len(packets') :
            packets'[k] = IF k <= Len(packets) THEN packets[k] ELSE new[k - Len(packets)]
  <2>1. /\ packets' \in Seq(MouseByte) /\ Len(packets') = Len(packets) + Len(new) /\ Len(packets) \in Nat
        /\ \A k \in 1 .. Len(packets) + Len(new) :
            packets'[k] = IF k <= Len(packets) THEN packets[k] ELSE new[k - Len(packets)]
    <3>1. new \in Seq(MouseByte)
      BY <1>3
    <3>2. DOMAIN packets = 1 .. Len(packets) /\ DOMAIN new = 1 .. Len(new) /\ Len(packets) \in Nat /\ Len(new) \in Nat
      BY <1>2, <3>1
    <3>3. packets \o new \in Seq(MouseByte)
      BY <1>2, <3>1
    <3>4. Len(packets \o new) = Len(packets) + Len(new)
      BY <1>2, <3>1
    <3>5. \A k \in 1 .. Len(packets) + Len(new) :
            (packets \o new)[k] = IF k <= Len(packets) THEN packets[k] ELSE new[k - Len(packets)]
      BY <1>2, <3>1, <3>2
    <3> QED  BY <1>1, <3>2, <3>3, <3>4, <3>5
  <2> QED  BY <1>3, <2>1
<1>5. InBuffer' = InBuffer /\ InBuffer \in {0, 1} /\ Taken' = Taken
  BY <1>1, <1>2, <1>4 DEF InBuffer, Taken
<1>6. ASSUME NEW k \in 1 .. Len(packets')  PROVE IsByte(packets'[k], Taken + InBuffer + k)
  <2>1. CASE k <= Len(packets)
    BY <1>4, <2>1 DEF InOrder
  <2>2. CASE ~(k <= Len(packets))
    <3>1. k - Len(packets) \in 1 .. 3 /\ packets'[k] = new[k - Len(packets)]
      <4>1. k \in Int /\ k <= Len(packets) + 3 /\ Len(packets) \in Nat /\ k > Len(packets)
        BY <1>4, <2>2
      <4> QED  BY <1>4, <2>2, <4>1
    <3>2. Taken + InBuffer + k = 3 * moves + (k - Len(packets))
      BY <1>2, <1>4, <1>5 DEF Taken
    <3> QED  BY <1>3, <3>1, <3>2
  <2> QED  BY <2>1, <2>2
<1>7. obuf'.src = "mouse" => IsByte(obuf', Taken' + 1)
  BY <1>1, <1>5 DEF InOrder
<1>8. \A k \in 1 .. Len(packets') : IsByte(packets'[k], Taken' + InBuffer' + k)
  BY <1>5, <1>6
<1>9. moves' \in Nat /\ packets' \in Seq(MouseByte)
  BY <1>1, <1>2, <1>4
<1>10. UNCHANGED <<Taken, mouse_cycle, mouse_bytes>>
  BY <1>1, <1>5
<1> QED  BY <1>7, <1>8, <1>9, <1>10 DEF InOrder

LEMMA LoadKeepsOrder ==
    ASSUME InOrder, obuf = Empty, packets # <<>>, obuf' = Head(packets), packets' = Tail(packets),
           UNCHANGED <<moves, mouse_cycle, mouse_bytes>>
    PROVE  InOrder' /\ obuf'.src = "mouse"
<1>1. packets \in Seq(MouseByte) /\ moves \in Nat /\ InBuffer = 0
  BY Sources DEF InOrder, InBuffer
<1>2. /\ Len(packets) \in Nat \ {0} /\ packets' \in Seq(MouseByte) /\ Len(packets') = Len(packets) - 1
      /\ obuf' = packets[1] /\ \A k \in 1 .. Len(packets') : packets'[k] = packets[k + 1]
  BY <1>1
<1>3. IsByte(packets[1], Taken + 1)
  BY <1>1, <1>2 DEF InOrder, Taken
<1>4. obuf'.src = "mouse" /\ InBuffer' = 1 /\ Taken' = Taken /\ Taken \in Int
  BY <1>1, <1>2, <1>3 DEF IsByte, InBuffer, Taken
<1>5. ASSUME NEW k \in 1 .. Len(packets')  PROVE IsByte(packets'[k], Taken + 1 + k)
  <2>1. k + 1 \in 1 .. Len(packets)
    BY <1>2
  <2>2. Taken + InBuffer + (k + 1) = Taken + 1 + k
    BY <1>1, <1>4
  <2> QED  BY <1>2, <2>1, <2>2 DEF InOrder
<1> QED  BY <1>1, <1>2, <1>3, <1>4, <1>5 DEF InOrder

\* The decoder expects just the byte that is there.
LEMMA TakeKeepsOrder ==
    ASSUME InOrder, DOMAIN mouse_bytes = 0 .. 2, TakeMouseByte, obuf.src = "mouse", obuf' = Empty,
           UNCHANGED <<packets, moves>>
    PROVE  InOrder' /\ DOMAIN mouse_bytes' = 0 .. 2
<1>1. PICK p \in Nat :
        /\ Taken = 3 * p + mouse_cycle
        /\ \A i \in 0 .. mouse_cycle - 1 :
            mouse_bytes[i].src = "mouse" /\ mouse_bytes[i].packet = p + 1 /\ mouse_bytes[i].place = i + 1
  BY DEF InOrder
<1>2. /\ mouse_cycle \in 0 .. 2 /\ IsByte(obuf, Taken + 1) /\ moves \in Nat
      /\ packets \in Seq(MouseByte) /\ Len(packets) \in Nat
  BY DEF InOrder
<1>3. obuf.packet = p + 1 /\ obuf.place = mouse_cycle + 1
  <2> DEFINE a == obuf.packet
             b == obuf.place
             c == mouse_cycle
  <2>1. a \in Nat /\ b \in 1 .. 3 /\ 3 * (a - 1) + b = 3 * p + c + 1 /\ c \in 0 .. 2
    BY <1>1, <1>2 DEF IsByte
  <2> HIDE DEF a, b, c
  <2>2. a - 1 = p /\ b = c + 1
    BY <2>1
  <2> QED  BY <2>1, <2>2 DEF a, b, c
<1>4. ~(mouse_cycle = 0 /\ ~obuf.bit3)
  BY <1>2, <1>3 DEF IsByte
<1>5. /\ mouse_bytes' = [mouse_bytes EXCEPT ![mouse_cycle] = obuf]
      /\ mouse_cycle' = IF mouse_cycle = 2 THEN 0 ELSE mouse_cycle + 1
  BY <1>2, <1>4 DEF TakeMouseByte, NextCycle
<1>6. InBuffer = 1 /\ InBuffer' = 0 /\ Taken' = Taken + 1 /\ obuf'.src # "mouse"
  BY <1>2, Sources DEF InBuffer, Taken
<1>7. /\ mouse_cycle' \in 0 .. 2
      /\ \E q \in Nat :
        /\ Taken' = 3 * q + mouse_cycle'
        /\ \A i \in 0 .. mouse_cycle' - 1 :
            mouse_bytes'[i].src = "mouse" /\ mouse_bytes'[i].packet = q + 1 /\ mouse_bytes'[i].place = i + 1
  <2>1. CASE mouse_cycle = 2
    <3>1. Taken' = 3 * (p + 1) + mouse_cycle' /\ mouse_cycle' = 0 /\ p + 1 \in Nat
      BY <1>1, <1>5, <1>6, <2>1
    <3> QED  BY <3>1
  <2>2. CASE mouse_cycle # 2
    <3>1. Taken' = 3 * p + mouse_cycle' /\ mouse_cycle' = mouse_cycle + 1 /\ mouse_cycle' \in 0 .. 2
      BY <1>1, <1>2, <1>5, <1>6, <2>2
    <3>2. ASSUME NEW i \in 0 .. mouse_cycle' - 1
          PROVE  mouse_bytes'[i].src = "mouse" /\ mouse_bytes'[i].packet = p + 1 /\ mouse_bytes'[i].place = i + 1
      <4>1. CASE i = mouse_cycle
        <5>1. mouse_bytes'[i] = obuf
          BY <1>2, <1>5, <4>1
        <5> QED  BY <1>2, <1>3, <4>1, <5>1 DEF IsByte
      <4>2. CASE i # mouse_cycle
        <5>1. i \in 0 .. mouse_cycle - 1 /\ mouse_bytes'[i] = mouse_bytes[i]
          BY <1>2, <1>5, <3>1, <4>2
        <5> QED  BY <1>1, <5>1
      <4> QED  BY <4>1, <4>2
    <3> QED  BY <3>1, <3>2
  <2> QED  BY <2>1, <2>2
<1>8. \A k \in 1 .. Len(packets) : IsByte(packets[k], Taken' + InBuffer' + k)
  <2>1. Taken \in Int
    BY <1>1, <1>2
  <2> QED  BY <1>6, <2>1 DEF InOrder
<1>9. DOMAIN mouse_bytes' = 0 .. 2
  BY <1>5
<1> QED  BY <1>2, <1>6, <1>7, <1>8, <1>9 DEF InOrder
-----------------------------------------------------------------------------
(* Steps of user and devices. *)

LEMMA ClaimStays ==
    ASSUME Claimed, UNCHANGED <<obuf, irr, frames>>
    PROVE  Claimed'
  BY DEF Claimed, Serving, Top

LEMMA UserKeeps ==
    ASSUME Quiet, DecoderInv, Press \/ Move
    PROVE  DecoderInv'
<1>1. ~Booting /\ ~Booting' /\ UNCHANGED <<answers, obuf, irr, frames, mouse_bytes>>
  BY DEF Press, Move, Idle, Booting, driverVars
<1>2. answers' = <<>> /\ Claimed' /\ keys \in Seq({Key}) /\ InOrder
  BY <1>1, ClaimStays DEF DecoderInv, RunOK
<1>3. keys' \in Seq({Key}) /\ InOrder'
  <2>1. CASE Press
    <3>1. keys' = Append(keys, Key) /\ UNCHANGED <<packets, moves, mouse_cycle, mouse_bytes>>
      BY <2>1 DEF Press, Idle, driverVars
    <3> QED  BY <1>1, <1>2, <3>1, OrderStays
  <2>2. CASE Move
    <3>1. UNCHANGED keys
      BY <2>2 DEF Move
    <3> QED  BY <1>2, <2>2, <3>1, MoveKeepsOrder
  <2> QED  BY <2>1, <2>2
<1> QED  BY <1>1, <1>2, <1>3 DEF DecoderInv, BootOK, RunOK

LEMMA LoadKeeps ==
    ASSUME DecoderInv, Load
    PROVE  DecoderInv'
<1>1. /\ obuf = Empty /\ UNCHANGED <<pc, frames, moves, mouse_cycle, mouse_bytes>>
      /\ Booting' <=> Booting
      /\ irr' = irr \cup {irq \in {Line(obuf')} : IF irq = 1 THEN kbd_irq ELSE aux_irq}
  BY DEF Load, Idle, driverVars, Booting
<1> DEFINE Answer == answers # <<>> /\ obuf' = Head(answers) /\ answers' = Tail(answers)
                        /\ UNCHANGED <<keys, packets>>
           Stroke == keys # <<>> /\ obuf' = Head(keys) /\ keys' = Tail(keys)
                        /\ UNCHANGED <<answers, packets>>
           Motion == packets # <<>> /\ obuf' = Head(packets) /\ packets' = Tail(packets)
                        /\ UNCHANGED <<answers, keys>>
<1>2. Answer \/ Stroke \/ Motion
  BY DEF Load
<1> HIDE DEF Answer, Stroke, Motion
<1>3. CASE Booting
  <2>1. keys = <<>> /\ (answers # <<>> \/ packets # <<>>)
    BY <1>2, <1>3 DEF DecoderInv, BootOK, Answer, Stroke, Motion
  <2>2. \/ /\ pc = "config" /\ packets = <<>> /\ answers = <<Config>>
        \/ /\ pc \in {"defaults ack", "stream ack"} /\ answers = <<>> /\ packets = <<Ack>>
    BY <1>1, <1>3, <2>1, Sources DEF DecoderInv, BootOK, Booting, Silent, Answered
  <2>3. \/ /\ pc = "config" /\ packets' = <<>> /\ answers' = <<>> /\ obuf' = Config
        \/ /\ pc \in {"defaults ack", "stream ack"} /\ answers' = <<>> /\ packets' = <<>> /\ obuf' = Ack
    <3>1. CASE pc = "config" /\ packets = <<>> /\ answers = <<Config>>
      BY <1>2, <2>1, <3>1 DEF Answer, Stroke, Motion
    <3>2. CASE pc \in {"defaults ack", "stream ack"} /\ answers = <<>> /\ packets = <<Ack>>
      <4>1. Motion
        BY <1>2, <2>1, <3>2 DEF Answer, Stroke
      <4>2. obuf' = Head(packets) /\ packets' = Tail(packets) /\ answers' = answers
        BY <4>1 DEF Motion
      <4>3. Head(<<Ack>>) = Ack /\ Tail(<<Ack>>) = <<>>
        OBVIOUS
      <4> QED  BY <3>2, <4>2, <4>3
    <3> QED  BY <2>2, <3>1, <3>2
  <2>4. keys' = <<>>
    BY <1>2, <2>1 DEF Answer, Stroke, Motion
  <2>5. BootOK'
    BY <1>1, <1>3, <2>3, <2>4 DEF DecoderInv, BootOK, Answered, Top
  <2> QED  BY <1>1, <1>3, <2>5 DEF DecoderInv, RunOK
<1>4. CASE ~Booting
  <2>1. answers = <<>> /\ keys \in Seq({Key}) /\ Claimed /\ InOrder
    BY <1>4 DEF DecoderInv, RunOK
  <2>2. \A irq \in {1, 12} : irq \notin irr /\ ~Serving(irq) /\ ~Serving(irq)'
    BY <1>1, <2>1 DEF Claimed, Serving, Top
  <2>3. answers' = <<>> /\ keys' \in Seq({Key}) /\ InOrder' /\ obuf'.src \in {"mouse", "keyboard"}
    <3>1. CASE Stroke
      <4>1. Head(keys) = Key /\ Tail(keys) \in Seq({Key})
        BY <2>1, <3>1 DEF Stroke
      <4>2. obuf' = Key /\ keys' \in Seq({Key}) /\ UNCHANGED <<answers, packets>>
        BY <3>1, <4>1 DEF Stroke
      <4> QED  BY <1>1, <2>1, <4>2, Sources, OrderStays
    <3>2. CASE Motion
      BY <1>1, <2>1, <3>2, LoadKeepsOrder DEF Motion
    <3> QED  BY <1>2, <2>1, <3>1, <3>2 DEF Answer
  <2>4. obuf' # Empty
    BY <2>3, Sources
  <2>5. Claimed'
    BY <1>1, <2>2, <2>4 DEF Claimed
  <2> QED  BY <1>1, <1>4, <2>3, <2>5 DEF DecoderInv, BootOK, RunOK
<1> QED  BY <1>3, <1>4

LEMMA TickKeeps ==
    ASSUME DecoderInv, Tick
    PROVE  DecoderInv'
<1>1. /\ irr = {} /\ irr' = {0} /\ UNCHANGED <<obuf, answers, keys, packets, moves, pc, frames, mouse_cycle, mouse_bytes>>
      /\ Booting' <=> Booting
  BY DEF Tick, Idle, driverVars, deviceVars, Booting
<1>2. Claimed => Claimed'
  BY <1>1 DEF Claimed, Serving, Top
<1>3. InOrder => InOrder'
  BY <1>1, OrderStays
<1>4. BootOK'
  BY <1>1 DEF DecoderInv, BootOK, Silent, Answered, Top
<1> QED  BY <1>1, <1>2, <1>3, <1>4 DEF DecoderInv, RunOK

-----------------------------------------------------------------------------
(* Steps of the handlers. *)

LEMMA DispatchKeeps ==
    ASSUME NEW irq \in Lines, InterruptInv, DecoderInv, Dispatch(irq)
    PROVE  DecoderInv'
<1>1. /\ irq \in irr /\ irr' = irr \ {irq} /\ iflag
      /\ frames' = <<[irq |-> irq, at |-> "entry"]>> \o frames
      /\ pc' = (IF pc = "halted" THEN "clock" ELSE pc)
      /\ UNCHANGED <<obuf, answers, keys, packets, moves, mouse_cycle, mouse_bytes>>
  BY DEF Dispatch, deviceVars, driverVars, Deliverable
<1>2. frames = <<>>
  BY <1>1 DEF InterruptInv, FramesOK
<1>3. frames' = <<[irq |-> irq, at |-> "entry"]>> /\ [irq |-> irq, at |-> "entry"] \in Frame
  BY <1>1, <1>2 DEF Frame
<1>4. Top' = [irq |-> irq, at |-> "entry"] /\ frames' # <<>>
  BY <1>3, OneFrame DEF Top
<1>5. Booting' <=> Booting
  BY <1>1 DEF Booting
<1>6. Claimed => Claimed'
  <2> SUFFICES ASSUME Claimed, NEW line \in {1, 12}
               PROVE  /\ line \in irr' \/ Serving(line)' => obuf' # Empty /\ Line(obuf') = line
                      /\ ~(line \in irr' /\ Serving(line)')
    BY DEF Claimed
  <2>1. Serving(line)' <=> line = irq
    BY <1>4 DEF Serving
  <2>2. line \in irr => obuf # Empty /\ Line(obuf) = line
    BY DEF Claimed
  <2> QED  BY <1>1, <2>1, <2>2
<1>7. InOrder => InOrder'
  BY <1>1, OrderStays
<1>8. BootOK'
  <2> SUFFICES ASSUME Booting'  PROVE BootOK'
    BY DEF BootOK
  <2>1. Booting /\ pc' = pc /\ Top'.at # "data"
    BY <1>1, <1>4, <1>5 DEF Booting
  <2> QED  BY <1>1, <2>1 DEF DecoderInv, BootOK, Silent, Answered
<1> QED  BY <1>1, <1>5, <1>6, <1>7, <1>8 DEF DecoderInv, RunOK

\* A handler that does not take a byte.
LEMMA PassingOn ==
    ASSUME DecoderInv,
           UNCHANGED <<obuf, answers, keys, packets, moves, mouse_cycle, mouse_bytes, irr, pc>>,
           \A irq \in {1, 12} : Serving(irq)' => Serving(irq),
           Booting => frames' = <<>> \/ Top'.at # "data"
    PROVE  DecoderInv'
<1>1. Booting' <=> Booting
  BY DEF Booting
<1>2. Claimed => Claimed'
  BY DEF Claimed
<1>3. InOrder => InOrder'
  BY OrderStays
<1>4. BootOK'
  BY <1>1 DEF DecoderInv, BootOK, Silent, Answered
<1> QED  BY <1>1, <1>2, <1>3, <1>4 DEF DecoderInv, RunOK

\* A frame that moves on.
LEMMA NextTop ==
    ASSUME InterruptInv, frames # <<>>, NEW at \in {"yield", "first eoi", "data", "eoi"},
           frames' = [frames EXCEPT ![1].at = at]
    PROVE  /\ frames' # <<>> /\ Top'.at = at /\ Top'.irq = Top.irq
<1>1. PICK f \in Frame : frames = <<f>>
  BY DEF InterruptInv, FramesOK
<1> DEFINE g == [irq |-> f.irq, at |-> at]
<1>2. g \in Frame /\ g.irq = f.irq /\ g.at = at
  BY DEF Frame
<1>3. frames' = <<g>> /\ Top = f
  BY <1>1, OneFrame DEF Top
<1> HIDE DEF g
<1>4. Top' = g /\ frames' # <<>>
  BY <1>2, <1>3, OneFrame DEF Top
<1> QED  BY <1>2, <1>3, <1>4

LEMMA HandlerKeeps ==
    ASSUME InterruptInv, DecoderInv, Handler
    PROVE  DecoderInv'
<1>0. frames # <<>>
  BY DEF Handler, HandlerEntry, HandlerYield, HandlerFirstEoi, HandlerData, TakeKey, TakeMouseByte, HandlerEoi
<1>1. CASE HandlerEntry
  <2>1. /\ UNCHANGED <<obuf, answers, keys, packets, moves, mouse_cycle, mouse_bytes, irr, pc>>
        /\ Top.at = "entry"
    BY <1>1 DEF HandlerEntry, deviceVars, driverVars, picVars
  <2>2. PICK at \in {"yield", "first eoi", "data", "eoi"} :
            frames' = [frames EXCEPT ![1].at = at] /\ (at = "data" => DataReady)
    BY <1>1 DEF HandlerEntry, GoTo
  <2>3. frames' # <<>> /\ Top'.at = at /\ Top'.irq = Top.irq
    BY <1>0, <2>2, NextTop
  <2>4. \A irq \in {1, 12} : Serving(irq)' => Serving(irq)
    BY <1>0, <2>1, <2>3 DEF Serving
  <2>5. Booting => at # "data"
    <3> SUFFICES ASSUME Booting  PROVE ~DataReady
      BY <2>2
    <3>1. pc = "settle"
      BY <1>0 DEF InterruptInv, BootOrder, BeforeTask, Booting
    <3> QED  BY <3>1 DEF DecoderInv, BootOK, Silent, DataReady
  <2> QED  BY <2>1, <2>3, <2>4, <2>5, PassingOn
<1>2. CASE HandlerYield \/ HandlerFirstEoi
  <2>1. /\ UNCHANGED <<obuf, answers, keys, packets, moves, mouse_cycle, mouse_bytes, irr, pc>>
        /\ Top.at \in {"yield", "first eoi"}
    BY <1>2 DEF HandlerYield, HandlerFirstEoi, deviceVars, driverVars, picVars
  <2>2. PICK at \in {"first eoi", "eoi"} : frames' = [frames EXCEPT ![1].at = at]
    BY <1>2 DEF HandlerYield, HandlerFirstEoi, GoTo
  <2>3. frames' # <<>> /\ Top'.at = at
    BY <1>0, <2>2, NextTop
  <2>4. \A irq \in {1, 12} : ~Serving(irq)'
    BY <2>3 DEF Serving
  <2> QED  BY <2>1, <2>3, <2>4, PassingOn
<1>3. CASE HandlerEoi
  <2>1. /\ UNCHANGED <<obuf, answers, keys, packets, moves, mouse_cycle, mouse_bytes, irr, pc>>
        /\ frames' = Tail(frames)
    BY <1>3 DEF HandlerEoi, deviceVars, driverVars
  <2>2. frames' = <<>>
    BY <1>0, <2>1, OneFrame DEF InterruptInv, FramesOK
  <2> QED  BY <2>1, <2>2, PassingOn DEF Serving
<1>4. CASE HandlerData
  <2>1. /\ obuf' = Empty /\ Top.at = "data" /\ Top.irq \in {1, 12}
        /\ frames' = [frames EXCEPT ![1].at = "eoi"]
        /\ UNCHANGED <<answers, keys, packets, moves, irr, pc>>
    BY <1>4 DEF HandlerData, TakeKey, TakeMouseByte, GoTo, picVars
  <2>2. frames' # <<>> /\ Top'.at = "eoi"
    BY <1>0, <2>1, NextTop
  <2>3. ~Booting /\ ~Booting'
    BY <1>0, <2>1 DEF DecoderInv, BootOK, Booting
  <2>4. answers = <<>> /\ keys \in Seq({Key}) /\ Claimed /\ InOrder /\ DOMAIN mouse_bytes = 0 .. 2
    BY <2>3 DEF DecoderInv, RunOK
  <2>5. Serving(Top.irq)
    BY <1>0, <2>1 DEF Serving
  <2>6. Line(obuf) = Top.irq
    BY <2>1, <2>4, <2>5 DEF Claimed
  <2>7. Claimed'
    <3>1. \A irq \in {1, 12} : irq \notin irr' /\ ~Serving(irq)'
      BY <2>1, <2>2, <2>4, <2>5, <2>6 DEF Claimed, Serving
    <3> QED  BY <3>1 DEF Claimed
  <2>8. InOrder' /\ DOMAIN mouse_bytes' = 0 .. 2
    <3>1. CASE TakeKey
      <4>1. obuf.src # "mouse" /\ UNCHANGED <<mouse_cycle, mouse_bytes>>
        BY <2>6, <3>1 DEF TakeKey, Line
      <4> QED  BY <2>1, <2>4, <4>1, Sources, OrderStays
    <3>2. CASE TakeMouseByte
      <4>1. obuf.src = "mouse"
        BY <2>6, <3>2 DEF TakeMouseByte, Line
      <4> QED  BY <2>1, <2>4, <3>2, <4>1, TakeKeepsOrder
    <3> QED  BY <1>4, <3>1, <3>2 DEF HandlerData
  <2> QED  BY <2>1, <2>3, <2>4, <2>7, <2>8 DEF DecoderInv, BootOK, RunOK
<1> QED  BY <1>1, <1>2, <1>3, <1>4 DEF Handler

-----------------------------------------------------------------------------
(* Steps of the kernel. *)

LEMMA KernelKeeps ==
    ASSUME DecoderInv, Kernel
    PROVE  DecoderInv'
<1>1. UNCHANGED <<keys, moves, irr, frames, mouse_cycle, mouse_bytes>> /\ frames = <<>>
  <2>1. CASE Unmask \/ sched_init \/ Sti \/ Settle
    BY <2>1 DEF Unmask, sched_init, Sti, Settle, Step, Running, deviceVars, driverVars, picVars
  <2>2. CASE MouseInit
    BY <2>2 DEF MouseInit, Ask, Await, WriteConfig, Step, Running, driverVars, picVars
  <2>3. CASE Hlt \/ Clock \/ MousePoll \/ KeyPoll
    BY <2>3 DEF Hlt, Clock, MousePoll, KeyPoll, Step, Running, deviceVars, driverVars, picVars
  <2> QED  BY <2>1, <2>2, <2>3 DEF Kernel
<1>2. CASE Hlt \/ Clock \/ MousePoll \/ KeyPoll
  <2>1. ~Booting /\ ~Booting' /\ UNCHANGED <<obuf, answers, packets>>
    BY <1>2 DEF Hlt, Clock, MousePoll, KeyPoll, Step, Booting, deviceVars
  <2>2. Claimed' /\ InOrder'
    BY <1>1, <2>1, ClaimStays, OrderStays DEF DecoderInv, RunOK
  <2> QED  BY <1>1, <2>1, <2>2 DEF DecoderInv, BootOK, RunOK
\* The kernel is up: no byte is on its way and no interrupt pending.
<1>3. CASE Settle
  <2>1. pc = "settle" /\ pc' = "clock" /\ irr = {} /\ UNCHANGED <<obuf, answers, packets>>
    BY <1>3 DEF Settle, Step, deviceVars
  <2>2. Silent /\ keys = <<>> /\ moves = 0 /\ mouse_cycle = 0 /\ DOMAIN mouse_bytes = 0 .. 2
    BY <2>1 DEF DecoderInv, BootOK, Booting
  <2>3. ~Booting'
    BY <2>1 DEF Booting
  <2>4. Claimed'
    BY <1>1, <2>1 DEF Claimed, Serving
  <2>5. InOrder'
    <3>1. obuf' = Empty /\ packets' = <<>> /\ moves' = 0 /\ mouse_cycle' = 0 /\ obuf'.src # "mouse"
      BY <1>1, <2>1, <2>2, Sources DEF Silent
    <3>2. Len(<<>>) = 0 /\ <<>> \in Seq(MouseByte)
      OBVIOUS
    <3>3. InBuffer' = 0 /\ Len(packets') = 0 /\ packets' \in Seq(MouseByte)
      BY <3>1, <3>2 DEF InBuffer
    <3>4. Taken' = 0
      <4>1. Taken' = 3 * moves' - Len(packets') - InBuffer'
        BY DEF Taken
      <4>2. moves' = 0 /\ Len(packets') = 0 /\ InBuffer' = 0
        BY <3>1, <3>3
      <4> QED  BY <4>1, <4>2
    <3>5. Taken' = 3 * 0 + mouse_cycle' /\ 0 \in Nat /\ mouse_cycle' \in 0 .. 2
      BY <3>1, <3>4
    <3>6. 0 .. mouse_cycle' - 1 = {} /\ 1 .. Len(packets') = {}
      BY <3>1, <3>3
    <3>7. \E p \in Nat :
            /\ Taken' = 3 * p + mouse_cycle'
            /\ \A i \in 0 .. mouse_cycle' - 1 :
                mouse_bytes'[i].src = "mouse" /\ mouse_bytes'[i].packet = p + 1 /\ mouse_bytes'[i].place = i + 1
      BY <3>5, <3>6
    <3>8. moves' \in Nat
      BY <3>1
    <3> QED  BY <3>1, <3>3, <3>5, <3>6, <3>7, <3>8 DEF InOrder
  <2> QED  BY <1>1, <2>1, <2>2, <2>3, <2>4, <2>5 DEF DecoderInv, BootOK, RunOK, Silent
<1>4. CASE Unmask \/ MouseInit \/ sched_init \/ Sti
  <2>1. Booting /\ Booting' /\ pc # "settle"
    BY <1>4 DEF Unmask, MouseInit, Ask, Await, WriteConfig, sched_init, Sti, Step, Booting, AfterStream, AfterMouse
  <2>2. keys = <<>> /\ moves = 0 /\ mouse_cycle = 0
    BY <2>1 DEF DecoderInv, BootOK
  <2> DEFINE Still == /\ pc' \in {"unmask", "read config", "write config", "defaults", "stream", "sched", "sti", "settle"}
                      /\ Silent'
             Asked == \/ pc' = "config" /\ packets' = <<>> /\ obuf' = Empty /\ answers' = <<Config>>
                      \/ /\ pc' \in {"defaults ack", "stream ack"} /\ answers' = <<>>
                         /\ obuf' = Empty /\ packets' = <<Ack>>
  <2>3. Still \/ Asked
    <3>1. CASE Unmask \/ WriteConfig \/ sched_init \/ Sti
      <4>1. /\ pc \in {"unmask", "write config", "sched", "sti"} /\ pc' \in {"read config", "defaults", "sti", "settle"}
            /\ UNCHANGED <<obuf, answers, packets>>
        BY <3>1 DEF Unmask, WriteConfig, sched_init, Sti, Step, deviceVars
      <4> QED  BY <2>1, <4>1 DEF DecoderInv, BootOK, Silent
    <3>2. CASE Ask("read config", "config", Config)
      <4>1. pc = "read config" /\ pc' = "config" /\ answers' = Append(answers, Config) /\ UNCHANGED <<obuf, packets>>
        BY <3>2, Sources DEF Ask, Step, Config, Ack, Byte
      <4>2. Silent
        BY <2>1, <4>1 DEF DecoderInv, BootOK
      <4>3. answers = <<>> /\ Append(<<>>, Config) = <<Config>>
        BY <4>2, AppendOne DEF Silent
      <4> QED  BY <4>1, <4>2, <4>3 DEF Silent
    <3>3. ASSUME NEW at \in {"defaults", "stream"}, NEW next \in {"defaults ack", "stream ack"}, Ask(at, next, Ack)
          PROVE  Asked
      <4>1. pc = at /\ pc' = next /\ packets' = Append(packets, Ack) /\ UNCHANGED <<obuf, answers>>
        BY <3>3 DEF Ask, Step
      <4>2. Silent
        BY <2>1, <4>1 DEF DecoderInv, BootOK
      <4>3. packets = <<>> /\ Append(<<>>, Ack) = <<Ack>>
        BY <4>2, AppendOne DEF Silent
      <4> QED  BY <4>1, <4>2, <4>3 DEF Silent
    <3>4. ASSUME NEW at \in {"config", "defaults ack", "stream ack"}, NEW next \in {"write config", "stream", "sched"},
                 Await(at, next)
          PROVE  Still
      <4>1. pc = at /\ pc' = next /\ obuf # Empty /\ obuf' = Empty /\ UNCHANGED <<answers, packets>>
        BY <3>4 DEF Await, Step
      <4>2. answers = <<>> /\ packets = <<>>
        BY <2>1, <4>1 DEF DecoderInv, BootOK, Answered
      <4> QED  BY <4>1, <4>2 DEF Silent
    <3> QED  BY <1>4, <3>1, <3>2, <3>3, <3>4 DEF MouseInit, AfterStream, AfterMouse
  <2>4. BootOK'
    <3>1. keys' = <<>> /\ moves' = 0 /\ mouse_cycle' = 0 /\ frames' = <<>>
      BY <1>1, <2>2
    <3>2. CASE Still
      BY <3>1, <3>2 DEF BootOK
    <3>3. CASE Asked
      <4>1. CASE pc' = "config" /\ packets' = <<>> /\ obuf' = Empty /\ answers' = <<Config>>
        <5>1. Answered(answers, Config)'
          BY <4>1 DEF Answered
        <5> QED  BY <3>1, <4>1, <5>1 DEF BootOK
      <4>2. CASE /\ pc' \in {"defaults ack", "stream ack"} /\ answers' = <<>>
                 /\ obuf' = Empty /\ packets' = <<Ack>>
        <5>1. Answered(packets, Ack)'
          BY <4>2 DEF Answered
        <5>2. pc' # "config" /\ pc' \notin {"unmask", "read config", "write config", "defaults", "stream", "sched", "sti", "settle"}
          BY <4>2
        <5> QED  BY <3>1, <4>2, <5>1, <5>2 DEF BootOK
      <4> QED  BY <3>3, <4>1, <4>2
    <3> QED  BY <2>3, <3>2, <3>3
  <2> QED  BY <1>1, <2>1, <2>4 DEF DecoderInv, RunOK
<1> QED  BY <1>2, <1>3, <1>4 DEF Kernel

LEMMA InitDecoder == Init => DecoderInv
<1> SUFFICES ASSUME Init  PROVE DecoderInv
  OBVIOUS
<1>1. /\ obuf = Empty /\ answers = <<>> /\ keys = <<>> /\ packets = <<>> /\ moves = 0 /\ pc = "unmask"
      /\ frames = <<>> /\ mouse_cycle = 0 /\ DOMAIN mouse_bytes = 0 .. 2
  BY DEF Init
<1> QED  BY <1>1 DEF DecoderInv, BootOK, RunOK, Booting, Silent

LEMMA NextDecoder == Quiet /\ InterruptInv /\ DecoderInv /\ [Next]_vars => DecoderInv'
<1> SUFFICES ASSUME Quiet, InterruptInv, DecoderInv, [Next]_vars  PROVE DecoderInv'
  OBVIOUS
<1>1. CASE UNCHANGED vars
  <2>1. /\ UNCHANGED <<obuf, answers, keys, packets, moves, mouse_cycle, mouse_bytes, irr, pc, frames>>
    BY <1>1 DEF vars, deviceVars, driverVars, picVars
  <2>2. /\ \A irq \in {1, 12} : Serving(irq)' => Serving(irq)
        /\ Booting => frames' = <<>> \/ Top'.at # "data"
    BY <2>1 DEF Serving, Top, DecoderInv, BootOK
  <2> QED  BY <2>1, <2>2, PassingOn
<1> QED  BY <1>1, UserKeeps, LoadKeeps, TickKeeps, DispatchKeeps, HandlerKeeps, KernelKeeps DEF Next

\* mouse.c:66-118 after an undisturbed mouse_init: what the decoder holds as
\* the first, second and third byte of a packet is that packet's first,
\* second and third, for any number of keys and packets.
THEOREM DecoderStaysInStep == Quiet => (Spec => []DecoderInStep)
<1>1. DecoderInv => DecoderInStep
  <2> SUFFICES ASSUME DecoderInv  PROVE DecoderInStep
    OBVIOUS
  <2>1. CASE Booting
    <3>1. mouse_cycle = 0
      BY <2>1 DEF DecoderInv, BootOK
    <3>2. 0 .. mouse_cycle - 1 = {}
      BY <3>1
    <3> QED  BY <3>2 DEF DecoderInStep
  <2>2. CASE ~Booting
    BY <2>2 DEF DecoderInv, RunOK, InOrder, DecoderInStep
  <2> QED  BY <2>1, <2>2
<1>2. CASE Quiet
  BY <1>1, <1>2, InterruptInvariant, InitDecoder, NextDecoder, PTL DEF Spec
<1> QED  BY <1>2
=============================================================================
