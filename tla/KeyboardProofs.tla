--------------------------- MODULE KeyboardProofs ---------------------------
(***************************************************************************)
(* Proofs about Keyboard: the ring's slots are safe to read while the      *)
(* interrupt handler writes, and driver and main loop together implement a *)
(* bounded lossy FIFO, for every ring of 2 to 256 slots, every keyboard    *)
(* and any amount of typing.                                               *)
(***************************************************************************)
EXTENDS Keyboard, SequenceTheorems, TLAPS

\* The inductive invariant: between kbd_haschar's yes and the move of the
\* tail the ring cannot become empty, and the slot read keeps its character.
KeyboardInv ==
    /\ TypeOK
    /\ pc \in {"check", "load", "advance"} => kbd_buffer_head # kbd_buffer_tail
    /\ pc = "advance" => c = kbd_buffer[kbd_buffer_tail]

\* Succ without the remainder.
LEMMA SuccCases ==
    ASSUME NEW i \in Slots
    PROVE  /\ Succ(i) = IF i + 1 = BUFFER_SIZE THEN 0 ELSE i + 1
           /\ Succ(i) \in Slots
<1> USE KeyboardAssumption DEF Slots
<1>1. CASE i + 1 = BUFFER_SIZE
  <2>1. (i + 1) % BUFFER_SIZE = 0
    BY <1>1
  <2> QED  BY <1>1, <2>1 DEF Succ
<1>2. CASE i + 1 # BUFFER_SIZE
  <2>1. i + 1 < BUFFER_SIZE
    BY <1>2
  <2>2. (i + 1) % BUFFER_SIZE = i + 1
    BY <2>1
  <2> QED  BY <1>2, <2>1, <2>2 DEF Succ
<1> QED  BY <1>1, <1>2

\* The count is between 0 and BUFFER_SIZE - 1, and 0 just when head = tail.
LEMMA CountBounds ==
    ASSUME TypeOK
    PROVE  /\ Count \in 0 .. BUFFER_SIZE - 1
           /\ Count = 0 <=> kbd_buffer_head = kbd_buffer_tail
BY KeyboardAssumption DEF TypeOK, Slots, Count

\* The loop's test of eax is the test for an empty ring.
LEMMA HasCharIsNonEmpty ==
    ASSUME TypeOK
    PROVE  kbd_haschar # 0 <=> kbd_buffer_head # kbd_buffer_tail
<1>1. kbd_buffer_tail \in 0 .. 255
  BY KeyboardAssumption DEF TypeOK, Slots
<1>2. kbd_buffer_tail \div 256 = 0
  BY <1>1
<1> QED  BY <1>2 DEF kbd_haschar

\* What the handler's third case pushes is a character.
LEMMA TranslateIsChar ==
    ASSUME NEW code \in Scancodes, Translate(code) # NUL
    PROVE  Translate(code) \in Chars
BY KeyboardAssumption DEF Translate

\* The waiting characters are a sequence of length Count.
WaitingFacts ==
    /\ Waiting \in Seq(Chars \union {NUL})
    /\ Len(Waiting) = Count
    /\ \A i \in 1 .. Count : Waiting[i] = kbd_buffer[Slot(kbd_buffer_tail, i - 1)]

LEMMA WaitingIsSeq == TypeOK => WaitingFacts
<1> SUFFICES ASSUME TypeOK  PROVE WaitingFacts
  OBVIOUS
<1>1. Count \in Nat /\ Count <= BUFFER_SIZE - 1
  BY CountBounds, KeyboardAssumption
<1>2. \A i \in 1 .. Count : Slot(kbd_buffer_tail, i - 1) \in Slots
  BY <1>1, KeyboardAssumption DEF TypeOK, Slot, Slots
<1>3. Waiting \in [1 .. Count -> Chars \union {NUL}]
  BY <1>2 DEF Waiting, TypeOK
<1>4. Waiting \in Seq(Chars \union {NUL})
  BY <1>1, <1>3, SeqDef
<1>5. Len(Waiting) = Count
  BY <1>1, <1>3, <1>4, LenProperties
<1> QED  BY <1>4, <1>5 DEF Waiting, WaitingFacts

\* A push that finds room extends the waiting characters by one.
LEMMA PushAppends ==
    ASSUME TypeOK, TypeOK', NEW ch \in Chars,
           Succ(kbd_buffer_head) # kbd_buffer_tail,
           kbd_buffer' = [kbd_buffer EXCEPT ![kbd_buffer_head] = ch],
           kbd_buffer_head' = Succ(kbd_buffer_head),
           kbd_buffer_tail' = kbd_buffer_tail
    PROVE  /\ Count < BUFFER_SIZE - 1
           /\ Waiting' = Append(Waiting, ch)
<1> USE KeyboardAssumption
<1>1. /\ kbd_buffer_head \in Slots /\ kbd_buffer_tail \in Slots
      /\ BUFFER_SIZE \in Nat
      /\ kbd_buffer_head' = IF kbd_buffer_head + 1 = BUFFER_SIZE
                            THEN 0 ELSE kbd_buffer_head + 1
  BY SuccCases DEF TypeOK
<1>2. Count \in Nat /\ Count < BUFFER_SIZE - 1 /\ Count' = Count + 1
  BY <1>1 DEF Count, Slots
<1>3. Slot(kbd_buffer_tail, Count) = kbd_buffer_head
  BY <1>1 DEF Slot, Count, Slots
<1>4. \A i \in 0 .. Count - 1 : /\ Slot(kbd_buffer_tail, i) \in Slots
                                /\ Slot(kbd_buffer_tail, i) # kbd_buffer_head
  BY <1>1 DEF Slot, Count, Slots
<1> DEFINE S == Chars \union {NUL}
           app == Append(Waiting, ch)
<1>5. /\ Waiting \in Seq(S) /\ Len(Waiting) = Count
      /\ \A i \in 1 .. Count : Waiting[i] = kbd_buffer[Slot(kbd_buffer_tail, i - 1)]
  BY WaitingIsSeq DEF WaitingFacts
<1>6. /\ Waiting' \in Seq(S) /\ Len(Waiting') = Count'
      /\ \A i \in 1 .. Count' : Waiting'[i] = kbd_buffer'[Slot(kbd_buffer_tail', i - 1)]
  <2>1. TypeOK' => WaitingFacts'
    BY WaitingIsSeq, PTL
  <2> QED  BY <2>1 DEF WaitingFacts
<1>7. app \in Seq(S) /\ Len(app) = Count + 1
      /\ \A i \in 1 .. Count + 1 : app[i] = IF i = Count + 1 THEN ch ELSE Waiting[i]
  BY <1>2, <1>5, AppendProperties
<1>8. ASSUME NEW i \in 1 .. Count + 1  PROVE Waiting'[i] = app[i]
  <2>1. Waiting'[i] = kbd_buffer'[Slot(kbd_buffer_tail, i - 1)]
    BY <1>2, <1>6
  <2>2. CASE i = Count + 1
    BY <2>1, <2>2, <1>1, <1>2, <1>3, <1>7 DEF TypeOK
  <2>3. CASE i # Count + 1
    <3>1. i \in 1 .. Count /\ i - 1 \in 0 .. Count - 1
      BY <2>3, <1>2
    <3>2. kbd_buffer'[Slot(kbd_buffer_tail, i - 1)] = kbd_buffer[Slot(kbd_buffer_tail, i - 1)]
      BY <3>1, <1>4 DEF TypeOK
    <3> QED  BY <2>1, <2>3, <3>1, <3>2, <1>5, <1>7
  <2> QED  BY <2>2, <2>3
<1> HIDE DEF app
<1>9. Waiting' = app
  BY <1>2, <1>6, <1>7, <1>8, SeqEqual
<1> QED  BY <1>2, <1>9 DEF app

\* Moving the tail removes the oldest of the waiting characters.
LEMMA AdvanceRemoves ==
    ASSUME TypeOK, TypeOK', kbd_buffer_head # kbd_buffer_tail,
           kbd_buffer' = kbd_buffer,
           kbd_buffer_head' = kbd_buffer_head,
           kbd_buffer_tail' = Succ(kbd_buffer_tail)
    PROVE  /\ Waiting # <<>>
           /\ Head(Waiting) = kbd_buffer[kbd_buffer_tail]
           /\ Waiting' = Tail(Waiting)
<1> USE KeyboardAssumption
<1>1. /\ kbd_buffer_head \in Slots /\ kbd_buffer_tail \in Slots
      /\ BUFFER_SIZE \in Nat
      /\ kbd_buffer_tail' = IF kbd_buffer_tail + 1 = BUFFER_SIZE
                            THEN 0 ELSE kbd_buffer_tail + 1
  BY SuccCases DEF TypeOK
<1>2. Count \in Nat \ {0} /\ Count' = Count - 1
  BY <1>1 DEF Count, Slots
<1>3. \A i \in 0 .. Count - 1 : Slot(kbd_buffer_tail', i) = Slot(kbd_buffer_tail, i + 1)
  BY <1>1 DEF Slot, Count, Slots
<1> DEFINE S == Chars \union {NUL}
           t == Tail(Waiting)
<1>4. /\ Waiting \in Seq(S) /\ Len(Waiting) = Count
      /\ \A i \in 1 .. Count : Waiting[i] = kbd_buffer[Slot(kbd_buffer_tail, i - 1)]
  BY WaitingIsSeq DEF WaitingFacts
<1>5. /\ Waiting' \in Seq(S) /\ Len(Waiting') = Count'
      /\ \A i \in 1 .. Count' : Waiting'[i] = kbd_buffer'[Slot(kbd_buffer_tail', i - 1)]
  <2>1. TypeOK' => WaitingFacts'
    BY WaitingIsSeq, PTL
  <2> QED  BY <2>1 DEF WaitingFacts
<1>6. Waiting # <<>>
  BY <1>2, <1>4, EmptySeq
<1>7. Head(Waiting) = kbd_buffer[kbd_buffer_tail]
  <2>1. Head(Waiting) = Waiting[1]
    BY <1>4, <1>6
  <2>2. Slot(kbd_buffer_tail, 0) = kbd_buffer_tail
    BY <1>1 DEF Slot, Slots
  <2> QED  BY <2>1, <2>2, <1>2, <1>4
<1>8. t \in Seq(S) /\ Len(t) = Count - 1 /\ \A i \in 1 .. Count - 1 : t[i] = Waiting[i + 1]
  BY <1>4, <1>6, HeadTailProperties
<1>9. ASSUME NEW i \in 1 .. Count - 1  PROVE Waiting'[i] = t[i]
  <2>1. Waiting'[i] = kbd_buffer[Slot(kbd_buffer_tail', i - 1)]
    BY <1>2, <1>5
  <2>2. Slot(kbd_buffer_tail', i - 1) = Slot(kbd_buffer_tail, i)
    BY <1>2, <1>3
  <2>3. Waiting[i + 1] = kbd_buffer[Slot(kbd_buffer_tail, i)]
    BY <1>2, <1>4
  <2> QED  BY <2>1, <2>2, <2>3, <1>8
<1> HIDE DEF t
<1>10. Waiting' = t
  BY <1>2, <1>5, <1>8, <1>9, SeqEqual
<1> QED  BY <1>6, <1>7, <1>10 DEF t

-----------------------------------------------------------------------------
\* The initial state is well typed.
LEMMA InitTypes == Init => TypeOK
<1> SUFFICES ASSUME Init  PROVE TypeOK
  OBVIOUS
<1>1. 0 \in Slots
  BY KeyboardAssumption DEF Slots
<1>2. kbd_buffer \in [Slots -> Chars \union {NUL}]
  BY DEF Init
<1>3. delivered \in Seq(Chars \union {NUL})
  BY EmptySeq DEF Init
<1> QED  BY <1>1, <1>2, <1>3 DEF Init, TypeOK

\* KeyboardInv is inductive.
THEOREM KeyboardInvariant == Spec => []KeyboardInv
<1> USE KeyboardAssumption
<1>1. Init => KeyboardInv
  BY InitTypes DEF Init, KeyboardInv
<1>2. KeyboardInv /\ [Next]_vars => KeyboardInv'
  <2> SUFFICES ASSUME KeyboardInv, [Next]_vars  PROVE KeyboardInv'
    OBVIOUS
  <2>0. TypeOK
    BY DEF KeyboardInv
  <2>1. CASE \E code \in Scancodes, released \in BOOLEAN : kbd_irq_handler(code, released)
    <3> SUFFICES ASSUME NEW code \in Scancodes, NEW released \in BOOLEAN,
                        kbd_irq_handler(code, released)
                 PROVE  KeyboardInv'
      BY <2>1
    <3>1. pc' = pc \/ (pc = "halted" /\ pc' = "poll")
      BY DEF kbd_irq_handler, Wake
    <3>2. CASE UNCHANGED <<ring, lost, typed>>
      BY <3>1, <3>2 DEF kbd_irq_handler, KeyboardInv, TypeOK, ring
    <3>3. CASE /\ code \notin ShiftCodes \union ModifierCodes
               /\ Translate(code) # NUL
               /\ typed' = typed + 1
               /\ kbd_push_char(Translate(code))
               /\ UNCHANGED shift_pressed
      <4>1. Translate(code) \in Chars
        BY <3>3, TranslateIsChar
      <4>2. Succ(kbd_buffer_head) \in Slots
        BY <2>0, SuccCases DEF TypeOK
      <4>3. TypeOK'
        BY <2>0, <3>1, <3>3, <4>1, <4>2 DEF kbd_push_char, kbd_irq_handler, TypeOK
      <4>4. pc \in {"check", "load", "advance"} => kbd_buffer_head' # kbd_buffer_tail'
        BY <3>3, <4>2 DEF kbd_push_char, KeyboardInv
      <4>5. pc = "advance" => c' = kbd_buffer'[kbd_buffer_tail']
        BY <2>0, <3>3 DEF kbd_push_char, kbd_irq_handler, KeyboardInv, TypeOK
      <4> QED  BY <3>1, <4>3, <4>4, <4>5 DEF KeyboardInv
    <3> QED  BY <3>2, <3>3 DEF kbd_irq_handler
  <2>2. CASE OtherIrq
    BY <2>2 DEF OtherIrq, Wake, KeyboardInv, TypeOK, ring
  <2>3. CASE Hlt
    BY <2>3 DEF Hlt, KeyboardInv, TypeOK, ring
  <2>4. CASE Poll
    BY <2>0, <2>4, HasCharIsNonEmpty DEF Poll, KeyboardInv, TypeOK, ring
  <2>5. CASE Check
    BY <2>5 DEF Check, KeyboardInv, TypeOK, ring
  <2>6. CASE Load
    BY <2>6 DEF Load, KeyboardInv, TypeOK, ring
  <2>7. CASE Advance
    <3>1. Succ(kbd_buffer_tail) \in Slots
      BY <2>0, SuccCases DEF TypeOK
    <3> QED  BY <2>7, <3>1 DEF Advance, KeyboardInv, TypeOK
  <2>8. CASE Deliver
    <3>1. delivered' \in Seq(Chars \union {NUL})
      BY <2>0, <2>8, AppendProperties DEF Deliver, TypeOK
    <3> QED  BY <2>8, <3>1 DEF Deliver, KeyboardInv, TypeOK, ring
  <2>9. CASE UNCHANGED vars
    BY <2>9 DEF vars, ring, KeyboardInv, TypeOK
  <2> QED
    BY <2>1, <2>2, <2>3, <2>4, <2>5, <2>6, <2>7, <2>8, <2>9 DEF Next, MainLoop
<1> QED  BY <1>1, <1>2, PTL DEF Spec

\* The variables keep their types.
THEOREM KeyboardTypes == Spec => []TypeOK
<1>1. KeyboardInv => TypeOK
  BY DEF KeyboardInv
<1> QED  BY <1>1, KeyboardInvariant, PTL

\* The interrupt handler never overwrites the slot being read.
THEOREM SlotsAreStable == Spec => []SlotIsStable
<1>1. KeyboardInv => SlotIsStable
  BY CountBounds, KeyboardAssumption DEF KeyboardInv, SlotIsStable
<1> QED  BY <1>1, KeyboardInvariant, PTL

\* kbd_getchar is never called on an empty ring.
THEOREM GetcharFindsAChar == Spec => []NeverReadsEmpty
<1>1. KeyboardInv => NeverReadsEmpty
  BY CountBounds, KeyboardAssumption DEF KeyboardInv, NeverReadsEmpty
<1> QED  BY <1>1, KeyboardInvariant, PTL

-----------------------------------------------------------------------------
\* Initially the abstract queue is empty.
LEMMA InitRefines == Init => Fifo!FifoInit
<1> SUFFICES ASSUME Init  PROVE Fifo!FifoInit
  OBVIOUS
<1>1. TypeOK /\ Count = 0
  BY InitTypes DEF Init, Count
<1>2. Waiting = <<>>
  <2>1. Waiting \in Seq(Chars \union {NUL}) /\ Len(Waiting) = 0
    BY <1>1, WaitingIsSeq DEF WaitingFacts
  <2> QED  BY <2>1, EmptySeq
<1> QED  BY <1>2 DEF Init, Fifo!FifoInit

\* Steps that leave ring, pending character and losses alone are stutters.
LEMMA QuietStep ==
    ASSUME UNCHANGED <<ring, delivered, lost>>,
           pc # "deliver", pc' # "deliver"
    PROVE  UNCHANGED Fifo!fifoVars
<1>1. Waiting' = Waiting
  BY DEF ring, Waiting, Count, Slot
<1> QED  BY <1>1 DEF Fifo!fifoVars

\* Every step of the driver or the loop is a step of the FIFO or a stutter.
LEMMA StepRefines ==
    KeyboardInv /\ KeyboardInv' /\ [Next]_vars => [Fifo!FifoNext]_Fifo!fifoVars
<1> USE KeyboardAssumption
<1> SUFFICES ASSUME KeyboardInv, KeyboardInv', [Next]_vars
             PROVE  [Fifo!FifoNext]_Fifo!fifoVars
  OBVIOUS
<1>0. TypeOK /\ TypeOK'
  BY DEF KeyboardInv
<1>1. CASE \E code \in Scancodes, released \in BOOLEAN : kbd_irq_handler(code, released)
  <2> SUFFICES ASSUME NEW code \in Scancodes, NEW released \in BOOLEAN,
                      kbd_irq_handler(code, released)
               PROVE  [Fifo!FifoNext]_Fifo!fifoVars
    BY <1>1
  <2> DEFINE ch == Translate(code)
             taken == IF pc = "deliver" THEN Append(delivered, c) ELSE delivered
  <2>1. pc' = "deliver" <=> pc = "deliver"
    BY DEF kbd_irq_handler, Wake
  <2>2. taken' = taken
    BY <2>1 DEF kbd_irq_handler
  <2>3. CASE UNCHANGED <<ring, lost, typed>>
    <3>1. Waiting' = Waiting
      BY <2>3 DEF ring, Waiting, Count, Slot
    <3> QED  BY <2>2, <2>3, <3>1 DEF Fifo!fifoVars
  <2>4. CASE ch # NUL /\ kbd_push_char(ch)
    <3>1. ch \in Chars
      BY <2>4, TranslateIsChar
    <3>2. Len(Waiting) = Count
      BY <1>0, WaitingIsSeq DEF WaitingFacts
    <3> HIDE DEF ch
    <3>3. CASE Succ(kbd_buffer_head) # kbd_buffer_tail
      <4>1. lost' = lost
        BY <2>4, <3>3 DEF kbd_push_char
      <4>2. Count < BUFFER_SIZE - 1 /\ Waiting' = Append(Waiting, ch)
        BY <1>0, <2>4, <3>1, <3>3, PushAppends DEF kbd_push_char
      <4>3. Fifo!Put(ch)
        BY <2>2, <3>2, <4>1, <4>2 DEF Fifo!Put
      <4> QED  BY <3>1, <4>3 DEF Fifo!FifoNext
    <3>4. CASE Succ(kbd_buffer_head) = kbd_buffer_tail
      <4>1. lost' = lost + 1 /\ UNCHANGED ring
        BY <2>4, <3>4 DEF kbd_push_char, ring
      <4>2. Count = BUFFER_SIZE - 1
        <5>1. /\ kbd_buffer_head \in Slots /\ kbd_buffer_tail \in Slots
              /\ kbd_buffer_tail = IF kbd_buffer_head + 1 = BUFFER_SIZE
                                   THEN 0 ELSE kbd_buffer_head + 1
          BY <1>0, <3>4, SuccCases DEF TypeOK
        <5> QED  BY ONLY <5>1, KeyboardAssumption DEF Slots, Count
      <4>3. Waiting' = Waiting
        BY <4>1 DEF ring, Waiting, Count, Slot
      <4>4. Fifo!Put(ch)
        BY <2>2, <3>2, <4>1, <4>2, <4>3 DEF Fifo!Put
      <4> QED  BY <3>1, <4>4 DEF Fifo!FifoNext
    <3> QED  BY <3>3, <3>4
  <2> QED  BY <2>3, <2>4 DEF kbd_irq_handler
<1>2. CASE OtherIrq
  <2>1. Waiting' = Waiting
    BY <1>2 DEF OtherIrq, ring, Waiting, Count, Slot
  <2>2. pc' = "deliver" <=> pc = "deliver"
    BY <1>2 DEF OtherIrq, Wake
  <2> QED  BY <1>2, <2>1, <2>2 DEF OtherIrq, Fifo!fifoVars
<1>3. CASE Hlt
  BY <1>3, QuietStep DEF Hlt
<1>4. CASE Poll
  BY <1>4, QuietStep DEF Poll
<1>5. CASE Check
  BY <1>5, QuietStep DEF Check, KeyboardInv
<1>6. CASE Load
  BY <1>6, QuietStep DEF Load
<1>7. CASE Advance
  <2>1. /\ kbd_buffer_head # kbd_buffer_tail
        /\ c = kbd_buffer[kbd_buffer_tail]
        /\ kbd_buffer' = kbd_buffer
        /\ kbd_buffer_head' = kbd_buffer_head
        /\ kbd_buffer_tail' = Succ(kbd_buffer_tail)
        /\ UNCHANGED <<c, delivered, lost>>
        /\ pc = "advance" /\ pc' = "deliver"
    BY <1>7 DEF Advance, KeyboardInv
  <2>2. Waiting # <<>> /\ Head(Waiting) = c /\ Waiting' = Tail(Waiting)
    BY <1>0, <2>1, AdvanceRemoves
  <2>3. Fifo!Take
    BY <2>1, <2>2 DEF Fifo!Take
  <2> QED  BY <2>3 DEF Fifo!FifoNext
<1>8. CASE Deliver
  <2>1. Waiting' = Waiting
    BY <1>8 DEF Deliver, ring, Waiting, Count, Slot
  <2> QED  BY <1>8, <2>1 DEF Deliver, Fifo!fifoVars
<1>9. CASE UNCHANGED vars
  <2>1. Waiting' = Waiting
    BY <1>9 DEF vars, ring, Waiting, Count, Slot
  <2> QED  BY <1>9, <2>1 DEF vars, Fifo!fifoVars
<1> QED
  BY <1>1, <1>2, <1>3, <1>4, <1>5, <1>6, <1>7, <1>8, <1>9 DEF Next, MainLoop

\* The driver and the main loop implement the lossy bounded FIFO.
THEOREM KeyboardImplementsFifo == Spec => RefinesFifo
<1>1. Init => Fifo!FifoInit
  BY InitRefines
<1>2. KeyboardInv /\ KeyboardInv' /\ [Next]_vars => [Fifo!FifoNext]_Fifo!fifoVars
  BY StepRefines
<1> QED
  BY <1>1, <1>2, KeyboardInvariant, PTL DEF Spec, RefinesFifo, Fifo!FifoSpec
=============================================================================
