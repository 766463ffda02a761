------------------------------ MODULE Keyboard ------------------------------
(***************************************************************************)
(* The PS/2 keyboard driver (src/kernel/keyboard.c) with its only consumer,*)
(* the main loop of src/kernel/kernel.c.  IRQ1's handler runs with         *)
(* interrupts off, so it is one atomic action that may fall between any    *)
(* two steps of the main loop; the loop is split where the ring's state is *)
(* read or written.                                                        *)
(*                                                                         *)
(* Main loop, by the value of pc:                                          *)
(*   "hlt"     about to execute hlt          "load"    kbd_getchar reads    *)
(*   "halted"  asleep until an interrupt               the slot             *)
(*   "poll"    while (kbd_haschar())         "advance" kbd_getchar moves    *)
(*   "check"   kbd_getchar tests for empty             the tail             *)
(*                                           "deliver" shell_key(c)         *)
(* The clock and mouse work between hlt and poll does not touch the ring.  *)
(* ctrl_pressed and alt_pressed are written and never read: left out.      *)
(***************************************************************************)
EXTENDS Integers, Sequences

CONSTANTS
    BUFFER_SIZE,              \* slots of the ring: 128
    Chars, NUL,               \* characters, and the 0 of the tables
    Scancodes,                \* scancodes with the release bit masked off
    ShiftCodes,               \* 0x2A and 0x36
    ModifierCodes,            \* ctrl and alt, 0x1D and 0x38
    scancode_to_ascii,        \* the two translation tables
    scancode_to_ascii_shift,
    MaxKeys                   \* bound: characters typed in a behaviour

\* 256 is where the loop in the kernel would break: see kbd_haschar.
ASSUME KeyboardAssumption ==
    /\ BUFFER_SIZE \in 2 .. 256
    /\ NUL \notin Chars
    /\ ShiftCodes \subseteq Scancodes
    /\ ModifierCodes \subseteq Scancodes \ ShiftCodes
    /\ scancode_to_ascii \in [Scancodes -> Chars \union {NUL}]
    /\ scancode_to_ascii_shift \in [Scancodes -> Chars \union {NUL}]
    /\ MaxKeys \in Nat

VARIABLES
    kbd_buffer, kbd_buffer_head, kbd_buffer_tail,
    shift_pressed,
    pc, c,       \* the main loop and its local character
    delivered,   \* history: what shell_key has been given
    lost, typed  \* history: characters dropped, characters offered

ring == <<kbd_buffer, kbd_buffer_head, kbd_buffer_tail>>
vars == <<ring, shift_pressed, pc, c, delivered, lost, typed>>

Slots == 0 .. BUFFER_SIZE - 1

-----------------------------------------------------------------------------
\* Mutant: wraps one slot too early.
SuccShort(i) == (i + 1) % (BUFFER_SIZE - 1)

Succ(i) == (i + 1) % BUFFER_SIZE

\* The characters waiting, oldest first: the slots from tail up to head.
Count ==
    IF kbd_buffer_head >= kbd_buffer_tail
    THEN kbd_buffer_head - kbd_buffer_tail
    ELSE kbd_buffer_head - kbd_buffer_tail + BUFFER_SIZE

\* The slot i places behind slot t.
Slot(t, i) == IF t + i < BUFFER_SIZE THEN t + i ELSE t + i - BUFFER_SIZE

Waiting == [i \in 1 .. Count |-> kbd_buffer[Slot(kbd_buffer_tail, i - 1)]]

Init ==
    /\ kbd_buffer = [i \in Slots |-> NUL]
    /\ kbd_buffer_head = 0
    /\ kbd_buffer_tail = 0
    /\ shift_pressed = FALSE
    /\ pc = "hlt"
    /\ c = NUL
    /\ delivered = <<>>
    /\ lost = 0
    /\ typed = 0

-----------------------------------------------------------------------------
\* Interrupts.

\* Mutant: an interrupt does not end hlt.
NoWake == pc' = pc

\* Any interrupt ends hlt; one that arrives a moment earlier does not.
Wake == pc' = IF pc = "halted" THEN "poll" ELSE pc

\* Mutant: no test for a full ring.
PushUnchecked(ch) ==
    /\ kbd_buffer' = [kbd_buffer EXCEPT ![kbd_buffer_head] = ch]
    /\ kbd_buffer_head' = Succ(kbd_buffer_head)
    /\ UNCHANGED <<kbd_buffer_tail, lost>>

\* kbd_push_char: a character that would fill the last slot is dropped.
kbd_push_char(ch) ==
    /\ IF Succ(kbd_buffer_head) # kbd_buffer_tail
       THEN /\ kbd_buffer' = [kbd_buffer EXCEPT ![kbd_buffer_head] = ch]
            /\ kbd_buffer_head' = Succ(kbd_buffer_head)
            /\ lost' = lost
       ELSE /\ lost' = lost + 1
            /\ UNCHANGED <<kbd_buffer, kbd_buffer_head>>
    /\ UNCHANGED kbd_buffer_tail

Translate(code) ==
    IF shift_pressed THEN scancode_to_ascii_shift[code]
                     ELSE scancode_to_ascii[code]

\* kbd_irq_handler with a byte in the output buffer.
kbd_irq_handler(code, released) ==
    /\ Wake
    /\ \/ /\ code \in ShiftCodes
          /\ shift_pressed' = ~released
          /\ UNCHANGED <<ring, lost, typed>>
       \/ /\ code \notin ShiftCodes
          /\ released \/ code \in ModifierCodes \/ Translate(code) = NUL
          /\ UNCHANGED <<ring, shift_pressed, lost, typed>>
       \/ /\ code \notin ShiftCodes \union ModifierCodes
          /\ ~released
          /\ Translate(code) # NUL
          /\ typed < MaxKeys
          /\ typed' = typed + 1
          /\ kbd_push_char(Translate(code))
          /\ UNCHANGED shift_pressed
    /\ UNCHANGED <<c, delivered>>

\* The timer, the mouse, or IRQ1 with an empty output buffer.
OtherIrq == Wake /\ UNCHANGED <<ring, shift_pressed, c, delivered, lost, typed>>

-----------------------------------------------------------------------------
\* The main loop.

\* What `while (kbd_haschar())` tests.  keyboard.c returns bool, keyboard.h
\* declares int, so the loop tests the whole of eax, of which the callee sets
\* only the low byte; the build leaves the tail's upper bytes in the rest.
kbd_haschar ==
    (kbd_buffer_tail \div 256) * 256
        + (IF kbd_buffer_head # kbd_buffer_tail THEN 1 ELSE 0)

Hlt ==
    /\ pc = "hlt"
    /\ pc' = "halted"
    /\ UNCHANGED <<ring, shift_pressed, c, delivered, lost, typed>>

Poll ==
    /\ pc = "poll"
    /\ pc' = IF kbd_haschar # 0 THEN "check" ELSE "hlt"
    /\ UNCHANGED <<ring, shift_pressed, c, delivered, lost, typed>>

\* kbd_getchar: 0 when the ring is empty ...
Check ==
    /\ pc = "check"
    /\ IF kbd_buffer_head = kbd_buffer_tail
       THEN c' = NUL /\ pc' = "deliver"
       ELSE c' = c /\ pc' = "load"
    /\ UNCHANGED <<ring, shift_pressed, delivered, lost, typed>>

\* ... else the character at the tail ...
Load ==
    /\ pc = "load"
    /\ c' = kbd_buffer[kbd_buffer_tail]
    /\ pc' = "advance"
    /\ UNCHANGED <<ring, shift_pressed, delivered, lost, typed>>

\* ... whose slot is then given back.
Advance ==
    /\ pc = "advance"
    /\ kbd_buffer_tail' = Succ(kbd_buffer_tail)
    /\ pc' = "deliver"
    /\ UNCHANGED <<kbd_buffer, kbd_buffer_head, shift_pressed, c, delivered, lost, typed>>

Deliver ==
    /\ pc = "deliver"
    /\ delivered' = Append(delivered, c)
    /\ pc' = "poll"
    /\ UNCHANGED <<ring, shift_pressed, c, lost, typed>>

MainLoop == Hlt \/ Poll \/ Check \/ Load \/ Advance \/ Deliver

Next ==
    \/ \E code \in Scancodes, released \in BOOLEAN : kbd_irq_handler(code, released)
    \/ OtherIrq
    \/ MainLoop

Spec == Init /\ [][Next]_vars

\* The processor runs the loop whenever it is not asleep, and the timer
\* interrupts for ever.
FairSpec == Spec /\ WF_vars(MainLoop) /\ WF_vars(OtherIrq)

-----------------------------------------------------------------------------
TypeOK ==
    /\ kbd_buffer \in [Slots -> Chars \union {NUL}]
    /\ kbd_buffer_head \in Slots
    /\ kbd_buffer_tail \in Slots
    /\ shift_pressed \in BOOLEAN
    /\ pc \in {"hlt", "halted", "poll", "check", "load", "advance", "deliver"}
    /\ c \in Chars \union {NUL}
    /\ delivered \in Seq(Chars \union {NUL})
    /\ lost \in Nat
    /\ typed \in Nat

\* The slot kbd_getchar is reading stays as it was read until the tail has
\* moved past it: the interrupt handler, which may run in between and wrap
\* all the way round, never overwrites it (keyboard.c:50-67).
SlotIsStable ==
    pc = "advance" => c = kbd_buffer[kbd_buffer_tail] /\ Count > 0

\* The shell is never handed the 0 that kbd_getchar returns for an empty
\* ring, so no NUL ends up in a command line (kernel.c:372).
NeverReadsEmpty ==
    pc = "check" => Count > 0

\* With the consumer's pending character the driver is a bounded lossy FIFO:
\* order, no duplicates, and a loss only when BUFFER_SIZE - 1 wait.
Fifo == INSTANCE CharFifo
    WITH Capacity <- BUFFER_SIZE - 1,
         queue <- Waiting,
         taken <- IF pc = "deliver" THEN Append(delivered, c) ELSE delivered
RefinesFifo == Fifo!FifoSpec

\* Every character that entered the ring reaches the shell, even one that
\* arrives after the last look at the ring and before hlt: the next timer
\* interrupt ends the sleep (kernel.c:367-373).
EveryCharArrives ==
    \A k \in 1 .. MaxKeys :
        (Len(delivered) + Count >= k) ~> (Len(delivered) >= k)
=============================================================================
