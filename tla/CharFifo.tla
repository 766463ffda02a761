------------------------------ MODULE CharFifo ------------------------------
(***************************************************************************)
(* What the keyboard driver promises the shell: a lossy bounded queue.     *)
(* Characters come out in the order they went in, each once, and one is    *)
(* lost only when Capacity characters are already waiting.                 *)
(***************************************************************************)
EXTENDS Naturals, Sequences

CONSTANTS Chars, Capacity

VARIABLES
    queue,  \* characters waiting
    taken,  \* characters taken out so far
    lost    \* how many were dropped

fifoVars == <<queue, taken, lost>>

FifoInit == queue = <<>> /\ taken = <<>> /\ lost = 0

Put(ch) ==
    /\ IF Len(queue) < Capacity
       THEN queue' = Append(queue, ch) /\ lost' = lost
       ELSE queue' = queue /\ lost' = lost + 1
    /\ taken' = taken

Take ==
    /\ queue # <<>>
    /\ taken' = Append(taken, Head(queue))
    /\ queue' = Tail(queue)
    /\ lost' = lost

FifoNext == Take \/ \E ch \in Chars : Put(ch)

FifoSpec == FifoInit /\ [][FifoNext]_fifoVars
=============================================================================
