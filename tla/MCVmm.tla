------------------------------- MODULE MCVmm --------------------------------
(* Memory maps of up to 25 frames of two bytes, four bits to a byte of the   *)
(* bitmap: every amount of usable memory from one page to enough for all     *)
(* that boots, in one region or behind one that is too small for the bitmap, *)
(* with reserved entries that start and end inside a page.                   *)
EXTENDS Vmm

RAM(first, count) == [base |-> 2 * first, length |-> 2 * count, usable |-> TRUE]
Reserved(base, length) == [base |-> base, length |-> length, usable |-> FALSE]

MCMemmaps ==
    {<<Reserved(0, 2), RAM(1, n), Reserved(2 * n + 2, 3)>> : n \in 1..20}
    \cup {<<Reserved(0, 1), RAM(1, 1), Reserved(4, 5), RAM(5, n)>> : n \in 3..18}
    \cup {<<RAM(1, 1), Reserved(20, 20)>>}
MCFanout == <<2, 1, 8, 4>>
MCClientVirt == {30, 60}
=============================================================================
