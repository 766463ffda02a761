------------------------------ MODULE MCFat32 ------------------------------
(***************************************************************************)
(* FAT32 on small disks.                                                   *)
(***************************************************************************)
EXTENDS Fat32

MCShort == [n \in {"a", "b"} |-> n]
MCNewEntries == {<<"a", FILE>>, <<"b", DIR>>}
=============================================================================
