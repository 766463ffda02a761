------------------------------ MODULE MCRamfs ------------------------------
(***************************************************************************)
(* Ramfs on small instances: which nodes have which address does not       *)
(* matter, so the free addresses are symmetric.                            *)
(***************************************************************************)
EXTENDS Ramfs, TLC

MCSymmetry == Permutations(Node \ {root})

\* One and two bytes at a time.
MCPayloads == {<<"x">>, <<"x", "y">>}
MCOneByte == {<<"x">>}
=============================================================================
