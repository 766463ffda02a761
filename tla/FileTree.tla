----------------------------- MODULE FileTree -----------------------------
(***************************************************************************)
(* What the RAM filesystem promises its callers: directories and files,    *)
(* each named by its path from the root; a file is an array of bytes that  *)
(* a write extends, and a gap it leaves reads as zeros.  An operation that *)
(* fails changes nothing.                                                  *)
(***************************************************************************)
EXTENDS Integers, Sequences

CONSTANTS Names, ZERO, Payloads, MaxSize

VARIABLE tree   \* from the paths that exist to what is there

Directory == [type |-> "dir", content |-> <<>>]
File(bytes) == [type |-> "file", content |-> bytes]

Parent(p) == SubSeq(p, 1, Len(p) - 1)

Splice(old, off, bytes) ==
    LET end == off + Len(bytes)
    IN  [i \in 1 .. (IF end > Len(old) THEN end ELSE Len(old)) |->
            CASE i \in off + 1 .. end -> bytes[i - off]
              [] i \notin off + 1 .. end /\ i <= Len(old) -> old[i]
              [] OTHER -> ZERO]

\* The operations, each as a relation between the tree before and after it.
Create(t, u, dir, name) ==
    LET p == Append(dir, name)
    IN  /\ DOMAIN u = DOMAIN t \union {p}
        /\ p \notin DOMAIN t
        /\ t[dir] = Directory
        /\ u[p] \in {Directory, File(<<>>)}
        /\ \A q \in DOMAIN t : u[q] = t[q]

Write(t, u, p) ==
    /\ DOMAIN u = DOMAIN t
    /\ t[p].type = "file"
    /\ \A q \in DOMAIN t \ {p} : u[q] = t[q]
    /\ \E off \in 0 .. MaxSize, bytes \in Payloads :
        /\ off + Len(bytes) <= MaxSize
        /\ u[p] = File(Splice(t[p].content, off, bytes))

Remove(t, u, p) ==
    /\ p # <<>>
    /\ DOMAIN u = DOMAIN t \ {p}
    /\ \A q \in DOMAIN u : q # <<>> => Parent(q) # p
    /\ \A q \in DOMAIN u : u[q] = t[q]

IsStep(t, u) ==
    \E p \in DOMAIN t :
        \/ \E name \in Names : Create(t, u, p, name)
        \/ Write(t, u, p)
        \/ Remove(t, u, p)

TreeInit == tree = [p \in {<<>>} |-> Directory]

TreeSpec == TreeInit /\ [][\E t \in {tree}, u \in {tree'} : IsStep(t, u)]_tree
=============================================================================
