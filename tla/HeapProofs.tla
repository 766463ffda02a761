----------------------------- MODULE HeapProofs -----------------------------
(***************************************************************************)
(* Proofs about Heap: the pointer surgery of split_block and coalesce      *)
(* keeps every heap well formed and maximally merged, for every region     *)
(* size, header size, split threshold, granule and set of requests.        *)
(***************************************************************************)
EXTENDS Heap, WellFoundedInduction, TLAPS

LEMMA NatHasMin ==
    ASSUME NEW T, T \subseteq Nat, T # {}
    PROVE  \E x \in T : \A y \in T : x <= y
<1> DEFINE R == OpToRel(<, Nat)
<1>1. \E x \in T : \A y \in T : ~(<<y, x>> \in R)
  <2>1. IsWellFoundedOn(R, Nat)
    BY NatLessThanWellFounded
  <2> HIDE DEF R
  <2> QED  BY <2>1, WFMin
<1>2. \A x, y \in T : ~(<<y, x>> \in R) => x <= y
  BY DEF OpToRel
<1> HIDE DEF R
<1> QED  BY <1>1, <1>2

\* What a well-formed heap says of one block, in the form the provers use.
LEMMA BlockFacts ==
    ASSUME NEW b, WellFormed(b), NEW a \in DOMAIN b
    PROVE  /\ a \in Nat /\ a > 0 /\ HeapStart <= a
           /\ b[a].size \in Nat /\ b[a].free \in BOOLEAN
           /\ b[a].next \in Nat /\ b[a].prev \in Nat
           /\ BlockEnd(b, a) \in Nat /\ BlockEnd(b, a) > a
           /\ BlockEnd(b, a) <= HeapEnd
           /\ b[a] = [size |-> b[a].size, free |-> b[a].free,
                      next |-> b[a].next, prev |-> b[a].prev]
BY HeapAssumption DEF WellFormed, Apart, Header, BlockEnd

\* The successor of a block starts where the block ends, points back at it,
\* and is another block.
LEMMA NextFacts ==
    ASSUME NEW b, WellFormed(b), NEW a \in DOMAIN b, b[a].next # null
    PROVE  /\ b[a].next \in DOMAIN b
           /\ b[a].next = BlockEnd(b, a)
           /\ b[b[a].next].prev = a
           /\ b[a].next > a
BY BlockFacts DEF WellFormed, Linked

\* The predecessor of any block but the first points forward at it.
LEMMA PrevFacts ==
    ASSUME NEW b, WellFormed(b), NEW a \in DOMAIN b, b[a].prev # null
    PROVE  /\ b[a].prev \in DOMAIN b
           /\ b[b[a].prev].next = a
           /\ b[a].prev < a
<1>1. b[a].prev \in DOMAIN b /\ b[b[a].prev].next = a
  BY DEF WellFormed, Linked
<1>2. a # null
  BY BlockFacts DEF null
<1> QED
  BY <1>1, <1>2, NextFacts

\* Absorbing the successor, the merge that coalesce does in both directions.
LEMMA AbsorbWellFormed ==
    ASSUME NEW b, WellFormed(b), NEW a \in DOMAIN b, b[a].next # null
    PROVE  WellFormed(Absorb(b, a, b[a].next))
<1> DEFINE x == b[a].next
           c == Absorb(b, a, x)
           z == b[x].next
<1> USE HeapAssumption
<1>1. /\ x \in DOMAIN b /\ x = BlockEnd(b, a) /\ b[x].prev = a /\ x > a
      /\ x \in Nat /\ a \in Nat /\ x >= HeapStart /\ a >= HeapStart
  BY NextFacts, BlockFacts
<1>2. z # null => z \in DOMAIN b /\ z = BlockEnd(b, x) /\ b[z].prev = x /\ z > x
  BY <1>1, NextFacts
<1>3. z \in Nat
  BY <1>1, BlockFacts
<1>4. z # a /\ z # x
  BY <1>1, <1>2, BlockFacts DEF null
<1>5. DOMAIN c = DOMAIN b \ {x}
  BY DEF Absorb
<1>6. c[a] = [size |-> b[a].size + Hdr + b[x].size, free |-> b[a].free,
              next |-> z, prev |-> b[a].prev]
  <2>1. c[a] = [b[a] EXCEPT !.size = @ + Hdr + b[x].size, !.next = z]
    BY <1>1 DEF Absorb
  <2>2. b[a] = [size |-> b[a].size, free |-> b[a].free,
                next |-> b[a].next, prev |-> b[a].prev]
    BY BlockFacts
  <2> QED  BY <2>1, <2>2
<1>7. \A y \in DOMAIN c : y # a /\ y # z => c[y] = b[y]
  BY DEF Absorb
<1>8. z # null => c[z] = [size |-> b[z].size, free |-> b[z].free,
                          next |-> b[z].next, prev |-> a]
  BY <1>2, <1>4, BlockFacts DEF Absorb
<1>9. \A y \in DOMAIN c : c[y] \in Header
  <2> TAKE y \in DOMAIN c
  <2>1. CASE y = a  BY <2>1, <1>1, <1>3, <1>6, BlockFacts DEF Header
  <2>2. CASE y = z  BY <2>2, <1>1, <1>2, <1>8, <1>5, BlockFacts DEF Header, null
  <2>3. CASE y # a /\ y # z
    BY <2>3, <1>7, <1>5 DEF WellFormed
  <2> QED  BY <2>1, <2>2, <2>3
<1>10. c \in [DOMAIN c -> Header]
  BY <1>9 DEF Absorb
<1>11. BlockEnd(c, a) = BlockEnd(b, x)
  BY <1>1, <1>6, BlockFacts DEF BlockEnd
<1>12. \A y \in DOMAIN c : y # a => BlockEnd(c, y) = BlockEnd(b, y)
  BY <1>5, <1>7, <1>8, BlockFacts DEF BlockEnd, null
<1>13. HeapStart \in DOMAIN c
  BY <1>1, <1>5 DEF WellFormed
<1>14. Apart(c)
  <2>1. \A y \in DOMAIN c : HeapStart <= y /\ BlockEnd(c, y) <= HeapEnd
    BY <1>5, <1>1, <1>11, <1>12, BlockFacts
  <2>2. ASSUME NEW y \in DOMAIN c, NEW w \in DOMAIN c, y < w
        PROVE  BlockEnd(c, y) <= w
    <3>1. y \in DOMAIN b /\ w \in DOMAIN b /\ w # x /\ y # x /\ w \in Nat /\ y \in Nat
      BY <1>5, BlockFacts
    <3>2. CASE y = a
      <4>1. BlockEnd(b, a) <= w
        BY <3>1, <3>2, <2>2 DEF WellFormed, Apart
      <4>2. x < w
        BY <4>1, <3>1, <1>1
      <4> QED
        BY <4>2, <3>1, <3>2, <1>1, <1>11 DEF WellFormed, Apart
    <3>3. CASE y # a
      BY <3>3, <3>1, <2>2, <1>12 DEF WellFormed, Apart
    <3> QED  BY <3>2, <3>3
  <2> QED  BY <2>1, <2>2 DEF Apart
<1>15. Linked(c)
  <2> SUFFICES ASSUME NEW y \in DOMAIN c
      PROVE /\ c[y].next = (IF BlockEnd(c, y) = HeapEnd THEN null ELSE BlockEnd(c, y))
            /\ c[y].next # null => c[y].next \in DOMAIN c /\ c[c[y].next].prev = y
            /\ IF y = HeapStart THEN c[y].prev = null
               ELSE c[y].prev \in DOMAIN c /\ c[c[y].prev].next = y
    BY DEF Linked
  <2>0. y \in DOMAIN b /\ y # x /\ y \in Nat /\ y # null
    BY <1>5, BlockFacts DEF null
  <2>1. c[y].next = (IF BlockEnd(c, y) = HeapEnd THEN null ELSE BlockEnd(c, y))
    <3>1. CASE y = a
      BY <3>1, <1>1, <1>6, <1>11 DEF WellFormed, Linked
    <3>2. CASE y # a
      <4>1. c[y].next = b[y].next
        BY <3>2, <2>0, <1>7, <1>8
      <4> QED  BY <4>1, <3>2, <2>0, <1>12 DEF WellFormed, Linked
    <3> QED  BY <3>1, <3>2
  <2>2. c[y].next # null => c[y].next \in DOMAIN c /\ c[c[y].next].prev = y
    <3>1. CASE y = a
      BY <3>1, <1>1, <1>2, <1>4, <1>5, <1>6, <1>8
    <3>2. CASE y # a
      <4>1. c[y].next = b[y].next
        BY <3>2, <2>0, <1>7, <1>8
      <4> SUFFICES ASSUME b[y].next # null
                   PROVE  b[y].next \in DOMAIN c /\ c[b[y].next].prev = y
        BY <4>1
      <4>2. b[y].next \in DOMAIN b /\ b[b[y].next].prev = y
        BY <2>0, NextFacts
      <4>3. b[y].next # x /\ b[y].next # z
        BY <4>2, <3>2, <2>0, <1>1, <1>2
      <4>4. c[b[y].next].prev = b[b[y].next].prev
        BY <4>2, <4>3, <1>5, <1>6, <1>7
      <4> QED  BY <4>2, <4>3, <4>4, <1>5
    <3> QED  BY <3>1, <3>2
  <2>3. y = HeapStart => c[y].prev = null
    <3>1. y = HeapStart => y # z
      BY <1>1, <1>2, <1>3, <2>0 DEF null
    <3>2. y = HeapStart => b[y].prev = null
      BY <2>0 DEF WellFormed, Linked
    <3> QED  BY <3>1, <3>2, <2>0, <1>6, <1>7
  <2>4. y # HeapStart => c[y].prev \in DOMAIN c /\ c[c[y].prev].next = y
    <3> SUFFICES ASSUME y # HeapStart
                 PROVE  c[y].prev \in DOMAIN c /\ c[c[y].prev].next = y
      OBVIOUS
    <3>1. CASE y = z
      BY <3>1, <2>0, <1>1, <1>5, <1>6, <1>8
    <3>2. CASE y # z
      <4>1. c[y].prev = b[y].prev
        BY <3>2, <2>0, <1>6, <1>7
      <4>2. b[y].prev \in DOMAIN b /\ b[b[y].prev].next = y
        BY <2>0 DEF WellFormed, Linked
      <4>3. b[y].prev # x /\ b[y].prev # a
        BY <4>2, <3>2, <2>0
      <4>4. c[b[y].prev].next = b[b[y].prev].next
        BY <4>2, <4>3, <1>5, <1>7, <1>8, BlockFacts DEF null
      <4> QED  BY <4>1, <4>2, <4>3, <4>4, <1>5
    <3> QED  BY <3>1, <3>2
  <2> QED  BY <2>1, <2>2, <2>3, <2>4
<1>16. DOMAIN c \subseteq Nat \ {0}
  BY <1>5 DEF WellFormed
<1> QED
  BY <1>10, <1>13, <1>14, <1>15, <1>16 DEF WellFormed

\* What absorbing the successor leaves alone.
LEMMA AbsorbFields ==
    ASSUME NEW b, WellFormed(b), NEW a \in DOMAIN b,
           NEW x, b[a].next = x, x # null, NEW c, c = Absorb(b, a, x)
    PROVE  /\ DOMAIN c = DOMAIN b \ {x}
           /\ a \in DOMAIN c
           /\ c[a].next = b[x].next
           /\ \A y \in DOMAIN c : /\ c[y].free = b[y].free
                                  /\ y # a => c[y].next = b[y].next
                                  /\ y # a => c[y].size = b[y].size
<1>1. x \in DOMAIN b /\ x > a /\ a \in Nat /\ b[x].next # a
  BY NextFacts, BlockFacts DEF null
<1>2. DOMAIN c = DOMAIN b \ {x} /\ a \in DOMAIN c
  BY <1>1 DEF Absorb
<1>3. c[a] = [b[a] EXCEPT !.size = @ + Hdr + b[x].size, !.next = b[x].next]
  BY <1>1 DEF Absorb
<1>4. c[a].next = b[x].next /\ c[a].free = b[a].free
  BY <1>3, BlockFacts
<1>5. ASSUME NEW y \in DOMAIN c, y # a
      PROVE  /\ c[y].free = b[y].free /\ c[y].next = b[y].next
             /\ c[y].size = b[y].size
  <2>1. c[y] = IF y = b[x].next THEN [b[y] EXCEPT !.prev = a] ELSE b[y]
    BY <1>5 DEF Absorb
  <2> QED  BY <2>1, <1>2, BlockFacts
<1> QED  BY <1>1, <1>2, <1>4, <1>5

\* Setting the free flag of a block keeps the heap well formed.
LEMMA FlagWellFormed ==
    ASSUME NEW b, WellFormed(b), NEW a \in DOMAIN b, NEW f \in BOOLEAN
    PROVE  LET c == [b EXCEPT ![a].free = f]
           IN  /\ WellFormed(c)
               /\ DOMAIN c = DOMAIN b
               /\ c[a].free = f
               /\ \A y \in DOMAIN b : /\ y # a => c[y].free = b[y].free
                                      /\ c[y].next = b[y].next
                                      /\ c[y].prev = b[y].prev
                                      /\ c[y].size = b[y].size
<1> DEFINE c == [b EXCEPT ![a].free = f]
<1>1. DOMAIN c = DOMAIN b
  OBVIOUS
<1>2. c[a] = [size |-> b[a].size, free |-> f, next |-> b[a].next, prev |-> b[a].prev]
  <2>1. c[a] = [b[a] EXCEPT !.free = f]
    BY DEF WellFormed
  <2>2. b[a] = [size |-> b[a].size, free |-> b[a].free,
                next |-> b[a].next, prev |-> b[a].prev]
    BY BlockFacts
  <2> QED  BY <2>1, <2>2
<1>3. \A y \in DOMAIN b : y # a => c[y] = b[y]
  OBVIOUS
<1>4. \A y \in DOMAIN b : /\ y # a => c[y].free = b[y].free
                          /\ c[y].next = b[y].next
                          /\ c[y].prev = b[y].prev
                          /\ c[y].size = b[y].size
  BY <1>2, <1>3
<1>5. c[a] \in Header
  BY <1>2, BlockFacts DEF Header
<1>6. c \in [DOMAIN c -> Header]
  BY <1>1, <1>3, <1>5 DEF WellFormed
<1>7. \A y \in DOMAIN b : BlockEnd(c, y) = BlockEnd(b, y)
  BY <1>4 DEF BlockEnd
<1>8. Linked(c)
  <2> HIDE DEF c
  <2> QED  BY <1>1, <1>4, <1>7 DEF Linked, WellFormed
<1>9. Apart(c)
  <2> HIDE DEF c
  <2> QED  BY <1>1, <1>7 DEF Apart, WellFormed
<1>10. WellFormed(c)
  BY <1>1, <1>6, <1>8, <1>9 DEF WellFormed
<1> QED  BY <1>1, <1>2, <1>4, <1>10

\* split_block: well-formedness, and what it leaves alone.
LEMMA SplitWellFormed ==
    ASSUME NEW b, WellFormed(b), NEW a \in DOMAIN b,
           NEW n \in Nat, n <= b[a].size
    PROVE  LET c == split_block(b, a, n)
           IN  /\ WellFormed(c)
               /\ DOMAIN b \subseteq DOMAIN c
               /\ c[a].size >= n
               /\ \A y \in DOMAIN b : /\ c[y].free = b[y].free
                                      /\ y # a => c[y].size = b[y].size
                                      /\ y # a => c[y].next = b[y].next
               /\ \A y \in DOMAIN c \ DOMAIN b :
                      c[y].free /\ c[y].next = b[a].next /\ c[a].next = y
               /\ DOMAIN c = DOMAIN b => c[a].next = b[a].next
<1> USE HeapAssumption
<1> DEFINE rem == b[a].size - n
           new == data_ptr(a) + n
           z   == b[a].next
           c   == split_block(b, a, n)
<1>0. /\ a \in Nat /\ a > 0 /\ rem \in Nat /\ z \in Nat /\ new \in Nat /\ new > a
      /\ new >= HeapStart
  BY BlockFacts DEF data_ptr
<1>1. CASE rem <= Hdr + MinSplit
  <2>1. c = b
    BY <1>1 DEF split_block, Carve
  <2> QED  BY <2>1, BlockFacts
<1>2. CASE ~(rem <= Hdr + MinSplit)
  <2>1. rem > Hdr /\ rem - Hdr \in Nat
    BY <1>2, <1>0
  <2>2. new \notin DOMAIN b
    <3>1. new < BlockEnd(b, a)
      BY <2>1, <1>0, BlockFacts DEF BlockEnd, data_ptr
    <3>2. new \in DOMAIN b => BlockEnd(b, a) <= new
      BY <1>0 DEF WellFormed, Apart
    <3> QED  BY <3>1, <3>2, <1>0, BlockFacts
  <2>3. z # null => z \in DOMAIN b /\ z = BlockEnd(b, a) /\ b[z].prev = a /\ z > a
    BY NextFacts
  <2>4. a # new /\ z # a /\ z # new
    BY <1>0, <2>2, <2>3 DEF null
  <2>5. DOMAIN c = DOMAIN b \union {new}
    BY <1>2 DEF split_block, Carve
  <2>6. c[a] = [size |-> n, free |-> b[a].free, next |-> new, prev |-> b[a].prev]
    <3>1. c[a] = [b[a] EXCEPT !.size = n, !.next = new]
      BY <1>2 DEF split_block, Carve
    <3>2. b[a] = [size |-> b[a].size, free |-> b[a].free,
                  next |-> b[a].next, prev |-> b[a].prev]
      BY BlockFacts
    <3> QED  BY <3>1, <3>2
  <2>7. c[new] = [size |-> rem - Hdr, free |-> TRUE, next |-> z, prev |-> a]
    BY <1>2, <2>4 DEF split_block, Carve
  <2>8. z # null => c[z] = [size |-> b[z].size, free |-> b[z].free,
                            next |-> b[z].next, prev |-> new]
    <3>1. z # null => c[z] = [b[z] EXCEPT !.prev = new]
      BY <1>2, <2>3, <2>4 DEF split_block, Carve
    <3>2. z # null => b[z] = [size |-> b[z].size, free |-> b[z].free,
                              next |-> b[z].next, prev |-> b[z].prev]
      BY BlockFacts, <2>3
    <3> QED  BY <3>1, <3>2
  <2>9. \A y \in DOMAIN b : y # a /\ y # z => c[y] = b[y]
    BY <1>2, <2>2 DEF split_block, Carve
  <2>10. c = [y \in DOMAIN c |-> c[y]]
    BY <1>2 DEF split_block, Carve
  <2> HIDE DEF c
  <2>11. \A y \in DOMAIN b : y # a => BlockEnd(c, y) = BlockEnd(b, y)
    BY <2>8, <2>9, BlockFacts DEF BlockEnd, null
  <2>12. BlockEnd(c, a) = new
    BY <2>6, <1>0 DEF BlockEnd, data_ptr
  <2>13. BlockEnd(c, new) = BlockEnd(b, a)
    BY <2>7, <1>0, BlockFacts DEF BlockEnd, data_ptr
  <2>14. \A y \in DOMAIN c : c[y] \in Header
    <3> TAKE y \in DOMAIN c
    <3>1. CASE y = a    BY <3>1, <2>6, <1>0, BlockFacts DEF Header
    <3>2. CASE y = new  BY <3>2, <2>7, <2>1, <1>0 DEF Header
    <3>3. CASE y = z /\ z # null
      BY <3>3, <2>3, <2>8, <1>0, BlockFacts DEF Header
    <3>4. CASE y \in DOMAIN b /\ y # a /\ y # z
      BY <3>4, <2>9 DEF WellFormed
    <3> QED  BY <3>1, <3>2, <3>3, <3>4, <2>5, BlockFacts DEF null
  <2>15. Apart(c)
    <3>1. \A y \in DOMAIN c : HeapStart <= y /\ BlockEnd(c, y) <= HeapEnd
      <4> TAKE y \in DOMAIN c
      <4>1. CASE y = new  BY <4>1, <2>13, <1>0, BlockFacts
      <4>2. CASE y = a
        BY <4>2, <2>12, <1>0, <2>1, BlockFacts DEF BlockEnd, data_ptr, HeapEnd
      <4>3. CASE y # a /\ y # new  BY <4>3, <2>5, <2>11, BlockFacts
      <4> QED  BY <4>1, <4>2, <4>3
    <3>2. ASSUME NEW y \in DOMAIN c, NEW w \in DOMAIN c, y < w
          PROVE  BlockEnd(c, y) <= w
      <4>0. y \in Nat /\ w \in Nat
        BY <2>5, <1>0, BlockFacts
      <4>1. CASE y = a
        <5>1. CASE w = new  BY <4>1, <5>1, <2>12, <1>0
        <5>2. CASE w # new
          <6>1. BlockEnd(b, a) <= w
            BY <5>2, <4>1, <3>2, <2>5 DEF WellFormed, Apart
          <6> QED
            BY <6>1, <4>0, <4>1, <2>12, <2>1, <1>0, BlockFacts DEF BlockEnd, data_ptr
        <5> QED  BY <5>1, <5>2
      <4>2. CASE y = new
        <5>1. w \in DOMAIN b /\ a < w
          BY <4>2, <4>0, <3>2, <2>5, <1>0
        <5>2. BlockEnd(b, a) <= w
          BY <5>1 DEF WellFormed, Apart
        <5> QED  BY <5>2, <4>2, <2>13
      <4>3. CASE y # a /\ y # new
        <5>1. y \in DOMAIN b
          BY <4>3, <2>5
        <5>2. CASE w # new
          BY <5>1, <5>2, <4>3, <3>2, <2>5, <2>11 DEF WellFormed, Apart
        <5>3. CASE w = new
          <6>1. y < a \/ y > a
            BY <4>3, <4>0, <1>0
          <6>2. CASE y < a
            BY <6>2, <5>1, <5>3, <4>0, <4>3, <2>11, <1>0, BlockFacts DEF WellFormed, Apart
          <6>3. CASE y > a
            <7>1. BlockEnd(b, a) <= y
              BY <6>3, <5>1 DEF WellFormed, Apart
            <7> QED
              BY <7>1, <5>3, <3>2, <4>0, <2>1, <1>0, BlockFacts DEF BlockEnd, data_ptr
          <6> QED  BY <6>1, <6>2, <6>3
        <5> QED  BY <5>2, <5>3
      <4> QED  BY <4>1, <4>2, <4>3
    <3> QED  BY <3>1, <3>2 DEF Apart
  <2>16. Linked(c)
    <3> SUFFICES ASSUME NEW y \in DOMAIN c
        PROVE /\ c[y].next = (IF BlockEnd(c, y) = HeapEnd THEN null ELSE BlockEnd(c, y))
              /\ c[y].next # null => c[y].next \in DOMAIN c /\ c[c[y].next].prev = y
              /\ IF y = HeapStart THEN c[y].prev = null
                 ELSE c[y].prev \in DOMAIN c /\ c[c[y].prev].next = y
      BY DEF Linked
    <3>0. new # null /\ new # HeapStart /\ a # null
      BY <1>0, BlockFacts DEF null
    <3>1. CASE y = a
      <4>1. BlockEnd(c, a) # HeapEnd
        BY <2>12, <2>1, <1>0, BlockFacts DEF BlockEnd, data_ptr, HeapEnd
      <4>2. a # HeapStart => b[a].prev \in DOMAIN b /\ b[b[a].prev].next = a
        BY DEF WellFormed, Linked
      <4>3. a # HeapStart => b[a].prev # a /\ b[a].prev # z
        <5>1. a # HeapStart => b[a].prev < a /\ b[a].prev # null
          BY <4>2, PrevFacts, BlockFacts DEF null
        <5> QED  BY <5>1, <2>3, <1>0, BlockFacts
      <4>4. a = HeapStart => b[a].prev = null
        BY DEF WellFormed, Linked
      <4> QED  BY <3>1, <3>0, <4>1, <4>2, <4>3, <4>4, <2>5, <2>6, <2>7, <2>9, <2>12
    <3>2. CASE y = new
      <4>1. z = (IF BlockEnd(b, a) = HeapEnd THEN null ELSE BlockEnd(b, a))
        BY DEF WellFormed, Linked
      <4> QED  BY <3>2, <3>0, <4>1, <2>3, <2>5, <2>6, <2>7, <2>8, <2>13
    <3>3. CASE y = z /\ z # null
      <4>1. y \in DOMAIN b /\ y # a /\ y # new
        BY <3>3, <2>3, <2>4
      <4>2. c[y].next = (IF BlockEnd(c, y) = HeapEnd THEN null ELSE BlockEnd(c, y))
        BY <3>3, <4>1, <2>8, <2>11 DEF WellFormed, Linked
      <4>3. c[y].next # null => c[y].next \in DOMAIN c /\ c[c[y].next].prev = y
        <5>1. c[y].next = b[y].next
          BY <3>3, <2>8
        <5>2. b[y].next # null => /\ b[y].next \in DOMAIN b
                                  /\ b[b[y].next].prev = y
                                  /\ b[y].next > y
          BY <4>1, NextFacts
        <5>3. b[y].next # null => b[y].next # a /\ b[y].next # z
          BY <5>2, <3>3, <2>3, <1>0, <4>1, BlockFacts
        <5> QED  BY <5>1, <5>2, <5>3, <2>5, <2>9
      <4>4. y # HeapStart
        BY <3>3, <2>3, <4>1, BlockFacts
      <4> QED  BY <3>3, <4>2, <4>3, <4>4, <2>5, <2>7, <2>8
    <3>4. CASE y \in DOMAIN b /\ y # a /\ y # z
      <4>1. c[y] = b[y] /\ BlockEnd(c, y) = BlockEnd(b, y)
        BY <3>4, <2>9, <2>11
      <4>2. b[y].next # null => b[y].next \in DOMAIN b /\ b[b[y].next].prev = y
        BY <3>4, NextFacts
      <4>3. b[y].next # null => b[y].next # z
        BY <4>2, <3>4, <2>3
      <4>4. b[y].next # null => c[b[y].next].prev = y
        BY <4>2, <4>3, <2>6, <2>9
      <4>5. y # HeapStart => b[y].prev \in DOMAIN b /\ b[b[y].prev].next = y
        BY <3>4 DEF WellFormed, Linked
      <4>6. y # HeapStart => b[y].prev # a
        BY <4>5, <3>4
      <4>7. y # HeapStart => c[b[y].prev].next = y
        BY <4>5, <4>6, <2>8, <2>9, BlockFacts DEF null
      <4>8. y = HeapStart => b[y].prev = null
        BY <3>4 DEF WellFormed, Linked
      <4>9. b[y].next = (IF BlockEnd(b, y) = HeapEnd THEN null ELSE BlockEnd(b, y))
        BY <3>4 DEF WellFormed, Linked
      <4> QED  BY <4>1, <4>2, <4>4, <4>5, <4>7, <4>8, <4>9, <2>5
    <3> QED  BY <3>1, <3>2, <3>3, <3>4, <2>5, BlockFacts DEF null
  <2>17. WellFormed(c)
    BY <2>5, <2>10, <2>14, <2>15, <2>16, <1>0 DEF WellFormed
  <2>18. \A y \in DOMAIN b : /\ c[y].free = b[y].free
                             /\ y # a => c[y].size = b[y].size
                             /\ y # a => c[y].next = b[y].next
    BY <2>6, <2>8, <2>9, BlockFacts DEF null
  <2>19. /\ DOMAIN b \subseteq DOMAIN c
         /\ c[a].size >= n
         /\ DOMAIN c # DOMAIN b
    BY <2>2, <2>5, <2>6
  <2>20. \A y \in DOMAIN c \ DOMAIN b :
            c[y].free /\ c[y].next = b[a].next /\ c[a].next = y
    BY <2>5, <2>6, <2>7
  <2> QED  BY <2>17, <2>18, <2>19, <2>20 DEF c
<1> QED  BY <1>1, <1>2

-----------------------------------------------------------------------------
\* kmalloc on a chosen free block: the block joins the ones in use, the
\* others stay as they are, and nothing becomes mergeable.
LEMMA AllocateHeap ==
    ASSUME NEW b, WellFormed(b), Merged(b), NEW a \in DOMAIN b, b[a].free,
           NEW n \in Nat, n <= b[a].size
    PROVE  LET c == Allocate(b, a, n)
           IN  /\ WellFormed(c)
               /\ Merged(c)
               /\ InUse(c) = InUse(b) \union {a}
               /\ \A y \in InUse(b) : c[y].size = b[y].size
               /\ c[a].size >= n
<1> DEFINE s == split_block(b, a, n)
           c == Allocate(b, a, n)
<1>1. /\ WellFormed(s)
      /\ DOMAIN b \subseteq DOMAIN s
      /\ s[a].size >= n
      /\ \A y \in DOMAIN b : /\ s[y].free = b[y].free
                             /\ y # a => s[y].size = b[y].size
                             /\ y # a => s[y].next = b[y].next
      /\ \A y \in DOMAIN s \ DOMAIN b :
             s[y].free /\ s[y].next = b[a].next /\ s[a].next = y
      /\ DOMAIN s = DOMAIN b => s[a].next = b[a].next
  BY SplitWellFormed
<1>2. c = [s EXCEPT ![a].free = FALSE]
  BY DEF Allocate
<1> HIDE DEF s, c
<1>3. /\ WellFormed(c)
      /\ DOMAIN c = DOMAIN s
      /\ c[a].free = FALSE
      /\ \A y \in DOMAIN s : /\ y # a => c[y].free = s[y].free
                             /\ c[y].next = s[y].next
                             /\ c[y].size = s[y].size
  BY <1>1, <1>2, FlagWellFormed
<1>4. InUse(c) = InUse(b) \union {a}
  BY <1>1, <1>3 DEF InUse
<1>5. \A y \in InUse(b) : c[y].size = b[y].size
  BY <1>1, <1>3 DEF InUse
<1>6. Merged(c)
  <2> SUFFICES ASSUME NEW y \in DOMAIN c, c[y].free, c[y].next # null
               PROVE  ~c[c[y].next].free
    BY DEF Merged, MergedAt
  <2>1. y # a /\ s[y].free /\ s[y].next = c[y].next
    BY <1>3
  <2>2. c[y].next \in DOMAIN s
    BY <1>3, NextFacts
  <2>3. CASE y \in DOMAIN b
    <3>1. b[y].free /\ b[y].next = c[y].next
      BY <2>1, <2>3, <1>1
    <3>2. b[y].next \in DOMAIN b /\ ~b[b[y].next].free
      BY <3>1, <2>3, NextFacts DEF Merged, MergedAt
    <3> QED  BY <3>1, <3>2, <1>1, <1>3
  <2>4. CASE y \notin DOMAIN b
    <3>1. c[y].next = b[a].next
      BY <2>1, <2>4, <1>1, <1>3
    <3>2. b[a].next \in DOMAIN b /\ ~b[b[a].next].free
      BY <3>1, NextFacts DEF Merged, MergedAt
    <3> QED  BY <3>1, <3>2, <1>1, <1>3
  <2> QED  BY <2>3, <2>4
<1> QED  BY <1>1, <1>3, <1>4, <1>5, <1>6 DEF c

\* The first half of coalesce leaves block a merged with its successor.
LEMMA MergeNextHeap ==
    ASSUME NEW b, WellFormed(b), NEW a \in DOMAIN b, b[a].free,
           \A y \in DOMAIN b : y # a /\ b[y].next # a => MergedAt(b, y)
    PROVE  LET c == MergeNext(b, a)
           IN  /\ WellFormed(c)
               /\ a \in DOMAIN c /\ c[a].free
               /\ \A y \in DOMAIN c : c[y].next # a => MergedAt(c, y)
               /\ InUse(c) = InUse(b)
               /\ \A y \in InUse(b) : c[y].size = b[y].size
<1> DEFINE x == b[a].next
           c == MergeNext(b, a)
<1>1. CASE x # null /\ b[x].free
  <2>1. c = Absorb(b, a, x)
    BY <1>1 DEF MergeNext
  <2> HIDE DEF c
  <2>2. WellFormed(c)
    BY <1>1, <2>1, AbsorbWellFormed
  <2>3. x \in DOMAIN b /\ x > a /\ b[x].prev = a /\ a \in Nat
    BY <1>1, NextFacts, BlockFacts
  <2>4. /\ DOMAIN c = DOMAIN b \ {x}
        /\ a \in DOMAIN c
        /\ c[a].next = b[x].next
        /\ \A y \in DOMAIN c : /\ c[y].free = b[y].free
                               /\ y # a => c[y].next = b[y].next
                               /\ y # a => c[y].size = b[y].size
    BY <1>1, <2>1, AbsorbFields
  <2>5. ASSUME NEW y \in DOMAIN c, c[y].next # a, c[y].free, c[y].next # null
        PROVE  ~c[c[y].next].free
    <3>1. CASE y = a
      <4>1. b[x].next # a /\ MergedAt(b, x)
        BY <2>3, <2>4, <2>5, <3>1
      <4>2. ~b[b[x].next].free
        BY <4>1, <1>1, <2>4, <2>5, <3>1 DEF MergedAt
      <4>3. c[y].next \in DOMAIN c
        BY <2>2, <2>5, NextFacts
      <4> QED  BY <4>2, <4>3, <3>1, <2>4
    <3>2. CASE y # a
      <4>1. y \in DOMAIN b /\ b[y].next = c[y].next /\ b[y].free
        BY <3>2, <2>4, <2>5
      <4>2. ~b[b[y].next].free
        BY <4>1, <3>2, <2>5 DEF MergedAt
      <4>3. c[y].next \in DOMAIN c
        BY <2>2, <2>5, NextFacts
      <4> QED  BY <4>1, <4>2, <4>3, <2>4
    <3> QED  BY <3>1, <3>2
  <2>6. InUse(c) = InUse(b)
    BY <1>1, <2>4 DEF InUse
  <2>7. \A y \in InUse(b) : c[y].size = b[y].size
    BY <2>4, <2>6 DEF InUse
  <2>8. c[a].free
    BY <2>4
  <2>9. \A y \in DOMAIN c : c[y].next # a => MergedAt(c, y)
    BY <2>5 DEF MergedAt
  <2> QED  BY <2>2, <2>4, <2>6, <2>7, <2>8, <2>9 DEF c
<1>2. CASE ~(x # null /\ b[x].free)
  <2>1. c = b
    BY <1>2 DEF MergeNext
  <2>2. MergedAt(b, a)
    BY <1>2 DEF MergedAt
  <2> HIDE DEF c
  <2> QED  BY <2>1, <2>2 DEF c
<1> QED  BY <1>1, <1>2

\* The second half leaves no mergeable pair anywhere.
LEMMA MergePrevHeap ==
    ASSUME NEW b, WellFormed(b), NEW a \in DOMAIN b, b[a].free,
           \A y \in DOMAIN b : b[y].next # a => MergedAt(b, y)
    PROVE  LET c == MergePrev(b, a)
           IN  /\ WellFormed(c)
               /\ Merged(c)
               /\ InUse(c) = InUse(b)
               /\ \A y \in InUse(b) : c[y].size = b[y].size
<1> DEFINE p == b[a].prev
           c == MergePrev(b, a)
<1>1. CASE p # null /\ b[p].free
  <2>1. p \in DOMAIN b /\ b[p].next = a /\ p < a /\ p \in Nat /\ a \in Nat /\ a # null
    BY <1>1, PrevFacts, BlockFacts DEF null
  <2>2. c = Absorb(b, p, a)
    BY <1>1 DEF MergePrev
  <2> HIDE DEF c
  <2>3. WellFormed(c)
    BY <2>1, <2>2, AbsorbWellFormed
  <2>4. /\ DOMAIN c = DOMAIN b \ {a}
        /\ p \in DOMAIN c
        /\ c[p].next = b[a].next
        /\ \A y \in DOMAIN c : /\ c[y].free = b[y].free
                               /\ y # p => c[y].next = b[y].next
                               /\ y # p => c[y].size = b[y].size
    <3> HIDE DEF p
    <3>1. /\ WellFormed(b) /\ p \in DOMAIN b /\ b[p].next = a /\ a # null
          /\ c = Absorb(b, p, a)
      BY <2>1, <2>2
    <3> QED  BY ONLY <3>1, AbsorbFields
  <2>5. b[a].next # a
    BY <2>1, NextFacts
  <2>6. ASSUME NEW y \in DOMAIN c, c[y].free, c[y].next # null
        PROVE  ~c[c[y].next].free
    <3>1. c[y].next \in DOMAIN c
      BY <2>3, <2>6, NextFacts
    <3>2. CASE y = p
      BY <3>1, <3>2, <2>4, <2>5, <2>6 DEF MergedAt
    <3>3. CASE y # p
      <4>1. y \in DOMAIN b /\ b[y].next = c[y].next /\ b[y].free
        BY <3>3, <2>4, <2>6
      <4>2. b[y].next # a
        BY <4>1, <3>1, <2>4
      <4> QED  BY <4>1, <4>2, <3>1, <2>4, <2>6 DEF MergedAt
    <3> QED  BY <3>2, <3>3
  <2>7. InUse(c) = InUse(b)
    BY <2>4 DEF InUse
  <2>8. \A y \in InUse(b) : c[y].size = b[y].size
    BY <1>1, <2>4, <2>7 DEF InUse
  <2>9. Merged(c)
    BY <2>6 DEF Merged, MergedAt
  <2> QED  BY <2>3, <2>7, <2>8, <2>9 DEF c
<1>2. CASE ~(p # null /\ b[p].free)
  <2>1. c = b
    BY <1>2 DEF MergePrev
  <2>2. ASSUME NEW y \in DOMAIN b, b[y].next = a  PROVE MergedAt(b, y)
    <3>1. a # null
      BY BlockFacts DEF null
    <3>2. p = y
      BY <2>2, <3>1, NextFacts
    <3>3. y # null
      BY BlockFacts DEF null
    <3> QED  BY <3>2, <3>3, <1>2 DEF MergedAt
  <2>3. Merged(b)
    BY <2>2 DEF Merged
  <2> HIDE DEF c
  <2> QED  BY <2>1, <2>3 DEF c
<1> QED  BY <1>1, <1>2

\* kfree on an accepted block: the block leaves the ones in use, the others
\* stay as they are, and the heap is maximally merged again.
LEMMA ReleaseHeap ==
    ASSUME NEW b, WellFormed(b), Merged(b), NEW a \in DOMAIN b, ~b[a].free
    PROVE  LET c == Release(b, a)
           IN  /\ WellFormed(c)
               /\ Merged(c)
               /\ InUse(c) = InUse(b) \ {a}
               /\ \A y \in InUse(c) : c[y].size = b[y].size
<1> DEFINE d == [b EXCEPT ![a].free = TRUE]
           e == MergeNext(d, a)
           c == MergePrev(e, a)
<1>1. Release(b, a) = c
  BY DEF Release, coalesce
<1>2. /\ WellFormed(d)
      /\ DOMAIN d = DOMAIN b
      /\ d[a].free
      /\ \A y \in DOMAIN b : /\ y # a => d[y].free = b[y].free
                             /\ d[y].next = b[y].next
                             /\ d[y].size = b[y].size
  BY FlagWellFormed
<1> HIDE DEF d
<1>3. ASSUME NEW y \in DOMAIN d, y # a, d[y].next # a  PROVE MergedAt(d, y)
  <2>1. b[y].next # null => b[y].next \in DOMAIN b
    BY <1>2, NextFacts
  <2> QED  BY <2>1, <1>2, <1>3 DEF Merged, MergedAt
<1>4. InUse(d) = InUse(b) \ {a}
  BY <1>2 DEF InUse
<1>5. /\ WellFormed(e)
      /\ a \in DOMAIN e /\ e[a].free
      /\ \A y \in DOMAIN e : e[y].next # a => MergedAt(e, y)
      /\ InUse(e) = InUse(d)
      /\ \A y \in InUse(d) : e[y].size = d[y].size
  BY <1>2, <1>3, MergeNextHeap
<1> HIDE DEF e
<1>6. /\ WellFormed(c)
      /\ Merged(c)
      /\ InUse(c) = InUse(e)
      /\ \A y \in InUse(e) : c[y].size = e[y].size
  BY <1>5, MergePrevHeap
<1> HIDE DEF c
<1>7. \A y \in InUse(c) : c[y].size = b[y].size
  BY <1>2, <1>4, <1>5, <1>6 DEF InUse
<1> QED  BY <1>1, <1>4, <1>5, <1>6, <1>7

-----------------------------------------------------------------------------
\* The inductive invariant: a heap, once there is one, is well formed and
\* maximally merged; the blocks in use are the clients' allocations; and no
\* stale pointer is one of them.
HeapInv ==
    /\ halted \in BOOLEAN
    /\ heap_size \in {0, HeapSize}
    /\ heap_head \in {null, HeapStart}
    /\ heap_size = 0 => heap_head = null
    /\ heap_head = null => block = [a \in {} |-> 0] /\ held = [p \in {} |-> 0]
    /\ HeapWellFormed
    /\ NoAdjacentFree
    /\ held \in [DOMAIN held -> Nat]
    /\ HeldIsAllocated
    /\ stale \subseteq Nat
    /\ stale \cap DOMAIN held = {}

\* Rounding up never rounds down.
LEMMA RoundUpBounds ==
    ASSUME NEW n \in Nat
    PROVE  RoundUp(n) \in Nat /\ RoundUp(n) >= n
<1> USE HeapAssumption
<1> DEFINE m == n + Align - 1
<1>1. m \in Nat
  OBVIOUS
<1>2. m = Align * (m \div Align) + (m % Align) /\ m % Align \in 0 .. Align - 1
  BY <1>1
<1>3. m \div Align \in Nat
  BY <1>1
<1>4. (m \div Align) * Align = Align * (m \div Align)
  BY <1>3
<1>5. RoundUp(n) = m - (m % Align)
  BY <1>2, <1>3, <1>4 DEF RoundUp
<1> QED
  BY <1>1, <1>2, <1>5

\* The first fit is a fit.
LEMMA FirstFitFits ==
    ASSUME NEW b, DOMAIN b \subseteq Nat, NEW n, Fits(b, n) # {}
    PROVE  FirstFit(b, n) \in Fits(b, n)
<1>1. \E a \in Fits(b, n) : \A x \in Fits(b, n) : a <= x
  BY NatHasMin DEF Fits
<1> QED  BY <1>1 DEF FirstFit

\* The client's view of kmalloc on a chosen block a: one more pointer, new,
\* with room for the n bytes asked for.
LEMMA AllocateOwned ==
    ASSUME NEW b, WellFormed(b), Merged(b), NEW a \in DOMAIN b, b[a].free,
           NEW n \in Nat, NEW size \in Nat, n <= size, size <= b[a].size,
           NEW h, h \in [DOMAIN h -> Nat], Owned(b, h),
           NEW c, c = Allocate(b, a, size),
           NEW p, p = data_ptr(a),
           NEW g, g = [q \in DOMAIN h \union {p} |-> IF q = p THEN n ELSE h[q]]
    PROVE  /\ WellFormed(c) /\ Merged(c)
           /\ p \in Nat /\ p \notin DOMAIN h
           /\ g \in [DOMAIN g -> Nat] /\ DOMAIN g = DOMAIN h \union {p}
           /\ Owned(c, g)
<1> USE HeapAssumption
<1>1. /\ WellFormed(c) /\ Merged(c)
      /\ InUse(c) = InUse(b) \union {a}
      /\ \A y \in InUse(b) : c[y].size = b[y].size
      /\ c[a].size >= size
  BY AllocateHeap
<1>2. a \in Nat /\ p \in Nat /\ get_header(p) = a
  BY BlockFacts DEF data_ptr, get_header
<1>3. \A y \in InUse(b) : y \in DOMAIN b /\ y \in Nat /\ y # a
  BY BlockFacts DEF InUse
<1>4. p \notin DOMAIN h
  BY <1>2, <1>3 DEF Owned, data_ptr
<1>5. DOMAIN g = {data_ptr(y) : y \in InUse(c)}
  BY <1>1 DEF Owned
<1>6. ASSUME NEW q \in DOMAIN g  PROVE g[q] <= c[get_header(q)].size
  <2>1. CASE q = p
    <3>1. c[a].size \in Nat
      BY <1>1, BlockFacts DEF InUse
    <3> QED  BY <2>1, <3>1, <1>1, <1>2
  <2>2. CASE q # p
    <3>1. q \in DOMAIN h /\ g[q] = h[q]
      BY <2>2
    <3>2. PICK y \in InUse(b) : q = data_ptr(y)
      BY <3>1 DEF Owned
    <3>3. get_header(q) = y
      BY <3>2, <1>3 DEF data_ptr, get_header
    <3> QED  BY <3>1, <3>3, <1>1 DEF Owned
  <2> QED  BY <2>1, <2>2
<1>7. g \in [DOMAIN g -> Nat]
  OBVIOUS
<1> QED  BY <1>1, <1>2, <1>4, <1>5, <1>6, <1>7 DEF Owned

\* The client's view of kfree on a pointer it owns: that pointer, and only
\* that one, is gone.
LEMMA ReleaseOwned ==
    ASSUME NEW b, WellFormed(b), Merged(b),
           NEW h, h \in [DOMAIN h -> Nat], Owned(b, h),
           NEW p \in DOMAIN h,
           NEW c, c = Release(b, get_header(p)),
           NEW g, g = [q \in DOMAIN h \ {p} |-> h[q]]
    PROVE  /\ WellFormed(c) /\ Merged(c)
           /\ g \in [DOMAIN g -> Nat] /\ DOMAIN g = DOMAIN h \ {p}
           /\ Owned(c, g)
<1> USE HeapAssumption
<1>1. PICK a \in InUse(b) : p = data_ptr(a)
  BY DEF Owned
<1>2. \A y \in InUse(b) : y \in DOMAIN b /\ y \in Nat /\ ~b[y].free
  BY BlockFacts DEF InUse
<1>3. get_header(p) = a
  BY <1>1, <1>2 DEF data_ptr, get_header
<1>4. /\ WellFormed(c) /\ Merged(c)
      /\ InUse(c) = InUse(b) \ {a}
      /\ \A y \in InUse(c) : c[y].size = b[y].size
  BY <1>2, <1>3, ReleaseHeap
<1>5. \A y \in InUse(b) : data_ptr(y) = p => y = a
  BY <1>1, <1>2 DEF data_ptr
<1>6. DOMAIN g = {data_ptr(y) : y \in InUse(c)}
  BY <1>1, <1>4, <1>5 DEF Owned
<1>7. ASSUME NEW q \in DOMAIN g  PROVE g[q] <= c[get_header(q)].size
  <2>1. PICK y \in InUse(c) : q = data_ptr(y)
    BY <1>6
  <2>2. get_header(q) = y /\ q \in DOMAIN h /\ g[q] = h[q]
    BY <2>1, <1>2, <1>4 DEF data_ptr, get_header
  <2> QED  BY <2>1, <2>2, <1>4 DEF Owned
<1> QED  BY <1>4, <1>6, <1>7 DEF Owned

-----------------------------------------------------------------------------
\* The initial heap of heap_init, one free block, is well formed.
LEMMA InitialHeap ==
    ASSUME NEW b, b = [a \in {HeapStart} |->
                         [size |-> HeapSize - Hdr, free |-> TRUE,
                          next |-> null, prev |-> null]]
    PROVE  WellFormed(b) /\ Merged(b) /\ InUse(b) = {}
<1> USE HeapAssumption
<1>1. /\ DOMAIN b = {HeapStart}
      /\ b[HeapStart] = [size |-> HeapSize - Hdr, free |-> TRUE,
                         next |-> null, prev |-> null]
  OBVIOUS
<1>2. BlockEnd(b, HeapStart) = HeapEnd
  BY <1>1 DEF BlockEnd, HeapEnd
<1>3. b \in [DOMAIN b -> Header]
  BY DEF Header, null
<1>4. Linked(b)
  BY <1>1, <1>2 DEF Linked
<1>5. Apart(b)
  BY <1>1, <1>2 DEF Apart, HeapEnd
<1> QED  BY <1>1, <1>3, <1>4, <1>5 DEF WellFormed, Merged, MergedAt, InUse

\* With no heap there is nothing to give out.
LEMMA FitsHasHead ==
    ASSUME HeapInv, NEW n, Fits(block, n) # {}
    PROVE  heap_head = HeapStart /\ WellFormed(block) /\ Merged(block)
BY DEF HeapInv, Fits, HeapWellFormed, NoAdjacentFree

LEMMA KmallocInv ==
    ASSUME HeapInv, NEW n \in Requests, kmalloc(n)
    PROVE  HeapInv'
<1> USE HeapAssumption
<1> DEFINE size == RoundUp(n)
           a == FirstFit(block, size)
           p == data_ptr(a)
<1>1. n \in Nat /\ size \in Nat /\ n <= size
  BY RoundUpBounds
<1>2. CASE n = 0 \/ Fits(block, size) = {}
  BY <1>2 DEF kmalloc, vars, HeapInv, HeapWellFormed, NoAdjacentFree, HeldIsAllocated
<1>3. CASE n # 0 /\ Fits(block, size) # {}
  <2>1. heap_head = HeapStart /\ WellFormed(block) /\ Merged(block)
    BY <1>3, FitsHasHead
  <2>2. a \in Fits(block, size)
    BY <1>3, <2>1, FirstFitFits DEF WellFormed
  <2>3. a \in DOMAIN block /\ block[a].free /\ size <= block[a].size
    <3>1. a \in DOMAIN block /\ block[a].free /\ block[a].size >= size
      BY <2>2 DEF Fits
    <3> QED  BY <3>1, <2>1, <1>1, BlockFacts
  <2>4. /\ block' = Allocate(block, a, size)
        /\ held' = [q \in DOMAIN held \union {p} |-> IF q = p THEN n ELSE held[q]]
        /\ stale' = stale \ {p}
        /\ UNCHANGED <<heap_head, heap_size, halted>>
    BY <1>3 DEF kmalloc
  <2> HIDE DEF size, a
  <2>5. /\ WellFormed(block') /\ Merged(block')
        /\ p \in Nat
        /\ held' \in [DOMAIN held' -> Nat] /\ DOMAIN held' = DOMAIN held \union {p}
        /\ Owned(block', held')
    <3>1. held \in [DOMAIN held -> Nat] /\ Owned(block, held)
      BY DEF HeapInv, HeldIsAllocated
    <3>2. p = data_ptr(a)
      OBVIOUS
    <3> HIDE DEF p
    <3> QED  BY ONLY <1>1, <2>1, <2>3, <2>4, <3>1, <3>2, AllocateOwned
  <2>6. stale' \subseteq Nat /\ stale' \cap DOMAIN held' = {}
    BY <2>4, <2>5 DEF HeapInv
  <2> QED
    BY <2>1, <2>4, <2>5, <2>6
    DEF HeapInv, HeapWellFormed, NoAdjacentFree, HeldIsAllocated, null
<1> QED  BY <1>2, <1>3

\* A pointer whose header kfree accepts is one its caller owns.
LEMMA AcceptedIsHeld ==
    ASSUME HeapInv, NEW p \in Nat, get_header(p) \in DOMAIN block,
           ~block[get_header(p)].free
    PROVE  /\ p \in DOMAIN held
           /\ heap_head = HeapStart /\ WellFormed(block) /\ Merged(block)
<1>1. data_ptr(get_header(p)) = p
  BY HeapAssumption DEF data_ptr, get_header
<1>2. get_header(p) \in InUse(block)
  BY DEF InUse
<1> QED
  BY <1>1, <1>2
  DEF HeapInv, HeapWellFormed, NoAdjacentFree, HeldIsAllocated, Owned

LEMMA KfreeInv ==
    ASSUME HeapInv, NEW p \in DOMAIN held \union stale, kfree(p)
    PROVE  HeapInv'
<1> USE HeapAssumption
<1> DEFINE a == get_header(p)
<1>1. p \in Nat
  <2>1. \A x \in InUse(block) : data_ptr(x) \in Nat
    BY BlockFacts DEF HeapInv, HeapWellFormed, InUse, data_ptr
  <2> QED  BY <2>1 DEF HeapInv, HeldIsAllocated, Owned
<1>2. CASE a \notin DOMAIN block \/ block[a].free
  BY <1>2 DEF kfree, HeapInv, HeapWellFormed, NoAdjacentFree, HeldIsAllocated
<1>3. CASE a \in DOMAIN block /\ ~block[a].free
  <2>1. /\ p \in DOMAIN held
        /\ heap_head = HeapStart /\ WellFormed(block) /\ Merged(block)
    BY <1>1, <1>3, AcceptedIsHeld
  <2>2. /\ block' = Release(block, a)
        /\ held' = [q \in DOMAIN held \ {p} |-> held[q]]
        /\ stale' = stale \union {p}
        /\ UNCHANGED <<heap_head, heap_size, halted>>
    BY <1>3 DEF kfree
  <2>3. /\ WellFormed(block') /\ Merged(block')
        /\ held' \in [DOMAIN held' -> Nat] /\ DOMAIN held' = DOMAIN held \ {p}
        /\ Owned(block', held')
    <3>1. WellFormed(block') /\ Merged(block') /\ Owned(block', held')
      BY <2>1, <2>2, ReleaseOwned DEF HeapInv, HeldIsAllocated
    <3>2. DOMAIN held' = DOMAIN held \ {p}
      BY <2>2
    <3>3. held' \in [DOMAIN held' -> Nat]
      BY <2>2, <3>2 DEF HeapInv
    <3> QED  BY <3>1, <3>2, <3>3
  <2> QED
    BY <1>1, <2>1, <2>2, <2>3
    DEF HeapInv, HeapWellFormed, NoAdjacentFree, HeldIsAllocated, null
<1> QED  BY <1>2, <1>3

LEMMA KreallocInv ==
    ASSUME HeapInv, NEW p \in DOMAIN held, NEW n \in Requests \ {0}, krealloc(p, n)
    PROVE  HeapInv'
<1> USE HeapAssumption
<1> DEFINE a    == get_header(p)
           size == RoundUp(n)
           to   == FirstFit(block, size)
           q    == data_ptr(to)
           mid  == Allocate(block, to, size)
           g    == [r \in DOMAIN held \union {q} |-> IF r = q THEN n ELSE held[r]]
<1>1. n \in Nat /\ size \in Nat /\ n <= size
  BY RoundUpBounds
<1>2. PICK x \in InUse(block) : p = data_ptr(x)
  BY DEF HeapInv, HeldIsAllocated, Owned
<1>3. heap_head = HeapStart /\ WellFormed(block) /\ Merged(block)
  BY <1>2 DEF HeapInv, HeapWellFormed, NoAdjacentFree, InUse
<1>4. x \in DOMAIN block /\ x \in Nat /\ a = x /\ p \in Nat
  BY <1>2, <1>3, BlockFacts DEF InUse, data_ptr, get_header
<1>5. CASE block[a].size >= n
  <2>1. /\ held' = [held EXCEPT ![p] = n]
        /\ UNCHANGED <<heap_head, heap_size, block, stale, halted>>
    BY <1>5 DEF krealloc
  <2>2. held' \in [DOMAIN held' -> Nat] /\ DOMAIN held' = DOMAIN held
    BY <2>1, <1>1 DEF HeapInv
  <2>3. Owned(block', held')
    <3>1. n <= block[a].size
      BY <1>1, <1>3, <1>4, <1>5, BlockFacts
    <3> QED  BY <2>1, <2>2, <3>1 DEF HeapInv, HeldIsAllocated, Owned
  <2> QED
    BY <2>1, <2>2, <2>3, <1>3
    DEF HeapInv, HeapWellFormed, NoAdjacentFree, HeldIsAllocated, null
<1>6. CASE ~(block[a].size >= n) /\ Fits(block, size) = {}
  BY <1>6 DEF krealloc, vars, HeapInv, HeapWellFormed, NoAdjacentFree, HeldIsAllocated
<1>7. CASE ~(block[a].size >= n) /\ Fits(block, size) # {}
  <2>1. to \in Fits(block, size)
    BY <1>3, <1>7, FirstFitFits DEF WellFormed
  <2>2. to \in DOMAIN block /\ block[to].free /\ size <= block[to].size
    <3>1. to \in DOMAIN block /\ block[to].free /\ block[to].size >= size
      BY <2>1 DEF Fits
    <3> QED  BY <3>1, <1>1, <1>3, BlockFacts
  <2>3. /\ block' = Release(mid, a)
        /\ held' = [r \in (DOMAIN held \ {p}) \union {q} |->
                      IF r = q THEN n ELSE held[r]]
        /\ stale' = (stale \ {q}) \union {p}
        /\ UNCHANGED <<heap_head, heap_size, halted>>
    BY <1>7 DEF krealloc
  <2>4. /\ WellFormed(mid) /\ Merged(mid)
        /\ q \in Nat /\ q \notin DOMAIN held
        /\ g \in [DOMAIN g -> Nat] /\ DOMAIN g = DOMAIN held \union {q}
        /\ Owned(mid, g)
    <3>1. held \in [DOMAIN held -> Nat] /\ Owned(block, held)
      BY DEF HeapInv, HeldIsAllocated
    <3>2. /\ q = data_ptr(to)
          /\ mid = Allocate(block, to, size)
          /\ g = [r \in DOMAIN held \union {q} |-> IF r = q THEN n ELSE held[r]]
      OBVIOUS
    <3> HIDE DEF size, to, q, mid, g
    <3> QED  BY ONLY <1>1, <1>3, <2>2, <3>1, <3>2, AllocateOwned
  <2>5. p \in DOMAIN g /\ p # q
    BY <2>4
  <2>6. held' = [r \in DOMAIN g \ {p} |-> g[r]]
    BY <2>3, <2>4, <2>5
  <2> HIDE DEF mid, g
  <2>7. /\ WellFormed(block') /\ Merged(block')
        /\ held' \in [DOMAIN held' -> Nat] /\ DOMAIN held' = DOMAIN g \ {p}
        /\ Owned(block', held')
    BY <2>3, <2>4, <2>5, <2>6, ReleaseOwned
  <2>8. stale' \subseteq Nat /\ stale' \cap DOMAIN held' = {}
    BY <1>4, <2>3, <2>4, <2>5, <2>7 DEF HeapInv
  <2> QED
    BY <1>3, <2>3, <2>7, <2>8
    DEF HeapInv, HeapWellFormed, NoAdjacentFree, HeldIsAllocated, null
<1> QED  BY <1>5, <1>6, <1>7

\* HeapInv is an invariant of the heap.
THEOREM HeapInvariant == Spec => []HeapInv
<1> USE HeapAssumption
<1>1. Init => HeapInv
  BY DEF Init, HeapInv, HeapWellFormed, NoAdjacentFree, HeldIsAllocated, Owned,
         Merged, InUse, null
<1>2. HeapInv /\ [Next]_vars => HeapInv'
  <2> SUFFICES ASSUME HeapInv, [Next]_vars  PROVE HeapInv'
    OBVIOUS
  <2>1. CASE heap_init
    <3>1. heap_head = null /\ block = [a \in {} |-> 0] /\ held = [p \in {} |-> 0]
      BY <2>1 DEF heap_init, HeapInv
    <3>2. held' = held /\ stale' = stale /\ halted' = halted /\ heap_size' = HeapSize
      BY <2>1 DEF heap_init
    <3>3. CASE heap_head' = HeapStart /\ block' = [a \in {HeapStart} |->
                         [size |-> HeapSize - Hdr, free |-> TRUE,
                          next |-> null, prev |-> null]]
      <4>1. WellFormed(block') /\ Merged(block') /\ InUse(block') = {}
        BY <3>3, InitialHeap
      <4>2. Owned(block', held')
        BY <3>1, <3>2, <4>1 DEF Owned
      <4> QED
        BY <3>1, <3>2, <3>3, <4>1, <4>2
        DEF HeapInv, HeapWellFormed, NoAdjacentFree, HeldIsAllocated, null
    <3>4. CASE UNCHANGED <<heap_head, block>>
      BY <3>1, <3>2, <3>4
      DEF HeapInv, HeapWellFormed, NoAdjacentFree, HeldIsAllocated
    <3> QED  BY <2>1, <3>3, <3>4 DEF heap_init
  <2>2. CASE \E n \in Requests : kmalloc(n)
    BY <2>2, KmallocInv
  <2>3. CASE \E p \in DOMAIN held \union stale : kfree(p)
    BY <2>3, KfreeInv
  <2>4. CASE \E p \in DOMAIN held, n \in Requests \ {0} : krealloc(p, n)
    BY <2>4, KreallocInv
  <2>5. CASE UNCHANGED vars
    BY <2>5 DEF vars, HeapInv, HeapWellFormed, NoAdjacentFree, HeldIsAllocated
  <2> QED  BY <2>1, <2>2, <2>3, <2>4, <2>5 DEF Next
<1> QED  BY <1>1, <1>2, PTL DEF Spec

-----------------------------------------------------------------------------
\* The variables keep their types.
THEOREM HeapTypes == Spec => []TypeOK
<1>1. HeapInv => TypeOK
  <2> SUFFICES ASSUME HeapInv  PROVE TypeOK
    OBVIOUS
  <2>1. DOMAIN block \subseteq Nat \ {0} /\ block \in [DOMAIN block -> Header]
    BY DEF HeapInv, HeapWellFormed, WellFormed
  <2>2. \A a \in InUse(block) : data_ptr(a) \in Nat
    BY <2>1, HeapAssumption DEF InUse, data_ptr
  <2>3. DOMAIN held \subseteq Nat
    BY <2>2 DEF HeapInv, HeldIsAllocated, Owned
  <2> QED  BY <2>1, <2>3 DEF HeapInv, TypeOK
<1> QED  BY <1>1, HeapInvariant, PTL

\* The free list is a tiling of the region whose links agree with its sizes.
THEOREM HeapStaysWellFormed == Spec => []HeapWellFormed
<1>1. HeapInv => HeapWellFormed
  BY DEF HeapInv
<1> QED  BY <1>1, HeapInvariant, PTL

\* No two adjacent blocks are free.
THEOREM HeapStaysMerged == Spec => []NoAdjacentFree
<1>1. HeapInv => NoAdjacentFree
  BY DEF HeapInv
<1> QED  BY <1>1, HeapInvariant, PTL

\* The blocks in use are the clients' allocations, each large enough.
THEOREM AllocationsAreSound == Spec => []HeldIsAllocated
<1>1. HeapInv => HeldIsAllocated
  BY DEF HeapInv
<1> QED  BY <1>1, HeapInvariant, PTL

\* Freeing a pointer twice is always detected.
THEOREM DoubleFreeIsCaught == Spec => []StaleIsRejected
<1>1. HeapInv => StaleIsRejected
  <2> SUFFICES ASSUME HeapInv, NEW p \in stale,
                      get_header(p) \in DOMAIN block, ~block[get_header(p)].free
               PROVE  FALSE
    BY DEF StaleIsRejected
  <2>1. p \in Nat /\ p \notin DOMAIN held
    BY DEF HeapInv
  <2> QED  BY <2>1, AcceptedIsHeld
<1> QED  BY <1>1, HeapInvariant, PTL

\* When every allocation has been freed one free block spans the region: the
\* first block is free, so its successor would have to be in use.
THEOREM FragmentationIsTransient == Spec => []AllFreedIsWhole
<1>1. HeapInv => AllFreedIsWhole
  <2> SUFFICES ASSUME HeapInv, heap_head # null, held = [p \in {} |-> 0]
               PROVE  /\ DOMAIN block = {HeapStart}
                      /\ block[HeapStart].size = HeapSize - Hdr
    BY DEF AllFreedIsWhole
  <2> USE HeapAssumption
  <2>1. WellFormed(block) /\ Merged(block) /\ HeapStart \in DOMAIN block
    BY DEF HeapInv, HeapWellFormed, NoAdjacentFree, WellFormed
  <2>2. InUse(block) = {}
    BY DEF HeapInv, HeldIsAllocated, Owned
  <2>3. block[HeapStart].next = null
    <3>1. \A a \in DOMAIN block : block[a].free
      BY <2>2 DEF InUse
    <3>2. block[HeapStart].next # null => block[HeapStart].next \in DOMAIN block
      BY <2>1, NextFacts
    <3> QED  BY <2>1, <3>1, <3>2 DEF Merged, MergedAt
  <2>4. BlockEnd(block, HeapStart) = HeapEnd
    <3>1. BlockEnd(block, HeapStart) # null
      BY <2>1, BlockFacts DEF null
    <3> QED  BY <2>1, <2>3, <3>1 DEF WellFormed, Linked
  <2>5. \A a \in DOMAIN block : a = HeapStart
    <3> SUFFICES ASSUME NEW a \in DOMAIN block, a # HeapStart  PROVE FALSE
      OBVIOUS
    <3>1. a \in Nat /\ HeapStart < a /\ BlockEnd(block, a) > a
          /\ BlockEnd(block, a) <= HeapEnd /\ BlockEnd(block, a) \in Nat
      BY <2>1, BlockFacts
    <3>2. BlockEnd(block, HeapStart) <= a
      BY <2>1, <3>1 DEF WellFormed, Apart
    <3> QED  BY <2>4, <3>1, <3>2 DEF HeapEnd
  <2>6. block[HeapStart].size = HeapSize - Hdr
    BY <2>1, <2>4, BlockFacts DEF BlockEnd, HeapEnd
  <2> QED  BY <2>1, <2>5, <2>6
<1> QED  BY <1>1, HeapInvariant, PTL

\* kfree and krealloc never halt the machine on a live pointer.
THEOREM HaltsAreDoubleFrees == Spec => HaltsOnlyOnDoubleFree
<1>1. HeapInv /\ [Next]_vars
        => [halted' /\ ~halted => \E p \in stale : kfree(p)]_vars
  <2> SUFFICES ASSUME HeapInv, Next, halted', ~halted
               PROVE  \E p \in stale : kfree(p)
    BY DEF vars
  <2>1. PICK p \in DOMAIN held \union stale : kfree(p)
    BY DEF Next, heap_init, kmalloc, krealloc, vars
  <2>2. p \in DOMAIN held => FALSE
    <3> SUFFICES ASSUME p \in DOMAIN held  PROVE FALSE
      OBVIOUS
    <3>1. PICK a \in InUse(block) : p = data_ptr(a)
      BY DEF HeapInv, HeldIsAllocated, Owned
    <3>2. a \in Nat /\ a \in DOMAIN block /\ ~block[a].free
      BY BlockFacts DEF HeapInv, HeapWellFormed, InUse
    <3>3. get_header(p) = a
      BY <3>1, <3>2, HeapAssumption DEF data_ptr, get_header
    <3> QED  BY <2>1, <3>2, <3>3 DEF kfree
  <2> QED  BY <2>1, <2>2
<1> QED  BY <1>1, HeapInvariant, PTL DEF Spec, HaltsOnlyOnDoubleFree

-----------------------------------------------------------------------------
(* The search loop of kmalloc. *)

\* The fits from a on, and the first of them or null.
Ahead(a, n) == {x \in Fits(block, n) : a <= x}
FirstAhead(a, n) ==
    IF a = null \/ Ahead(a, n) = {} THEN null
    ELSE CHOOSE x \in Ahead(a, n) : \A y \in Ahead(a, n) : x <= y

\* Between a block and the next there is none, behind the last there is none.
LEMMA AheadSteps ==
    ASSUME WellFormed(block), NEW n, NEW a \in DOMAIN block
    PROVE  /\ a \in Fits(block, n) => FirstAhead(a, n) = a
           /\ a \notin Fits(block, n) => FirstAhead(a, n) = FirstAhead(block[a].next, n)
           /\ block[a].next = null \/ (block[a].next \in DOMAIN block /\ block[a].next > a)
<1>0. DOMAIN block \subseteq Nat /\ Fits(block, n) \subseteq DOMAIN block /\ a \in Nat /\ a # null
  BY BlockFacts DEF WellFormed, Fits, null
<1>1. ASSUME a \in Fits(block, n)  PROVE FirstAhead(a, n) = a
  <2>1. a \in Ahead(a, n) /\ \A y \in Ahead(a, n) : a <= y
    BY <1>0, <1>1 DEF Ahead
  <2>2. \A x \in Ahead(a, n) : x \in Nat
    BY <1>0 DEF Ahead
  <2>3. \A x \in Ahead(a, n) : (\A y \in Ahead(a, n) : x <= y) => x = a
    BY <2>1, <2>2, <1>0
  <2> QED  BY <2>1, <2>3, <1>0 DEF FirstAhead
<1>2. ASSUME a \notin Fits(block, n), block[a].next = null
      PROVE  FirstAhead(a, n) = null
  <2>1. BlockEnd(block, a) = HeapEnd
    BY <1>2, BlockFacts DEF WellFormed, Linked, null
  <2>2. ASSUME NEW x \in Ahead(a, n)  PROVE FALSE
    <3>1. x \in DOMAIN block /\ a < x
      BY <2>2, <1>0, <1>2 DEF Ahead
    <3>2. BlockEnd(block, a) <= x
      BY <3>1 DEF WellFormed, Apart
    <3> QED  BY <3>1, <3>2, <2>1, BlockFacts
  <2> QED  BY <2>2 DEF FirstAhead
<1>3. block[a].next # null => block[a].next \in DOMAIN block /\ block[a].next > a
        /\ block[a].next = BlockEnd(block, a)
  BY NextFacts
<1>4. ASSUME a \notin Fits(block, n), block[a].next # null
      PROVE  FirstAhead(a, n) = FirstAhead(block[a].next, n)
  <2>1. ASSUME NEW x \in Fits(block, n)  PROVE a <= x <=> block[a].next <= x
    <3>1. x \in DOMAIN block /\ x \in Nat /\ x # a /\ block[a].next \in Nat
      BY <1>0, <1>3, <1>4
    <3>2. a < x => block[a].next <= x
      BY <3>1, <1>3, <1>4 DEF WellFormed, Apart
    <3> QED  BY <3>1, <3>2, <1>0, <1>3, <1>4
  <2>2. Ahead(a, n) = Ahead(block[a].next, n)
    BY <2>1 DEF Ahead
  <2> QED  BY <2>2, <1>0, <1>4 DEF FirstAhead
<1>5. FirstAhead(null, n) = null
  BY DEF FirstAhead
<1> QED  BY <1>1, <1>2, <1>3, <1>4, <1>5

LEMMA WalkFinds ==
    ASSUME WellFormed(block), heap_head = HeapStart, NEW n
    PROVE  WalkFrom(n) = FirstAhead(HeapStart, n)
<1> DEFINE A == DOMAIN block \union {null}
           Is(w) == w = [a \in A |-> IF a = null THEN null
                                     ELSE IF block[a].free /\ block[a].size >= n THEN a
                                     ELSE w[block[a].next]]
           walk == CHOOSE w : Is(w)
           f == [a \in A |-> FirstAhead(a, n)]
<1>1. WalkFrom(n) = walk[HeapStart]
  BY DEF WalkFrom
<1>2. /\ FirstAhead(null, n) = null
      /\ \A a \in DOMAIN block : a # null
      /\ \A a \in DOMAIN block : block[a].free /\ block[a].size >= n <=> a \in Fits(block, n)
  BY BlockFacts DEF FirstAhead, Fits, null
<1>3. \A a \in A : f[a] = IF a = null THEN null
                          ELSE IF block[a].free /\ block[a].size >= n THEN a
                          ELSE f[block[a].next]
  <2> SUFFICES ASSUME NEW a \in DOMAIN block
               PROVE  f[a] = IF a \in Fits(block, n) THEN a ELSE f[block[a].next]
    BY <1>2
  <2> QED  BY AheadSteps
<1>4. Is(f)
  <2>1. f = [a \in A |-> f[a]]
    OBVIOUS
  <2> HIDE DEF f
  <2> QED  BY <1>3, <2>1
<1>5. Is(walk)
  <2> HIDE DEF Is, f
  <2> QED  BY <1>4
<1> HIDE DEF walk
<1>6. \A a \in DOMAIN block : walk[a] = IF a \in Fits(block, n) THEN a ELSE walk[block[a].next]
  BY <1>2, <1>5
<1>7. walk[null] = null
  BY <1>5
<1>8. ASSUME NEW c \in DOMAIN block, walk[c] # FirstAhead(c, n)  PROVE FALSE
  <2> DEFINE wrong == {a \in DOMAIN block : walk[a] # FirstAhead(a, n)}
             S == {HeapEnd - a : a \in wrong}
  <2>1. S \subseteq Nat /\ S # {}
    <3>1. \A a \in wrong : HeapEnd - a \in Nat
      BY BlockFacts, HeapAssumption DEF HeapEnd
    <3> QED  BY <3>1, <1>8
  <2>2. PICK m \in S : \A y \in S : m <= y
    <3> HIDE DEF S
    <3> QED  BY <2>1, NatHasMin
  <2>3. PICK a \in wrong : m = HeapEnd - a
    BY <2>2
  <2>4. a \notin Fits(block, n)
    BY <2>3, <1>6, AheadSteps
  <2>5. walk[a] = walk[block[a].next] /\ FirstAhead(a, n) = FirstAhead(block[a].next, n)
    BY <2>3, <2>4, <1>6, AheadSteps
  <2>6. block[a].next # null
    BY <2>3, <2>5, <1>2, <1>7
  <2>7. block[a].next \in DOMAIN block /\ block[a].next > a
    BY <2>3, <2>6, AheadSteps
  <2>8. block[a].next \in wrong
    BY <2>3, <2>5, <2>7
  <2>9. m <= HeapEnd - block[a].next
    BY <2>2, <2>8
  <2> QED  BY <2>3, <2>7, <2>9, BlockFacts, HeapAssumption DEF HeapEnd
<1> QED  BY <1>1, <1>8 DEF WellFormed

\* The search loop follows `next` from heap_head and stops at the first block
\* that fits: because the list is complete and in address order, that is the
\* lowest block that fits, and it finds one if there is one (heap.c:186-198).
THEOREM SearchFindsTheFirstFit == Spec => []FirstFitIsTheWalk
<1>1. HeapInv => FirstFitIsTheWalk
  <2> SUFFICES ASSUME HeapInv, NEW n
               PROVE  WalkFrom(n) = IF Fits(block, n) = {} THEN null ELSE FirstFit(block, n)
    BY DEF FirstFitIsTheWalk
  <2>1. CASE heap_head = null
    <3>1. DOMAIN block = {} /\ Fits(block, n) = {}
      BY <2>1 DEF HeapInv, Fits
    <3> DEFINE Is(w) == w = [a \in DOMAIN block \union {null} |->
                               IF a = null THEN null
                               ELSE IF block[a].free /\ block[a].size >= n THEN a
                               ELSE w[block[a].next]]
               walk == CHOOSE w : Is(w)
    <3>2. WalkFrom(n) = walk[null]
      BY <2>1 DEF WalkFrom
    <3>3. Is([a \in {null} |-> null])
      BY <3>1
    <3>4. Is(walk)
      <4> HIDE DEF Is
      <4> QED  BY <3>3
    <3> HIDE DEF walk
    <3> QED  BY <3>1, <3>2, <3>4
  <2>2. CASE heap_head # null
    <3>1. WellFormed(block) /\ heap_head = HeapStart
      BY <2>2 DEF HeapInv, HeapWellFormed
    <3>2. WalkFrom(n) = FirstAhead(HeapStart, n)
      BY <3>1, WalkFinds
    <3>3. Ahead(HeapStart, n) = Fits(block, n) /\ HeapStart # null
      BY <3>1, BlockFacts, HeapAssumption DEF Ahead, Fits, WellFormed, null
    <3> QED  BY <3>2, <3>3 DEF FirstAhead, FirstFit
  <2> QED  BY <2>1, <2>2
<1> QED  BY <1>1, HeapInvariant, PTL
=============================================================================
