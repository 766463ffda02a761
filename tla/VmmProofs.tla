----------------------------- MODULE VmmProofs -----------------------------
(***************************************************************************)
(* Proofs about Pmm and Vmm.  The running count of free frames agrees with *)
(* the bitmap, and a frame is free exactly when it is usable and           *)
(* unclaimed, for every page size and every memory map the boot loader may *)
(* pass.  The page tables are a tree, so that setting one leaf             *)
(* entry, or hanging one new table where none was, changes the translation *)
(* of no other page; from there, for every fanout, memory map and order of *)
(* calls: each frame handed out has one owner, each page translates to     *)
(* what it was last mapped to, the kernel sees all its memory, and the     *)
(* heap is backed whole or not there.  The physical memory manager is used *)
(* only through its operations, so what is shown of it holds of the whole  *)
(* boot.                                                                   *)
(***************************************************************************)
EXTENDS Vmm, WellFoundedInduction, FiniteSetTheorems, TLAPS

-----------------------------------------------------------------------------
(* Least and greatest elements, which the library does not have. *)

LEMMA NatHasMin ==
    ASSUME NEW T, T \subseteq Nat, T # {}
    PROVE  \E x \in T : \A y \in T : x <= y
<1> DEFINE R == OpToRel(<, Nat)
<1>1. \E x \in T : \A y \in T : ~(<<y, x>> \in R)
  <2>1. IsWellFoundedOn(R, Nat)
    BY NatLessThanWellFounded
  <2> HIDE DEF R
  <2> QED  BY <2>1, WFMin
<1>2. \A x, y \in T : ~(<<y, x>> \in R) => x <= y
  BY DEF OpToRel
<1> HIDE DEF R
<1> QED  BY <1>1, <1>2

LEMMA MinOfNats ==
    ASSUME NEW T, T \subseteq Nat, T # {}
    PROVE  Min(T) \in T /\ \A y \in T : Min(T) <= y
BY NatHasMin DEF Min

\* A finite table of numbers has a largest one.
LEMMA TableHasMax ==
    ASSUME NEW n \in Nat, NEW f \in [1 .. n -> Nat]
    PROVE  \E top \in {0} \cup {f[i] : i \in 1 .. n} : \A i \in 1 .. n : f[i] <= top
<1> DEFINE Has(k) == \E top \in {0} \cup {f[i] : i \in 1 .. k} : \A i \in 1 .. k : f[i] <= top
           T == {k \in 0 .. n : ~ Has(k)}
<1>1. Has(0)
  OBVIOUS
<1>2. ASSUME NEW k \in 1 .. n, Has(k - 1)  PROVE Has(k)
  <2>1. PICK top \in {0} \cup {f[i] : i \in 1 .. k - 1} : \A i \in 1 .. k - 1 : f[i] <= top
    BY <1>2
  <2>2. CASE f[k] <= top
    <3>1. \A i \in 1 .. k : f[i] <= top
      BY <2>1, <2>2
    <3> QED  BY <3>1
  <2>3. CASE ~(f[k] <= top)
    <3>1. \A i \in 1 .. k : f[i] <= f[k]
      BY <2>1, <2>3
    <3> QED  BY <3>1
  <2> QED  BY <2>2, <2>3
<1>3. T = {}
  <2> SUFFICES ASSUME T # {}  PROVE FALSE
    OBVIOUS
  <2>1. T \subseteq Nat
    OBVIOUS
  <2> HIDE DEF Has
  <2>2. PICK k \in T : \A j \in T : k <= j
    BY <2>1, NatHasMin
  <2>3. k # 0
    BY <1>1
  <2>4. k \in 1 .. n /\ k - 1 \in 0 .. n
    BY <2>3
  <2>5. Has(k - 1)
    BY <2>2, <2>4
  <2> QED  BY <2>2, <2>4, <2>5, <1>2
<1>4. Has(n)
  <2> HIDE DEF Has
  <2> QED  BY <1>3
<1> QED  BY <1>4

-----------------------------------------------------------------------------
(* Whole pages. *)

LEMMA DivMod ==
    ASSUME NEW x \in Nat, NEW p \in Nat \ {0}
    PROVE  /\ x \div p \in Nat /\ x % p \in Nat
           /\ x = p * (x \div p) + (x % p) /\ x % p < p
OBVIOUS

LEMMA TimesMonotone ==
    ASSUME NEW p \in Nat, NEW a \in Int, NEW b \in Int, a <= b
    PROVE  p * a <= p * b
<1>1. p * b = p * a + p * (b - a)
  OBVIOUS
<1>2. p * (b - a) >= 0
  OBVIOUS
<1> QED  BY <1>1, <1>2

LEMMA DivMonotone ==
    ASSUME NEW x \in Nat, NEW y \in Nat, x <= y, NEW p \in Nat \ {0}
    PROVE  x \div p <= y \div p
<1> DEFINE a == x \div p
           b == y \div p
<1>1. a \in Nat /\ b \in Nat /\ x >= p * a /\ y < p * b + p
  BY DivMod
<1> HIDE DEF a, b
<1>2. ASSUME a >= b + 1  PROVE FALSE
  <2>1. p * a >= p * (b + 1)
    BY <1>1, <1>2, TimesMonotone
  <2>2. p * (b + 1) = p * b + p
    BY <1>1
  <2>3. p * a \in Int /\ p * b \in Int
    BY <1>1
  <2> QED  BY <2>1, <2>2, <2>3, <1>1
<1>3. a <= b
  BY <1>1, <1>2
<1> QED  BY <1>3 DEF a, b

LEMMA DivOfMultiple ==
    ASSUME NEW q \in Nat, NEW r \in Nat, NEW p \in Nat \ {0}, r < p
    PROVE  (p * q + r) \div p = q
<1> DEFINE x == p * q + r
           a == x \div p
<1>1. x \in Nat
  OBVIOUS
<1>2. a \in Nat /\ x >= p * a /\ x < p * a + p
  BY <1>1, DivMod
<1>0. p * q \in Nat /\ x = p * q + r
  OBVIOUS
<1> HIDE DEF x, a
<1>3. p * a \in Nat
  BY <1>2
<1>4. ASSUME a >= q + 1  PROVE FALSE
  <2>1. p * a >= p * (q + 1)
    BY <1>2, <1>4, TimesMonotone
  <2>2. p * (q + 1) = p * q + p
    OBVIOUS
  <2> QED  BY <2>1, <2>2, <1>0, <1>2, <1>3
<1>5. ASSUME a + 1 <= q  PROVE FALSE
  <2>1. p * q >= p * (a + 1)
    BY <1>2, <1>5, TimesMonotone
  <2>2. p * (a + 1) = p * a + p
    BY <1>2
  <2> QED  BY <2>1, <2>2, <1>0, <1>2, <1>3
<1>6. a = q
  BY <1>2, <1>4, <1>5
<1> QED  BY <1>6 DEF a, x

\* align_up counts the pages a number of bytes touches.
LEMMA AlignUpCounts ==
    ASSUME NEW s \in Nat, NEW d \in Int, PAGE_SIZE \in Nat \ {0}
    PROVE  align_up(s) \in Nat /\ (PAGE_SIZE * d < s <=> d < align_up(s))
<1> DEFINE p == PAGE_SIZE
           c == align_up(s)
           r == (s + p - 1) % p
<1>1. c \in Nat /\ r \in Nat /\ s + p - 1 = p * c + r /\ r < p
  <2>1. s + p - 1 \in Nat
    OBVIOUS
  <2> QED  BY <2>1, DivMod DEF align_up
<1> HIDE DEF c, r
<1>2. p * c \in Int /\ p * d \in Int
  BY <1>1
<1>3. ASSUME d < c  PROVE p * d < s
  <2>1. p * (d + 1) <= p * c
    BY <1>1, <1>3, TimesMonotone
  <2>2. p * (d + 1) = p * d + p
    OBVIOUS
  <2> QED  BY <2>1, <2>2, <1>1, <1>2
<1>4. ASSUME d >= c  PROVE ~(p * d < s)
  <2>1. p * c <= p * d
    BY <1>1, <1>4, TimesMonotone
  <2> QED  BY <2>1, <1>1, <1>2
<1> QED  BY <1>1, <1>3, <1>4 DEF c

-----------------------------------------------------------------------------
(* The memory map. *)

LEMMA EntryTypes ==
    ASSUME memmap \in Memmaps, NEW i \in DOMAIN memmap
    PROVE  /\ memmap[i].base \in Nat /\ memmap[i].length \in Nat
           /\ memmap[i].usable \in BOOLEAN
           /\ EntryEnd(memmap[i]) \in Nat
           /\ EntryEnd(memmap[i]) >= memmap[i].base
<1>1. memmap \in Seq(Entry)
  BY PmmAssumption
<1>2. memmap[i] \in Entry
  BY <1>1
<1> QED  BY <1>2 DEF Entry, EntryEnd

LEMMA TopOfMemory ==
    ASSUME memmap \in Memmaps
    PROVE  /\ highest_addr \in Nat
           /\ \A i \in DOMAIN memmap : EntryEnd(memmap[i]) <= highest_addr
<1> DEFINE n == Len(memmap)
           f == [i \in 1 .. n |-> EntryEnd(memmap[i])]
           S == {0} \cup {EntryEnd(memmap[i]) : i \in DOMAIN memmap}
<1>1. n \in Nat /\ DOMAIN memmap = 1 .. n
  BY PmmAssumption
<1>2. f \in [1 .. n -> Nat]
  BY <1>1, EntryTypes
<1>3. PICK top \in {0} \cup {f[i] : i \in 1 .. n} : \A i \in 1 .. n : f[i] <= top
  <2> HIDE DEF f, n
  <2> QED  BY <1>1, <1>2, TableHasMax
<1>4. S \subseteq Nat
  BY EntryTypes
<1>5. top \in S /\ \A y \in S : top >= y
  BY <1>1, <1>2, <1>3
<1>6. Max(S) \in S /\ \A y \in S : Max(S) >= y
  <2> HIDE DEF S
  <2> QED  BY <1>5 DEF Max
<1>7. highest_addr = Max(S)
  BY DEF highest_addr
<1> QED  BY <1>4, <1>6, <1>7

LEMMA Sizes ==
    ASSUME memmap \in Memmaps
    PROVE  /\ total_pages \in Nat /\ bitmap_size \in Nat
           /\ Frames \subseteq Nat /\ IsFiniteSet(Frames)
<1>1. total_pages \in Nat
  BY TopOfMemory, PmmAssumption, DivMod DEF total_pages
<1>2. bitmap_size \in Nat
  <2>1. total_pages + ByteBits - 1 \in Nat
    BY <1>1, PmmAssumption
  <2> QED  BY <2>1, PmmAssumption, DivMod DEF bitmap_size
<1>3. Frames \subseteq Nat /\ IsFiniteSet(Frames)
  BY <1>1, FS_Interval DEF Frames
<1> QED  BY <1>1, <1>2, <1>3

\* Every usable page has a bit.
LEMMA UsableHasBits ==
    ASSUME memmap \in Memmaps
    PROVE  Usable \subseteq Frames
<1> SUFFICES ASSUME NEW p \in Usable
             PROVE  p \in Frames
  OBVIOUS
<1>1. PICK i \in DOMAIN memmap : memmap[i].usable /\ p \in EntryPages(memmap[i])
  BY DEF Usable, UsablePages
<1> DEFINE e == memmap[i]
<1>2. e.base \in Nat /\ EntryEnd(e) \in Nat /\ EntryEnd(e) <= highest_addr /\ highest_addr \in Nat
  BY EntryTypes, TopOfMemory
<1>3. align_up(e.base) \in Nat
  BY <1>2, PmmAssumption, AlignUpCounts
<1>4. EntryEnd(e) \div PAGE_SIZE \in Nat /\ EntryEnd(e) \div PAGE_SIZE <= total_pages
  BY <1>2, PmmAssumption, DivMod, DivMonotone DEF total_pages
<1> HIDE DEF e
<1>5. p \in align_up(e.base) .. (EntryEnd(e) \div PAGE_SIZE - 1)
  BY <1>1 DEF EntryPages, e
<1> QED  BY <1>3, <1>4, <1>5, Sizes DEF Frames

\* What the entry that PlaceBitmap chooses says of the bitmap's pages: they
\* are usable, and the bytes of the bitmap lie in them and in no other.
Placed == \E i \in DOMAIN memmap : HoldsBitmap(memmap[i]) /\ bitmap_base = memmap[i].base

LEMMA BitmapIsUsable ==
    ASSUME memmap \in Memmaps, Placed
    PROVE  BitmapPages \subseteq Usable /\ BitmapPages = BitmapExtent
<1>1. PICK i \in DOMAIN memmap : HoldsBitmap(memmap[i]) /\ bitmap_base = memmap[i].base
  BY DEF Placed
<1> DEFINE e == memmap[i]
           P == PAGE_SIZE
           first == bitmap_base \div P
           l == e.length \div P
           c == align_up(bitmap_size)
<1>2. P \in Nat \ {0} /\ bitmap_size \in Nat /\ e.base \in Nat /\ e.length \in Nat
  BY PmmAssumption, Sizes, EntryTypes
<1>3. e.usable /\ e.length >= bitmap_size /\ bitmap_base = e.base
  BY <1>1 DEF HoldsBitmap
<1>4. e.base % P = 0 /\ e.length % P = 0
  BY <1>3, PmmAssumption
<1>5. first \in Nat /\ l \in Nat /\ bitmap_base = P * first /\ e.length = P * l
  <2>1. first \in Nat /\ bitmap_base = P * first + 0
    BY <1>2, <1>3, <1>4, DivMod
  <2>2. l \in Nat /\ e.length = P * l + 0
    BY <1>2, <1>4, DivMod
  <2>3. P * first \in Nat /\ P * l \in Nat
    BY <1>2, <2>1, <2>2
  <2> QED  BY <2>1, <2>2, <2>3
<1>6. c \in Nat /\ \A d \in Int : P * d < bitmap_size <=> d < c
  BY <1>2, AlignUpCounts
<1> HIDE DEF e, first, l, c, P
<1>7. c <= l
  BY <1>2, <1>3, <1>5, <1>6
<1>8. BitmapPages = first .. first + c - 1
  <2>1. bitmap_base # NoBitmap
    BY <1>2, <1>3 DEF NoBitmap
  <2> QED  BY <2>1 DEF BitmapPages, bitmap_pages_used, first, c, P
<1>9. EntryPages(e) = first .. first + l - 1
  <2>1. align_up(e.base) = first
    <3>1. \A d \in Int : P * d < P * first <=> d < align_up(e.base)
      BY <1>2, <1>3, <1>5, AlignUpCounts DEF P
    <3>2. align_up(e.base) \in Nat
      BY <1>2, AlignUpCounts DEF P
    <3>3. ~(first < align_up(e.base))
      BY <3>1, <1>5
    <3>4. P * (first - 1) < P * first
      <4>1. P * (first - 1) = P * first - P
        BY <1>2, <1>5
      <4>2. P * first \in Int
        BY <1>2, <1>5
      <4> QED  BY <4>1, <4>2, <1>2
    <3>5. first - 1 < align_up(e.base)
      BY <3>1, <3>4, <1>5
    <3> QED  BY <3>2, <3>3, <3>5, <1>5
  <2>2. EntryEnd(e) \div P = first + l
    <3>1. EntryEnd(e) = P * (first + l) + 0
      <4>1. P * (first + l) = P * first + P * l
        BY <1>2, <1>5
      <4> QED  BY <4>1, <1>2, <1>3, <1>5 DEF EntryEnd
    <3>2. first + l \in Nat /\ 0 \in Nat /\ 0 < P
      BY <1>2, <1>5
    <3> QED  BY <3>1, <3>2, <1>2, DivOfMultiple
  <2>3. EntryPages(e) = align_up(e.base) .. (EntryEnd(e) \div P - 1)
    BY DEF EntryPages, P
  <2>4. EntryEnd(e) \div P - 1 = first + l - 1
    BY <1>5, <2>2
  <2> QED  BY <2>1, <2>3, <2>4
<1>10. BitmapPages \subseteq Usable
  <2>1. BitmapPages \subseteq EntryPages(e)
    BY <1>5, <1>6, <1>7, <1>8, <1>9
  <2> QED  BY <2>1, <1>3 DEF Usable, UsablePages, e
<1>11. ASSUME NEW p \in Nat
       PROVE  /\ p * P < bitmap_base + bitmap_size <=> p - first < c
              /\ bitmap_base < (p + 1) * P <=> first <= p
  <2>1. P * (p - first) = p * P - bitmap_base /\ P * (p + 1 - first) = (p + 1) * P - bitmap_base
    BY <1>2, <1>5
  <2>2. p * P \in Int /\ (p + 1) * P \in Int /\ bitmap_base \in Int
    BY <1>2, <1>3
  <2>3. p * P < bitmap_base + bitmap_size <=> P * (p - first) < bitmap_size
    BY <2>1, <2>2, <1>2
  <2>4. p - first \in Int /\ p + 1 - first \in Int
    BY <1>5
  <2>5. p * P < bitmap_base + bitmap_size <=> p - first < c
    BY <2>3, <2>4, <1>6
  <2>6. ASSUME first <= p  PROVE bitmap_base < (p + 1) * P
    <3>1. P * 1 <= P * (p + 1 - first)
      BY <2>6, <2>4, <1>2, <1>5, TimesMonotone
    <3> QED  BY <3>1, <2>1, <2>2, <1>2
  <2>7. ASSUME p + 1 <= first  PROVE ~(bitmap_base < (p + 1) * P)
    <3>1. P * (p + 1 - first) <= P * 0
      BY <2>7, <2>4, <1>2, <1>5, TimesMonotone
    <3> QED  BY <3>1, <2>1, <2>2, <1>2
  <2> QED  BY <2>5, <2>6, <2>7, <1>5
<1>12. BitmapPages = BitmapExtent
  <2>1. bitmap_base # NoBitmap
    BY <1>2, <1>3 DEF NoBitmap
  <2>2. BitmapExtent = {p \in Frames : p - first < c /\ first <= p}
    BY <2>1, <1>11, Sizes DEF BitmapExtent, P
  <2>3. BitmapPages \subseteq Frames
    BY <1>10, UsableHasBits
  <2>4. ASSUME NEW p \in Frames
        PROVE  p \in BitmapPages <=> p - first < c /\ first <= p
    BY <1>5, <1>6, <1>8, Sizes
  <2> QED  BY <2>2, <2>3, <2>4
<1> QED  BY <1>10, <1>12

-----------------------------------------------------------------------------
(* The invariant: what the bitmap says in each pass of pmm_init, and after. *)

InUse == pass \in {"free usable", "claim bitmap", "done"}

PmmInv ==
    /\ PmmTypeOK
    /\ bitmap \subseteq Frames
    /\ pass \in {"place", "failed"} =>
        free_pages = 0 /\ owned = {} /\ bitmap_base = NoBitmap
    /\ InUse => Placed /\ free_pages = Cardinality(FreeFrames)
    /\ pass = "free usable" =>
        /\ todo \subseteq Usable
        /\ FreeFrames = Usable \ todo
        /\ owned = {}
    /\ pass = "claim bitmap" =>
        /\ todo \subseteq BitmapPages
        /\ FreeFrames = Usable \ (BitmapPages \ todo)
        /\ owned = {}
    /\ pass = "done" =>
        /\ FreeFrames = Usable \ (BitmapPages \cup owned)
        /\ owned \subseteq Usable \ BitmapPages

\* No step changes the map, nor what is computed from it.
LEMMA SameMap ==
    ASSUME memmap' = memmap
    PROVE  /\ Frames' = Frames /\ Usable' = Usable /\ bitmap_size' = bitmap_size
           /\ total_pages' = total_pages
BY DEF Frames, Usable, bitmap_size, total_pages, highest_addr

LEMMA SameBase ==
    ASSUME memmap' = memmap, bitmap_base' = bitmap_base
    PROVE  BitmapPages' = BitmapPages /\ Placed' = Placed
BY SameMap DEF BitmapPages, bitmap_pages_used, bitmap_size, total_pages, highest_addr, Placed,
               HoldsBitmap, align_up

\* A frame more, or a frame less, that is free.
LEMMA CountAdd ==
    ASSUME NEW S, IsFiniteSet(S), NEW x, x \notin S
    PROVE  Cardinality(S \cup {x}) = Cardinality(S) + 1
BY FS_AddElement

LEMMA CountRemove ==
    ASSUME NEW S, IsFiniteSet(S), NEW x \in S
    PROVE  /\ Cardinality(S) \in Nat /\ Cardinality(S) > 0
           /\ Cardinality(S \ {x}) = Cardinality(S) - 1
BY FS_RemoveElement, FS_CardinalityType, FS_EmptySet

LEMMA FreeFinite ==
    ASSUME memmap \in Memmaps
    PROVE  /\ FreeFrames \subseteq Nat /\ IsFiniteSet(FreeFrames)
           /\ Cardinality(FreeFrames) \in Nat
BY Sizes, FS_Subset, FS_CardinalityType DEF FreeFrames

LEMMA PmmInitInv == PmmInit => PmmInv
BY DEF PmmInit, PmmInv, PmmTypeOK, NoBitmap, InUse

LEMMA PlaceBitmapInv == PmmInv /\ PlaceBitmap => PmmInv'
<1> SUFFICES ASSUME PmmInv, PlaceBitmap  PROVE PmmInv'
  OBVIOUS
<1> DEFINE fits == {i \in DOMAIN memmap : HoldsBitmap(memmap[i])}
<1>0. memmap \in Memmaps /\ memmap' = memmap /\ pass = "place" /\ free_pages' = free_pages
      /\ owned' = owned /\ PmmTypeOK /\ free_pages = 0 /\ owned = {} /\ bitmap_base = NoBitmap
  BY DEF PmmInv, PmmTypeOK, PlaceBitmap
<1>1. CASE fits = {}
  <2>1. pass' = "failed" /\ UNCHANGED <<bitmap, bitmap_base, todo>>
    BY <1>1 DEF PlaceBitmap
  <2> QED  BY <2>1, <1>0, SameMap DEF PmmInv, PmmTypeOK, InUse
<1>2. CASE fits # {}
  <2>1. /\ bitmap_base' = memmap[Min(fits)].base /\ bitmap' = Frames
        /\ pass' = "free usable" /\ todo' = Usable
    BY <1>2 DEF PlaceBitmap
  <2>2. Min(fits) \in fits
    <3>1. fits \subseteq Nat
      BY <1>0, PmmAssumption
    <3> HIDE DEF fits
    <3> QED  BY <1>2, <3>1, MinOfNats
  <2>3. Placed'
    <3>1. HoldsBitmap(memmap[Min(fits)])
      BY <2>2
    <3>2. \A e : HoldsBitmap(e)' <=> HoldsBitmap(e)
      BY <1>0, SameMap DEF HoldsBitmap
    <3> QED  BY <2>1, <2>2, <3>1, <1>0, SameMap DEF Placed, HoldsBitmap
  <2>4. bitmap_base' \in Nat
    BY <2>1, <2>2, <1>0, EntryTypes
  <2>5. FreeFrames' = {}
    BY <2>1, <1>0, SameMap DEF FreeFrames
  <2>6. Frames \subseteq Nat /\ Usable \subseteq Nat
    BY <1>0, Sizes, UsableHasBits
  <2>7. PmmTypeOK'
    BY <1>0, <2>1, <2>4, <2>6 DEF PmmTypeOK
  <2>8. Cardinality(FreeFrames') = 0
    BY <2>5, FS_EmptySet
  <2> QED  BY <1>0, <2>1, <2>3, <2>5, <2>7, <2>8, SameMap DEF PmmInv
<1> QED  BY <1>1, <1>2

LEMMA FreeUsablePageInv == PmmInv /\ FreeUsablePage => PmmInv'
<1> SUFFICES ASSUME PmmInv, FreeUsablePage  PROVE PmmInv'
  OBVIOUS
<1>0. /\ memmap \in Memmaps /\ memmap' = memmap /\ bitmap_base' = bitmap_base /\ owned' = owned
      /\ pass = "free usable" /\ PmmTypeOK /\ Placed /\ free_pages = Cardinality(FreeFrames)
      /\ todo \subseteq Usable /\ FreeFrames = Usable \ todo /\ owned = {} /\ bitmap \subseteq Frames
  BY DEF PmmInv, PmmTypeOK, FreeUsablePage, InUse
<1>1. Usable \subseteq Frames /\ Usable \subseteq Nat /\ BitmapPages \subseteq Nat
  BY <1>0, Sizes, UsableHasBits, BitmapIsUsable
<1>2. Frames' = Frames /\ Usable' = Usable /\ BitmapPages' = BitmapPages /\ Placed'
  BY <1>0, SameMap, SameBase
<1>3. CASE todo = {}
  <2>1. pass' = "claim bitmap" /\ todo' = BitmapPages /\ UNCHANGED <<bitmap, free_pages>>
    BY <1>3 DEF FreeUsablePage
  <2>2. FreeFrames' = FreeFrames
    BY <1>2, <2>1 DEF FreeFrames
  <2>3. PmmTypeOK'
    BY <1>0, <1>1, <2>1 DEF PmmTypeOK
  <2> QED  BY <1>0, <1>2, <1>3, <2>1, <2>2, <2>3 DEF PmmInv
<1>4. CASE todo # {}
  <2> DEFINE page == Min(todo)
  <2>1. /\ bitmap' = bitmap \ {page} /\ free_pages' = free_pages + 1 /\ todo' = todo \ {page}
        /\ pass' = pass
    BY <1>4 DEF FreeUsablePage
  <2>2. page \in todo
    BY <1>0, <1>1, <1>4, MinOfNats
  <2> HIDE DEF page
  <2>3. page \in Frames /\ page \notin FreeFrames /\ FreeFrames' = FreeFrames \cup {page}
    BY <1>0, <1>1, <1>2, <2>1, <2>2 DEF FreeFrames
  <2>4. Cardinality(FreeFrames') = Cardinality(FreeFrames) + 1
    BY <2>3, <1>0, FreeFinite, CountAdd
  <2>5. FreeFrames' = Usable \ todo' /\ todo' \subseteq Usable
    BY <1>0, <2>1, <2>2, <2>3
  <2>6. PmmTypeOK'
    <3>1. free_pages' \in Nat
      <4>1. free_pages \in Nat
        BY <1>0 DEF PmmTypeOK
      <4> QED  BY ONLY <4>1, <2>1
    <3>2. bitmap' \subseteq Nat /\ todo' \subseteq Nat
      BY <1>0, <2>1 DEF PmmTypeOK
    <3> QED  BY <1>0, <2>1, <3>1, <3>2 DEF PmmTypeOK
  <2> QED  BY <1>0, <1>2, <2>1, <2>4, <2>5, <2>6 DEF PmmInv
<1> QED  BY <1>3, <1>4

LEMMA ClaimBitmapPageInv == PmmInv /\ ClaimBitmapPage => PmmInv'
<1> SUFFICES ASSUME PmmInv, ClaimBitmapPage  PROVE PmmInv'
  OBVIOUS
<1>0. /\ memmap \in Memmaps /\ memmap' = memmap /\ bitmap_base' = bitmap_base /\ owned' = owned
      /\ pass = "claim bitmap" /\ PmmTypeOK /\ Placed /\ free_pages = Cardinality(FreeFrames)
      /\ todo \subseteq BitmapPages /\ FreeFrames = Usable \ (BitmapPages \ todo)
      /\ owned = {} /\ bitmap \subseteq Frames
  BY DEF PmmInv, PmmTypeOK, ClaimBitmapPage, InUse
<1>1. Usable \subseteq Frames /\ Frames \subseteq Nat /\ BitmapPages \subseteq Usable
  BY <1>0, Sizes, UsableHasBits, BitmapIsUsable
<1>2. Frames' = Frames /\ Usable' = Usable /\ BitmapPages' = BitmapPages /\ Placed'
  BY <1>0, SameMap, SameBase
<1>3. CASE todo = {}
  <2>1. pass' = "done" /\ UNCHANGED <<bitmap, free_pages, todo>>
    BY <1>3 DEF ClaimBitmapPage
  <2>2. FreeFrames' = FreeFrames
    BY <1>2, <2>1 DEF FreeFrames
  <2>3. PmmTypeOK'
    BY <1>0, <2>1 DEF PmmTypeOK
  <2> QED  BY <1>0, <1>2, <1>3, <2>1, <2>2, <2>3 DEF PmmInv
<1>4. CASE todo # {}
  <2> DEFINE page == Min(todo)
  <2>1. /\ bitmap' = bitmap \cup {page} /\ free_pages' = CountOut(page) /\ todo' = todo \ {page}
        /\ pass' = pass
    BY <1>4 DEF ClaimBitmapPage
  <2>2. page \in todo
    BY <1>0, <1>1, <1>4, MinOfNats
  <2> HIDE DEF page
  <2>3. page \in FreeFrames /\ page \notin bitmap /\ FreeFrames' = FreeFrames \ {page}
    BY <1>0, <1>1, <1>2, <2>1, <2>2 DEF FreeFrames
  <2>4. /\ Cardinality(FreeFrames) \in Nat /\ Cardinality(FreeFrames) > 0
        /\ Cardinality(FreeFrames') = Cardinality(FreeFrames) - 1
    BY <2>3, <1>0, FreeFinite, CountRemove
  <2>5. free_pages' = free_pages - 1
    BY <1>0, <2>1, <2>3, <2>4 DEF CountOut
  <2>6. FreeFrames' = Usable \ (BitmapPages \ todo') /\ todo' \subseteq BitmapPages
    BY <1>0, <1>1, <2>1, <2>2, <2>3
  <2>7. page \in Frames /\ page \in Nat
    BY <1>0, <1>1, <2>2
  <2>8. PmmTypeOK'
    <3>1. free_pages' \in Nat
      <4>1. free_pages \in Nat /\ free_pages > 0
        BY <1>0, <2>4
      <4> QED  BY ONLY <4>1, <2>5
    <3>2. bitmap' \subseteq Nat /\ todo' \subseteq Nat
      BY <1>0, <2>1, <2>7 DEF PmmTypeOK
    <3> QED  BY <1>0, <2>1, <3>1, <3>2 DEF PmmTypeOK
  <2> QED  BY <1>0, <1>2, <2>1, <2>4, <2>5, <2>6, <2>7, <2>8 DEF PmmInv
<1> QED  BY <1>3, <1>4

LEMMA AllocInv == PmmInv /\ pmm_alloc_page => PmmInv'
<1> SUFFICES ASSUME PmmInv, pmm_alloc_page  PROVE PmmInv'
  OBVIOUS
<1>0. /\ memmap \in Memmaps /\ memmap' = memmap /\ bitmap_base' = bitmap_base /\ todo' = todo
      /\ pass = "done" /\ pass' = pass /\ PmmTypeOK /\ Placed
      /\ free_pages = Cardinality(FreeFrames) /\ FreeFrames = Usable \ (BitmapPages \cup owned)
      /\ owned \subseteq Usable \ BitmapPages /\ bitmap \subseteq Frames /\ FreeFrames # {}
      /\ bitmap' = bitmap \cup {FirstFree} /\ free_pages' = free_pages - 1
      /\ owned' = owned \cup {FirstFree}
  BY DEF PmmInv, PmmTypeOK, pmm_alloc_page, InUse
<1>1. Usable \subseteq Frames /\ Frames \subseteq Nat
  BY <1>0, Sizes, UsableHasBits
<1>2. Frames' = Frames /\ Usable' = Usable /\ BitmapPages' = BitmapPages /\ Placed'
  BY <1>0, SameMap, SameBase
<1>3. FirstFree \in FreeFrames
  BY <1>0, FreeFinite, MinOfNats DEF FirstFree
<1>4. FreeFrames' = FreeFrames \ {FirstFree}
  BY <1>0, <1>2 DEF FreeFrames
<1>5. /\ Cardinality(FreeFrames) \in Nat /\ Cardinality(FreeFrames) > 0
      /\ Cardinality(FreeFrames') = Cardinality(FreeFrames) - 1
  BY <1>0, <1>3, <1>4, FreeFinite, CountRemove
<1>6. FreeFrames' = Usable \ (BitmapPages \cup owned') /\ owned' \subseteq Usable \ BitmapPages
  BY <1>0, <1>3, <1>4
<1>7. FirstFree \in Frames /\ FirstFree \in Nat
  BY <1>0, <1>1, <1>3
<1>8. PmmTypeOK'
  <2>1. free_pages' \in Nat
    <3>1. free_pages \in Nat /\ free_pages > 0 /\ free_pages' = free_pages - 1
      BY <1>0, <1>5
    <3> QED  BY ONLY <3>1
  <2>2. bitmap' \subseteq Nat /\ owned' \subseteq Nat
    BY <1>0, <1>7 DEF PmmTypeOK
  <2> QED  BY <1>0, <2>1, <2>2 DEF PmmTypeOK
<1> QED  BY <1>0, <1>2, <1>5, <1>6, <1>7, <1>8 DEF PmmInv

LEMMA FreeInv == ASSUME NEW page, PmmInv, pmm_free_page(page)  PROVE PmmInv'
<1>0. /\ memmap \in Memmaps /\ memmap' = memmap /\ bitmap_base' = bitmap_base /\ todo' = todo
      /\ pass = "done" /\ pass' = pass /\ PmmTypeOK /\ Placed
      /\ free_pages = Cardinality(FreeFrames) /\ FreeFrames = Usable \ (BitmapPages \cup owned)
      /\ owned \subseteq Usable \ BitmapPages /\ bitmap \subseteq Frames /\ page \in owned
      /\ bitmap' = bitmap \ {page} /\ free_pages' = free_pages + 1 /\ owned' = owned \ {page}
  BY DEF PmmInv, PmmTypeOK, pmm_free_page, InUse
<1>1. Usable \subseteq Frames /\ Frames \subseteq Nat
  BY <1>0, Sizes, UsableHasBits
<1>2. Frames' = Frames /\ Usable' = Usable /\ BitmapPages' = BitmapPages /\ Placed'
  BY <1>0, SameMap, SameBase
<1>3. page \notin FreeFrames /\ FreeFrames' = FreeFrames \cup {page}
  BY <1>0, <1>1, <1>2 DEF FreeFrames
<1>4. Cardinality(FreeFrames') = Cardinality(FreeFrames) + 1
  BY <1>0, <1>3, FreeFinite, CountAdd
<1>5. FreeFrames' = Usable \ (BitmapPages \cup owned') /\ owned' \subseteq Usable \ BitmapPages
  BY <1>0, <1>3
<1>6. PmmTypeOK'
  <2>1. free_pages' \in Nat /\ bitmap' \subseteq Nat /\ owned' \subseteq Nat
    BY <1>0 DEF PmmTypeOK
  <2> QED  BY <1>0, <2>1 DEF PmmTypeOK
<1> QED  BY <1>0, <1>2, <1>4, <1>5, <1>6 DEF PmmInv

LEMMA PmmStutterInv == PmmInv /\ UNCHANGED pmmVars => PmmInv'
<1> SUFFICES ASSUME PmmInv, UNCHANGED pmmVars  PROVE PmmInv'
  OBVIOUS
<1>1. /\ memmap' = memmap /\ bitmap' = bitmap /\ bitmap_base' = bitmap_base
      /\ free_pages' = free_pages /\ pass' = pass /\ todo' = todo /\ owned' = owned
  BY DEF pmmVars
<1>2. Frames' = Frames /\ Usable' = Usable /\ BitmapPages' = BitmapPages /\ Placed' = Placed
  BY <1>1, SameMap, SameBase
<1>3. FreeFrames' = FreeFrames
  BY <1>1, <1>2 DEF FreeFrames
<1> QED  BY <1>1, <1>2, <1>3 DEF PmmInv, PmmTypeOK, InUse

LEMMA PmmStepInv == PmmInv /\ [PmmNext]_pmmVars => PmmInv'
<1> SUFFICES ASSUME PmmInv, [PmmNext]_pmmVars  PROVE PmmInv'
  OBVIOUS
<1>1. CASE PlaceBitmap
  BY <1>1, PlaceBitmapInv
<1>2. CASE FreeUsablePage
  BY <1>2, FreeUsablePageInv
<1>3. CASE ClaimBitmapPage
  BY <1>3, ClaimBitmapPageInv
<1>4. CASE pmm_alloc_page
  BY <1>4, AllocInv
<1>5. ASSUME NEW page \in owned, pmm_free_page(page)  PROVE PmmInv'
  BY <1>5, FreeInv
<1>6. CASE UNCHANGED pmmVars
  BY <1>6, PmmStutterInv
<1> QED  BY <1>1, <1>2, <1>3, <1>4, <1>5, <1>6 DEF PmmNext

\* PmmInv is inductive: the bitmap, the running count and the frames handed
\* out stay in step through pmm_init, alloc and free (pmm.c:86-234).
THEOREM PmmInvariant == PmmSpec => []PmmInv
BY PmmInitInv, PmmStepInv, PTL DEF PmmSpec

LEMMA InvGivesCount == PmmInv => CountMatchesBitmap
BY DEF PmmInv, PmmTypeOK, CountMatchesBitmap, InUse

LEMMA InvGivesFree == PmmInv => FreeIsUsableAndUnclaimed
<1> SUFFICES ASSUME PmmInv, pass = "done"
             PROVE  /\ FreeFrames = Usable \ (BitmapExtent \cup owned)
                    /\ owned \subseteq Usable \ BitmapExtent
  BY DEF FreeIsUsableAndUnclaimed
<1>1. BitmapPages = BitmapExtent
  BY BitmapIsUsable DEF PmmInv, PmmTypeOK, InUse
<1> QED  BY <1>1 DEF PmmInv

LEMMA InvGivesPlace == PmmInv => BitmapInUsableMemory
<1> SUFFICES ASSUME PmmInv  PROVE BitmapPages \subseteq Usable
  BY DEF BitmapInUsableMemory
<1>1. CASE InUse
  BY <1>1, BitmapIsUsable DEF PmmInv, PmmTypeOK
<1>2. CASE bitmap_base = NoBitmap
  BY <1>2 DEF BitmapPages
<1> QED  BY <1>1, <1>2 DEF PmmInv, PmmTypeOK, InUse

-----------------------------------------------------------------------------
(* A page number is the mixed-radix number of its four indices. *)

LEMMA FanoutTypes ==
    /\ Fanout[1] \in Nat \ {0} /\ Fanout[2] \in Nat \ {0}
    /\ Fanout[3] \in Nat \ {0} /\ Fanout[4] \in Nat \ {0}
    /\ \A l \in 1 .. 4 : Fanout[l] \in Nat \ {0}
BY VmmAssumption DEF Levels

LEMMA TimesPositive ==
    ASSUME NEW p \in Nat \ {0}, NEW q \in Nat \ {0}
    PROVE  p * q \in Nat \ {0}
<1>1. p * 1 <= p * q
  BY TimesMonotone
<1> QED  BY <1>1

LEMMA TimesAssociates ==
    ASSUME NEW a \in Int, NEW b \in Int, NEW c \in Int
    PROVE  (a * b) * c = a * (b * c)
OBVIOUS

LEMMA DivDiv ==
    ASSUME NEW x \in Nat, NEW p \in Nat \ {0}, NEW q \in Nat \ {0}
    PROVE  x \div (p * q) = (x \div q) \div p
<1> DEFINE a == x \div q
           r == x % q
           b == a \div p
           s == a % p
<1>1. a \in Nat /\ r \in Nat /\ x = q * a + r /\ r < q
  BY DivMod
<1>2. b \in Nat /\ s \in Nat /\ a = p * b + s /\ s < p
  BY <1>1, DivMod
<1> HIDE DEF a, r, b, s
<1>3. q * a = (p * q) * b + q * s
  <2>1. q * a = q * (p * b) + q * s
    BY <1>1, <1>2
  <2>2. q * (p * b) = (q * p) * b
    BY <1>2, TimesAssociates
  <2>3. q * p = p * q
    OBVIOUS
  <2> QED  BY <2>1, <2>2, <2>3
<1>4. q * s + r < p * q /\ q * s + r \in Nat
  <2>1. q * (s + 1) <= q * p
    BY <1>2, TimesMonotone
  <2>2. q * (s + 1) = q * s + q
    BY <1>2
  <2>3. q * p = p * q /\ q * s \in Nat /\ q * p \in Nat
    BY <1>2
  <2> QED  BY <2>1, <2>2, <2>3, <1>1
<1>5. x = (p * q) * b + (q * s + r)
  <2>1. (p * q) * b \in Nat /\ q * s \in Nat /\ q * a \in Nat
    BY <1>1, <1>2, TimesPositive
  <2> QED  BY <1>1, <1>3, <2>1
<1>6. ((p * q) * b + (q * s + r)) \div (p * q) = b
  <2> DEFINE w == q * s + r
             m == p * q
  <2>1. m \in Nat \ {0} /\ w \in Nat /\ w < m
    BY <1>4, TimesPositive
  <2> HIDE DEF w, m
  <2>2. (m * b + w) \div m = b
    BY <1>2, <2>1, DivOfMultiple
  <2> QED  BY <2>2 DEF w, m
<1> QED  BY <1>5, <1>6 DEF b, a

\* The page's position in a last table, and the numbers of the tables.
TableOf(v) == v \div Fanout[4]
DirOf(v) == TableOf(v) \div Fanout[3]
TopOf(v) == DirOf(v) \div Fanout[2]

LEMMA IndexIs ==
    ASSUME NEW v \in Nat
    PROVE  /\ TableOf(v) \in Nat /\ DirOf(v) \in Nat /\ TopOf(v) \in Nat
           /\ Index(v, 1) = TopOf(v) % Fanout[1]
           /\ Index(v, 2) = DirOf(v) % Fanout[2]
           /\ Index(v, 3) = TableOf(v) % Fanout[3]
           /\ Index(v, 4) = v % Fanout[4]
<1> DEFINE F1 == Fanout[1]
           F2 == Fanout[2]
           F3 == Fanout[3]
           F4 == Fanout[4]
<1>1. /\ F1 \in Nat \ {0} /\ F2 \in Nat \ {0} /\ F3 \in Nat \ {0} /\ F4 \in Nat \ {0}
      /\ F3 * F4 \in Nat \ {0}
  BY FanoutTypes, TimesPositive
<1>2. Span[1] = F2 * F3 * F4 /\ Span[2] = F3 * F4 /\ Span[3] = F4 /\ Span[4] = 1
  BY DEF Span
<1>3. TableOf(v) = v \div F4 /\ DirOf(v) = TableOf(v) \div F3 /\ TopOf(v) = DirOf(v) \div F2
  BY DEF TableOf, DirOf, TopOf
<1>4. /\ Index(v, 1) = (v \div Span[1]) % F1 /\ Index(v, 2) = (v \div Span[2]) % F2
      /\ Index(v, 3) = (v \div Span[3]) % F3 /\ Index(v, 4) = (v \div Span[4]) % F4
  BY DEF Index
<1> HIDE DEF F1, F2, F3, F4
<1>5. TableOf(v) \in Nat /\ DirOf(v) \in Nat /\ TopOf(v) \in Nat
  <2>1. TableOf(v) \in Nat
    BY <1>1, <1>3, DivMod
  <2>2. DirOf(v) \in Nat
    BY <1>1, <1>3, <2>1, DivMod
  <2>3. TopOf(v) \in Nat
    BY <1>1, <1>3, <2>2, DivMod
  <2> QED  BY <2>1, <2>2, <2>3
<1>6. v \div (F3 * F4) = DirOf(v)
  BY <1>1, <1>3, DivDiv
<1>7. v \div (F2 * F3 * F4) = TopOf(v)
  <2>1. F2 * F3 * F4 = F2 * (F3 * F4)
    BY <1>1, TimesAssociates
  <2>2. v \div (F2 * (F3 * F4)) = (v \div (F3 * F4)) \div F2
    BY <1>1, DivDiv
  <2> QED  BY <1>3, <1>6, <2>1, <2>2
<1>8. v \div 1 = v
  OBVIOUS
<1> QED  BY <1>2, <1>3, <1>4, <1>5, <1>6, <1>7, <1>8 DEF F1, F2, F3, F4

LEMMA IndexInTable ==
    ASSUME NEW v \in Nat, NEW l \in 1 .. 4
    PROVE  Index(v, l) \in 0 .. Fanout[l] - 1
<1>1. ASSUME NEW x \in Nat, NEW p \in Nat \ {0}  PROVE x % p \in 0 .. p - 1
  BY <1>1, DivMod
<1>2. \E x \in Nat : Index(v, l) = x % Fanout[l]
  <2>1. CASE l = 1
    BY <2>1, IndexIs
  <2>2. CASE l = 2
    BY <2>2, IndexIs
  <2>3. CASE l = 3
    BY <2>3, IndexIs
  <2>4. CASE l = 4
    BY <2>4, IndexIs
  <2> QED  BY <2>1, <2>2, <2>3, <2>4
<1>3. Fanout[l] \in Nat \ {0}
  BY FanoutTypes
<1> QED  BY <1>1, <1>2, <1>3

\* Pages with the same indices are the same.
LEMMA IndicesName ==
    ASSUME NEW v \in Pages, NEW w \in Pages, \A l \in 1 .. 4 : Index(v, l) = Index(w, l)
    PROVE  v = w
<1> DEFINE F1 == Fanout[1]
           F2 == Fanout[2]
           F3 == Fanout[3]
           F4 == Fanout[4]
<1>1. F1 \in Nat \ {0} /\ F2 \in Nat \ {0} /\ F3 \in Nat \ {0} /\ F4 \in Nat \ {0}
  BY FanoutTypes
<1>2. v \in Nat /\ w \in Nat
  BY DEF Pages
<1>3. ASSUME NEW x \in Pages  PROVE x \in Nat /\ TopOf(x) % F1 = TopOf(x)
  <2>1. x \in Nat /\ x < F1 * F2 * F3 * F4
    <3>1. F1 * F2 * F3 * F4 \in Int
      BY <1>1
    <3> QED  BY <3>1 DEF Pages
  <2>2. TableOf(x) \in Nat /\ DirOf(x) \in Nat /\ TopOf(x) \in Nat
    BY <2>1, IndexIs
  <2> DEFINE m == F2 * (F3 * F4)
  <2>3. m \in Nat \ {0} /\ F1 * F2 * F3 * F4 = F1 * m
    <3>1. F3 * F4 \in Nat \ {0}
      BY <1>1, TimesPositive
    <3>2. m \in Nat \ {0}
      BY <1>1, <3>1, TimesPositive
    <3>3. F1 * F2 * F3 * F4 = (F1 * F2) * (F3 * F4)
      BY <1>1, TimesAssociates
    <3>4. (F1 * F2) * (F3 * F4) = F1 * m
      BY <1>1, <3>1, TimesAssociates
    <3> QED  BY <3>2, <3>3, <3>4
  <2>4. TopOf(x) = x \div m
    <3>1. F3 * F4 \in Nat \ {0}
      BY <1>1, TimesPositive
    <3>2. x \div (F3 * F4) = DirOf(x)
      BY <1>1, <2>1, DivDiv DEF DirOf, TableOf
    <3>3. x \div m = (x \div (F3 * F4)) \div F2
      BY <1>1, <2>1, <3>1, DivDiv
    <3> QED  BY <3>2, <3>3 DEF TopOf
  <2> HIDE DEF m
  <2>5. TopOf(x) < F1
    <3> SUFFICES ASSUME F1 <= TopOf(x)  PROVE FALSE
      BY <1>1, <2>2
    <3>1. m * F1 <= m * TopOf(x)
      BY <1>1, <2>2, <2>3, TimesMonotone
    <3>2. m * TopOf(x) <= x
      <4>1. x = m * (x \div m) + (x % m) /\ x % m \in Nat /\ x \div m \in Nat
        BY <2>1, <2>3, DivMod
      <4>2. m * (x \div m) \in Nat
        BY <4>1, <2>3
      <4> QED  BY <4>1, <4>2, <2>1, <2>4
    <3>3. m * F1 = F1 * m /\ m * F1 \in Int /\ m * TopOf(x) \in Int
      BY <1>1, <2>2, <2>3
    <3> QED  BY <2>1, <2>3, <3>1, <3>2, <3>3
  <2>6. TopOf(x) % F1 = TopOf(x)
    BY <1>1, <2>2, <2>5
  <2> QED  BY <2>1, <2>6
<1>4. TopOf(v) = TopOf(w)
  <2>1. Index(v, 1) = Index(w, 1)
    OBVIOUS
  <2> QED  BY <1>2, <1>3, <2>1, IndexIs
<1>5. ASSUME NEW a \in Nat, NEW b \in Nat, NEW p \in Nat \ {0}, a \div p = b \div p, a % p = b % p
      PROVE  a = b
  <2>1. a = p * (a \div p) + (a % p) /\ b = p * (b \div p) + (b % p)
    BY <1>5, DivMod
  <2> QED  BY <1>5, <2>1
<1>6. DirOf(v) = DirOf(w)
  <2>1. Index(v, 2) = Index(w, 2)
    OBVIOUS
  <2>2. /\ DirOf(v) \in Nat /\ DirOf(w) \in Nat /\ DirOf(v) % F2 = DirOf(w) % F2
        /\ DirOf(v) \div F2 = DirOf(w) \div F2
    BY <1>2, <1>4, <2>1, IndexIs DEF TopOf
  <2> HIDE DEF F2
  <2> QED  BY <1>1, <1>5, <2>2
<1>7. TableOf(v) = TableOf(w)
  <2>1. Index(v, 3) = Index(w, 3)
    OBVIOUS
  <2>2. /\ TableOf(v) \in Nat /\ TableOf(w) \in Nat /\ TableOf(v) % F3 = TableOf(w) % F3
        /\ TableOf(v) \div F3 = TableOf(w) \div F3
    BY <1>2, <1>6, <2>1, IndexIs DEF DirOf
  <2> HIDE DEF F3
  <2> QED  BY <1>1, <1>5, <2>2
<1>8. v % F4 = w % F4 /\ v \div F4 = w \div F4
  <2>1. Index(v, 4) = Index(w, 4)
    OBVIOUS
  <2> QED  BY <1>2, <1>7, <2>1, IndexIs DEF TableOf
<1> HIDE DEF F4
<1> QED  BY <1>1, <1>2, <1>5, <1>8

\* A page that is not the first of its table shares it with the page before.
LEMMA SameTable ==
    ASSUME NEW v \in Nat \ {0}, v % Fanout[4] # 0
    PROVE  \A l \in 1 .. 3 : Index(v - 1, l) = Index(v, l)
<1> DEFINE F == Fanout[4]
           a == v \div F
           r == v % F
<1>1. a \in Nat /\ r \in Nat /\ v = F * a + r /\ r < F /\ F \in Nat \ {0} /\ r # 0
  BY FanoutTypes, DivMod
<1> HIDE DEF a, r, F
<1>2. v - 1 = F * a + (r - 1) /\ r - 1 \in Nat /\ r - 1 < F
  <2>1. F * a \in Nat
    BY <1>1
  <2> QED  BY <1>1, <2>1
<1>3. (v - 1) \div F = a
  BY <1>1, <1>2, DivOfMultiple
<1>4. TableOf(v - 1) = TableOf(v)
  BY <1>3 DEF TableOf, a, F
<1>5. DirOf(v - 1) = DirOf(v) /\ TopOf(v - 1) = TopOf(v)
  BY <1>4 DEF DirOf, TopOf
<1> QED  BY <1>4, <1>5, IndexIs

-----------------------------------------------------------------------------
(* The page tables form a tree. *)

\* lvl gives the level of each table: only the root has level 1, an entry of
\* a table of level 1 to 3 leads to a table of the next level, no two entries
\* lead to the same, and one leads to each but the root.
Inner(lvl, t, i) == t \in DOMAIN tables /\ lvl[t] < 4 /\ i \in DOMAIN tables[t] /\ tables[t][i] # Absent
Levelled(lvl) ==
    /\ lvl \in [DOMAIN tables -> 1 .. 4] /\ DOMAIN tables \subseteq Nat
    /\ \A t \in DOMAIN tables :
        /\ lvl[t] = 1 <=> t = root
        /\ DOMAIN tables[t] = 0 .. Fanout[lvl[t]] - 1
        /\ \A i \in DOMAIN tables[t] : tables[t][i] \in Nat \cup {Absent}
Reached(lvl) ==
    \A t \in DOMAIN tables \ {root} : \E s, i : Inner(lvl, s, i) /\ tables[s][i] = t
Downward(lvl) ==
    \A t, i : Inner(lvl, t, i) => tables[t][i] \in DOMAIN tables /\ lvl[tables[t][i]] = lvl[t] + 1
Single(lvl) ==
    \A s, t, i, j :
        Inner(lvl, s, i) /\ Inner(lvl, t, j) /\ tables[s][i] = tables[t][j] => s = t /\ i = j
Tree(lvl) == Levelled(lvl) /\ Reached(lvl) /\ Downward(lvl) /\ Single(lvl)

\* The table of each level on the way to a page.
Walk(v, l) ==
    IF l = 1 THEN root
    ELSE IF l = 2 THEN Step(root, v, 1)
    ELSE IF l = 3 THEN Step(Step(root, v, 1), v, 2)
    ELSE LeafTable(v)

LEMMA WalkStep ==
    ASSUME NEW v
    PROVE  /\ Walk(v, 1) = root /\ Walk(v, 4) = LeafTable(v)
           /\ \A l \in 1 .. 3 : Walk(v, l + 1) = Step(Walk(v, l), v, l)
           /\ vmm_virt_to_phys(v) = Step(Walk(v, 4), v, 4)
<1>1. /\ Walk(v, 1) = root /\ Walk(v, 2) = Step(root, v, 1)
      /\ Walk(v, 3) = Step(Step(root, v, 1), v, 2) /\ Walk(v, 4) = LeafTable(v)
  BY DEF Walk
<1>2. Walk(v, 4) = Step(Walk(v, 3), v, 3)
  BY <1>1 DEF LeafTable
<1>3. ASSUME NEW l \in 1 .. 3  PROVE Walk(v, l + 1) = Step(Walk(v, l), v, l)
  <2>1. CASE l = 1
    BY <1>1, <2>1
  <2>2. CASE l = 2
    BY <1>1, <2>2
  <2>3. CASE l = 3
    BY <1>2, <2>3
  <2> QED  BY <2>1, <2>2, <2>3
<1> QED  BY <1>1, <1>3 DEF vmm_virt_to_phys

LEMMA WalkStepNext ==
    ASSUME NEW v
    PROVE  /\ Walk(v, 1)' = root' /\ Walk(v, 4)' = LeafTable(v)'
           /\ \A l \in 1 .. 3 : Walk(v, l + 1)' = Step(Walk(v, l), v, l)'
           /\ vmm_virt_to_phys(v)' = Step(Walk(v, 4), v, 4)'
<1>1. /\ Walk(v, 1)' = root' /\ Walk(v, 2)' = Step(root, v, 1)'
      /\ Walk(v, 3)' = Step(Step(root, v, 1), v, 2)' /\ Walk(v, 4)' = LeafTable(v)'
  BY DEF Walk
<1>2. Walk(v, 4)' = Step(Walk(v, 3), v, 3)'
  BY <1>1 DEF LeafTable, Step
<1>3. ASSUME NEW l \in 1 .. 3  PROVE Walk(v, l + 1)' = Step(Walk(v, l), v, l)'
  <2>1. CASE l = 1
    BY <1>1, <2>1 DEF Step
  <2>2. CASE l = 2
    BY <1>1, <2>2 DEF Step
  <2>3. CASE l = 3
    BY <1>2, <2>3 DEF Step
  <2> QED  BY <2>1, <2>2, <2>3
<1> QED  BY <1>1, <1>3 DEF vmm_virt_to_phys

\* A walk that has not ended is at a table of its level.
LEMMA WalkTypes ==
    ASSUME NEW lvl, Tree(lvl), root \in DOMAIN tables, NEW v \in Pages
    PROVE  \A l \in 1 .. 4 : Walk(v, l) # Absent =>
                /\ Walk(v, l) \in DOMAIN tables /\ lvl[Walk(v, l)] = l
                /\ Index(v, l) \in DOMAIN tables[Walk(v, l)]
<1> DEFINE At(l) == Walk(v, l) # Absent => Walk(v, l) \in DOMAIN tables /\ lvl[Walk(v, l)] = l
<1>1. v \in Nat
  BY DEF Pages
<1>2. At(1)
  BY WalkStep DEF Tree, Levelled
<1>3. ASSUME NEW l \in 1 .. 3, At(l)  PROVE At(l + 1)
  <2> SUFFICES ASSUME Walk(v, l + 1) # Absent
               PROVE  Walk(v, l + 1) \in DOMAIN tables /\ lvl[Walk(v, l + 1)] = l + 1
    OBVIOUS
  <2> DEFINE t == Walk(v, l)
             i == Index(v, l)
  <2>1. Walk(v, l + 1) = Step(t, v, l)
    BY WalkStep
  <2>2. t # Absent /\ Walk(v, l + 1) = tables[t][i]
    BY <2>1 DEF Step
  <2>3. t \in DOMAIN tables /\ lvl[t] = l
    BY <1>3, <2>2
  <2> HIDE DEF t
  <2>4. i \in 0 .. Fanout[l] - 1
    BY <1>1, IndexInTable
  <2> HIDE DEF i
  <2>5. DOMAIN tables[t] = 0 .. Fanout[l] - 1
    BY <2>3 DEF Tree, Levelled
  <2>6. tables[t][i] # Absent
    BY <2>2
  <2>7. Inner(lvl, t, i)
    BY <2>3, <2>4, <2>5, <2>6 DEF Inner
  <2>8. tables[t][i] \in DOMAIN tables /\ lvl[tables[t][i]] = lvl[t] + 1
    BY <2>7 DEF Tree, Downward
  <2> QED  BY <2>2, <2>3, <2>8
<1>4. At(2)
  BY <1>2, <1>3
<1>5. At(3)
  BY <1>4, <1>3
<1>6. At(4)
  BY <1>5, <1>3
<1>7. ASSUME NEW l \in 1 .. 4, Walk(v, l) # Absent
      PROVE  /\ Walk(v, l) \in DOMAIN tables /\ lvl[Walk(v, l)] = l
             /\ Index(v, l) \in DOMAIN tables[Walk(v, l)]
  <2>1. At(l)
    BY <1>2, <1>4, <1>5, <1>6
  <2> HIDE DEF At
  <2>2. Walk(v, l) \in DOMAIN tables /\ lvl[Walk(v, l)] = l
    BY <1>7, <2>1 DEF At
  <2>3. Index(v, l) \in 0 .. Fanout[l] - 1
    BY <1>1, IndexInTable
  <2>4. DOMAIN tables[Walk(v, l)] = 0 .. Fanout[l] - 1
    BY <2>2 DEF Tree, Levelled
  <2> QED  BY <2>2, <2>3, <2>4
<1> QED  BY <1>7

\* Two walks are at the same table only if they have come the same way.
LEMMA WalksMeet ==
    ASSUME NEW lvl, Tree(lvl), root \in DOMAIN tables, NEW v \in Pages, NEW w \in Pages,
           NEW l \in 1 .. 3, Walk(v, l + 1) = Walk(w, l + 1), Walk(v, l + 1) # Absent
    PROVE  Walk(v, l) = Walk(w, l) /\ Walk(v, l) # Absent /\ Index(v, l) = Index(w, l)
<1> DEFINE s == Walk(v, l)
           t == Walk(w, l)
           i == Index(v, l)
           j == Index(w, l)
<1>1. Walk(v, l + 1) = Step(s, v, l) /\ Walk(w, l + 1) = Step(t, w, l)
  BY WalkStep
<1>2. s # Absent /\ t # Absent /\ Walk(v, l + 1) = tables[s][i] /\ Walk(w, l + 1) = tables[t][j]
  BY <1>1 DEF Step
<1>3. /\ s \in DOMAIN tables /\ lvl[s] = l /\ i \in DOMAIN tables[s]
      /\ t \in DOMAIN tables /\ lvl[t] = l /\ j \in DOMAIN tables[t]
  BY <1>2, WalkTypes
<1> HIDE DEF s, t, i, j
<1>4. Inner(lvl, s, i) /\ Inner(lvl, t, j) /\ tables[s][i] = tables[t][j]
  BY <1>2, <1>3 DEF Inner
<1>5. s = t /\ i = j
  BY <1>4 DEF Tree, Single
<1> QED  BY <1>2, <1>5 DEF s, t, i, j

LEMMA LeafNames ==
    ASSUME NEW lvl, Tree(lvl), root \in DOMAIN tables, NEW v \in Pages, NEW w \in Pages,
           Walk(v, 4) = Walk(w, 4), Walk(v, 4) # Absent, Index(v, 4) = Index(w, 4)
    PROVE  v = w
<1>1. Walk(v, 3) = Walk(w, 3) /\ Walk(v, 3) # Absent /\ Index(v, 3) = Index(w, 3)
  <2>1. 3 \in 1 .. 3 /\ 3 + 1 = 4
    OBVIOUS
  <2> QED  BY <2>1, WalksMeet
<1>2. Walk(v, 2) = Walk(w, 2) /\ Walk(v, 2) # Absent /\ Index(v, 2) = Index(w, 2)
  <2>1. 2 \in 1 .. 3 /\ 2 + 1 = 3
    OBVIOUS
  <2> QED  BY <1>1, <2>1, WalksMeet
<1>3. Index(v, 1) = Index(w, 1)
  <2>1. 1 \in 1 .. 3 /\ 1 + 1 = 2
    OBVIOUS
  <2> QED  BY <1>2, <2>1, WalksMeet
<1>4. \A l \in 1 .. 4 : Index(v, l) = Index(w, l)
  <2> TAKE l \in 1 .. 4
  <2>1. l = 1 \/ l = 2 \/ l = 3 \/ l = 4
    OBVIOUS
  <2> QED  BY <1>1, <1>2, <1>3, <2>1
<1> QED  BY <1>4, IndicesName

\* Setting an entry of a last table changes the translation of one page.
LEMMA LeafWrite ==
    ASSUME NEW lvl, Tree(lvl), root \in DOMAIN tables, root' = root,
           NEW t \in DOMAIN tables, lvl[t] = 4, NEW i \in DOMAIN tables[t], NEW x \in Nat \cup {Absent},
           tables' = [tables EXCEPT ![t][i] = x]
    PROVE  /\ Tree(lvl)' /\ DOMAIN tables' = DOMAIN tables
           /\ \A v \in Pages : \A l \in 1 .. 4 : Walk(v, l)' = Walk(v, l)
           /\ \A v \in Pages : vmm_virt_to_phys(v)' =
                IF Walk(v, 4) = t /\ Index(v, 4) = i THEN x ELSE vmm_virt_to_phys(v)
<1>1. /\ DOMAIN tables' = DOMAIN tables
      /\ \A s \in DOMAIN tables : DOMAIN tables'[s] = DOMAIN tables[s]
      /\ \A s \in DOMAIN tables : \A j \in DOMAIN tables[s] :
            tables'[s][j] = IF s = t /\ j = i THEN x ELSE tables[s][j]
  OBVIOUS
<1>2. \A s, j : Inner(lvl, s, j)' <=> Inner(lvl, s, j)
  BY <1>1 DEF Inner
<1>3. \A s, j : Inner(lvl, s, j) => tables'[s][j] = tables[s][j]
  BY <1>1 DEF Inner
<1>4. Tree(lvl)'
  <2>1. ASSUME NEW s \in DOMAIN tables'
        PROVE  /\ lvl[s] = 1 <=> s = root'
               /\ DOMAIN tables'[s] = 0 .. Fanout[lvl[s]] - 1
               /\ \A j \in DOMAIN tables'[s] : tables'[s][j] \in Nat \cup {Absent}
               /\ s # root' => \E u, j : Inner(lvl, u, j)' /\ tables'[u][j] = s
    <3>1. s # root => \E u, j : Inner(lvl, u, j) /\ tables[u][j] = s
      BY <1>1, <2>1 DEF Tree, Reached
    <3>2. s # root' => \E u, j : Inner(lvl, u, j)' /\ tables'[u][j] = s
      BY <1>2, <1>3, <3>1
    <3>3. \A j \in DOMAIN tables'[s] : tables'[s][j] \in Nat \cup {Absent}
      BY <1>1, <2>1 DEF Tree, Levelled
    <3>4. (lvl[s] = 1 <=> s = root') /\ DOMAIN tables'[s] = 0 .. Fanout[lvl[s]] - 1
      BY <1>1, <2>1 DEF Tree, Levelled
    <3> QED  BY <3>2, <3>3, <3>4
  <2>2. \A s, j : Inner(lvl, s, j)' => tables'[s][j] \in DOMAIN tables' /\ lvl[tables'[s][j]] = lvl[s] + 1
    BY <1>1, <1>2, <1>3 DEF Tree, Downward
  <2>3. \A r, s, k, j : Inner(lvl, r, k)' /\ Inner(lvl, s, j)' /\ tables'[r][k] = tables'[s][j] => r = s /\ k = j
    BY <1>2, <1>3 DEF Tree, Single
  <2>4. lvl \in [DOMAIN tables' -> 1 .. 4] /\ DOMAIN tables' \subseteq Nat
    BY <1>1 DEF Tree, Levelled
  <2>5. Levelled(lvl)' /\ Reached(lvl)'
    BY <2>1, <2>4 DEF Levelled, Reached
  <2>6. Downward(lvl)'
    BY <2>2 DEF Downward
  <2>7. Single(lvl)'
    BY <2>3 DEF Single
  <2> QED  BY <2>5, <2>6, <2>7 DEF Tree
<1>5. ASSUME NEW v \in Pages
      PROVE  /\ \A l \in 1 .. 4 : Walk(v, l)' = Walk(v, l)
             /\ vmm_virt_to_phys(v)' = IF Walk(v, 4) = t /\ Index(v, 4) = i THEN x ELSE vmm_virt_to_phys(v)
  <2>1. ASSUME NEW l \in 1 .. 4, Walk(v, l)' = Walk(v, l)
        PROVE  Step(Walk(v, l), v, l)' =
                    IF Walk(v, l) = t /\ Index(v, l) = i THEN x ELSE Step(Walk(v, l), v, l)
    <3> DEFINE s == Walk(v, l)
    <3>1. CASE s = Absent
      <4>1. t # Absent
        BY DEF Tree, Levelled, Absent
      <4> QED  BY <2>1, <3>1, <4>1 DEF Step
    <3>2. CASE s # Absent
      <4>1. s \in DOMAIN tables /\ Index(v, l) \in DOMAIN tables[s]
        BY <3>2, WalkTypes
      <4>2. Step(Walk(v, l), v, l)' = tables'[s][Index(v, l)] /\ Step(Walk(v, l), v, l) = tables[s][Index(v, l)]
        BY <2>1, <3>2 DEF Step
      <4>3. tables'[s][Index(v, l)] = IF s = t /\ Index(v, l) = i THEN x ELSE tables[s][Index(v, l)]
        <5> HIDE DEF s
        <5> QED  BY <1>1, <4>1
      <4> QED  BY <4>2, <4>3
    <3> QED  BY <3>1, <3>2
  <2>2. ASSUME NEW l \in 1 .. 3, Walk(v, l)' = Walk(v, l)  PROVE Walk(v, l + 1)' = Walk(v, l + 1)
    <3>1. Walk(v, l + 1)' = Step(Walk(v, l), v, l)' /\ Walk(v, l + 1) = Step(Walk(v, l), v, l)
      BY WalkStep, WalkStepNext
    <3>2. Walk(v, l) # t
      <4> SUFFICES ASSUME Walk(v, l) = t  PROVE FALSE
        OBVIOUS
      <4>1. t # Absent
        BY DEF Tree, Levelled, Absent
      <4>2. lvl[t] = l
        BY <4>1, WalkTypes
      <4> QED  BY <4>2
    <3> QED  BY <2>1, <2>2, <3>1, <3>2
  <2>3. Walk(v, 1)' = Walk(v, 1)
    BY WalkStep, WalkStepNext
  <2>4. Walk(v, 2)' = Walk(v, 2)
    BY <2>2, <2>3
  <2>5. Walk(v, 3)' = Walk(v, 3)
    BY <2>2, <2>4
  <2>6. Walk(v, 4)' = Walk(v, 4)
    BY <2>2, <2>5
  <2>7. \A l \in 1 .. 4 : Walk(v, l)' = Walk(v, l)
    <3> TAKE l \in 1 .. 4
    <3>1. l = 1 \/ l = 2 \/ l = 3 \/ l = 4
      OBVIOUS
    <3> QED  BY <2>3, <2>4, <2>5, <2>6, <3>1
  <2>8. vmm_virt_to_phys(v)' = Step(Walk(v, 4), v, 4)' /\ vmm_virt_to_phys(v) = Step(Walk(v, 4), v, 4)
    BY WalkStep, WalkStepNext
  <2> QED  BY <2>1, <2>6, <2>7, <2>8
<1> QED  BY <1>1, <1>4, <1>5

\* A new table where none was: every page translates to what it did.
LEMMA NewTable ==
    ASSUME NEW lvl, Tree(lvl), root \in DOMAIN tables, root' = root,
           NEW t \in DOMAIN tables, lvl[t] < 4, NEW i \in DOMAIN tables[t], tables[t][i] = Absent,
           NEW f \in Nat, f \notin DOMAIN tables,
           tables' = With([tables EXCEPT ![t][i] = f], f, EmptyTable(lvl[t] + 1))
    PROVE  /\ \E new : Tree(new)'
           /\ DOMAIN tables' = DOMAIN tables \cup {f} /\ tables'[t][i] = f
           /\ \A v \in Pages : \A l \in 1 .. 4 : Walk(v, l) # Absent => Walk(v, l)' = Walk(v, l)
           /\ \A v \in Pages : vmm_virt_to_phys(v)' = vmm_virt_to_phys(v)
<1> DEFINE m == lvl[t] + 1
<1>a. PICK new : new = [s \in DOMAIN tables \cup {f} |-> IF s = f THEN lvl[t] + 1 ELSE lvl[s]]
  OBVIOUS
<1>0. m \in 2 .. 4 /\ f # Absent
  BY DEF Tree, Levelled, Absent
<1>1. /\ DOMAIN tables' = DOMAIN tables \cup {f}
      /\ tables'[f] = EmptyTable(m)
      /\ \A s \in DOMAIN tables : DOMAIN tables'[s] = DOMAIN tables[s]
      /\ \A s \in DOMAIN tables : \A j \in DOMAIN tables[s] :
            tables'[s][j] = IF s = t /\ j = i THEN f ELSE tables[s][j]
  BY DEF With
<1>2. DOMAIN EmptyTable(m) = 0 .. Fanout[m] - 1 /\ \A j \in 0 .. Fanout[m] - 1 : EmptyTable(m)[j] = Absent
  BY DEF EmptyTable
<1>3. /\ new \in [DOMAIN tables' -> 1 .. 4] /\ new[f] = m
      /\ \A s \in DOMAIN tables : new[s] = lvl[s] /\ s # f
  <2>1. DOMAIN tables' = DOMAIN tables \cup {f} /\ lvl \in [DOMAIN tables -> 1 .. 4] /\ m \in 1 .. 4
    BY <1>0, <1>1 DEF Tree, Levelled
  <2>2. \A s \in DOMAIN tables : lvl[s] \in 1 .. 4
    BY <2>1
  <2> HIDE DEF m
  <2>3. new = [s \in DOMAIN tables \cup {f} |-> IF s = f THEN m ELSE lvl[s]]
    BY <1>a DEF m
  <2>4. \A s \in DOMAIN tables \cup {f} : new[s] \in 1 .. 4
    BY <2>1, <2>2, <2>3
  <2> QED  BY <2>1, <2>3, <2>4
<1> HIDE DEF m
<1>4. \A s, j : Inner(new, s, j)' <=> Inner(lvl, s, j) \/ (s = t /\ j = i)
  <2> TAKE s, j
  <2>1. CASE s = f
    BY <1>1, <1>2, <2>1 DEF Inner
  <2>2. CASE s \in DOMAIN tables
    <3>1. /\ s \in DOMAIN tables' /\ new[s] = lvl[s] /\ DOMAIN tables'[s] = DOMAIN tables[s] /\ lvl[t] < 4
          /\ j \in DOMAIN tables[s] => tables'[s][j] = IF s = t /\ j = i THEN f ELSE tables[s][j]
      BY <1>1, <1>3, <2>2
    <3>2. Inner(new, s, j)' <=> lvl[s] < 4 /\ j \in DOMAIN tables[s] /\ tables'[s][j] # Absent
      BY <3>1 DEF Inner
    <3>3. Inner(lvl, s, j) <=> lvl[s] < 4 /\ j \in DOMAIN tables[s] /\ tables[s][j] # Absent
      BY <2>2 DEF Inner
    <3> QED  BY <1>0, <3>1, <3>2, <3>3
  <2>3. CASE s \notin DOMAIN tables'
    BY <1>1, <2>3 DEF Inner
  <2> QED  BY <1>1, <2>1, <2>2, <2>3
<1>5. /\ \A s, j : Inner(lvl, s, j) => tables'[s][j] = tables[s][j] /\ ~(s = t /\ j = i)
      /\ tables'[t][i] = f
  BY <1>1 DEF Inner
<1>6. Tree(new)'
  <2>1. ASSUME NEW s \in DOMAIN tables'
        PROVE  /\ new[s] = 1 <=> s = root'
               /\ DOMAIN tables'[s] = 0 .. Fanout[new[s]] - 1
               /\ \A j \in DOMAIN tables'[s] : tables'[s][j] \in Nat \cup {Absent}
               /\ s # root' => \E u, j : Inner(new, u, j)' /\ tables'[u][j] = s
    <3>1. CASE s = f
      <4>1. new[s] # 1 /\ s # root'
        BY <1>0, <1>3, <3>1
      <4>2. DOMAIN tables'[s] = 0 .. Fanout[new[s]] - 1 /\ \A j \in DOMAIN tables'[s] : tables'[s][j] = Absent
        BY <1>1, <1>2, <1>3, <3>1
      <4>3. Inner(new, t, i)' /\ tables'[t][i] = s
        BY <1>4, <1>5, <3>1
      <4> QED  BY <4>1, <4>2, <4>3
    <3>2. CASE s # f
      <4>0. s \in DOMAIN tables /\ new[s] = lvl[s]
        BY <1>1, <1>3, <3>2
      <4>1. s # root => \E u, j : Inner(lvl, u, j) /\ tables[u][j] = s
        BY <4>0 DEF Tree, Reached
      <4>2. s # root' => \E u, j : Inner(new, u, j)' /\ tables'[u][j] = s
        <5> SUFFICES ASSUME s # root'  PROVE \E u, j : Inner(new, u, j)' /\ tables'[u][j] = s
          OBVIOUS
        <5>1. PICK u, j : Inner(lvl, u, j) /\ tables[u][j] = s
          BY <4>1
        <5>2. Inner(new, u, j)'
          BY <5>1, <1>4
        <5>3. tables'[u][j] = s
          BY <5>1, <1>5
        <5> QED  BY <5>2, <5>3
      <4>3. \A j \in DOMAIN tables'[s] : tables'[s][j] \in Nat \cup {Absent}
        <5>1. DOMAIN tables'[s] = DOMAIN tables[s] /\ \A j \in DOMAIN tables[s] : tables[s][j] \in Nat \cup {Absent}
          BY <1>1, <4>0 DEF Tree, Levelled
        <5> SUFFICES ASSUME NEW j \in DOMAIN tables[s]  PROVE tables'[s][j] \in Nat \cup {Absent}
          BY <5>1
        <5>2. tables'[s][j] = f \/ tables'[s][j] = tables[s][j]
          BY <1>1, <4>0
        <5> QED  BY <5>1, <5>2
      <4>4. (new[s] = 1 <=> s = root') /\ DOMAIN tables'[s] = 0 .. Fanout[new[s]] - 1
        BY <1>1, <4>0 DEF Tree, Levelled
      <4> QED  BY <4>2, <4>3, <4>4
    <3> QED  BY <3>1, <3>2
  <2>2. ASSUME NEW s, NEW j, Inner(new, s, j)'
        PROVE  tables'[s][j] \in DOMAIN tables' /\ new[tables'[s][j]] = new[s] + 1
    <3>1. CASE Inner(lvl, s, j)
      <4>1. s \in DOMAIN tables /\ tables[s][j] \in DOMAIN tables /\ lvl[tables[s][j]] = lvl[s] + 1
        <5>1. s \in DOMAIN tables
          BY <3>1 DEF Inner
        <5> QED  BY <3>1, <5>1 DEF Tree, Downward
      <4> DEFINE w == tables[s][j]
      <4>2. tables'[s][j] = w
        BY <1>5, <3>1
      <4> HIDE DEF w
      <4>3. w \in DOMAIN tables' /\ new[w] = lvl[w] /\ new[s] = lvl[s] /\ lvl[w] = lvl[s] + 1
        BY <1>1, <1>3, <4>1 DEF w
      <4> QED  BY <4>2, <4>3
    <3>2. CASE s = t /\ j = i
      BY <1>1, <1>3, <1>5, <3>2 DEF m
    <3> QED  BY <1>4, <2>2, <3>1, <3>2
  <2>3. ASSUME NEW r, NEW s, NEW k, NEW j, Inner(new, r, k)', Inner(new, s, j)', tables'[r][k] = tables'[s][j]
        PROVE  r = s /\ k = j
    <3>1. \A u, n : Inner(lvl, u, n) => tables'[u][n] # f /\ tables[u][n] # f
      <4>1. \A u, n : Inner(lvl, u, n) => tables[u][n] \in DOMAIN tables
        BY DEF Tree, Downward
      <4>2. \A u, n : Inner(lvl, u, n) => tables'[u][n] = tables[u][n]
        BY <1>5
      <4>3. ASSUME NEW u, NEW n, Inner(lvl, u, n)  PROVE tables'[u][n] # f /\ tables[u][n] # f
        <5>1. tables[u][n] \in DOMAIN tables /\ tables'[u][n] = tables[u][n]
          BY <4>1, <4>2, <4>3
        <5> QED  BY ONLY <5>1, f \notin DOMAIN tables
      <4> QED  BY <4>3
    <3>2. CASE Inner(lvl, r, k) /\ Inner(lvl, s, j)
      <4>1. tables[r][k] = tables[s][j]
        BY <1>5, <2>3, <3>2
      <4> QED  BY <3>2, <4>1 DEF Tree, Single
    <3>3. CASE ~(Inner(lvl, r, k) /\ Inner(lvl, s, j))
      <4>1. (Inner(lvl, r, k) \/ (r = t /\ k = i)) /\ (Inner(lvl, s, j) \/ (s = t /\ j = i))
        BY <1>4, <2>3
      <4>2. r = t /\ k = i => tables'[r][k] = f
        BY <1>5
      <4>3. s = t /\ j = i => tables'[s][j] = f
        BY <1>5
      <4> QED  BY <2>3, <3>1, <3>3, <4>1, <4>2, <4>3
    <3> QED  BY <3>2, <3>3
  <2>4. DOMAIN tables' \subseteq Nat
    BY <1>1 DEF Tree, Levelled
  <2>5. new \in [DOMAIN tables' -> 1 .. 4]
    BY <1>3
  <2>6. Levelled(new)' /\ Reached(new)'
    <3>1. Levelled(new)'
      BY <2>1, <2>4, <2>5 DEF Levelled
    <3>2. Reached(new)'
      BY <2>1 DEF Reached
    <3> QED  BY <3>1, <3>2
  <2>7. Downward(new)'
    BY <2>2 DEF Downward
  <2>8. Single(new)'
    BY <2>3 DEF Single
  <2> QED  BY <2>6, <2>7, <2>8 DEF Tree
<1>7. ASSUME NEW v \in Pages
      PROVE  /\ \A l \in 1 .. 4 : Walk(v, l) # Absent => Walk(v, l)' = Walk(v, l)
             /\ vmm_virt_to_phys(v)' = vmm_virt_to_phys(v)
  <2> DEFINE Same(l) == Walk(v, l)' = Walk(v, l) \/ (Walk(v, l) = Absent /\ Walk(v, l)' = f /\ l = m)
             Goes(l) == \/ Step(Walk(v, l), v, l)' = Step(Walk(v, l), v, l)
                        \/ Step(Walk(v, l), v, l) = Absent /\ Step(Walk(v, l), v, l)' = f /\ l + 1 = m
  <2>1. ASSUME NEW l \in 1 .. 4, Same(l)  PROVE Goes(l)
    <3> DEFINE a == Walk(v, l)
               b == Walk(v, l)'
               k == Index(v, l)
    <3>1. /\ Step(Walk(v, l), v, l)' = IF b = Absent THEN Absent ELSE tables'[b][k]
          /\ Step(Walk(v, l), v, l) = IF a = Absent THEN Absent ELSE tables[a][k]
      BY DEF Step
    <3>2. k \in 0 .. Fanout[l] - 1
      BY IndexInTable DEF Pages
    <3>3. a # Absent => a \in DOMAIN tables /\ lvl[a] = l /\ k \in DOMAIN tables[a]
      BY WalkTypes
    <3>4. b = a \/ (a = Absent /\ b = f /\ l = m)
      BY <2>1
    <3> HIDE DEF a, b, k
    <3>5. CASE a # Absent /\ a = t /\ k = i
      <4>1. tables'[b][k] = f /\ tables[a][k] = Absent /\ b # Absent
        BY <1>5, <3>4, <3>5
      <4>2. l + 1 = m
        BY <3>3, <3>5 DEF m
      <4> QED  BY <3>1, <3>5, <4>1, <4>2
    <3>6. CASE a # Absent /\ ~(a = t /\ k = i)
      <4>1. tables'[a][k] = tables[a][k] /\ b = a
        BY <1>1, <3>3, <3>4, <3>6
      <4> QED  BY <3>1, <4>1
    <3>7. CASE a = Absent /\ b = a
      BY <3>1, <3>7
    <3>8. CASE a = Absent /\ b = f /\ l = m
      <4>1. tables'[b][k] = Absent
        BY <1>1, <1>2, <3>2, <3>8
      <4> QED  BY <3>1, <3>8, <4>1
    <3> QED  BY <3>4, <3>5, <3>6, <3>7, <3>8
  <2>2. ASSUME NEW l \in 1 .. 3, Same(l)  PROVE Same(l + 1)
    <3>1. Walk(v, l + 1)' = Step(Walk(v, l), v, l)' /\ Walk(v, l + 1) = Step(Walk(v, l), v, l)
      BY WalkStep, WalkStepNext
    <3>2. Goes(l)
      BY <2>1, <2>2
    <3> QED  BY <3>1, <3>2
  <2>3. Same(1)
    BY WalkStep, WalkStepNext
  <2>4. Same(2)
    BY <2>2, <2>3
  <2>5. Same(3)
    BY <2>2, <2>4
  <2>6. Same(4)
    BY <2>2, <2>5
  <2>7. \A l \in 1 .. 4 : Walk(v, l) # Absent => Walk(v, l)' = Walk(v, l)
    <3> TAKE l \in 1 .. 4
    <3>1. l = 1 \/ l = 2 \/ l = 3 \/ l = 4
      OBVIOUS
    <3> QED  BY <2>3, <2>4, <2>5, <2>6, <3>1
  <2>8. vmm_virt_to_phys(v)' = Step(Walk(v, 4), v, 4)' /\ vmm_virt_to_phys(v) = Step(Walk(v, 4), v, 4)
    BY WalkStep, WalkStepNext
  <2>9. Goes(4)
    BY <2>1, <2>6
  <2> QED  BY <1>0, <2>7, <2>8, <2>9
<1> QED  BY <1>1, <1>5, <1>6, <1>7

-----------------------------------------------------------------------------
(* The invariant, part by part. *)

StageOK ==
    /\ stage \in {"pmm", "root", "map", "heap", "running", "faulted"}
    /\ stage # "pmm" => pass = "done"
    /\ stage \in {"pmm", "root"} => root = 0 /\ owned = {} /\ DOMAIN wanted = {}
    /\ stage \in {"pmm", "root", "map"} => heap_frames = <<>>
    /\ stage # "running" => client = {} /\ heap_head = 0
    /\ stage = "map" => root # 0
    /\ stage \in {"heap", "running", "faulted"} /\ root = 0 => FreeFrames = {} /\ owned = {}
    /\ heap_head \in {0, HeapVirt}

TreeOK ==
    /\ root = 0 => DOMAIN tables = {}
    /\ root # 0 => root \in DOMAIN tables /\ \E lvl : Tree(lvl)

\* What is handed out is a table, a heap page or a later caller's.
OwnsOK ==
    /\ heap_frames \in Seq(Nat)
    /\ owned = DOMAIN tables \cup Range(heap_frames) \cup client
    /\ DOMAIN tables \cap (Range(heap_frames) \cup client) = {}
    /\ Range(heap_frames) \cap client = {}
    /\ IsInjective(heap_frames)
    /\ Cardinality(Range(heap_frames)) = Len(heap_frames)

\* A call in progress is on its way to its page's leaf table.
Caller(v, p) ==
    /\ stage = "map" => \E m \in BootMap(memmap) : m.virt = v /\ m.phys = p
    /\ stage = "heap" => /\ Len(heap_frames) > 0 /\ v = HeapVirt + Len(heap_frames) - 1
                         /\ p = heap_frames[Len(heap_frames)]
    /\ stage = "running" => v \in ClientVirt
Calling(l, v, p) ==
    /\ stage \in {"map", "heap", "running"} /\ root # 0
    /\ call = [level |-> l, table |-> Walk(v, l), virt |-> v, phys |-> p]
    /\ Walk(v, l) # Absent
    /\ Caller(v, p)
CallOK == call = NoCall \/ \E l \in 1 .. 4, v \in Pages, p \in Nat : Calling(l, v, p)

Translated(v) == IF v \in DOMAIN wanted THEN wanted[v] ELSE Absent
MappedOK ==
    /\ DOMAIN wanted \subseteq Pages
    /\ \A v \in DOMAIN wanted : wanted[v] \in Nat \cup {Absent}
    /\ root # 0 => \A v \in Pages : vmm_virt_to_phys(v) = Translated(v)

\* The boot maps are still queued, being made, made, or given up.
Maps(v, p) == v \in DOMAIN wanted /\ wanted[v] = p
BootOK ==
    /\ stage = "map" =>
        /\ queue \subseteq BootMap(memmap)
        /\ \A m \in BootMap(memmap) :
            m \in queue \/ (call # NoCall /\ call.virt = m.virt) \/ Maps(m.virt, m.phys) \/ m.virt \in dropped
    /\ stage \in {"heap", "running"} /\ root # 0 => \A m \in BootMap(memmap) : Maps(m.virt, m.phys)

\* Only the last page of the heap so far may lack its mapping: while its call
\* is in progress, or when that call gave up and no page can follow.
Backed(k) == Maps(HeapVirt + k - 1, heap_frames[k])
Unbacked(k) == k = Len(heap_frames) /\ (call # NoCall \/ (k < HeapPages /\ FreeFrames = {}))
HeapOK ==
    /\ Len(heap_frames) <= HeapPages
    /\ stage = "heap" => \A k \in 1 .. Len(heap_frames) : Backed(k) \/ Unbacked(k)
    /\ heap_head # 0 => Len(heap_frames) = HeapPages /\ \A k \in 1 .. HeapPages : Backed(k)

VmmInv ==
    PmmInv /\ StageOK /\ TreeOK /\ OwnsOK /\ CallOK /\ MappedOK /\ BootOK /\ HeapOK

-----------------------------------------------------------------------------
(* Facts that many steps need. *)

LEMMA Spaces ==
    /\ ClientVirt \subseteq Pages /\ HeapRange \subseteq Pages /\ HeapRange \cap ClientVirt = {}
    /\ HeapVirt \in Nat \ {0} /\ HeapPages \in Nat /\ HeapPages >= 2
    /\ \A k \in 1 .. HeapPages : HeapVirt + k - 1 \in HeapRange
    /\ \A v \in Pages : v \in Nat
<1>1. HeapVirt \in Nat \ {0} /\ HeapPages \in Nat /\ HeapPages >= 2
  BY VmmAssumption
<1>2. \A k \in 1 .. HeapPages : HeapVirt + k - 1 \in HeapRange
  BY <1>1 DEF HeapRange
<1>3. \A v \in Pages : v \in Nat
  BY DEF Pages
<1>4. ClientVirt \subseteq Pages /\ HeapRange \subseteq Pages /\ HeapRange \cap ClientVirt = {}
  BY VmmAssumption
<1> QED  BY <1>1, <1>2, <1>3, <1>4

\* The maps made at boot: no page has two, and the heap and the later callers
\* have others.
LEMMA BootPages ==
    ASSUME NEW mm \in Memmaps, NEW m \in BootMap(mm)
    PROVE  /\ m.virt \in Pages /\ m.virt \notin HeapRange /\ m.virt \notin ClientVirt
           /\ m.phys \in Nat /\ m.turn \in Nat
           /\ \A n \in BootMap(mm) : n.virt = m.virt => n.phys = m.phys
<1>1. m.virt \in Pages /\ m.virt \notin HeapRange /\ m.virt \notin ClientVirt
  BY VmmAssumption
<1>2. mm \in Seq(Entry) /\ PAGE_SIZE \in Nat \ {0}
  BY PmmAssumption
<1>3. ASSUME NEW n \in DirectMap(mm)
      PROVE  n.phys \in Nat /\ n.turn \in Nat /\ n.virt = HhdmBase + n.phys
  <2>1. PICK i \in DOMAIN mm : n \in {MapOf(i, HhdmBase + phys, phys) : phys \in MappedFrames(mm[i])}
    BY <1>3 DEF DirectMap
  <2>2. PICK phys \in MappedFrames(mm[i]) : n = MapOf(i, HhdmBase + phys, phys)
    BY <2>1
  <2>3. i \in Nat /\ mm[i].base \in Nat
    <3>1. mm[i] \in Entry /\ i \in Nat
      BY <1>2
    <3> QED  BY <3>1 DEF Entry
  <2>4. mm[i].base \div PAGE_SIZE \in Nat
    BY <1>2, <2>3, DivMod
  <2>5. phys \in Nat
    BY <2>2, <2>4 DEF MappedFrames
  <2> QED  BY <2>2, <2>3, <2>5 DEF MapOf
<1>4. ASSUME NEW n \in KernelMap(mm)
      PROVE  n.phys \in Nat /\ n.turn \in Nat /\ n.virt = KernelVirt + (n.phys - KernelPhys)
  <2>1. PICK k \in 0 .. KernelPages - 1 : n = MapOf(Len(mm) + 1, KernelVirt + k, KernelPhys + k)
    BY <1>4 DEF KernelMap
  <2>2. Len(mm) \in Nat /\ KernelVirt \in Nat /\ KernelPhys \in Nat
    BY <1>2, VmmAssumption
  <2> QED  BY <2>1, <2>2 DEF MapOf
<1>5. HhdmBase \in Nat /\ KernelVirt \in Nat /\ KernelPhys \in Nat
  BY VmmAssumption
<1>6. ASSUME NEW n \in BootMap(mm), n.virt = m.virt  PROVE n.phys = m.phys
  <2>1. CASE n \in DirectMap(mm) /\ m \in DirectMap(mm)
    BY <1>3, <1>5, <1>6, <2>1
  <2>2. CASE n \in KernelMap(mm) /\ m \in KernelMap(mm)
    BY <1>4, <1>5, <1>6, <2>2
  <2>3. ~(n \in DirectMap(mm) /\ m \in KernelMap(mm)) /\ ~(n \in KernelMap(mm) /\ m \in DirectMap(mm))
    BY <1>6, VmmAssumption
  <2> QED  BY <2>1, <2>2, <2>3 DEF BootMap
<1> QED  BY <1>1, <1>3, <1>4, <1>6 DEF BootMap

\* The frame pmm_alloc_page hands out is no one's and not frame 0.
LEMMA Allocated ==
    ASSUME PmmInv, pmm_alloc_page
    PROVE  /\ FirstFree \in Nat \ {0} /\ FirstFree \notin owned /\ owned' = owned \cup {FirstFree}
           /\ memmap' = memmap /\ pass' = "done" /\ FreeFrames # {}
<1>1. /\ memmap \in Memmaps /\ memmap' = memmap /\ pass = "done" /\ pass' = "done"
      /\ FreeFrames = Usable \ (BitmapPages \cup owned) /\ FreeFrames # {}
      /\ owned' = owned \cup {FirstFree}
  BY DEF PmmInv, PmmTypeOK, pmm_alloc_page, InUse
<1>2. FirstFree \in FreeFrames /\ FirstFree \in Nat
  BY <1>1, FreeFinite, MinOfNats DEF FirstFree
<1>3. 0 \notin Usable
  BY <1>1, PmmAssumption DEF Usable
<1> QED  BY <1>1, <1>2, <1>3

LEMMA TablesAreNats ==
    ASSUME PmmInv, OwnsOK
    PROVE  DOMAIN tables \subseteq owned /\ owned \subseteq Nat
BY DEF PmmInv, PmmTypeOK, OwnsOK

LEMMA SameTables ==
    ASSUME root' = root, tables' = tables
    PROVE  /\ TreeOK' = TreeOK
           /\ \A v, l : Walk(v, l)' = Walk(v, l)
           /\ \A v : vmm_virt_to_phys(v)' = vmm_virt_to_phys(v)
<1>1. \A t, v, l : Step(t, v, l)' = Step(t, v, l)
  BY DEF Step
<1>2. \A v : LeafTable(v)' = LeafTable(v)
  BY DEF LeafTable, Step
<1>3. \A v, l : Walk(v, l)' = Walk(v, l)
  BY <1>2 DEF Walk, Step
<1>4. \A v : vmm_virt_to_phys(v)' = vmm_virt_to_phys(v)
  BY <1>2 DEF vmm_virt_to_phys, Step
<1>5. \A lvl : Tree(lvl)' = Tree(lvl)
  BY DEF Tree, Levelled, Reached, Downward, Single, Inner
<1>6. TreeOK' = TreeOK
  BY <1>5 DEF TreeOK
<1> QED  BY <1>3, <1>4, <1>6

LEMMA SameMaps ==
    ASSUME root' = root, wanted' = wanted, MappedOK,
           root # 0 => \A v \in Pages : vmm_virt_to_phys(v)' = vmm_virt_to_phys(v)
    PROVE  MappedOK' /\ \A v, p : Maps(v, p)' = Maps(v, p)
<1>1. \A v : Translated(v)' = Translated(v)
  BY DEF Translated
<1>2. root # 0 => \A v \in Pages : vmm_virt_to_phys(v)' = Translated(v)'
  BY <1>1 DEF MappedOK
<1> QED  BY <1>2 DEF MappedOK, Maps

LEMMA SameFree ==
    ASSUME memmap' = memmap, bitmap' = bitmap
    PROVE  FreeFrames' = FreeFrames
BY SameMap DEF FreeFrames

-----------------------------------------------------------------------------
(* Every step preserves the invariant. *)

LEMMA VmmInitInv == Init => VmmInv
<1> SUFFICES ASSUME Init  PROVE VmmInv
  OBVIOUS
<1>1. /\ PmmInit /\ stage = "pmm" /\ root = 0 /\ DOMAIN tables = {} /\ call = NoCall
      /\ heap_frames = <<>> /\ heap_head = 0 /\ client = {} /\ DOMAIN wanted = {} /\ owned = {}
  BY DEF Init, PmmInit
<1>2. PmmInv
  BY <1>1, PmmInitInv
<1>3. OwnsOK
  <2>1. Range(heap_frames) = {}
    BY <1>1 DEF Range
  <2>2. Cardinality({}) = 0
    BY FS_EmptySet
  <2> QED  BY <1>1, <2>1, <2>2 DEF OwnsOK, IsInjective
<1>4. StageOK /\ TreeOK /\ CallOK /\ MappedOK
  BY <1>1 DEF StageOK, TreeOK, CallOK, MappedOK
<1>5. BootOK
  BY <1>1 DEF BootOK
<1>6. HeapOK
  BY <1>1, Spaces DEF HeapOK
<1> QED  BY <1>2, <1>3, <1>4, <1>5, <1>6 DEF VmmInv

\* Everything but PmmInv, whose step is proved once for all actions.
Parts == StageOK /\ TreeOK /\ OwnsOK /\ CallOK /\ MappedOK /\ BootOK /\ HeapOK

LEMMA PmmStepParts == VmmInv /\ PmmStep => Parts'
<1> SUFFICES ASSUME VmmInv, PmmStep  PROVE Parts'
  OBVIOUS
<1>1. /\ stage = "pmm" /\ stage' = IF pass' = "done" THEN "root" ELSE stage
      /\ UNCHANGED <<root, tables, queue, call, heap_frames, heap_head, client, wanted, dropped>>
      /\ owned' = owned
  BY DEF PmmStep, PlaceBitmap, FreeUsablePage, ClaimBitmapPage
<1>2. StageOK /\ TreeOK /\ OwnsOK /\ CallOK /\ MappedOK /\ HeapOK
  BY DEF VmmInv
<1>3. call = NoCall /\ root = 0 /\ heap_head = 0 /\ heap_frames = <<>>
  BY <1>1, <1>2 DEF CallOK, Calling, StageOK
<1>4. StageOK'
  BY <1>1, <1>2 DEF StageOK
<1>5. TreeOK'
  BY <1>1, <1>2, SameTables
<1>6. OwnsOK'
  BY <1>1, <1>2 DEF OwnsOK
<1>7. CallOK' /\ BootOK'
  BY <1>1, <1>3 DEF CallOK, BootOK
<1>8. MappedOK'
  BY <1>1, <1>2, <1>3, SameTables, SameMaps
<1>9. HeapOK'
  BY <1>1, <1>3, Spaces DEF HeapOK
<1> QED  BY <1>4, <1>5, <1>6, <1>7, <1>8, <1>9 DEF Parts

\* The table of the root: every page translates to nothing.
LEMMA RootTable ==
    ASSUME NEW f \in Nat, f # 0, root' = f, DOMAIN tables = {},
           tables' = With(tables, f, EmptyTable(1))
    PROVE  /\ TreeOK' /\ DOMAIN tables' = {f}
           /\ \A v \in Pages : vmm_virt_to_phys(v)' = Absent
<1>1. DOMAIN tables' = {f} /\ tables'[f] = EmptyTable(1)
  BY DEF With
<1>2. DOMAIN EmptyTable(1) = 0 .. Fanout[1] - 1 /\ \A j \in 0 .. Fanout[1] - 1 : EmptyTable(1)[j] = Absent
  BY DEF EmptyTable
<1>3. PICK new : new = [s \in {f} |-> 1]
  OBVIOUS
<1>4. \A s, j : ~Inner(new, s, j)'
  BY <1>1, <1>2 DEF Inner
<1>5. Levelled(new)'
  <2>1. new \in [DOMAIN tables' -> 1 .. 4] /\ DOMAIN tables' \subseteq Nat
    BY <1>1, <1>3
  <2>2. ASSUME NEW t \in DOMAIN tables'
        PROVE  /\ new[t] = 1 <=> t = root'
               /\ DOMAIN tables'[t] = 0 .. Fanout[new[t]] - 1
               /\ \A i \in DOMAIN tables'[t] : tables'[t][i] \in Nat \cup {Absent}
    BY <1>1, <1>2, <1>3
  <2> QED  BY <2>1, <2>2 DEF Levelled
<1>6. Reached(new)'
  BY <1>1 DEF Reached
<1>7. Downward(new)' /\ Single(new)'
  BY <1>4 DEF Downward, Single
<1>8. TreeOK'
  BY <1>1, <1>5, <1>6, <1>7 DEF TreeOK, Tree
<1>9. ASSUME NEW v \in Pages  PROVE vmm_virt_to_phys(v)' = Absent
  <2>1. Step(root, v, 1)' = Absent
    <3>1. Index(v, 1) \in 0 .. Fanout[1] - 1
      <4>1. 1 \in 1 .. 4 /\ v \in Nat
        BY Spaces
      <4> QED  BY <4>1, IndexInTable
    <3> QED  BY <1>1, <1>2, <3>1 DEF Step, Absent
  <2>2. LeafTable(v)' = Absent
    BY <2>1 DEF LeafTable, Step
  <2> QED  BY <2>2 DEF vmm_virt_to_phys, Step
<1> QED  BY <1>1, <1>8, <1>9

LEMMA VmmInitParts == VmmInv /\ vmm_init => Parts'
<1> SUFFICES ASSUME VmmInv, vmm_init  PROVE Parts'
  OBVIOUS
<1>1. /\ stage = "root" /\ UNCHANGED <<call, heap_frames, heap_head, client, wanted, dropped>>
      /\ memmap' = memmap
  BY DEF vmm_init, pmm_alloc_page, pmmVars
<1>2. PmmInv /\ StageOK /\ TreeOK /\ OwnsOK /\ CallOK /\ MappedOK /\ HeapOK
  BY DEF VmmInv
<1>3. /\ call = NoCall /\ root = 0 /\ heap_head = 0 /\ heap_frames = <<>> /\ client = {}
      /\ DOMAIN wanted = {} /\ owned = {} /\ DOMAIN tables = {} /\ pass = "done"
  BY <1>1, <1>2 DEF CallOK, Calling, StageOK, TreeOK
<1>4. CallOK'
  BY <1>1, <1>3 DEF CallOK
<1>5. HeapOK'
  BY <1>1, <1>3, Spaces DEF HeapOK
<1>6. CASE FreeFrames = {}
  <2>1. stage' = "heap" /\ UNCHANGED <<pmmVars, root, tables, queue>>
    BY <1>6 DEF vmm_init
  <2>2. bitmap' = bitmap /\ owned' = owned /\ pass' = pass
    BY <2>1 DEF pmmVars
  <2>3. FreeFrames' = {}
    BY <1>1, <1>6, <2>2, SameFree
  <2>4. StageOK'
    BY <1>1, <1>3, <2>1, <2>2, <2>3 DEF StageOK
  <2>5. TreeOK'
    BY <1>2, <2>1, SameTables
  <2>6. OwnsOK'
    BY <1>1, <1>2, <2>1, <2>2 DEF OwnsOK
  <2>7. MappedOK'
    BY <1>1, <1>2, <1>3, <2>1 DEF MappedOK
  <2>8. BootOK'
    BY <1>3, <2>1 DEF BootOK
  <2> QED  BY <1>4, <1>5, <2>4, <2>5, <2>6, <2>7, <2>8 DEF Parts
<1>7. CASE FreeFrames # {}
  <2>1. /\ stage' = "map" /\ pmm_alloc_page /\ root' = FirstFree /\ queue' = BootMap(memmap)
        /\ tables' = With(tables, FirstFree, EmptyTable(1))
    BY <1>7 DEF vmm_init
  <2>2. /\ FirstFree \in Nat \ {0} /\ FirstFree \notin owned /\ owned' = owned \cup {FirstFree}
        /\ pass' = "done"
    BY <1>2, <2>1, Allocated
  <2>3. TreeOK' /\ DOMAIN tables' = {FirstFree} /\ \A v \in Pages : vmm_virt_to_phys(v)' = Absent
    <3> DEFINE f == FirstFree
    <3>1. f \in Nat /\ f # 0 /\ root' = f /\ tables' = With(tables, f, EmptyTable(1))
      BY <2>1, <2>2
    <3> HIDE DEF f
    <3>2. TreeOK' /\ DOMAIN tables' = {f} /\ \A v \in Pages : vmm_virt_to_phys(v)' = Absent
      BY <1>3, <3>1, RootTable
    <3> QED  BY <3>2 DEF f
  <2>4. StageOK'
    BY <1>1, <1>3, <2>1, <2>2 DEF StageOK
  <2>5. OwnsOK'
    <3>1. Range(heap_frames) = {}
      BY <1>3 DEF Range
    <3>2. Range(heap_frames)' = {}
      BY <1>1, <1>3 DEF Range
    <3> QED  BY <1>1, <1>2, <1>3, <2>2, <2>3, <3>1, <3>2 DEF OwnsOK, IsInjective
  <2>6. MappedOK'
    BY <1>1, <1>3, <2>3 DEF MappedOK, Translated
  <2>7. BootOK'
    BY <1>1, <2>1 DEF BootOK
  <2> QED  BY <1>4, <1>5, <2>3, <2>4, <2>5, <2>6, <2>7 DEF Parts
<1> QED  BY <1>6, <1>7

\* The queue has a first call: least turn, and of those least frame.
LEMMA FirstQueued ==
    ASSUME NEW q, q # {}, \A m \in q : m.turn \in Nat /\ m.phys \in Nat
    PROVE  (CHOOSE x \in q : \A y \in q : Before(x, y)) \in q
<1>1. PICK a \in {m.turn : m \in q} : \A b \in {m.turn : m \in q} : a <= b
  <2>1. {m.turn : m \in q} \subseteq Nat /\ {m.turn : m \in q} # {}
    OBVIOUS
  <2> QED  BY <2>1, NatHasMin
<1>2. PICK c \in {m.phys : m \in {n \in q : n.turn = a}} :
        \A b \in {m.phys : m \in {n \in q : n.turn = a}} : c <= b
  <2>1. {m.phys : m \in {n \in q : n.turn = a}} \subseteq Nat /\ {m.phys : m \in {n \in q : n.turn = a}} # {}
    BY <1>1
  <2> QED  BY <2>1, NatHasMin
<1>3. PICK x \in q : x.turn = a /\ x.phys = c
  BY <1>2
<1>4. ASSUME NEW y \in q  PROVE Before(x, y)
  <2>1. a <= y.turn /\ a \in Nat /\ y.turn \in Nat
    BY <1>1
  <2>2. y.turn = a => c <= y.phys
    BY <1>2
  <2> QED  BY <1>3, <2>1, <2>2 DEF Before
<1> QED  BY <1>3, <1>4

\* A call that enters at the root.
LEMMA CallStarts ==
    ASSUME NEW v \in Pages, NEW p \in Nat, root' = root, root # 0, TreeOK, PmmInv, OwnsOK,
           call' = MapCall(v, p), stage' \in {"map", "heap", "running"}, Caller(v, p)'
    PROVE  CallOK' /\ call' # NoCall /\ call'.virt = v
<1>1. call' = [level |-> 1, table |-> root, virt |-> v, phys |-> p]
  BY DEF MapCall
<1>2. Walk(v, 1)' = root /\ root # Absent
  BY WalkStepNext, TablesAreNats DEF TreeOK, Absent
<1>3. Calling(1, v, p)'
  BY <1>1, <1>2 DEF Calling
<1>4. call' # NoCall
  BY <1>1 DEF NoCall
<1> QED  BY <1>1, <1>3, <1>4 DEF CallOK

LEMMA MapQueuedParts == VmmInv /\ MapQueued => Parts'
<1> SUFFICES ASSUME VmmInv, MapQueued  PROVE Parts'
  OBVIOUS
<1> DEFINE m == CHOOSE x \in queue : \A y \in queue : Before(x, y)
<1>1. /\ stage = "map" /\ stage' = "map" /\ call = NoCall /\ queue # {}
      /\ call' = MapCall(m.virt, m.phys) /\ queue' = queue \ {m}
      /\ UNCHANGED <<root, tables, heap_frames, heap_head, client, wanted, dropped>>
      /\ memmap' = memmap /\ owned' = owned /\ pass' = pass
  BY DEF MapQueued, pmmVars
<1>2. PmmInv /\ StageOK /\ TreeOK /\ OwnsOK /\ MappedOK /\ BootOK /\ HeapOK
  BY DEF VmmInv
<1>3. memmap \in Memmaps /\ queue \subseteq BootMap(memmap)
  BY <1>1, <1>2 DEF PmmInv, PmmTypeOK, BootOK
<1>4. m \in queue
  <2>1. \A x \in queue : x.turn \in Nat /\ x.phys \in Nat
    BY <1>3, BootPages
  <2> QED  BY <1>1, <2>1, FirstQueued
<1> HIDE DEF m
<1>5. m \in BootMap(memmap) /\ m.virt \in Pages /\ m.phys \in Nat
  BY <1>3, <1>4, BootPages
<1>6. StageOK' /\ root # 0
  BY <1>1, <1>2 DEF StageOK
<1>7. TreeOK'
  BY <1>1, <1>2, SameTables
<1>8. OwnsOK'
  BY <1>1, <1>2 DEF OwnsOK
<1>9. CallOK' /\ call' # NoCall /\ call'.virt = m.virt
  <2> DEFINE v == m.virt
             p == m.phys
  <2>1. v \in Pages /\ p \in Nat /\ call' = MapCall(v, p) /\ \E n \in BootMap(memmap) : n.virt = v /\ n.phys = p
    BY <1>1, <1>5
  <2> HIDE DEF v, p
  <2>2. PICK w \in Pages, z \in Nat : w = v /\ z = p
    BY <2>1
  <2>3. Caller(w, z)'
    BY <1>1, <2>1, <2>2 DEF Caller
  <2>4. CallOK' /\ call' # NoCall /\ call'.virt = w
    BY <1>1, <1>2, <1>6, <2>1, <2>2, <2>3, CallStarts
  <2> QED  BY <2>2, <2>4 DEF v
<1>10. MappedOK' /\ \A v, p : Maps(v, p)' = Maps(v, p)
  BY <1>1, <1>2, SameTables, SameMaps
<1>11. BootOK'
  <2>1. ASSUME NEW n \in BootMap(memmap)
        PROVE  n \in queue' \/ (call' # NoCall /\ call'.virt = n.virt) \/ Maps(n.virt, n.phys) \/ n.virt \in dropped
    BY <1>1, <1>2, <1>9 DEF BootOK
  <2>2. ASSUME NEW n \in BootMap(memmap)
        PROVE  Maps(n.virt, n.phys) = Maps(n.virt, n.phys)'
    <3>1. PICK v, p : v = n.virt /\ p = n.phys
      OBVIOUS
    <3> QED  BY <1>1, <1>10 DEF Maps
  <2> QED  BY <1>1, <1>3, <2>1, <2>2 DEF BootOK
<1>12. HeapOK'
  <2>1. heap_frames = <<>> /\ heap_head = 0
    BY <1>1, <1>2 DEF StageOK
  <2> QED  BY <1>1, <2>1, Spaces DEF HeapOK
<1> QED  BY <1>6, <1>7, <1>8, <1>9, <1>10, <1>11, <1>12 DEF Parts

LEMMA VmmLoadParts == VmmInv /\ vmm_load => Parts'
<1> SUFFICES ASSUME VmmInv, vmm_load  PROVE Parts'
  OBVIOUS
<1>1. /\ stage = "map" /\ call = NoCall /\ queue = {}
      /\ stage' = IF dropped = {} THEN "heap" ELSE "faulted"
      /\ UNCHANGED <<root, tables, queue, call, heap_frames, heap_head, client, wanted, dropped>>
      /\ memmap' = memmap /\ owned' = owned /\ pass' = pass
  BY DEF vmm_load, pmmVars
<1>2. StageOK /\ TreeOK /\ OwnsOK /\ MappedOK /\ BootOK /\ HeapOK
  BY DEF VmmInv
<1>3. root # 0 /\ heap_frames = <<>> /\ heap_head = 0
  BY <1>1, <1>2 DEF StageOK
<1>4. StageOK'
  BY <1>1, <1>2, <1>3 DEF StageOK
<1>5. TreeOK' /\ OwnsOK' /\ CallOK'
  BY <1>1, <1>2, SameTables DEF OwnsOK, CallOK
<1>6. MappedOK'
  BY <1>1, <1>2, SameTables, SameMaps
<1>7. BootOK'
  <2>1. stage' = "heap" => \A n \in BootMap(memmap) : Maps(n.virt, n.phys)
    BY <1>1, <1>2 DEF BootOK
  <2> QED  BY <1>1, <2>1 DEF BootOK, Maps
<1>8. HeapOK'
  BY <1>1, <1>3, Spaces DEF HeapOK
<1> QED  BY <1>4, <1>5, <1>6, <1>7, <1>8 DEF Parts

\* Where a call in progress is.
LEMMA InCall ==
    ASSUME CallOK, call.level \in 1 .. 4
    PROVE  \E l \in 1 .. 4, v \in Pages, p \in Nat : Calling(l, v, p) /\ l = call.level
<1>1. call # NoCall
  BY DEF NoCall
<1>2. PICK l \in 1 .. 4, v \in Pages, p \in Nat : Calling(l, v, p)
  BY <1>1 DEF CallOK
<1>3. l = call.level
  BY <1>2 DEF Calling
<1> QED  BY <1>2, <1>3

LEMMA CallFields ==
    ASSUME NEW l \in 1 .. 4, NEW v \in Pages, NEW p \in Nat, Calling(l, v, p)
    PROVE  /\ call # NoCall /\ call.level = l /\ call.table = Walk(v, l) /\ call.virt = v /\ call.phys = p
           /\ Slot = Index(v, l) /\ SlotEntry = Step(Walk(v, l), v, l)
           /\ l \in 1 .. 3 => SlotEntry = Walk(v, l + 1)
           /\ \A t : Descend(t) = [level |-> l + 1, table |-> t, virt |-> v, phys |-> p]
<1>1. call = [level |-> l, table |-> Walk(v, l), virt |-> v, phys |-> p] /\ Walk(v, l) # Absent
  BY DEF Calling
<1>2. call.level = l /\ call.table = Walk(v, l) /\ call.virt = v /\ call.phys = p
  BY <1>1
<1>3. call # NoCall
  BY <1>2 DEF NoCall
<1>4. Slot = Index(v, l)
  BY <1>2 DEF Slot
<1>5. SlotEntry = Step(Walk(v, l), v, l)
  BY <1>1, <1>2, <1>4 DEF SlotEntry, Step
<1>6. l \in 1 .. 3 => SlotEntry = Walk(v, l + 1)
  BY <1>5, WalkStep
<1>7. \A t : Descend(t) = [level |-> l + 1, table |-> t, virt |-> v, phys |-> p]
  <2> TAKE t
  <2>1. Descend(t) = [[call EXCEPT !.level = @ + 1] EXCEPT !.table = t]
    BY DEF Descend
  <2>2. [call EXCEPT !.level = @ + 1] = [level |-> l + 1, table |-> Walk(v, l), virt |-> v, phys |-> p]
    BY <1>1
  <2> QED  BY <2>1, <2>2
<1> QED  BY <1>2, <1>3, <1>4, <1>5, <1>6, <1>7

\* A call one level further down.
LEMMA CallDescends ==
    ASSUME NEW l \in 1 .. 3, NEW v \in Pages, NEW p \in Nat, Calling(l, v, p), NEW t, t # Absent,
           call' = Descend(t), Walk(v, l + 1)' = t,
           stage' = stage, root' = root, memmap' = memmap, heap_frames' = heap_frames
    PROVE  CallOK' /\ call' # NoCall /\ call'.virt = v
<1>1. call' = [level |-> l + 1, table |-> t, virt |-> v, phys |-> p]
  BY CallFields
<1>2. Caller(v, p)'
  BY DEF Caller, Calling
<1>3. Calling(l + 1, v, p)'
  BY <1>1, <1>2 DEF Calling
<1>4. call' # NoCall
  BY <1>1 DEF NoCall
<1> QED  BY <1>1, <1>3, <1>4 DEF CallOK

\* While a call goes on nothing is lost of what the boot and the heap asked.
LEMMA StillCalling ==
    ASSUME CallOK, BootOK, HeapOK, call # NoCall, call' # NoCall, call'.virt = call.virt,
           stage' = stage, root' = root, queue' = queue, dropped' = dropped, memmap' = memmap,
           wanted' = wanted, heap_frames' = heap_frames, heap_head' = heap_head
    PROVE  BootOK' /\ HeapOK'
<1>1. \A v, p : Maps(v, p)' = Maps(v, p)
  BY DEF Maps
<1>2. \A k : Backed(k)' = Backed(k)
  BY DEF Backed, Maps
<1>3. ASSUME stage = "map", NEW m \in BootMap(memmap)
      PROVE  m \in queue \/ call'.virt = m.virt \/ Maps(m.virt, m.phys) \/ m.virt \in dropped
  BY <1>3 DEF BootOK
<1>4. BootOK'
  <2>1. queue' = queue /\ BootMap(memmap)' = BootMap(memmap)
    OBVIOUS
  <2> QED  BY <1>3, <2>1 DEF BootOK, Maps
<1>5. HeapOK'
  <2>1. \A k \in 1 .. Len(heap_frames) : Unbacked(k) => k = Len(heap_frames)
    BY DEF Unbacked
  <2>2. stage = "heap" => \A k \in 1 .. Len(heap_frames) : Backed(k) \/ k = Len(heap_frames)
    BY <2>1 DEF HeapOK
  <2>3. \A k : k = Len(heap_frames) => Unbacked(k)'
    BY DEF Unbacked
  <2> QED  BY <1>2, <2>2, <2>3 DEF HeapOK
<1> QED  BY <1>4, <1>5

LEMMA FollowParts == VmmInv /\ get_or_create_table /\ FollowEntry => Parts'
<1> SUFFICES ASSUME VmmInv, get_or_create_table, FollowEntry  PROVE Parts'
  OBVIOUS
<1>1. /\ call.level \in 1 .. 3 /\ SlotEntry # Absent /\ call' = Descend(SlotEntry)
      /\ UNCHANGED <<stage, root, tables, queue, heap_frames, heap_head, client, wanted, dropped>>
      /\ memmap' = memmap /\ owned' = owned /\ pass' = pass /\ bitmap' = bitmap
  BY DEF get_or_create_table, FollowEntry, pmmVars, Levels
<1>2. StageOK /\ TreeOK /\ OwnsOK /\ CallOK /\ MappedOK /\ BootOK /\ HeapOK
  BY DEF VmmInv
<1>3. PICK l \in 1 .. 4, v \in Pages, p \in Nat : Calling(l, v, p) /\ l = call.level
  BY <1>1, <1>2, InCall
<1>4. l \in 1 .. 3 /\ SlotEntry = Walk(v, l + 1) /\ call # NoCall /\ call.virt = v
  BY <1>1, <1>3, CallFields
<1>5. CallOK' /\ call' # NoCall /\ call'.virt = v
  <2> DEFINE t == SlotEntry
  <2>1. t # Absent /\ call' = Descend(t) /\ Walk(v, l + 1)' = t
    BY <1>1, <1>4, SameTables
  <2> HIDE DEF t
  <2> QED  BY <1>1, <1>3, <1>4, <2>1, CallDescends
<1>6. BootOK' /\ HeapOK'
  BY <1>1, <1>2, <1>4, <1>5, StillCalling
<1>7. FreeFrames' = FreeFrames
  BY <1>1, SameFree
<1>8. StageOK'
  BY <1>1, <1>2, <1>7 DEF StageOK
<1>9. TreeOK' /\ OwnsOK'
  BY <1>1, <1>2, SameTables DEF OwnsOK
<1>10. MappedOK'
  BY <1>1, <1>2, SameTables, SameMaps
<1> QED  BY <1>5, <1>6, <1>8, <1>9, <1>10 DEF Parts

LEMMA MakeTableParts == VmmInv /\ get_or_create_table /\ MakeTable => Parts'
<1> SUFFICES ASSUME VmmInv, get_or_create_table, MakeTable  PROVE Parts'
  OBVIOUS
<1>1. /\ call.level \in 1 .. 3 /\ SlotEntry = Absent /\ pmm_alloc_page /\ call' = Descend(FirstFree)
      /\ tables' = With([tables EXCEPT ![call.table][Slot] = FirstFree], FirstFree, EmptyTable(call.level + 1))
      /\ UNCHANGED <<stage, root, queue, heap_frames, heap_head, client, wanted, dropped>>
  BY DEF get_or_create_table, MakeTable, Levels
<1>2. PmmInv /\ StageOK /\ TreeOK /\ OwnsOK /\ CallOK /\ MappedOK /\ BootOK /\ HeapOK
  BY DEF VmmInv
<1>3. PICK l \in 1 .. 4, v \in Pages, p \in Nat : Calling(l, v, p) /\ l = call.level
  BY <1>1, <1>2, InCall
<1>4. /\ l \in 1 .. 3 /\ SlotEntry = Step(Walk(v, l), v, l) /\ call # NoCall /\ call.virt = v
      /\ call.table = Walk(v, l) /\ Slot = Index(v, l) /\ Walk(v, l) # Absent
  BY <1>1, <1>3, CallFields DEF Calling
<1>5. root # 0
  BY <1>3 DEF Calling
<1>6. root \in DOMAIN tables
  BY <1>2, <1>5 DEF TreeOK
<1>7. PICK lvl : Tree(lvl)
  BY <1>2, <1>5 DEF TreeOK
<1>8. PICK f : f = FirstFree
  OBVIOUS
<1>9. PICK t : t = Walk(v, l)
  OBVIOUS
<1>10. PICK i : i = Index(v, l)
  OBVIOUS
<1>11. t \in DOMAIN tables /\ lvl[t] = l /\ i \in DOMAIN tables[t]
  BY <1>4, <1>6, <1>7, <1>9, <1>10, WalkTypes
<1>12. tables[t][i] = Absent
  BY <1>1, <1>4, <1>9, <1>10 DEF Step
<1>13. /\ f \in Nat \ {0} /\ f \notin owned /\ owned' = owned \cup {f}
       /\ memmap' = memmap /\ pass' = "done" /\ FreeFrames # {}
  BY <1>1, <1>2, <1>8, Allocated
<1>14. f \notin DOMAIN tables
  BY <1>2, <1>13, TablesAreNats
<1>15. tables' = With([tables EXCEPT ![t][i] = f], f, EmptyTable(lvl[t] + 1))
  BY <1>1, <1>3, <1>4, <1>8, <1>9, <1>10, <1>11
<1>16. /\ \E new : Tree(new)'
       /\ DOMAIN tables' = DOMAIN tables \cup {f} /\ tables'[t][i] = f
       /\ Walk(v, l)' = t
       /\ \A w \in Pages : vmm_virt_to_phys(w)' = vmm_virt_to_phys(w)
  <2>1. lvl[t] < 4 /\ f \in Nat /\ root' = root
    BY <1>1, <1>4, <1>11, <1>13
  <2>2. /\ \E new : Tree(new)'
        /\ DOMAIN tables' = DOMAIN tables \cup {f} /\ tables'[t][i] = f
        /\ \A w \in Pages : \A k \in 1 .. 4 : Walk(w, k) # Absent => Walk(w, k)' = Walk(w, k)
        /\ \A w \in Pages : vmm_virt_to_phys(w)' = vmm_virt_to_phys(w)
    BY <1>6, <1>7, <1>11, <1>12, <1>14, <1>15, <2>1, NewTable
  <2> QED  BY <1>4, <1>9, <2>2
<1>17. Walk(v, l + 1)' = f
  <2>1. Walk(v, l + 1)' = Step(Walk(v, l), v, l)'
    BY <1>4, WalkStepNext
  <2> QED  BY <1>4, <1>9, <1>10, <1>16, <2>1 DEF Step
<1>18. CallOK' /\ call' # NoCall /\ call'.virt = v
  <2>1. f # Absent /\ call' = Descend(f)
    BY <1>1, <1>8, <1>13 DEF Absent
  <2> QED  BY <1>1, <1>3, <1>4, <1>13, <1>17, <2>1, CallDescends
<1>19. BootOK' /\ HeapOK'
  BY <1>1, <1>2, <1>4, <1>13, <1>18, StillCalling
<1>20. StageOK'
  <2>1. stage \in {"map", "heap", "running"}
    BY <1>3 DEF Calling
  <2> QED  BY <1>1, <1>2, <1>5, <1>13, <2>1 DEF StageOK
<1>21. TreeOK'
  BY <1>1, <1>5, <1>6, <1>16 DEF TreeOK
<1>22. OwnsOK'
  <2>1. f \notin Range(heap_frames) /\ f \notin client
    BY <1>2, <1>13 DEF OwnsOK
  <2>2. heap_frames' = heap_frames /\ client' = client
    BY <1>1
  <2>3. DOMAIN tables' = DOMAIN tables \cup {f} /\ owned' = owned \cup {f}
    BY <1>13, <1>16
  <2>4. owned' = DOMAIN tables' \cup Range(heap_frames)' \cup client'
    BY <1>2, <2>2, <2>3 DEF OwnsOK
  <2>5. DOMAIN tables' \cap (Range(heap_frames)' \cup client') = {}
    BY <1>2, <2>1, <2>2, <2>3 DEF OwnsOK
  <2> QED  BY <1>2, <2>2, <2>4, <2>5 DEF OwnsOK
<1>23. MappedOK'
  BY <1>1, <1>2, <1>16, SameMaps
<1> QED  BY <1>18, <1>19, <1>20, <1>21, <1>22, <1>23 DEF Parts

\* The last page of the heap finds the tables of the page before it.
LEMMA LastHeapPage ==
    ASSUME VmmInv, NEW l \in 1 .. 3, NEW v \in Pages, NEW p \in Nat, Calling(l, v, p),
           stage = "heap", Len(heap_frames) = HeapPages
    PROVE  SlotEntry # Absent
<1> DEFINE u == v - 1
<1>1. StageOK /\ TreeOK /\ OwnsOK /\ MappedOK /\ HeapOK /\ root # 0
  BY DEF VmmInv, Calling
<1>2. v = HeapVirt + HeapPages - 1
  BY DEF Calling, Caller
<1>3. v \in Nat \ {0} /\ v % Fanout[4] # 0 /\ u \in Nat /\ u \in HeapRange /\ u \in Pages
  BY <1>2, Spaces, VmmAssumption DEF Levels, HeapRange
<1>4. Maps(u, heap_frames[HeapPages - 1])
  <2> DEFINE k == HeapPages - 1
  <2>1. k \in 1 .. Len(heap_frames) /\ k # Len(heap_frames) /\ HeapVirt + k - 1 = u
    BY <1>2, Spaces
  <2> HIDE DEF k, u
  <2>2. Backed(k)
    BY <1>1, <2>1 DEF HeapOK, Unbacked
  <2> QED  BY <2>1, <2>2 DEF Backed, k
<1>5. vmm_virt_to_phys(u) # Absent
  <2>1. heap_frames[HeapPages - 1] \in Nat
    BY <1>1, Spaces DEF OwnsOK
  <2> QED  BY <1>1, <1>3, <1>4, <2>1 DEF MappedOK, Translated, Maps, Absent
<1>6. \A k \in 1 .. 3 : Index(u, k) = Index(v, k)
  BY <1>3, SameTable
<1> HIDE DEF u
<1>7. /\ Walk(u, 1) = Walk(v, 1)
      /\ Walk(u, 2) = Step(Walk(u, 1), u, 1) /\ Walk(v, 2) = Step(Walk(v, 1), v, 1)
      /\ Walk(u, 3) = Step(Walk(u, 2), u, 2) /\ Walk(v, 3) = Step(Walk(v, 2), v, 2)
      /\ Walk(u, 4) = Step(Walk(u, 3), u, 3) /\ Walk(v, 4) = Step(Walk(v, 3), v, 3)
      /\ vmm_virt_to_phys(u) = Step(Walk(u, 4), u, 4)
  <2>1. 1 \in 1 .. 3 /\ 2 \in 1 .. 3 /\ 3 \in 1 .. 3 /\ 1 + 1 = 2 /\ 2 + 1 = 3 /\ 3 + 1 = 4
    OBVIOUS
  <2> QED  BY <2>1, WalkStep
<1>8. ASSUME NEW t, NEW k \in 1 .. 3  PROVE Step(t, u, k) = Step(t, v, k)
  BY <1>6 DEF Step
<1>9. Walk(u, 2) = Walk(v, 2) /\ Walk(u, 3) = Walk(v, 3) /\ Walk(u, 4) = Walk(v, 4)
  BY <1>7, <1>8
<1>10. \A t, w, k : Step(t, w, k) # Absent => t # Absent
  BY DEF Step
<1>11. Walk(u, 4) # Absent /\ Walk(u, 3) # Absent /\ Walk(u, 2) # Absent
  BY <1>5, <1>7, <1>10
<1>12. SlotEntry = Walk(v, l + 1)
  BY CallFields
<1>13. l = 1 \/ l = 2 \/ l = 3
  OBVIOUS
<1> QED  BY <1>9, <1>11, <1>12, <1>13

LEMMA GiveUpParts == VmmInv /\ get_or_create_table /\ GiveUp => Parts'
<1> SUFFICES ASSUME VmmInv, get_or_create_table, GiveUp  PROVE Parts'
  OBVIOUS
<1>1. /\ call.level \in 1 .. 3 /\ SlotEntry = Absent /\ FreeFrames = {} /\ call' = NoCall
      /\ dropped' = dropped \cup {call.virt}
      /\ UNCHANGED <<stage, root, tables, queue, heap_frames, heap_head, client, wanted>>
      /\ memmap' = memmap /\ owned' = owned /\ pass' = pass /\ bitmap' = bitmap
  BY DEF get_or_create_table, GiveUp, pmmVars, Levels
<1>2. StageOK /\ TreeOK /\ OwnsOK /\ CallOK /\ MappedOK /\ BootOK /\ HeapOK
  BY DEF VmmInv
<1>3. PICK l \in 1 .. 4, v \in Pages, p \in Nat : Calling(l, v, p) /\ l = call.level
  BY <1>1, <1>2, InCall
<1>4. FreeFrames' = FreeFrames
  BY <1>1, SameFree
<1>5. StageOK' /\ TreeOK' /\ OwnsOK' /\ CallOK'
  BY <1>1, <1>2, <1>4, SameTables DEF StageOK, OwnsOK, CallOK
<1>6. MappedOK'
  BY <1>1, <1>2, SameTables, SameMaps
<1>7. BootOK'
  <2>1. ASSUME stage = "map", NEW m \in BootMap(memmap)
        PROVE  m \in queue \/ Maps(m.virt, m.phys) \/ m.virt \in dropped'
    BY <1>1, <1>2, <2>1 DEF BootOK
  <2> QED  BY <1>1, <1>2, <2>1 DEF BootOK, Maps
<1>8. HeapOK'
  <2>1. \A k : Backed(k)' = Backed(k)
    BY <1>1 DEF Backed, Maps
  <2>2. stage = "heap" => Len(heap_frames) # HeapPages
    BY <1>1, <1>3, LastHeapPage
  <2>3. Len(heap_frames) \in Nat
    BY <1>2 DEF OwnsOK
  <2>4. ASSUME stage = "heap", NEW k \in 1 .. Len(heap_frames)  PROVE Backed(k) \/ Unbacked(k)'
    <3>1. Len(heap_frames) < HeapPages
      BY <1>2, <2>2, <2>3, <2>4, Spaces DEF HeapOK
    <3>2. k = Len(heap_frames) => Unbacked(k)'
      BY <1>1, <1>4, <3>1 DEF Unbacked
    <3>3. Backed(k) \/ k = Len(heap_frames)
      BY <1>2, <2>4 DEF HeapOK, Unbacked
    <3> QED  BY <3>2, <3>3
  <2> QED  BY <1>1, <1>2, <2>1, <2>4 DEF HeapOK
<1> QED  BY <1>5, <1>6, <1>7, <1>8 DEF Parts

\* A leaf entry set for page v: the translation and the ghost agree on it.
LEMMA LeafSet ==
    ASSUME TreeOK, MappedOK, root # 0, NEW v \in Pages, Walk(v, 4) # Absent, NEW x \in Nat \cup {Absent},
           root' = root, tables' = [tables EXCEPT ![Walk(v, 4)][Index(v, 4)] = x],
           wanted' = With(wanted, v, x)
    PROVE  /\ TreeOK' /\ MappedOK' /\ DOMAIN tables' = DOMAIN tables
           /\ Maps(v, x)' /\ \A w, p : w # v => Maps(w, p)' = Maps(w, p)
<1>1. root \in DOMAIN tables
  BY DEF TreeOK
<1>2. PICK lvl : Tree(lvl)
  BY DEF TreeOK
<1>3. PICK t : t = Walk(v, 4)
  OBVIOUS
<1>4. PICK i : i = Index(v, 4)
  OBVIOUS
<1>5. t \in DOMAIN tables /\ lvl[t] = 4 /\ i \in DOMAIN tables[t]
  <2>1. 4 \in 1 .. 4
    OBVIOUS
  <2> QED  BY <1>1, <1>2, <1>3, <1>4, <2>1, WalkTypes
<1>6. tables' = [tables EXCEPT ![t][i] = x]
  BY <1>3, <1>4
<1>7. /\ Tree(lvl)' /\ DOMAIN tables' = DOMAIN tables
      /\ \A w \in Pages : vmm_virt_to_phys(w)' =
            IF Walk(w, 4) = t /\ Index(w, 4) = i THEN x ELSE vmm_virt_to_phys(w)
  <2>1. root' = root /\ x \in Nat \cup {Absent}
    OBVIOUS
  <2>2. /\ Tree(lvl)' /\ DOMAIN tables' = DOMAIN tables
        /\ \A w \in Pages : \A l \in 1 .. 4 : Walk(w, l)' = Walk(w, l)
        /\ \A w \in Pages : vmm_virt_to_phys(w)' =
            IF Walk(w, 4) = t /\ Index(w, 4) = i THEN x ELSE vmm_virt_to_phys(w)
    BY ONLY <1>1, <1>2, <1>5, <1>6, <2>1, LeafWrite
  <2> QED  BY <2>2
<1>8. \A w \in Pages : Walk(w, 4) = t /\ Index(w, 4) = i <=> w = v
  <2>1. ASSUME NEW w \in Pages, Walk(w, 4) = t, Index(w, 4) = i  PROVE w = v
    BY <1>1, <1>2, <1>3, <1>4, <2>1, LeafNames
  <2> QED  BY <1>3, <1>4, <2>1
<1>9. /\ DOMAIN wanted' = DOMAIN wanted \cup {v} /\ wanted'[v] = x
      /\ \A w \in DOMAIN wanted : w # v => wanted'[w] = wanted[w]
  BY DEF With
<1>10. TreeOK'
  BY <1>1, <1>7 DEF TreeOK
<1>11. MappedOK'
  <2>1. ASSUME NEW w \in Pages  PROVE vmm_virt_to_phys(w)' = Translated(w)'
    <3>1. vmm_virt_to_phys(w)' = IF w = v THEN x ELSE vmm_virt_to_phys(w)
      BY <1>7, <1>8
    <3>2. vmm_virt_to_phys(w) = Translated(w)
      BY DEF MappedOK
    <3> QED  BY <1>9, <3>1, <3>2 DEF Translated
  <2>2. DOMAIN wanted' \subseteq Pages /\ \A w \in DOMAIN wanted' : wanted'[w] \in Nat \cup {Absent}
    BY <1>9 DEF MappedOK
  <2> QED  BY <2>1, <2>2 DEF MappedOK
<1>12. Maps(v, x)' /\ \A w, p : w # v => Maps(w, p)' = Maps(w, p)
  BY <1>9 DEF Maps
<1> QED  BY <1>7, <1>10, <1>11, <1>12

LEMMA SetEntryParts == VmmInv /\ SetEntry => Parts'
<1> SUFFICES ASSUME VmmInv, SetEntry  PROVE Parts'
  OBVIOUS
<1>1. /\ call.level = 4
      /\ tables' = [tables EXCEPT ![call.table][Index(call.virt, 4)] = call.phys]
      /\ wanted' = With(wanted, call.virt, call.phys)
      /\ dropped' = dropped \ {call.virt} /\ call' = NoCall
      /\ UNCHANGED <<stage, root, queue, heap_frames, heap_head, client>>
      /\ memmap' = memmap /\ owned' = owned /\ pass' = pass /\ bitmap' = bitmap
  BY DEF SetEntry, pmmVars, Levels
<1>2. PmmInv /\ StageOK /\ TreeOK /\ OwnsOK /\ CallOK /\ MappedOK /\ BootOK /\ HeapOK
  BY DEF VmmInv
<1>3. PICK l \in 1 .. 4, v \in Pages, p \in Nat : Calling(l, v, p) /\ l = call.level
  BY <1>1, <1>2, InCall
<1>4. /\ l = 4 /\ call # NoCall /\ call.table = Walk(v, 4) /\ call.virt = v /\ call.phys = p
      /\ Walk(v, 4) # Absent /\ root # 0 /\ stage \in {"map", "heap", "running"} /\ Caller(v, p)
  BY <1>1, <1>3, CallFields DEF Calling
<1>5. /\ TreeOK' /\ MappedOK' /\ DOMAIN tables' = DOMAIN tables
      /\ Maps(v, p)' /\ \A w, q : w # v => Maps(w, q)' = Maps(w, q)
  BY <1>1, <1>2, <1>4, LeafSet
<1>6. StageOK'
  BY <1>1, <1>2, <1>4 DEF StageOK
<1>7. OwnsOK'
  BY <1>1, <1>2, <1>5 DEF OwnsOK
<1>8. CallOK'
  BY <1>1 DEF CallOK
<1>9. memmap \in Memmaps
  BY <1>2 DEF PmmInv, PmmTypeOK
<1>10. BootOK'
  <2>1. ASSUME NEW m \in BootMap(memmap), NEW w, w = m.virt, NEW q, q = m.phys
        PROVE  /\ stage = "map" => m \in queue \/ Maps(w, q)' \/ w \in dropped'
               /\ stage \in {"heap", "running"} => Maps(w, q)'
    <3>1. CASE w = v
      <4>1. CASE stage = "map"
        <5>1. PICK n \in BootMap(memmap) : n.virt = v /\ n.phys = p
          BY <1>4, <4>1 DEF Caller
        <5>2. q = p
          BY <1>9, <2>1, <3>1, <5>1, BootPages
        <5> QED  BY <1>5, <3>1, <4>1, <5>2
      <4>2. CASE stage \in {"heap", "running"}
        <5>1. w \notin HeapRange /\ w \notin ClientVirt
          BY <1>9, <2>1, BootPages
        <5>2. stage = "heap" => v \in HeapRange
          <6>1. Len(heap_frames) \in Nat /\ Len(heap_frames) <= HeapPages
            BY <1>2 DEF OwnsOK, HeapOK
          <6>2. stage = "heap" => Len(heap_frames) > 0 /\ v = HeapVirt + Len(heap_frames) - 1
            BY <1>4 DEF Caller
          <6>3. stage = "heap" => Len(heap_frames) \in 1 .. HeapPages
            BY <6>1, <6>2, Spaces
          <6> QED  BY <6>2, <6>3, Spaces
        <5> QED  BY <1>4, <3>1, <4>2, <5>1, <5>2 DEF Caller
      <4> QED  BY <1>4, <4>1, <4>2
    <3>2. CASE w # v
      <4>1. Maps(w, q)' = Maps(w, q) /\ (w \in dropped => w \in dropped')
        BY <1>1, <1>4, <1>5, <3>2
      <4>2. stage = "map" => m \in queue \/ Maps(w, q) \/ w \in dropped
        BY <1>2, <1>4, <2>1, <3>2 DEF BootOK
      <4>3. stage \in {"heap", "running"} => Maps(w, q)
        BY <1>2, <1>4, <2>1 DEF BootOK
      <4> QED  BY <4>1, <4>2, <4>3
    <3> QED  BY <3>1, <3>2
  <2>2. ASSUME NEW m \in BootMap(memmap)
        PROVE  /\ stage = "map" => m \in queue \/ Maps(m.virt, m.phys)' \/ m.virt \in dropped'
               /\ stage \in {"heap", "running"} => Maps(m.virt, m.phys)'
    BY <2>1 DEF Maps
  <2>3. stage = "map" => queue \subseteq BootMap(memmap)
    BY <1>2 DEF BootOK
  <2> QED  BY <1>1, <2>2, <2>3 DEF BootOK
<1>11. HeapOK'
  <2>1. Len(heap_frames) \in Nat /\ Len(heap_frames) <= HeapPages
    BY <1>2 DEF OwnsOK, HeapOK
  <2>2. ASSUME NEW k \in 1 .. Len(heap_frames), HeapVirt + k - 1 # v  PROVE Backed(k)' = Backed(k)
    <3>1. heap_frames' = heap_frames
      BY <1>1
    <3>2. PICK w, q : w = HeapVirt + k - 1 /\ q = heap_frames[k]
      OBVIOUS
    <3>3. Maps(w, q)' = Maps(w, q)
      BY <1>5, <2>2, <3>2
    <3> QED  BY <3>1, <3>2, <3>3 DEF Backed, Maps
  <2>3. ASSUME stage = "heap", NEW k \in 1 .. Len(heap_frames)  PROVE Backed(k)'
    <3>1. v = HeapVirt + Len(heap_frames) - 1 /\ p = heap_frames[Len(heap_frames)]
      BY <1>4, <2>3 DEF Caller
    <3>2. CASE k = Len(heap_frames)
      <4>1. HeapVirt + k - 1 = v /\ heap_frames'[k] = p
        BY <1>1, <3>1, <3>2
      <4> QED  BY <1>5, <4>1 DEF Backed, Maps
    <3>3. CASE k # Len(heap_frames)
      <4>1. Backed(k)
        BY <1>2, <2>3, <3>3 DEF HeapOK, Unbacked
      <4>2. HeapVirt + k - 1 # v
        BY <2>1, <3>1, <3>3, Spaces
      <4> QED  BY <2>2, <4>1, <4>2
    <3> QED  BY <3>2, <3>3
  <2>4. heap_head # 0 => \A k \in 1 .. HeapPages : Backed(k)'
    <3> SUFFICES ASSUME heap_head # 0, NEW k \in 1 .. HeapPages  PROVE Backed(k)'
      OBVIOUS
    <3>1. Len(heap_frames) = HeapPages /\ Backed(k)
      BY <1>2 DEF HeapOK
    <3>2. stage = "running" /\ v \in ClientVirt
      BY <1>2, <1>4 DEF StageOK, Caller
    <3>3. HeapVirt + k - 1 # v
      BY <3>2, Spaces
    <3> QED  BY <2>2, <3>1, <3>3
  <2>5. heap_head # 0 => Len(heap_frames) = HeapPages
    BY <1>2 DEF HeapOK
  <2> QED  BY <1>1, <2>1, <2>3, <2>4, <2>5 DEF HeapOK
<1> QED  BY <1>5, <1>6, <1>7, <1>8, <1>10, <1>11 DEF Parts

LEMMA HeapPageParts == VmmInv /\ HeapPage => Parts'
<1> SUFFICES ASSUME VmmInv, HeapPage  PROVE Parts'
  OBVIOUS
<1>1. /\ stage = "heap" /\ call = NoCall /\ Len(heap_frames) < HeapPages
      /\ UNCHANGED <<root, tables, queue, heap_head, client, wanted, dropped>>
  BY DEF HeapPage
<1>2. PmmInv /\ StageOK /\ TreeOK /\ OwnsOK /\ CallOK /\ MappedOK /\ BootOK /\ HeapOK
  BY DEF VmmInv
<1>3. TreeOK'
  BY <1>1, <1>2, SameTables
<1>4. MappedOK' /\ \A v, p : Maps(v, p)' = Maps(v, p)
  BY <1>1, <1>2, SameTables, SameMaps
<1>5. heap_head = 0
  BY <1>1, <1>2 DEF StageOK
<1>6. CASE FreeFrames = {}
  <2>1. stage' = "running" /\ UNCHANGED <<pmmVars, call, heap_frames>>
    BY <1>6 DEF HeapPage
  <2>2. bitmap' = bitmap /\ owned' = owned /\ pass' = pass /\ memmap' = memmap
    BY <2>1 DEF pmmVars
  <2>3. FreeFrames' = FreeFrames
    BY <2>2, SameFree
  <2>4. StageOK'
    BY <1>1, <1>2, <2>1, <2>2, <2>3 DEF StageOK
  <2>5. OwnsOK' /\ CallOK'
    BY <1>1, <1>2, <2>1, <2>2 DEF OwnsOK, CallOK
  <2>6. BootOK'
    BY <1>1, <1>2, <2>1, <2>2 DEF BootOK, Maps
  <2>7. HeapOK'
    BY <1>1, <1>2, <1>5, <2>1 DEF HeapOK
  <2> QED  BY <1>3, <1>4, <2>4, <2>5, <2>6, <2>7 DEF Parts
<1>7. CASE FreeFrames # {}
  <2> DEFINE n == Len(heap_frames)
  <2>1. /\ pmm_alloc_page /\ heap_frames' = Append(heap_frames, FirstFree)
        /\ call' = MapCall(HeapVirt + n, FirstFree) /\ stage' = stage
    BY <1>7 DEF HeapPage
  <2>2. PICK f : f = FirstFree
    OBVIOUS
  <2>3. /\ f \in Nat \ {0} /\ f \notin owned /\ owned' = owned \cup {f}
        /\ pass' = "done" /\ memmap' = memmap
    BY <1>2, <2>1, <2>2, Allocated
  <2>4. n \in Nat /\ heap_frames \in Seq(Nat)
    BY <1>2 DEF OwnsOK
  <2>5. /\ heap_frames' \in Seq(Nat) /\ Len(heap_frames') = n + 1 /\ heap_frames'[n + 1] = f
        /\ \A k \in 1 .. n : heap_frames'[k] = heap_frames[k]
    BY <2>1, <2>2, <2>3, <2>4
  <2> HIDE DEF n
  <2>6. root # 0
    BY <1>1, <1>2, <1>7 DEF StageOK
  <2>7. StageOK'
    BY <1>1, <1>2, <2>1, <2>3, <2>6 DEF StageOK
  <2>8. OwnsOK'
    <3>1. DOMAIN heap_frames = 1 .. n /\ DOMAIN heap_frames' = 1 .. n + 1
      BY <2>4, <2>5 DEF n
    <3>2. Range(heap_frames') = Range(heap_frames) \cup {f}
      BY <2>4, <2>5, <3>1 DEF Range
    <3>3. f \notin Range(heap_frames) /\ f \notin client /\ f \notin DOMAIN tables
      BY <1>2, <2>3 DEF OwnsOK
    <3>4. IsInjective(heap_frames')
      <4>1. \A k \in 1 .. n : heap_frames[k] # f
        BY <3>1, <3>3 DEF Range
      <4>2. \A j, k \in 1 .. n : heap_frames[j] = heap_frames[k] => j = k
        BY <1>2, <3>1 DEF OwnsOK, IsInjective
      <4>3. \A k \in 1 .. n + 1 : k = n + 1 \/ k \in 1 .. n
        BY <2>4
      <4> QED  BY <2>5, <3>1, <4>1, <4>2, <4>3 DEF IsInjective
    <3>5. Cardinality(Range(heap_frames')) = n + 1
      <4>1. IsFiniteSet(Range(heap_frames))
        <5>1. Range(heap_frames) \subseteq owned
          BY <1>2 DEF OwnsOK
        <5>2. owned \subseteq Frames /\ IsFiniteSet(Frames)
          <6>1. pass = "done" /\ memmap \in Memmaps
            BY <1>1, <1>2 DEF StageOK, PmmInv, PmmTypeOK
          <6>2. owned \subseteq Usable
            BY <1>2, <6>1 DEF PmmInv
          <6> QED  BY <6>1, <6>2, Sizes, UsableHasBits
        <5> QED  BY <5>1, <5>2, FS_Subset
      <4>2. Cardinality(Range(heap_frames)) = n
        BY <1>2 DEF OwnsOK, n
      <4> QED  BY <3>2, <3>3, <4>1, <4>2, CountAdd
    <3>6. owned' = DOMAIN tables' \cup Range(heap_frames') \cup client'
      BY <1>1, <1>2, <2>3, <3>2 DEF OwnsOK
    <3> QED  BY <1>1, <1>2, <2>3, <2>5, <3>2, <3>3, <3>4, <3>5, <3>6 DEF OwnsOK
  <2>9. CallOK' /\ call' # NoCall
    <3>1. PICK v : v = HeapVirt + n
      OBVIOUS
    <3>2. v \in Pages
      <4>1. n + 1 \in 1 .. HeapPages /\ v = HeapVirt + (n + 1) - 1
        BY <1>1, <2>4, <3>1, Spaces DEF n
      <4> QED  BY <4>1, Spaces
    <3>3. Caller(v, f)'
      <4>1. v = HeapVirt + Len(heap_frames') - 1 /\ f = heap_frames'[Len(heap_frames')] /\ Len(heap_frames') > 0
        BY <2>4, <2>5, <3>1, Spaces
      <4> QED  BY <1>1, <2>1, <4>1 DEF Caller
    <3>4. call' = MapCall(v, f) /\ stage' \in {"map", "heap", "running"} /\ f \in Nat
      BY <1>1, <2>1, <2>2, <2>3, <3>1
    <3> QED  BY <1>1, <1>2, <2>6, <3>2, <3>3, <3>4, CallStarts
  <2>10. BootOK'
    BY <1>1, <1>2, <2>1, <2>3 DEF BootOK, Maps
  <2>11. HeapOK'
    <3>1. ASSUME NEW k \in 1 .. n + 1  PROVE Backed(k)' \/ Unbacked(k)'
      <4>1. CASE k = n + 1
        BY <2>5, <2>9, <4>1 DEF Unbacked
      <4>2. CASE k \in 1 .. n
        <5>1. Backed(k)
          BY <1>1, <1>2, <1>7, <4>2 DEF HeapOK, Unbacked, n
        <5> QED  BY <1>1, <2>5, <4>2, <5>1 DEF Backed, Maps
      <4> QED  BY <2>4, <3>1, <4>1, <4>2
    <3>2. n + 1 <= HeapPages
      BY <1>1, <2>4, Spaces DEF n
    <3> QED  BY <1>1, <1>5, <2>5, <3>1, <3>2 DEF HeapOK
  <2> QED  BY <1>3, <1>4, <2>7, <2>8, <2>9, <2>10, <2>11 DEF Parts
<1> QED  BY <1>6, <1>7

LEMMA HeapReadyParts == VmmInv /\ HeapReady => Parts'
<1> SUFFICES ASSUME VmmInv, HeapReady  PROVE Parts'
  OBVIOUS
<1>1. /\ stage = "heap" /\ call = NoCall /\ Len(heap_frames) = HeapPages
      /\ heap_head' = HeapVirt /\ stage' = "running"
      /\ UNCHANGED <<root, tables, queue, call, heap_frames, client, wanted, dropped>>
      /\ memmap' = memmap /\ owned' = owned /\ pass' = pass /\ bitmap' = bitmap
  BY DEF HeapReady, pmmVars
<1>2. StageOK /\ TreeOK /\ OwnsOK /\ MappedOK /\ BootOK /\ HeapOK
  BY DEF VmmInv
<1>3. FreeFrames' = FreeFrames
  BY <1>1, SameFree
<1>4. StageOK'
  BY <1>1, <1>2, <1>3 DEF StageOK
<1>5. TreeOK' /\ OwnsOK' /\ CallOK'
  BY <1>1, <1>2, SameTables DEF OwnsOK, CallOK
<1>6. MappedOK'
  BY <1>1, <1>2, SameTables, SameMaps
<1>7. BootOK'
  BY <1>1, <1>2 DEF BootOK, Maps
<1>8. HeapOK'
  <2>1. \A k \in 1 .. HeapPages : Backed(k)
    BY <1>1, <1>2 DEF HeapOK, Unbacked
  <2> QED  BY <1>1, <1>2, <2>1 DEF HeapOK, Backed, Maps
<1> QED  BY <1>4, <1>5, <1>6, <1>7, <1>8 DEF Parts

\* A step of the running kernel that leaves tables and ghosts alone.
LEMMA RunningSame ==
    ASSUME VmmInv, stage = "running", call = NoCall,
           UNCHANGED <<stage, root, tables, heap_frames, heap_head, wanted>>,
           memmap' = memmap
    PROVE  TreeOK' /\ MappedOK' /\ BootOK' /\ HeapOK'
<1>1. TreeOK /\ MappedOK /\ BootOK /\ HeapOK
  BY DEF VmmInv
<1>2. TreeOK' /\ MappedOK'
  BY <1>1, SameTables, SameMaps
<1>3. BootOK'
  BY <1>1 DEF BootOK, Maps
<1>4. HeapOK'
  BY <1>1 DEF HeapOK, Backed, Maps
<1> QED  BY <1>2, <1>3, <1>4

LEMMA TakeFrameParts == VmmInv /\ TakeFrame => Parts'
<1> SUFFICES ASSUME VmmInv, TakeFrame  PROVE Parts'
  OBVIOUS
<1>1. /\ stage = "running" /\ call = NoCall /\ pmm_alloc_page /\ client' = client \cup {FirstFree}
      /\ UNCHANGED <<stage, root, tables, queue, call, heap_frames, heap_head, wanted, dropped>>
  BY DEF TakeFrame, Running
<1>2. PmmInv /\ StageOK /\ OwnsOK
  BY DEF VmmInv
<1>3. PICK f : f = FirstFree
  OBVIOUS
<1>4. /\ f \in Nat \ {0} /\ f \notin owned /\ owned' = owned \cup {f}
      /\ pass' = "done" /\ memmap' = memmap /\ FreeFrames # {}
  BY <1>1, <1>2, <1>3, Allocated
<1>5. StageOK'
  BY <1>1, <1>2, <1>4 DEF StageOK
<1>6. OwnsOK'
  <2>1. f \notin Range(heap_frames) /\ f \notin client /\ f \notin DOMAIN tables
    BY <1>2, <1>4 DEF OwnsOK
  <2> QED  BY <1>1, <1>2, <1>3, <1>4, <2>1 DEF OwnsOK
<1>7. CallOK'
  BY <1>1 DEF CallOK
<1>8. TreeOK' /\ MappedOK' /\ BootOK' /\ HeapOK'
  BY <1>1, <1>4, RunningSame
<1> QED  BY <1>5, <1>6, <1>7, <1>8 DEF Parts

LEMMA GiveFrameParts == ASSUME VmmInv, NEW page \in client, GiveFrame(page)  PROVE Parts'
<1>1. /\ stage = "running" /\ call = NoCall /\ page \in owned /\ owned' = owned \ {page}
      /\ client' = client \ {page} /\ pass' = pass /\ memmap' = memmap
      /\ UNCHANGED <<stage, root, tables, queue, call, heap_frames, heap_head, wanted, dropped>>
  BY DEF GiveFrame, Running, pmm_free_page
<1>2. StageOK /\ OwnsOK
  BY DEF VmmInv
<1>3. StageOK'
  BY <1>1, <1>2 DEF StageOK
<1>4. OwnsOK'
  <2>1. page \notin Range(heap_frames) /\ page \notin DOMAIN tables
    BY <1>2 DEF OwnsOK
  <2> QED  BY <1>1, <1>2, <2>1 DEF OwnsOK
<1>5. CallOK'
  BY <1>1 DEF CallOK
<1>6. TreeOK' /\ MappedOK' /\ BootOK' /\ HeapOK'
  BY <1>1, RunningSame
<1> QED  BY <1>3, <1>4, <1>5, <1>6 DEF Parts

LEMMA MapParts ==
    ASSUME VmmInv, NEW virt \in ClientVirt, NEW page \in client, vmm_map_page(virt, page)
    PROVE  Parts'
<1>1. /\ stage = "running" /\ call = NoCall /\ call' = MapCall(virt, page)
      /\ UNCHANGED <<stage, root, tables, queue, heap_frames, heap_head, client, wanted, dropped>>
      /\ memmap' = memmap /\ owned' = owned /\ pass' = pass /\ bitmap' = bitmap
  BY DEF vmm_map_page, Running, pmmVars
<1>2. PmmInv /\ StageOK /\ TreeOK /\ OwnsOK
  BY DEF VmmInv
<1>3. page \in owned /\ page \in Nat /\ virt \in Pages
  BY <1>2, TablesAreNats, Spaces DEF OwnsOK
<1>4. root # 0
  BY <1>1, <1>2, <1>3 DEF StageOK
<1>5. CallOK'
  <2>1. Caller(virt, page)'
    BY <1>1 DEF Caller
  <2> QED  BY <1>1, <1>2, <1>3, <1>4, <2>1, CallStarts
<1>6. FreeFrames' = FreeFrames
  BY <1>1, SameFree
<1>7. StageOK' /\ OwnsOK'
  BY <1>1, <1>2, <1>6 DEF StageOK, OwnsOK
<1>8. TreeOK' /\ MappedOK' /\ BootOK' /\ HeapOK'
  BY <1>1, RunningSame
<1> QED  BY <1>5, <1>7, <1>8 DEF Parts

LEMMA UnmapParts == ASSUME VmmInv, NEW virt \in ClientVirt, vmm_unmap_page(virt)  PROVE Parts'
<1>1. /\ stage = "running" /\ call = NoCall /\ root # 0 /\ LeafTable(virt) # Absent
      /\ tables' = [tables EXCEPT ![LeafTable(virt)][Index(virt, 4)] = Absent]
      /\ wanted' = With(wanted, virt, Absent)
      /\ UNCHANGED <<stage, root, queue, call, heap_frames, heap_head, client>>
      /\ memmap' = memmap /\ owned' = owned /\ pass' = pass
  BY DEF vmm_unmap_page, Running, pmmVars, Levels
<1>2. StageOK /\ TreeOK /\ OwnsOK /\ MappedOK /\ BootOK /\ HeapOK
  BY DEF VmmInv
<1>3. memmap \in Memmaps
  BY DEF VmmInv, PmmInv, PmmTypeOK
<1>4. LeafTable(virt) = Walk(virt, 4) /\ virt \in Pages
  BY WalkStep, Spaces
<1>5. /\ TreeOK' /\ MappedOK' /\ DOMAIN tables' = DOMAIN tables
      /\ \A w, q : w # virt => Maps(w, q)' = Maps(w, q)
  <2>1. PICK x \in Nat \cup {Absent} : x = Absent
    OBVIOUS
  <2>2. Walk(virt, 4) # Absent /\ tables' = [tables EXCEPT ![Walk(virt, 4)][Index(virt, 4)] = x]
        /\ wanted' = With(wanted, virt, x) /\ root' = root
    BY <1>1, <1>4, <2>1
  <2> QED  BY <1>1, <1>2, <1>4, <2>2, LeafSet
<1>6. StageOK'
  BY <1>1, <1>2 DEF StageOK
<1>7. OwnsOK' /\ CallOK'
  BY <1>1, <1>2, <1>5 DEF OwnsOK, CallOK
<1>8. BootOK'
  <2>1. ASSUME NEW m \in BootMap(memmap)  PROVE Maps(m.virt, m.phys)'
    <3>1. PICK w, q : w = m.virt /\ q = m.phys
      OBVIOUS
    <3>2. w # virt
      BY <1>3, <3>1, BootPages
    <3>3. Maps(w, q)
      BY <1>1, <1>2, <3>1 DEF BootOK
    <3> QED  BY <1>5, <3>1, <3>2, <3>3 DEF Maps
  <2> QED  BY <1>1, <2>1 DEF BootOK
<1>9. HeapOK'
  <2>1. ASSUME NEW k \in 1 .. HeapPages, Backed(k)  PROVE Backed(k)'
    <3>1. PICK w, q : w = HeapVirt + k - 1 /\ q = heap_frames[k]
      OBVIOUS
    <3>2. w # virt
      BY <3>1, Spaces
    <3>3. Maps(w, q)'
      BY <1>5, <2>1, <3>1, <3>2 DEF Backed
    <3> QED  BY <1>1, <3>1, <3>3 DEF Backed, Maps
  <2> QED  BY <1>1, <1>2, <2>1 DEF HeapOK
<1> QED  BY <1>5, <1>6, <1>7, <1>8, <1>9 DEF Parts

LEMMA VmmStutterParts == VmmInv /\ UNCHANGED vars => Parts'
<1> SUFFICES ASSUME VmmInv, UNCHANGED vars  PROVE Parts'
  OBVIOUS
<1>1. /\ UNCHANGED <<stage, root, tables, queue, call, heap_frames, heap_head, client, wanted, dropped>>
      /\ memmap' = memmap /\ owned' = owned /\ pass' = pass /\ bitmap' = bitmap
  BY DEF vars, vmmVars, pmmVars
<1>2. StageOK /\ TreeOK /\ OwnsOK /\ CallOK /\ MappedOK /\ BootOK /\ HeapOK
  BY DEF VmmInv
<1>3. FreeFrames' = FreeFrames
  BY <1>1, SameFree
<1>4. StageOK' /\ OwnsOK'
  BY <1>1, <1>2, <1>3 DEF StageOK, OwnsOK
<1>5. TreeOK' /\ MappedOK'
  BY <1>1, <1>2, SameTables, SameMaps
<1>6. CallOK'
  <2>1. \A l, v, p : Calling(l, v, p)' = Calling(l, v, p)
    BY <1>1, SameTables DEF Calling, Caller
  <2> QED  BY <1>1, <1>2, <2>1 DEF CallOK
<1>7. BootOK'
  BY <1>1, <1>2 DEF BootOK, Maps
<1>8. HeapOK'
  BY <1>1, <1>2, <1>3 DEF HeapOK, Backed, Unbacked, Maps
<1> QED  BY <1>4, <1>5, <1>6, <1>7, <1>8 DEF Parts
-----------------------------------------------------------------------------
(* Page tables, heap and later callers implement the memory manager. *)

LEMMA StepsArePmmSteps == [Next]_vars => [PmmNext]_pmmVars
<1> SUFFICES ASSUME [Next]_vars  PROVE [PmmNext]_pmmVars
  OBVIOUS
<1>1. CASE PmmStep
  BY <1>1 DEF PmmStep, PmmNext
<1>2. CASE vmm_init
  BY <1>2 DEF vmm_init, PmmNext
<1>3. CASE MapQueued \/ vmm_load \/ SetEntry \/ HeapReady
  BY <1>3 DEF MapQueued, vmm_load, SetEntry, HeapReady
<1>4. CASE get_or_create_table
  BY <1>4 DEF get_or_create_table, FollowEntry, MakeTable, GiveUp, PmmNext
<1>5. CASE HeapPage
  BY <1>5 DEF HeapPage, PmmNext
<1>6. CASE TakeFrame
  BY <1>6 DEF TakeFrame, PmmNext
<1>7. ASSUME NEW page \in client, GiveFrame(page)  PROVE [PmmNext]_pmmVars
  BY <1>7 DEF GiveFrame, PmmNext, pmm_free_page
<1>8. ASSUME NEW virt \in ClientVirt, NEW page \in client, vmm_map_page(virt, page)
      PROVE  [PmmNext]_pmmVars
  BY <1>8 DEF vmm_map_page
<1>9. ASSUME NEW virt \in ClientVirt, vmm_unmap_page(virt)  PROVE [PmmNext]_pmmVars
  BY <1>9 DEF vmm_unmap_page
<1>10. CASE UNCHANGED vars
  BY <1>10 DEF vars
<1> QED
  BY <1>1, <1>2, <1>3, <1>4, <1>5, <1>6, <1>7, <1>8, <1>9, <1>10 DEF Next

\* The page tables, heap_init and every later caller implement the physical
\* memory manager's specification: no frame changes hands in another way.
THEOREM ImplementsPmm == Spec => PmmSpec
<1>1. Init => PmmInit
  BY DEF Init
<1> QED  BY <1>1, StepsArePmmSteps, PTL DEF Spec, PmmSpec

\* The running count of free pages is the number of clear bits, at every
\* step of pmm_init and after every call, on every map (pmm.c:152-234).
THEOREM CountsAreRight == Spec => []CountMatchesBitmap
BY ImplementsPmm, PmmInvariant, InvGivesCount, PTL

\* A frame is free exactly when it is usable RAM that is neither under the
\* bitmap nor handed out, on every map (pmm.c:86-234).
THEOREM FreeMeansUnclaimed == Spec => []FreeIsUsableAndUnclaimed
BY ImplementsPmm, PmmInvariant, InvGivesFree, PTL

\* The bitmap lies whole in usable memory, whatever its size rounds to
\* (pmm.c:110-135, 185-190).
THEOREM BitmapIsUsableMemory == Spec => []BitmapInUsableMemory
BY ImplementsPmm, PmmInvariant, InvGivesPlace, PTL

LEMMA VmmNextParts == VmmInv /\ [Next]_vars => Parts'
<1> SUFFICES ASSUME VmmInv, [Next]_vars  PROVE Parts'
  OBVIOUS
<1>1. CASE PmmStep
  BY <1>1, PmmStepParts
<1>2. CASE vmm_init
  BY <1>2, VmmInitParts
<1>3. CASE MapQueued
  BY <1>3, MapQueuedParts
<1>4. CASE vmm_load
  BY <1>4, VmmLoadParts
<1>5. CASE get_or_create_table
  <2>1. FollowEntry \/ MakeTable \/ GiveUp
    BY <1>5 DEF get_or_create_table
  <2> QED  BY <1>5, <2>1, FollowParts, MakeTableParts, GiveUpParts
<1>6. CASE SetEntry
  BY <1>6, SetEntryParts
<1>7. CASE HeapPage
  BY <1>7, HeapPageParts
<1>8. CASE HeapReady
  BY <1>8, HeapReadyParts
<1>9. CASE TakeFrame
  BY <1>9, TakeFrameParts
<1>10. ASSUME NEW page \in client, GiveFrame(page)  PROVE Parts'
  BY <1>10, GiveFrameParts
<1>11. ASSUME NEW virt \in ClientVirt, vmm_unmap_page(virt)  PROVE Parts'
  BY <1>11, UnmapParts
<1>12. ASSUME NEW virt \in ClientVirt, NEW page \in client, vmm_map_page(virt, page)  PROVE Parts'
  BY <1>12, MapParts
<1>13. CASE UNCHANGED vars
  BY <1>13, VmmStutterParts
<1> QED
  BY <1>1, <1>2, <1>3, <1>4, <1>5, <1>6, <1>7, <1>8, <1>9, <1>10, <1>11, <1>12, <1>13 DEF Next

\* VmmInv is inductive: through the boot and after it, the page tables are a
\* tree whose every page translates to what was last asked for, and each
\* frame handed out has one owner (vmm.c:48-119, heap.c:154-176).
THEOREM VmmInvariant == Spec => []VmmInv
<1>1. ASSUME VmmInv, [Next]_vars  PROVE VmmInv'
  <2>1. PmmInv'
    BY <1>1, StepsArePmmSteps, PmmStepInv DEF VmmInv
  <2>2. Parts'
    BY <1>1, VmmNextParts
  <2> QED  BY <2>1, <2>2 DEF VmmInv, Parts
<1> QED  BY <1>1, VmmInitInv, PTL DEF Spec

LEMMA InvGivesTypes == VmmInv => TypeOK
<1> SUFFICES ASSUME VmmInv  PROVE TypeOK
  OBVIOUS
<1>1. PmmInv /\ StageOK /\ TreeOK /\ OwnsOK /\ CallOK
  BY DEF VmmInv
<1>2. root \in DOMAIN tables \cup {0}
  BY <1>1 DEF TreeOK
<1>3. call.level \in 0 .. 4 /\ (call # NoCall => call.table \in DOMAIN tables)
  <2>1. CASE call = NoCall
    BY <2>1 DEF NoCall
  <2>2. CASE call # NoCall
    <3>1. PICK l \in 1 .. 4, v \in Pages, p \in Nat : Calling(l, v, p)
      BY <1>1, <2>2 DEF CallOK
    <3>2. call.level = l /\ call.table = Walk(v, l) /\ Walk(v, l) # Absent /\ root # 0
      BY <3>1, CallFields DEF Calling
    <3>3. PICK lvl : Tree(lvl)
      BY <1>1, <3>2 DEF TreeOK
    <3>4. root \in DOMAIN tables
      BY <1>1, <3>2 DEF TreeOK
    <3>5. Walk(v, l) \in DOMAIN tables
      BY <3>2, <3>3, <3>4, WalkTypes
    <3> QED  BY <3>2, <3>5
  <2> QED  BY <2>1, <2>2
<1>4. client \subseteq Nat /\ heap_frames \in Seq(Nat)
  BY <1>1, TablesAreNats DEF OwnsOK
<1>5. PmmTypeOK
  BY <1>1 DEF PmmInv
<1> QED  BY <1>1, <1>2, <1>3, <1>4, <1>5 DEF TypeOK, StageOK, Levels

\* The tables below a set of tables of one level.
LEMMA BelowLevel ==
    ASSUME NEW lvl, Tree(lvl), NEW n \in 1 .. 3
    PROVE  Below({t \in DOMAIN tables : lvl[t] = n}) = {t \in DOMAIN tables : lvl[t] = n + 1}
<1> DEFINE S == {t \in DOMAIN tables : lvl[t] = n}
<1>1. ASSUME NEW x \in Below(S)  PROVE x \in DOMAIN tables /\ lvl[x] = n + 1
  <2>1. PICK s \in S : x \in Range(tables[s])
    BY <1>1 DEF Below
  <2>2. PICK i \in DOMAIN tables[s] : x = tables[s][i]
    BY <2>1 DEF Range
  <2>3. s \in DOMAIN tables /\ lvl[s] = n /\ n < 4 /\ x # Absent
    BY <1>1, <2>1 DEF Below
  <2>4. Inner(lvl, s, i)
    BY <2>2, <2>3 DEF Inner
  <2> QED  BY <2>2, <2>3, <2>4 DEF Tree, Downward
<1>2. ASSUME NEW x \in DOMAIN tables, lvl[x] = n + 1  PROVE x \in Below(S)
  <2>1. x # root
    BY <1>2 DEF Tree, Levelled
  <2>2. PICK s, i : Inner(lvl, s, i) /\ tables[s][i] = x
    BY <1>2, <2>1 DEF Tree, Reached
  <2>3. s \in DOMAIN tables /\ i \in DOMAIN tables[s] /\ tables[s][i] # Absent
    BY <2>2 DEF Inner
  <2>4. lvl[x] = lvl[s] + 1 /\ lvl[s] \in 1 .. 4
    BY <2>2, <2>3 DEF Tree, Downward, Levelled
  <2>5. s \in S
    BY <1>2, <2>3, <2>4
  <2>6. tables[s][i] \in Range(tables[s])
    BY <2>3 DEF Range
  <2> HIDE DEF S
  <2>7. x \in UNION {Range(tables[t]) : t \in S} /\ x # Absent
    BY <2>2, <2>3, <2>5, <2>6
  <2> QED  BY <2>7 DEF Below
<1> QED  BY <1>1, <1>2

LEMMA InvGivesOwners == VmmInv => FramesHaveOneOwner
<1> SUFFICES ASSUME VmmInv  PROVE FramesHaveOneOwner
  OBVIOUS
<1>1. PmmInv /\ StageOK /\ TreeOK /\ OwnsOK
  BY DEF VmmInv
<1>2. owned \cap BitmapExtent = {}
  <2>1. CASE pass = "done"
    <3>1. FreeIsUsableAndUnclaimed
      BY <1>1, InvGivesFree
    <3> QED  BY <2>1, <3>1 DEF FreeIsUsableAndUnclaimed
  <2>2. CASE pass # "done"
    <3>1. owned = {}
      BY <1>1, <2>2 DEF PmmInv, PmmTypeOK
    <3> QED  BY <3>1
  <2> QED  BY <2>1, <2>2
<1>3. ASSUME root # 0
      PROVE  DOMAIN tables =
                {root} \cup Below({root}) \cup Below(Below({root})) \cup Below(Below(Below({root})))
  <2>1. PICK lvl : Tree(lvl)
    BY <1>1, <1>3 DEF TreeOK
  <2> DEFINE S(n) == {t \in DOMAIN tables : lvl[t] = n}
  <2>2. {root} = S(1)
    BY <1>1, <1>3, <2>1 DEF TreeOK, Tree, Levelled
  <2>3. Below(S(1)) = S(2) /\ Below(S(2)) = S(3) /\ Below(S(3)) = S(4)
    <3>1. 1 \in 1 .. 3 /\ 2 \in 1 .. 3 /\ 3 \in 1 .. 3 /\ 1 + 1 = 2 /\ 2 + 1 = 3 /\ 3 + 1 = 4
      OBVIOUS
    <3> QED  BY <2>1, <3>1, BelowLevel
  <2>4. DOMAIN tables = S(1) \cup S(2) \cup S(3) \cup S(4)
    <3>1. \A t \in DOMAIN tables : lvl[t] \in 1 .. 4
      BY <2>1 DEF Tree, Levelled
    <3>2. \A t \in DOMAIN tables : lvl[t] = 1 \/ lvl[t] = 2 \/ lvl[t] = 3 \/ lvl[t] = 4
      BY <3>1
    <3> QED  BY <3>2
  <2> HIDE DEF S
  <2> QED  BY <2>2, <2>3, <2>4
<1> QED  BY <1>1, <1>2, <1>3 DEF FramesHaveOneOwner, OwnsOK

LEMMA InvGivesTranslation == VmmInv => TranslationIsTheLastMap
<1> SUFFICES ASSUME VmmInv, root # 0, NEW v \in DOMAIN wanted \cup ClientVirt \cup HeapRange
             PROVE  vmm_virt_to_phys(v) = IF v \in DOMAIN wanted THEN wanted[v] ELSE Absent
  BY DEF TranslationIsTheLastMap
<1>1. v \in Pages
  BY Spaces DEF VmmInv, MappedOK
<1> QED  BY <1>1 DEF VmmInv, MappedOK, Translated

\* Every usable frame is in the direct map.
LEMMA UsableIsMapped ==
    ASSUME NEW mm \in Memmaps, NEW p \in UsablePages(mm)
    PROVE  \E m \in BootMap(mm) : m.virt = HhdmBase + p /\ m.phys = p
<1>1. PICK i \in DOMAIN mm : mm[i].usable /\ p \in EntryPages(mm[i])
  BY DEF UsablePages
<1> DEFINE e == mm[i]
           P == PAGE_SIZE
<1>2. e.base \in Nat /\ e.length \in Nat /\ EntryEnd(e) \in Nat /\ P \in Nat \ {0} /\ e.base % P = 0
  <2>1. e \in Entry
    BY PmmAssumption
  <2>2. e.base \in Nat /\ e.length \in Nat
    BY <2>1 DEF Entry
  <2> QED  BY <1>1, <2>2, PmmAssumption DEF EntryEnd
<1> HIDE DEF e, P
<1>3. align_up(e.base) .. (EntryEnd(e) \div P - 1) \subseteq (e.base \div P) .. (align_up(EntryEnd(e)) - 1)
  <2>1. align_up(e.base) >= e.base \div P /\ EntryEnd(e) \div P <= align_up(EntryEnd(e))
    <3>1. ASSUME NEW x \in Nat  PROVE x \div P <= align_up(x)
      <4>1. x + P - 1 \in Nat /\ x <= x + P - 1
        BY <1>2
      <4> QED  BY <1>2, <4>1, DivMonotone DEF align_up, P
    <3> QED  BY <1>2, <3>1
  <2>2. /\ align_up(e.base) \in Int /\ e.base \div P \in Int
        /\ EntryEnd(e) \div P \in Int /\ align_up(EntryEnd(e)) \in Int
    BY <1>2 DEF align_up, P
  <2> QED  BY <2>1, <2>2
<1>4. p \in MappedFrames(e)
  BY <1>1, <1>3 DEF EntryPages, MappedFrames, e, P
<1>5. MapOf(i, HhdmBase + p, p) \in DirectMap(mm)
  BY <1>4 DEF DirectMap, e
<1> QED  BY <1>5 DEF BootMap, MapOf

LEMMA InvGivesKernel == VmmInv => KernelSeesItsMemory
<1> SUFFICES ASSUME VmmInv, stage \in {"heap", "running"}, root # 0
             PROVE  /\ \A p \in Usable \cup BitmapPages \cup DOMAIN tables :
                            vmm_virt_to_phys(HhdmBase + p) = p
                    /\ \A k \in 0 .. KernelPages - 1 : vmm_virt_to_phys(KernelVirt + k) = KernelPhys + k
  BY DEF KernelSeesItsMemory
<1>1. PmmInv /\ StageOK /\ OwnsOK /\ MappedOK /\ BootOK
  BY DEF VmmInv
<1>2. pass = "done" /\ memmap \in Memmaps
  BY <1>1 DEF StageOK, PmmInv, PmmTypeOK
<1>3. Usable \cup BitmapPages \cup DOMAIN tables \subseteq Usable
  <2>1. BitmapPages \subseteq Usable
    BY <1>1, InvGivesPlace DEF BitmapInUsableMemory
  <2>2. owned \subseteq Usable /\ DOMAIN tables \subseteq owned
    BY <1>1, <1>2 DEF PmmInv, OwnsOK
  <2> QED  BY <2>1, <2>2
<1>4. ASSUME NEW m \in BootMap(memmap)  PROVE vmm_virt_to_phys(m.virt) = m.phys
  <2>1. m.virt \in Pages
    BY <1>2, BootPages
  <2>2. Maps(m.virt, m.phys)
    BY <1>1 DEF BootOK
  <2> QED  BY <1>1, <2>1, <2>2 DEF MappedOK, Translated, Maps
<1>5. ASSUME NEW p \in Usable  PROVE vmm_virt_to_phys(HhdmBase + p) = p
  <2>1. PICK m \in BootMap(memmap) : m.virt = HhdmBase + p /\ m.phys = p
    BY <1>2, UsableIsMapped DEF Usable
  <2> QED  BY <1>4, <2>1
<1>6. ASSUME NEW k \in 0 .. KernelPages - 1  PROVE vmm_virt_to_phys(KernelVirt + k) = KernelPhys + k
  <2> DEFINE m == MapOf(Len(memmap) + 1, KernelVirt + k, KernelPhys + k)
  <2>1. m \in BootMap(memmap)
    BY DEF KernelMap, BootMap
  <2>2. m.virt = KernelVirt + k /\ m.phys = KernelPhys + k
    BY DEF MapOf
  <2> HIDE DEF m
  <2>3. vmm_virt_to_phys(m.virt) = m.phys
    BY <1>4, <2>1
  <2> QED  BY <2>2, <2>3
<1> QED  BY <1>3, <1>5, <1>6

LEMMA InvGivesHeap == VmmInv => HeapIsBacked
<1> SUFFICES ASSUME VmmInv, heap_head # 0
             PROVE  /\ \A k \in 1 .. HeapPages : vmm_virt_to_phys(HeapVirt + k - 1) = heap_frames[k]
                    /\ IsInjective(heap_frames)
  BY DEF HeapIsBacked
<1>1. StageOK /\ OwnsOK /\ MappedOK /\ HeapOK
  BY DEF VmmInv
<1>2. Len(heap_frames) = HeapPages /\ \A k \in 1 .. HeapPages : Backed(k)
  BY <1>1 DEF HeapOK
<1>3. root # 0
  <2> SUFFICES ASSUME root = 0  PROVE FALSE
    OBVIOUS
  <2>1. owned = {}
    BY <1>1 DEF StageOK
  <2>2. 1 \in DOMAIN heap_frames
    BY <1>1, <1>2, Spaces DEF OwnsOK
  <2>3. heap_frames[1] \in owned
    BY <1>1, <2>2 DEF OwnsOK, Range
  <2> QED  BY <2>1, <2>3
<1>4. ASSUME NEW k \in 1 .. HeapPages  PROVE vmm_virt_to_phys(HeapVirt + k - 1) = heap_frames[k]
  <2>1. HeapVirt + k - 1 \in Pages
    BY Spaces
  <2> QED  BY <1>1, <1>2, <1>3, <2>1 DEF MappedOK, Translated, Backed, Maps
<1> QED  BY <1>1, <1>4 DEF OwnsOK

\* The types, and the shape of a table and of a call in progress
\* (vmm.c:22-60).
THEOREM VmmTypesAreRight == Spec => []TypeOK
BY VmmInvariant, InvGivesTypes, PTL

\* A frame handed out is a page table, a heap page or a later caller's, never
\* two of them and never under the bitmap, and every table hangs on the root,
\* also after a vmm_map_page that gave up half way (vmm.c:27-60).
THEOREM EveryFrameHasOneOwner == Spec => []FramesHaveOneOwner
BY VmmInvariant, InvGivesOwners, PTL

\* Mapping or unmapping a page, with whatever tables that makes, changes the
\* translation of no other page (vmm.c:48-119).
THEOREM EachPageTranslatesAsLastMapped == Spec => []TranslationIsTheLastMap
BY VmmInvariant, InvGivesTranslation, PTL

\* On its own tables the kernel reaches every usable frame, the bitmap, every
\* page table and its own image (vmm.c:121-190).
THEOREM TheKernelSeesItsMemory == Spec => []KernelSeesItsMemory
BY VmmInvariant, InvGivesKernel, PTL

\* A heap that heap_init reports is backed whole, each page by its own frame,
\* although vmm_map_page does not say when it failed (heap.c:154-176).
THEOREM TheHeapIsBacked == Spec => []HeapIsBacked
BY VmmInvariant, InvGivesHeap, PTL
=============================================================================
