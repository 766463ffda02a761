-------------------------------- MODULE Heap --------------------------------
(***************************************************************************)
(* The kernel heap (src/kernel/heap.c): a first-fit free list with         *)
(* splitting and coalescing inside one contiguous virtual region.          *)
(*                                                                         *)
(* Memory is abstracted to the block headers.  `block` maps the address of *)
(* every header that carries HEAP_MAGIC to the header's fields, so         *)
(* validate_block(a) succeeds exactly when a \in DOMAIN block; a header    *)
(* that coalesce() wipes leaves the domain.  The bytes of a data region    *)
(* are not modelled: clients are assumed to stay inside what they asked    *)
(* for, and never to write a word that looks like HEAP_MAGIC in front of a *)
(* pointer they have already freed.                                        *)
(*                                                                         *)
(* Ghost state of the clients: `held` maps each pointer they own to the    *)
(* size they asked for, `stale` holds the pointers they freed that kmalloc *)
(* has not handed out again.                                               *)
(***************************************************************************)
EXTENDS Integers, FiniteSets, FiniteSetsExt

CONSTANTS
    HeapStart,  \* virtual base of the region, heap_init's `start`
    HeapSize,   \* bytes of the region, heap_init's `initial_size`
    Hdr,        \* sizeof(heap_block_t): 29, the struct is packed
    MinSplit,   \* HEAP_MIN_SPLIT
    Align,      \* granule kmalloc rounds sizes to: 16
    Requests    \* sizes the clients ask for; size + 15 does not wrap

ASSUME HeapAssumption ==
    /\ HeapStart \in Nat \ {0}
    /\ Hdr \in Nat \ {0}
    /\ HeapSize \in Nat /\ HeapSize > Hdr
    /\ MinSplit \in Nat
    /\ Align \in Nat \ {0}
    /\ Requests \subseteq Nat

VARIABLES
    heap_head,  \* address of the first header, 0 before (or without) a heap
    heap_size,  \* committed bytes
    block,      \* header address -> header fields
    held,       \* pointer owned by a client -> bytes it asked for
    stale,      \* pointers freed and not handed out since
    halted      \* TRUE once validate_block or the double-free check halts

vars == <<heap_head, heap_size, block, held, stale, halted>>

-----------------------------------------------------------------------------
null == 0

HeapEnd == HeapStart + HeapSize

\* heap_block_t without its magic, which is membership in DOMAIN block.
Header == [size : Nat, free : BOOLEAN, next : Nat, prev : Nat]

data_ptr(a) == a + Hdr
get_header(p) == p - Hdr

\* The first byte behind the block whose header is at a.
BlockEnd(b, a) == a + Hdr + b[a].size

RoundUp(n) == ((n + Align - 1) \div Align) * Align

-----------------------------------------------------------------------------
\* The list surgery, as functions from heaps to heaps.

\* Cut block a down to n bytes and put a free block behind them.
Carve(b, a, n) ==
    LET new == data_ptr(a) + n
    IN  [x \in DOMAIN b \union {new} |->
            IF x = a THEN [b[a] EXCEPT !.size = n, !.next = new]
            ELSE IF x = new
            THEN [size |-> b[a].size - n - Hdr, free |-> TRUE,
                  next |-> b[a].next, prev |-> a]
            ELSE IF x = b[a].next THEN [b[x] EXCEPT !.prev = new]
            ELSE b[x]]

\* Mutant: the remainder is compared with nothing but zero.
SplitNoFloor(b, a, n) == IF b[a].size = n THEN b ELSE Carve(b, a, n)

\* split_block: carve, unless the remainder is too small to be worth a header.
split_block(b, a, n) ==
    IF b[a].size - n <= Hdr + MinSplit THEN b ELSE Carve(b, a, n)

\* Mutant: the block behind the absorbed one still points back at it.
AbsorbNoRelink(b, a, x) ==
    [y \in DOMAIN b \ {x} |->
        IF y = a
        THEN [b[a] EXCEPT !.size = @ + Hdr + b[x].size, !.next = b[x].next]
        ELSE b[y]]

\* One merge of coalesce: block a swallows its neighbour x, whose header is
\* wiped.
Absorb(b, a, x) ==
    [y \in DOMAIN b \ {x} |->
        IF y = a
        THEN [b[a] EXCEPT !.size = @ + Hdr + b[x].size, !.next = b[x].next]
        ELSE IF y = b[x].next THEN [b[y] EXCEPT !.prev = a]
        ELSE b[y]]

MergeNext(b, a) ==
    LET next == b[a].next
    IN  IF next # null /\ b[next].free THEN Absorb(b, a, next) ELSE b

MergePrev(b, a) ==
    LET prev == b[a].prev
    IN  IF prev # null /\ b[prev].free THEN Absorb(b, prev, a) ELSE b

\* Mutant: only the block behind is looked at.
CoalesceNextOnly(b, a) == MergeNext(b, a)

coalesce(b, a) == MergePrev(MergeNext(b, a), a)

\* kmalloc once it has chosen block a for n (rounded) bytes.
Allocate(b, a, n) == [split_block(b, a, n) EXCEPT ![a].free = FALSE]

\* Mutant: kfree coalesces without marking the block free.
ReleaseUnmarked(b, a) == coalesce(b, a)

\* kfree once it has accepted block a.
Release(b, a) == coalesce([b EXCEPT ![a].free = TRUE], a)

\* The blocks in use.
InUse(b) == {a \in DOMAIN b : ~b[a].free}

\* Mutant: the search takes any free block.
FitsAnyFree(b, n) == {a \in DOMAIN b : b[a].free}

\* The blocks that can serve n (rounded) bytes.
Fits(b, n) == {a \in DOMAIN b : b[a].free /\ b[a].size >= n}

\* Mutant: best fit.
BestFit(b, n) == CHOOSE a \in Fits(b, n) : \A x \in Fits(b, n) : b[a].size <= b[x].size

\* The block kmalloc takes.  The list is in address order (FirstFitIsTheWalk),
\* so the first fit on the walk from heap_head is the lowest address.
FirstFit(b, n) == CHOOSE a \in Fits(b, n) : \A x \in Fits(b, n) : a <= x

-----------------------------------------------------------------------------
Init ==
    /\ heap_head = null
    /\ heap_size = 0
    /\ block = [a \in {} |-> 0]
    /\ held = [p \in {} |-> 0]
    /\ stale = {}
    /\ halted = FALSE

\* heap_init records the region first and returns without a free list when
\* pmm_alloc_page runs dry, so the second disjunct leaves heap_head at 0.
heap_init ==
    /\ heap_size = 0
    /\ heap_size' = HeapSize
    /\ \/ /\ heap_head' = HeapStart
          /\ block' = [a \in {HeapStart} |->
                         [size |-> HeapSize - Hdr, free |-> TRUE,
                          next |-> null, prev |-> null]]
       \/ UNCHANGED <<heap_head, block>>
    /\ UNCHANGED <<held, stale, halted>>

\* kmalloc(n).  A NULL result (n = 0, no heap, no fit) changes nothing.
kmalloc(n) ==
    LET size == RoundUp(n)
    IN  IF n = 0 \/ Fits(block, size) = {}
        THEN UNCHANGED vars
        ELSE LET a == FirstFit(block, size)
                 p == data_ptr(a)
             IN  /\ block' = Allocate(block, a, size)
                 /\ held' = [q \in DOMAIN held \union {p} |->
                               IF q = p THEN n ELSE held[q]]
                 /\ stale' = stale \ {p}
                 /\ UNCHANGED <<heap_head, heap_size, halted>>

\* kfree(p), p # NULL: a header without the magic (validate_block) or one
\* already marked free halts the machine.
kfree(p) ==
    LET a == get_header(p)
    IN  IF a \notin DOMAIN block \/ block[a].free
        THEN /\ halted' = TRUE
             /\ UNCHANGED <<heap_head, heap_size, block, held, stale>>
        ELSE /\ block' = Release(block, a)
             /\ held' = [q \in DOMAIN held \ {p} |-> held[q]]
             /\ stale' = stale \union {p}
             /\ UNCHANGED <<heap_head, heap_size, halted>>

\* krealloc(p, n) for an owned p and n > 0 (krealloc(p, 0) is kfree(p) and
\* krealloc(NULL, n) is kmalloc(n)): kept in place when the block is large
\* enough, else moved, or refused with the old pointer still valid.
krealloc(p, n) ==
    LET a    == get_header(p)
        size == RoundUp(n)
    IN  IF block[a].size >= n
        THEN /\ held' = [held EXCEPT ![p] = n]
             /\ UNCHANGED <<heap_head, heap_size, block, stale, halted>>
        ELSE IF Fits(block, size) = {}
        THEN UNCHANGED vars
        ELSE LET to == FirstFit(block, size)
                 q  == data_ptr(to)
             IN  /\ block' = Release(Allocate(block, to, size), a)
                 /\ held' = [r \in (DOMAIN held \ {p}) \union {q} |->
                               IF r = q THEN n ELSE held[r]]
                 /\ stale' = (stale \ {q}) \union {p}
                 /\ UNCHANGED <<heap_head, heap_size, halted>>

\* Clients call in after heap_init, free what they own or, by mistake, what
\* they have already freed, and reallocate what they own.
Next ==
    \/ heap_init
    \/ /\ heap_size # 0
       /\ ~halted
       /\ \/ \E n \in Requests : kmalloc(n)
          \/ \E p \in DOMAIN held \union stale : kfree(p)
          \/ \E p \in DOMAIN held, n \in Requests \ {0} : krealloc(p, n)

Spec == Init /\ [][Next]_vars

-----------------------------------------------------------------------------
\* heap_get_used, heap_get_free and heap_get_total.
heap_get_used == MapThenSumSet(LAMBDA a : block[a].size, InUse(block))
heap_get_free == MapThenSumSet(LAMBDA a : block[a].size,
                               DOMAIN block \ InUse(block))
heap_get_total == heap_size

\* kmalloc's search loop as written: follow `next` from heap_head.
WalkFrom(n) ==
    LET walk[a \in DOMAIN block \union {null}] ==
            IF a = null THEN null
            ELSE IF block[a].free /\ block[a].size >= n THEN a
            ELSE walk[block[a].next]
    IN  walk[heap_head]

-----------------------------------------------------------------------------
\* The types of the variables.
TypeOK ==
    /\ heap_head \in {null, HeapStart}
    /\ heap_size \in {0, HeapSize}
    /\ DOMAIN block \subseteq Nat \ {0}
    /\ block \in [DOMAIN block -> Header]
    /\ DOMAIN held \subseteq Nat
    /\ held \in [DOMAIN held -> Nat]
    /\ stale \subseteq Nat
    /\ halted \in BOOLEAN

\* The parts of a well-formed heap b, for any function b from addresses to
\* headers: links agree with sizes, in both directions ...
Linked(b) ==
    \A a \in DOMAIN b :
        /\ b[a].next = (IF BlockEnd(b, a) = HeapEnd THEN null ELSE BlockEnd(b, a))
        /\ b[a].next # null => b[a].next \in DOMAIN b /\ b[b[a].next].prev = a
        /\ IF a = HeapStart THEN b[a].prev = null
                            ELSE b[a].prev \in DOMAIN b /\ b[b[a].prev].next = a

\* ... blocks lie inside the region and do not overlap ...
Apart(b) ==
    /\ \A a \in DOMAIN b : HeapStart <= a /\ BlockEnd(b, a) <= HeapEnd
    /\ \A a, x \in DOMAIN b : a < x => BlockEnd(b, a) <= x

\* ... and the first one starts the region.
WellFormed(b) ==
    /\ DOMAIN b \subseteq Nat \ {0}
    /\ b \in [DOMAIN b -> Header]
    /\ HeapStart \in DOMAIN b
    /\ Linked(b)
    /\ Apart(b)

\* Splitting and coalescing keep the free list a tiling of the region whose
\* links and sizes agree: the pointer surgery of split_block and coalesce
\* never loses, overlaps or mislinks a block (heap.c:79-140).
HeapWellFormed == heap_head # null => heap_head = HeapStart /\ WellFormed(block)

\* Block a of b is not a free block in front of another free block.
MergedAt(b, a) == b[a].free /\ b[a].next # null => ~b[b[a].next].free

Merged(b) == \A a \in DOMAIN b : MergedAt(b, a)

\* coalesce leaves no two adjacent free blocks, so freed memory is never
\* stranded in fragments that one merge would join (heap.c:100-140).
NoAdjacentFree == Merged(block)

\* The pointers of h and the blocks in use of b correspond one to one, and
\* each block is at least as large as what its owner asked for.
Owned(b, h) ==
    /\ DOMAIN h = {data_ptr(a) : a \in InUse(b)}
    /\ \A p \in DOMAIN h : h[p] <= b[get_header(p)].size

\* The blocks in use are exactly those behind the pointers the clients own,
\* and large enough.  With HeapWellFormed: no two live allocations share a
\* byte, whatever mix of kmalloc, kfree and krealloc led here
\* (heap.c:179-261).
HeldIsAllocated == Owned(block, held)

\* A pointer freed and not reissued since is always caught by kfree, either
\* by the magic check on a wiped header or by the free flag (heap.c:222-229).
StaleIsRejected ==
    \A p \in stale : get_header(p) \in DOMAIN block => block[get_header(p)].free

\* Once every allocation has been freed the heap is one free block again.
AllFreedIsWhole ==
    heap_head # null /\ held = [p \in {} |-> 0] =>
        /\ DOMAIN block = {HeapStart}
        /\ block[HeapStart].size = HeapSize - Hdr

\* The diagnostics account for every byte: used + free + headers = total.
Accounting ==
    heap_head # null =>
        heap_get_used + heap_get_free + Hdr * Cardinality(DOMAIN block)
            = heap_get_total

\* The search loop, which trusts the `next` pointers, finds the lowest fit.
FirstFitIsTheWalk ==
    \A n \in {RoundUp(r) : r \in Requests} :
        WalkFrom(n) = IF Fits(block, n) = {} THEN null ELSE FirstFit(block, n)

\* The machine halts only on a pointer that was already freed: kfree never
\* rejects a live one.
HaltsOnlyOnDoubleFree ==
    [][halted' /\ ~halted => \E p \in stale : kfree(p)]_vars

\* heap.c:182-183 says rounding the size "ensures natural alignment for all
\* basic types": that the pointers handed out are multiples of 16.
PointersAligned == \A p \in DOMAIN held : p % Align = 0
=============================================================================
