-------------------------------- MODULE Pmm ---------------------------------
(***************************************************************************)
(* The physical memory manager (src/kernel/pmm.c): one bit per page frame, *)
(* set when the frame is in use, and a running count of the free frames.   *)
(*                                                                         *)
(* Frames are named by their index.  Addresses are bytes, so the rounding  *)
(* of the code (to pages, and of the bitmap to bytes and to pages) is kept *)
(* with small values of PAGE_SIZE and of the bits per byte.  pmm_init is   *)
(* followed page by page: passes 3 and 4 are loops that clear and set one  *)
(* bit at a time and count as they go.                                     *)
(*                                                                         *)
(* Ghost state: `owned` holds the frames handed out and not given back.    *)
(***************************************************************************)
EXTENDS Integers, FiniteSets, FiniteSetsExt, Sequences

CONSTANTS
    PAGE_SIZE,  \* bytes of a page
    ByteBits,   \* bits of a byte of the bitmap: 8
    Memmaps     \* the memory maps the boot loader may pass

Entry == [base : Nat, length : Nat, usable : BOOLEAN]

\* Bounds of an entry's whole pages: base rounded up, end rounded down.
align_up(addr) == (addr + PAGE_SIZE - 1) \div PAGE_SIZE
EntryEnd(e) == e.base + e.length
EntryPages(e) == align_up(e.base) .. (EntryEnd(e) \div PAGE_SIZE - 1)

UsablePages(mm) == UNION {EntryPages(mm[i]) : i \in {j \in DOMAIN mm : mm[j].usable}}

\* What the Limine protocol promises of a map: usable entries are whole
\* pages, overlap nothing, and never include page 0.
ASSUME PmmAssumption ==
    /\ PAGE_SIZE \in Nat \ {0}
    /\ ByteBits \in Nat \ {0}
    /\ \A mm \in Memmaps :
        /\ mm \in Seq(Entry)
        /\ 0 \notin UsablePages(mm)
        /\ \A i \in DOMAIN mm : mm[i].usable =>
            /\ mm[i].base % PAGE_SIZE = 0 /\ mm[i].length % PAGE_SIZE = 0
            /\ \A j \in DOMAIN mm \ {i} :
                EntryEnd(mm[j]) <= mm[i].base \/ EntryEnd(mm[i]) <= mm[j].base

VARIABLES
    memmap,      \* the boot loader's map
    bitmap,      \* frames whose bit is set
    bitmap_base, \* physical address of the bitmap, NoBitmap while it is null
    free_pages,  \* running count
    pass,        \* where pmm_init is
    todo,        \* frames the running pass has still to visit
    owned        \* ghost: frames handed out

pmmVars == <<memmap, bitmap, bitmap_base, free_pages, pass, todo, owned>>

-----------------------------------------------------------------------------
NoBitmap == -1


highest_addr == Max({0} \cup {EntryEnd(memmap[i]) : i \in DOMAIN memmap})
total_pages == highest_addr \div PAGE_SIZE
bitmap_size == (total_pages + ByteBits - 1) \div ByteBits

Frames == 0 .. total_pages - 1
FreeFrames == Frames \ bitmap
Usable == UsablePages(memmap)

\* The pages the bitmap itself lies in.
\* Mutant: the size of the bitmap is rounded down to pages.
BitmapPagesRoundedDown == bitmap_size \div PAGE_SIZE
bitmap_pages_used == align_up(bitmap_size)
BitmapPages ==
    LET first == bitmap_base \div PAGE_SIZE
    IN  IF bitmap_base = NoBitmap THEN {} ELSE first .. first + bitmap_pages_used - 1

PmmInit ==
    /\ memmap \in Memmaps
    /\ bitmap = {}
    /\ bitmap_base = NoBitmap
    /\ free_pages = 0
    /\ pass = "place"
    /\ todo = {}
    /\ owned = {}

HoldsBitmap(e) == e.usable /\ e.length >= bitmap_size

\* Passes 1 and 2: the bitmap goes to the first usable entry that holds it,
\* with every frame marked used; without one pmm_init gives up.
PlaceBitmap ==
    LET fits == {i \in DOMAIN memmap : HoldsBitmap(memmap[i])}
    IN  /\ pass = "place"
        /\ IF fits = {}
           THEN /\ pass' = "failed"
                /\ UNCHANGED <<bitmap, bitmap_base, todo>>
           ELSE /\ bitmap_base' = memmap[Min(fits)].base
                /\ bitmap' = Frames
                /\ pass' = "free usable"
                /\ todo' = Usable
        /\ UNCHANGED <<memmap, free_pages, owned>>

\* Pass 3, one page of one usable entry.
FreeUsablePage ==
    /\ pass = "free usable"
    /\ IF todo # {}
       THEN /\ bitmap' = bitmap \ {Min(todo)}
            /\ free_pages' = free_pages + 1
            /\ todo' = todo \ {Min(todo)}
            /\ UNCHANGED pass
       ELSE /\ pass' = "claim bitmap"
            /\ todo' = BitmapPages
            /\ UNCHANGED <<bitmap, free_pages>>
    /\ UNCHANGED <<memmap, bitmap_base, owned>>

\* Mutant: the bitmap's pages stay in the count.
CountOutNot(page) == free_pages
CountOut(page) ==
    IF page \notin bitmap /\ free_pages > 0 THEN free_pages - 1 ELSE free_pages

\* Pass 4, one page of the bitmap: counted out only when it was counted in.
ClaimBitmapPage ==
    /\ pass = "claim bitmap"
    /\ IF todo # {}
       THEN LET page == Min(todo)
            IN  /\ bitmap' = bitmap \cup {page}
                /\ free_pages' = CountOut(page)
                /\ todo' = todo \ {page}
                /\ UNCHANGED pass
       ELSE /\ pass' = "done"
            /\ UNCHANGED <<bitmap, free_pages, todo>>
    /\ UNCHANGED <<memmap, bitmap_base, owned>>

\* The frame pmm_alloc_page returns: the first clear bit.
FirstFree == Min(FreeFrames)

\* pmm_alloc_page when a frame is free; otherwise it returns 0 and changes
\* nothing, which callers model as FreeFrames = {}.
pmm_alloc_page ==
    /\ pass = "done"
    /\ FreeFrames # {}
    /\ bitmap' = bitmap \cup {FirstFree}
    /\ free_pages' = free_pages - 1
    /\ owned' = owned \cup {FirstFree}
    /\ UNCHANGED <<memmap, bitmap_base, pass, todo>>

\* Called only with a frame pmm_alloc_page returned, as pmm.h asks.
pmm_free_page(page) ==
    /\ pass = "done"
    /\ page \in owned
    /\ bitmap' = bitmap \ {page}
    /\ free_pages' = free_pages + 1
    /\ owned' = owned \ {page}
    /\ UNCHANGED <<memmap, bitmap_base, pass, todo>>

PmmNext ==
    \/ PlaceBitmap \/ FreeUsablePage \/ ClaimBitmapPage
    \/ pmm_alloc_page
    \/ \E page \in owned : pmm_free_page(page)

PmmSpec == PmmInit /\ [][PmmNext]_pmmVars

-----------------------------------------------------------------------------
PmmTypeOK ==
    /\ memmap \in Memmaps
    /\ bitmap \subseteq Nat
    /\ bitmap_base \in Nat \cup {NoBitmap}
    /\ free_pages \in Nat
    /\ pass \in {"place", "failed", "free usable", "claim bitmap", "done"}
    /\ todo \subseteq Nat
    /\ owned \subseteq Nat

\* The running count agrees with the bitmap after every step, those in the
\* middle of pmm_init included: no page is counted twice by passes 3 and 4,
\* and no alloc or free loses one (what the `sysinfo` command prints).
CountMatchesBitmap ==
    pass \notin {"place", "failed"} => free_pages = Cardinality(FreeFrames)

\* The frames the bytes of the bitmap lie in.
BitmapExtent ==
    IF bitmap_base = NoBitmap THEN {}
    ELSE {p \in Frames : p * PAGE_SIZE < bitmap_base + bitmap_size
                          /\ bitmap_base < (p + 1) * PAGE_SIZE}

\* Once pmm_init is done a frame is free exactly when it is usable RAM that
\* is neither under the bitmap nor handed out: reserved memory is never
\* allocated, nothing is lost, and no client can overwrite the bitmap.
FreeIsUsableAndUnclaimed ==
    pass = "done" =>
        /\ FreeFrames = Usable \ (BitmapExtent \cup owned)
        /\ owned \subseteq Usable \ BitmapExtent

\* The bitmap lies whole in usable memory, whatever the sizes round to.
BitmapInUsableMemory == BitmapPages \subseteq Usable
=============================================================================
