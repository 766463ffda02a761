-------------------------------- MODULE Vmm ---------------------------------
(***************************************************************************)
(* The page tables (src/kernel/vmm.c), on top of the physical memory       *)
(* manager of Pmm, from vmm_init through heap_init (src/kernel/heap.c) to  *)
(* the calls a running kernel may make.  A call of vmm_map_page is         *)
(* followed one table level at a time, because each level may need a frame *)
(* and vmm_map_page returns silently when there is none.                   *)
(*                                                                         *)
(* Virtual addresses are page numbers; the four 9-bit indices of the code  *)
(* become Fanout[level] entries per table.  A table entry is the frame it  *)
(* points at, or Absent.  Flags are left out: every mapping of the kernel  *)
(* is present and writable.                                                *)
(***************************************************************************)
EXTENDS Pmm, Functions

CONSTANTS
    Fanout,      \* entries per table, by level: <<512, 512, 512, 512>>
    HhdmBase,    \* first page of the direct map
    KernelVirt,  \* first page of the kernel's own mapping
    KernelPhys,  \* first frame of the kernel image
    KernelPages, \* pages of that mapping: 64 MB
    HeapVirt,    \* first page of the heap
    HeapPages,   \* pages of the heap: 16 MB
    ClientVirt   \* pages later callers map

Absent == -1
Levels == 4

\* Pages one entry of a table of each level spans.
Span == <<Fanout[2] * Fanout[3] * Fanout[4], Fanout[3] * Fanout[4], Fanout[4], 1>>
\* Mutant: the third index keeps only half of its bits.
IndexNarrow(virt, level) ==
    (virt \div Span[level]) % (IF level = 3 THEN Fanout[3] \div 2 ELSE Fanout[level])
Index(virt, level) == (virt \div Span[level]) % Fanout[level]

VARIABLES
    stage,        \* where the boot is
    root,         \* g_kernel_pagemap.pml4_phys, 0 without one
    tables,       \* frame of a table -> its entries
    queue,        \* calls vmm_init has still to make
    call,         \* the vmm_map_page call in progress, or NoCall
    heap_frames,  \* ghost: frames heap_init took, in order
    heap_head,    \* page of the first heap block, 0 without a heap
    client,       \* ghost: frames the later callers hold
    wanted,       \* ghost: what each page was last mapped to
    dropped       \* ghost: pages whose last vmm_map_page gave up

vmmVars == <<stage, root, tables, queue, call, heap_frames, heap_head, client, wanted, dropped>>
vars == <<pmmVars, vmmVars>>

NoCall == [level |-> 0, table |-> 0, virt |-> 0, phys |-> 0]

\* A call of vmm_map_page enters at the root table.
MapCall(virt, phys) == [level |-> 1, table |-> root, virt |-> virt, phys |-> phys]

\* The function f with its value at x set to y.
With(f, x, y) == [z \in DOMAIN f \cup {x} |-> IF z = x THEN y ELSE f[z]]

\* alloc_table clears the new table.
EmptyTable(level) == [i \in 0 .. Fanout[level] - 1 |-> Absent]

\* The walk of vmm_virt_to_phys; vmm_unmap_page takes it to the last table.
Step(table, virt, level) ==
    IF table = Absent THEN Absent ELSE tables[table][Index(virt, level)]
LeafTable(virt) == Step(Step(Step(root, virt, 1), virt, 2), virt, 3)
vmm_virt_to_phys(virt) == Step(LeafTable(virt), virt, 4)

-----------------------------------------------------------------------------
\* Frames of a memory map entry as vmm_init maps them: base rounded down,
\* top rounded up, whatever the type.
\* Mutant: the last page of an entry is left out.
MappedFramesButLast(e) == (e.base \div PAGE_SIZE) .. (align_up(EntryEnd(e)) - 2)
MappedFrames(e) == (e.base \div PAGE_SIZE) .. (align_up(EntryEnd(e)) - 1)

\* The calls vmm_init makes: for each entry of the map in its turn, page by
\* page, then for the kernel.
MapOf(turn, virt, phys) == [turn |-> turn, virt |-> virt, phys |-> phys]
DirectMap(mm) ==
    UNION {{MapOf(i, HhdmBase + phys, phys) : phys \in MappedFrames(mm[i])} : i \in DOMAIN mm}
KernelMap(mm) ==
    {MapOf(Len(mm) + 1, KernelVirt + k, KernelPhys + k) : k \in 0 .. KernelPages - 1}
BootMap(mm) == DirectMap(mm) \cup KernelMap(mm)
Before(m, n) == m.turn < n.turn \/ (m.turn = n.turn /\ m.phys <= n.phys)

\* The pages of a 48-bit address space, and those the heap has.
Pages == 0 .. Fanout[1] * Fanout[2] * Fanout[3] * Fanout[4] - 1
HeapRange == HeapVirt .. HeapVirt + HeapPages - 1

\* The kernel's map of the address space: direct map, kernel image, heap and
\* the pages of later callers do not overlap.  The last page of the heap
\* shares its table with the one before it: the heap starts where a table
\* does and is 16 MB long, eight tables.
ASSUME VmmAssumption ==
    /\ Fanout \in [1..Levels -> Nat \ {0}]
    /\ KernelPages \in Nat /\ {HhdmBase, KernelVirt, KernelPhys} \subseteq Nat
    /\ HeapVirt \in Nat \ {0} /\ HeapPages \in Nat /\ HeapPages >= 2
    /\ (HeapVirt + HeapPages - 1) % Fanout[Levels] # 0
    /\ HeapRange \cup ClientVirt \subseteq Pages
    /\ HeapRange \cap ClientVirt = {}
    /\ \A mm \in Memmaps :
        /\ \A m \in BootMap(mm) : m.virt \in Pages \ (HeapRange \cup ClientVirt)
        /\ \A m \in DirectMap(mm), n \in KernelMap(mm) : m.virt # n.virt

Init ==
    /\ PmmInit
    /\ stage = "pmm"
    /\ root = 0
    /\ tables = [t \in {} |-> EmptyTable(1)]
    /\ queue = {}
    /\ call = NoCall
    /\ heap_frames = <<>>
    /\ heap_head = 0
    /\ client = {}
    /\ wanted = [v \in {} |-> 0]
    /\ dropped = {}

\* kernel.c calls vmm_init whatever became of pmm_init; with a null bitmap
\* pmm_alloc_page reads through a null pointer, which is not modelled.
PmmStep ==
    /\ stage = "pmm"
    /\ \/ PlaceBitmap
       \/ FreeUsablePage
       \/ ClaimBitmapPage
    /\ stage' = IF pass' = "done" THEN "root" ELSE stage
    /\ UNCHANGED <<root, tables, queue, call, heap_frames, heap_head, client, wanted, dropped>>

\* vmm_init takes the root table; without a frame it returns at once.
vmm_init ==
    /\ stage = "root"
    /\ IF FreeFrames = {}
       THEN /\ stage' = "heap"
            /\ UNCHANGED <<pmmVars, root, tables, queue>>
       ELSE /\ pmm_alloc_page
            /\ root' = FirstFree
            /\ tables' = With(tables, FirstFree, EmptyTable(1))
            /\ queue' = BootMap(memmap)
            /\ stage' = "map"
    /\ UNCHANGED <<call, heap_frames, heap_head, client, wanted, dropped>>

\* The next vmm_map_page of vmm_init.
MapQueued ==
    /\ stage = "map" /\ call = NoCall /\ queue # {}
    /\ LET m == CHOOSE x \in queue : \A y \in queue : Before(x, y)
       IN  /\ call' = MapCall(m.virt, m.phys)
           /\ queue' = queue \ {m}
    /\ UNCHANGED <<pmmVars, stage, root, tables, heap_frames, heap_head, client, wanted, dropped>>

\* A machine that loads page tables with holes in them faults in the kernel.
vmm_load ==
    /\ stage = "map" /\ call = NoCall /\ queue = {}
    /\ stage' = IF dropped = {} THEN "heap" ELSE "faulted"
    /\ UNCHANGED <<pmmVars, root, tables, queue, call, heap_frames, heap_head, client, wanted, dropped>>

\* get_or_create_table at one level: follow the entry that is there, make a
\* table where there is none, or give up the whole call without a frame.
Slot == Index(call.virt, call.level)
SlotEntry == tables[call.table][Slot]
Descend(table) == [call EXCEPT !.level = @ + 1, !.table = table]

FollowEntry ==
    /\ SlotEntry # Absent
    /\ call' = Descend(SlotEntry)
    /\ UNCHANGED <<pmmVars, tables, dropped>>

\* Mutant: a table is made whether or not there is one already.
MakeTableAnyway ==
    /\ pmm_alloc_page
    /\ tables' = With([tables EXCEPT ![call.table][Slot] = FirstFree],
                       FirstFree, EmptyTable(call.level + 1))
    /\ call' = Descend(FirstFree)
    /\ UNCHANGED dropped
MakeTable ==
    /\ SlotEntry = Absent
    /\ pmm_alloc_page
    /\ tables' = With([tables EXCEPT ![call.table][Slot] = FirstFree],
                       FirstFree, EmptyTable(call.level + 1))
    /\ call' = Descend(FirstFree)
    /\ UNCHANGED dropped

GiveUp ==
    /\ SlotEntry = Absent
    /\ FreeFrames = {}
    /\ dropped' = dropped \cup {call.virt}
    /\ call' = NoCall
    /\ UNCHANGED <<pmmVars, tables>>

get_or_create_table ==
    /\ call.level \in 1 .. Levels - 1
    /\ FollowEntry \/ MakeTable \/ GiveUp
    /\ UNCHANGED <<stage, root, queue, heap_frames, heap_head, client, wanted>>

\* The last level: the entry is overwritten, whatever it was.
SetEntry ==
    /\ call.level = Levels
    /\ tables' = [tables EXCEPT ![call.table][Index(call.virt, Levels)] = call.phys]
    /\ wanted' = With(wanted, call.virt, call.phys)
    /\ dropped' = dropped \ {call.virt}
    /\ call' = NoCall
    /\ UNCHANGED <<pmmVars, stage, root, queue, heap_frames, heap_head, client>>

\* Mutant: heap_init maps what pmm_alloc_page returned without looking.
HeapPageUnchecked ==
    /\ stage = "heap" /\ call = NoCall /\ root # 0
    /\ Len(heap_frames) < HeapPages
    /\ IF FreeFrames = {} THEN UNCHANGED pmmVars ELSE pmm_alloc_page
    /\ LET phys == IF FreeFrames = {} THEN 0 ELSE FirstFree
       IN  /\ heap_frames' = Append(heap_frames, phys)
           /\ call' = MapCall(HeapVirt + Len(heap_frames), phys)
    /\ UNCHANGED <<stage, root, tables, queue, heap_head, client, wanted, dropped>>
\* heap_init: a frame for each page of the heap, or no heap at all.
HeapPage ==
    LET virt == HeapVirt + Len(heap_frames)
    IN  /\ stage = "heap" /\ call = NoCall
        /\ Len(heap_frames) < HeapPages
        /\ IF FreeFrames = {}
           THEN /\ stage' = "running"
                /\ UNCHANGED <<pmmVars, call, heap_frames>>
           ELSE /\ pmm_alloc_page
                /\ heap_frames' = Append(heap_frames, FirstFree)
                /\ call' = MapCall(virt, FirstFree)
                /\ UNCHANGED stage
        /\ UNCHANGED <<root, tables, queue, heap_head, client, wanted, dropped>>

HeapReady ==
    /\ stage = "heap" /\ call = NoCall
    /\ Len(heap_frames) = HeapPages
    /\ heap_head' = HeapVirt
    /\ stage' = "running"
    /\ UNCHANGED <<pmmVars, root, tables, queue, call, heap_frames, client, wanted, dropped>>

\* Callers of the running kernel: they take a frame, map a page of their
\* own to it, unmap it, and give back frames that are not mapped.
Running == stage = "running" /\ call = NoCall

TakeFrame ==
    /\ Running
    /\ pmm_alloc_page
    /\ client' = client \cup {FirstFree}
    /\ UNCHANGED <<stage, root, tables, queue, call, heap_frames, heap_head, wanted, dropped>>

GiveFrame(page) ==
    /\ Running
    /\ \A v \in ClientVirt : vmm_virt_to_phys(v) # page
    /\ pmm_free_page(page)
    /\ client' = client \ {page}
    /\ UNCHANGED <<stage, root, tables, queue, call, heap_frames, heap_head, wanted, dropped>>

vmm_map_page(virt, page) ==
    /\ Running
    /\ call' = MapCall(virt, page)
    /\ UNCHANGED <<pmmVars, stage, root, tables, queue, heap_frames, heap_head, client, wanted, dropped>>

vmm_unmap_page(virt) ==
    /\ Running /\ root # 0
    /\ LeafTable(virt) # Absent
    /\ tables' = [tables EXCEPT ![LeafTable(virt)][Index(virt, Levels)] = Absent]
    /\ wanted' = With(wanted, virt, Absent)
    /\ dropped' = dropped \ {virt}
    /\ UNCHANGED <<pmmVars, stage, root, queue, call, heap_frames, heap_head, client>>

Next ==
    \/ PmmStep \/ vmm_init \/ MapQueued \/ vmm_load
    \/ get_or_create_table \/ SetEntry
    \/ HeapPage \/ HeapReady
    \/ TakeFrame
    \/ \E page \in client : GiveFrame(page)
    \/ \E virt \in ClientVirt : vmm_unmap_page(virt) \/ \E page \in client : vmm_map_page(virt, page)

Spec == Init /\ [][Next]_vars

-----------------------------------------------------------------------------
\* Types, and the shape of the tables: every entry of an inner table is
\* absent or the frame of a table of the next level.
TypeOK ==
    /\ PmmTypeOK
    /\ stage \in {"pmm", "root", "map", "heap", "running", "faulted"}
    /\ root \in DOMAIN tables \cup {0}
    /\ call.level \in 0..Levels
    /\ call # NoCall => call.table \in DOMAIN tables
    /\ heap_head \in {0, HeapVirt}
    /\ heap_frames \in Seq(Nat) /\ client \subseteq Nat

\* The tables that the entries of some tables point at.
Below(set) == (UNION {Range(tables[t]) : t \in set}) \ {Absent}

\* Every frame handed out belongs to exactly one of the page tables, the
\* heap and the later callers, and nobody's frame is under the bitmap.  Every
\* table can be reached from the root, also one that was made for a page
\* whose vmm_map_page then gave up a level further down: no frame is lost.
FramesHaveOneOwner ==
    LET heap == Range(heap_frames)
        second == Below({root})
        third == Below(second)
    IN  /\ owned = DOMAIN tables \cup heap \cup client
        /\ DOMAIN tables \cap (heap \cup client) = {}
        /\ heap \cap client = {}
        /\ Cardinality(heap) = Len(heap_frames)
        /\ owned \cap BitmapExtent = {}
        /\ root # 0 => DOMAIN tables = {root} \cup second \cup third \cup Below(third)

\* Every address translates to what it was last mapped to, unless that call
\* gave up for want of a frame: no call of vmm_map_page or vmm_unmap_page
\* disturbs the translation of any other page, in whatever order tables are
\* made, and a page nobody mapped translates to nothing.
TranslationIsTheLastMap ==
    root # 0 => \A v \in DOMAIN wanted \cup ClientVirt \cup HeapRange :
        vmm_virt_to_phys(v) = IF v \in DOMAIN wanted THEN wanted[v] ELSE Absent

\* Once the kernel runs on its own tables, everything it reaches through the
\* direct map is there: the bitmap, every page table, including those made
\* while the direct map was being built, and every frame it may hand out.
KernelSeesItsMemory ==
    stage \in {"heap", "running"} /\ root # 0 =>
        /\ \A p \in Usable \cup BitmapPages \cup DOMAIN tables : vmm_virt_to_phys(HhdmBase + p) = p
        /\ \A k \in 0 .. KernelPages - 1 : vmm_virt_to_phys(KernelVirt + k) = KernelPhys + k

\* When heap_init reports a heap, each of its pages is backed by a frame of
\* its own, although vmm_map_page may have failed without saying so: a heap
\* page whose table could not be made leaves no frame for the next page, and
\* the last page of the heap never needs a table of its own.
HeapIsBacked ==
    heap_head # 0 =>
        /\ \A k \in 1..HeapPages : vmm_virt_to_phys(HeapVirt + k - 1) = heap_frames[k]
        /\ IsInjective(heap_frames)
=============================================================================
