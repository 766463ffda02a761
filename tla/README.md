# Lons OS in TLA+

Lons OS is a small x86-64 kernel in C: one address space, one thread of
control, a shell in a graphical terminal, a RAM file system at `/` and a FAT32
volume at `/disk`. These modules specify it from the interrupt lines to the
pixels: memory from the boot loader's map to the heap, the path of a key and of
a mouse packet, the file systems, the disk driver and the window. TLC checks
them on small instances; TLAPS proves the main invariants of the heap, the
keyboard, both file systems and the shell that uses them, the page allocator and
the page tables, the disk driver, the interrupt handling and the window for every
value of their constants.

Paths below are relative to `src/kernel/`. Definitions keep the names of the C
functions and variables they stand for; `PROJECT.json` maps each one to its
lines.

## 1. Inventory

How the parts meet:

```
 IRQ0  IRQ1  IRQ12                     main loop (kernel.c:367-373)
   |     |     |                         |  hlt, clock, mouse_poll, kbd_haschar
 idt.c irq_handler ---- pic.c            |
   |     |     |                         +--> shell_key -> shell_run
 pit.c  keyboard.c  mouse.c              |       |
   |     ring        x, y, buttons  <----+       +--> gui.c -> framebuffer.c
 sched.c                                         +--> vfs.c --> ramfs.c -> heap.c -> vmm.c, pmm.c
                                                        \--> fat32.c -> ata.c
```

Nothing is locked. All interrupt gates clear IF, so a handler is never
interrupted; handlers and the main loop share the keyboard ring, the mouse
variables and `pit_ticks`. Everything below `vfs.c` is called by the main loop
alone (and by the boot, before `sti`), so within the file systems the hard
behaviours are not interleavings but failures: an allocation that fails half
way, a disk that is full, late or broken, the power that goes between two
sector writes, and long sequences of legal calls.

| Component | State | Operations | What is hard | What makes it correct |
|---|---|---|---|---|
| Heap, `heap.c` | doubly linked list of headers inside one region | `heap_init` `kmalloc` `kfree` `krealloc` | split and merge in any order; double free; half-failed init | headers tile the region, links and sizes agree, no two free neighbours, blocks in use = pointers held |
| Keyboard, `keyboard.c` | ring of 128, head, tail, shift | `kbd_irq_handler` `kbd_haschar` `kbd_getchar` | IRQ1 between any two steps of the reader; full ring; a key just before `hlt` | lossy FIFO; slot stable while read; nothing accepted is left behind |
| RAM file system, `ramfs.c` | nodes, inodes, buffers | `create` `lookup` `read` `write` `unlink` `readdir` | three allocations, any may fail; growth by copying; child array limit | a tree of uniquely named nodes; a file is an array of bytes with zero-filled gaps; no leak |
| VFS, `vfs.c` | fd table, current directory, mount pointers | `resolve` `open` `close` `read` `write` `seek` `mkdir` `unlink` `chdir` `getcwd` `mount` | a path's meaning after a change of tree or cwd; nodes freed while referred to; two copies of a size | paths mean the node they lead to; cwd and mounts stay alive; fds are given back |
| Shell, `kernel.c` | current command | `mkdir` `rm` `cd` `cat` `write` `append` and others that only show | a command that fails half way | every command returns and releases its file; what was written is kept |
| FAT32, `fat32.c` | FAT and clusters on disk; cached nodes and children | `mount` `lookup` `create` `write` `read` `unlink` | a stop between two sector writes; full disk; cache against disk | sound, disjoint chains; a file holds what was written to it; cache = disk |
| ATA, `ata.c` | device present, its size | `init` `read` `write` | a wait that gives up while the drive goes on; errors in the middle of a transfer | every call returns; a read that succeeds is true; a write that fails has written a prefix |
| Interrupts, timer, scheduler: `idt.c` `pic.c` `pit.c` `sched.c` | in-service, request and mask bits; ticks; one task in a ring | IRQ entry, EOI, `sched_yield` | EOI of IRQ0 sent twice; a switch inside a handler; interrupts during the boot | an EOI ends the interrupt it is for; every byte is served |
| Mouse and cursor, `mouse.c` | packet bytes and cycle; position, buttons; pixels saved under the cursor | `mouse_init`, IRQ12, `poll`, `draw`, `erase` | answers, keys and packets in one buffer; position moves while the cursor is drawn | decoder in step; erase restores what draw covered; the cursor ends up where the mouse is |
| Page allocator, `pmm.c` | bitmap, free count | `init` `alloc` `free` | page 0 is also NULL; roundings; the bitmap inside the memory it describes | count = clear bits; free = usable and nobody's |
| Page tables, `vmm.c` | four levels of tables | `init` `map` `unmap` `virt_to_phys` | running out of frames half way, silently | a page translates to its last mapping; the kernel reaches its memory through the direct map |
| Windows and terminal, `gui.c` | windows, focus, text cursor | create, focus, print, scroll, backspace, clear | line and scroll boundaries; drawing under the mouse cursor | the window is a terminal; nothing is drawn outside it |
| Framebuffer and console, `framebuffer.c` | pixels, text cursor | put, fill, print | clipping | nothing outside the screen is written |
| Clock, `rtc.c` | CMOS registers | `rtc_read` | an update between two register reads; 12-hour and BCD modes | the time read is one the clock showed |
| Boot and tables: `gdt.c` `context_switch.S` `linker.ld` `Makefile`; `limine.h` (vendored) | constant | set up once | - | - |

`PROJECT.json` lists under "hazards" each place where the code is hard to test,
with the properties that would notice it going wrong.

## 2. Modules

| Module | Models |
|---|---|
| `Heap`, `HeapProofs` | `heap.c`. The clients' pointers are ghost state |
| `CharFifo` | what the keyboard promises: a bounded FIFO that drops what does not fit |
| `Keyboard`, `KeyboardProofs` | `keyboard.c` and the part of the main loop that uses it; implements `CharFifo` |
| `FileTree` | what a file system promises: a map from paths to directories and files |
| `Ramfs` | `ramfs.c`; implements `FileTree` |
| `Vfs` | `vfs.c` over `Ramfs`, as operations for a client |
| `Shell`, `ShellProofs` | the commands of `kernel.c`, call by call, over `Vfs`; the proofs are about `Ramfs` too |
| `Fat32`, `Fat32Proofs` | `fat32.c`, one step per sector written, with stops in between |
| `Ata`, `AtaProofs` | `ata.c`, one step per poll, against a drive |
| `Pmm` | `pmm.c`, page by page |
| `Vmm`, `VmmProofs` | `vmm.c` and `heap_init`'s use of it, over `Pmm`; the proofs are about both |
| `Input`, `InputProofs` | 8042, both 8259, `idt.c`, `pic.c`, `pit.c`, `sched.c`, the interrupt side of `keyboard.c` and `mouse.c`, `mouse_init`, the main loop |
| `Terminal` | what the window promises: a grid of characters |
| `Screen`, `ScreenProofs` | `gui.c`, `framebuffer.c`, the cursor of `mouse.c` and the main loop, in pixels; implements `Terminal` |
| `MCKeyboard` `MCRamfs` `MCShell` `MCFat32` `MCVmm` `MCScreen` | values for TLC: key tables, payloads, the paths a user types, memory maps, symmetry |

Composition: `Shell` extends `Vfs`, which extends `Ramfs`; their operators take
the table of nodes as an argument, so that a call of the VFS that makes several
changes is one step. `Vmm` extends `Pmm` and takes its actions as they are;
`VmmProofs` shows that what it does to the allocator is something `Pmm` allows.
`Input` and `Screen` meet at the mouse: `Input` delivers packets whole and in
order, `Screen` starts from packets. `Keyboard` (the ring) refines what `Input`
keeps as a count. `Keyboard`, `Ramfs` and `Screen` instantiate their abstract
specification with a refinement mapping.

### Heap

`block` maps the address of every header with a valid magic to its fields, so
`validate_block(a)` is `a \in DOMAIN block` and a header wiped by `coalesce`
leaves the domain. `split_block` and `coalesce` are functions from heaps to
heaps with the same pointer assignments as the C; `coalesce` merges forward,
then backward. `kmalloc` takes the lowest fit; that the walk along `next` finds
the same block is `FirstFitIsTheWalk`. `heap_init` has two outcomes: it records
the region's size first, and leaves no list when a page cannot be had. A
client may also free a pointer twice (`stale`); the check that halts the
machine is `halted`. Data bytes are not modelled: clients write only inside
what they asked for and leave no magic number in front of a pointer they freed.
`kmalloc` with a size that wraps is left out (no caller asks for one).

### Keyboard

The handler is one action, as interrupts are off in it. The main loop is cut
where it reads or writes the ring: `Hlt`, `Poll`, `Check`, `Load`, `Advance`,
`Deliver`. `OtherIrq` is any interrupt that does not push a character; like
the handler it ends a `hlt` that has begun. `kbd_haschar` is defined as `bool`
in `keyboard.c` and declared as `int` in `keyboard.h`, so the caller tests bits
the callee does not set. In the compiled code these are the upper bits of the
tail index, which are zero as long as the ring has at most 256 slots: that is
why `KeyboardAssumption` bounds `BUFFER_SIZE`. Ctrl and alt are recorded by
the code and never read; they are left out.

### Ramfs, Vfs, Shell

A node stands for a `vfs_node_t` and the `ramfs_inode_t` behind it, which live
and die together; the two sizes the code keeps are `size` and `isize`. `allocs`
counts the heap blocks handed out, and every allocation may fail.
`ramfs_lookup` finds the first child of that name, as the loop does.

A path is a sequence of tokens, `"/"` and names. `vfs_resolve` is written with
the quirk of its loop: at the end of the path `next_comp` leaves its buffer as
it was, and the test `if (!comp[0]) break` looks at the old content; the loop
takes one more turn with it after `.`, `..`, a trailing slash and on `/` itself
(where the buffer is uninitialised: `Junk`). `Shell` issues the calls of each
command in the order of `shell_run`; a text and its newline are two writes, each
of which may fail. Commands that only display (`ls`, `stat`, `pwd`, ...) have no
step.

The mounted volume in `Shell` is a full and empty disk: its lookup finds
nothing and its create fails. That keeps path resolution, mounts and
`vfs_unlink` across the mount honest while `Fat32` models the volume itself.
When `rm` has freed the current directory or the volume's root the next prompt
reads freed memory; `Shell` stops there (`Dangling`, `Ended`).

### Fat32

The disk is `fat` and `unit`, clusters in units of 32 bytes, the size of a
directory entry. The unit of a file at offset i is written as `Data(name, i)`,
so a file that shows another's data, or a stale cluster's, is visible.
Every sector write is a step of its own and `Crash` may come between any two:
the disk stays, the cache is rebuilt from it on demand. `op` holds the locals
of the call in progress under their C names. `Loads` covers directories longer
than `FAT32_MAX_DIR_CHILDREN` and entries for which no memory was left.
Long-name entries exist on the disk from the start, as another system writes
them. The second FAT is never written by the code and is not modelled.

### Ata

Each read of the status register is a step (`Waits`, one disjunct per wait of
the code), and so is each command, each block of 256 words and each end of a
loop turn. Between two of them the drive may finish what it was asked, fail it
or do nothing (`DriveStep`); `polls` counts to `TIMEOUT`, and a call that gives
up leaves `command` in the drive. The drive is what the standard says the
registers do: it ignores commands while BSY or DRQ is set and may keep sectors
in a cache. What may be on the bus is `kind`: a drive, a packet device, no
drive, no bus (reads 0xFF, so ERR). What `ata_init` found is `disk_present`;
`result` counts for transfers only. Ghost state: `before`, what the sectors held
when the call began; `abandoned`, a command was left behind; `faulted`, the
drive lost a sector after it had taken it. The last two are the two ways in
which a later call may be misled, and the properties exclude exactly these.

### Pmm, Vmm

`Pmm` follows `pmm_init` through its passes, one page at a time, in bytes, so
that the roundings to pages and to bytes of the bitmap are the code's.
`PmmAssumption` is what the Limine protocol promises of a memory map.
`Vmm` runs the boot on top of it: `vmm_init` queues the direct map and the
kernel's own, each `vmm_map_page` goes down one level per step
(`get_or_create_table`, then `SetEntry`) and gives up silently without a frame
(`GiveUp`), `vmm_load` faults when there are holes, `heap_init` maps page by
page, and then callers take, map, unmap and give back frames in any order. The
ghost `wanted` is what each page was last mapped to, `owned` and `client` who
holds a frame. The kernel itself never calls `pmm_free_page` and
`vmm_unmap_page`; the module lets callers use them as `pmm.h` and `vmm.h` offer
them.

### Input

The 8042 has one output buffer (`obuf`) for keyboard, mouse and the
controller's own answers, and raises IRQ1 or IRQ12 for what it loads. Both
8259 keep request, service and mask bits; a non-specific end of interrupt ends
whatever has the highest priority. A handler is a `frame` that moves through
`entry`, `yield`, `first eoi`, `data`, `eoi`; devices act between any two. The
kernel's `pc` walks through the boot from the unmasking of the lines
(kernel.c:317) through `mouse_init`'s polling, `sched_init`, `sti`, the delay
loop and into the main loop with `hlt`. `sched_yield` switches from the one
task to itself: `context_switch` saves the stack and loads it again. A mouse
byte carries its packet and place so that the decoder's idea of a byte can be
compared with the truth. `Quiet` says that nobody touches keyboard or mouse
before the kernel is up; what happens otherwise is in section 6.

### Screen, Terminal

`fb` maps each pixel to what it shows: part of a character at an offset, the
frame, the desktop, the cursor. `Face` is the character shown for a byte:
`fb_put_char` has a question mark for each one outside 32 to 127, so for a Tab
that is typed and for the dashes of the welcome. `put`, `win_newline`, `win_scroll`,
`gui_backspace`, `gui_clear_window`, `gui_window_draw` are functions on the
console, with the code's comparisons. `Init` is the boot from `gui_init` on
(`kernel.c:342-364`): the window created and given the focus, then `print_ok`,
whose "OK" the boot console draws over the window at its own text cursor
(`BOOT_X`, `BOOT_Y`), off the window's cells; then the welcome and the prompt.
`FirstDraw` is the first `mouse_draw_cursor`. `draw_cursor` is two steps, save and draw,
between which IRQ12 may move the mouse (`CalmDraw` forbids it in the run, see
section 6). Each branch of the main loop erases the cursor, works and draws it
again. `handle_mouse_click` reads the buttons twice, as in the code.
A click on the title bar (`Focus`) draws the window anew without its text;
`wiped` remembers how many characters of the line went with it.
`Terminal` knows nothing of pixels: a grid, a text cursor, a line. The
refinement mapping looks below the cursor (`Restored`) and calls a cell torn
unless it holds all of one character. At the start the cells that the "OK" lies
in or across are torn (`Stained`); like any other cell they are overwritten,
scrolled and wiped.

## 3. Runs

| Run | Instance | States | Shows |
|---|---|---|---|
| `heap` | 400 bytes, 29-byte headers, minimum split 64, requests 0, 20, 90 | 33 305 | the list is sound, merged and agrees with the clients after every sequence of calls, double frees included |
| `keyboard` | 4 slots, 5 characters, shift | 84 598 | IRQ1 between any two steps: lossy FIFO, stable slot, and every accepted character reaches the shell |
| `ramfs` | 3 nodes besides the root, 3 names, 2 children a directory, files of up to 3 bytes in buffers of 1, 2, 3 | 12 307 | any operation in any order, any allocation failing: a uniquely named tree that owns exactly its blocks, and implements `FileTree` |
| `shell` | 3 nodes, every path of up to 3 tokens over `a`, `..`, `/`, paths around the mount, files of up to 3 bytes | 195 464 | what was written is kept in order, `cat` shows the file, no file stays open at the prompt, relative names mean the current directory |
| `memory` | 37 memory maps of 1 to 20 usable frames, page tables of 2, 1, 8, 4 entries, a heap of 2 pages, 2 client pages | 3 879 | frames are counted and owned once, tables translate to the last mapping, a heap that is reported exists |
| `fat32` | 3 clusters of 2 units, files of up to 3 units, 2 children cached | 269 435 | chains, files, directories and cache stay sound through stops, full disk and failed allocations |
| `ata` | 2 sectors and one address beyond, transfers of up to 2, 2 polls, all 4 kinds of bus | 430 592 | true reads, writes that are prefixes, nothing else changed, every call returns |
| `input` | 1 key, 2 packets, a yield every 2 ticks | 86 958 | each end of interrupt ends its own, the decoder stays in step, all input is handled |
| `screen` | 13 by 13 pixels, a window of 2 by 2 cells with pixels to spare, cursor of 6 by 6, a character and Tab | 53 368 | the window implements `Terminal`, nothing else on the screen changes, the line can be read but for what a click wiped, the cursor follows the mouse |
| `shell_paths` `shell_truncate` `ata_late` | as above | | disagreements, section 6 |

Why the bounds are enough. The heap region holds three blocks, so a block has
both neighbours free, one, or none, and the remainder falls on either side of
the split threshold. The ring fills with three characters, drops the fourth and
wraps within five. A Ramfs buffer is created, doubled and cut at the limit;
directories reach their limit and nest. The paths typed in `shell` cover each
way in which the loop of `vfs_resolve` can end, and an append finds room for its
text and none for its newline. The memory maps run from too small for the
bitmap, through one frame short at every point of the boot, to enough for
everything and a client; page 30 of the client lies where the direct map has no
page, page 60 next to the heap. In `fat32` a file spans two
clusters and ends before, at and after a cluster's end; a second file or
directory finds the disk full. Stops, between two writes and
between calls, and failed allocations are unlimited; `lost` remembers that there
was one, because from then on clusters may be lost and the cache may miss entries.
In `ata` a transfer crosses the end of
the disk in its second sector, and every wait can succeed at its first poll, at
its last, or give up. In `input` one key and two packets suffice for a key
between the bytes of a packet, a packet behind a packet and every request
pending at once; longer trains of packets repeat these states. In `screen` text
wraps, scrolls and backspaces across rows, a Tab is typed, and the "OK" lies
across all four cells; movements of 10 pixels up and down take the mouse from
the text to the title bar and back, so that a click wipes a line of no, one or
two characters, which is then typed on or erased; the cursor covers parts of the
text, the frame and the desktop beside the window.

`CHECK_DEADLOCK FALSE` appears where the machine really stops: `heap`, whose
double-free check halts it, and `memory`, where too little memory ends the boot.

Fairness. `keyboard`: weak fairness of the main loop (the processor executes
whenever it is not halted) and of `OtherIrq` (the timer is periodic and never
masked). `fat32`: weak fairness of the steps inside a call; nobody is obliged
to start a call. In `fat32` a `Crash` also ends a call, but none is required.
`ata`: weak fairness of the driver, none of the drive: `EveryCallReturns` holds
because polls are counted. `input`: weak fairness of handlers, of the
controller and of the timer; strong fairness of the kernel and of each line's
delivery, as they are interrupted again and again but not for good. The user
owes nothing. `screen`: weak fairness of the kernel; strong fairness of
`NoMoreKeys` (nobody types for ever) and of `ClockTick` (a second passes now and
then; a movement between `mouse_poll` and the drawing of the cursor that is
undone before the next poll is only corrected by the clock's redraw).

Each property has a mutant in `PROJECT.json`: a plausible slip in the code
that the property catches. Their definitions stand in the modules, marked
`Mutant:`, before the operator they alter, and no specification uses them.
Modules also define type and helper invariants that no configuration lists
(`Ata!TypeOK`, `Input!FullBufferIsAnnounced`, `Shell!TypeOK`,
`Vmm!BitmapInUsableMemory`, ...); they hold on the same instances and serve as
checks when the model is changed, several are proved (section 4).

## 4. Proofs

**Heap.** Assumption: `HeapAssumption` (the region is larger than a header,
sizes are naturals, the granule is positive). `HeapInvariant` shows that
`HeapInv` is inductive; `HeapTypes`, `HeapStaysWellFormed`, `HeapStaysMerged`,
`AllocationsAreSound`, `DoubleFreeIsCaught`, `FragmentationIsTransient` and
`HaltsAreDoubleFrees` follow for every region, header size, threshold, granule
and set of requests. The listed properties need each other: a kfree is only
known to hit a valid header because the pointers held correspond to blocks in
use (`Owned`); a wiped header is only known to be nobody's because blocks lie
apart (`Apart`); links are only repaired rightly because sizes and links agreed
before (`Linked`). `HeapInv` is their conjunction, with the types and the place
of the stale pointers. The lemmas follow the code: `Carve` keeps a heap
well-formed, `Absorb` does, hence `split_block` and `coalesce` do; a merge on
both sides of a freed block leaves no free pair, given there was none before.
`SearchFindsTheFirstFit` is about kmalloc's search, the recursion along `next`:
in every reachable heap it ends at the free block of least address that fits, or
at none if there is none. The blocks ahead of an address and those ahead of its
next block are the same but for the block there (`AheadSteps`), so a first block
from the end where walk and least fit disagree cannot exist (`WalkFinds`).

**Keyboard.** Assumption: `KeyboardAssumption` (2 to 256 slots; the tables map
scancodes to characters or NUL). `KeyboardInvariant` shows that `KeyboardInv`
is inductive: types; at `check` and `load` the ring is not empty, as only the
main loop removes; at `advance` the local character is the one in the tail's
slot, which a push cannot reach because it keeps one slot free. From it:
`KeyboardTypes`, `SlotsAreStable`, `GetcharFindsAChar`, and
`KeyboardImplementsFifo`, step by step: a push that fits appends to the abstract
queue, one that does not counts a loss, `Advance` is the abstract take, and
everything else stutters.

**RAM file system.** Assumption: `RamfsAssumption` (the limits are naturals, the
first capacity is positive and within the file limit, payloads are sequences of
bytes). `RamfsInv` says that the nodes form a tree, that siblings have different
names, that each node is sound (content within buffer, buffer within limit, zeros
behind the content, children within their array) and that the heap holds exactly
their blocks. `RamfsTypes`, `StaysATree`, `NamesStayUnique`,
`FilesFitTheirBuffers` and `NothingEverLeaks` follow for every set of names and
payloads and every limit. The tree is described by what the
code relies on: a node is among the children of exactly one directory, its
parent, and everything a child array points at is alive. `LinkedIsFs` and
`UnlinkedIsFs` show that creating and unlinking keep this, `LookupIsComplete`
that a lookup which finds nothing has seen every child (hence unique names),
`FailureFreesAll` that each failed allocation gives back what was allocated
before it, `DoublingReaches` and `NewCapFits` that repeated doubling arrives at a
capacity that holds the write, also after it is cut at the limit.

`RamfsImplementsFileTree` is about what is seen by path. `RamfsHasPaths` adds to
`RamfsInv` that every node has a path, that of its parent and its name
(`IsPaths`), and that a directory shows no bytes. Looking a node's path up leads
to the node (`PathDescends`: of the nodes it fails for take one with a shortest
path; its parent is led to, and finds it by name), so two nodes never share a
path (`PathsDiffer`) and the table of nodes and the tree of paths say the same
(`TreeIs`). Then a create that succeeds adds one path that was not there, a write
splices its bytes into one file and pads a gap with zeros whatever the buffer was
before (`WrittenIsSpliced`), an unlink removes one path below which there is
nothing, and a failed allocation is a stutter, for paths of every length.

**Shell and VFS.** Assumptions: those of the RAM file system; `VfsAssumption`
(the volume's root is no RAM node, there is at least one descriptor,
`vfs_getcwd` has room for at least one name); `ShellAssumption` (a path is typed
as names between slashes, the names of `RelativeMeansCwd` are ordinary ones, a
read asks for at least one byte). `ShellInv` (`ShellInvariant`) says

- `TreeInv`: without the volume's root the nodes are a sound RAM file system in
  which every node has a path, its parent's and its name, and no name is `/`, `.`
  or `..`; the volume is empty; nothing hangs below a mount point and the current
  directory is none;
- `Session`, `OpenFile`: which descriptor a command holds at each of its calls,
  and that its node is alive, as no command removes anything while it has a file
  open;
- `Progress`: a writer stands behind what it wrote, a reader behind what it has
  shown and, when it closes, at the end;
- `Kept`: what was taken of each file is at the start of its inode's content and
  as long as the node's size. Only this weaker form is inductive: truncation
  leaves the inode's size (section 6).

That `..` never names an entry is not a check in the code: `vfs_mkdir` and
`vfs_open` create only where nothing was found, and a path that ends in `.` or
`..` always leads somewhere, also with the extra turn of the loop (`DotsAreThere`).
`WalkExists` turns the recursion of the walk into its steps, `WalksAgree` says that
a walk depends on what is before it only. From the invariant follow
`WrittenStays`, `CatShowsAll`, `NoFileStaysOpen` and `ShellKeepsTheTree`.
`RelativeIsCwd` compares two loops: `AncestorsAre` says that going up from the
current directory meets the directories on its path, `GetcwdIsThePath` that
`vfs_getcwd` writes their names from the root down, and `NameIsWalkedFromCwd` that
the walk of that text passes the same directories in the opposite order, as
siblings differ in name (`LookupFinds`) and nothing is mounted on them; the last
name then ends the loop without the extra turn.

**Page allocator.** Assumption: `PmmAssumption` (usable entries are whole pages,
overlap nothing and leave out page 0, as `limine.h` says). `PmmInv` says for each
pass of `pmm_init` which bits are clear: in the third the usable pages visited
so far, in the fourth all usable ones without the part of the bitmap visited so
far, afterwards those neither under the bitmap nor handed out. It needs
`BitmapIsUsable`: the pages the bitmap is counted to fill lie inside the entry
found for it, which is arithmetic of roundings. `ImplementsPmm` shows that the
page tables, `heap_init` and the callers of `Vmm` touch the allocator only by its
operations, so `CountsAreRight`, `FreeMeansUnclaimed` and `BitmapIsUsableMemory`
hold of the whole boot, on every memory map.

**Page tables.** Assumption: `VmmAssumption`, the kernel's map of the address
space: direct map, kernel image, heap and the callers' pages lie apart and within
48 bits, and the last page of the heap does not start a table (it would not for
any heap of whole tables). `VmmInv` is inductive (`VmmInvariant`); its parts are

- `Tree`: each table sits at one level, hangs from one entry and is reached by
  the indices of the pages below it, so two pages share a last entry only if they
  are the same page. The frame condition of `SetEntry` follows: it changes what
  one page translates to. `MakeTable` changes nothing that translated before;
- who holds which frame: tables, heap and callers share none;
- the call in progress stands at the table its page leads to, so what it makes
  or sets lies on the path of that page;
- what `vmm_init` has mapped so far, and that a page it could not map is in
  `dropped`: `vmm_load` runs on holes only if the machine then faults;
- `heap_init`: a heap page whose mapping was given up had found no frame free,
  and nothing gives one back before the heap is reported, so `heap_init` ends at
  the next page. This needs that there is a next page, and that the last page
  finds its table made by the page before it.

`EveryFrameHasOneOwner`, `EachPageTranslatesAsLastMapped`, `TheKernelSeesItsMemory`
and `TheHeapIsBacked` follow for every memory map, number of entries per table,
heap size and order of later calls.

**FAT32.** Assumption: `Fat32Assumption` (at least two clusters, of at least one
sector of at least two units; making an 8.3 name twice makes it once; a call asks
for names and types that exist). The properties walk chains and trees:
`ChainsAreSound` says where a walk of the FAT ends, `OnDisk` is what is found by
walking every directory. No step changes a walk in a way one can write down at
once, so `Fat32Inv` says the same cluster by cluster. It states that the clusters
can be labelled:

- `own`, the entry whose chain the cluster is in, `pos`, its position there: the
  FAT links a cluster to the next of the same owner, no two share owner and
  position, and an entry owns the cluster it names as its first;
- `D`, the clusters of directories: they hold entries and, behind the end marker,
  nothing; a file's clusters hold what was written to it as far as its size goes;
- `dep`, the depth in the tree, which rules out a directory that lies in itself;
- the cache: a node agrees with its entry, the children of a loaded directory
  are the entries in the clusters it owns;
- the call in progress: which cluster it has marked and not yet hung anywhere
  (`Taken`, `Fresh`), that the chain being freed is freed from its head
  (`Freeing`), where in its chain it stands (`Along`) and that what it wrote so far
  is there.

A step then changes the labels of one or two clusters, and there is one lemma
per step (`JoinStep`, `EntryStep`, ...) that gives the new labels. Two cases need
care: a directory with more entries than are cached can be unlinked while it has
entries on the disk, and its clusters and all below lose their owner; after a
stop, so do the clusters of a chain that was being freed. That what the labels
say follows for the walks (`SoundChains`, `FilesAreWhole`, `DirectoriesAreWhole`,
`CacheIsRight`, `NothingIsLost`) is where the recursion is: a walk agrees with
`pos` step by step, it ends because there are more steps than clusters, and a
directory cluster that the walk from the root missed would have one nearer to the
root that it missed as well. `ChainsStaySound`, `FilesAlwaysHoldTheirData`,
`DirectoriesAlwaysParse`, `CacheAlwaysMatchesDisk` and `ClustersNeverLeak` follow
for every number and size of clusters and files and any number of stops and failed
allocations.

**Disk driver.** Assumption: `AtaAssumption` (the sectors asked for can be named
with 28 bits). `AtaInv` relates driver and drive: as long as no command was left
behind, what lies in the drive is the command of the running call for its
current sector, or nothing (`CommandIsOwn`); hence what the drive offers is what
the driver asked for, the buffer holds the sectors read so far (`ReadSoFar`) and
the disk those written so far (`WrittenSoFar`). `ReadsAreRight`,
`WritesArePrefixes` and the action property `OnlyWritesChangeSectors` follow for
every size of disk and transfer, every number of polls and everything the drive
may do in between, its cache included.

**Interrupts.** `InterruptInv`: at most one handler runs, with interrupts off;
what is in service is its interrupt on both controllers, and nothing once the
timer's handler has sent the first of its two ends; no interrupt is taken before
`sti`, and `sched_init` comes before that. From it `EndsAreOwn` and
`YieldFindsATask` (`current_task` is never NULL in `sched_yield`), for any number
of keys and packets and whatever the user does during the boot.
`DecoderStaysInStep` assumes `Quiet`, that keyboard and mouse are left alone
during the boot (section 6 shows what happens otherwise). `DecoderInv` says, for
each stage of `mouse_init`, which answer is on its way, so that the kernel reads
each itself; and from then on that a byte in the buffer belongs to the one
interrupt that is pending or being served (`Claimed`), so the mouse's handler
reads only the mouse's bytes, and that these arrive without gap or exchange
(`InOrder`): the bytes taken so far are three for each packet completed and as
many more as the decoder holds.

**Window.** Assumption: `ScreenAssumption`. Screen, window, font, cursor and texts
are any, and so is the set of bytes that have a glyph; the window lies on the
screen below the menu bar, two cursors fit side by side, and the rows above the
last hold the longest line (`Limit <= (Rows - 1) * Cols`: 254 characters on any
screen of 640 by 480 or more). The boot console's text cursor is anywhere with room
for "OK" and a further line, not below the window's last row: the boot log, which
starts at the top of the screen, is shorter than that.
Every theorem has `CalmDraw` as its hypothesis, as the code does not hold without
it (section 6). `ScreenInv` (`ScreenInvariant`) is inductive; it says

- `CursorPhase`: between saving and drawing, what is saved is what is there; while
  the main loop works on the window nothing is saved;
- `Picture`: below the mouse cursor the text cursor stands on a cell
  (`IsConsole`), the pixels below the last whole row are background, as scrolling
  moves them into it, and the frame is as it was drawn. Where "OK" may lie across
  the window's border is not counted as frame: the next click mends it.

The proof goes from pixels to cells once: each pixel of the content is in at most
one cell (`CellsApart`), a cell drawn over shows the character drawn
(`PutCharIs`), scrolling by one font height moves each row to the one before
(`ScrollIs`). The window that `print_ok` has drawn over is the terminal with the
cells under it torn (`BootedConsole`). Then each operation of the console is followed by the terminal's
(`Follows`: `PutFollows`, `NewlineFollows`, `BackspaceFollows`, `ClearFollows`),
and a text of any length by going through it (`PrintFollows`, by
`RecursionExists` and `CountingUp`). Drawing and erasing the mouse cursor
change nothing below it (`SaveLeaves`, `DrawLeaves`, `NothingSaved`). So every step
maps to a step of `Terminal` or to a stutter (`WindowIsATerminal`), and nothing
outside the content is touched but the clock (`FrameIsKept`). `LineStaysOnScreen`
is then shown of the terminal: the cells before the text cursor, in reading order
(`Place`), show the line (`Holds`), each its character's `Face`, and blanks for
the first `wiped` of them (`Mark`); a character adds one, a wrap on the last row
moves all of them up by a row, and they do not leave at the top as the line is
short enough.

**Only model-checked:** liveness (`EveryCharArrives`, `EveryCallReturns`,
`InputIsHandled`, `CursorFollowsMouse`), which needs fairness and ENABLED. Every safety
property that a passing run checks is proved.

## 5. Not modelled

- `rtc.c`: one call without state of its own. What is wrong with it can be read
  off the code (section 6); that a second passes is a choice in `Screen`.
- Boot tables, linker script, port wrappers, `limine.h`: constants, set up once in
  a straight line. The order of the boot that matters is in `Vmm` (memory),
  `Shell` (mounts) and `Input` (interrupts).
- Exceptions, which halt; a second task: nothing calls `sched_new_task`, so
  `context_switch` always switches from the one task to itself.
- More than one window: the kernel opens one, in the first slot. The boot log but
  for its last "OK": `gui_init` paints over it. The shapes of the font's characters
  and the colours of text, the decoration of the desktop: no property tells them
  apart.
- Access rights in page tables; the bytes between the two ends of a page.
- Names of 64 characters and paths of 256 and more, which the code truncates;
  the modules assume shorter ones. `vfs_seek`, which has no caller.
- Disk errors under FAT32: after the first ignored one (`fat32.c:115`) nothing is
  promised. Parsing of the boot sector, the bytes of 8.3 and long-name entries.
- A null bitmap when no memory holds it: `kernel.c` goes on and reads through it.
- `kmalloc` sizes within 15 of 2^64; corruption of a header by a client that
  writes outside its block.
- Mouse deltas beyond a signed byte, the keyboard's tables, modifiers.

## 6. Where code and documents disagree

Shown by a run:

- `shell_paths`: `vfs_resolve` (`vfs.c:45`) takes one more turn with a stale
  component: `/` may be `/tmp` or nothing, and a final `..` goes up twice.
- `shell_truncate`: truncation resets the node's size and not the inode's
  (`vfs.c:136`), so after a shorter write the old end is read again.
- `ata_late`: a call that timed out leaves its command in the drive; when the
  drive answers late, the next write's words go to the old command's sector and
  the call returns 0 (`ata.c:193`).

Shown by a property the modules define. To see the trace, list the property in
the configuration and run TLC:

| Property | Configuration | What happens |
|---|---|---|
| `Heap!PointersAligned` | `Heap.cfg` | rounding sizes to 16 is said to align pointers (`heap.c:182-183`); the packed 29-byte header makes the first one 13 mod 16 |
| `Shell!MountsLead` | `Shell.cfg` | `rm /disk` frees the root of the mounted volume and leaves the mount pointing at it (`vfs.c:201`); `rm` of the current directory leaves `cwd` dangling (`vfs.c:197`) |
| `Fat32!WritesUseShortNames` | `Fat32.cfg` | a deleted file's long-name entries stay (`fat32.c:704`) and rename the next file made in its slot at the next mount |
| `Ata!SuccessIsDurable` | `Ata.cfg` | FLUSH is sent while the drive is busy with the last sector and is ignored (`ata.c:206`): a write that returned 0 may be in the drive's cache |
| `Input!DecoderInStep` | `Input.cfg` with `Quiet = FALSE`, `SPECIFICATION Spec` | a key or a movement during `mouse_init` is taken for an answer (`mouse.c:259`, `269`, `273`), or an answer for a packet byte; the decoder is out of step until a byte with bit 3 clear arrives (`mouse.c:78`) |
| `Screen!FrameStays` | `Screen.cfg` with `CalmDraw = FALSE` | `draw_cursor` reads the position for every pixel (`mouse.c:174`): a movement in between leaves pieces of cursor behind and puts old pixels in the wrong place |

Read in the code, no run needed:

- `keyboard.h` says `kbd_getchar` blocks; it returns 0 on an empty ring. The
  header's `KEYBOARD_BUFFER_SIZE` is 256, the ring has 128 slots. Both shift keys
  share one flag, so releasing one ends the other's. `kbd_init` does not flush
  the 8042.
- `RAMFS_MAX_NODES` (`ramfs.h:14, 32`) limits nothing; the heap does.
- `vfs_mount` does not create the directory it mounts on; `vfs_open` creates the
  file before it looks for a free descriptor.
- The second FAT, described as a backup, is never written.
- Two names with one 8.3 form become two entries of that name after a mount;
  a name that starts with a dot is not listed again.
- `pmm.c:144-148` leaves it to `kernel.c` to notice that there was no room for
  the bitmap; `kernel.c` does not look.
- The test for 0xFF in `ata_init` is never reached: a floating bus has ERR set
  and the wait before fails first. ERR stays set after a failed command, so each
  later call fails at its first wait until a reset.
- `mouse.c:112` casts a movement to a signed byte after its sign was extended: one
  of more than 127 goes the other way.
- `mouse_poll` compares positions (`mouse.c:235`), so a movement there and back
  is no news although the cursor was drawn elsewhere in between; the clock's
  redraw mends it. `handle_mouse_click` reads the buttons twice
  (`kernel.c:280`): a press between the two reads is lost.
- A click on the title bar redraws the window and wipes its text (`gui.c:205`);
  the line typed so far is still there for Enter. The text cursor stays where it
  was.
- A Tab is stored in the line (`kernel.c:275`) and shown as a question mark
  (`framebuffer.c:161`), so that the line with a Tab and the one with a question
  mark look the same and are not the same to the shell.
- The boot's last "OK" (`kernel.c:347`) is printed after the window is drawn, by
  the boot console, which knows nothing of it: at its own place, which as a rule
  is inside the window and between the window's rows. It stays there until text
  is written over it, it scrolls away or a click wipes the window.
- A sector that the drive reports it failed to store is noticed only while
  `ata_wait_ready` polls: when the error is there before FLUSH is sent, the command
  clears it and `ata_write_sectors` returns 0 (`ata.c:206-207`). `WriteIsAPrefix`
  leaves such a write out (`faulted`).
- `rtc_read` masks the PM bit in BCD mode (`rtc.c:57`) before it tests it
  (`rtc.c:66`), so a 12-hour clock always reads as morning; it reads six
  registers one by one (`rtc.c:43`) and may tear.
- `context.S` and `context_switch.S` both define `context_switch`; the Makefile
  links the second.

## 7. Plan

What would add most from here:

1. Disk errors in `Fat32`: `Ata`'s promise (`WriteIsAPrefix`) in place of a disk
   that stores every sector, to find out which ignored errors cost more than the
   file being written.
2. `Vfs` over `Fat32` in place of the full and empty disk: open files of a volume
   whose cache is rebuilt.
3. `Rtc`: torn reads and conversions against the clock.
4. Proofs of what those modules promise. Of what the runs check today nothing is left
   but liveness.
