-------------------------------- MODULE Vfs --------------------------------
(***************************************************************************)
(* The virtual file system (src/kernel/vfs.c): path resolution, the table  *)
(* of open files and the current directory, over ramfs and one mounted     *)
(* volume.  The calls are actions for a client to use; a call that fails   *)
(* and changes nothing has no step here.                                   *)
(*                                                                         *)
(* A path is a sequence of tokens, "/" or a name, as a path string is cut  *)
(* at its slashes: "/a/.." is <<"/", "a", "/", "..">>.  Names shorter than *)
(* VFS_NAME_MAX and paths shorter than VFS_PATH_MAX are never truncated.   *)
(*                                                                         *)
(* The mounted volume is a FAT32 disk that is empty and full, no entry and *)
(* no cluster to be had: its lookup finds nothing and its create fails.    *)
(***************************************************************************)
EXTENDS Ramfs, SequencesExt

CONSTANTS
    fat_root,        \* address of the node fat32_mount returns
    FirstFd,         \* 3
    VFS_MAX_FDS,     \* 32
    MAX_DEPTH,       \* 16, the parts vfs_getcwd has room for
    Junk             \* what an uninitialised name buffer may hold

ASSUME VfsAssumption ==
    /\ fat_root \notin Node \union {NULL}
    /\ FirstFd \in Nat /\ VFS_MAX_FDS \in Nat /\ FirstFd < VFS_MAX_FDS
    /\ MAX_DEPTH \in Nat \ {0}

VARIABLES
    fd_table,   \* the fds in use, with their node and offset
    cwd,
    fd          \* what the last vfs_open returned, -1 for every error

vfs == <<ramfs, fd_table, cwd, fd>>

-----------------------------------------------------------------------------
\* Path resolution.

\* Entering a directory that something is mounted on enters the volume.
Enter(ns, n) == IF n # NULL /\ ns[n].mount # NULL THEN ns[n].mount ELSE n

\* One component; the root is its own parent.
Step(ns, cur, comp) ==
    CASE cur = NULL -> NULL
      [] cur # NULL /\ comp \in {"", "."} -> cur
      [] cur # NULL /\ comp = ".." -> ns[cur].parent
      [] OTHER -> Enter(ns, ramfs_lookup(ns, cur, comp))

\* Where the components of a path lead, one after the other.
Walk(ns, path) ==
    LET cur[k \in 0 .. Len(path)] ==
            IF k = 0 THEN Enter(ns, IF Head(path) = "/" THEN root ELSE cwd)
            ELSE IF path[k] = "/" THEN cur[k - 1]
            ELSE Step(ns, cur[k - 1], path[k])
    IN  cur[Len(path)]

\* next_comp leaves its buffer as it was when there is no further component:
\* it then holds the last one, or, if there was none, what the stack held.
Stale(path) ==
    LET comps == {i \in DOMAIN path : path[i] # "/"}
    IN  IF comps = {} THEN Junk
        ELSE {path[CHOOSE i \in comps : \A j \in comps : j <= i]}

\* The loop of vfs_resolve, which stops right after the last component only
\* if that is an ordinary name at the very end of the path.  After "." and
\* "..", after a trailing slash, and on "/" itself, it takes one more turn
\* with the stale buffer.
vfs_resolve(ns, path, stale) ==
    CASE path = <<>> -> cwd
      [] path # <<>> /\ Last(path) \in {"/", ".", ".."} -> Step(ns, Walk(ns, path), stale)
      [] OTHER -> Walk(ns, path)

\* A path up to its last slash, and the name after it.
UpTo(path) ==
    LET slashes == {i \in DOMAIN path : path[i] = "/"}
        last == CHOOSE i \in slashes : \A j \in slashes : j <= i
    IN  IF slashes = {} THEN <<>> ELSE SubSeq(path, 1, last)

\* What vfs_resolve and resolve_parent may return for a path.
Resolved(ns, path) == {vfs_resolve(ns, path, stale) : stale \in Stale(path)}

resolve_parent(ns, path) ==
    CASE Len(UpTo(path)) = 0 -> {cwd}
      [] Len(UpTo(path)) = 1 -> {root}
      [] OTHER -> Resolved(ns, Front(UpTo(path)))

NameIn(path) == IF Last(path) = "/" THEN "" ELSE Last(path)

-----------------------------------------------------------------------------
\* vfs_getcwd: the names from the root down, but no more than the MAX_DEPTH
\* nearest the current directory.
vfs_getcwd ==
    LET up[k \in 0 .. MAX_DEPTH] == IF k = 0 THEN cwd ELSE nodes[up[k - 1]].parent
        depth == Cardinality({k \in 0 .. MAX_DEPTH - 1 : up[k] # root})
        part(k) == nodes[up[depth - k]].name
        buf[k \in 0 .. depth] ==
            IF k = 0 THEN <<>>
            ELSE buf[k - 1] \o IF part(k) = "" THEN <<"/">> ELSE <<"/", part(k)>>
    IN  IF depth = 0 THEN <<"/">> ELSE buf[depth]

-----------------------------------------------------------------------------
\* A directory that a new entry can be made in: the disk has no room.
CanCreateIn(dir, name) ==
    /\ dir # NULL
    /\ dir # fat_root
    /\ CanCreate(nodes, dir, name)

vfs_mkdir(path) ==
    /\ NULL \in Resolved(nodes, path)
    /\ \E dir \in resolve_parent(nodes, path) :
        /\ CanCreateIn(dir, NameIn(path))
        /\ ramfs_create(dir, NameIn(path), DIR)
    /\ UNCHANGED <<fd_table, cwd, fd>>

\* vfs_unlink: the file system of the parent removes the node, whatever file
\* system the node is of.
vfs_unlink(path) ==
    /\ \E n \in Resolved(nodes, path) \ {NULL, root} :
        ramfs_unlink(nodes[n].parent, n)
    /\ UNCHANGED <<fd_table, cwd, fd>>

vfs_chdir(path) ==
    /\ cwd' \in {n \in Resolved(nodes, path) \ {NULL} : nodes[n].type = DIR}
    /\ UNCHANGED <<ramfs, fd_table, fd>>

-----------------------------------------------------------------------------
\* Open files.
Unused == (FirstFd .. VFS_MAX_FDS - 1) \ DOMAIN fd_table
alloc_fd == IF Unused = {} THEN -1 ELSE CHOOSE i \in Unused : \A j \in Unused : i <= j

\* The end of vfs_open, with its node found or made in the table ns.
OpenNode(ns, n, flags) ==
    /\ fd' = alloc_fd
    /\ IF alloc_fd = -1
       THEN nodes' = ns /\ UNCHANGED fd_table
       ELSE /\ nodes' = IF "TRUNC" \in flags THEN [ns EXCEPT ![n].size = 0] ELSE ns
            /\ fd_table' =
                 [f \in DOMAIN fd_table \union {alloc_fd} |->
                    IF f = alloc_fd
                    THEN [node |-> n,
                          offset |-> IF "APPEND" \in flags /\ "TRUNC" \notin flags
                                     THEN ns[n].size ELSE 0]
                    ELSE fd_table[f]]

vfs_open(path, flags) ==
    /\ \E n \in Resolved(nodes, path), dir \in resolve_parent(nodes, path) :
        LET name == NameIn(path)
            creates == n = NULL /\ "CREATE" \in flags /\ CanCreateIn(dir, name)
        IN  \/ /\ creates
               /\ \E m \in Node \ Live :
                    OpenNode(Created(nodes, dir, name, FILE, m), m, flags)
               /\ allocs' = Plus(allocs, BlocksOf(FILE))
            \/ /\ creates
               /\ \E failing \in AllocationsOf(FILE) :
                    allocs' = Minus(Plus(allocs, Got(failing)), Freed(failing))
               /\ fd' = -1
               /\ UNCHANGED <<nodes, fd_table>>
            \/ /\ n # NULL
               /\ nodes[n].type = FILE
               /\ OpenNode(nodes, n, flags)
               /\ UNCHANGED allocs
            \/ /\ ~ creates
               /\ n # NULL => nodes[n].type = DIR
               /\ fd' = -1
               /\ UNCHANGED <<ramfs, fd_table>>
    /\ UNCHANGED cwd

\* Mutant: forgets to give the fd back.
CloseKeepsFd(f) == UNCHANGED <<ramfs, fd_table, cwd, fd>>

vfs_close(f) ==
    /\ fd_table' = [g \in DOMAIN fd_table \ {f} |-> fd_table[g]]
    /\ UNCHANGED <<ramfs, cwd, fd>>

ReadResult(f, len) == ramfs_read(nodes, fd_table[f].node, fd_table[f].offset, len)

vfs_read(f, len) ==
    /\ fd_table' = [fd_table EXCEPT ![f].offset = @ + Len(ReadResult(f, len))]
    /\ UNCHANGED <<ramfs, cwd, fd>>

\* Whether ramfs_write may return len; it may always fail where it must grow.
CanWrite(f, len) == fd_table[f].offset + len <= RAMFS_MAX_FILESIZE
MayFail(f, len) == fd_table[f].offset + len > Len(nodes[fd_table[f].node].data)

\* Mutant: the size is left to ramfs.
WriteNoSize(f, bytes) ==
    /\ CanWrite(f, Len(bytes))
    /\ nodes' = Written(nodes, fd_table[f].node, fd_table[f].offset, bytes)
    /\ fd_table' = [fd_table EXCEPT ![f].offset = @ + Len(bytes)]
    /\ UNCHANGED <<allocs, cwd, fd>>

\* A write that succeeds.
vfs_write(f, bytes) ==
    LET n == fd_table[f].node
        after == fd_table[f].offset + Len(bytes)
        ns == Written(nodes, n, fd_table[f].offset, bytes)
    IN  /\ CanWrite(f, Len(bytes))
        /\ nodes' = [ns EXCEPT ![n].size = IF after > @ THEN after ELSE @]
        /\ fd_table' = [fd_table EXCEPT ![f].offset = after]
        /\ UNCHANGED <<allocs, cwd, fd>>

-----------------------------------------------------------------------------
\* vfs_init up to its first mkdir, and vfs_mount of the volume's root.
VfsInit ==
    /\ RamfsInit
    /\ fd_table = [f \in {} |-> NULL]
    /\ cwd = root
    /\ fd = -1

fat32_mount(ns) ==
    [n \in DOMAIN ns \union {fat_root} |->
        IF n = fat_root THEN NewNode("/", DIR, fat_root) ELSE ns[n]]

vfs_mount(path) ==
    LET ns == fat32_mount(nodes)
    IN  /\ \E mp \in Resolved(ns, path) :
            nodes' = IF mp # NULL /\ ns[mp].type = DIR
                     THEN [ns EXCEPT ![mp].mount = fat_root,
                                     ![fat_root].parent = ns[mp].parent]
                     ELSE ns
        /\ allocs' = Plus(allocs, BlocksOf(DIR))
        /\ UNCHANGED <<fd_table, cwd, fd>>

VfsTypeOK ==
    /\ root \in Live
    /\ Live \subseteq Node \union {fat_root}
    /\ IsTable(nodes)
    /\ DOMAIN fd_table \subseteq FirstFd .. VFS_MAX_FDS - 1
    /\ \A f \in DOMAIN fd_table :
        fd_table[f].node \in Node /\ fd_table[f].offset \in Nat
    /\ cwd \in Node \union {fat_root}
    /\ fd \in {-1} \union (FirstFd .. VFS_MAX_FDS - 1)
=============================================================================
