------------------------------- MODULE Ramfs -------------------------------
(***************************************************************************)
(* The RAM filesystem (src/kernel/ramfs.c).  nodes maps the address of     *)
(* every vfs_node_t that is allocated to its fields and those of the       *)
(* ramfs_inode_t its fs_data points to; the two are allocated and freed    *)
(* together.  The operators take the table of nodes as an argument, so     *)
(* that the VFS, which calls them in the middle of its own operations, can *)
(* compose them.  kmalloc may fail at any call; allocs counts what it has  *)
(* handed out.                                                             *)
(***************************************************************************)
EXTENDS Integers, Sequences, FiniteSets

CONSTANTS
    Node, root, NULL,     \* addresses of vfs_node_t; the root's; no address
    Names,                \* file names
    Bytes, ZERO,          \* the bytes written, and the zero byte
    Payloads,             \* what a caller may write, sequences of Bytes
    RAMFS_MAX_CHILDREN, RAMFS_MAX_FILESIZE, RAMFS_INITIAL_CAP

ASSUME RamfsAssumption ==
    /\ root \in Node
    /\ NULL \notin Node
    /\ Payloads \subseteq Seq(Bytes)
    /\ RAMFS_MAX_CHILDREN \in Nat
    /\ RAMFS_INITIAL_CAP \in Nat \ {0}
    /\ RAMFS_MAX_FILESIZE \in Nat
    /\ RAMFS_INITIAL_CAP <= RAMFS_MAX_FILESIZE

VARIABLES nodes, allocs

ramfs == <<nodes, allocs>>

FILE == "file"
DIR == "dir"
Live == DOMAIN nodes

-----------------------------------------------------------------------------
\* kmalloc(cap) and r_memset.
ZeroBuffer(cap) == [i \in 1 .. cap |-> ZERO]

\* alloc_node and alloc_inode with ramfs_create's initialisation.
NewNode(name, type, parent) ==
    [name |-> name, type |-> type, size |-> 0, parent |-> parent, mount |-> NULL,
     isize |-> 0,
     data |-> IF type = FILE THEN ZeroBuffer(RAMFS_INITIAL_CAP) ELSE <<>>,
     children |-> <<>>]

\* The first child with that name.
ramfs_lookup(ns, dir, name) ==
    LET ch == ns[dir].children
        hits == {i \in DOMAIN ch : ns[ch[i]].name = name}
    IN  IF ns[dir].type # DIR \/ hits = {}
        THEN NULL
        ELSE ch[CHOOSE i \in hits : \A j \in hits : i <= j]

\* Mutant: no limit on the children.
CanCreateUnbounded(ns, dir, name) ==
    ns[dir].type = DIR /\ ramfs_lookup(ns, dir, name) = NULL

\* The checks of ramfs_create.
CanCreate(ns, dir, name) ==
    /\ ns[dir].type = DIR
    /\ Len(ns[dir].children) < RAMFS_MAX_CHILDREN
    /\ ramfs_lookup(ns, dir, name) = NULL

\* The table after ramfs_create has linked a node at address n.
Created(ns, dir, name, type, n) ==
    [m \in DOMAIN ns \union {n} |->
        IF m = n THEN NewNode(name, type, dir)
        ELSE IF m = dir THEN [ns[m] EXCEPT !.children = Append(@, n)]
        ELSE ns[m]]

-----------------------------------------------------------------------------
\* The heap blocks of a new node: node, inode and, for a file, its buffer.
BlocksOf(type) == [node |-> 1, inode |-> 1, data |-> IF type = FILE THEN 1 ELSE 0]

Plus(a, b) == [k \in DOMAIN a |-> a[k] + b[k]]
Minus(a, b) == [k \in DOMAIN a |-> a[k] - b[k]]

\* Mutant: the buffer's failure path frees only the node.
FreedForgetsInode(failing) ==
    [node |-> IF failing # "node" THEN 1 ELSE 0, inode |-> 0, data |-> 0]

\* What ramfs_create has allocated, and what it frees, when the named one of
\* its three allocations fails.
Got(failing) ==
    [node |-> IF failing # "node" THEN 1 ELSE 0,
     inode |-> IF failing = "data" THEN 1 ELSE 0,
     data |-> 0]
Freed(failing) ==
    [node |-> IF failing # "node" THEN 1 ELSE 0,
     inode |-> IF failing = "data" THEN 1 ELSE 0,
     data |-> 0]

AllocationsOf(type) == {k \in {"node", "inode", "data"} : BlocksOf(type)[k] = 1}

-----------------------------------------------------------------------------
\* Mutant: copies from the start of the buffer.
ReadFromStart(ns, n, off, len) ==
    LET avail == ns[n].isize - off
    IN  IF off >= ns[n].isize
        THEN <<>>
        ELSE SubSeq(ns[n].data, 1, IF len < avail THEN len ELSE avail)

\* The bytes ramfs_read copies out.
ramfs_read(ns, n, off, len) ==
    LET avail == ns[n].isize - off
    IN  IF off >= ns[n].isize
        THEN <<>>
        ELSE SubSeq(ns[n].data, off + 1, off + (IF len < avail THEN len ELSE avail))

\* Mutant: doubles once.
DoubledOnce(cap, end) == 2 * cap

\* The first of 2 * cap, 4 * cap, ... that holds end bytes, cut at the limit.
NewCap(cap, end) ==
    LET new_cap[k \in 0 .. end] ==
            IF k = 0 THEN IF cap = 0 THEN RAMFS_INITIAL_CAP ELSE 2 * cap
            ELSE 2 * new_cap[k - 1]
        fits == {k \in 0 .. end : new_cap[k] >= end}
        least == new_cap[CHOOSE k \in fits : \A j \in fits : k <= j]
    IN  IF least > RAMFS_MAX_FILESIZE THEN RAMFS_MAX_FILESIZE ELSE least

\* Mutant: the old content is not copied.
GrownEmpty(node, end) ==
    IF end > Len(node.data)
    THEN ZeroBuffer(NewCap(Len(node.data), end))
    ELSE node.data

\* The buffer that a write up to end goes into.
Grown(node, end) ==
    IF end > Len(node.data)
    THEN [i \in 1 .. NewCap(Len(node.data), end) |->
            IF i <= node.isize THEN node.data[i]
            ELSE ZeroBuffer(NewCap(Len(node.data), end))[i]]
    ELSE node.data

\* The table after ramfs_write has succeeded.
Written(ns, n, off, bytes) ==
    LET end == off + Len(bytes)
        buffer == Grown(ns[n], end)
        isize == IF end > ns[n].isize THEN end ELSE ns[n].isize
    IN  [ns EXCEPT ![n] =
          [@ EXCEPT !.data = [i \in DOMAIN buffer |->
                                IF i \in off + 1 .. end THEN bytes[i - off] ELSE buffer[i]],
                    !.isize = isize,
                    !.size = IF end > ns[n].isize THEN end ELSE ns[n].size]]

\* Mutant: a directory may be deleted with its children in it.
CanUnlinkAny(ns, n) == TRUE

CanUnlink(ns, n) == ~ (ns[n].type = DIR /\ ns[n].children # <<>>)

\* The children after the one entry has been taken out and the rest shifted.
WithoutChild(ch, n) ==
    LET hits == {i \in DOMAIN ch : ch[i] = n}
        first == CHOOSE i \in hits : \A j \in hits : i <= j
    IN  IF hits = {}
        THEN ch
        ELSE [j \in 1 .. Len(ch) - 1 |-> ch[IF j < first THEN j ELSE j + 1]]

\* The table after ramfs_unlink(parent, n).
Unlinked(ns, parent, n) ==
    [m \in DOMAIN ns \ {n} |->
        IF m = parent
        THEN [ns[m] EXCEPT !.children = WithoutChild(@, n)]
        ELSE ns[m]]

-----------------------------------------------------------------------------
\* The operations as steps, with every outcome of their allocations.
ramfs_create(dir, name, type) ==
    /\ CanCreate(nodes, dir, name)
    /\ \/ \E n \in Node \ Live :
            /\ nodes' = Created(nodes, dir, name, type, n)
            /\ allocs' = Plus(allocs, BlocksOf(type))
       \/ \E failing \in AllocationsOf(type) :
            /\ allocs' = Minus(Plus(allocs, Got(failing)), Freed(failing))
            /\ UNCHANGED nodes

\* Growing allocates the new buffer and frees the old: allocs is the same.
ramfs_write(n, off, bytes) ==
    /\ nodes[n].type = FILE
    /\ off + Len(bytes) <= RAMFS_MAX_FILESIZE
    /\ nodes' = Written(nodes, n, off, bytes)
    /\ UNCHANGED allocs

ramfs_unlink(parent, n) ==
    /\ CanUnlink(nodes, n)
    /\ nodes' = Unlinked(nodes, parent, n)
    /\ allocs' = Minus(allocs, BlocksOf(nodes[n].type))

\* ramfs_init.
RamfsInit ==
    /\ nodes = [n \in {root} |-> NewNode("/", DIR, root)]
    /\ allocs = BlocksOf(DIR)

\* The VFS passes nodes it has found in the tree and the parent it reads in
\* them, and never unlinks the root.
RamfsNext ==
    \E n \in Live :
        \/ \E name \in Names, type \in {FILE, DIR} : ramfs_create(n, name, type)
        \/ \E off \in 0 .. RAMFS_MAX_FILESIZE, bytes \in Payloads :
                ramfs_write(n, off, bytes)
        \/ n # root /\ ramfs_unlink(nodes[n].parent, n)

RamfsSpec == RamfsInit /\ [][RamfsNext]_ramfs

-----------------------------------------------------------------------------
IsTable(ns) ==
    \A n \in DOMAIN ns :
        /\ DOMAIN ns[n] = {"name", "type", "size", "parent", "mount",
                           "isize", "data", "children"}
        /\ ns[n].type \in {FILE, DIR}
        /\ ns[n].parent \in Node \union {n}
        /\ ns[n].isize \in Nat
        /\ ns[n].data \in Seq(Bytes \union {ZERO})
        /\ ns[n].children \in Seq(Node)
        /\ Len(ns[n].children) <= RAMFS_MAX_CHILDREN

RamfsTypeOK ==
    /\ root \in Live
    /\ Live \subseteq Node
    /\ IsTable(nodes)

\* A node is in the children of exactly one directory, once, and that is its
\* parent; nothing that was freed is still in a tree (ramfs.c:111-115, 193-210).
IsTree(ns) ==
    /\ \A n \in DOMAIN ns \ {root} :
        /\ ns[n].parent \in DOMAIN ns
        /\ \E i \in DOMAIN ns[ns[n].parent].children :
                ns[ns[n].parent].children[i] = n
    /\ \A d \in DOMAIN ns : \A i \in DOMAIN ns[d].children :
        /\ ns[d].type = DIR
        /\ ns[d].children[i] \in DOMAIN ns \ {root}
        /\ ns[ns[d].children[i]].parent = d
        /\ \A j \in DOMAIN ns[d].children :
                ns[d].children[i] = ns[d].children[j] => i = j
TreeOK == IsTree(nodes)

\* No two children of a directory have one name, so that lookup, which stops
\* at the first, can reach them all (ramfs.c:93-94).
NamesUnique ==
    \A d \in Live : \A i, j \in DOMAIN nodes[d].children :
        nodes[nodes[d].children[i]].name = nodes[nodes[d].children[j]].name => i = j

\* A file never outgrows its buffer or the limit, and its buffer is zero past
\* the content: what makes a gap read as zeros later (ramfs.c:150-173).
BuffersHoldTheirFiles ==
    \A n \in Live : nodes[n].type = FILE =>
        /\ nodes[n].isize <= Len(nodes[n].data)
        /\ Len(nodes[n].data) <= RAMFS_MAX_FILESIZE
        /\ \A i \in nodes[n].isize + 1 .. Len(nodes[n].data) : nodes[n].data[i] = ZERO

\* The heap blocks handed out are those of the nodes in the tree, also after
\* an operation failed half way (ramfs.c:97-109).
NothingLeaks ==
    allocs = [node |-> Cardinality(Live),
              inode |-> Cardinality(Live),
              data |-> Cardinality({n \in Live : nodes[n].type = FILE})]

-----------------------------------------------------------------------------
\* The path of a node: the names from the root down.
PathOf(ns, n) ==
    LET path[m \in DOMAIN ns] ==
            IF m = root THEN <<>> ELSE Append(path[ns[m].parent], ns[m].name)
    IN  path[n]

\* What is found by looking the path up, read from its first byte.
At(ns, p) ==
    LET walk[i \in 0 .. Len(p)] ==
            IF i = 0 THEN root ELSE ramfs_lookup(ns, walk[i - 1], p[i])
        n == walk[Len(p)]
    IN  [type |-> ns[n].type,
         content |-> ramfs_read(ns, n, 0, RAMFS_MAX_FILESIZE)]

TreeOf(ns) == [p \in {PathOf(ns, n) : n \in DOMAIN ns} |-> At(ns, p)]

\* Looked at by path and content, every operation of ramfs is one step of the
\* promised tree or leaves it alone (ramfs.c:87-212).
Promised == INSTANCE FileTree
    WITH MaxSize <- RAMFS_MAX_FILESIZE, tree <- TreeOf(nodes)
RefinesFileTree == Promised!TreeSpec
=============================================================================
