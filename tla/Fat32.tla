------------------------------- MODULE Fat32 -------------------------------
(***************************************************************************)
(* The FAT32 driver (src/kernel/fat32.c), one step per sector it writes,   *)
(* so that the machine may stop between any two of them and come back with *)
(* the disk as it is and an empty cache.  What is only read between two    *)
(* writes is read in the step of the second.                               *)
(*                                                                         *)
(* The disk is fat, one entry per cluster, and unit, the clusters'         *)
(* contents in units of 32 bytes: the size of a directory entry.  A file's *)
(* data is written by the unit too, and the unit at offset i of a file     *)
(* stands for whatever was written there.  The second FAT is never touched *)
(* by the code; the disk itself does not fail.                             *)
(*                                                                         *)
(* cache is the tree of vfs_node_t with their fat32_inode_t.  A node is    *)
(* named by the place of its directory entry, which its inode stores.      *)
(* op is the call in progress: pc, and its local variables by their names  *)
(* in the code.  The VFS calls one operation at a time.                    *)
(***************************************************************************)
EXTENDS Integers, FiniteSets

CONSTANTS
    total_clusters,
    UnitsPerSector,       \* 16
    sectors_per_clus,
    FAT32_MAX_DIR_CHILDREN,
    Names, Short,         \* names to create; what 8.3 makes of them
    NewEntries,           \* the names and types that are asked for
    LongName, LongShort,  \* the names of a file that another system wrote
    Lengths,              \* bound: how many units are written at a time
    MaxSize               \* bound: units in a file

ASSUME Fat32Assumption ==
    /\ total_clusters \in Nat /\ total_clusters >= 2
    /\ sectors_per_clus \in Nat \ {0}
    /\ UnitsPerSector \in Nat /\ UnitsPerSector >= 2
    /\ FAT32_MAX_DIR_CHILDREN \in Nat
    /\ \A n \in Names : Short[n] \in Names /\ Short[Short[n]] = Short[n]
    /\ NewEntries \subseteq Names \X {"file", "dir"}
    /\ LongShort \in Names
    /\ MaxSize \in Nat
    /\ Lengths \subseteq 1 .. MaxSize

VARIABLES fat, unit, cache, op,
          lost   \* history: a crash or a failure made the cache or disk forget

disk == <<fat, unit>>
vars == <<disk, cache, op, lost>>

root_cluster == 2
Cluster == 2 .. total_clusters + 1
FREE == 0
EOC == -1
UnitsPerClus == sectors_per_clus * UnitsPerSector
Offset == 0 .. UnitsPerClus - 1

FILE == "file"
DIR == "dir"

\* What a unit may hold.
Zero == [kind |-> "zero"]
Deleted == [kind |-> "deleted"]
Dot(c) == [kind |-> "dot", first |-> c]
Lfn(name) == [kind |-> "lfn", name |-> name]
Entry(name, type, first, size) ==
    [kind |-> "entry", name |-> name, type |-> type, first |-> first, size |-> size]
Data(name, i) == [kind |-> "data", name |-> name, at |-> i]

At(place) == unit[place[1]][place[2]]
Put(place, u) == [unit EXCEPT ![place[1]][place[2]] = u]

-----------------------------------------------------------------------------
\* The cluster k places down the chain from c; FREE or EOC past its end.
Nth(f, c) ==
    LET walk[k \in 0 .. total_clusters] ==
            IF k = 0 THEN c
            ELSE LET prev == walk[k - 1] IN IF prev \in Cluster THEN f[prev] ELSE prev
    IN  walk
Chain(c) == {Nth(fat, c)[k] : k \in 0 .. total_clusters} \intersect Cluster

\* The place i units down the chain from c, and the indices in front of the
\* end marker, the first unit that was never used.
PlaceAt(c, i) == <<Nth(fat, c)[i \div UnitsPerClus], i % UnitsPerClus>>
InUse(c) ==
    {i \in 0 .. total_clusters * UnitsPerClus - 1 :
        \A j \in 0 .. i : PlaceAt(c, j)[1] \in Cluster /\ At(PlaceAt(c, j)) # Zero}

-----------------------------------------------------------------------------
\* The cache.
Root == <<0, 0>>

NewNode(name, type, first, size, parent) ==
    [name |-> name, type |-> type, first_cluster |-> first, file_size |-> size,
     parent |-> parent, children_loaded |-> FALSE, children |-> {}]

JustMounted == [n \in {Root} |-> NewNode("/", DIR, 0, 0, Root)]

\* The root's inode has cluster 0.
FirstOf(ca, d) == IF ca[d].first_cluster = 0 THEN root_cluster ELSE ca[d].first_cluster

\* The entries in front of the end marker.
EntriesIn(c) == {i \in InUse(c) : At(PlaceAt(c, i)).kind = "entry"}
EntrySet(c) == {PlaceAt(c, i) : i \in EntriesIn(c)}

\* The name an entry is listed under: that of a long-name entry just before.
ListedName(c, place) ==
    LET i == CHOOSE j \in InUse(c) : PlaceAt(c, j) = place
    IN  IF i > 0 /\ At(PlaceAt(c, i - 1)).kind = "lfn"
        THEN At(PlaceAt(c, i - 1)).name ELSE At(place).name

\* load_dir_children takes the first entries it finds, up to its limit: kept
\* are those that kzalloc had room for.
Loaded(ca, d, kept) ==
    LET c == FirstOf(ca, d)
        found == {i \in EntriesIn(c) : PlaceAt(c, i) \in kept}
        taken == {i \in found : Cardinality({j \in found : j < i}) < FAT32_MAX_DIR_CHILDREN}
        children == {PlaceAt(c, i) : i \in taken}
    IN  IF ca[d].children_loaded THEN ca
        ELSE [n \in DOMAIN ca \union children |->
                IF n \in children
                THEN NewNode(ListedName(c, n), At(n).type, At(n).first, At(n).size, d)
                ELSE IF n = d
                THEN [ca[n] EXCEPT !.children_loaded = TRUE, !.children = children]
                ELSE ca[n]]

\* A created node that found no place in children[] is only known to the
\* vfs_open that made it: once it is closed nothing leads there.
Closed ==
    LET listed == UNION {cache[d].children : d \in DOMAIN cache}
    IN  [n \in {Root} \union listed |-> cache[n]]

\* The caches that loading d may lead to.
Loads(d) ==
    IF d \notin DOMAIN Closed THEN {}
    ELSE IF cache[d].children_loaded THEN {Closed}
    ELSE {Loaded(Closed, d, kept) : kept \in SUBSET EntrySet(FirstOf(cache, d))}

\* Whether the cached directory has all the entries there are.
IsWhole(ca, d) == ca[d].children = EntrySet(FirstOf(ca, d))

fat32_lookup(ca, d, name) ==
    {n \in ca[d].children : ca[n].name = name}

Idle == [pc |-> "idle"]

-----------------------------------------------------------------------------
\* A directory is looked up in or listed for the first time.
Load(d) ==
    /\ op = Idle
    /\ cache[d].type = DIR
    /\ cache' \in Loads(d)
    /\ lost' = (lost \/ ~ IsWhole(cache', d))
    /\ UNCHANGED <<disk, op>>

-----------------------------------------------------------------------------
\* fat_alloc: the first free cluster is marked, then emptied by the sector;
\* new_c is 0 when the disk is full.

\* Mutant: leaves the marking to the caller.
AllocUnmarked ==
    /\ op.pc = "alloc"
    /\ LET free == {c \in Cluster : fat[c] = FREE}
       IN  IF free = {}
           THEN op' = [op EXCEPT !.pc = op.ret, !.new_c = 0]
           ELSE op' = [op EXCEPT !.pc = "zero", !.s = 0,
                                 !.new_c = CHOOSE c \in free : \A d \in free : c <= d]
    /\ UNCHANGED <<disk, cache, lost>>

\* Mutant: does not empty the cluster.
AllocDirty ==
    /\ op.pc = "alloc"
    /\ LET free == {c \in Cluster : fat[c] = FREE}
           c == CHOOSE x \in free : \A d \in free : x <= d
       IN  IF free = {}
           THEN op' = [op EXCEPT !.pc = op.ret, !.new_c = 0] /\ UNCHANGED fat
           ELSE /\ op' = [op EXCEPT !.pc = op.ret, !.new_c = c]
                /\ fat' = [fat EXCEPT ![c] = EOC]
    /\ UNCHANGED <<unit, cache, lost>>

fat_alloc ==
    /\ op.pc = "alloc"
    /\ LET free == {c \in Cluster : fat[c] = FREE}
           c == CHOOSE x \in free : \A d \in free : x <= d
       IN  IF free = {}
           THEN op' = [op EXCEPT !.pc = op.ret, !.new_c = 0] /\ UNCHANGED fat
           ELSE /\ op' = [op EXCEPT !.pc = "zero", !.s = 0, !.new_c = c]
                /\ fat' = [fat EXCEPT ![c] = EOC]
    /\ UNCHANGED <<unit, cache, lost>>

ZeroSector ==
    /\ op.pc = "zero"
    /\ unit' = [unit EXCEPT ![op.new_c] =
                  [u \in Offset |-> IF u \div UnitsPerSector = op.s THEN Zero ELSE @[u]]]
    /\ op' = IF op.s + 1 < sectors_per_clus
             THEN [op EXCEPT !.s = @ + 1]
             ELSE [op EXCEPT !.pc = op.ret]
    /\ UNCHANGED <<fat, cache, lost>>

\* Mutant: reads the next cluster after it has freed this one.
FreeReadsLate ==
    /\ op.pc = "free"
    /\ fat' = [fat EXCEPT ![op.cluster] = FREE]
    /\ op' = [op EXCEPT !.pc = "forget", !.cluster = FREE]
    /\ UNCHANGED <<unit, cache, lost>>

\* fat_free_chain.
fat_free_chain ==
    /\ op.pc = "free"
    /\ fat' = [fat EXCEPT ![op.cluster] = FREE]
    /\ op' = [op EXCEPT !.cluster = fat[op.cluster],
                        !.pc = IF fat[op.cluster] \in Cluster THEN "free" ELSE "forget"]
    /\ UNCHANGED <<unit, cache, lost>>

\* A new cluster is hung onto the last of a chain, and marked once more.
Extend ==
    /\ op.pc = "extend"
    /\ op.new_c # 0
    /\ fat' = [fat EXCEPT ![op.cluster] = op.new_c]
    /\ op' = [op EXCEPT !.pc = "mark"]
    /\ UNCHANGED <<unit, cache, lost>>

Mark ==
    /\ op.pc = "mark"
    /\ fat' = [fat EXCEPT ![op.new_c] = EOC]
    /\ op' = [op EXCEPT !.pc = "walk", !.cluster = op.new_c, !.clus_base = @ + UnitsPerClus]
    /\ UNCHANGED <<unit, cache, lost>>

\* On to the next cluster of the chain, or to a new one at its end.
NextCluster(o) ==
    IF fat[o.cluster] = EOC
    THEN [o EXCEPT !.pc = "alloc", !.ret = "extend"]
    ELSE [o EXCEPT !.cluster = fat[o.cluster], !.clus_base = @ + UnitsPerClus]

-----------------------------------------------------------------------------
\* fat32_create: a directory gets a cluster with "." and ".." first.
fat32_create(d, name, type) ==
    /\ op = Idle
    /\ cache[d].type = DIR
    /\ cache' \in Loads(d)
    /\ fat32_lookup(cache', d, name) = {}
    /\ op' = [call |-> "create", pc |-> IF type = DIR THEN "alloc" ELSE "walk",
              ret |-> "dots", new_c |-> 0, s |-> 0,
              dir |-> d, name |-> name, type |-> type, new_cluster |-> 0,
              cluster |-> FirstOf(cache, d), clus_base |-> 0]
    /\ lost' = (lost \/ ~ IsWhole(cache', d))
    /\ UNCHANGED disk

WriteDots ==
    /\ op.pc = "dots"
    /\ op.new_c # 0
    /\ unit' = [unit EXCEPT ![op.new_c] =
                  [u \in Offset |-> CASE u = 0 -> Dot(op.new_c)
                                      [] u = 1 -> Dot(FirstOf(cache, op.dir))
                                      [] u \in 2 .. UnitsPerSector - 1 -> Zero
                                      [] OTHER -> @[u]]]
    /\ op' = [op EXCEPT !.pc = "walk", !.new_cluster = op.new_c]
    /\ UNCHANGED <<fat, cache, lost>>

FreeSlots(c) == {u \in Offset : unit[c][u] \in {Zero, Deleted}}

\* make_node and the parent's children[]; room is whether kzalloc has any.
Registered(place, room) ==
    LET d == op.dir
        fits == Cardinality(cache[d].children) < FAT32_MAX_DIR_CHILDREN
    IN  IF ~ room
        THEN cache
        ELSE [n \in DOMAIN cache \union {place} |->
                IF n = place THEN NewNode(op.name, op.type, op.new_cluster, 0, d)
                ELSE IF n = d /\ fits THEN [cache[n] EXCEPT !.children = @ \union {place}]
                ELSE cache[n]]

\* The entry goes into the first free slot ...
WriteEntry ==
    /\ op.pc = "walk"
    /\ op.call = "create"
    /\ FreeSlots(op.cluster) # {}
    /\ LET slots == FreeSlots(op.cluster)
           place == <<op.cluster, CHOOSE u \in slots : \A v \in slots : u <= v>>
       IN  /\ unit' = Put(place, Entry(Short[op.name], op.type, op.new_cluster, 0))
           /\ \E room \in BOOLEAN : cache' = Registered(place, room)
           /\ lost' = (lost \/ cache'[op.dir].children = cache[op.dir].children)
    /\ op' = Idle
    /\ UNCHANGED fat

\* ... of the directory's chain.
NextSlot ==
    /\ op.pc = "walk"
    /\ op.call = "create"
    /\ FreeSlots(op.cluster) = {}
    /\ op' = NextCluster(op)
    /\ UNCHANGED <<disk, cache, lost>>

\* The disk is full: a new directory's cluster is given back.
CreateFails ==
    /\ op.pc \in {"dots", "extend"}
    /\ op.call = "create"
    /\ op.new_c = 0
    /\ op' = IF op.new_cluster = 0 THEN Idle
             ELSE [op EXCEPT !.pc = "free", !.cluster = op.new_cluster]
    /\ UNCHANGED <<disk, cache, lost>>

-----------------------------------------------------------------------------
\* fat32_write of len units at an offset inside the file or at its end: the
\* VFS starts at 0 or at the node's size, which is never above file_size.
fat32_write(n, offset, len) ==
    /\ op = Idle
    /\ cache[n].type = FILE
    /\ offset <= cache[n].file_size
    /\ offset + len <= MaxSize
    /\ op' = [call |-> "write",
              pc |-> IF cache[n].first_cluster = 0 THEN "alloc" ELSE "walk",
              ret |-> "first", new_c |-> 0, s |-> 0,
              node |-> n, offset |-> offset, len |-> len, written |-> 0,
              cluster |-> cache[n].first_cluster, clus_base |-> 0]
    /\ UNCHANGED <<disk, cache, lost>>

SetFirstCluster ==
    /\ op.pc = "first"
    /\ op.new_c # 0
    /\ cache' = [cache EXCEPT ![op.node].first_cluster = op.new_c]
    /\ unit' = Put(op.node, [At(op.node) EXCEPT !.first = op.new_c])
    /\ op' = [op EXCEPT !.pc = "walk", !.cluster = op.new_c]
    /\ UNCHANGED <<fat, lost>>

file_offset == op.offset + op.written

\* Mutant: a write that starts where a cluster ends stays in that cluster.
BeyondLate == op.clus_base + UnitsPerClus < file_offset

\* The cluster ends before the place that is to be written.
Beyond == op.clus_base + UnitsPerClus <= file_offset

SkipCluster ==
    /\ op.pc = "walk"
    /\ op.call = "write"
    /\ Beyond
    /\ op' = NextCluster(op)
    /\ UNCHANGED <<disk, cache, lost>>

SectorIdx == (file_offset - op.clus_base) \div UnitsPerSector

WriteSector ==
    /\ op.pc = "walk"
    /\ op.call = "write"
    /\ ~ Beyond
    /\ LET sector_off == (file_offset - op.clus_base) % UnitsPerSector
           left == op.len - op.written
           copy_n == IF left < UnitsPerSector - sector_off
                     THEN left ELSE UnitsPerSector - sector_off
           start == SectorIdx * UnitsPerSector + sector_off
       IN  /\ unit' = [unit EXCEPT ![op.cluster] =
                 [u \in Offset |-> IF u \in start .. start + copy_n - 1
                                   THEN Data(At(op.node).name, file_offset + u - start)
                                   ELSE @[u]]]
           /\ op' = [op EXCEPT !.written = @ + copy_n,
                               !.pc = IF op.written + copy_n = op.len THEN "size" ELSE "walk"]
    /\ UNCHANGED <<fat, cache, lost>>

\* The disk is full: no first cluster, or the write ends here.
WriteStops ==
    /\ op.pc \in {"first", "extend"}
    /\ op.call = "write"
    /\ op.new_c = 0
    /\ op' = IF op.pc = "first" THEN Idle ELSE [op EXCEPT !.pc = "size"]
    /\ UNCHANGED <<disk, cache, lost>>

\* Mutant: the directory entry keeps the old size.
SizeInCache ==
    /\ op.pc = "size"
    /\ cache' = IF file_offset > cache[op.node].file_size
                THEN [cache EXCEPT ![op.node].file_size = file_offset] ELSE cache
    /\ op' = Idle
    /\ UNCHANGED <<disk, lost>>

UpdateSize ==
    /\ op.pc = "size"
    /\ IF file_offset > cache[op.node].file_size
       THEN /\ cache' = [cache EXCEPT ![op.node].file_size = file_offset]
            /\ unit' = Put(op.node, [At(op.node) EXCEPT !.size = file_offset])
       ELSE UNCHANGED <<unit, cache>>
    /\ op' = Idle
    /\ UNCHANGED <<fat, lost>>

-----------------------------------------------------------------------------
Forget(ca, n) ==
    [m \in DOMAIN ca \ {n} |->
        IF m = ca[n].parent
        THEN [ca[m] EXCEPT !.children = @ \ {n}]
        ELSE ca[m]]

\* fat32_unlink: the entry is marked deleted, then the chain is freed.
fat32_unlink(n) ==
    /\ op = Idle
    /\ n # Root
    /\ n \in DOMAIN Closed
    /\ \E ca \in IF cache[n].type = DIR THEN Loads(n) ELSE {Closed} :
        /\ ca[n].children = {}
        /\ lost' = (lost \/ (ca[n].type = DIR /\ ~ IsWhole(ca, n)))
        /\ cache' = ca
    /\ unit' = Put(n, Deleted)
    /\ op' = [call |-> "unlink", node |-> n, cluster |-> cache[n].first_cluster,
              pc |-> IF cache[n].first_cluster \in Cluster THEN "free" ELSE "forget"]
    /\ UNCHANGED fat

\* The end of fat32_unlink, and of a create that failed.
Finish ==
    /\ op.pc = "forget"
    /\ cache' = IF op.call = "unlink" THEN Forget(cache, op.node) ELSE cache
    /\ op' = Idle
    /\ UNCHANGED <<disk, lost>>

-----------------------------------------------------------------------------
\* The machine stops, at any time, and mounts the disk again.
Crash ==
    /\ lost' = (lost \/ op # Idle)
    /\ cache' = JustMounted
    /\ op' = Idle
    /\ UNCHANGED disk

Empty == [u \in Offset |-> Zero]

\* A new disk, or one with a file of one unit that has a long name.
Init ==
    /\ cache = JustMounted
    /\ op = Idle
    /\ lost = FALSE
    /\ \/ /\ fat = [c \in Cluster |-> IF c = root_cluster THEN EOC ELSE FREE]
          /\ unit = [c \in Cluster |-> Empty]
       \/ /\ fat = [c \in Cluster |-> IF c \in {root_cluster, root_cluster + 1}
                                        THEN EOC ELSE FREE]
          /\ unit = [c \in Cluster |->
               CASE c = root_cluster ->
                      [Empty EXCEPT ![0] = Lfn(LongName),
                                    ![1] = Entry(LongShort, FILE, root_cluster + 1, 1)]
                 [] c = root_cluster + 1 -> [Empty EXCEPT ![0] = Data(LongShort, 0)]
                 [] OTHER -> Empty]

Continue ==
    \/ fat_alloc \/ ZeroSector \/ fat_free_chain \/ Extend \/ Mark
    \/ WriteDots \/ WriteEntry \/ NextSlot \/ CreateFails
    \/ SetFirstCluster \/ SkipCluster \/ WriteSector \/ WriteStops \/ UpdateSize
    \/ Finish

Call ==
    \E n \in DOMAIN cache :
        \/ Load(n)
        \/ \E new \in NewEntries : fat32_create(n, new[1], new[2])
        \/ \E offset \in 0 .. MaxSize, len \in Lengths : fat32_write(n, offset, len)
        \/ fat32_unlink(n)

Next == Call \/ Continue \/ Crash

Spec == Init /\ [][Next]_vars

\* The processor goes on with a call.
FairSpec == Spec /\ WF_vars(Continue)

-----------------------------------------------------------------------------
IsUnit(u) ==
    \/ u \in {Zero, Deleted, Lfn(LongName)}
    \/ u \in {Dot(c) : c \in Cluster}
    \/ u \in {Data(n, i) : n \in Names, i \in 0 .. MaxSize - 1}
    \/ /\ u = Entry(u.name, u.type, u.first, u.size)
       /\ u.name \in Names /\ u.type \in {FILE, DIR}
       /\ u.first \in Cluster \union {0} /\ u.size \in 0 .. MaxSize

TypeOK ==
    /\ fat \in [Cluster -> Cluster \union {FREE, EOC}]
    /\ \A c \in Cluster : DOMAIN unit[c] = Offset /\ \A u \in Offset : IsUnit(unit[c][u])
    /\ DOMAIN cache \subseteq (Cluster \X Offset) \union {Root}
    /\ \A n \in DOMAIN cache :
        /\ cache[n].first_cluster \in Cluster \union {0}
        /\ cache[n].file_size \in 0 .. MaxSize
        /\ Cardinality(cache[n].children) <= FAT32_MAX_DIR_CHILDREN
    /\ lost \in BOOLEAN

-----------------------------------------------------------------------------
\* What is on the disk, whatever the cache knows of it.

\* The clusters of all directories, and the entries in them.
EntriesOf(cs) ==
    {p \in cs \X Offset : At(p).kind = "entry"}
DirClusters ==
    LET reach[k \in 0 .. total_clusters] ==
            IF k = 0 THEN Chain(root_cluster)
            ELSE LET near == reach[k - 1]
                     subdirs == {p \in EntriesOf(near) : At(p).type = DIR}
                 IN  near \union UNION {Chain(At(p).first) : p \in subdirs}
    IN  reach[total_clusters]
OnDisk == EntriesOf(DirClusters)

\* The chains: the root's and that of every entry that has one.
Heads == ({root_cluster} \union {At(p).first : p \in OnDisk}) \ {0}

\* Wherever the machine stops, every chain ends in EOC without running into a
\* free cluster, no cluster is in two of them, and every directory has one
\* (fat32.c:128-152, 499-506, 539-546, 654-662, 698-710).
ChainsAreSound ==
    LET entries == OnDisk
    IN
    /\ \A c \in Heads : Nth(fat, c)[total_clusters] = EOC
    /\ \A p, q \in entries :
        p # q => Chain(At(p).first) \intersect Chain(At(q).first) = {}
    /\ \A p \in entries :
        /\ Chain(At(p).first) \intersect Chain(root_cluster) = {}
        /\ At(p).type = DIR => At(p).first # 0

\* fat32_read of a whole file: the unit at offset i is in cluster
\* i \div UnitsPerClus of its chain; the chain's end ends it.
fat32_read(p) ==
    LET clusters == Nth(fat, At(p).first)
        backed == {i \in 0 .. At(p).size - 1 : clusters[i \div UnitsPerClus] \in Cluster}
    IN  [i \in backed |-> unit[clusters[i \div UnitsPerClus]][i % UnitsPerClus]]

\* Wherever the machine stops, a file reads as long as its entry says, and
\* holds at every offset what was written to that file at that offset: never
\* what another file left behind, never a cluster not yet written
\* (fat32.c:493-569).
FilesHoldTheirData ==
    \A p \in OnDisk : At(p).type = FILE =>
        fat32_read(p) = [i \in 0 .. At(p).size - 1 |-> Data(At(p).name, i)]

\* Wherever the machine stops, a directory can be parsed: it holds entries
\* only, and none behind the end marker, where load_dir_children stops
\* (fat32.c:309, 592-665).
DirectoriesParse ==
    /\ \A c \in DirClusters : \A u \in Offset :
        unit[c][u].kind \in {"zero", "deleted", "dot", "lfn", "entry"}
    /\ \A h \in {root_cluster} \union {At(p).first : p \in {q \in OnDisk : At(q).type = DIR}} :
        EntrySet(h) = EntriesOf(Chain(h))

\* Between calls a cached node agrees with its entry about type, first
\* cluster and size, and a loaded directory has all its entries unless
\* something failed (fat32.c:472-485, 555-568, 672-679, 712-720).
CacheMatchesDisk ==
    op = Idle =>
        /\ \A n \in DOMAIN cache \ {Root} :
            /\ At(n).kind = "entry"
            /\ At(n).type = cache[n].type
            /\ At(n).first = cache[n].first_cluster
            /\ At(n).size = cache[n].file_size
        /\ \A d \in DOMAIN cache :
            cache[d].children_loaded /\ ~ lost =>
                cache[d].children = EntrySet(FirstOf(cache, d))

\* Between calls every cluster in use belongs to something, unless the machine
\* stopped in the middle of a call or the cache lost an entry: also a create
\* and a write that found the disk full leave nothing behind (fat32.c:667-670).
NoClusterLeaks ==
    op = Idle /\ ~ lost =>
        {c \in Cluster : fat[c] # FREE} = UNION {Chain(c) : c \in Heads}

\* Every call returns: the loops along the chains and for a free slot end.
EveryCallReturns == op # Idle ~> op = Idle

-----------------------------------------------------------------------------
\* fat32.c:6 and 7: long names are read, writes use 8.3 names.  An entry that
\* was created here is listed again under its own name or its 8.3 name.
WritesUseShortNames ==
    op = Idle => \A n \in DOMAIN cache \ {Root} :
        cache[n].name \in Names =>
            ListedName(FirstOf(cache, cache[n].parent), n) \in {cache[n].name, Short[cache[n].name]}
=============================================================================
