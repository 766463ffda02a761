---------------------------- MODULE Fat32Proofs ----------------------------
(***************************************************************************)
(* Proofs about Fat32: before and after every sector that is written the   *)
(* disk is sound and the cache agrees with it, for every number and size   *)
(* of clusters, size of file, set of names and length of directory.        *)
(*                                                                         *)
(* The properties walk chains and trees.  The inductive invariant Fat32Inv *)
(* says the same place by place, of clusters that are labelled: with the   *)
(* entry whose chain each is in (own), its position there (pos), and, for  *)
(* those of directories (D), its depth (dep).  Each step of the code       *)
(* changes the labels of a cluster or two, and a lemma per step says how.  *)
(* Freed chains and directories that were unlinked with entries still in   *)
(* them lose their labels.                                                 *)
(***************************************************************************)
EXTENDS Fat32, FiniteSetTheorems, NaturalsInduction, WellFoundedInduction, TLAPS

-----------------------------------------------------------------------------
(* Arithmetic, and recursion by least counterexample. *)

LEMMA NatHasMin ==
    ASSUME NEW T, T \subseteq Nat, T # {}
    PROVE  \E x \in T : \A y \in T : x <= y
<1> DEFINE R == OpToRel(<, Nat)
<1>1. \E x \in T : \A y \in T : ~(<<y, x>> \in R)
  <2>1. IsWellFoundedOn(R, Nat)
    BY NatLessThanWellFounded
  <2> HIDE DEF R
  <2> QED  BY <2>1, WFMin
<1>2. \A x, y \in T : ~(<<y, x>> \in R) => x <= y
  BY DEF OpToRel
<1> HIDE DEF R
<1> QED  BY <1>1, <1>2

LEMMA DivMod ==
    ASSUME NEW x \in Nat, NEW p \in Nat \ {0}
    PROVE  /\ x \div p \in Nat /\ x % p \in Nat
           /\ x = p * (x \div p) + (x % p) /\ x % p < p
OBVIOUS

LEMMA TimesMonotone ==
    ASSUME NEW p \in Nat, NEW a \in Int, NEW b \in Int, a <= b
    PROVE  p * a <= p * b
<1>1. p * b = p * a + p * (b - a)
  OBVIOUS
<1>2. p * (b - a) >= 0
  OBVIOUS
<1> QED  BY <1>1, <1>2

LEMMA DivOfMultiple ==
    ASSUME NEW q \in Nat, NEW r \in Nat, NEW p \in Nat \ {0}, r < p
    PROVE  (p * q + r) \div p = q
<1> DEFINE x == p * q + r
           a == x \div p
<1>1. x \in Nat
  OBVIOUS
<1>2. a \in Nat /\ x >= p * a /\ x < p * a + p
  BY <1>1, DivMod
<1>0. p * q \in Nat /\ x = p * q + r
  OBVIOUS
<1> HIDE DEF x, a
<1>3. p * a \in Nat
  BY <1>2
<1>4. ASSUME a >= q + 1  PROVE FALSE
  <2>1. p * a >= p * (q + 1)
    BY <1>2, <1>4, TimesMonotone
  <2>2. p * (q + 1) = p * q + p
    OBVIOUS
  <2> QED  BY <2>1, <2>2, <1>0, <1>2, <1>3
<1>5. ASSUME a + 1 <= q  PROVE FALSE
  <2>1. p * q >= p * (a + 1)
    BY <1>2, <1>5, TimesMonotone
  <2>2. p * (a + 1) = p * a + p
    BY <1>2
  <2> QED  BY <2>1, <2>2, <1>0, <1>2, <1>3
<1>6. a = q
  BY <1>2, <1>4, <1>5
<1> QED  BY <1>6 DEF a, x

\* Induction up to a bound, for the set of the numbers that have a property.
LEMMA UpTo ==
    ASSUME NEW n \in Nat, NEW T, 0 \in T, \A k \in 0 .. n - 1 : k \in T => k + 1 \in T
    PROVE  \A k \in 0 .. n : k \in T
<1> DEFINE Out == {k \in 0 .. n : k \notin T}
<1>1. ASSUME Out # {}  PROVE FALSE
  <2>1. Out \subseteq Nat
    OBVIOUS
  <2>2. PICK k \in Out : \A j \in Out : k <= j
    <3> HIDE DEF Out
    <3> QED  BY <1>1, <2>1, NatHasMin
  <2>3. k \in 1 .. n
    BY <2>2
  <2>4. k - 1 \in 0 .. n - 1 /\ ~ (k <= k - 1) /\ k - 1 + 1 = k /\ k - 1 \in 0 .. n
    BY <2>3
  <2>5. k - 1 \in T
    BY <2>2, <2>4
  <2> QED  BY <2>2, <2>4, <2>5
<1> QED  BY <1>1

Computes(g, n, V, a, step) ==
    g \in [0 .. n -> V] /\ g[0] = a /\ \A k \in 1 .. n : g[k] = step[g[k - 1]]
\* A function that is computed step by step from a first value exists.
LEMMA Recursion ==
    ASSUME NEW n \in Nat, NEW V, NEW a \in V, NEW step \in [V -> V]
    PROVE  \E g : Computes(g, n, V, a, step)
<1> DEFINE Steps(m, g) == g \in [0 .. m -> V] /\ g[0] = a /\ \A k \in 1 .. m : g[k] = step[g[k - 1]]
           T == {m \in Nat : ~ \E g : Steps(m, g)}
<1>1. ASSUME T # {}  PROVE FALSE
  <2>1. PICK m \in T : \A j \in T : m <= j
    BY <1>1, NatHasMin
  <2>2. m # 0
    <3> DEFINE g == [k \in 0 .. 0 |-> a]
    <3>1. Steps(0, g)
      OBVIOUS
    <3> HIDE DEF Steps, g
    <3> QED  BY <2>1, <3>1
  <2>3. m - 1 \in Nat /\ m - 1 \notin T
    <3>1. m \in Nat /\ m - 1 \in Nat /\ ~ (m <= m - 1)
      BY <2>1, <2>2
    <3> HIDE DEF T
    <3> QED  BY <2>1, <3>1
  <2>4. PICK g : Steps(m - 1, g)
    BY <2>3
  <2> DEFINE h == [k \in 0 .. m |-> IF k = m THEN step[g[m - 1]] ELSE g[k]]
  <2>5. h \in [0 .. m -> V] /\ h[0] = a
    BY <2>1, <2>2, <2>3, <2>4
  <2>6. ASSUME NEW k \in 1 .. m  PROVE h[k] = step[h[k - 1]]
    BY <2>1, <2>2, <2>3, <2>4
  <2>7. Steps(m, h)
    BY <2>5, <2>6
  <2> QED  BY <2>1, <2>7
<1> QED  BY <1>1 DEF Computes

-----------------------------------------------------------------------------
(* Chains. *)

\* What a link may hold.
Links == Cluster \union {FREE, EOC}

\* w goes along the links of f from c, and stays where they end.
Walks(w, f, c) ==
    /\ w \in [0 .. total_clusters -> Links]
    /\ w[0] = c
    /\ \A k \in 0 .. total_clusters - 1 : w[k + 1] = IF w[k] \in Cluster THEN f[w[k]] ELSE w[k]

LEMMA NthSteps ==
    ASSUME NEW f \in [Cluster -> Links], NEW c \in Links
    PROVE  Walks(Nth(f, c), f, c)
<1> DEFINE step == [v \in Links |-> IF v \in Cluster THEN f[v] ELSE v]
           Is(g) == g = [k \in 0 .. total_clusters |->
                           IF k = 0 THEN c
                           ELSE LET prev == g[k - 1] IN IF prev \in Cluster THEN f[prev] ELSE prev]
<1>0. total_clusters \in Nat
  BY Fat32Assumption
<1>1. step \in [Links -> Links]
  BY DEF Links
<1>2. PICK g : Computes(g, total_clusters, Links, c, step)
  <2> HIDE DEF step
  <2> QED  BY ONLY <1>0, <1>1, c \in Links, Recursion
<1>3. g \in [0 .. total_clusters -> Links] /\ g[0] = c /\ \A k \in 1 .. total_clusters : g[k] = step[g[k - 1]]
  <2> HIDE DEF step
  <2> QED  BY <1>2 DEF Computes
<1>4. Is(g)
  <2>1. ASSUME NEW k \in 0 .. total_clusters, k # 0
        PROVE  step[g[k - 1]] = LET prev == g[k - 1] IN IF prev \in Cluster THEN f[prev] ELSE prev
    <3>1. k - 1 \in 0 .. total_clusters
      BY <1>0, <2>1
    <3>2. g[k - 1] \in Links
      BY <1>3, <3>1
    <3> QED  BY <3>2
  <2>3. ASSUME NEW k \in 0 .. total_clusters
        PROVE  g[k] = IF k = 0 THEN c
                      ELSE LET prev == g[k - 1] IN IF prev \in Cluster THEN f[prev] ELSE prev
    <3>1. CASE k = 0
      BY <3>1, <1>3
    <3>2. CASE k # 0
      <4>1. k \in 1 .. total_clusters
        BY <3>2, <1>0
      <4>2. g[k] = step[g[k - 1]]
        BY <4>1, <1>3
      <4> HIDE DEF step
      <4> QED  BY <4>2, <2>1, <3>2
    <3> QED  BY <3>1, <3>2
  <2>2. g = [k \in 0 .. total_clusters |-> IF k = 0 THEN c
               ELSE LET prev == g[k - 1] IN IF prev \in Cluster THEN f[prev] ELSE prev]
    BY <2>3, <1>3
  <2> QED  BY <2>2
<1>5. Nth(f, c) = CHOOSE h : Is(h)
  BY DEF Nth
<1> DEFINE walk == Nth(f, c)
<1>6. Is(walk)
  <2> HIDE DEF Is
  <2> QED  BY <1>4, <1>5
<1>7. walk = g
  <2> DEFINE T == {k \in 0 .. total_clusters : walk[k] = g[k]}
  <2> HIDE DEF walk
  <2>1. 0 \in T
    BY <1>0, <1>4, <1>6
  <2>2. ASSUME NEW k \in 0 .. total_clusters - 1, k \in T  PROVE k + 1 \in T
    <3>1. k + 1 \in 0 .. total_clusters /\ k + 1 # 0 /\ k + 1 - 1 = k
      BY <1>0
    <3> QED  BY <2>2, <3>1, <1>4, <1>6
  <2>3. \A k \in 0 .. total_clusters : k \in T
    <3> HIDE DEF T
    <3> QED  BY <2>1, <2>2, <1>0, UpTo
  <2> QED  BY <2>3, <1>4, <1>6
<1> HIDE DEF walk
<1>8. \A k \in 0 .. total_clusters - 1 : walk[k + 1] = IF walk[k] \in Cluster THEN f[walk[k]] ELSE walk[k]
  <2> TAKE k \in 0 .. total_clusters - 1
  <2>1. k + 1 \in 0 .. total_clusters /\ k + 1 # 0 /\ k + 1 - 1 = k
    BY <1>0
  <2>2. walk[k + 1] = LET prev == walk[k + 1 - 1] IN IF prev \in Cluster THEN f[prev] ELSE prev
    <3> DEFINE j == k + 1
    <3>1. j \in 0 .. total_clusters /\ j # 0
      BY <2>1
    <3> HIDE DEF j
    <3>2. walk[j] = LET prev == walk[j - 1] IN IF prev \in Cluster THEN f[prev] ELSE prev
      BY <3>1, <1>6
    <3> QED  BY <3>2 DEF j
  <2> QED  BY <2>1, <2>2
<1>9. walk[0] = c
  BY <1>6, <1>0
<1> QED  BY <1>3, <1>7, <1>8, <1>9 DEF walk, Walks
-----------------------------------------------------------------------------
(* The inductive invariant.  It speaks of the disk through four functions    *)
(* that the code does not have: D, clusters of directories; own, whose chain *)
(* a cluster is in; pos, where in that chain; dep, how deep in the tree.     *)

\* Clusters that are in no chain, and those of a chain being freed.
None == <<-1, 0>>
Freeing == <<-2, 0>>
Place == Cluster \X Offset
Labels == Place \union {Root, None, Freeing}

\* The names an entry or a cached node may have.
AnyName == Names \union {LongName, "/"}
Entries ==
    [kind : {"entry"}, name : Names, type : {FILE, DIR}, first : Cluster \union {0}, size : Nat]
Units ==
    [kind : {"zero"}] \union [kind : {"deleted"}] \union [kind : {"dot"}, first : Cluster]
    \union [kind : {"lfn"}, name : {LongName}] \union [kind : {"data"}, name : Names, at : Nat]
    \union Entries

\* Who may own a chain: the root directory and the entries found in D.
Owners(D) == EntriesOf(D) \union {Root}
First(p) == IF p = Root THEN root_cluster ELSE At(p).first
IsDir(p) == IF p = Root THEN TRUE ELSE At(p).type = DIR

DiskTypes ==
    /\ fat \in [Cluster -> Cluster \union {FREE, EOC}]
    /\ unit \in [Cluster -> [Offset -> Units]]

WitnessTypes(D, own, pos, dep) ==
    /\ D \subseteq Cluster
    /\ own \in [Cluster -> Labels]
    /\ pos \in [Cluster -> Nat]
    /\ dep \in [Cluster -> Nat]

\* A cluster that has an owner is linked to the next of the same owner; no
\* two have the same owner and position; the last one is where the end is.
Linked(c, own, pos) ==
    fat[c] # EOC =>
        fat[c] \in Cluster /\ own[fat[c]] = own[c] /\ pos[fat[c]] = pos[c] + 1
LinksOK(D, own, pos) ==
    /\ \A c \in Cluster : own[c] # None => own[c] \in Owners(D) \union {Freeing}
    /\ \A c \in Cluster : own[c] # None => Linked(c, own, pos)
    /\ \A c, d \in Cluster : own[c] # None /\ own[c] = own[d] /\ pos[c] = pos[d] => c = d
    /\ \A c, d \in Cluster : own[c] # None /\ own[c] = own[d] /\ fat[c] = EOC => pos[d] <= pos[c]

\* An entry owns the cluster it names as its first.
HeadsOK(D, own, pos) ==
    /\ \A p \in Owners(D) : First(p) # 0 =>
        First(p) \in Cluster /\ own[First(p)] = p /\ pos[First(p)] = 0
    /\ \A c \in Cluster : own[c] \in Owners(D) => First(own[c]) # 0

\* The clusters that directories own are in D.  One that nobody owns any more
\* may still be.
DirsOK(D, own) ==
    /\ \A c \in D : fat[c] # FREE
    /\ \A c \in D : own[c] # None => own[c] \in Owners(D) /\ IsDir(own[c])
    /\ \A c \in Cluster : own[c] \in Owners(D) /\ IsDir(own[c]) => c \in D

\* Directories have a cluster, files without one are empty.
EntriesOK(D) ==
    \A p \in EntriesOf(D) :
        /\ At(p).type = DIR => At(p).first # 0
        /\ At(p).first = 0 => At(p).size = 0

\* A directory's cluster holds entries, and nothing behind the end marker.
Parses(c) ==
    /\ \A u \in Offset : unit[c][u].kind # "data"
    /\ \A u, v \in Offset : u < v /\ unit[c][u] = Zero => unit[c][v] = Zero
ParseOK(D) ==
    \A c \in D : Parses(c) /\ (fat[c] # EOC => \A u \in Offset : unit[c][u] # Zero)

\* A file's clusters hold what was written to it, as far as its size goes.
HoldsUpTo(c, pos, name, end) ==
    \A u \in Offset : pos[c] * UnitsPerClus + u < end =>
        unit[c][u] = Data(name, pos[c] * UnitsPerClus + u)
EndsWithin(c, pos, end) == fat[c] = EOC => end <= (pos[c] + 1) * UnitsPerClus
DataOK(D, own, pos) ==
    \A p \in EntriesOf(D) : At(p).type = FILE =>
        \A c \in Cluster : own[c] = p =>
            HoldsUpTo(c, pos, At(p).name, At(p).size) /\ EndsWithin(c, pos, At(p).size)

\* A directory lies deeper than the cluster that holds its entry.
DepthOK(D, own, dep) ==
    \A c \in D : own[c] \in EntriesOf(D) => dep[own[c][1]] < dep[c]

DiskOK(D, own, pos, dep) ==
    /\ WitnessTypes(D, own, pos, dep)
    /\ LinksOK(D, own, pos)
    /\ HeadsOK(D, own, pos)
    /\ DirsOK(D, own)
    /\ EntriesOK(D)
    /\ ParseOK(D)
    /\ DataOK(D, own, pos)
    /\ DepthOK(D, own, dep)

-----------------------------------------------------------------------------
\* The node whose entry fat32_unlink has marked, until it is forgotten.
Gone == IF op.pc # "idle" /\ op.call = "unlink" THEN {op.node} ELSE {}

Nodes ==
    [name : AnyName, type : {FILE, DIR}, first_cluster : Cluster \union {0},
     file_size : Nat, parent : Place \union {Root}, children_loaded : BOOLEAN,
     children : SUBSET Place]

\* A cached node is what its entry says.
Agrees(ca, n) ==
    /\ ca[n].type = At(n).type
    /\ ca[n].first_cluster = At(n).first
    /\ ca[n].file_size = At(n).size
CacheFits(ca, gone, D) ==
    /\ ca \in [DOMAIN ca -> Nodes]
    /\ Root \in DOMAIN ca
    /\ ca[Root].type = DIR /\ ca[Root].first_cluster = 0
    /\ \A n \in DOMAIN ca : n # Root /\ n \notin gone => n \in EntriesOf(D) /\ Agrees(ca, n)

\* The nodes that a path leads to.
Known(ca) == {Root} \union UNION {ca[d].children : d \in DOMAIN ca}

\* Children are cached, and their entries lie in the directory's chain.
ChildrenFit(ca, own) ==
    \A d \in DOMAIN ca :
        /\ ~ ca[d].children_loaded => ca[d].children = {}
        /\ ca[d].children_loaded => ca[d].type = DIR /\ d \in Known(ca)
        /\ \A n \in ca[d].children : n \in DOMAIN ca /\ ca[n].parent = d /\ own[n[1]] = d

\* Unless something was lost, they are all there are.
WholeFits(ca, gone, D, own) ==
    \A d \in DOMAIN ca \ gone : ca[d].children_loaded =>
        ca[d].children \ gone = {p \in EntriesOf(D) : own[p[1]] = d}

CacheOK(D, own) ==
    /\ CacheFits(cache, Gone, D)
    /\ ChildrenFit(cache, own)
    /\ ~ lost => WholeFits(cache, Gone, D, own)

\* Clusters that the call in progress has marked and not yet hung anywhere.
Taken ==
    {c \in Cluster :
        \/ op.pc \in {"zero", "dots", "first", "extend"} /\ c = op.new_c
        \/ op.pc \notin {"idle", "free", "forget"} /\ op.call = "create" /\ c = op.new_cluster}
\* Unless something was lost, every cluster in use has an owner.
NoLeak(own) ==
    ~ lost => \A c \in Cluster : fat[c] # FREE => own[c] # None \/ c \in Taken

-----------------------------------------------------------------------------
\* The call in progress.
Creates ==
    [call : {"create"}, pc : {"alloc", "zero", "dots", "extend", "mark", "walk", "free", "forget"},
     ret : {"dots", "extend"}, new_c : Cluster \union {0}, s : Nat,
     dir : Place \union {Root}, name : Names, type : {FILE, DIR},
     new_cluster : Cluster \union {0}, cluster : Cluster \union {FREE, EOC}, clus_base : Nat]
Writes ==
    [call : {"write"}, pc : {"alloc", "zero", "first", "extend", "mark", "walk", "size"},
     ret : {"first", "extend"}, new_c : Cluster \union {0}, s : Nat,
     node : Place, offset : Nat, len : Nat, written : Nat,
     cluster : Cluster \union {0}, clus_base : Nat]
Unlinks ==
    [call : {"unlink"}, node : Place, cluster : Cluster \union {FREE, EOC}, pc : {"free", "forget"}]

\* A cluster that is marked and in no chain.
Fresh(c, D, own) == c \in Cluster \ D /\ own[c] = None /\ fat[c] = EOC
\* fat_alloc is emptying a cluster, or has returned one or none.
AllocOK(D, own) ==
    /\ op.pc = "zero" =>
        /\ Fresh(op.new_c, D, own)
        /\ op.s < sectors_per_clus
        /\ \A u \in Offset : u \div UnitsPerSector < op.s => unit[op.new_c][u] = Zero
    /\ op.pc \in {"dots", "first", "extend"} /\ op.new_c # 0 =>
        /\ Fresh(op.new_c, D, own)
        /\ \A u \in Offset : unit[op.new_c][u] = Zero
    /\ op.pc \in {"alloc", "zero"} => op.ret # "dots" \/ op.call = "create"
    /\ op.pc \in {"dots", "first"} => op.ret = op.pc
    /\ op.pc \in {"extend", "mark"} => op.ret = "extend"
    /\ op.pc = "mark" => op.new_c \in Cluster /\ fat[op.new_c] = EOC

\* A chain is freed from its head on.
FreeOK(own, pos) ==
    /\ op.pc = "free" =>
        /\ op.cluster \in Cluster
        /\ own[op.cluster] = Freeing
        /\ \A c \in Cluster : own[c] = Freeing => pos[op.cluster] <= pos[c]
    /\ op.pc # "free" => \A c \in Cluster : own[c] # Freeing
\* fat32_create has a cluster ready for the new directory.
ReadyDir(c, D, own) == Fresh(c, D, own) /\ Parses(c) /\ \A u \in Offset : unit[c][u].kind # "entry"
\* It is making that cluster, or looking for a slot, or extending the chain.
MakesDots == op.pc \in {"alloc", "zero", "dots"} /\ op.ret = "dots"
Extends == op.pc \in {"alloc", "zero", "extend"} /\ op.ret = "extend"
CreateOK(D, own, pos) ==
    /\ op \in Creates
    /\ op.pc \notin {"free", "forget"} =>
        /\ op.dir \in DOMAIN cache
        /\ cache[op.dir].children_loaded
        /\ op.cluster \in Cluster
        /\ own[op.cluster] = op.dir
        /\ op.new_cluster # 0 => ReadyDir(op.new_cluster, D, own)
        /\ IF MakesDots THEN op.type = DIR /\ op.new_cluster = 0
                        ELSE op.type = DIR <=> op.new_cluster # 0
        /\ Extends => FreeSlots(op.cluster) = {} /\ fat[op.cluster] = EOC
        /\ op.pc \in {"zero", "extend"} => op.new_c # op.new_cluster \/ op.new_c = 0
        /\ op.pc = "mark" => own[op.new_c] = op.dir

\* What fat32_write knows once it walks the chain.
Along(own, pos) ==
    /\ op.cluster \in Cluster
    /\ own[op.cluster] = op.node
    /\ op.clus_base = pos[op.cluster] * UnitsPerClus
    /\ op.clus_base <= file_offset
    /\ \A c \in Cluster : own[c] = op.node =>
        HoldsUpTo(c, pos, At(op.node).name, file_offset) /\ EndsWithin(c, pos, file_offset)
InChain(own, pos) ==
    /\ Along(own, pos)
    /\ Extends => fat[op.cluster] = EOC
    /\ Extends \/ op.pc = "mark" => Beyond
    /\ op.pc = "mark" => own[op.new_c] = op.node /\ pos[op.new_c] = pos[op.cluster] + 1
WriteOK(D, own, pos) ==
    /\ op \in Writes
    /\ op.node \in DOMAIN cache \ {Root}
    /\ cache[op.node].type = FILE
    /\ op.written <= op.len
    /\ IF op.pc \in {"alloc", "zero", "first"} /\ op.ret = "first"
       THEN At(op.node).first = 0 /\ op.offset = 0 /\ op.written = 0 /\ op.clus_base = 0
       ELSE InChain(own, pos)

UnlinkOK(D) ==
    /\ op \in Unlinks
    /\ op.node \in DOMAIN cache \ {Root}
    /\ op.node \notin EntriesOf(D)
    /\ cache[op.node].children = {}

CallOK(D, own, pos) ==
    \/ op = Idle
    \/ CreateOK(D, own, pos) \/ WriteOK(D, own, pos) \/ UnlinkOK(D)

Holds(D, own, pos, dep) ==
    /\ DiskOK(D, own, pos, dep)
    /\ CacheOK(D, own)
    /\ NoLeak(own)
    /\ AllocOK(D, own) /\ FreeOK(own, pos) /\ CallOK(D, own, pos)

Fat32Inv ==
    /\ lost \in BOOLEAN
    /\ DiskTypes
    /\ \E D, own, pos, dep : Holds(D, own, pos, dep)

-----------------------------------------------------------------------------
(* A chain is the clusters its owner has, in the order of their positions.   *)

LEMMA WalkOwned ==
    ASSUME DiskTypes, NEW D, NEW own, NEW pos, NEW dep, WitnessTypes(D, own, pos, dep),
           LinksOK(D, own, pos),
           NEW c \in Cluster, own[c] # None, pos[c] = 0
    PROVE  \A k \in 0 .. total_clusters :
             LET x == Nth(fat, c)[k]
             IN  x = EOC \/ (x \in Cluster /\ own[x] = own[c] /\ pos[x] = k)
<1> DEFINE walk == Nth(fat, c)
           Right(k) == walk[k] = EOC \/ (walk[k] \in Cluster /\ own[walk[k]] = own[c] /\ pos[walk[k]] = k)
           T == {k \in 0 .. total_clusters : Right(k)}
<1>0. total_clusters \in Nat /\ fat \in [Cluster -> Links] /\ c \in Links /\ EOC \notin Cluster
  BY Fat32Assumption DEF DiskTypes, Links, Cluster, EOC
<1>1. walk[0] = c /\ \A k \in 0 .. total_clusters - 1 :
         walk[k + 1] = IF walk[k] \in Cluster THEN fat[walk[k]] ELSE walk[k]
  <2>1. Walks(walk, fat, c)
    BY <1>0, NthSteps
  <2> QED  BY <2>1 DEF Walks
<1> HIDE DEF walk
<1>2. 0 \in T
  BY <1>0, <1>1
<1>3. ASSUME NEW k \in 0 .. total_clusters - 1, k \in T  PROVE k + 1 \in T
  <2>1. k + 1 \in 0 .. total_clusters
    BY <1>0
  <2>2. Right(k)
    BY <1>3
  <2>3. CASE walk[k] = EOC
    BY <2>1, <2>3, <1>0, <1>1
  <2>4. CASE walk[k] # EOC
    <3>1. walk[k] \in Cluster /\ own[walk[k]] = own[c] /\ pos[walk[k]] = k
      BY <2>2, <2>4
    <3>2. walk[k + 1] = fat[walk[k]]
      BY <3>1, <1>1
    <3>3. Linked(walk[k], own, pos)
      BY <3>1 DEF LinksOK
    <3>4. Right(k + 1)
      BY <3>1, <3>2, <3>3 DEF Linked
    <3> QED  BY <2>1, <3>4
  <2> QED  BY <2>3, <2>4
<1>4. \A k \in 0 .. total_clusters : k \in T
  <2> HIDE DEF T
  <2> QED  BY <1>0, <1>2, <1>3, UpTo
<1> QED  BY <1>4 DEF walk

LEMMA ClustersAreFinite == IsFiniteSet(Cluster) /\ Cardinality(Cluster) = total_clusters
<1>1. total_clusters \in Nat /\ 2 \in Int /\ total_clusters + 1 \in Int
  BY Fat32Assumption
<1>2. IsFiniteSet(2 .. total_clusters + 1)
      /\ Cardinality(2 .. total_clusters + 1) =
           IF 2 > total_clusters + 1 THEN 0 ELSE total_clusters + 1 - 2 + 1
  BY <1>1, FS_Interval
<1> QED  BY <1>1, <1>2, Fat32Assumption DEF Cluster

\* There are more steps than clusters, so the walk meets the end.
LEMMA ChainIs ==
    ASSUME DiskTypes, NEW D, NEW own, NEW pos, NEW dep, WitnessTypes(D, own, pos, dep),
           LinksOK(D, own, pos),
           NEW c \in Cluster, own[c] # None, pos[c] = 0
    PROVE  /\ Nth(fat, c)[total_clusters] = EOC
           /\ Chain(c) = {x \in Cluster : own[x] = own[c]}
           /\ \A x \in Cluster : own[x] = own[c] =>
                /\ pos[x] \in 0 .. total_clusters - 1 /\ Nth(fat, c)[pos[x]] = x
                /\ \A k \in 0 .. pos[x] : Nth(fat, c)[k] \in Cluster
           /\ \A k \in 0 .. total_clusters, x \in Cluster :
                Nth(fat, c)[k] = x => own[x] = own[c] /\ pos[x] = k
           /\ \E x \in Cluster : own[x] = own[c] /\ fat[x] = EOC
<1> DEFINE walk == Nth(fat, c)
<1>0. total_clusters \in Nat /\ fat \in [Cluster -> Links] /\ c \in Links /\ EOC \notin Cluster
  BY Fat32Assumption DEF DiskTypes, Links, Cluster, EOC
<1>1. walk[0] = c /\ \A k \in 0 .. total_clusters - 1 :
         walk[k + 1] = IF walk[k] \in Cluster THEN fat[walk[k]] ELSE walk[k]
  <2>1. Walks(walk, fat, c)
    BY <1>0, NthSteps
  <2> QED  BY <2>1 DEF Walks
<1>2. \A k \in 0 .. total_clusters :
         walk[k] = EOC \/ (walk[k] \in Cluster /\ own[walk[k]] = own[c] /\ pos[walk[k]] = k)
  BY WalkOwned
<1>t. pos \in [Cluster -> Nat]
  BY DEF WitnessTypes
<1> HIDE DEF walk
<1>3. ASSUME \A k \in 0 .. total_clusters : walk[k] \in Cluster  PROVE FALSE
  <2> DEFINE S == 0 .. total_clusters
             f == [k \in S |-> walk[k]]
  <2>1. IsFiniteSet(S) /\ Cardinality(S) = total_clusters + 1
    BY <1>0, FS_Interval
  <2>2. f \in [S -> Cluster]
    BY <1>3
  <2>3. Cardinality(Cluster) < Cardinality(S)
    BY <2>1, <1>0, ClustersAreFinite
  <2>4. \E x, y \in S : x # y /\ f[x] = f[y]
    <3> HIDE DEF S, f
    <3> QED  BY <2>1, <2>2, <2>3, ClustersAreFinite, FS_PigeonHole
  <2>5. PICK x \in S, y \in S : x # y /\ f[x] = f[y]
    BY <2>4
  <2>6. walk[x] = walk[y] /\ walk[x] \in Cluster /\ pos[walk[x]] = x /\ pos[walk[y]] = y
    BY <2>5, <1>2, <1>3, <1>0
  <2> QED  BY <2>5, <2>6
<1> DEFINE Ends == {k \in 0 .. total_clusters : walk[k] = EOC}
<1>4. PICK m \in Ends : \A j \in Ends : m <= j
  <2>1. Ends # {}
    BY <1>2, <1>3
  <2>2. Ends \subseteq Nat
    BY <1>0
  <2> HIDE DEF Ends
  <2> QED  BY <2>1, <2>2, NatHasMin
<1>5. m \in 1 .. total_clusters /\ walk[m] = EOC
  BY <1>4, <1>1, <1>0
<1>6. \A k \in 0 .. m - 1 : walk[k] \in Cluster /\ own[walk[k]] = own[c] /\ pos[walk[k]] = k
  <2> TAKE k \in 0 .. m - 1
  <2>1. k \in 0 .. total_clusters /\ k < m
    BY <1>5, <1>0
  <2>2. walk[k] # EOC
    BY <2>1, <1>4
  <2> QED  BY <2>1, <2>2, <1>2
<1>7. walk[total_clusters] = EOC
  <2> DEFINE T == {k \in 0 .. total_clusters : k >= m => walk[k] = EOC}
  <2>1. 0 \in T
    BY <1>5, <1>0
  <2>2. ASSUME NEW k \in 0 .. total_clusters - 1, k \in T  PROVE k + 1 \in T
    <3>1. k + 1 \in 0 .. total_clusters
      BY <1>0
    <3>2. CASE k >= m
      BY <3>1, <3>2, <2>2, <1>0, <1>1
    <3>3. CASE k < m /\ k + 1 >= m
      <4>1. k + 1 = m
        BY <3>3, <1>5
      <4> QED  BY <4>1, <3>1, <1>5
    <3>4. CASE k + 1 < m
      BY <3>1, <3>4, <1>5
    <3> QED  BY <3>2, <3>3, <3>4, <1>5
  <2>3. \A k \in 0 .. total_clusters : k \in T
    <3> HIDE DEF T
    <3> QED  BY <1>0, <2>1, <2>2, UpTo
  <2>4. total_clusters \in 0 .. total_clusters /\ total_clusters >= m
    BY <1>0, <1>5
  <2> QED  BY <2>3, <2>4
<1>11. \E x \in Cluster : own[x] = own[c] /\ fat[x] = EOC
  <2>1. m - 1 \in 0 .. m - 1 /\ m - 1 \in 0 .. total_clusters - 1 /\ m - 1 + 1 = m
    BY <1>5, <1>0
  <2>2. walk[m - 1] \in Cluster /\ own[walk[m - 1]] = own[c]
    BY <2>1, <1>6
  <2>3. fat[walk[m - 1]] = EOC
    BY <2>1, <2>2, <1>1, <1>5
  <2> QED  BY <2>2, <2>3
<1>8. ASSUME NEW x \in Cluster, own[x] = own[c]
      PROVE  pos[x] \in 0 .. total_clusters - 1 /\ walk[pos[x]] = x /\ \A k \in 0 .. pos[x] : walk[k] \in Cluster
  <2> DEFINE e == walk[m - 1]
  <2>1. m - 1 \in 0 .. m - 1 /\ m - 1 \in 0 .. total_clusters - 1 /\ m - 1 + 1 = m
    BY <1>5, <1>0
  <2>2. e \in Cluster /\ own[e] = own[c] /\ pos[e] = m - 1
    BY <2>1, <1>6
  <2>3. fat[e] = EOC
    BY <2>1, <2>2, <1>1, <1>5
  <2> HIDE DEF e
  <2>4. pos[x] <= m - 1
    BY <2>2, <2>3, <1>8 DEF LinksOK
  <2>5. pos[x] \in 0 .. m - 1
    BY <2>4, <1>t, <1>5
  <2>6. walk[pos[x]] \in Cluster /\ own[walk[pos[x]]] = own[c] /\ pos[walk[pos[x]]] = pos[x]
    BY <2>5, <1>6
  <2>7. walk[pos[x]] = x
    BY <2>6, <1>8 DEF LinksOK
  <2>8. \A k \in 0 .. pos[x] : walk[k] \in Cluster
    BY <2>5, <1>5, <1>6
  <2> QED  BY <2>5, <2>7, <2>8, <1>5, <1>0
<1>9. ASSUME NEW k \in 0 .. total_clusters, NEW x \in Cluster, walk[k] = x
      PROVE  own[x] = own[c] /\ pos[x] = k
  BY <1>9, <1>2, <1>0
<1>10. Chain(c) = {x \in Cluster : own[x] = own[c]}
  <2>1. Chain(c) = {walk[k] : k \in 0 .. total_clusters} \intersect Cluster
    BY DEF Chain, walk
  <2>2. ASSUME NEW x \in Cluster, own[x] = own[c]  PROVE x \in {walk[k] : k \in 0 .. total_clusters}
    BY <2>2, <1>8, <1>0
  <2>3. ASSUME NEW k \in 0 .. total_clusters, walk[k] \in Cluster  PROVE own[walk[k]] = own[c]
    BY <2>3, <1>9
  <2> QED  BY <2>1, <2>2, <2>3
<1> QED  BY <1>7, <1>8, <1>9, <1>10, <1>11 DEF walk

-----------------------------------------------------------------------------
(* A directory's chain lists the entries that lie in it. *)

LEMMA ClusterSize ==
    /\ UnitsPerClus \in Nat /\ UnitsPerClus >= UnitsPerSector /\ UnitsPerClus >= 2
    /\ UnitsPerSector \in Nat \ {0} /\ sectors_per_clus \in Nat \ {0}
    /\ {0, 1} \subseteq Offset /\ total_clusters \in Nat
<1>1. sectors_per_clus \in Nat \ {0} /\ UnitsPerSector \in Nat /\ UnitsPerSector >= 2 /\ total_clusters \in Nat
  BY Fat32Assumption
<1>2. UnitsPerSector * 1 <= UnitsPerSector * sectors_per_clus
  BY <1>1, TimesMonotone
<1>3. UnitsPerClus = UnitsPerSector * sectors_per_clus
  BY <1>1 DEF UnitsPerClus
<1>4. UnitsPerSector * sectors_per_clus \in Nat
  BY <1>1
<1> QED  BY <1>1, <1>2, <1>3, <1>4 DEF Offset

\* A unit's index is its cluster's position and its offset there.
LEMMA IndexSplits ==
    ASSUME NEW i \in Nat
    PROVE  /\ i \div UnitsPerClus \in Nat /\ i % UnitsPerClus \in Offset
           /\ i = UnitsPerClus * (i \div UnitsPerClus) + (i % UnitsPerClus)
<1>1. UnitsPerClus \in Nat \ {0}
  BY ClusterSize
<1>2. /\ i \div UnitsPerClus \in Nat /\ i % UnitsPerClus \in Nat
      /\ i = UnitsPerClus * (i \div UnitsPerClus) + (i % UnitsPerClus) /\ i % UnitsPerClus < UnitsPerClus
  BY <1>1, DivMod
<1> DEFINE r == i % UnitsPerClus
<1>3. r \in Nat /\ r < UnitsPerClus
  BY <1>2
<1> HIDE DEF r
<1>4. r \in Offset
  BY <1>1, <1>3 DEF Offset
<1> QED  BY ONLY <1>2, <1>4 DEF r

LEMMA IndexOf ==
    ASSUME NEW k \in Nat, NEW u \in Offset
    PROVE  /\ k * UnitsPerClus + u \in Nat
           /\ (k * UnitsPerClus + u) \div UnitsPerClus = k
           /\ (k * UnitsPerClus + u) % UnitsPerClus = u
<1> DEFINE i == UnitsPerClus * k + u
<1>1. UnitsPerClus \in Nat \ {0} /\ u \in Nat /\ u < UnitsPerClus
  BY ClusterSize DEF Offset
<1>2. i \div UnitsPerClus = k
  BY <1>1, DivOfMultiple
<1>3. UnitsPerClus * k \in Nat
  BY <1>1
<1>4. i \in Nat
  BY <1>1, <1>3
<1>5. i = UnitsPerClus * k + (i % UnitsPerClus)
  <2> HIDE DEF i
  <2> QED  BY <1>2, <1>4, IndexSplits
<1>6. i % UnitsPerClus \in Nat
  <2> HIDE DEF i
  <2> QED  BY <1>4, IndexSplits, ClusterSize DEF Offset
<1>7. i % UnitsPerClus = u
  <2> DEFINE r == i % UnitsPerClus
             q == UnitsPerClus * k
  <2>1. q + r = q + u /\ q \in Nat /\ r \in Nat /\ u \in Nat
    BY <1>1, <1>3, <1>5, <1>6
  <2> HIDE DEF q, r
  <2> QED  BY <2>1 DEF r
<1>8. k * UnitsPerClus = UnitsPerClus * k
  BY <1>1
<1> QED  BY <1>2, <1>4, <1>7, <1>8

LEMMA OwnerHead ==
    ASSUME DiskTypes, NEW D, NEW own, NEW pos, NEW dep, DiskOK(D, own, pos, dep),
           NEW p \in Owners(D), First(p) # 0
    PROVE  First(p) \in Cluster /\ own[First(p)] = p /\ pos[First(p)] = 0
BY DEF DiskOK, HeadsOK

LEMMA OwnersAreNames ==
    ASSUME NEW D, D \subseteq Cluster
    PROVE  None \notin Owners(D) /\ Freeing \notin Owners(D) /\ Root \notin EntriesOf(D)
           /\ Owners(D) \subseteq Labels /\ EntriesOf(D) \subseteq Place /\ None # Freeing
           /\ Root # None /\ Root # Freeing
<1>1. None # Freeing /\ Root # None /\ Root # Freeing
  BY DEF None, Freeing, Root
<1>2. EntriesOf(D) \subseteq Place
  BY DEF EntriesOf, Place
<1>3. \A q \in Place : q[1] >= 2
  BY Fat32Assumption DEF Place, Cluster
<1>4. None[1] = -1 /\ Freeing[1] = -2 /\ Root[1] = 0
  BY DEF None, Freeing, Root
<1>5. None \notin Place /\ Freeing \notin Place /\ Root \notin Place
  BY <1>3, <1>4
<1> QED  BY <1>1, <1>2, <1>5 DEF Owners, Labels

LEMMA DirHasHead ==
    ASSUME NEW D, EntriesOK(D), NEW p \in Owners(D), IsDir(p)
    PROVE  First(p) # 0
BY DEF EntriesOK, Owners, IsDir, First, root_cluster

LEMMA UnitKinds ==
    ASSUME NEW u \in Units
    PROVE  /\ u.kind = "entry" => u \in Entries
           /\ u.kind = "zero" <=> u = Zero
           /\ u.kind = "deleted" <=> u = Deleted
BY DEF Units, Entries, Zero, Deleted

LEMMA EntrySetIs ==
    ASSUME DiskTypes, NEW D, NEW own, NEW pos, NEW dep, DiskOK(D, own, pos, dep),
           NEW p \in Owners(D), IsDir(p)
    PROVE  EntrySet(First(p)) = {q \in EntriesOf(D) : own[q[1]] = p}
<1> DEFINE c == First(p)
           walk == Nth(fat, c)
<1>1. c \in Cluster /\ own[c] = p /\ pos[c] = 0
  BY DirHasHead, OwnerHead DEF DiskOK
<1>2. D \subseteq Cluster /\ pos \in [Cluster -> Nat]
  BY DEF DiskOK, WitnessTypes
<1>3. own[c] # None
  BY <1>1, <1>2, OwnersAreNames
<1>4. /\ \A x \in Cluster : own[x] = p =>
                /\ pos[x] \in 0 .. total_clusters - 1 /\ walk[pos[x]] = x
                /\ \A k \in 0 .. pos[x] : walk[k] \in Cluster
      /\ \A k \in 0 .. total_clusters, x \in Cluster : walk[k] = x => own[x] = p /\ pos[x] = k
  BY <1>1, <1>3, ChainIs DEF DiskOK
<1> HIDE DEF walk, c
<1>p. \A i : PlaceAt(c, i) = <<walk[i \div UnitsPerClus], i % UnitsPerClus>>
  BY DEF PlaceAt, walk
<1>5. ASSUME NEW i \in EntriesIn(c)
      PROVE  PlaceAt(c, i) \in EntriesOf(D) /\ own[PlaceAt(c, i)[1]] = p
  <2>1. i \in 0 .. total_clusters * UnitsPerClus - 1 /\ PlaceAt(c, i)[1] \in Cluster
        /\ At(PlaceAt(c, i)).kind = "entry"
    <3>1. total_clusters * UnitsPerClus \in Nat
      BY ClusterSize
    <3>2. i \in 0 .. i
      BY <1>5, <3>1 DEF EntriesIn, InUse
    <3> QED  BY <1>5, <3>2 DEF EntriesIn, InUse
  <2> DEFINE k == i \div UnitsPerClus
  <2>2. i \in Nat /\ i < total_clusters * UnitsPerClus
    BY <2>1, ClusterSize
  <2>3. k \in 0 .. total_clusters
    <3>1. k \in Nat /\ i >= UnitsPerClus * k
      BY <2>2, IndexSplits, ClusterSize DEF Offset
    <3>2. ASSUME k > total_clusters  PROVE FALSE
      <4> HIDE DEF k
      <4>1. UnitsPerClus * total_clusters <= UnitsPerClus * k
        BY <3>1, <3>2, ClusterSize, TimesMonotone
      <4>2. UnitsPerClus * total_clusters = total_clusters * UnitsPerClus
        BY ClusterSize
      <4>3. UnitsPerClus * k \in Nat /\ total_clusters * UnitsPerClus \in Nat
        BY ClusterSize, <3>1
      <4> QED  BY <4>1, <4>2, <4>3, <2>2, <3>1
    <3> HIDE DEF k
    <3> QED  BY <3>1, <3>2, ClusterSize
  <2>4. walk[k] \in Cluster /\ PlaceAt(c, i) = <<walk[k], i % UnitsPerClus>>
    BY <2>1, <1>p
  <2>5. own[walk[k]] = p
    BY <2>3, <2>4, <1>4
  <2>6. walk[k] \in D
    BY <2>4, <2>5 DEF DiskOK, DirsOK
  <2>7. i % UnitsPerClus \in Offset
    BY <2>2, IndexSplits
  <2> QED  BY <2>1, <2>4, <2>5, <2>6, <2>7 DEF EntriesOf
<1>6. ASSUME NEW q \in EntriesOf(D), own[q[1]] = p
      PROVE  \E i \in EntriesIn(c) : PlaceAt(c, i) = q
  <2> DEFINE x == q[1]
             u == q[2]
             i == pos[x] * UnitsPerClus + u
  <2>1. q = <<x, u>> /\ x \in D /\ x \in Cluster /\ u \in Offset /\ unit[x][u].kind = "entry" /\ own[x] = p
    BY <1>6, <1>2 DEF EntriesOf, At
  <2>2. pos[x] \in 0 .. total_clusters - 1 /\ walk[pos[x]] = x /\ \A k \in 0 .. pos[x] : walk[k] \in Cluster
    BY <2>1, <1>4
  <2> HIDE DEF x, u
  <2>3. i \in Nat /\ i \div UnitsPerClus = pos[x] /\ i % UnitsPerClus = u
    BY <2>1, <2>2, IndexOf
  <2>4. PlaceAt(c, i) = q
    BY <2>1, <2>2, <2>3, <1>p
  <2> DEFINE a == pos[x] * UnitsPerClus
  <2>5. a \in Nat /\ i = UnitsPerClus * pos[x] + u /\ a = UnitsPerClus * pos[x] /\ u \in Nat /\ u < UnitsPerClus
    BY <2>1, <2>2, ClusterSize DEF Offset
  <2>6. i \in 0 .. total_clusters * UnitsPerClus - 1
    <3>1. UnitsPerClus * pos[x] <= UnitsPerClus * (total_clusters - 1)
      <4>1. UnitsPerClus \in Nat /\ pos[x] \in Int /\ total_clusters - 1 \in Int /\ pos[x] <= total_clusters - 1
        BY <2>2, ClusterSize
      <4> QED  BY <4>1, TimesMonotone
    <3>2. UnitsPerClus * (total_clusters - 1) = total_clusters * UnitsPerClus - UnitsPerClus
          /\ total_clusters * UnitsPerClus \in Nat
      BY ClusterSize
    <3> HIDE DEF i, a
    <3> QED  BY <3>1, <3>2, <2>3, <2>5, ClusterSize
  <2> HIDE DEF i, a
  <2>7. ASSUME NEW j \in 0 .. i
        PROVE  PlaceAt(c, j)[1] \in Cluster /\ At(PlaceAt(c, j)) # Zero
    <3> DEFINE k == j \div UnitsPerClus
               v == j % UnitsPerClus
               y == walk[k]
    <3>1. j \in Nat /\ j <= i
      BY <2>3
    <3>2. k \in Nat /\ v \in Offset /\ v \in Nat /\ j = UnitsPerClus * k + v
      <4>1. k \in Nat /\ v \in Offset /\ j = UnitsPerClus * k + v
        <5> HIDE DEF i, a
        <5> QED  BY ONLY <3>1, IndexSplits DEF k, v
      <4> QED  BY <4>1 DEF Offset
    <3> HIDE DEF k, v
    <3>3. k <= pos[x]
      <4>1. ASSUME k >= pos[x] + 1  PROVE FALSE
        <5>1. UnitsPerClus * (pos[x] + 1) <= UnitsPerClus * k
          <6>1. UnitsPerClus \in Nat /\ pos[x] + 1 \in Int /\ k \in Int /\ pos[x] + 1 <= k
            BY <4>1, <3>2, <2>2, ClusterSize
          <6> QED  BY <6>1, TimesMonotone
        <5>2. UnitsPerClus * (pos[x] + 1) = UnitsPerClus * pos[x] + UnitsPerClus
          BY <2>2, ClusterSize
        <5>3. UnitsPerClus * pos[x] \in Nat /\ UnitsPerClus * k \in Nat
          BY <2>2, <3>2, ClusterSize
        <5> QED  BY <5>1, <5>2, <5>3, <3>1, <3>2, <2>5, ClusterSize
      <4> QED  BY <4>1, <3>2, <2>2
    <3>4. k \in 0 .. pos[x] /\ k \in 0 .. total_clusters
      BY <3>2, <3>3, <2>2, ClusterSize
    <3>5. y \in Cluster /\ own[y] = p /\ pos[y] = k
      BY <3>4, <2>2, <1>4
    <3>6. y \in D
      BY <3>5 DEF DiskOK, DirsOK
    <3>7. PlaceAt(c, j) = <<y, v>>
      BY <1>p DEF k, v
    <3> HIDE DEF y
    <3>8. unit[y][v] # Zero
      <4>1. CASE k < pos[x]
        <5>1. fat[y] # EOC
          <6>1. own[y] # None /\ own[y] = own[x]
            BY <3>5, <2>1, <1>1, <1>3
          <6>2. fat[y] = EOC => pos[x] <= pos[y]
            BY <6>1, <3>5, <2>1 DEF DiskOK, LinksOK
          <6> QED  BY <6>2, <4>1, <3>5, <3>2, <2>2
        <5> QED  BY <5>1, <3>6, <3>2 DEF DiskOK, ParseOK
      <4>2. CASE k = pos[x]
        <5>1. y = x
          <6>1. own[y] # None /\ own[y] = own[x] /\ pos[y] = pos[x]
            BY <3>5, <2>1, <1>1, <1>3, <4>2
          <6> QED  BY <6>1, <3>5, <2>1 DEF DiskOK, LinksOK
        <5>2. v <= u
          <6>1. UnitsPerClus * k \in Nat
            BY <3>2, ClusterSize
          <6> QED  BY <6>1, <3>1, <3>2, <2>5, <4>2
        <5>3. unit[x][u] # Zero
          BY <2>1 DEF Zero
        <5>4. v < u /\ unit[x][v] = Zero => unit[x][u] = Zero
          BY <2>1, <3>2 DEF DiskOK, ParseOK, Parses
        <5> QED  BY <5>1, <5>2, <5>3, <5>4, <3>2, <2>5
      <4> QED  BY <4>1, <4>2, <3>3, <3>2, <2>2
    <3> QED  BY <3>5, <3>7, <3>8 DEF At
  <2>8. i \in EntriesIn(c)
    <3>1. At(PlaceAt(c, i)).kind = "entry"
      BY <2>1, <2>4 DEF At
    <3>2. i \in InUse(c)
      BY <2>6, <2>7 DEF InUse
    <3> QED  BY <3>1, <3>2 DEF EntriesIn
  <2> QED  BY <2>4, <2>8
<1>7. EntrySet(c) = {PlaceAt(c, i) : i \in EntriesIn(c)}
  BY DEF EntrySet
<1> QED  BY <1>5, <1>6, <1>7 DEF c

-----------------------------------------------------------------------------
(* The directories that can be reached from the root. *)

\* The clusters of the directories whose entries lie in a set of clusters.
Subdirs(set) == {p \in EntriesOf(set) : At(p).type = DIR}
Grow(set) == set \union UNION {Chain(At(p).first) : p \in Subdirs(set)}
Reaches(g) ==
    /\ g \in [0 .. total_clusters -> SUBSET Cluster]
    /\ g[0] = Chain(root_cluster)
    /\ \A k \in 0 .. total_clusters - 1 : g[k + 1] = Grow(g[k])

LEMMA ReachSteps == \E g : Reaches(g) /\ DirClusters = g[total_clusters]
<1> DEFINE V == SUBSET Cluster
           c == Chain(root_cluster)
           step == [set \in V |-> Grow(set)]
           Is(g) == g = [k \in 0 .. total_clusters |->
                           IF k = 0 THEN c
                           ELSE LET near == g[k - 1]
                                    subdirs == {p \in EntriesOf(near) : At(p).type = DIR}
                                IN  near \union UNION {Chain(At(p).first) : p \in subdirs}]
<1>0. total_clusters \in Nat
  BY Fat32Assumption
<1>1. step \in [V -> V] /\ c \in V
  BY DEF Grow, Chain
<1>2. PICK g : Computes(g, total_clusters, V, c, step)
  <2> HIDE DEF step, V, c
  <2> QED  BY ONLY <1>0, <1>1, Recursion
<1>3. g \in [0 .. total_clusters -> V] /\ g[0] = c /\ \A k \in 1 .. total_clusters : g[k] = step[g[k - 1]]
  <2> HIDE DEF step, V, c
  <2> QED  BY <1>2 DEF Computes
<1>4. Is(g)
  <2>3. ASSUME NEW k \in 0 .. total_clusters
        PROVE  g[k] = IF k = 0 THEN c ELSE Grow(g[k - 1])
    <3>1. CASE k = 0
      BY <3>1, <1>3
    <3>2. CASE k # 0
      <4>1. k \in 1 .. total_clusters /\ k - 1 \in 0 .. total_clusters
        BY <3>2, <1>0
      <4>2. g[k] = step[g[k - 1]] /\ g[k - 1] \in V
        BY <4>1, <1>3
      <4>3. step[g[k - 1]] = Grow(g[k - 1])
        BY <4>2
      <4> HIDE DEF step, V, c
      <4> QED  BY <4>2, <4>3, <3>2
    <3> QED  BY <3>1, <3>2
  <2>4. g = [k \in 0 .. total_clusters |-> IF k = 0 THEN c ELSE Grow(g[k - 1])]
    <3> HIDE DEF step, V, c
    <3> QED  BY <2>3, <1>3
  <2> QED  BY <2>4 DEF Grow, Subdirs
<1> DEFINE reach == CHOOSE h : Is(h)
<1>5. DirClusters = reach[total_clusters]
  BY DEF DirClusters
<1>6. Is(reach)
  <2> HIDE DEF Is
  <2> QED  BY <1>4
<1> HIDE DEF reach
<1>7. reach = [k \in 0 .. total_clusters |-> IF k = 0 THEN c ELSE Grow(reach[k - 1])]
  BY <1>6 DEF Grow, Subdirs
<1>8. g = [k \in 0 .. total_clusters |-> IF k = 0 THEN c ELSE Grow(g[k - 1])]
  BY <1>4 DEF Grow, Subdirs
<1> HIDE DEF step, V, c, Is
<1>9. ASSUME NEW h, h = [k \in 0 .. total_clusters |-> IF k = 0 THEN c ELSE Grow(h[k - 1])]
      PROVE  h[0] = c /\ \A k \in 0 .. total_clusters - 1 : h[k + 1] = Grow(h[k])
  <2>1. h[0] = c
    BY <1>9, <1>0
  <2>2. ASSUME NEW k \in 0 .. total_clusters - 1  PROVE h[k + 1] = Grow(h[k])
    <3> DEFINE j == k + 1
    <3>1. j \in 0 .. total_clusters /\ j # 0 /\ j - 1 = k
      BY <1>0
    <3> HIDE DEF j
    <3>2. h[j] = Grow(h[j - 1])
      BY <3>1, <1>9
    <3> QED  BY <3>1, <3>2 DEF j
  <2> QED  BY <2>1, <2>2
<1>10. reach = g
  <2> DEFINE T == {k \in 0 .. total_clusters : reach[k] = g[k]}
  <2>1. 0 \in T
    BY <1>0, <1>7, <1>8, <1>9
  <2>2. ASSUME NEW k \in 0 .. total_clusters - 1, k \in T  PROVE k + 1 \in T
    <3>1. k + 1 \in 0 .. total_clusters
      BY <1>0
    <3>2. reach[k + 1] = Grow(reach[k]) /\ g[k + 1] = Grow(g[k])
      BY <1>7, <1>8, <1>9
    <3> QED  BY <2>2, <3>1, <3>2
  <2>3. \A k \in 0 .. total_clusters : k \in T
    <3> HIDE DEF T
    <3> QED  BY <2>1, <2>2, <1>0, UpTo
  <2> QED  BY <2>3, <1>7, <1>8
<1>11. Reaches(g)
  BY <1>3, <1>8, <1>9 DEF Reaches, V, c
<1> QED  BY <1>5, <1>10, <1>11

LEMMA ChainOfOwner ==
    ASSUME DiskTypes, NEW D, NEW own, NEW pos, NEW dep, DiskOK(D, own, pos, dep),
           NEW p \in Owners(D), First(p) # 0
    PROVE  /\ Chain(First(p)) = {x \in Cluster : own[x] = p}
           /\ Nth(fat, First(p))[total_clusters] = EOC
<1>1. D \subseteq Cluster
  BY DEF DiskOK, WitnessTypes
<1>2. First(p) \in Cluster /\ own[First(p)] = p /\ pos[First(p)] = 0
  BY OwnerHead
<1>3. own[First(p)] # None
  BY <1>1, <1>2, OwnersAreNames
<1> QED  BY <1>2, <1>3, ChainIs DEF DiskOK

\* A chain from the free mark is empty.
LEMMA NoChain ==
    ASSUME DiskTypes
    PROVE  Chain(0) = {}
<1>0. fat \in [Cluster -> Links] /\ 0 \in Links /\ 0 \notin Cluster /\ total_clusters \in Nat
  BY Fat32Assumption DEF DiskTypes, Links, FREE, Cluster
<1>1. Walks(Nth(fat, 0), fat, 0)
  BY <1>0, NthSteps
<1> DEFINE walk == Nth(fat, 0)
           T == {k \in 0 .. total_clusters : walk[k] = 0}
<1> HIDE DEF walk
<1>2. 0 \in T
  BY <1>0, <1>1 DEF Walks, walk
<1>3. ASSUME NEW k \in 0 .. total_clusters - 1, k \in T  PROVE k + 1 \in T
  <2>1. k + 1 \in 0 .. total_clusters
    BY <1>0
  <2>2. walk[k + 1] = IF walk[k] \in Cluster THEN fat[walk[k]] ELSE walk[k]
    BY <1>1 DEF Walks, walk
  <2> QED  BY <2>1, <2>2, <1>0, <1>3
<1>4. \A k \in 0 .. total_clusters : k \in T
  <2> HIDE DEF T
  <2> QED  BY <1>0, <1>2, <1>3, UpTo
<1> QED  BY <1>0, <1>4 DEF Chain, walk

\* Chains of owners in D stay in D.
LEMMA SubdirOwns ==
    ASSUME DiskTypes, NEW D, NEW own, NEW pos, NEW dep, DiskOK(D, own, pos, dep),
           NEW p \in Owners(D), IsDir(p)
    PROVE  Chain(First(p)) \subseteq D /\ Chain(First(p)) = {x \in Cluster : own[x] = p}
<1>1. First(p) # 0
  BY DirHasHead DEF DiskOK
<1>2. Chain(First(p)) = {x \in Cluster : own[x] = p}
  BY <1>1, ChainOfOwner
<1> QED  BY <1>2 DEF DiskOK, DirsOK

LEMMA EntryOwner ==
    ASSUME NEW D, D \subseteq Cluster, NEW p \in EntriesOf(D)
    PROVE  p \in Owners(D) /\ First(p) = At(p).first /\ (IsDir(p) <=> At(p).type = DIR)
<1>1. p # Root
  BY OwnersAreNames
<1> QED  BY <1>1 DEF Owners, First, IsDir

LEMMA RootOwner ==
    ASSUME NEW D
    PROVE  Root \in Owners(D) /\ First(Root) = root_cluster /\ IsDir(Root) /\ root_cluster # 0
BY DEF Owners, First, IsDir, root_cluster

LEMMA ReachedAreDirs ==
    ASSUME DiskTypes, NEW D, NEW own, NEW pos, NEW dep, DiskOK(D, own, pos, dep)
    PROVE  DirClusters \subseteq D
<1>0. total_clusters \in Nat /\ D \subseteq Cluster
  BY Fat32Assumption DEF DiskOK, WitnessTypes
<1>1. PICK g : Reaches(g) /\ DirClusters = g[total_clusters]
  BY ReachSteps
<1> DEFINE T == {k \in 0 .. total_clusters : g[k] \subseteq D}
<1>2. 0 \in T
  <2>1. Chain(root_cluster) \subseteq D
    BY RootOwner, SubdirOwns
  <2> QED  BY <2>1, <1>0, <1>1 DEF Reaches
<1>3. ASSUME NEW k \in 0 .. total_clusters - 1, k \in T  PROVE k + 1 \in T
  <2>1. k + 1 \in 0 .. total_clusters /\ g[k + 1] = Grow(g[k])
    BY <1>0, <1>1 DEF Reaches
  <2>2. ASSUME NEW p \in Subdirs(g[k])  PROVE Chain(At(p).first) \subseteq D
    <3>1. p \in EntriesOf(D) /\ At(p).type = DIR
      BY <1>3 DEF Subdirs, EntriesOf
    <3> QED  BY <3>1, <1>0, EntryOwner, SubdirOwns
  <2>3. Grow(g[k]) \subseteq D
    BY <2>2, <1>3 DEF Grow
  <2> QED  BY <2>1, <2>3
<1>4. \A k \in 0 .. total_clusters : k \in T
  <2> HIDE DEF T
  <2> QED  BY <1>0, <1>2, <1>3, UpTo
<1> QED  BY <1>0, <1>1, <1>4

-----------------------------------------------------------------------------
(* What the invariant says of the disk and of the cache. *)

LEMMA OnDiskIsOwned ==
    ASSUME DiskTypes, NEW D, NEW own, NEW pos, NEW dep, DiskOK(D, own, pos, dep)
    PROVE  OnDisk \subseteq EntriesOf(D) /\ D \subseteq Cluster
BY ReachedAreDirs DEF OnDisk, EntriesOf, DiskOK, WitnessTypes

LEMMA SoundChains ==
    ASSUME DiskTypes, NEW D, NEW own, NEW pos, NEW dep, DiskOK(D, own, pos, dep)
    PROVE  ChainsAreSound
<1>0. OnDisk \subseteq EntriesOf(D) /\ D \subseteq Cluster
  BY OnDiskIsOwned
<1>1. ASSUME NEW p \in OnDisk
      PROVE  /\ p \in Owners(D) /\ First(p) = At(p).first /\ p # Root
             /\ Chain(At(p).first) \subseteq {x \in Cluster : own[x] = p}
  <2>1. p \in Owners(D) /\ First(p) = At(p).first /\ p # Root
    BY <1>0, EntryOwner, OwnersAreNames
  <2>2. CASE At(p).first = 0
    BY <2>1, <2>2, NoChain
  <2>3. CASE At(p).first # 0
    BY <2>1, <2>3, ChainOfOwner
  <2> QED  BY <2>1, <2>2, <2>3
<1>2. Chain(root_cluster) = {x \in Cluster : own[x] = Root} /\ Nth(fat, root_cluster)[total_clusters] = EOC
  BY RootOwner, ChainOfOwner
<1>3. ASSUME NEW c \in Heads  PROVE Nth(fat, c)[total_clusters] = EOC
  <2>1. CASE c = root_cluster
    BY <2>1, <1>2
  <2>2. CASE c # root_cluster
    <3>1. PICK p \in OnDisk : c = At(p).first /\ c # 0
      BY <2>2 DEF Heads
    <3> QED  BY <3>1, <1>1, ChainOfOwner
  <2> QED  BY <2>1, <2>2
<1>4. ASSUME NEW p \in OnDisk, NEW q \in OnDisk, p # q
      PROVE  Chain(At(p).first) \intersect Chain(At(q).first) = {}
  BY <1>1, <1>4
<1>5. ASSUME NEW p \in OnDisk
      PROVE  /\ Chain(At(p).first) \intersect Chain(root_cluster) = {}
             /\ At(p).type = DIR => At(p).first # 0
  BY <1>0, <1>1, <1>2 DEF DiskOK, EntriesOK
<1> QED  BY <1>3, <1>4, <1>5 DEF ChainsAreSound

LEMMA FilesAreWhole ==
    ASSUME DiskTypes, NEW D, NEW own, NEW pos, NEW dep, DiskOK(D, own, pos, dep)
    PROVE  FilesHoldTheirData
<1> SUFFICES ASSUME NEW p \in OnDisk, At(p).type = FILE
             PROVE  fat32_read(p) = [i \in 0 .. At(p).size - 1 |-> Data(At(p).name, i)]
  BY DEF FilesHoldTheirData
<1>0. p \in EntriesOf(D) /\ D \subseteq Cluster
  BY OnDiskIsOwned
<1>1. p \in Owners(D) /\ First(p) = At(p).first /\ p # Root
  BY <1>0, EntryOwner, OwnersAreNames
<1> DEFINE c == At(p).first
           walk == Nth(fat, c)
<1>2. At(p) \in Entries
  <2>1. At(p) \in Units
    BY <1>0 DEF EntriesOf, At, DiskTypes
  <2> QED  BY <1>0, <2>1, UnitKinds DEF EntriesOf
<1>3. At(p).size \in Nat
  BY <1>2 DEF Entries
<1>4. ASSUME NEW i \in 0 .. At(p).size - 1
      PROVE  /\ walk[i \div UnitsPerClus] \in Cluster
             /\ unit[walk[i \div UnitsPerClus]][i % UnitsPerClus] = Data(At(p).name, i)
  <2>1. c # 0
    BY <1>0, <1>3 DEF DiskOK, EntriesOK
  <2>2. c \in Cluster /\ own[c] = p /\ pos[c] = 0 /\ own[c] # None
    BY <2>1, <1>0, <1>1, OwnerHead, OwnersAreNames
  <2>3. /\ \A x \in Cluster : own[x] = p => \A k \in 0 .. pos[x] : walk[k] \in Cluster
        /\ \A k \in 0 .. total_clusters, x \in Cluster : walk[k] = x => own[x] = p /\ pos[x] = k
        /\ \A x \in Cluster : own[x] = p => pos[x] \in 0 .. total_clusters - 1
        /\ \E x \in Cluster : own[x] = p /\ fat[x] = EOC
    <3>1. /\ \A x \in Cluster : own[x] = own[c] =>
                /\ pos[x] \in 0 .. total_clusters - 1 /\ walk[pos[x]] = x
                /\ \A k \in 0 .. pos[x] : walk[k] \in Cluster
          /\ \A k \in 0 .. total_clusters, x \in Cluster : walk[k] = x => own[x] = own[c] /\ pos[x] = k
          /\ \E x \in Cluster : own[x] = own[c] /\ fat[x] = EOC
      BY <2>2, ChainIs DEF DiskOK
    <3> HIDE DEF walk, c
    <3> QED  BY <2>2, <3>1
  <2> DEFINE k == i \div UnitsPerClus
             u == i % UnitsPerClus
  <2>4. PICK e \in Cluster : own[e] = p /\ fat[e] = EOC
    BY <2>3
  <2>5. At(p).size <= (pos[e] + 1) * UnitsPerClus
    BY <2>4, <1>0 DEF DiskOK, DataOK, EndsWithin
  <2>6. i \in Nat /\ i < At(p).size
    BY <1>3
  <2>7. k \in Nat /\ u \in Offset /\ u \in Nat /\ i = UnitsPerClus * k + u
    <3>1. k \in Nat /\ u \in Offset /\ i = UnitsPerClus * k + u
      BY <2>6, IndexSplits
    <3> QED  BY <3>1 DEF Offset
  <2> HIDE DEF k, u
  <2>8. pos[e] \in Nat /\ pos[e] < total_clusters
    BY <2>3, <2>4, ClusterSize
  <2>9. k <= pos[e]
    <3>1. ASSUME k >= pos[e] + 1  PROVE FALSE
      <4>1. UnitsPerClus \in Nat /\ pos[e] + 1 \in Int /\ k \in Int /\ pos[e] + 1 <= k
        BY <3>1, <2>7, <2>8, ClusterSize
      <4>2. UnitsPerClus * (pos[e] + 1) <= UnitsPerClus * k
        BY <4>1, TimesMonotone
      <4>3. UnitsPerClus * (pos[e] + 1) = (pos[e] + 1) * UnitsPerClus /\ UnitsPerClus * k \in Nat
            /\ UnitsPerClus * (pos[e] + 1) \in Nat
        BY <2>8, <2>7, ClusterSize
      <4> QED  BY <4>2, <4>3, <2>5, <2>6, <2>7, <1>3
    <3> QED  BY <3>1, <2>7, <2>8
  <2>10. walk[k] \in Cluster
    <3> HIDE DEF walk
    <3> QED  BY <2>3, <2>4, <2>7, <2>8, <2>9
  <2>11. own[walk[k]] = p /\ pos[walk[k]] = k
    <3>1. k \in 0 .. total_clusters
      BY <2>7, <2>8, <2>9, ClusterSize
    <3> HIDE DEF walk
    <3> QED  BY <3>1, <2>3, <2>10
  <2> DEFINE y == walk[k]
  <2>12. HoldsUpTo(y, pos, At(p).name, At(p).size)
    BY <2>10, <2>11, <1>0 DEF DiskOK, DataOK
  <2>13. k * UnitsPerClus + u = i
    BY <2>7, ClusterSize
  <2>14. unit[y][u] = Data(At(p).name, i)
    <3> HIDE DEF y
    <3>1. pos[y] = k
      BY <2>11 DEF y
    <3>2. pos[y] * UnitsPerClus + u = i
      BY <3>1, <2>13
    <3> QED  BY <2>6, <2>7, <2>12, <3>2 DEF HoldsUpTo
  <2> QED  BY <2>10, <2>14 DEF k, u
<1> DEFINE backed == {i \in 0 .. At(p).size - 1 : walk[i \div UnitsPerClus] \in Cluster}
<1>5. backed = 0 .. At(p).size - 1
  BY <1>4
<1>6. fat32_read(p) = [i \in backed |-> unit[walk[i \div UnitsPerClus]][i % UnitsPerClus]]
  BY DEF fat32_read
<1>7. fat32_read(p) = [i \in 0 .. At(p).size - 1 |-> unit[walk[i \div UnitsPerClus]][i % UnitsPerClus]]
  <2> HIDE DEF backed
  <2> QED  BY <1>5, <1>6
<1> HIDE DEF walk, backed
<1> QED  BY <1>4, <1>7

LEMMA DirectoriesAreWhole ==
    ASSUME DiskTypes, NEW D, NEW own, NEW pos, NEW dep, DiskOK(D, own, pos, dep)
    PROVE  DirectoriesParse
<1>0. OnDisk \subseteq EntriesOf(D) /\ D \subseteq Cluster /\ DirClusters \subseteq D
  BY OnDiskIsOwned, ReachedAreDirs
<1>1. ASSUME NEW c \in DirClusters, NEW u \in Offset
      PROVE  unit[c][u].kind \in {"zero", "deleted", "dot", "lfn", "entry"}
  <2>1. unit[c][u] \in Units /\ unit[c][u].kind # "data"
    BY <1>0 DEF DiskOK, ParseOK, Parses, DiskTypes
  <2> QED  BY <2>1 DEF Units, Entries
<1>2. ASSUME NEW p \in Owners(D), IsDir(p)
      PROVE  EntrySet(First(p)) = EntriesOf(Chain(First(p)))
  <2>1. EntrySet(First(p)) = {q \in EntriesOf(D) : own[q[1]] = p}
    BY <1>2, EntrySetIs
  <2>2. Chain(First(p)) \subseteq D /\ Chain(First(p)) = {x \in Cluster : own[x] = p}
    BY <1>2, SubdirOwns
  <2> QED  BY <2>1, <2>2, <1>0 DEF EntriesOf
<1>3. ASSUME NEW h \in {root_cluster} \union {At(p).first : p \in {q \in OnDisk : At(q).type = DIR}}
      PROVE  EntrySet(h) = EntriesOf(Chain(h))
  <2>1. \E p \in Owners(D) : IsDir(p) /\ First(p) = h
    <3>1. CASE h = root_cluster
      BY <3>1, RootOwner
    <3>2. CASE h # root_cluster
      <4>1. PICK p \in OnDisk : At(p).type = DIR /\ h = At(p).first
        BY <3>2, <1>3
      <4> QED  BY <4>1, <1>0, EntryOwner
    <3> QED  BY <3>1, <3>2
  <2> QED  BY <2>1, <1>2
<1> QED  BY <1>1, <1>3 DEF DirectoriesParse

\* A cached directory stands for an owner.
LEMMA CachedDir ==
    ASSUME NEW D, D \subseteq Cluster, EntriesOK(D), NEW ca, NEW gone, CacheFits(ca, gone, D),
           NEW d \in DOMAIN ca, d \notin gone, ca[d].type = DIR
    PROVE  d \in Owners(D) /\ IsDir(d) /\ FirstOf(ca, d) = First(d)
<1>1. CASE d = Root
  BY <1>1 DEF Owners, IsDir, First, FirstOf, CacheFits
<1>2. CASE d # Root
  <2>1. d \in EntriesOf(D) /\ Agrees(ca, d)
    BY <1>2 DEF CacheFits
  <2>2. At(d).type = DIR /\ At(d).first # 0 /\ ca[d].first_cluster = At(d).first
    BY <2>1 DEF Agrees, EntriesOK
  <2> QED  BY <2>1, <2>2, EntryOwner DEF FirstOf
<1> QED  BY <1>1, <1>2

LEMMA CacheIsRight ==
    ASSUME DiskTypes, NEW D, NEW own, NEW pos, NEW dep, DiskOK(D, own, pos, dep), CacheOK(D, own)
    PROVE  CacheMatchesDisk
<1> SUFFICES ASSUME op = Idle
             PROVE  /\ \A n \in DOMAIN cache \ {Root} :
                         /\ At(n).kind = "entry"
                         /\ At(n).type = cache[n].type
                         /\ At(n).first = cache[n].first_cluster
                         /\ At(n).size = cache[n].file_size
                    /\ \A d \in DOMAIN cache :
                         cache[d].children_loaded /\ ~ lost =>
                             cache[d].children = EntrySet(FirstOf(cache, d))
  BY DEF CacheMatchesDisk
<1>1. Gone = {}
  BY DEF Gone, Idle
<1>2. ASSUME NEW n \in DOMAIN cache \ {Root}
      PROVE  /\ At(n).kind = "entry"
             /\ At(n).type = cache[n].type
             /\ At(n).first = cache[n].first_cluster
             /\ At(n).size = cache[n].file_size
  <2>1. n \in EntriesOf(D) /\ Agrees(cache, n)
    BY <1>1 DEF CacheOK, CacheFits
  <2> QED  BY <2>1 DEF EntriesOf, Agrees
<1>3. ASSUME NEW d \in DOMAIN cache, cache[d].children_loaded, ~ lost
      PROVE  cache[d].children = EntrySet(FirstOf(cache, d))
  <2>1. cache[d].type = DIR
    BY <1>3 DEF CacheOK, ChildrenFit
  <2>2. d \in Owners(D) /\ IsDir(d) /\ FirstOf(cache, d) = First(d)
    BY <2>1, <1>1, CachedDir DEF DiskOK, WitnessTypes, CacheOK
  <2>3. EntrySet(First(d)) = {q \in EntriesOf(D) : own[q[1]] = d}
    BY <2>2, EntrySetIs
  <2>4. cache[d].children = {q \in EntriesOf(D) : own[q[1]] = d}
    BY <1>1, <1>3 DEF CacheOK, WholeFits
  <2> QED  BY <2>2, <2>3, <2>4
<1> QED  BY <1>2, <1>3

-----------------------------------------------------------------------------
(* Loading a directory. *)

\* A node whose directory is cached is one of its children.
Listed(ca, own) == \A n \in DOMAIN ca \ {Root} :
    own[n[1]] \in DOMAIN ca => n \in ca[own[n[1]]].children
\* ca knows what cache knew of the nodes it has kept.
Keeps(ca) ==
    /\ DOMAIN Closed \subseteq DOMAIN ca
    /\ \A n \in DOMAIN Closed :
        /\ ca[n].type = cache[n].type
        /\ ca[n].first_cluster = cache[n].first_cluster
        /\ ca[n].file_size = cache[n].file_size

LEMMA ClosedFits ==
    ASSUME NEW D, D \subseteq Cluster, NEW own, CacheFits(cache, {}, D), ChildrenFit(cache, own)
    PROVE  /\ CacheFits(Closed, {}, D) /\ ChildrenFit(Closed, own) /\ Listed(Closed, own) /\ Keeps(Closed)
           /\ DOMAIN Closed \subseteq DOMAIN cache
           /\ \A n \in DOMAIN Closed : Closed[n] = cache[n]
           /\ WholeFits(cache, {}, D, own) => WholeFits(Closed, {}, D, own)
<1> DEFINE listed == UNION {cache[d].children : d \in DOMAIN cache}
<1>1. Closed = [n \in {Root} \union listed |-> cache[n]]
  BY DEF Closed
<1>2. listed \subseteq DOMAIN cache /\ Root \in DOMAIN cache
  BY DEF ChildrenFit, CacheFits
<1>3. DOMAIN Closed = {Root} \union listed /\ \A n \in DOMAIN Closed : Closed[n] = cache[n]
  BY <1>1
<1>4. DOMAIN Closed \subseteq DOMAIN cache
  BY <1>2, <1>3
<1>5. CacheFits(Closed, {}, D)
  <2>1. Closed \in [DOMAIN Closed -> Nodes]
    BY <1>1, <1>3, <1>4 DEF CacheFits
  <2>2. Root \in DOMAIN Closed /\ Closed[Root] = cache[Root]
    BY <1>3
  <2>3. ASSUME NEW n \in DOMAIN Closed, n # Root  PROVE n \in EntriesOf(D) /\ Agrees(Closed, n)
    BY <2>3, <1>3, <1>4 DEF CacheFits, Agrees
  <2> QED  BY <2>1, <2>2, <2>3 DEF CacheFits
<1>6. ChildrenFit(Closed, own)
  <2> SUFFICES ASSUME NEW d \in DOMAIN Closed
               PROVE  /\ ~ Closed[d].children_loaded => Closed[d].children = {}
                      /\ Closed[d].children_loaded => Closed[d].type = DIR /\ d \in Known(Closed)
                      /\ \A n \in Closed[d].children :
                            n \in DOMAIN Closed /\ Closed[n].parent = d /\ own[n[1]] = d
    BY DEF ChildrenFit
  <2>1. d \in DOMAIN cache /\ Closed[d] = cache[d]
    BY <1>3, <1>4
  <2>2. ASSUME NEW n \in Closed[d].children
        PROVE  n \in DOMAIN Closed /\ Closed[n].parent = d /\ own[n[1]] = d
    <3>1. n \in cache[d].children
      BY <2>1, <2>2
    <3>2. n \in listed
      BY <2>1, <3>1
    <3> HIDE DEF listed
    <3> QED  BY <2>1, <3>1, <3>2, <1>3 DEF ChildrenFit
  <2>3. ASSUME Closed[d].children_loaded  PROVE Closed[d].type = DIR /\ d \in Known(Closed)
    <3>1. Closed[d].type = DIR
      BY <2>1, <2>3 DEF ChildrenFit
    <3>2. ASSUME d # Root  PROVE d \in Known(Closed)
      <4>1. PICK a \in DOMAIN cache : d \in cache[a].children
        BY <3>2, <1>3
      <4>2. d \in cache[a].children /\ cache[a].children # {}
        BY <4>1
      <4>3. cache[a].children_loaded
        BY <4>2 DEF ChildrenFit
      <4>4. a \in Known(cache)
        BY <4>3 DEF ChildrenFit
      <4>5. a \in DOMAIN Closed
        BY <4>4, <1>3 DEF Known
      <4>6. d \in Closed[a].children
        BY <4>2, <4>5, <1>3
      <4> QED  BY <4>5, <4>6 DEF Known
    <3> QED  BY <3>1, <3>2 DEF Known
  <2>4. ~ Closed[d].children_loaded => Closed[d].children = {}
    BY <2>1 DEF ChildrenFit
  <2> QED  BY <2>2, <2>3, <2>4
<1>7. Listed(Closed, own)
  <2> SUFFICES ASSUME NEW n \in DOMAIN Closed, n # Root, own[n[1]] \in DOMAIN Closed
               PROVE  n \in Closed[own[n[1]]].children
    BY DEF Listed
  <2>1. PICK d \in DOMAIN cache : n \in cache[d].children
    BY <1>3
  <2>2. own[n[1]] = d
    BY <2>1 DEF ChildrenFit
  <2> QED  BY <2>1, <2>2, <1>3
<1>8. Keeps(Closed)
  BY <1>3 DEF Keeps
<1>9. ASSUME WholeFits(cache, {}, D, own)  PROVE WholeFits(Closed, {}, D, own)
  BY <1>3, <1>4, <1>9 DEF WholeFits
<1> QED  BY <1>3, <1>4, <1>5, <1>6, <1>7, <1>8, <1>9

LEMMA ListedNameTypes ==
    ASSUME DiskTypes, NEW c, NEW i \in EntriesIn(c)
    PROVE  ListedName(c, PlaceAt(c, i)) \in AnyName
<1> DEFINE n == PlaceAt(c, i)
           j == CHOOSE h \in InUse(c) : PlaceAt(c, h) = n
<1>1. j \in InUse(c) /\ PlaceAt(c, j) = n
  BY DEF EntriesIn
<1>2. total_clusters * UnitsPerClus \in Nat
  BY ClusterSize
<1>3. ASSUME NEW h \in InUse(c), NEW g \in 0 .. h
      PROVE  At(PlaceAt(c, g)) \in Units
  <2>1. PlaceAt(c, g)[1] \in Cluster
    BY <1>3 DEF InUse
  <2>2. g \in Nat
    BY <1>2, <1>3 DEF InUse
  <2>3. PlaceAt(c, g)[2] \in Offset
    BY <2>2, IndexSplits DEF PlaceAt
  <2> QED  BY <2>1, <2>3 DEF At, DiskTypes
<1>4. i \in InUse(c) /\ At(n).kind = "entry" /\ i \in 0 .. i
  BY <1>2 DEF EntriesIn, InUse
<1>5. At(n) \in Entries
  BY <1>3, <1>4, UnitKinds
<1>6. At(n).name \in AnyName
  BY <1>5 DEF Entries, AnyName
<1> HIDE DEF j
<1>7. CASE j > 0 /\ At(PlaceAt(c, j - 1)).kind = "lfn"
  <2>1. j - 1 \in 0 .. j
    BY <1>1, <1>2, <1>7 DEF InUse
  <2>2. At(PlaceAt(c, j - 1)) \in Units
    BY <2>1, <1>1, <1>3
  <2>3. At(PlaceAt(c, j - 1)).name = LongName
    BY <2>2, <1>7 DEF Units, Entries
  <2>4. ListedName(c, n) = At(PlaceAt(c, j - 1)).name
    BY <1>7 DEF ListedName, j
  <2> QED  BY <2>3, <2>4 DEF AnyName
<1>8. CASE ~ (j > 0 /\ At(PlaceAt(c, j - 1)).kind = "lfn")
  <2>1. ListedName(c, n) = At(n).name
    BY <1>8 DEF ListedName, j
  <2> QED  BY <2>1, <1>6
<1> QED  BY <1>7, <1>8

\* load_dir_children adds nodes for entries that lie in d.
LEMMA LoadedFits ==
    ASSUME DiskTypes, NEW D, NEW own, NEW pos, NEW dep, DiskOK(D, own, pos, dep),
           CacheFits(cache, {}, D), ChildrenFit(cache, own),
           NEW d \in DOMAIN Closed, cache[d].type = DIR, ~ cache[d].children_loaded, NEW kept
    PROVE  LET ca == Loaded(Closed, d, kept)
           IN  /\ CacheFits(ca, {}, D) /\ ChildrenFit(ca, own) /\ Listed(ca, own) /\ Keeps(ca)
               /\ ca[d].children_loaded
               /\ WholeFits(cache, {}, D, own) /\ IsWhole(ca, d) => WholeFits(ca, {}, D, own)
<1> DEFINE c == FirstOf(Closed, d)
           found == {i \in EntriesIn(c) : PlaceAt(c, i) \in kept}
           taken == {i \in found : Cardinality({j \in found : j < i}) < FAT32_MAX_DIR_CHILDREN}
           children == {PlaceAt(c, i) : i \in taken}
           ca == [n \in DOMAIN Closed \union children |->
                    IF n \in children
                    THEN NewNode(ListedName(c, n), At(n).type, At(n).first, At(n).size, d)
                    ELSE IF n = d
                    THEN [Closed[n] EXCEPT !.children_loaded = TRUE, !.children = children]
                    ELSE Closed[n]]
<1>0. D \subseteq Cluster
  BY DEF DiskOK, WitnessTypes
<1>1. /\ CacheFits(Closed, {}, D) /\ ChildrenFit(Closed, own) /\ Listed(Closed, own) /\ Keeps(Closed)
      /\ DOMAIN Closed \subseteq DOMAIN cache
      /\ \A n \in DOMAIN Closed : Closed[n] = cache[n]
      /\ WholeFits(cache, {}, D, own) => WholeFits(Closed, {}, D, own)
  BY <1>0, ClosedFits
<1>2. Closed[d] = cache[d] /\ Closed[d].type = DIR /\ ~ Closed[d].children_loaded /\ Closed[d].children = {}
  BY <1>1 DEF ChildrenFit
<1>3. Loaded(Closed, d, kept) = ca
  BY <1>2 DEF Loaded
<1>4. d \in Owners(D) /\ IsDir(d) /\ c = First(d)
  BY <1>0, <1>1, <1>2, CachedDir DEF DiskOK
<1>5. EntrySet(c) = {q \in EntriesOf(D) : own[q[1]] = d}
  BY <1>4, EntrySetIs
<1>6. children \subseteq EntrySet(c) /\ \A n \in children : ListedName(c, n) \in AnyName
  BY ListedNameTypes DEF EntrySet
<1> HIDE DEF c, children
<1>7. \A n \in children : n \in EntriesOf(D) /\ own[n[1]] = d
  BY <1>5, <1>6
<1>8. d \notin children
  <2>1. ASSUME d \in children  PROVE FALSE
    <3>1. d \in EntriesOf(D) /\ own[d[1]] = d /\ d[1] \in D
      BY <2>1, <1>7 DEF EntriesOf
    <3>2. dep[d[1]] < dep[d[1]] /\ dep[d[1]] \in Nat
      BY <3>1, <1>0 DEF DiskOK, DepthOK, WitnessTypes
    <3> QED  BY <3>2
  <2> QED  BY <2>1
<1>9. Root \notin children
  BY <1>0, <1>7, OwnersAreNames
<1>10. \A n \in children : n \notin DOMAIN Closed
  <2> SUFFICES ASSUME NEW n \in children, n \in DOMAIN Closed  PROVE FALSE
    OBVIOUS
  <2>1. n # Root /\ own[n[1]] = d
    BY <1>7, <1>9
  <2> QED  BY <2>1, <1>1, <1>2 DEF Listed
<1>11. DOMAIN ca = DOMAIN Closed \union children
  OBVIOUS
<1>12. \A n \in children : ca[n] = NewNode(ListedName(c, n), At(n).type, At(n).first, At(n).size, d)
  OBVIOUS
<1>13. ca[d] = [Closed[d] EXCEPT !.children_loaded = TRUE, !.children = children]
  BY <1>8
<1>14. \A n \in DOMAIN Closed : n # d => ca[n] = Closed[n]
  BY <1>10
<1> HIDE DEF ca
<1>15. \A n \in children : At(n) \in Entries
  <2> SUFFICES ASSUME NEW n \in children  PROVE At(n) \in Entries
    OBVIOUS
  <2>1. n \in EntriesOf(D)
    BY <1>7
  <2>2. At(n) \in Units /\ At(n).kind = "entry"
    BY <2>1, <1>0 DEF EntriesOf, At, DiskTypes
  <2> QED  BY <2>2, UnitKinds
<1>16. \A n \in children :
          /\ ca[n] \in Nodes
          /\ ca[n].type = At(n).type /\ ca[n].first_cluster = At(n).first /\ ca[n].file_size = At(n).size
          /\ ca[n].parent = d /\ ca[n].children = {} /\ ca[n].children_loaded = FALSE
  <2> SUFFICES ASSUME NEW n \in children
               PROVE  /\ ca[n] \in Nodes
                      /\ ca[n].type = At(n).type /\ ca[n].first_cluster = At(n).first
                      /\ ca[n].file_size = At(n).size
                      /\ ca[n].parent = d /\ ca[n].children = {} /\ ca[n].children_loaded = FALSE
    OBVIOUS
  <2>1. d \in Place \union {Root}
    BY <1>0, <1>4, OwnersAreNames DEF Owners
  <2>2. At(n).type \in {FILE, DIR} /\ At(n).first \in Cluster \union {0} /\ At(n).size \in Nat
    BY <1>15 DEF Entries
  <2>3. ListedName(c, n) \in AnyName
    BY <1>6
  <2>4. ca[n] = NewNode(ListedName(c, n), At(n).type, At(n).first, At(n).size, d)
    BY <1>12
  <2>5. {} \in SUBSET Place /\ FALSE \in BOOLEAN
    OBVIOUS
  <2>6. NewNode(ListedName(c, n), At(n).type, At(n).first, At(n).size, d) \in Nodes
    BY ONLY <2>1, <2>2, <2>3, <2>5 DEF NewNode, Nodes
  <2>7. ca[n] \in Nodes
    BY ONLY <2>4, <2>6
  <2> QED  BY ONLY <2>4, <2>7 DEF NewNode
<1>17. /\ ca[d] \in Nodes /\ ca[d].type = DIR /\ ca[d].first_cluster = Closed[d].first_cluster
       /\ ca[d].file_size = Closed[d].file_size /\ ca[d].parent = Closed[d].parent
       /\ ca[d].children_loaded = TRUE /\ ca[d].children = children
  <2>1. Closed[d] \in Nodes
    BY <1>1 DEF CacheFits
  <2>2. children \subseteq Place
    BY <1>0, <1>7, OwnersAreNames
  <2> QED  BY <2>1, <2>2, <1>2, <1>13 DEF Nodes
<1>18. CacheFits(ca, {}, D)
  <2>1. \A n \in DOMAIN ca : ca[n] \in Nodes
    BY <1>1, <1>11, <1>14, <1>16, <1>17 DEF CacheFits
  <2>2. ca \in [DOMAIN ca -> Nodes]
    BY <2>1 DEF ca
  <2>3. Root \in DOMAIN ca /\ ca[Root].type = DIR /\ ca[Root].first_cluster = 0
    <3>1. Root \in DOMAIN Closed /\ Closed[Root].type = DIR /\ Closed[Root].first_cluster = 0
      BY <1>1 DEF CacheFits
    <3> QED  BY <3>1, <1>11, <1>14, <1>17
  <2>4. ASSUME NEW n \in DOMAIN ca, n # Root  PROVE n \in EntriesOf(D) /\ Agrees(ca, n)
    <3>1. CASE n \in children
      BY <3>1, <1>7, <1>16 DEF Agrees
    <3>2. CASE n \in DOMAIN Closed /\ n # d
      BY <3>2, <2>4, <1>1, <1>14 DEF CacheFits, Agrees
    <3>3. CASE n = d
      <4>1. n \in EntriesOf(D) /\ Agrees(Closed, n)
        BY <3>3, <2>4, <1>1 DEF CacheFits
      <4> QED  BY <4>1, <3>3, <1>2, <1>17 DEF Agrees
    <3> QED  BY <3>1, <3>2, <3>3, <1>11
  <2> QED  BY <2>2, <2>3, <2>4 DEF CacheFits
<1>19. ChildrenFit(ca, own)
  <2>0. ASSUME NEW e \in DOMAIN Closed  PROVE e \in Known(ca)
    <3>1. CASE e = Root
      BY <3>1 DEF Known
    <3>2. CASE e # Root
      <4>1. PICK a \in DOMAIN cache : e \in cache[a].children
        BY <2>0, <3>2 DEF Closed
      <4>2. cache[a].children # {} /\ a \in DOMAIN cache
        BY <4>1
      <4>3. a \in Known(cache)
        BY <4>2 DEF ChildrenFit
      <4>4. a \in DOMAIN Closed
        BY <4>3 DEF Known, Closed
      <4>5. a # d
        BY <4>2, <1>1, <1>2, <4>4
      <4>6. ca[a] = cache[a] /\ a \in DOMAIN ca
        BY <4>4, <4>5, <1>1, <1>11, <1>14
      <4> QED  BY <4>1, <4>6 DEF Known
    <3> QED  BY <3>1, <3>2
  <2> SUFFICES ASSUME NEW e \in DOMAIN ca
               PROVE  /\ ~ ca[e].children_loaded => ca[e].children = {}
                      /\ ca[e].children_loaded => ca[e].type = DIR /\ e \in Known(ca)
                      /\ \A n \in ca[e].children : n \in DOMAIN ca /\ ca[n].parent = e /\ own[n[1]] = e
    BY DEF ChildrenFit
  <2>1. CASE e \in children
    BY <2>1, <1>16
  <2>2. CASE e = d
    <3>1. ca[e].children = children /\ ca[e].children_loaded = TRUE /\ ca[e].type = DIR
      BY <2>2, <1>17
    <3>2. e \in Known(ca)
      BY <2>0, <2>2
    <3> QED  BY <3>1, <3>2, <2>2, <1>7, <1>11, <1>16
  <2>3. CASE e \in DOMAIN Closed /\ e # d
    <3>1. ca[e] = Closed[e]
      BY <2>3, <1>14
    <3>2. ASSUME NEW n \in Closed[e].children
          PROVE  n \in DOMAIN ca /\ ca[n].parent = e /\ own[n[1]] = e
      <4>1. n \in DOMAIN Closed /\ Closed[n].parent = e /\ own[n[1]] = e
        BY <3>2, <2>3, <1>1 DEF ChildrenFit
      <4>2. ca[n].parent = Closed[n].parent
        BY <4>1, <1>14, <1>17
      <4> QED  BY <4>1, <4>2, <1>11
    <3>3. e \in Known(ca)
      BY <2>0, <2>3
    <3> QED  BY <3>1, <3>2, <3>3, <2>3, <1>1 DEF ChildrenFit
  <2> QED  BY <2>1, <2>2, <2>3, <1>11
<1>20. Listed(ca, own)
  <2> SUFFICES ASSUME NEW n \in DOMAIN ca, n # Root, own[n[1]] \in DOMAIN ca
               PROVE  n \in ca[own[n[1]]].children
    BY DEF Listed
  <2>1. CASE n \in children
    BY <2>1, <1>7, <1>17
  <2>2. CASE n \in DOMAIN Closed
    <3> DEFINE e == own[n[1]]
    <3>1. e \notin children
      <4>1. ASSUME e \in children  PROVE FALSE
        <5>1. \E a \in DOMAIN cache : n \in cache[a].children
          BY <2>2 DEF Closed
        <5>2. e \in DOMAIN cache /\ n \in cache[e].children
          BY <5>1 DEF ChildrenFit
        <5>3. cache[e].children # {}
          BY <5>2
        <5>4. cache[e].children_loaded
          BY <5>2, <5>3 DEF ChildrenFit
        <5>5. e \in Known(cache)
          BY <5>2, <5>4 DEF ChildrenFit
        <5>6. e \in DOMAIN Closed
          BY <5>5 DEF Known, Closed
        <5> QED  BY <4>1, <5>6, <1>10
      <4> QED  BY <4>1
    <3>2. e \in DOMAIN Closed
      BY <3>1, <1>11
    <3>3. n \in Closed[e].children
      BY <3>2, <2>2, <1>1 DEF Listed
    <3>4. e # d
      BY <3>3, <1>2
    <3> QED  BY <3>2, <3>3, <3>4, <1>14
  <2> QED  BY <2>1, <2>2, <1>11
<1>21. Keeps(ca)
  BY <1>1, <1>2, <1>11, <1>14, <1>17 DEF Keeps
<1>22. ASSUME WholeFits(cache, {}, D, own), IsWhole(ca, d)
       PROVE  WholeFits(ca, {}, D, own)
  <2> SUFFICES ASSUME NEW e \in DOMAIN ca, ca[e].children_loaded
               PROVE  ca[e].children = {p \in EntriesOf(D) : own[p[1]] = e}
    BY DEF WholeFits
  <2>1. CASE e = d
    <3>1. FirstOf(ca, d) = c
      BY <1>17 DEF FirstOf, c
    <3> QED  BY <2>1, <3>1, <1>5, <1>22 DEF IsWhole
  <2>2. CASE e # d
    <3>1. e \in DOMAIN Closed /\ ca[e] = Closed[e]
      BY <2>2, <1>11, <1>14, <1>16
    <3> QED  BY <3>1, <1>1, <1>22 DEF WholeFits
  <2> QED  BY <2>1, <2>2
<1> QED  BY <1>3, <1>17, <1>18, <1>19, <1>20, <1>21, <1>22

LEMMA LoadsFit ==
    ASSUME DiskTypes, NEW D, NEW own, NEW pos, NEW dep, DiskOK(D, own, pos, dep),
           CacheFits(cache, {}, D), ChildrenFit(cache, own),
           NEW d \in DOMAIN cache, cache[d].type = DIR, NEW ca \in Loads(d)
    PROVE  /\ CacheFits(ca, {}, D) /\ ChildrenFit(ca, own) /\ Listed(ca, own) /\ Keeps(ca)
           /\ d \in DOMAIN Closed /\ d \in DOMAIN ca /\ ca[d].children_loaded
           /\ WholeFits(cache, {}, D, own) /\ IsWhole(ca, d) => WholeFits(ca, {}, D, own)
<1>0. D \subseteq Cluster
  BY DEF DiskOK, WitnessTypes
<1>1. /\ CacheFits(Closed, {}, D) /\ ChildrenFit(Closed, own) /\ Listed(Closed, own) /\ Keeps(Closed)
      /\ DOMAIN Closed \subseteq DOMAIN cache
      /\ \A n \in DOMAIN Closed : Closed[n] = cache[n]
      /\ WholeFits(cache, {}, D, own) => WholeFits(Closed, {}, D, own)
  BY <1>0, ClosedFits
<1>2. d \in DOMAIN Closed
  BY DEF Loads
<1>3. CASE cache[d].children_loaded
  <2>1. ca = Closed
    BY <1>2, <1>3 DEF Loads
  <2> QED  BY <2>1, <1>1, <1>2, <1>3
<1>4. CASE ~ cache[d].children_loaded
  <2>1. PICK kept : ca = Loaded(Closed, d, kept)
    BY <1>2, <1>4 DEF Loads
  <2>2. /\ CacheFits(ca, {}, D) /\ ChildrenFit(ca, own) /\ Listed(ca, own) /\ Keeps(ca)
        /\ ca[d].children_loaded
        /\ WholeFits(cache, {}, D, own) /\ IsWhole(ca, d) => WholeFits(ca, {}, D, own)
    BY <2>1, <1>2, <1>4, LoadedFits
  <2>3. d \in DOMAIN ca
    BY <2>2, <1>2 DEF Keeps
  <2> QED  BY <2>2, <2>3, <1>2
<1> QED  BY <1>3, <1>4

-----------------------------------------------------------------------------
(* Steps that leave the chains and the directories alone. *)

Untouched(D, own) ==
    \A c \in Cluster : c \in D \/ own[c] # None => fat'[c] = fat[c] /\ unit'[c] = unit[c]
SameEntries(D) ==
    EntriesOf(D)' = EntriesOf(D) /\ \A p \in D \X Offset : At(p)' = At(p)

LEMMA EntriesStay ==
    ASSUME NEW D, D \subseteq Cluster, NEW own, Untouched(D, own)
    PROVE  SameEntries(D)
<1>1. \A p \in D \X Offset : At(p)' = At(p)
  BY DEF Untouched, At
<1>2. EntriesOf(D)' = {p \in D \X Offset : At(p)'.kind = "entry"}
  BY DEF EntriesOf
<1> QED  BY <1>1, <1>2 DEF EntriesOf, SameEntries

LEMMA OwnersStay ==
    ASSUME NEW D, D \subseteq Cluster, SameEntries(D)
    PROVE  /\ Owners(D)' = Owners(D)
           /\ \A p \in Owners(D) : First(p)' = First(p) /\ IsDir(p)' = IsDir(p)
<1>1. \A p \in Owners(D) : p # Root => p \in D \X Offset
  BY DEF Owners, EntriesOf
<1>2. Owners(D)' = Owners(D)
  BY DEF Owners, SameEntries
<1>3. ASSUME NEW p \in Owners(D)  PROVE First(p)' = First(p) /\ IsDir(p)' = IsDir(p)
  <2>1. CASE p = Root
    BY <2>1 DEF First, IsDir
  <2>2. CASE p # Root
    <3>1. At(p)' = At(p)
      BY <1>1, <2>2, <1>3 DEF SameEntries
    <3> QED  BY <3>1 DEF First, IsDir
  <2> QED  BY <2>1, <2>2
<1> QED  BY <1>2, <1>3

LEMMA DiskStays ==
    ASSUME NEW D, NEW own, NEW pos, NEW dep, DiskOK(D, own, pos, dep), Untouched(D, own)
    PROVE  DiskOK(D, own, pos, dep)' /\ SameEntries(D)
<1>1. WitnessTypes(D, own, pos, dep) /\ D \subseteq Cluster
  BY DEF DiskOK, WitnessTypes
<1>2. SameEntries(D)
  BY <1>1, EntriesStay
<1>3. /\ Owners(D)' = Owners(D)
      /\ \A p \in Owners(D) : First(p)' = First(p) /\ IsDir(p)' = IsDir(p)
  BY <1>1, <1>2, OwnersStay
<1>4. WitnessTypes(D, own, pos, dep)'
  BY <1>1 DEF WitnessTypes
<1>5. LinksOK(D, own, pos)'
  <2>1. \A c \in Cluster : own[c] # None => fat'[c] = fat[c]
    BY DEF Untouched
  <2> QED  BY <2>1, <1>3 DEF LinksOK, Linked, DiskOK
<1>6. HeadsOK(D, own, pos)'
  <2>1. HeadsOK(D, own, pos)
    BY DEF DiskOK
  <2> QED  BY <2>1, <1>3 DEF HeadsOK
<1>7. DirsOK(D, own)'
  <2>1. DirsOK(D, own) /\ \A c \in D : fat'[c] = fat[c]
    BY <1>1 DEF DiskOK, Untouched
  <2> QED  BY <2>1, <1>1, <1>3 DEF DirsOK
<1>8. EntriesOK(D)'
  <2>1. EntriesOK(D) /\ EntriesOf(D) \subseteq D \X Offset
    BY DEF DiskOK, EntriesOf
  <2> QED  BY <2>1, <1>2 DEF EntriesOK, SameEntries
<1>9. ParseOK(D)'
  <2>1. ParseOK(D) /\ \A c \in D : fat'[c] = fat[c] /\ unit'[c] = unit[c]
    BY <1>1 DEF DiskOK, Untouched
  <2> QED  BY <2>1 DEF ParseOK, Parses
<1>10. DataOK(D, own, pos)'
  <2> SUFFICES ASSUME NEW p \in EntriesOf(D)', At(p)'.type = FILE, NEW c \in Cluster, own[c] = p
               PROVE  HoldsUpTo(c, pos, At(p).name, At(p).size)' /\ EndsWithin(c, pos, At(p).size)'
    BY DEF DataOK
  <2>1. p \in EntriesOf(D) /\ At(p)' = At(p)
    BY <1>2 DEF SameEntries, EntriesOf
  <2>2. own[c] # None
    BY <2>1, <1>1, OwnersAreNames DEF Owners
  <2>3. fat'[c] = fat[c] /\ unit'[c] = unit[c]
    BY <2>2 DEF Untouched
  <2>4. HoldsUpTo(c, pos, At(p).name, At(p).size) /\ EndsWithin(c, pos, At(p).size)
    BY <2>1 DEF DiskOK, DataOK
  <2> QED  BY <2>1, <2>3, <2>4 DEF HoldsUpTo, EndsWithin
<1>11. DepthOK(D, own, dep)'
  BY <1>2 DEF DiskOK, DepthOK, SameEntries
<1> QED  BY <1>2, <1>4, <1>5, <1>6, <1>7, <1>8, <1>9, <1>10, <1>11 DEF DiskOK

LEMMA CacheStays ==
    ASSUME NEW D, NEW own, SameEntries(D), CacheOK(D, own), cache' = cache, Gone' = Gone, lost' = lost
    PROVE  CacheOK(D, own)'
<1>1. CacheFits(cache, Gone, D) /\ ChildrenFit(cache, own) /\ (~ lost => WholeFits(cache, Gone, D, own))
  BY DEF CacheOK
<1>2. CacheFits(cache, Gone, D)'
  <2>1. \A p \in EntriesOf(D) : p \in EntriesOf(D)' /\ At(p)' = At(p)
    BY DEF SameEntries, EntriesOf
  <2> QED  BY <1>1, <2>1 DEF CacheFits, Agrees
<1>3. ChildrenFit(cache, own)'
  BY <1>1 DEF ChildrenFit, Known
<1>4. ~ lost' => WholeFits(cache, Gone, D, own)'
  BY <1>1 DEF WholeFits, SameEntries
<1> QED  BY <1>2, <1>3, <1>4 DEF CacheOK

-----------------------------------------------------------------------------
(* The call in progress and what it works on. *)

LEMMA CreateWorksOn ==
    ASSUME NEW D, NEW own, NEW pos, NEW dep, Holds(D, own, pos, dep), CreateOK(D, own, pos),
           op.pc \notin {"free", "forget"}
    PROVE  /\ op.dir \in Owners(D) /\ IsDir(op.dir) /\ op.dir \in DOMAIN cache
           /\ own[op.cluster] = op.dir /\ op.dir # None /\ op.dir # Freeing
           /\ op.cluster \in Cluster /\ op.cluster \in D /\ D \subseteq Cluster
           /\ op.dir # Root => op.dir \in EntriesOf(D) /\ At(op.dir).first = cache[op.dir].first_cluster
           /\ Gone = {} /\ FirstOf(cache, op.dir) = First(op.dir)
<1>1. D \subseteq Cluster /\ DirsOK(D, own) /\ EntriesOK(D)
  BY DEF Holds, DiskOK, WitnessTypes
<1>2. Gone = {}
  BY DEF CreateOK, Creates, Gone
<1>3. CacheFits(cache, {}, D) /\ ChildrenFit(cache, own)
  BY <1>2 DEF Holds, CacheOK
<1>4. op.dir \in DOMAIN cache /\ cache[op.dir].children_loaded /\ op.cluster \in Cluster /\ own[op.cluster] = op.dir
  BY DEF CreateOK
<1>5. cache[op.dir].type = DIR
  BY <1>3, <1>4 DEF ChildrenFit
<1>6. op.dir \in Owners(D) /\ IsDir(op.dir) /\ FirstOf(cache, op.dir) = First(op.dir)
  BY <1>1, <1>3, <1>4, <1>5, CachedDir
<1>7. op.dir # None /\ op.dir # Freeing
  BY <1>1, <1>6, OwnersAreNames
<1>8. op.cluster \in D
  BY <1>1, <1>4, <1>6 DEF DirsOK
<1>9. op.dir # Root => op.dir \in EntriesOf(D) /\ At(op.dir).first = cache[op.dir].first_cluster
  BY <1>3, <1>4 DEF CacheFits, Agrees
<1> QED  BY <1>1, <1>2, <1>4, <1>6, <1>7, <1>8, <1>9

LEMMA WriteWorksOn ==
    ASSUME DiskTypes, NEW D, NEW own, NEW pos, NEW dep, Holds(D, own, pos, dep), WriteOK(D, own, pos)
    PROVE  /\ op.node \in EntriesOf(D) /\ op.node \in Owners(D) /\ op.node \in DOMAIN cache \ {Root}
           /\ op.node # None /\ op.node # Freeing
           /\ Agrees(cache, op.node) /\ At(op.node).type = FILE /\ At(op.node) \in Entries
           /\ Gone = {} /\ D \subseteq Cluster /\ op.node[1] \in D /\ op.node[2] \in Offset
           /\ First(op.node) = At(op.node).first /\ ~ IsDir(op.node)
           /\ \A c \in Cluster : own[c] = op.node => c \notin D
<1>1. D \subseteq Cluster /\ DirsOK(D, own)
  BY DEF Holds, DiskOK, WitnessTypes
<1>2. Gone = {} /\ op.node \in DOMAIN cache \ {Root} /\ cache[op.node].type = FILE
  BY DEF WriteOK, Writes, Gone
<1>3. CacheFits(cache, {}, D)
  BY <1>2 DEF Holds, CacheOK
<1>4. op.node \in EntriesOf(D) /\ Agrees(cache, op.node)
  BY <1>2, <1>3 DEF CacheFits
<1>5. At(op.node).type = FILE
  BY <1>2, <1>4 DEF Agrees
<1>6. op.node[1] \in D /\ op.node[2] \in Offset /\ At(op.node).kind = "entry"
  BY <1>4 DEF EntriesOf
<1>7. At(op.node) \in Entries
  <2>1. At(op.node) \in Units
    BY <1>1, <1>6 DEF At, DiskTypes
  <2> QED  BY <2>1, <1>6, UnitKinds
<1>8. op.node \in Owners(D) /\ First(op.node) = At(op.node).first /\ (IsDir(op.node) <=> At(op.node).type = DIR)
  BY <1>1, <1>4, EntryOwner
<1>9. op.node # None /\ op.node # Freeing
  BY <1>1, <1>8, OwnersAreNames
<1>10. ~ IsDir(op.node)
  BY <1>5, <1>8 DEF FILE, DIR
<1>11. \A c \in Cluster : own[c] = op.node => c \notin D
  BY <1>1, <1>9, <1>10 DEF DirsOK
<1> QED  BY <1>1, <1>2, <1>4, <1>5, <1>6, <1>7, <1>8, <1>9, <1>10, <1>11

\* A cluster without an owner and outside of D does not matter to what is known.
LEMMA FreeIsNobodys ==
    ASSUME NEW D, NEW own, NEW pos, NEW dep, Holds(D, own, pos, dep),
           NEW c \in Cluster, fat[c] = FREE
    PROVE  c \notin D /\ own[c] = None
<1>1. c \notin D
  BY DEF Holds, DiskOK, DirsOK
<1>2. ASSUME own[c] # None  PROVE FALSE
  <2>1. Linked(c, own, pos)
    BY <1>2 DEF Holds, DiskOK, LinksOK
  <2> QED  BY <2>1 DEF Linked, FREE, EOC, Cluster
<1> QED  BY <1>1, <1>2

LEMMA AlongStays ==
    ASSUME DiskTypes, NEW D, NEW own, NEW pos, NEW dep, Holds(D, own, pos, dep), WriteOK(D, own, pos),
           Along(own, pos), Untouched(D, own), SameEntries(D),
           op'.node = op.node, op'.offset = op.offset, op'.written = op.written,
           op'.cluster = op.cluster, op'.clus_base = op.clus_base
    PROVE  Along(own, pos)'
<1>1. op.node \in EntriesOf(D) /\ op.node # None
  BY WriteWorksOn
<1>2. At(op.node)' = At(op.node)
  <2>1. op.node \in D \X Offset
    BY <1>1 DEF EntriesOf
  <2>2. \A p \in D \X Offset : At(p)' = At(p)
    BY DEF SameEntries
  <2>3. unit'[op.node[1]][op.node[2]] = unit[op.node[1]][op.node[2]]
    BY <2>1, <2>2 DEF At
  <2> QED  BY <2>3 DEF At
<1>3. file_offset' = file_offset
  BY DEF file_offset
<1> DEFINE name == At(op.node).name
           end == file_offset
<1>4. ASSUME NEW c \in Cluster, own[c] = op.node
      PROVE  (HoldsUpTo(c, pos, At(op.node).name, file_offset) /\ EndsWithin(c, pos, file_offset))'
  <2>1. fat'[c] = fat[c] /\ unit'[c] = unit[c]
    BY <1>1, <1>4 DEF Untouched
  <2>2. HoldsUpTo(c, pos, At(op.node).name, file_offset) /\ EndsWithin(c, pos, file_offset)
    BY <1>4 DEF Along
  <2> QED  BY <2>1, <2>2, <1>2, <1>3 DEF HoldsUpTo, EndsWithin
<1>5. /\ op'.cluster \in Cluster /\ own[op'.cluster] = op'.node
      /\ op'.clus_base = pos[op'.cluster] * UnitsPerClus /\ op'.clus_base <= file_offset'
  BY <1>3 DEF Along
<1> QED  BY <1>4, <1>5 DEF Along

LEMMA CallKinds ==
    ASSUME NEW D, NEW own, NEW pos, CallOK(D, own, pos), op # Idle
    PROVE  \/ op.call = "create" /\ CreateOK(D, own, pos) /\ op \in Creates
           \/ op.call = "write" /\ WriteOK(D, own, pos) /\ op \in Writes
           \/ op.call = "unlink" /\ UnlinkOK(D) /\ op \in Unlinks
BY DEF CallOK, CreateOK, WriteOK, UnlinkOK, Creates, Writes, Unlinks

LEMMA AllocStep ==
    ASSUME DiskTypes, NEW D, NEW own, NEW pos, NEW dep, Holds(D, own, pos, dep), fat_alloc
    PROVE  DiskTypes' /\ Holds(D, own, pos, dep)'
<1> DEFINE free == {x \in Cluster : fat[x] = FREE}
           c == CHOOSE x \in free : \A d \in free : x <= d
<1>1. op.pc = "alloc" /\ op # Idle /\ unit' = unit /\ cache' = cache /\ lost' = lost
  BY DEF fat_alloc, Idle
<1>2. \/ free = {} /\ op' = [op EXCEPT !.pc = op.ret, !.new_c = 0] /\ fat' = fat
      \/ free # {} /\ op' = [op EXCEPT !.pc = "zero", !.s = 0, !.new_c = c] /\ fat' = [fat EXCEPT ![c] = EOC]
  BY DEF fat_alloc
<1>3. ASSUME free # {}  PROVE c \in Cluster /\ fat[c] = FREE
  <2>1. free \subseteq Nat /\ \A x \in free : x \in Cluster /\ fat[x] = FREE
    BY Fat32Assumption DEF Cluster
  <2>2. \E x \in free : \A d \in free : x <= d
    BY <1>3, <2>1, NatHasMin
  <2>3. c \in free
    BY <2>2
  <2> QED  BY <2>1, <2>3
<1>4. \A x \in Cluster : fat'[x] = fat[x] \/ (fat[x] = FREE /\ x = c /\ free # {})
  BY <1>2, <1>3 DEF DiskTypes
<1> HIDE DEF c
<1>5. \A x \in Cluster : fat[x] # FREE => fat'[x] = fat[x]
  BY <1>4
<1>6. Untouched(D, own)
  BY <1>1, <1>5, FreeIsNobodys DEF Untouched
<1>7. DiskTypes'
  BY <1>1, <1>2, <1>3 DEF DiskTypes
<1>8. DiskOK(D, own, pos, dep)' /\ SameEntries(D)
  BY <1>6, DiskStays DEF Holds
<1>9. \/ op.call = "create" /\ CreateOK(D, own, pos) /\ op \in Creates
      \/ op.call = "write" /\ WriteOK(D, own, pos) /\ op \in Writes
  <2>1. op \notin Unlinks
    BY <1>1 DEF Unlinks
  <2> QED  BY <2>1, <1>1, CallKinds DEF Holds
<1>10. op'.call = op.call /\ op'.pc # "idle"
  BY <1>1, <1>2, <1>9 DEF Creates, Writes
<1>11. CacheOK(D, own)'
  <2>1. Gone' = {} /\ Gone = {}
    BY <1>9, <1>10 DEF Gone
  <2> QED  BY <2>1, <1>1, <1>8, CacheStays DEF Holds
<1>12. /\ op.ret = "dots" => op.call = "create"
       /\ op.ret \in {"dots", "first", "extend"}
  BY <1>1, <1>9 DEF Holds, AllocOK, Creates, Writes
<1>13. \/ op'.pc = op.ret /\ op'.ret = op.ret /\ op'.new_c = 0 /\ free = {}
       \/ op'.pc = "zero" /\ op'.ret = op.ret /\ op'.new_c = c /\ op'.s = 0 /\ free # {}
  BY <1>2, <1>9 DEF Creates, Writes
<1>14. AllocOK(D, own)'
  <2>1. ASSUME op'.pc = "zero"
        PROVE  /\ Fresh(op.new_c, D, own)'
               /\ op'.s < sectors_per_clus
               /\ \A u \in Offset : u \div UnitsPerSector < op'.s => unit'[op'.new_c][u] = Zero
    <3>1. op'.new_c = c /\ op'.s = 0 /\ free # {}
      BY <1>12, <1>13, <2>1
    <3>2. c \in Cluster \ D /\ own[c] = None /\ fat'[c] = EOC
      BY <3>1, <1>2, <1>3, FreeIsNobodys DEF DiskTypes
    <3>3. \A u \in Offset : ~ (u \div UnitsPerSector < 0)
      BY ClusterSize DEF Offset
    <3>4. 0 < sectors_per_clus
      BY ClusterSize
    <3> QED  BY <3>1, <3>2, <3>3, <3>4 DEF Fresh
  <2>2. op'.pc # "zero" => op'.new_c = 0 /\ op'.pc = op.ret /\ op'.ret = op.ret
    BY <1>13
  <2> QED  BY <2>1, <2>2, <1>10, <1>12, <1>13 DEF AllocOK
<1>15. FreeOK(own, pos)'
  <2>1. op'.pc # "free" /\ \A x \in Cluster : own[x] # Freeing
    BY <1>1, <1>12, <1>13 DEF Holds, FreeOK
  <2> QED  BY <2>1 DEF FreeOK
<1>16. ASSUME CreateOK(D, own, pos), op \in Creates  PROVE CreateOK(D, own, pos)'
  <2>1. /\ op' \in Creates /\ op'.dir = op.dir /\ op'.cluster = op.cluster
        /\ op'.new_cluster = op.new_cluster /\ op'.type = op.type
    <3>1. op.ret \in {"dots", "extend"}
      BY <1>16 DEF Creates
    <3>2. op.ret \in {"dots", "extend", "zero"} /\ 0 \in Cluster \union {0} /\ 0 \in Nat
      BY <3>1
    <3>3. CASE op' = [op EXCEPT !.pc = op.ret, !.new_c = 0]
      BY ONLY <3>1, <3>3, <1>16, 0 \in Cluster \union {0} DEF Creates
    <3>4. CASE op' = [op EXCEPT !.pc = "zero", !.s = 0, !.new_c = c] /\ free # {}
      BY ONLY <3>4, <1>3, <1>16, 0 \in Nat DEF Creates
    <3> QED  BY <1>2, <3>3, <3>4
  <2>2. /\ op.dir \in DOMAIN cache /\ cache[op.dir].children_loaded
        /\ op.cluster \in Cluster /\ own[op.cluster] = op.dir
        /\ op.new_cluster # 0 => ReadyDir(op.new_cluster, D, own)
        /\ IF op.ret = "dots" THEN op.type = DIR /\ op.new_cluster = 0
                              ELSE op.type = DIR <=> op.new_cluster # 0
        /\ op.ret = "extend" => FreeSlots(op.cluster) = {} /\ fat[op.cluster] = EOC
    BY <1>1, <1>16 DEF CreateOK, MakesDots, Extends
  <2>3. op.new_cluster # 0 => ReadyDir(op.new_cluster, D, own)' /\ (op.new_cluster # c \/ free = {})
    <3>1. ASSUME op.new_cluster # 0  PROVE ReadyDir(op.new_cluster, D, own)' /\ (op.new_cluster # c \/ free = {})
      <4>1. op.new_cluster \in Cluster /\ fat[op.new_cluster] = EOC /\ ReadyDir(op.new_cluster, D, own)
        BY <3>1, <2>2 DEF ReadyDir, Fresh
      <4>2. fat'[op.new_cluster] = fat[op.new_cluster] /\ unit'[op.new_cluster] = unit[op.new_cluster]
        BY <4>1, <1>1, <1>5 DEF EOC, FREE
      <4>3. op.new_cluster # c \/ free = {}
        BY <4>1, <1>3 DEF EOC, FREE
      <4>4. ReadyDir(op.new_cluster, D, own)'
        BY <4>1, <4>2, <2>1 DEF ReadyDir, Fresh, Parses
      <4> QED  BY <4>3, <4>4, <1>13
    <3> QED  BY <3>1
  <2> QED  BY <1>1, <1>5, <1>12, <1>13, <2>1, <2>2, <2>3 DEF CreateOK, MakesDots, Extends, FreeSlots, EOC, FREE
<1>17. ASSUME WriteOK(D, own, pos), op \in Writes  PROVE WriteOK(D, own, pos)'
  <2>1. /\ op' \in Writes /\ op'.node = op.node /\ op'.offset = op.offset /\ op'.written = op.written
        /\ op'.len = op.len /\ op'.cluster = op.cluster /\ op'.clus_base = op.clus_base
    <3>1. op.ret \in {"first", "extend"}
      BY <1>17 DEF Writes
    <3>3. CASE op' = [op EXCEPT !.pc = op.ret, !.new_c = 0]
      BY ONLY <3>1, <3>3, <1>17, 0 \in Cluster \union {0} DEF Writes
    <3>4. CASE op' = [op EXCEPT !.pc = "zero", !.s = 0, !.new_c = c] /\ free # {}
      BY ONLY <3>4, <1>3, <1>17, 0 \in Nat DEF Writes
    <3> QED  BY <1>2, <3>3, <3>4
  <2>2. At(op.node)' = At(op.node)
    <3>1. op.node[1] \in D /\ op.node[2] \in Offset /\ D \subseteq Cluster
      BY <1>17, WriteWorksOn
    <3> QED  BY <3>1, <2>1, <1>1 DEF At
  <2>3. /\ op.node \in DOMAIN cache \ {Root} /\ cache[op.node].type = FILE /\ op.written <= op.len
    BY <1>17 DEF WriteOK
  <2>4. CASE op.ret = "first"
    <3>1. At(op.node).first = 0 /\ op.offset = 0 /\ op.written = 0 /\ op.clus_base = 0
      BY <1>1, <1>17, <2>4 DEF WriteOK
    <3>2. op'.pc \in {"zero", "first"} /\ op'.ret = "first"
      BY <1>13, <2>4
    <3> QED  BY <3>1, <3>2, <2>1, <2>2, <2>3, <1>1 DEF WriteOK
  <2>5. CASE op.ret # "first"
    <3>1. InChain(own, pos) /\ op.ret = "extend"
      BY <1>1, <1>17, <2>5 DEF WriteOK, Writes
    <3>2. Along(own, pos)'
      BY <3>1, <1>6, <1>8, <1>17, <2>1, AlongStays DEF InChain
    <3>3. fat[op.cluster] = EOC /\ Beyond /\ op.cluster \in Cluster
      BY <3>1, <1>1 DEF InChain, Extends, Along
    <3>4. fat'[op'.cluster] = EOC /\ Beyond'
      BY <3>3, <2>1, <1>5 DEF Beyond, file_offset, EOC, FREE
    <3>5. op'.pc # "mark" /\ op'.ret = "extend"
      BY <3>1, <1>13
    <3> QED  BY <3>2, <3>4, <3>5, <2>1, <2>3, <1>1 DEF WriteOK, InChain
  <2> QED  BY <2>4, <2>5
<1>18. NoLeak(own)'
  <2> SUFFICES ASSUME ~ lost, NEW x \in Cluster, fat'[x] # FREE, own[x] = None
               PROVE  x \in Taken'
    BY <1>1 DEF NoLeak
  <2>1. CASE x = c /\ free # {}
    BY <2>1, <1>12, <1>13 DEF Taken
  <2>2. CASE ~ (x = c /\ free # {})
    <3>1. fat[x] # FREE
      BY <2>2, <1>4
    <3>2. x \in Taken
      BY <3>1 DEF Holds, NoLeak
    <3>3. op.call = "create" /\ x = op.new_cluster
      BY <3>2, <1>1 DEF Taken
    <3>4. op'.new_cluster = op.new_cluster /\ op'.pc \notin {"idle", "free", "forget"}
      BY <3>3, <1>2, <1>9, <1>12, <1>13 DEF Creates, Writes
    <3> QED  BY <3>3, <3>4, <1>10 DEF Taken
  <2> QED  BY <2>1, <2>2
<1> QED  BY <1>7, <1>8, <1>9, <1>11, <1>14, <1>15, <1>16, <1>17, <1>18 DEF Holds, CallOK

LEMMA QuietStep ==
    ASSUME NEW D, NEW own, NEW pos, NEW dep, DiskOK(D, own, pos, dep), CacheOK(D, own), Untouched(D, own),
           cache' = cache, lost' = lost, Gone' = Gone
    PROVE  DiskOK(D, own, pos, dep)' /\ SameEntries(D) /\ CacheOK(D, own)'
<1>1. DiskOK(D, own, pos, dep)' /\ SameEntries(D)
  BY DiskStays
<1>2. D \subseteq Cluster
  BY DEF DiskOK, WitnessTypes
<1> QED  BY <1>1, CacheStays

LEMMA ChildrenAreEntries ==
    ASSUME NEW D, NEW gone, NEW ca, CacheFits(ca, gone, D), NEW d \in DOMAIN ca, NEW n \in ca[d].children
    PROVE  n \in Place /\ n # Root /\ n[1] \in Cluster
<1>1. ca[d] \in Nodes
  BY DEF CacheFits
<1>2. n \in Place
  BY <1>1 DEF Nodes
<1>3. n # Root
  BY <1>2 DEF Place, Root, Cluster
<1> QED  BY <1>2, <1>3 DEF Place

LEMMA SameIsUntouched ==
    ASSUME NEW D, NEW own, fat' = fat, unit' = unit
    PROVE  Untouched(D, own)
BY DEF Untouched

\* The entry of the file that is written.
LEMMA NodeStays ==
    ASSUME DiskTypes, NEW D, NEW own, NEW pos, NEW dep, Holds(D, own, pos, dep), WriteOK(D, own, pos),
           SameEntries(D), op'.node = op.node
    PROVE  At(op.node)' = At(op.node)
<1>1. op.node[1] \in D /\ op.node[2] \in Offset /\ op.node \in EntriesOf(D)
  BY WriteWorksOn
<1>2. op.node \in D \X Offset
  BY <1>1 DEF EntriesOf
<1>3. unit'[op.node[1]][op.node[2]] = unit[op.node[1]][op.node[2]]
  BY <1>2 DEF SameEntries, At
<1> QED  BY <1>3 DEF At

\* A sector of a cluster.
LEMMA SectorOf ==
    ASSUME NEW u \in Offset
    PROVE  u \div UnitsPerSector \in 0 .. sectors_per_clus - 1
<1> DEFINE p == UnitsPerSector
           a == u \div UnitsPerSector
<1>1. p \in Nat \ {0} /\ sectors_per_clus \in Nat /\ u \in Nat /\ u < sectors_per_clus * UnitsPerSector
  BY ClusterSize DEF Offset, UnitsPerClus
<1>2. a \in Nat /\ u % p \in Nat /\ u = p * a + (u % p)
  BY <1>1, DivMod
<1> HIDE DEF a
<1>3. ASSUME sectors_per_clus <= a  PROVE FALSE
  <2>1. p * sectors_per_clus <= p * a
    BY <1>1, <1>2, <1>3, TimesMonotone
  <2>2. p * sectors_per_clus = sectors_per_clus * UnitsPerSector
    BY <1>1
  <2>3. p * a \in Int
    BY <1>1, <1>2
  <2> HIDE DEF p
  <2> QED  BY <2>1, <2>2, <2>3, <1>1, <1>2
<1> QED  BY <1>1, <1>2, <1>3 DEF a

LEMMA ZeroStep ==
    ASSUME DiskTypes, NEW D, NEW own, NEW pos, NEW dep, Holds(D, own, pos, dep), ZeroSector
    PROVE  DiskTypes' /\ Holds(D, own, pos, dep)'
<1> DEFINE c == op.new_c
<1>1. op.pc = "zero" /\ op # Idle /\ fat' = fat /\ cache' = cache /\ lost' = lost
  BY DEF ZeroSector, Idle
<1>2. /\ c \in Cluster \ D /\ own[c] = None /\ fat[c] = EOC /\ op.s < sectors_per_clus
      /\ \A u \in Offset : u \div UnitsPerSector < op.s => unit[c][u] = Zero
      /\ op.ret # "dots" \/ op.call = "create"
  BY <1>1 DEF Holds, AllocOK, Fresh
<1>3. /\ \A x \in Cluster : x # c => unit'[x] = unit[x]
      /\ unit'[c] = [u \in Offset |-> IF u \div UnitsPerSector = op.s THEN Zero ELSE unit[c][u]]
  BY <1>2 DEF ZeroSector, DiskTypes
<1>4. DiskTypes'
  <2>1. \A u \in Offset : unit[c][u] \in Units
    BY <1>2 DEF DiskTypes
  <2>2. Zero \in Units
    BY DEF Zero, Units
  <2>3. unit'[c] \in [Offset -> Units]
    BY <1>3, <2>1, <2>2
  <2> QED  BY <1>1, <1>2, <2>3 DEF DiskTypes, ZeroSector
<1>5. Untouched(D, own)
  BY <1>1, <1>2, <1>3 DEF Untouched
<1>6. \/ op.call = "create" /\ CreateOK(D, own, pos) /\ op \in Creates
      \/ op.call = "write" /\ WriteOK(D, own, pos) /\ op \in Writes
  <2>1. op \notin Unlinks
    BY <1>1 DEF Unlinks
  <2> QED  BY <2>1, <1>1, CallKinds DEF Holds
<1>7. /\ op.ret \in {"dots", "first", "extend"} /\ op.s \in Nat
  BY <1>6 DEF Creates, Writes
<1>8. \/ op' = [op EXCEPT !.s = op.s + 1] /\ op.s + 1 < sectors_per_clus
      \/ op' = [op EXCEPT !.pc = op.ret] /\ ~ (op.s + 1 < sectors_per_clus)
  BY <1>1 DEF ZeroSector
<1>9. /\ op'.call = op.call /\ op'.ret = op.ret /\ op'.new_c = c
      /\ \/ op'.pc = "zero" /\ op'.s = op.s + 1 /\ op.s + 1 < sectors_per_clus
         \/ op'.pc = op.ret /\ op.s + 1 >= sectors_per_clus
  <2>1. sectors_per_clus \in Nat
    BY ClusterSize
  <2> QED  BY <1>1, <1>6, <1>7, <1>8, <2>1 DEF Creates, Writes
<1>10. DiskOK(D, own, pos, dep)' /\ SameEntries(D) /\ CacheOK(D, own)'
  <2>1. Gone' = {} /\ Gone = {}
    BY <1>6, <1>9 DEF Gone
  <2> QED  BY <2>1, <1>1, <1>5, QuietStep DEF Holds
<1>11. AllocOK(D, own)'
  <2>1. \A u \in Offset : u \div UnitsPerSector < op.s + 1 => unit'[c][u] = Zero
    <3> SUFFICES ASSUME NEW u \in Offset, u \div UnitsPerSector < op.s + 1  PROVE unit'[c][u] = Zero
      OBVIOUS
    <3>1. u \div UnitsPerSector \in Int
      BY SectorOf
    <3>2. u \div UnitsPerSector = op.s \/ u \div UnitsPerSector < op.s
      BY <3>1, <1>7
    <3> QED  BY <3>2, <1>2, <1>3
  <2>2. Fresh(op.new_c, D, own)'
    BY <1>1, <1>2, <1>9 DEF Fresh
  <2>3. CASE op'.pc = "zero" /\ op'.s = op.s + 1 /\ op.s + 1 < sectors_per_clus
    BY <2>1, <2>2, <2>3, <1>2, <1>9 DEF AllocOK
  <2>4. CASE op'.pc = op.ret /\ op.s + 1 >= sectors_per_clus
    <3>1. \A u \in Offset : unit'[c][u] = Zero
      <4>1. ASSUME NEW u \in Offset  PROVE u \div UnitsPerSector < op.s + 1
        BY <2>4, <1>7, SectorOf, ClusterSize
      <4> QED  BY <4>1, <2>1
    <3> QED  BY <3>1, <2>2, <2>4, <1>2, <1>7, <1>9 DEF AllocOK
  <2> QED  BY <2>3, <2>4, <1>9
<1>12. FreeOK(own, pos)'
  <2>1. op'.pc # "free" /\ \A x \in Cluster : own[x] # Freeing
    BY <1>1, <1>7, <1>9 DEF Holds, FreeOK
  <2> QED  BY <2>1 DEF FreeOK
<1>13. ASSUME CreateOK(D, own, pos), op \in Creates  PROVE CreateOK(D, own, pos)'
  <2>0. op.ret \in {"dots", "extend"} /\ op.s + 1 \in Nat
    BY <1>7, <1>13 DEF Creates
  <2>1. /\ op' \in Creates /\ op'.dir = op.dir /\ op'.cluster = op.cluster
        /\ op'.new_cluster = op.new_cluster /\ op'.type = op.type
    <3>1. CASE op' = [op EXCEPT !.s = op.s + 1]
      BY ONLY <3>1, <2>0, <1>13 DEF Creates
    <3>2. CASE op' = [op EXCEPT !.pc = op.ret]
      BY ONLY <3>2, <2>0, <1>13 DEF Creates
    <3> QED  BY <1>8, <3>1, <3>2
  <2>2. /\ op.dir \in DOMAIN cache /\ cache[op.dir].children_loaded
        /\ op.cluster \in Cluster /\ own[op.cluster] = op.dir /\ op.cluster # c
        /\ op.new_cluster # 0 => ReadyDir(op.new_cluster, D, own)
        /\ IF op.ret = "dots" THEN op.type = DIR /\ op.new_cluster = 0
                              ELSE op.type = DIR <=> op.new_cluster # 0
        /\ op.ret = "extend" => FreeSlots(op.cluster) = {} /\ fat[op.cluster] = EOC
        /\ c # op.new_cluster
    <3>1. op.cluster # c
      BY <1>1, <1>2, <1>13, CreateWorksOn
    <3>2. c # 0
      BY <1>2 DEF Cluster
    <3> QED  BY <3>1, <3>2, <1>1, <1>13 DEF CreateOK, MakesDots, Extends
  <2>3. op.new_cluster # 0 => ReadyDir(op.new_cluster, D, own)'
    <3>1. ASSUME op.new_cluster # 0  PROVE ReadyDir(op.new_cluster, D, own)'
      <4>1. op.new_cluster \in Cluster /\ ReadyDir(op.new_cluster, D, own)
        BY <3>1, <2>2 DEF ReadyDir, Fresh
      <4>2. fat'[op.new_cluster] = fat[op.new_cluster] /\ unit'[op.new_cluster] = unit[op.new_cluster]
        BY <4>1, <1>1, <1>3, <2>2
      <4> QED  BY <4>1, <4>2, <2>1 DEF ReadyDir, Fresh, Parses
    <3> QED  BY <3>1
  <2>4. FreeSlots(op.cluster)' = FreeSlots(op.cluster)
    BY <1>3, <2>1, <2>2 DEF FreeSlots
  <2>5. op'.pc = op.ret \/ op'.pc = "zero"
    BY <1>9
  <2> QED  BY <1>1, <1>9, <2>0, <2>1, <2>2, <2>3, <2>4, <2>5 DEF CreateOK, MakesDots, Extends
<1>14. ASSUME WriteOK(D, own, pos), op \in Writes  PROVE WriteOK(D, own, pos)'
  <2>0. op.ret \in {"first", "extend"} /\ op.s + 1 \in Nat
    BY <1>7, <1>14 DEF Writes
  <2>1. /\ op' \in Writes /\ op'.node = op.node /\ op'.offset = op.offset /\ op'.written = op.written
        /\ op'.len = op.len /\ op'.cluster = op.cluster /\ op'.clus_base = op.clus_base
    <3>1. CASE op' = [op EXCEPT !.s = op.s + 1]
      BY ONLY <3>1, <2>0, <1>14 DEF Writes
    <3>2. CASE op' = [op EXCEPT !.pc = op.ret]
      BY ONLY <3>2, <2>0, <1>14 DEF Writes
    <3> QED  BY <1>8, <3>1, <3>2
  <2>2. At(op.node)' = At(op.node)
    BY <1>10, <1>14, <2>1, NodeStays
  <2>3. /\ op.node \in DOMAIN cache \ {Root} /\ cache[op.node].type = FILE /\ op.written <= op.len
    BY <1>14 DEF WriteOK
  <2>4. CASE op.ret = "first"
    <3>1. At(op.node).first = 0 /\ op.offset = 0 /\ op.written = 0 /\ op.clus_base = 0
      BY <1>1, <1>14, <2>4 DEF WriteOK
    <3>2. op'.pc \in {"zero", "first"} /\ op'.ret = "first"
      BY <1>9, <2>4
    <3> QED  BY <3>1, <3>2, <2>1, <2>2, <2>3, <1>1 DEF WriteOK
  <2>5. CASE op.ret # "first"
    <3>1. InChain(own, pos) /\ op.ret = "extend"
      BY <1>1, <1>14, <2>5 DEF WriteOK, Writes
    <3>2. Along(own, pos)'
      BY <3>1, <1>5, <1>10, <1>14, <2>1, AlongStays DEF InChain
    <3>3. fat[op.cluster] = EOC /\ Beyond
      BY <3>1, <1>1 DEF InChain, Extends
    <3>4. fat'[op'.cluster] = EOC /\ Beyond'
      BY <3>3, <2>1, <1>1 DEF Beyond, file_offset
    <3>5. op'.pc # "mark" /\ op'.ret = "extend"
      BY <3>1, <1>9
    <3> QED  BY <3>2, <3>4, <3>5, <2>1, <2>3, <1>1 DEF WriteOK, InChain
  <2> QED  BY <2>4, <2>5
<1>15. NoLeak(own)'
  <2>1. Taken \subseteq Taken'
    <3>1. op.call = "create" => op'.new_cluster = op.new_cluster
      BY <1>6, <1>8 DEF Creates, Writes
    <3> QED  BY <3>1, <1>1, <1>7, <1>9 DEF Taken
  <2> QED  BY <2>1, <1>1 DEF Holds, NoLeak
<1> QED  BY <1>4, <1>6, <1>10, <1>11, <1>12, <1>13, <1>14, <1>15 DEF Holds, CallOK

LEMMA MarkStep ==
    ASSUME DiskTypes, NEW D, NEW own, NEW pos, NEW dep, Holds(D, own, pos, dep), Mark
    PROVE  DiskTypes' /\ Holds(D, own, pos, dep)'
<1>1. op.pc = "mark" /\ op # Idle /\ unit' = unit /\ cache' = cache /\ lost' = lost
  BY DEF Mark, Idle
<1>2. op.ret = "extend" /\ op.new_c \in Cluster /\ fat[op.new_c] = EOC
  BY <1>1 DEF Holds, AllocOK
<1>3. fat' = fat
  BY <1>2 DEF Mark, DiskTypes
<1>4. DiskTypes' /\ Untouched(D, own)
  BY <1>1, <1>3, SameIsUntouched DEF DiskTypes
<1>5. \/ op.call = "create" /\ CreateOK(D, own, pos) /\ op \in Creates
      \/ op.call = "write" /\ WriteOK(D, own, pos) /\ op \in Writes
  <2>1. op \notin Unlinks
    BY <1>1 DEF Unlinks
  <2> QED  BY <2>1, <1>1, CallKinds DEF Holds
<1>6. op' = [op EXCEPT !.pc = "walk", !.cluster = op.new_c, !.clus_base = op.clus_base + UnitsPerClus]
  BY DEF Mark
<1>7. UnitsPerClus \in Nat
  BY ClusterSize
<1>8. op'.call = op.call /\ op'.pc = "walk"
  BY <1>5, <1>6 DEF Creates, Writes
<1>9. DiskOK(D, own, pos, dep)' /\ SameEntries(D) /\ CacheOK(D, own)'
  <2>1. Gone' = {} /\ Gone = {}
    BY <1>5, <1>8 DEF Gone
  <2> QED  BY <2>1, <1>1, <1>4, QuietStep DEF Holds
<1>10. AllocOK(D, own)'
  BY <1>8 DEF AllocOK
<1>11. FreeOK(own, pos)'
  BY <1>1, <1>8 DEF Holds, FreeOK
<1>12. ASSUME CreateOK(D, own, pos), op \in Creates  PROVE CreateOK(D, own, pos)' /\ op'.new_cluster = op.new_cluster
  <2>1. /\ op' \in Creates /\ op'.dir = op.dir /\ op'.cluster = op.new_c
        /\ op'.new_cluster = op.new_cluster /\ op'.type = op.type
    <3>1. op.clus_base + UnitsPerClus \in Nat
      BY <1>7, <1>12 DEF Creates
    <3> QED  BY ONLY <3>1, <1>2, <1>6, <1>12 DEF Creates
  <2>2. /\ op.dir \in DOMAIN cache /\ cache[op.dir].children_loaded /\ own[op.new_c] = op.dir
        /\ op.new_cluster # 0 => ReadyDir(op.new_cluster, D, own)
        /\ op.type = DIR <=> op.new_cluster # 0
    BY <1>1, <1>12 DEF CreateOK, MakesDots
  <2>3. op.new_cluster # 0 => ReadyDir(op.new_cluster, D, own)'
    BY <2>1, <2>2, <1>1, <1>3 DEF ReadyDir, Fresh, Parses
  <2> QED  BY <2>1, <2>2, <2>3, <1>1, <1>2, <1>8 DEF CreateOK, MakesDots, Extends
<1>13. ASSUME WriteOK(D, own, pos), op \in Writes  PROVE WriteOK(D, own, pos)'
  <2>1. /\ op' \in Writes /\ op'.node = op.node /\ op'.offset = op.offset /\ op'.written = op.written
        /\ op'.len = op.len /\ op'.cluster = op.new_c /\ op'.clus_base = op.clus_base + UnitsPerClus
    <3>1. op.clus_base + UnitsPerClus \in Nat
      BY <1>7, <1>13 DEF Writes
    <3> QED  BY ONLY <3>1, <1>2, <1>6, <1>13 DEF Writes
  <2>2. At(op.node)' = At(op.node)
    BY <1>9, <1>13, <2>1, NodeStays
  <2>3. /\ op.node \in DOMAIN cache \ {Root} /\ cache[op.node].type = FILE /\ op.written <= op.len
    BY <1>13 DEF WriteOK
  <2>4. InChain(own, pos)
    BY <1>1, <1>13 DEF WriteOK
  <2>5. file_offset' = file_offset
    BY <2>1 DEF file_offset
  <2>6. own[op.new_c] = op.node /\ pos[op.new_c] = pos[op.cluster] + 1 /\ Beyond /\ Along(own, pos)
    BY <2>4, <1>1 DEF InChain
  <2>7. op'.clus_base = pos[op.new_c] * UnitsPerClus
    <3>1. op.clus_base = pos[op.cluster] * UnitsPerClus /\ pos[op.cluster] \in Nat
      BY <2>6 DEF Along, Holds, DiskOK, WitnessTypes
    <3>2. (pos[op.cluster] + 1) * UnitsPerClus = pos[op.cluster] * UnitsPerClus + UnitsPerClus
      BY <3>1, <1>7
    <3> QED  BY <3>1, <3>2, <2>1, <2>6
  <2>8. op'.clus_base <= file_offset
    BY <2>1, <2>6 DEF Beyond
  <2>9. Along(own, pos)'
    <3>1. \A c \in Cluster : own[c] = op.node =>
            HoldsUpTo(c, pos, At(op.node).name, file_offset) /\ EndsWithin(c, pos, file_offset)
      BY <2>6 DEF Along
    <3>2. \A c \in Cluster : own[c] = op.node =>
            (HoldsUpTo(c, pos, At(op.node).name, file_offset) /\ EndsWithin(c, pos, file_offset))'
      BY <3>1, <2>2, <2>5, <1>1, <1>3 DEF HoldsUpTo, EndsWithin
    <3> QED  BY <3>2, <2>1, <2>5, <2>6, <2>7, <2>8, <1>2 DEF Along
  <2> QED  BY <2>1, <2>3, <2>9, <1>1, <1>8 DEF WriteOK, InChain, Extends
<1>14. NoLeak(own)'
  <2>1. Taken \subseteq Taken'
    BY <1>1, <1>5, <1>8, <1>12 DEF Taken
  <2> QED  BY <2>1, <1>1, <1>3 DEF Holds, NoLeak
<1> QED  BY <1>4, <1>5, <1>9, <1>10, <1>11, <1>12, <1>13, <1>14 DEF Holds, CallOK

LEMMA DotsStep ==
    ASSUME DiskTypes, NEW D, NEW own, NEW pos, NEW dep, Holds(D, own, pos, dep), WriteDots
    PROVE  DiskTypes' /\ Holds(D, own, pos, dep)'
<1> DEFINE c == op.new_c
<1>1. op.pc = "dots" /\ op # Idle /\ fat' = fat /\ cache' = cache /\ lost' = lost /\ c # 0
  BY DEF WriteDots, Idle
<1>2. /\ c \in Cluster \ D /\ own[c] = None /\ fat[c] = EOC
      /\ \A u \in Offset : unit[c][u] = Zero
      /\ op.ret = "dots"
  BY <1>1 DEF Holds, AllocOK, Fresh
<1>3. op.call = "create" /\ CreateOK(D, own, pos) /\ op \in Creates
  <2>1. op \notin Unlinks /\ op \notin Writes
    BY <1>1 DEF Unlinks, Writes
  <2> QED  BY <2>1, <1>1, CallKinds DEF Holds
<1>4. /\ op.dir \in Owners(D) /\ IsDir(op.dir) /\ op.cluster \in D
      /\ Gone = {} /\ FirstOf(cache, op.dir) = First(op.dir)
  BY <1>1, <1>3, CreateWorksOn
<1>5. FirstOf(cache, op.dir) \in Cluster
  <2>1. First(op.dir) # 0
    BY <1>4, DirHasHead DEF Holds, DiskOK
  <2> QED  BY <2>1, <1>4, OwnerHead DEF Holds
<1>6. /\ \A x \in Cluster : x # c => unit'[x] = unit[x]
      /\ unit'[c] = [u \in Offset |-> CASE u = 0 -> Dot(c)
                                        [] u = 1 -> Dot(FirstOf(cache, op.dir))
                                        [] u \in 2 .. UnitsPerSector - 1 -> Zero
                                        [] OTHER -> unit[c][u]]
  BY <1>2 DEF WriteDots, DiskTypes
<1>7. \A u \in Offset :
        unit'[c][u] = IF u = 0 THEN Dot(c) ELSE IF u = 1 THEN Dot(FirstOf(cache, op.dir)) ELSE Zero
  BY <1>2, <1>6
<1>8. Dot(c) \in Units /\ Dot(FirstOf(cache, op.dir)) \in Units /\ Zero \in Units
  BY <1>2, <1>5 DEF Dot, Zero, Units
<1>9. DiskTypes'
  <2>1. unit'[c] \in [Offset -> Units]
    <3>1. \A u \in Offset : unit'[c][u] \in Units
      BY <1>7, <1>8
    <3> QED  BY <3>1, <1>6
  <2>2. unit' = [unit EXCEPT ![c] = unit'[c]]
    BY <1>2, <1>6 DEF DiskTypes, WriteDots
  <2> QED  BY <2>1, <2>2, <1>1 DEF DiskTypes
<1>10. Untouched(D, own)
  BY <1>1, <1>2, <1>6 DEF Untouched
<1>11. /\ op' \in Creates /\ op'.pc = "walk" /\ op'.new_cluster = c /\ op'.call = "create"
       /\ op'.dir = op.dir /\ op'.cluster = op.cluster /\ op'.type = op.type
  <2>1. op' = [op EXCEPT !.pc = "walk", !.new_cluster = op.new_c]
    BY DEF WriteDots
  <2> QED  BY <2>1, <1>2, <1>3 DEF Creates
<1>12. DiskOK(D, own, pos, dep)' /\ SameEntries(D) /\ CacheOK(D, own)'
  <2>1. Gone' = {} /\ Gone = {}
    BY <1>4, <1>11 DEF Gone
  <2> QED  BY <2>1, <1>1, <1>10, QuietStep DEF Holds
<1>13. AllocOK(D, own)'
  BY <1>11 DEF AllocOK
<1>14. FreeOK(own, pos)'
  BY <1>1, <1>11 DEF Holds, FreeOK
<1>15. CreateOK(D, own, pos)'
  <2>1. ReadyDir(op.new_cluster, D, own)'
    <3>1. Fresh(op.new_cluster, D, own)'
      BY <1>1, <1>2, <1>11 DEF Fresh
    <3>2. \A u \in Offset : unit'[c][u].kind \in {"dot", "zero"}
      BY <1>7 DEF Dot, Zero
    <3>3. \A u, v \in Offset : u < v /\ unit'[c][u] = Zero => unit'[c][v] = Zero
      <4> SUFFICES ASSUME NEW u \in Offset, NEW v \in Offset, u < v, unit'[c][u] = Zero
                   PROVE  unit'[c][v] = Zero
        OBVIOUS
      <4>1. u # 0 /\ u # 1
        BY <1>7 DEF Dot, Zero
      <4>2. v # 0 /\ v # 1
        BY <4>1 DEF Offset
      <4> QED  BY <4>2, <1>7
    <3> QED  BY <3>1, <3>2, <3>3, <1>11 DEF ReadyDir, Parses
  <2>2. op.type = DIR /\ op.dir \in DOMAIN cache /\ cache[op.dir].children_loaded
        /\ op.cluster \in Cluster /\ own[op.cluster] = op.dir
    BY <1>1, <1>2, <1>3 DEF CreateOK, MakesDots
  <2> QED  BY <2>1, <2>2, <1>1, <1>11 DEF CreateOK, MakesDots, Extends
<1>16. NoLeak(own)'
  <2>1. op.new_cluster = 0
    BY <1>1, <1>2, <1>3 DEF CreateOK, MakesDots
  <2>2. Taken \subseteq Taken'
    BY <2>1, <1>1, <1>2, <1>11 DEF Taken, Cluster
  <2> QED  BY <2>2, <1>1 DEF Holds, NoLeak
<1> QED  BY <1>9, <1>12, <1>13, <1>14, <1>15, <1>16 DEF Holds, CallOK

LEMMA NextSlotStep ==
    ASSUME DiskTypes, NEW D, NEW own, NEW pos, NEW dep, Holds(D, own, pos, dep), NextSlot
    PROVE  DiskTypes' /\ Holds(D, own, pos, dep)'
<1>1. op.pc = "walk" /\ op # Idle /\ op.call = "create" /\ FreeSlots(op.cluster) = {}
      /\ fat' = fat /\ unit' = unit /\ cache' = cache /\ lost' = lost
  BY DEF NextSlot, Idle, disk
<1>2. DiskTypes' /\ Untouched(D, own)
  BY <1>1, SameIsUntouched DEF DiskTypes
<1>3. CreateOK(D, own, pos) /\ op \in Creates
  BY <1>1, CallKinds DEF Holds
<1>4. op.cluster \in Cluster /\ own[op.cluster] = op.dir /\ op.dir # None /\ Gone = {}
  BY <1>1, <1>3, CreateWorksOn
<1>5. \/ fat[op.cluster] = EOC /\ op' = [op EXCEPT !.pc = "alloc", !.ret = "extend"]
      \/ /\ fat[op.cluster] \in Cluster /\ own[fat[op.cluster]] = op.dir
         /\ op' = [op EXCEPT !.cluster = fat[op.cluster], !.clus_base = op.clus_base + UnitsPerClus]
  <2>1. Linked(op.cluster, own, pos)
    BY <1>4 DEF Holds, DiskOK, LinksOK
  <2> QED  BY <2>1, <1>4 DEF Linked, NextSlot, NextCluster
<1>6. UnitsPerClus \in Nat
  BY ClusterSize
<1>7. /\ op' \in Creates /\ op'.dir = op.dir /\ op'.new_cluster = op.new_cluster /\ op'.type = op.type
      /\ op'.call = "create"
      /\ \/ op'.pc = "alloc" /\ op'.ret = "extend" /\ op'.cluster = op.cluster /\ fat[op.cluster] = EOC
         \/ op'.pc = "walk" /\ op'.cluster \in Cluster /\ own[op'.cluster] = op.dir
  <2>1. CASE fat[op.cluster] = EOC /\ op' = [op EXCEPT !.pc = "alloc", !.ret = "extend"]
    BY <2>1, <1>3 DEF Creates
  <2>2. CASE /\ fat[op.cluster] \in Cluster /\ own[fat[op.cluster]] = op.dir
             /\ op' = [op EXCEPT !.cluster = fat[op.cluster], !.clus_base = op.clus_base + UnitsPerClus]
    <3>1. op.clus_base + UnitsPerClus \in Nat
      BY <1>3, <1>6 DEF Creates
    <3> QED  BY <3>1, <2>2, <1>1, <1>3 DEF Creates
  <2> QED  BY <2>1, <2>2, <1>5
<1>8. DiskOK(D, own, pos, dep)' /\ SameEntries(D) /\ CacheOK(D, own)'
  <2>1. Gone' = {} /\ Gone = {}
    BY <1>4, <1>7 DEF Gone
  <2> QED  BY <2>1, <1>1, <1>2, QuietStep DEF Holds
<1>9. AllocOK(D, own)'
  BY <1>7 DEF AllocOK
<1>10. FreeOK(own, pos)'
  BY <1>1, <1>7 DEF Holds, FreeOK
<1>11. CreateOK(D, own, pos)'
  <2>1. /\ op.dir \in DOMAIN cache /\ cache[op.dir].children_loaded
        /\ op.new_cluster # 0 => ReadyDir(op.new_cluster, D, own)
        /\ op.type = DIR <=> op.new_cluster # 0
    BY <1>1, <1>3 DEF CreateOK, MakesDots
  <2>2. op.new_cluster # 0 => ReadyDir(op.new_cluster, D, own)'
    BY <2>1, <1>1, <1>7 DEF ReadyDir, Fresh, Parses
  <2>3. op'.pc = "alloc" => FreeSlots(op.cluster)' = {}
    BY <1>1, <1>7 DEF FreeSlots
  <2> QED  BY <2>1, <2>2, <2>3, <1>1, <1>4, <1>7 DEF CreateOK, MakesDots, Extends
<1>12. NoLeak(own)'
  <2>1. Taken \subseteq Taken'
    BY <1>1, <1>7 DEF Taken
  <2> QED  BY <2>1, <1>1 DEF Holds, NoLeak
<1> QED  BY <1>2, <1>8, <1>9, <1>10, <1>11, <1>12 DEF Holds, CallOK

LEMMA SkipStep ==
    ASSUME DiskTypes, NEW D, NEW own, NEW pos, NEW dep, Holds(D, own, pos, dep), SkipCluster
    PROVE  DiskTypes' /\ Holds(D, own, pos, dep)'
<1>1. op.pc = "walk" /\ op # Idle /\ op.call = "write" /\ Beyond
      /\ fat' = fat /\ unit' = unit /\ cache' = cache /\ lost' = lost
  BY DEF SkipCluster, Idle, disk
<1>2. DiskTypes' /\ Untouched(D, own)
  BY <1>1, SameIsUntouched DEF DiskTypes
<1>3. WriteOK(D, own, pos) /\ op \in Writes /\ InChain(own, pos)
  <2>1. WriteOK(D, own, pos) /\ op \in Writes
    BY <1>1, CallKinds DEF Holds
  <2> QED  BY <2>1, <1>1 DEF WriteOK
<1>4. op.cluster \in Cluster /\ own[op.cluster] = op.node /\ op.node # None /\ Gone = {}
  BY <1>3, WriteWorksOn DEF InChain, Along
<1>5. \/ fat[op.cluster] = EOC /\ op' = [op EXCEPT !.pc = "alloc", !.ret = "extend"]
      \/ /\ fat[op.cluster] \in Cluster /\ own[fat[op.cluster]] = op.node
         /\ pos[fat[op.cluster]] = pos[op.cluster] + 1
         /\ op' = [op EXCEPT !.cluster = fat[op.cluster], !.clus_base = op.clus_base + UnitsPerClus]
  <2>1. Linked(op.cluster, own, pos)
    BY <1>4 DEF Holds, DiskOK, LinksOK
  <2> QED  BY <2>1, <1>4 DEF Linked, SkipCluster, NextCluster
<1>6. UnitsPerClus \in Nat
  BY ClusterSize
<1>7. /\ op' \in Writes /\ op'.node = op.node /\ op'.offset = op.offset /\ op'.written = op.written
      /\ op'.len = op.len /\ op'.call = "write"
      /\ \/ /\ op'.pc = "alloc" /\ op'.ret = "extend" /\ op'.cluster = op.cluster /\ fat[op.cluster] = EOC
            /\ op'.clus_base = op.clus_base
         \/ /\ op'.pc = "walk" /\ op'.cluster \in Cluster /\ own[op'.cluster] = op.node
            /\ pos[op'.cluster] = pos[op.cluster] + 1 /\ op'.clus_base = op.clus_base + UnitsPerClus
  <2>1. CASE fat[op.cluster] = EOC /\ op' = [op EXCEPT !.pc = "alloc", !.ret = "extend"]
    BY <2>1, <1>3 DEF Writes
  <2>2. CASE /\ fat[op.cluster] \in Cluster /\ own[fat[op.cluster]] = op.node
             /\ pos[fat[op.cluster]] = pos[op.cluster] + 1
             /\ op' = [op EXCEPT !.cluster = fat[op.cluster], !.clus_base = op.clus_base + UnitsPerClus]
    <3>1. op.clus_base + UnitsPerClus \in Nat
      BY <1>3, <1>6 DEF Writes
    <3> QED  BY <3>1, <2>2, <1>1, <1>3 DEF Writes
  <2> QED  BY <2>1, <2>2, <1>5
<1>8. DiskOK(D, own, pos, dep)' /\ SameEntries(D) /\ CacheOK(D, own)'
  <2>1. Gone' = {} /\ Gone = {}
    BY <1>4, <1>7 DEF Gone
  <2> QED  BY <2>1, <1>1, <1>2, QuietStep DEF Holds
<1>9. AllocOK(D, own)'
  BY <1>7 DEF AllocOK
<1>10. FreeOK(own, pos)'
  BY <1>1, <1>7 DEF Holds, FreeOK
<1>11. WriteOK(D, own, pos)'
  <2>1. At(op.node)' = At(op.node)
    BY <1>8, <1>3, <1>7, NodeStays
  <2>2. op.node \in DOMAIN cache \ {Root} /\ cache[op.node].type = FILE /\ op.written <= op.len
    BY <1>3 DEF WriteOK
  <2>3. file_offset' = file_offset
    BY <1>7 DEF file_offset
  <2>4. /\ op'.clus_base = pos[op'.cluster] * UnitsPerClus /\ op'.clus_base <= file_offset
        /\ op'.cluster \in Cluster /\ own[op'.cluster] = op.node
    <3>1. op.clus_base = pos[op.cluster] * UnitsPerClus /\ op.clus_base <= file_offset /\ pos[op.cluster] \in Nat
      BY <1>3 DEF InChain, Along, Holds, DiskOK, WitnessTypes
    <3>2. (pos[op.cluster] + 1) * UnitsPerClus = pos[op.cluster] * UnitsPerClus + UnitsPerClus
      BY <3>1, <1>6
    <3>3. op.clus_base + UnitsPerClus <= file_offset
      BY <1>1 DEF Beyond
    <3> QED  BY <3>1, <3>2, <3>3, <1>4, <1>7
  <2>5. Along(own, pos)'
    <3>1. \A c \in Cluster : own[c] = op.node =>
            HoldsUpTo(c, pos, At(op.node).name, file_offset) /\ EndsWithin(c, pos, file_offset)
      BY <1>3 DEF InChain, Along
    <3>2. \A c \in Cluster : own[c] = op.node =>
            (HoldsUpTo(c, pos, At(op.node).name, file_offset) /\ EndsWithin(c, pos, file_offset))'
      BY <3>1, <2>1, <2>3, <1>1 DEF HoldsUpTo, EndsWithin
    <3> QED  BY <3>2, <2>3, <2>4, <1>7 DEF Along
  <2>6. op'.pc = "alloc" => fat'[op'.cluster] = EOC /\ Beyond'
    BY <2>3, <1>1, <1>7 DEF Beyond
  <2>7. InChain(own, pos)'
    BY <2>5, <2>6, <1>7 DEF InChain, Extends
  <2> QED  BY <2>2, <2>7, <1>1, <1>7 DEF WriteOK
<1>12. NoLeak(own)'
  <2>1. Taken \subseteq Taken'
    BY <1>1 DEF Taken
  <2> QED  BY <2>1, <1>1 DEF Holds, NoLeak
<1> QED  BY <1>2, <1>8, <1>9, <1>10, <1>11, <1>12 DEF Holds, CallOK

LEMMA StopsStep ==
    ASSUME DiskTypes, NEW D, NEW own, NEW pos, NEW dep, Holds(D, own, pos, dep), WriteStops
    PROVE  DiskTypes' /\ Holds(D, own, pos, dep)'
<1>1. op.pc \in {"first", "extend"} /\ op # Idle /\ op.call = "write" /\ op.new_c = 0
      /\ fat' = fat /\ unit' = unit /\ cache' = cache /\ lost' = lost
  BY DEF WriteStops, Idle, disk
<1>2. DiskTypes' /\ Untouched(D, own)
  BY <1>1, SameIsUntouched DEF DiskTypes
<1>3. WriteOK(D, own, pos) /\ op \in Writes /\ Gone = {}
  BY <1>1, CallKinds, WriteWorksOn DEF Holds
<1>4. \/ op.pc = "first" /\ op' = Idle
      \/ op.pc = "extend" /\ op' = [op EXCEPT !.pc = "size"]
  BY <1>1 DEF WriteStops
<1>5. \/ op' = Idle /\ op'.pc = "idle"
      \/ /\ op.pc = "extend" /\ op' \in Writes /\ op'.pc = "size" /\ op'.call = "write"
         /\ op'.node = op.node /\ op'.offset = op.offset /\ op'.written = op.written
         /\ op'.len = op.len /\ op'.cluster = op.cluster /\ op'.clus_base = op.clus_base
  <2>1. CASE op' = Idle
    BY <2>1 DEF Idle
  <2>2. CASE op.pc = "extend" /\ op' = [op EXCEPT !.pc = "size"]
    BY <2>2, <1>3 DEF Writes
  <2> QED  BY <2>1, <2>2, <1>4
<1>6. DiskOK(D, own, pos, dep)' /\ SameEntries(D) /\ CacheOK(D, own)'
  <2>1. Gone' = {}
    BY <1>5 DEF Gone
  <2> QED  BY <2>1, <1>1, <1>2, <1>3, QuietStep DEF Holds
<1>7. AllocOK(D, own)'
  BY <1>5 DEF AllocOK
<1>8. FreeOK(own, pos)'
  BY <1>1, <1>5 DEF Holds, FreeOK
<1>9. CallOK(D, own, pos)'
  <2>1. CASE op' = Idle
    BY <2>1 DEF CallOK
  <2>2. CASE op' # Idle
    <3>1. op.ret = "extend"
      BY <2>2, <1>5 DEF Holds, AllocOK
    <3>2. InChain(own, pos) /\ op.node \in DOMAIN cache \ {Root} /\ cache[op.node].type = FILE
          /\ op.written <= op.len
      BY <3>1, <1>3 DEF WriteOK
    <3>3. Along(own, pos)'
      BY <3>2, <2>2, <1>2, <1>3, <1>5, <1>6, AlongStays DEF InChain
    <3>4. InChain(own, pos)'
      BY <3>3, <2>2, <1>5 DEF InChain, Extends
    <3>5. WriteOK(D, own, pos)'
      BY <3>2, <3>4, <2>2, <1>1, <1>5 DEF WriteOK
    <3> QED  BY <3>5 DEF CallOK
  <2> QED  BY <2>1, <2>2
<1>10. NoLeak(own)'
  <2>1. Taken = {}
    BY <1>1 DEF Taken, Cluster
  <2> QED  BY <2>1, <1>1 DEF Holds, NoLeak
<1> QED  BY <1>2, <1>6, <1>7, <1>8, <1>9, <1>10 DEF Holds

\* The cluster of a directory that is not to be is a chain to be freed.
LEMMA GiveBack ==
    ASSUME NEW D, NEW own, NEW pos, NEW dep, DiskOK(D, own, pos, dep), CacheOK(D, own), Gone = {},
           NEW c \in Cluster \ D, own[c] = None, fat[c] = EOC, \A x \in Cluster : own[x] # Freeing,
           NEW own2, own2 = [own EXCEPT ![c] = Freeing], NEW pos2, pos2 = [pos EXCEPT ![c] = 0]
    PROVE  DiskOK(D, own2, pos2, dep) /\ CacheOK(D, own2)
<1>4. WitnessTypes(D, own, pos, dep) /\ D \subseteq Cluster
  BY DEF DiskOK, WitnessTypes
<1>5. /\ \A x \in Cluster : x # c => own2[x] = own[x] /\ pos2[x] = pos[x]
      /\ own2[c] = Freeing /\ pos2[c] = 0 /\ own2 \in [Cluster -> Labels] /\ pos2 \in [Cluster -> Nat]
  BY <1>4 DEF WitnessTypes, Labels
<1>6. Freeing # None /\ Freeing \notin Owners(D) /\ None \notin Owners(D)
  BY <1>4, OwnersAreNames
<1>7. LinksOK(D, own, pos) /\ HeadsOK(D, own, pos) /\ DirsOK(D, own) /\ DataOK(D, own, pos) /\ DepthOK(D, own, dep)
  BY DEF DiskOK
<1>8. LinksOK(D, own2, pos2)
  <2>1. \A x \in Cluster : own2[x] # None => own2[x] \in Owners(D) \union {Freeing}
    BY <1>5, <1>7 DEF LinksOK
  <2>2. ASSUME NEW x \in Cluster, own2[x] # None  PROVE Linked(x, own2, pos2)
    <3>1. CASE x = c
      BY <3>1 DEF Linked
    <3>2. CASE x # c
      <4>1. own[x] # None /\ Linked(x, own, pos)
        BY <3>2, <2>2, <1>5, <1>7 DEF LinksOK
      <4>2. fat[x] # EOC => fat[x] # c
        BY <4>1 DEF Linked
      <4> QED  BY <4>1, <4>2, <3>2, <1>5 DEF Linked
    <3> QED  BY <3>1, <3>2
  <2>3. \A x, y \in Cluster : own2[x] # None /\ own2[x] = own2[y] /\ pos2[x] = pos2[y] => x = y
    BY <1>5, <1>7 DEF LinksOK
  <2>4. \A x, y \in Cluster : own2[x] # None /\ own2[x] = own2[y] /\ fat[x] = EOC => pos2[y] <= pos2[x]
    <3> SUFFICES ASSUME NEW x \in Cluster, NEW y \in Cluster, own2[x] # None, own2[x] = own2[y], fat[x] = EOC
                 PROVE  pos2[y] <= pos2[x]
      OBVIOUS
    <3>1. CASE x = c
      <4>1. y = c
        BY <3>1, <1>5
      <4> QED  BY <4>1, <3>1, <1>5
    <3>2. CASE x # c
      <4>1. y # c /\ own[x] # None /\ own[x] = own[y]
        BY <3>2, <1>5
      <4> QED  BY <4>1, <3>2, <1>5, <1>7 DEF LinksOK
    <3> QED  BY <3>1, <3>2
  <2> QED  BY <2>1, <2>2, <2>3, <2>4 DEF LinksOK
<1>9. HeadsOK(D, own2, pos2)
  <2>1. \A x \in Cluster : own[x] \in Owners(D) => x # c
    BY <1>6
  <2>2. \A x \in Cluster : own2[x] \in Owners(D) => x # c
    BY <1>5, <1>6
  <2> QED  BY <2>1, <2>2, <1>5, <1>7 DEF HeadsOK
<1>10. DirsOK(D, own2)
  BY <1>4, <1>5, <1>6, <1>7 DEF DirsOK
<1>11. DataOK(D, own2, pos2)
  <2>1. EntriesOf(D) \subseteq Owners(D)
    BY DEF Owners
  <2>2. \A p \in EntriesOf(D), x \in Cluster : own2[x] = p => x # c
    BY <2>1, <1>5, <1>6
  <2> QED  BY <2>2, <1>5, <1>7 DEF DataOK, HoldsUpTo, EndsWithin
<1>12. DepthOK(D, own2, dep)
  BY <1>4, <1>5, <1>7 DEF DepthOK
<1>13. WitnessTypes(D, own2, pos2, dep)
  BY <1>4, <1>5 DEF WitnessTypes
<1>14. DiskOK(D, own2, pos2, dep)
  BY <1>8, <1>9, <1>10, <1>11, <1>12, <1>13 DEF DiskOK
<1>15. CacheOK(D, own2)
  <2>1. CacheFits(cache, {}, D) /\ ChildrenFit(cache, own) /\ (~ lost => WholeFits(cache, {}, D, own))
    BY DEF CacheOK
  <2>2. \A p \in EntriesOf(D) : own2[p[1]] = own[p[1]]
    <3>1. \A p \in EntriesOf(D) : p[1] \in D
      BY DEF EntriesOf
    <3> QED  BY <3>1, <1>4, <1>5
  <2>3. ASSUME NEW d \in DOMAIN cache, NEW n \in cache[d].children  PROVE own2[n[1]] = own[n[1]]
    <3>1. n \in DOMAIN cache /\ n # Root
      BY <2>1, <2>3, ChildrenAreEntries DEF ChildrenFit
    <3> QED  BY <3>1, <2>1, <2>2 DEF CacheFits
  <2>4. ChildrenFit(cache, own2)
    BY <2>1, <2>3 DEF ChildrenFit
  <2>5. ~ lost => WholeFits(cache, {}, D, own2)
    BY <2>1, <2>2 DEF WholeFits
  <2> QED  BY <2>1, <2>4, <2>5 DEF CacheOK
<1> QED  BY <1>14, <1>15

LEMMA CreateFailsStep ==
    ASSUME DiskTypes, NEW D, NEW own, NEW pos, NEW dep, Holds(D, own, pos, dep), CreateFails
    PROVE  DiskTypes' /\ \E own2, pos2 : Holds(D, own2, pos2, dep)'
<1>1. op.pc \in {"dots", "extend"} /\ op # Idle /\ op.call = "create" /\ op.new_c = 0
      /\ fat' = fat /\ unit' = unit /\ cache' = cache /\ lost' = lost
  BY DEF CreateFails, Idle, disk
<1>2. DiskTypes' /\ Untouched(D, own)
  BY <1>1, SameIsUntouched DEF DiskTypes
<1>3. CreateOK(D, own, pos) /\ op \in Creates
  BY <1>1, CallKinds DEF Holds
<1>4. Gone = {} /\ D \subseteq Cluster
  BY <1>1, <1>3, CreateWorksOn
<1>5. CASE op.new_cluster = 0
  <2>1. op' = Idle /\ op'.pc = "idle"
    BY <1>5 DEF CreateFails, Idle
  <2>2. DiskOK(D, own, pos, dep)' /\ SameEntries(D) /\ CacheOK(D, own)'
    <3>1. Gone' = {}
      BY <2>1 DEF Gone
    <3> QED  BY <3>1, <1>1, <1>2, <1>4, QuietStep DEF Holds
  <2>3. AllocOK(D, own)' /\ FreeOK(own, pos)' /\ CallOK(D, own, pos)'
    BY <2>1, <1>1 DEF AllocOK, FreeOK, CallOK, Holds
  <2>4. NoLeak(own)'
    <3>1. Taken = {}
      BY <1>1, <1>5 DEF Taken, Cluster
    <3> QED  BY <3>1, <1>1 DEF Holds, NoLeak
  <2> QED  BY <2>2, <2>3, <2>4, <1>2 DEF Holds
<1>6. CASE op.new_cluster # 0
  <2>1. PICK c : c = op.new_cluster
    OBVIOUS
  <2>2. c \in Cluster \ D /\ own[c] = None /\ fat[c] = EOC
    BY <2>1, <1>1, <1>3, <1>6 DEF CreateOK, ReadyDir, Fresh
  <2>3. /\ op' \in Creates /\ op'.pc = "free" /\ op'.call = "create" /\ op'.cluster = c
    <3>1. op' = [op EXCEPT !.pc = "free", !.cluster = op.new_cluster]
      BY <1>6 DEF CreateFails
    <3> QED  BY <3>1, <2>1, <2>2, <1>3 DEF Creates
  <2>4. PICK own2 : own2 = [own EXCEPT ![c] = Freeing]
    OBVIOUS
  <2>5. PICK pos2 : pos2 = [pos EXCEPT ![c] = 0]
    OBVIOUS
  <2>6. \A x \in Cluster : own[x] # Freeing
    BY <1>1 DEF Holds, FreeOK
  <2>7. DiskOK(D, own, pos, dep) /\ CacheOK(D, own)
    BY DEF Holds
  <2>8. DiskOK(D, own2, pos2, dep) /\ CacheOK(D, own2)
    BY <2>2, <2>4, <2>5, <2>6, <2>7, <1>4, GiveBack
  <2>9. DiskOK(D, own2, pos2, dep)' /\ CacheOK(D, own2)'
    <3>1. Gone' = {}
      BY <2>3 DEF Gone
    <3>2. Untouched(D, own2)
      BY <1>1, SameIsUntouched
    <3> QED  BY <3>1, <3>2, <2>8, <1>1, <1>4, QuietStep
  <2>10. AllocOK(D, own2)'
    BY <2>3 DEF AllocOK
  <2>11. own2 \in [Cluster -> Labels] /\ own2[c] = Freeing /\ \A x \in Cluster : x # c => own2[x] = own[x]
    BY <2>2, <2>4, <2>7 DEF DiskOK, WitnessTypes, Labels
  <2>12. FreeOK(own2, pos2)'
    <3>1. \A x \in Cluster : own2[x] = Freeing => x = c
      BY <2>6, <2>11
    <3>2. pos2[c] \in Nat
      BY <2>8, <2>2 DEF DiskOK, WitnessTypes
    <3> QED  BY <3>1, <3>2, <2>2, <2>3, <2>11 DEF FreeOK
  <2>13. NoLeak(own2)'
    <3>1. Taken \subseteq {c}
      BY <2>1, <1>1, <1>3 DEF Taken, Cluster
    <3>2. own2[c] # None
      BY <2>11, <1>4, OwnersAreNames
    <3>3. NoLeak(own)
      BY DEF Holds
    <3> QED  BY <3>1, <3>2, <3>3, <2>2, <2>11, <1>1 DEF NoLeak
  <2>14. CallOK(D, own2, pos2)'
    BY <2>3 DEF CallOK, CreateOK
  <2>15. Holds(D, own2, pos2, dep)'
    BY <2>9, <2>10, <2>12, <2>13, <2>14 DEF Holds
  <2> QED  BY <2>15, <1>2
<1> QED  BY <1>5, <1>6

-----------------------------------------------------------------------------
(* Steps that change what is cached, and the start of a call. *)

LEMMA CacheBecomes ==
    ASSUME NEW D, NEW own, SameEntries(D), NEW ca, cache' = ca, NEW gone, Gone' = gone,
           CacheFits(ca, gone, D), ChildrenFit(ca, own), ~ lost' => WholeFits(ca, gone, D, own)
    PROVE  CacheOK(D, own)'
<1>1. CacheFits(cache, Gone, D)'
  <2>1. \A p \in EntriesOf(D) : p \in EntriesOf(D)' /\ At(p)' = At(p)
    BY DEF SameEntries, EntriesOf
  <2> QED  BY <2>1 DEF CacheFits, Agrees
<1>2. ChildrenFit(cache, own)'
  BY DEF ChildrenFit, Known
<1>3. ~ lost' => WholeFits(cache, Gone, D, own)'
  BY DEF WholeFits, SameEntries
<1> QED  BY <1>1, <1>2, <1>3 DEF CacheOK

\* Between calls.
LEMMA WhenIdle ==
    ASSUME NEW D, NEW own, NEW pos, NEW dep, Holds(D, own, pos, dep), op = Idle
    PROVE  /\ DiskOK(D, own, pos, dep) /\ D \subseteq Cluster /\ Gone = {} /\ Taken = {} /\ op.pc = "idle"
           /\ CacheFits(cache, {}, D) /\ ChildrenFit(cache, own)
           /\ ~ lost => WholeFits(cache, {}, D, own)
           /\ \A x \in Cluster : own[x] # Freeing
           /\ NoLeak(own)
<1>1. op.pc = "idle" /\ Gone = {} /\ Taken = {}
  BY DEF Idle, Gone, Taken
<1> QED  BY <1>1 DEF Holds, DiskOK, WitnessTypes, CacheOK, FreeOK

LEMMA LoadStep ==
    ASSUME lost \in BOOLEAN, DiskTypes, NEW D, NEW own, NEW pos, NEW dep, Holds(D, own, pos, dep),
           NEW d \in DOMAIN cache, Load(d)
    PROVE  lost' \in BOOLEAN /\ DiskTypes' /\ Holds(D, own, pos, dep)'
<1>1. op = Idle /\ op' = op /\ fat' = fat /\ unit' = unit /\ cache[d].type = DIR
  BY DEF Load, disk
<1>2. PICK ca \in Loads(d) : cache' = ca
  BY DEF Load
<1>3. lost' = (lost \/ ~ IsWhole(ca, d))
  BY <1>2 DEF Load
<1>4. lost' \in BOOLEAN
  BY <1>3
<1>5. DiskTypes' /\ Untouched(D, own)
  BY <1>1, SameIsUntouched DEF DiskTypes
<1>6. DiskOK(D, own, pos, dep)' /\ SameEntries(D)
  BY <1>5, DiskStays DEF Holds
<1>7. CacheOK(D, own)'
  <2>1. /\ CacheFits(cache, {}, D) /\ ChildrenFit(cache, own)
        /\ ~ lost => WholeFits(cache, {}, D, own)
    BY <1>1, WhenIdle
  <2>2. /\ CacheFits(ca, {}, D) /\ ChildrenFit(ca, own)
        /\ WholeFits(cache, {}, D, own) /\ IsWhole(ca, d) => WholeFits(ca, {}, D, own)
    BY <2>1, <1>1, LoadsFit DEF Holds
  <2>3. ~ lost' => WholeFits(ca, {}, D, own)
    BY <2>1, <2>2, <1>3
  <2>4. Gone' = {}
    BY <1>1 DEF Gone, Idle
  <2> QED  BY <2>2, <2>3, <2>4, <1>2, <1>6, CacheBecomes
<1>8. AllocOK(D, own)' /\ FreeOK(own, pos)' /\ CallOK(D, own, pos)'
  BY <1>1, WhenIdle DEF AllocOK, FreeOK, CallOK, Idle
<1>9. NoLeak(own)'
  <2>1. Taken = {} /\ NoLeak(own)
    BY <1>1, WhenIdle
  <2> QED  BY <2>1, <1>1, <1>3 DEF NoLeak
<1> QED  BY <1>4, <1>5, <1>6, <1>7, <1>8, <1>9 DEF Holds

LEMMA CreateStep ==
    ASSUME lost \in BOOLEAN, DiskTypes, NEW D, NEW own, NEW pos, NEW dep, Holds(D, own, pos, dep),
           NEW d \in DOMAIN cache, NEW new \in NewEntries, fat32_create(d, new[1], new[2])
    PROVE  lost' \in BOOLEAN /\ DiskTypes' /\ Holds(D, own, pos, dep)'
<1>1. op = Idle /\ fat' = fat /\ unit' = unit /\ cache[d].type = DIR
  BY DEF fat32_create, disk
<1>2. PICK ca \in Loads(d) : cache' = ca
  BY DEF fat32_create
<1>3. lost' = (lost \/ ~ IsWhole(ca, d))
  BY <1>2 DEF fat32_create
<1>4. lost' \in BOOLEAN
  BY <1>3
<1>5. DiskTypes' /\ Untouched(D, own)
  BY <1>1, SameIsUntouched DEF DiskTypes
<1>6. DiskOK(D, own, pos, dep)' /\ SameEntries(D)
  BY <1>5, DiskStays DEF Holds
<1>7. /\ CacheFits(cache, {}, D) /\ ChildrenFit(cache, own)
      /\ ~ lost => WholeFits(cache, {}, D, own)
      /\ D \subseteq Cluster /\ EntriesOK(D)
  BY <1>1, WhenIdle DEF DiskOK
<1>8. /\ CacheFits(ca, {}, D) /\ ChildrenFit(ca, own) /\ d \in DOMAIN ca /\ ca[d].children_loaded
      /\ WholeFits(cache, {}, D, own) /\ IsWhole(ca, d) => WholeFits(ca, {}, D, own)
  BY <1>1, <1>7, LoadsFit DEF Holds
<1>9. d \in Owners(D) /\ IsDir(d) /\ FirstOf(cache, d) = First(d)
  BY <1>1, <1>7, CachedDir
<1>10. FirstOf(cache, d) \in Cluster /\ own[FirstOf(cache, d)] = d
  <2>1. First(d) # 0
    BY <1>7, <1>9, DirHasHead
  <2> QED  BY <2>1, <1>9, OwnerHead DEF Holds
<1>11. new[1] \in Names /\ new[2] \in {FILE, DIR}
  BY Fat32Assumption DEF FILE, DIR
<1>12. /\ op' \in Creates /\ op'.call = "create" /\ op'.ret = "dots" /\ op'.new_c = 0 /\ op'.new_cluster = 0
       /\ op'.dir = d /\ op'.type = new[2] /\ op'.cluster = FirstOf(cache, d)
       /\ op'.pc = IF new[2] = DIR THEN "alloc" ELSE "walk"
  <2>1. d \in Place \union {Root}
    BY <1>7, <1>9, OwnersAreNames DEF Owners
  <2>2. op' = [call |-> "create", pc |-> IF new[2] = DIR THEN "alloc" ELSE "walk",
              ret |-> "dots", new_c |-> 0, s |-> 0,
              dir |-> d, name |-> new[1], type |-> new[2], new_cluster |-> 0,
              cluster |-> FirstOf(cache, d), clus_base |-> 0]
    BY DEF fat32_create
  <2> QED  BY <2>1, <2>2, <1>10, <1>11 DEF Creates
<1>13. CacheOK(D, own)'
  <2>1. ~ lost' => WholeFits(ca, {}, D, own)
    BY <1>3, <1>7, <1>8
  <2>2. Gone' = {}
    BY <1>12 DEF Gone
  <2> QED  BY <2>1, <2>2, <1>2, <1>6, <1>8, CacheBecomes
<1>14. AllocOK(D, own)'
  BY <1>12 DEF AllocOK
<1>15. FreeOK(own, pos)'
  <2>1. \A x \in Cluster : own[x] # Freeing
    BY <1>1, WhenIdle
  <2> QED  BY <2>1, <1>12 DEF FreeOK
<1>16. CreateOK(D, own, pos)'
  BY <1>2, <1>8, <1>10, <1>11, <1>12 DEF CreateOK, MakesDots, Extends
<1>17. NoLeak(own)'
  <2>1. Taken = {} /\ NoLeak(own)
    BY <1>1, WhenIdle
  <2> QED  BY <2>1, <1>1, <1>3 DEF NoLeak
<1> QED  BY <1>4, <1>5, <1>6, <1>13, <1>14, <1>15, <1>16, <1>17 DEF Holds, CallOK

LEMMA CallWriteStep ==
    ASSUME lost \in BOOLEAN, DiskTypes, NEW D, NEW own, NEW pos, NEW dep, Holds(D, own, pos, dep),
           NEW n \in DOMAIN cache, NEW offset \in 0 .. MaxSize, NEW len \in Lengths,
           fat32_write(n, offset, len)
    PROVE  lost' \in BOOLEAN /\ DiskTypes' /\ Holds(D, own, pos, dep)'
<1>1. op = Idle /\ fat' = fat /\ unit' = unit /\ cache' = cache /\ lost' = lost
      /\ cache[n].type = FILE /\ offset <= cache[n].file_size
  BY DEF fat32_write, disk
<1>2. /\ CacheFits(cache, {}, D) /\ D \subseteq Cluster /\ EntriesOK(D) /\ Gone = {}
      /\ WitnessTypes(D, own, pos, dep)
  BY <1>1, WhenIdle DEF DiskOK
<1>3. n # Root
  BY <1>1, <1>2 DEF CacheFits, FILE, DIR
<1>4. n \in EntriesOf(D) /\ Agrees(cache, n)
  BY <1>2, <1>3 DEF CacheFits
<1>5. n \in Place /\ n \in Owners(D) /\ First(n) = At(n).first
  BY <1>2, <1>4, EntryOwner, OwnersAreNames
<1>6. offset \in Nat /\ len \in Nat
  BY Fat32Assumption
<1>7. At(n).type = FILE /\ At(n).first = cache[n].first_cluster /\ At(n).size = cache[n].file_size
  BY <1>1, <1>4 DEF Agrees
<1>8. cache[n].first_cluster \in Cluster \union {0} /\ At(n).size \in Nat
  <2>1. cache[n] \in Nodes
    BY <1>2 DEF CacheFits
  <2> QED  BY <2>1, <1>7 DEF Nodes
<1>9. /\ op' \in Writes /\ op'.call = "write" /\ op'.ret = "first"
      /\ op'.pc = IF cache[n].first_cluster = 0 THEN "alloc" ELSE "walk"
      /\ op'.node = n /\ op'.offset = offset /\ op'.written = 0 /\ op'.len = len
      /\ op'.cluster = cache[n].first_cluster /\ op'.clus_base = 0 /\ op'.new_c = 0
  <2>1. op' = [call |-> "write",
              pc |-> IF cache[n].first_cluster = 0 THEN "alloc" ELSE "walk",
              ret |-> "first", new_c |-> 0, s |-> 0,
              node |-> n, offset |-> offset, len |-> len, written |-> 0,
              cluster |-> cache[n].first_cluster, clus_base |-> 0]
    BY DEF fat32_write
  <2> QED  BY <2>1, <1>5, <1>6, <1>8 DEF Writes
<1>10. DiskTypes' /\ Untouched(D, own)
  BY <1>1, SameIsUntouched DEF DiskTypes
<1>11. DiskOK(D, own, pos, dep)' /\ SameEntries(D) /\ CacheOK(D, own)'
  <2>1. Gone' = {}
    BY <1>9 DEF Gone
  <2> QED  BY <2>1, <1>1, <1>2, <1>10, QuietStep DEF Holds
<1>12. AllocOK(D, own)'
  BY <1>9 DEF AllocOK
<1>13. FreeOK(own, pos)'
  <2>1. \A x \in Cluster : own[x] # Freeing
    BY <1>1, WhenIdle
  <2> QED  BY <2>1, <1>9 DEF FreeOK
<1>14. At(op.node)' = At(n)
  BY <1>1, <1>9 DEF At
<1>15. WriteOK(D, own, pos)'
  <2>1. CASE cache[n].first_cluster = 0
    <3>1. At(n).size = 0
      BY <2>1, <1>2, <1>4, <1>7 DEF EntriesOK
    <3>2. offset = 0
      BY <3>1, <1>1, <1>6, <1>7
    <3> QED  BY <3>2, <2>1, <1>1, <1>3, <1>6, <1>7, <1>9, <1>14 DEF WriteOK
  <2>2. CASE cache[n].first_cluster # 0
    <3> DEFINE h == cache[n].first_cluster
    <3>1. h \in Cluster /\ own[h] = n /\ pos[h] = 0
      BY <2>2, <1>5, <1>7, OwnerHead DEF Holds
    <3>2. file_offset' = offset
      BY <1>6, <1>9 DEF file_offset
    <3>3. ASSUME NEW x \in Cluster, own[x] = n
          PROVE  (HoldsUpTo(x, pos, At(op.node).name, file_offset) /\ EndsWithin(x, pos, file_offset))'
      <4>1. HoldsUpTo(x, pos, At(n).name, At(n).size) /\ EndsWithin(x, pos, At(n).size)
        BY <3>3, <1>4, <1>7 DEF Holds, DiskOK, DataOK
      <4>2. offset <= At(n).size /\ pos[x] \in Nat /\ UnitsPerClus \in Nat
        BY <1>1, <1>2, <1>7, ClusterSize DEF WitnessTypes
      <4>3. ASSUME NEW u \in Offset, pos[x] * UnitsPerClus + u < offset
            PROVE  unit[x][u] = Data(At(n).name, pos[x] * UnitsPerClus + u)
        <5>1. pos[x] * UnitsPerClus + u \in Nat
          BY <4>2, IndexOf
        <5>2. pos[x] * UnitsPerClus + u < At(n).size
          BY <5>1, <4>2, <4>3, <1>6, <1>8
        <5> QED  BY <5>2, <4>1 DEF HoldsUpTo
      <4>4. fat[x] = EOC => offset <= (pos[x] + 1) * UnitsPerClus
        <5>1. (pos[x] + 1) * UnitsPerClus \in Nat
          BY <4>2
        <5> QED  BY <5>1, <4>1, <4>2, <1>6, <1>8 DEF EndsWithin
      <4> QED  BY <4>3, <4>4, <3>2, <1>1, <1>14 DEF HoldsUpTo, EndsWithin
    <3>4. pos[h] * UnitsPerClus = 0
      BY <3>1, ClusterSize
    <3>5. Along(own, pos)'
      BY <3>1, <3>2, <3>3, <3>4, <1>6, <1>9 DEF Along
    <3>6. InChain(own, pos)'
      BY <3>5, <2>2, <1>9 DEF InChain, Extends
    <3> QED  BY <3>6, <2>2, <1>1, <1>3, <1>6, <1>9 DEF WriteOK
  <2> QED  BY <2>1, <2>2
<1>16. NoLeak(own)'
  <2>1. Taken = {} /\ NoLeak(own)
    BY <1>1, WhenIdle
  <2> QED  BY <2>1, <1>1 DEF NoLeak
<1> QED  BY <1>1, <1>10, <1>11, <1>12, <1>13, <1>15, <1>16 DEF Holds, CallOK

LEMMA ForgetFits ==
    ASSUME NEW D, NEW own, NEW n, n # Root, n \in DOMAIN cache, n \notin EntriesOf(D),
           CacheFits(cache, {n}, D), ChildrenFit(cache, own), cache[n].children = {}
    PROVE  /\ CacheFits(Forget(cache, n), {}, D) /\ ChildrenFit(Forget(cache, n), own)
           /\ WholeFits(cache, {n}, D, own) => WholeFits(Forget(cache, n), {}, D, own)
<1> DEFINE ca == Forget(cache, n)
           m == cache[n].parent
<1>1. DOMAIN ca = DOMAIN cache \ {n} /\ \A x \in DOMAIN ca : cache[x] \in Nodes
  BY DEF Forget, CacheFits
<1>2. ASSUME NEW x \in DOMAIN ca
      PROVE  /\ ca[x] \in Nodes /\ ca[x].type = cache[x].type
             /\ ca[x].first_cluster = cache[x].first_cluster /\ ca[x].file_size = cache[x].file_size
             /\ ca[x].parent = cache[x].parent /\ ca[x].children_loaded = cache[x].children_loaded
             /\ ca[x].children = cache[x].children \ {n}
  <2>1. cache[x] \in Nodes /\ x \in DOMAIN cache /\ x # n
    BY <1>1
  <2>2. CASE x = m
    <3>1. ca[x] = [cache[x] EXCEPT !.children = cache[x].children \ {n}]
      BY <2>1, <2>2 DEF Forget
    <3>2. cache[x].children \ {n} \in SUBSET Place
      BY <2>1 DEF Nodes
    <3> HIDE DEF ca
    <3> QED  BY ONLY <3>1, <3>2, <2>1 DEF Nodes
  <2>3. CASE x # m
    <3>1. ca[x] = cache[x]
      BY <2>1, <2>3 DEF Forget
    <3>2. n \notin cache[x].children
      BY <2>1, <2>3 DEF ChildrenFit
    <3> QED  BY <3>1, <3>2, <2>1
  <2> QED  BY <2>2, <2>3
<1>3. ca \in [DOMAIN ca -> Nodes]
  BY <1>2 DEF Forget
<1> HIDE DEF ca
<1>4. CacheFits(ca, {}, D)
  BY <1>1, <1>2, <1>3 DEF CacheFits, Agrees
<1>5. ChildrenFit(ca, own)
  <2> SUFFICES ASSUME NEW d \in DOMAIN ca
               PROVE  /\ ~ ca[d].children_loaded => ca[d].children = {}
                      /\ ca[d].children_loaded => ca[d].type = DIR /\ d \in Known(ca)
                      /\ \A x \in ca[d].children : x \in DOMAIN ca /\ ca[x].parent = d /\ own[x[1]] = d
    BY DEF ChildrenFit
  <2>1. d \in DOMAIN cache /\ d # n
    BY <1>1
  <2>2. ASSUME NEW x \in ca[d].children  PROVE x \in DOMAIN ca /\ ca[x].parent = d /\ own[x[1]] = d
    <3>1. x \in cache[d].children /\ x # n
      BY <1>2, <2>2
    <3>2. x \in DOMAIN cache /\ cache[x].parent = d /\ own[x[1]] = d
      BY <3>1, <2>1 DEF ChildrenFit
    <3> QED  BY <3>1, <3>2, <1>1, <1>2
  <2>3. ASSUME ca[d].children_loaded  PROVE ca[d].type = DIR /\ d \in Known(ca)
    <3>1. cache[d].type = DIR /\ d \in Known(cache)
      BY <2>1, <2>3, <1>2 DEF ChildrenFit
    <3>2. ASSUME NEW a \in DOMAIN cache, d \in cache[a].children  PROVE d \in Known(ca)
      <4>1. a # n
        BY <3>2
      <4>2. a \in DOMAIN ca /\ d \in ca[a].children
        BY <4>1, <3>2, <2>1, <1>1, <1>2
      <4> QED  BY <4>2 DEF Known
    <3> QED  BY <3>1, <3>2, <1>2 DEF Known
  <2>4. ~ ca[d].children_loaded => ca[d].children = {}
    BY <2>1, <1>2 DEF ChildrenFit
  <2> QED  BY <2>2, <2>3, <2>4
<1>6. ASSUME WholeFits(cache, {n}, D, own)  PROVE WholeFits(ca, {}, D, own)
  <2> SUFFICES ASSUME NEW d \in DOMAIN ca, ca[d].children_loaded
               PROVE  ca[d].children = {p \in EntriesOf(D) : own[p[1]] = d}
    BY DEF WholeFits
  <2>1. d \in DOMAIN cache \ {n} /\ cache[d].children_loaded
    BY <1>1, <1>2
  <2> QED  BY <2>1, <1>2, <1>6 DEF WholeFits
<1> QED  BY <1>4, <1>5, <1>6 DEF ca

LEMMA FinishStep ==
    ASSUME DiskTypes, NEW D, NEW own, NEW pos, NEW dep, Holds(D, own, pos, dep), Finish
    PROVE  DiskTypes' /\ Holds(D, own, pos, dep)'
<1>1. op.pc = "forget" /\ op # Idle /\ fat' = fat /\ unit' = unit /\ lost' = lost /\ op' = Idle /\ op'.pc = "idle"
  BY DEF Finish, Idle, disk
<1>2. DiskTypes' /\ Untouched(D, own)
  BY <1>1, SameIsUntouched DEF DiskTypes
<1>3. DiskOK(D, own, pos, dep)' /\ SameEntries(D)
  BY <1>2, DiskStays DEF Holds
<1>4. CacheFits(cache, Gone, D) /\ ChildrenFit(cache, own) /\ (~ lost => WholeFits(cache, Gone, D, own))
  BY DEF Holds, CacheOK
<1>5. CacheOK(D, own)'
  <2>1. Gone' = {}
    BY <1>1 DEF Gone
  <2>2. CASE op.call = "unlink"
    <3>1. UnlinkOK(D) /\ op \in Unlinks
      BY <1>1, <2>2, CallKinds DEF Holds
    <3>2. PICK n : n = op.node
      OBVIOUS
    <3>3. n \in DOMAIN cache \ {Root} /\ n \notin EntriesOf(D) /\ cache[n].children = {}
      BY <3>1, <3>2 DEF UnlinkOK
    <3>4. Gone = {n}
      BY <1>1, <2>2, <3>2 DEF Gone
    <3>5. PICK ca : ca = Forget(cache, n)
      OBVIOUS
    <3>6. /\ CacheFits(ca, {}, D) /\ ChildrenFit(ca, own)
          /\ WholeFits(cache, {n}, D, own) => WholeFits(ca, {}, D, own)
      BY <1>4, <3>3, <3>4, <3>5, ForgetFits
    <3>7. cache' = ca
      BY <2>2, <3>2, <3>5 DEF Finish
    <3> QED  BY <3>4, <3>6, <3>7, <2>1, <1>1, <1>3, <1>4, CacheBecomes
  <2>3. CASE op.call # "unlink"
    <3>1. Gone = {}
      BY <2>3 DEF Gone
    <3>2. cache' = cache
      BY <2>3 DEF Finish
    <3> QED  BY <3>1, <3>2, <2>1, <1>1, <1>3, CacheStays DEF Holds
  <2> QED  BY <2>2, <2>3
<1>6. AllocOK(D, own)' /\ FreeOK(own, pos)' /\ CallOK(D, own, pos)'
  BY <1>1 DEF Holds, AllocOK, FreeOK, CallOK
<1>7. NoLeak(own)'
  <2>1. Taken = {}
    BY <1>1 DEF Taken
  <2> QED  BY <2>1, <1>1 DEF Holds, NoLeak
<1> QED  BY <1>2, <1>3, <1>5, <1>6, <1>7 DEF Holds

\* Clusters of a chain that is being freed are let go, the head first.
LEMMA Release ==
    ASSUME NEW D, NEW own, NEW pos, NEW dep, DiskOK(D, own, pos, dep),
           NEW R, \A x \in R : x \in Cluster /\ own[x] = Freeing,
           \A x \in Cluster : own[x] = Freeing /\ fat[x] \in R => x \in R,
           NEW own2, own2 = [x \in Cluster |-> IF x \in R THEN None ELSE own[x]]
    PROVE  DiskOK(D, own2, pos, dep) /\ \A x \in D : own2[x] = own[x]
<1>1. WitnessTypes(D, own, pos, dep) /\ D \subseteq Cluster
  BY DEF DiskOK, WitnessTypes
<1>2. /\ \A x \in Cluster : x \notin R => own2[x] = own[x]
      /\ \A x \in R : x \in Cluster /\ own2[x] = None
      /\ own2 \in [Cluster -> Labels]
  BY <1>1 DEF WitnessTypes, Labels
<1>3. Freeing # None /\ Freeing \notin Owners(D) /\ None \notin Owners(D)
  BY <1>1, OwnersAreNames
<1>4. LinksOK(D, own, pos) /\ HeadsOK(D, own, pos) /\ DirsOK(D, own) /\ DataOK(D, own, pos) /\ DepthOK(D, own, dep)
  BY DEF DiskOK
<1>5. \A x \in D : x \notin R
  BY <1>1, <1>3, <1>4 DEF DirsOK
<1>6. LinksOK(D, own2, pos)
  <2>1. ASSUME NEW x \in Cluster, own2[x] # None  PROVE own[x] # None /\ own2[x] = own[x] /\ x \notin R
    BY <2>1, <1>2
  <2>2. \A x \in Cluster : own2[x] # None => own2[x] \in Owners(D) \union {Freeing}
    BY <2>1, <1>4 DEF LinksOK
  <2>3. ASSUME NEW x \in Cluster, own2[x] # None  PROVE Linked(x, own2, pos)
    <3>1. own[x] # None /\ own2[x] = own[x] /\ x \notin R /\ Linked(x, own, pos)
      BY <2>1, <2>3, <1>4 DEF LinksOK
    <3>2. ASSUME fat[x] # EOC  PROVE fat[x] \in Cluster /\ own2[fat[x]] = own2[x] /\ pos[fat[x]] = pos[x] + 1
      <4>1. fat[x] \in Cluster /\ own[fat[x]] = own[x] /\ pos[fat[x]] = pos[x] + 1
        BY <3>1, <3>2 DEF Linked
      <4>2. fat[x] \notin R
        BY <4>1, <3>1
      <4> QED  BY <4>1, <4>2, <3>1, <1>2
    <3> QED  BY <3>2 DEF Linked
  <2>4. \A x, y \in Cluster : own2[x] # None /\ own2[x] = own2[y] /\ pos[x] = pos[y] => x = y
    <3> SUFFICES ASSUME NEW x \in Cluster, NEW y \in Cluster, own2[x] # None, own2[x] = own2[y], pos[x] = pos[y]
                 PROVE  x = y
      OBVIOUS
    <3>1. own[x] # None /\ own[x] = own[y]
      BY <2>1
    <3> QED  BY <3>1, <1>4 DEF LinksOK
  <2>5. \A x, y \in Cluster : own2[x] # None /\ own2[x] = own2[y] /\ fat[x] = EOC => pos[y] <= pos[x]
    <3> SUFFICES ASSUME NEW x \in Cluster, NEW y \in Cluster, own2[x] # None, own2[x] = own2[y], fat[x] = EOC
                 PROVE  pos[y] <= pos[x]
      OBVIOUS
    <3>1. own[x] # None /\ own[x] = own[y]
      BY <2>1
    <3> QED  BY <3>1, <1>4 DEF LinksOK
  <2> QED  BY <2>2, <2>3, <2>4, <2>5 DEF LinksOK
<1>7. \A x \in Cluster : own2[x] # None => own2[x] = own[x]
  BY <1>2
<1>8. HeadsOK(D, own2, pos)
  <2>1. ASSUME NEW p \in Owners(D), First(p) # 0
        PROVE  First(p) \in Cluster /\ own2[First(p)] = p /\ pos[First(p)] = 0
    <3>1. First(p) \in Cluster /\ own[First(p)] = p /\ pos[First(p)] = 0
      BY <2>1, <1>4 DEF HeadsOK
    <3> QED  BY <3>1, <1>2, <1>3
  <2>2. \A c \in Cluster : own2[c] \in Owners(D) => First(own2[c]) # 0
    BY <1>3, <1>4, <1>7 DEF HeadsOK
  <2> QED  BY <2>1, <2>2 DEF HeadsOK
<1>9. DirsOK(D, own2)
  BY <1>1, <1>2, <1>3, <1>4, <1>5, <1>7 DEF DirsOK
<1>10. DataOK(D, own2, pos)
  <2>1. EntriesOf(D) \subseteq Owners(D)
    BY DEF Owners
  <2>2. \A p \in EntriesOf(D), x \in Cluster : own2[x] = p => own[x] = p
    BY <2>1, <1>3, <1>7
  <2> QED  BY <2>2, <1>4 DEF DataOK
<1>11. \A x \in D : own2[x] = own[x]
  BY <1>1, <1>2, <1>5
<1>12. DepthOK(D, own2, dep)
  BY <1>4, <1>11 DEF DepthOK
<1>13. WitnessTypes(D, own2, pos, dep)
  BY <1>1, <1>2 DEF WitnessTypes
<1> QED  BY <1>6, <1>8, <1>9, <1>10, <1>11, <1>12, <1>13 DEF DiskOK

LEMMA ReleaseCache ==
    ASSUME NEW D, NEW own, NEW pos, NEW dep, DiskOK(D, own, pos, dep), CacheOK(D, own),
           NEW R, \A x \in R : x \in Cluster /\ own[x] = Freeing,
           \A x \in Cluster : own[x] = Freeing /\ fat[x] \in R => x \in R,
           NEW own2, own2 = [x \in Cluster |-> IF x \in R THEN None ELSE own[x]],
           \A n \in Gone : n \in DOMAIN cache /\ cache[n].children = {}
    PROVE  DiskOK(D, own2, pos, dep) /\ CacheOK(D, own2)
<1>1. DiskOK(D, own2, pos, dep) /\ \A x \in D : own2[x] = own[x]
  BY Release
<1>2. /\ CacheFits(cache, Gone, D) /\ ChildrenFit(cache, own) /\ (~ lost => WholeFits(cache, Gone, D, own))
      /\ D \subseteq Cluster
  BY DEF CacheOK, DiskOK, WitnessTypes
<1>3. ASSUME NEW d \in DOMAIN cache, NEW n \in cache[d].children  PROVE own2[n[1]] = own[n[1]]
  <2>1. n[1] \in Cluster /\ own[n[1]] = d
    BY <1>2, <1>3, ChildrenAreEntries DEF ChildrenFit
  <2>2. d # Freeing
    <3>1. d \notin Gone
      BY <1>3
    <3>2. d = Root \/ d \in EntriesOf(D)
      BY <3>1, <1>2 DEF CacheFits
    <3> QED  BY <3>2, <1>2, OwnersAreNames DEF Owners
  <2>3. n[1] \notin R
    BY <2>1, <2>2
  <2> QED  BY <2>1, <2>3
<1>4. ChildrenFit(cache, own2)
  BY <1>2, <1>3 DEF ChildrenFit
<1>5. ~ lost => WholeFits(cache, Gone, D, own2)
  <2>1. \A p \in EntriesOf(D) : own2[p[1]] = own[p[1]]
    BY <1>1 DEF EntriesOf
  <2> QED  BY <2>1, <1>2 DEF WholeFits
<1> QED  BY <1>1, <1>2, <1>4, <1>5 DEF CacheOK

LEMMA GoneIsEmpty ==
    ASSUME NEW D, NEW own, NEW pos, NEW dep, Holds(D, own, pos, dep)
    PROVE  \A n \in Gone : n \in DOMAIN cache \ {Root} /\ n \notin EntriesOf(D) /\ cache[n].children = {}
<1> SUFFICES ASSUME NEW n \in Gone
             PROVE  n \in DOMAIN cache \ {Root} /\ n \notin EntriesOf(D) /\ cache[n].children = {}
  OBVIOUS
<1>1. op.pc # "idle" /\ op.call = "unlink" /\ n = op.node
  BY DEF Gone
<1>2. op # Idle
  BY <1>1 DEF Idle
<1>3. UnlinkOK(D)
  BY <1>1, <1>2, CallKinds DEF Holds
<1> QED  BY <1>1, <1>3 DEF UnlinkOK

LEMMA FreeStep ==
    ASSUME DiskTypes, NEW D, NEW own, NEW pos, NEW dep, Holds(D, own, pos, dep), fat_free_chain
    PROVE  DiskTypes' /\ \E own2 : Holds(D, own2, pos, dep)'
<1>1. op.pc = "free" /\ op # Idle /\ unit' = unit /\ cache' = cache /\ lost' = lost
  BY DEF fat_free_chain, Idle
<1>2. PICK c : c = op.cluster
  OBVIOUS
<1>3. /\ c \in Cluster /\ own[c] = Freeing /\ \A x \in Cluster : own[x] = Freeing => pos[c] <= pos[x]
  BY <1>1, <1>2 DEF Holds, FreeOK
<1>4. fat' = [fat EXCEPT ![c] = FREE]
  BY <1>2 DEF fat_free_chain
<1>5. DiskTypes'
  BY <1>1, <1>3, <1>4 DEF DiskTypes
<1>6. DiskOK(D, own, pos, dep) /\ CacheOK(D, own) /\ WitnessTypes(D, own, pos, dep) /\ D \subseteq Cluster
      /\ LinksOK(D, own, pos) /\ DirsOK(D, own)
  BY DEF Holds, DiskOK, WitnessTypes
<1>7. Freeing # None /\ Freeing \notin Owners(D)
  BY <1>6, OwnersAreNames
<1>8. Linked(c, own, pos)
  BY <1>3, <1>6, <1>7 DEF LinksOK
<1>9. \A x \in Cluster : pos[x] \in Nat
  BY <1>6 DEF WitnessTypes
<1>10. PICK own2 : own2 = [x \in Cluster |-> IF x \in {c} THEN None ELSE own[x]]
  OBVIOUS
<1>11. own2[c] = None /\ \A x \in Cluster : x # c => own2[x] = own[x]
  BY <1>3, <1>10
<1>12. \A x \in Cluster : own[x] = Freeing /\ fat[x] \in {c} => x \in {c}
  <2> SUFFICES ASSUME NEW x \in Cluster, own[x] = Freeing, fat[x] = c  PROVE FALSE
    OBVIOUS
  <2>1. Linked(x, own, pos)
    BY <1>6, <1>7 DEF LinksOK
  <2>2. pos[c] = pos[x] + 1
    BY <2>1, <1>3 DEF Linked, EOC, Cluster
  <2>3. pos[c] <= pos[x]
    BY <1>3
  <2> QED  BY <2>2, <2>3, <1>3, <1>9
<1>13. DiskOK(D, own2, pos, dep) /\ CacheOK(D, own2)
  <2>1. \A n \in Gone : n \in DOMAIN cache /\ cache[n].children = {}
    BY GoneIsEmpty
  <2>2. \A x \in {c} : x \in Cluster /\ own[x] = Freeing
    BY <1>3
  <2> QED  BY <2>1, <2>2, <1>6, <1>10, <1>12, ReleaseCache
<1>14. c \notin D
  BY <1>3, <1>6, <1>7 DEF DirsOK
<1>15. Untouched(D, own2)
  <2>1. \A x \in Cluster : x # c => fat'[x] = fat[x]
    BY <1>4 DEF DiskTypes
  <2> QED  BY <2>1, <1>1, <1>11, <1>14 DEF Untouched
<1>16. /\ op' = [op EXCEPT !.cluster = fat[c], !.pc = IF fat[c] \in Cluster THEN "free" ELSE "forget"]
       /\ fat[c] \in Cluster \union {EOC} \union {FREE}
  BY <1>2, <1>3 DEF fat_free_chain, DiskTypes
<1>17. \/ op.call = "create" /\ CreateOK(D, own, pos) /\ op \in Creates
       \/ op.call = "unlink" /\ UnlinkOK(D) /\ op \in Unlinks
  <2>1. op \notin Writes
    BY <1>1 DEF Writes
  <2> QED  BY <2>1, <1>1, CallKinds DEF Holds
<1>18. /\ op'.call = op.call /\ op'.cluster = fat[c]
       /\ op'.pc = IF fat[c] \in Cluster THEN "free" ELSE "forget"
       /\ op.call = "unlink" => op'.node = op.node
       /\ op \in Creates => op' \in Creates
       /\ op \in Unlinks => op' \in Unlinks
  <2>1. CASE op \in Creates
    <3>1. op.call = "create" /\ op \notin Unlinks
      BY <2>1 DEF Creates, Unlinks
    <3>2. /\ op'.call = op.call /\ op'.cluster = fat[c]
          /\ op'.pc = IF fat[c] \in Cluster THEN "free" ELSE "forget"
      BY <2>1, <1>16 DEF Creates
    <3>3. op' \in Creates
      <4> DEFINE x == fat[c]
                 y == IF fat[c] \in Cluster THEN "free" ELSE "forget"
      <4>1. op' = [op EXCEPT !.cluster = x, !.pc = y]
        BY <1>16
      <4>2. x \in Cluster \union {FREE, EOC} /\ y \in {"free", "forget"}
        BY <1>16
      <4> HIDE DEF x, y
      <4> QED  BY <2>1, <4>1, <4>2 DEF Creates
    <3> QED  BY <3>1, <3>2, <3>3
  <2>2. CASE op \in Unlinks
    BY <2>2, <1>16, <1>17 DEF Creates, Unlinks
  <2> QED  BY <2>1, <2>2, <1>17
<1>19. DiskOK(D, own2, pos, dep)' /\ SameEntries(D) /\ CacheOK(D, own2)'
  <2>1. Gone' = Gone
    BY <1>1, <1>18 DEF Gone
  <2> QED  BY <2>1, <1>1, <1>13, <1>15, QuietStep
<1>20. AllocOK(D, own2)'
  BY <1>18 DEF AllocOK
<1>21. FreeOK(own2, pos)'
  <2>1. CASE fat[c] \in Cluster
    <3>1. fat[c] # c
      BY <1>8, <2>1, <1>3, <1>9 DEF Linked, EOC, Cluster
    <3>2. own2[fat[c]] = Freeing /\ pos[fat[c]] = pos[c] + 1
      BY <3>1, <1>3, <1>8, <1>11, <2>1 DEF Linked, EOC, Cluster
    <3>3. ASSUME NEW x \in Cluster, own2[x] = Freeing  PROVE pos[fat[c]] <= pos[x]
      <4>1. own[x] = Freeing /\ x # c
        BY <3>3, <1>7, <1>11
      <4>2. pos[x] # pos[c]
        BY <4>1, <1>3, <1>6, <1>7 DEF LinksOK
      <4> QED  BY <4>1, <4>2, <3>2, <1>3, <1>9
    <3> QED  BY <3>2, <3>3, <2>1, <1>18 DEF FreeOK
  <2>2. CASE fat[c] \notin Cluster
    <3>1. fat[c] = EOC
      BY <2>2, <1>8 DEF Linked
    <3>2. ASSUME NEW x \in Cluster, own2[x] = Freeing  PROVE FALSE
      <4>1. own[x] = Freeing /\ x # c
        BY <3>2, <1>7, <1>11
      <4>2. pos[x] <= pos[c] /\ pos[x] # pos[c]
        BY <4>1, <3>1, <1>3, <1>6, <1>7 DEF LinksOK
      <4> QED  BY <4>1, <4>2, <1>3, <1>9
    <3> QED  BY <3>2, <2>2, <1>18 DEF FreeOK
  <2> QED  BY <2>1, <2>2
<1>22. CallOK(D, own2, pos)'
  <2>1. CASE CreateOK(D, own, pos) /\ op \in Creates
    BY <2>1, <1>18 DEF CreateOK, CallOK
  <2>2. CASE UnlinkOK(D) /\ op \in Unlinks /\ op.call = "unlink"
    <3>1. EntriesOf(D)' = EntriesOf(D)
      BY <1>19 DEF SameEntries
    <3> QED  BY <3>1, <2>2, <1>1, <1>18 DEF UnlinkOK, CallOK
  <2> QED  BY <2>1, <2>2, <1>17
<1>23. NoLeak(own2)'
  <2>1. Taken = {}
    BY <1>1 DEF Taken
  <2>2. NoLeak(own)
    BY DEF Holds
  <2>3. \A x \in Cluster : fat'[x] # FREE => x # c /\ fat[x] # FREE
    BY <1>3, <1>4 DEF DiskTypes
  <2> QED  BY <2>1, <2>2, <2>3, <1>1, <1>11 DEF NoLeak
<1>24. Holds(D, own2, pos, dep)'
  BY <1>19, <1>20, <1>21, <1>22, <1>23 DEF Holds
<1> QED  BY <1>5, <1>24

LEMMA MountedFits ==
    ASSUME NEW D, NEW own, NEW ca, ca = JustMounted
    PROVE  CacheFits(ca, {}, D) /\ ChildrenFit(ca, own) /\ WholeFits(ca, {}, D, own)
<1>1. /\ DOMAIN ca = {Root} /\ ca[Root] = NewNode("/", DIR, 0, 0, Root) /\ ca \in [{Root} -> {ca[Root]}]
  BY DEF JustMounted
<1>2. NewNode("/", DIR, 0, 0, Root) \in Nodes
  <2>1. {} \in SUBSET Place /\ FALSE \in BOOLEAN /\ "/" \in AnyName /\ 0 \in Nat
    BY DEF AnyName
  <2> QED  BY <2>1 DEF NewNode, Nodes
<1>3. ca[Root].children_loaded = FALSE /\ ca[Root].children = {} /\ ca[Root].type = DIR /\ ca[Root].first_cluster = 0
  BY <1>1 DEF NewNode
<1>4. CacheFits(ca, {}, D)
  BY <1>1, <1>2, <1>3 DEF CacheFits
<1> QED  BY <1>1, <1>3, <1>4 DEF ChildrenFit, WholeFits

LEMMA CrashStep ==
    ASSUME lost \in BOOLEAN, DiskTypes, NEW D, NEW own, NEW pos, NEW dep, Holds(D, own, pos, dep), Crash
    PROVE  lost' \in BOOLEAN /\ DiskTypes' /\ \E own2 : Holds(D, own2, pos, dep)'
<1>1. fat' = fat /\ unit' = unit /\ cache' = JustMounted /\ op' = Idle /\ op'.pc = "idle"
      /\ lost' = (lost \/ op # Idle)
  BY DEF Crash, disk, Idle
<1>2. DiskOK(D, own, pos, dep) /\ WitnessTypes(D, own, pos, dep) /\ D \subseteq Cluster
  BY DEF Holds, DiskOK, WitnessTypes
<1>3. PICK R : R = {x \in Cluster : own[x] = Freeing}
  OBVIOUS
<1>4. PICK own2 : own2 = [x \in Cluster |-> IF x \in R THEN None ELSE own[x]]
  OBVIOUS
<1>5. DiskOK(D, own2, pos, dep)
  BY <1>2, <1>3, <1>4, Release
<1>6. DiskTypes' /\ Untouched(D, own2)
  BY <1>1, SameIsUntouched DEF DiskTypes
<1>7. DiskOK(D, own2, pos, dep)' /\ SameEntries(D)
  BY <1>5, <1>6, DiskStays
<1>8. CacheOK(D, own2)'
  <2>1. PICK ca : ca = JustMounted
    OBVIOUS
  <2>2. CacheFits(ca, {}, D) /\ ChildrenFit(ca, own2) /\ WholeFits(ca, {}, D, own2)
    BY <2>1, MountedFits
  <2>3. Gone' = {}
    BY <1>1 DEF Gone
  <2> QED  BY <2>1, <2>2, <2>3, <1>1, <1>7, CacheBecomes
<1>9. \A x \in Cluster : own2[x] # Freeing
  <2>1. None # Freeing
    BY <1>2, OwnersAreNames
  <2> QED  BY <2>1, <1>3, <1>4
<1>10. AllocOK(D, own2)' /\ FreeOK(own2, pos)' /\ CallOK(D, own2, pos)'
  BY <1>1, <1>9 DEF AllocOK, FreeOK, CallOK
<1>11. NoLeak(own2)'
  <2> SUFFICES ASSUME ~ lost', NEW x \in Cluster, fat'[x] # FREE  PROVE own2[x] # None
    BY DEF NoLeak
  <2>1. op = Idle /\ ~ lost
    BY <1>1
  <2>2. own[x] # None /\ own[x] # Freeing
    BY <2>1, <1>1, WhenIdle DEF NoLeak
  <2> QED  BY <2>2, <1>3, <1>4
<1>12. Holds(D, own2, pos, dep)'
  BY <1>7, <1>8, <1>10, <1>11 DEF Holds
<1>13. lost' \in BOOLEAN
  BY <1>1
<1> QED  BY <1>6, <1>12, <1>13

-----------------------------------------------------------------------------
(* An entry is changed where it stands. *)

LEMMA EditFacts ==
    ASSUME DiskTypes, NEW D, D \subseteq Cluster, NEW n \in EntriesOf(D), NEW e \in Entries,
           e.type = At(n).type, unit' = Put(n, e), fat' = fat, ParseOK(D)
    PROVE  /\ DiskTypes' /\ ParseOK(D)' /\ EntriesOf(D)' = EntriesOf(D) /\ Owners(D)' = Owners(D)
           /\ At(n)' = e /\ \A p \in EntriesOf(D) : p # n => At(p)' = At(p)
           /\ \A p \in Owners(D) : IsDir(p)' = IsDir(p)
           /\ \A x \in Cluster : x \notin D => unit'[x] = unit[x]
<1>1. n[1] \in D /\ n[2] \in Offset /\ n = <<n[1], n[2]>> /\ At(n).kind = "entry" /\ n[1] \in Cluster
  BY DEF EntriesOf
<1>2. unit \in [Cluster -> [Offset -> Units]]
  BY DEF DiskTypes
<1>3. unit' = [unit EXCEPT ![n[1]] = [unit[n[1]] EXCEPT ![n[2]] = e]]
  BY DEF Put
<1>4. unit'[n[1]] = [unit[n[1]] EXCEPT ![n[2]] = e] /\ \A x \in Cluster : x # n[1] => unit'[x] = unit[x]
  BY <1>1, <1>2, <1>3
<1>5. /\ unit'[n[1]][n[2]] = e
      /\ \A u \in Offset : u # n[2] => unit'[n[1]][u] = unit[n[1]][u]
  BY <1>1, <1>2, <1>4
<1>6. e \in Units /\ e.kind = "entry"
  BY DEF Units, Entries
<1>7. DiskTypes'
  <2>1. unit'[n[1]] \in [Offset -> Units]
    BY <1>1, <1>2, <1>4, <1>6
  <2>2. unit' \in [Cluster -> [Offset -> Units]]
    BY <1>1, <1>2, <1>3, <1>4, <2>1
  <2> QED  BY <2>2 DEF DiskTypes
<1>8. ASSUME NEW p \in D \X Offset, p # n  PROVE At(p)' = At(p)
  <2>1. p[1] \in Cluster /\ p[2] \in Offset /\ p = <<p[1], p[2]>>
    BY <1>8
  <2>2. p[1] # n[1] \/ p[2] # n[2]
    BY <2>1, <1>1, <1>8
  <2> QED  BY <2>1, <2>2, <1>1, <1>4, <1>5 DEF At
<1>9. At(n)' = e
  BY <1>5 DEF At
<1>10. EntriesOf(D)' = EntriesOf(D)
  <2>1. EntriesOf(D)' = {p \in D \X Offset : At(p)'.kind = "entry"}
    BY DEF EntriesOf
  <2>2. \A p \in D \X Offset : At(p)'.kind = "entry" <=> At(p).kind = "entry"
    BY <1>1, <1>6, <1>8, <1>9
  <2> QED  BY <2>1, <2>2 DEF EntriesOf
<1>11. Owners(D)' = Owners(D)
  BY <1>10 DEF Owners
<1>12. \A p \in EntriesOf(D) : p # n => At(p)' = At(p)
  BY <1>8 DEF EntriesOf
<1>13. \A p \in Owners(D) : IsDir(p)' = IsDir(p)
  <2> SUFFICES ASSUME NEW p \in Owners(D)  PROVE IsDir(p)' = IsDir(p)
    OBVIOUS
  <2>1. CASE p = Root
    BY <2>1 DEF IsDir
  <2>2. CASE p # Root
    <3>1. At(p)'.type = At(p).type
      BY <2>2, <1>9, <1>12 DEF Owners
    <3> QED  BY <3>1, <2>2 DEF IsDir
  <2> QED  BY <2>1, <2>2
<1>14. \A x \in Cluster, u \in Offset :
          /\ unit'[x][u] = Zero <=> unit[x][u] = Zero
          /\ unit'[x][u].kind = unit[x][u].kind
  <2>1. unit[n[1]][n[2]].kind = "entry" /\ unit[n[1]][n[2]] # Zero /\ e # Zero
    BY <1>1, <1>6 DEF At, Zero
  <2> SUFFICES ASSUME NEW x \in Cluster, NEW u \in Offset
               PROVE  /\ unit'[x][u] = Zero <=> unit[x][u] = Zero
                      /\ unit'[x][u].kind = unit[x][u].kind
    OBVIOUS
  <2>2. CASE x = n[1] /\ u = n[2]
    BY <2>1, <2>2, <1>5, <1>6
  <2>3. CASE ~ (x = n[1] /\ u = n[2])
    <3>1. unit'[x][u] = unit[x][u]
      BY <2>3, <1>4, <1>5
    <3> QED  BY <3>1
  <2> QED  BY <2>2, <2>3
<1>15. ParseOK(D)'
  <2>1. \A c \in D : c \in Cluster
    OBVIOUS
  <2> QED  BY <2>1, <1>14 DEF ParseOK, Parses
<1>16. \A x \in Cluster : x \notin D => unit'[x] = unit[x]
  BY <1>1, <1>4
<1> QED  BY <1>7, <1>9, <1>10, <1>11, <1>12, <1>13, <1>15, <1>16

LEMMA FileIsNoDir ==
    ASSUME NEW D, D \subseteq Cluster, NEW own, DirsOK(D, own), NEW p \in EntriesOf(D), At(p).type = FILE,
           NEW x \in Cluster, own[x] = p
    PROVE  x \notin D
<1>1. p \in Owners(D) /\ p # None /\ ~ IsDir(p)
  <2>1. p \in Owners(D) /\ (IsDir(p) <=> At(p).type = DIR)
    BY EntryOwner
  <2> QED  BY <2>1, OwnersAreNames DEF FILE, DIR
<1> QED  BY <1>1 DEF DirsOK

\* What stays when a node gets another size or first cluster.
LEMMA NodeEdited ==
    ASSUME NEW ca, DOMAIN ca = DOMAIN cache,
           \A x \in DOMAIN cache :
             /\ ca[x].type = cache[x].type /\ ca[x].parent = cache[x].parent
             /\ ca[x].children = cache[x].children /\ ca[x].children_loaded = cache[x].children_loaded,
           NEW own, NEW gone, NEW D
    PROVE  /\ ChildrenFit(cache, own) => ChildrenFit(ca, own)
           /\ WholeFits(cache, gone, D, own) => WholeFits(ca, gone, D, own)
<1>1. Known(ca) = Known(cache)
  BY DEF Known
<1>2. ASSUME ChildrenFit(cache, own)  PROVE ChildrenFit(ca, own)
  BY <1>1, <1>2 DEF ChildrenFit
<1>3. ASSUME WholeFits(cache, gone, D, own)  PROVE WholeFits(ca, gone, D, own)
  BY <1>3 DEF WholeFits
<1> QED  BY <1>2, <1>3

LEMMA UpdateStep ==
    ASSUME DiskTypes, NEW D, NEW own, NEW pos, NEW dep, Holds(D, own, pos, dep), UpdateSize
    PROVE  DiskTypes' /\ Holds(D, own, pos, dep)'
<1>1. op.pc = "size" /\ op # Idle /\ fat' = fat /\ lost' = lost /\ op' = Idle /\ op'.pc = "idle"
  BY DEF UpdateSize, Idle
<1>2. WriteOK(D, own, pos) /\ op \in Writes /\ op.call = "write"
  <2>1. op \notin Creates /\ op \notin Unlinks
    BY <1>1 DEF Creates, Unlinks
  <2> QED  BY <2>1, <1>1, CallKinds DEF Holds
<1>3. Along(own, pos)
  BY <1>1, <1>2 DEF WriteOK, InChain
<1>4. PICK n : n = op.node
  OBVIOUS
<1>5. PICK end : end = file_offset
  OBVIOUS
<1>6. /\ n \in EntriesOf(D) /\ n \in Owners(D) /\ n \in DOMAIN cache \ {Root} /\ n # None
      /\ Agrees(cache, n) /\ At(n).type = FILE /\ At(n) \in Entries
      /\ Gone = {} /\ D \subseteq Cluster /\ First(n) = At(n).first
  BY <1>2, <1>4, WriteWorksOn
<1>7. end \in Nat
  BY <1>2, <1>5 DEF Writes, file_offset
<1>8. DiskOK(D, own, pos, dep) /\ CacheOK(D, own)
  BY DEF Holds
<1>9. AllocOK(D, own)' /\ FreeOK(own, pos)' /\ CallOK(D, own, pos)'
  BY <1>1 DEF Holds, AllocOK, FreeOK, CallOK
<1>10. NoLeak(own)'
  <2>1. Taken = {}
    BY <1>1, <1>2 DEF Taken
  <2> QED  BY <2>1, <1>1 DEF Holds, NoLeak
<1>11. Gone' = {}
  BY <1>1 DEF Gone
<1>12. CASE ~ (file_offset > cache[op.node].file_size)
  <2>1. unit' = unit /\ cache' = cache
    BY <1>12 DEF UpdateSize
  <2>2. DiskTypes' /\ Untouched(D, own)
    BY <2>1, <1>1, SameIsUntouched DEF DiskTypes
  <2>3. DiskOK(D, own, pos, dep)' /\ SameEntries(D) /\ CacheOK(D, own)'
    BY <2>1, <2>2, <1>1, <1>6, <1>8, <1>11, QuietStep
  <2> QED  BY <2>2, <2>3, <1>9, <1>10 DEF Holds
<1>13. CASE file_offset > cache[op.node].file_size
  <2>1. PICK e : e = [At(n) EXCEPT !.size = end]
    OBVIOUS
  <2>2. /\ e \in Entries /\ e.type = At(n).type /\ e.first = At(n).first /\ e.name = At(n).name
        /\ e.size = end
    BY <2>1, <1>6, <1>7 DEF Entries
  <2>3. unit' = Put(n, e) /\ cache' = [cache EXCEPT ![n].file_size = end]
    <3>1. unit' = Put(op.node, [At(op.node) EXCEPT !.size = file_offset])
          /\ cache' = [cache EXCEPT ![op.node].file_size = file_offset]
      BY <1>13 DEF UpdateSize
    <3> QED  BY <3>1, <2>1, <1>4, <1>5
  <2>4. ParseOK(D)
    BY <1>8 DEF DiskOK
  <2>5. /\ DiskTypes' /\ ParseOK(D)' /\ EntriesOf(D)' = EntriesOf(D) /\ Owners(D)' = Owners(D)
        /\ At(n)' = e /\ \A p \in EntriesOf(D) : p # n => At(p)' = At(p)
        /\ \A p \in Owners(D) : IsDir(p)' = IsDir(p)
        /\ \A x \in Cluster : x \notin D => unit'[x] = unit[x]
    BY <2>2, <2>3, <2>4, <1>1, <1>6, EditFacts
  <2>6. ASSUME NEW p \in Owners(D)  PROVE First(p)' = First(p)
    <3>1. CASE p = Root
      BY <3>1 DEF First
    <3>2. CASE p # Root
      <4>1. p \in EntriesOf(D)
        BY <3>2 DEF Owners
      <4>2. At(p)'.first = At(p).first
        BY <4>1, <2>2, <2>5
      <4> QED  BY <4>2, <3>2 DEF First
    <3> QED  BY <3>1, <3>2
  <2>7. WitnessTypes(D, own, pos, dep)'
    BY <1>8 DEF DiskOK, WitnessTypes
  <2>8. LinksOK(D, own, pos)'
    BY <2>5, <1>1, <1>8 DEF DiskOK, LinksOK, Linked
  <2>9. HeadsOK(D, own, pos)'
    BY <2>5, <2>6, <1>8 DEF DiskOK, HeadsOK
  <2>10. DirsOK(D, own)'
    BY <2>5, <1>1, <1>6, <1>8 DEF DiskOK, DirsOK
  <2>11. At(n).first # 0
    <3>1. own[op.cluster] = n /\ op.cluster \in Cluster
      BY <1>3, <1>4 DEF Along
    <3>2. First(n) # 0
      BY <3>1, <1>6, <1>8 DEF DiskOK, HeadsOK
    <3> QED  BY <3>2, <1>6
  <2>12. EntriesOK(D)'
    <3> SUFFICES ASSUME NEW p \in EntriesOf(D)
                 PROVE  /\ At(p)'.type = DIR => At(p)'.first # 0
                        /\ At(p)'.first = 0 => At(p)'.size = 0
      BY <2>5 DEF EntriesOK
    <3>1. CASE p = n
      BY <3>1, <2>2, <2>5, <2>11
    <3>2. CASE p # n
      BY <3>2, <2>5, <1>8 DEF DiskOK, EntriesOK
    <3> QED  BY <3>1, <3>2
  <2>13. DataOK(D, own, pos)'
    <3> SUFFICES ASSUME NEW p \in EntriesOf(D), At(p)'.type = FILE, NEW c \in Cluster, own[c] = p
                 PROVE  (HoldsUpTo(c, pos, At(p).name, At(p).size) /\ EndsWithin(c, pos, At(p).size))'
      BY <2>5 DEF DataOK
    <3>1. At(p).type = FILE
      BY <2>2, <2>5
    <3>2. c \notin D
      BY <3>1, <1>6, <1>8, FileIsNoDir DEF DiskOK
    <3>3. unit'[c] = unit[c]
      BY <3>2, <2>5
    <3>4. CASE p = n
      <4>1. HoldsUpTo(c, pos, At(n).name, end) /\ EndsWithin(c, pos, end)
        BY <3>4, <1>3, <1>4, <1>5 DEF Along
      <4>2. At(p)'.name = At(n).name /\ At(p)'.size = end
        BY <3>4, <2>2, <2>5
      <4> QED  BY <4>1, <4>2, <3>3, <1>1 DEF HoldsUpTo, EndsWithin
    <3>5. CASE p # n
      <4>1. At(p)' = At(p)
        BY <3>5, <2>5
      <4>2. HoldsUpTo(c, pos, At(p).name, At(p).size) /\ EndsWithin(c, pos, At(p).size)
        BY <3>1, <1>8 DEF DiskOK, DataOK
      <4> QED  BY <4>1, <4>2, <3>3, <1>1 DEF HoldsUpTo, EndsWithin
    <3> QED  BY <3>4, <3>5
  <2>14. DepthOK(D, own, dep)'
    BY <2>5, <1>8 DEF DiskOK, DepthOK
  <2>15. DiskOK(D, own, pos, dep)'
    BY <2>5, <2>7, <2>8, <2>9, <2>10, <2>12, <2>13, <2>14 DEF DiskOK
  <2>16. CacheOK(D, own)'
    <3>1. CacheFits(cache, {}, D) /\ ChildrenFit(cache, own) /\ (~ lost => WholeFits(cache, {}, D, own))
      BY <1>6, <1>8 DEF CacheOK
    <3>2. PICK ca : ca = [cache EXCEPT ![n].file_size = end]
      OBVIOUS
    <3>3. cache[n] \in Nodes /\ \A x \in DOMAIN cache : cache[x] \in Nodes
      BY <3>1, <1>6 DEF CacheFits
    <3>4. DOMAIN ca = DOMAIN cache /\ ca[n] = [cache[n] EXCEPT !.file_size = end]
          /\ \A x \in DOMAIN cache : x # n => ca[x] = cache[x]
      BY <3>2, <1>6
    <3>5. /\ ca[n] \in Nodes /\ ca[n].type = cache[n].type /\ ca[n].parent = cache[n].parent
          /\ ca[n].children = cache[n].children /\ ca[n].children_loaded = cache[n].children_loaded
          /\ ca[n].first_cluster = cache[n].first_cluster /\ ca[n].file_size = end
      BY <3>3, <3>4, <1>7 DEF Nodes
    <3>6. \A x \in DOMAIN cache :
             /\ ca[x].type = cache[x].type /\ ca[x].parent = cache[x].parent
             /\ ca[x].children = cache[x].children /\ ca[x].children_loaded = cache[x].children_loaded
      BY <3>4, <3>5
    <3>7. ChildrenFit(ca, own) /\ (~ lost => WholeFits(ca, {}, D, own))
      BY <3>1, <3>4, <3>6, NodeEdited
    <3>8. cache' = ca
      BY <3>2, <2>3
    <3>9. CacheFits(cache, Gone, D)'
      <4>1. ca \in [DOMAIN ca -> Nodes]
        BY <3>2, <3>3, <3>4, <3>5
      <4>2. Root \in DOMAIN ca /\ ca[Root].type = DIR /\ ca[Root].first_cluster = 0
        BY <3>1, <3>4, <1>6 DEF CacheFits
      <4>3. \A x \in DOMAIN ca : x # Root => x \in EntriesOf(D) /\ ca[x].type = At(x)'.type
                /\ ca[x].first_cluster = At(x)'.first /\ ca[x].file_size = At(x)'.size
        <5> SUFFICES ASSUME NEW x \in DOMAIN ca, x # Root
                     PROVE  x \in EntriesOf(D) /\ ca[x].type = At(x)'.type
                /\ ca[x].first_cluster = At(x)'.first /\ ca[x].file_size = At(x)'.size
          OBVIOUS
        <5>1. x \in EntriesOf(D) /\ Agrees(cache, x)
          BY <3>1, <3>4 DEF CacheFits
        <5>2. CASE x = n
          BY <5>1, <5>2, <3>5, <2>2, <2>5 DEF Agrees
        <5>3. CASE x # n
          BY <5>1, <5>3, <3>4, <2>5 DEF Agrees
        <5> QED  BY <5>2, <5>3
      <4> QED  BY <4>1, <4>2, <4>3, <3>8, <2>5 DEF CacheFits, Agrees
    <3>10. ChildrenFit(cache, own)'
      BY <3>7, <3>8 DEF ChildrenFit, Known
    <3>11. ~ lost' => WholeFits(cache, Gone, D, own)'
      BY <3>7, <3>8, <2>5, <1>1, <1>11 DEF WholeFits
    <3> QED  BY <3>9, <3>10, <3>11 DEF CacheOK
  <2> QED  BY <2>5, <2>15, <2>16, <1>9, <1>10 DEF Holds
<1> QED  BY <1>12, <1>13

\* Where in its cluster a sector's share of the data goes.
LEMMA SectorRange ==
    ASSUME NEW d \in Offset, NEW left \in Nat,
           NEW sector_off, sector_off = d % UnitsPerSector,
           NEW copy_n, copy_n = IF left < UnitsPerSector - sector_off
                                THEN left ELSE UnitsPerSector - sector_off
    PROVE  /\ (d \div UnitsPerSector) * UnitsPerSector + sector_off = d
           /\ copy_n \in Nat /\ copy_n <= left /\ d + copy_n <= UnitsPerClus
<1> DEFINE p == UnitsPerSector
           a == d \div p
<1>1. p \in Nat \ {0} /\ d \in Nat /\ sectors_per_clus \in Nat /\ UnitsPerClus = sectors_per_clus * p
  BY ClusterSize DEF Offset, UnitsPerClus
<1>2. a \in Nat /\ sector_off \in Nat /\ d = p * a + sector_off /\ sector_off < p
  BY <1>1, DivMod
<1>3. a + 1 <= sectors_per_clus /\ a \in Int
  BY <1>1, <1>2, SectorOf
<1> HIDE DEF a
<1>4. p * (a + 1) <= p * sectors_per_clus
  <2>1. a + 1 \in Int /\ sectors_per_clus \in Int /\ p \in Nat
    BY <1>1, <1>2
  <2> QED  BY ONLY <2>1, <1>3, TimesMonotone
<1>5. p * (a + 1) = p * a + p /\ p * sectors_per_clus = sectors_per_clus * p /\ a * p = p * a
      /\ p * a \in Nat /\ p * sectors_per_clus \in Nat
  BY <1>1, <1>2
<1>6. copy_n \in Nat /\ copy_n <= left /\ copy_n <= p - sector_off
  BY <1>1, <1>2
<1> HIDE DEF p
<1>7. d + copy_n <= UnitsPerClus
  BY <1>1, <1>2, <1>4, <1>5, <1>6
<1>8. a * p + sector_off = d
  BY <1>1, <1>2, <1>5
<1> QED  BY <1>6, <1>7, <1>8 DEF a, p

LEMMA SectorStep ==
    ASSUME DiskTypes, NEW D, NEW own, NEW pos, NEW dep, Holds(D, own, pos, dep), WriteSector
    PROVE  DiskTypes' /\ Holds(D, own, pos, dep)'
<1>1. op.pc = "walk" /\ op # Idle /\ op.call = "write" /\ ~ Beyond /\ fat' = fat /\ cache' = cache /\ lost' = lost
  BY DEF WriteSector, Idle
<1>2. WriteOK(D, own, pos) /\ op \in Writes
  BY <1>1, CallKinds DEF Holds
<1>3. Along(own, pos)
  BY <1>1, <1>2 DEF WriteOK, InChain
<1>4. PICK n : n = op.node
  OBVIOUS
<1>5. PICK c : c = op.cluster
  OBVIOUS
<1>6. PICK fo : fo = file_offset
  OBVIOUS
<1>7. PICK base : base = op.clus_base
  OBVIOUS
<1>8. PICK name : name = At(n).name
  OBVIOUS
<1>9. /\ n \in EntriesOf(D) /\ n # None /\ n \in Owners(D)
      /\ At(n).type = FILE /\ At(n) \in Entries /\ n[1] \in D /\ n[2] \in Offset
      /\ Gone = {} /\ D \subseteq Cluster /\ \A x \in Cluster : own[x] = n => x \notin D
  BY <1>2, <1>4, WriteWorksOn
<1>10. fo \in Nat /\ base \in Nat /\ op.len \in Nat /\ op.written \in Nat /\ op.written <= op.len /\ op.offset \in Nat
  BY <1>2, <1>6, <1>7 DEF Writes, WriteOK, file_offset
<1>11. /\ c \in Cluster /\ own[c] = n /\ base = pos[c] * UnitsPerClus /\ base <= fo
       /\ \A x \in Cluster : own[x] = n => HoldsUpTo(x, pos, name, fo) /\ EndsWithin(x, pos, fo)
  BY <1>3, <1>4, <1>5, <1>6, <1>7, <1>8 DEF Along
<1>12. DiskOK(D, own, pos, dep) /\ CacheOK(D, own) /\ WitnessTypes(D, own, pos, dep) /\ LinksOK(D, own, pos)
  BY DEF Holds, DiskOK
<1>13. UnitsPerClus \in Nat /\ \A x \in Cluster : pos[x] \in Nat
  BY <1>12, ClusterSize DEF WitnessTypes
<1>14. fo - base \in Offset /\ fo < base + UnitsPerClus
  <2>1. ~ (base + UnitsPerClus <= fo)
    BY <1>1, <1>6, <1>7 DEF Beyond
  <2> QED  BY <2>1, <1>10, <1>11, <1>13 DEF Offset
<1>15. PICK sector_off : sector_off = (fo - base) % UnitsPerSector
  OBVIOUS
<1>16. PICK left : left = op.len - op.written
  OBVIOUS
<1>17. PICK copy_n : copy_n = IF left < UnitsPerSector - sector_off THEN left ELSE UnitsPerSector - sector_off
  OBVIOUS
<1>18. left \in Nat
  BY <1>10, <1>16
<1>19. /\ ((fo - base) \div UnitsPerSector) * UnitsPerSector + sector_off = fo - base
       /\ copy_n \in Nat /\ copy_n <= left /\ fo - base + copy_n <= UnitsPerClus
  BY <1>14, <1>15, <1>17, <1>18, SectorRange
<1>20. /\ unit' = [unit EXCEPT ![c] =
                     [u \in Offset |-> IF u \in fo - base .. fo - base + copy_n - 1
                                       THEN Data(name, fo + u - (fo - base)) ELSE unit[c][u]]]
       /\ op' = [op EXCEPT !.written = op.written + copy_n,
                           !.pc = IF op.written + copy_n = op.len THEN "size" ELSE "walk"]
  <2>1. SectorIdx * UnitsPerSector + sector_off = fo - base
    BY <1>6, <1>7, <1>19 DEF SectorIdx
  <2> QED  BY <2>1, <1>4, <1>5, <1>6, <1>7, <1>8, <1>15, <1>16, <1>17 DEF WriteSector
<1>21. \A x \in Cluster : x # c => unit'[x] = unit[x]
  BY <1>20 DEF DiskTypes
<1>22. unit'[c] = [u \in Offset |-> IF u \in fo - base .. fo - base + copy_n - 1
                                    THEN Data(name, fo + u - (fo - base)) ELSE unit[c][u]]
  BY <1>11, <1>20 DEF DiskTypes
<1>23. ASSUME NEW u \in Offset
       PROVE  /\ u < fo - base => unit'[c][u] = unit[c][u]
              /\ u >= fo - base /\ u < fo - base + copy_n => unit'[c][u] = Data(name, base + u)
              /\ u >= fo - base + copy_n => unit'[c][u] = unit[c][u]
              /\ unit'[c][u] = unit[c][u] \/ unit'[c][u] = Data(name, base + u)
  <2>1. u \in Nat
    BY DEF Offset
  <2>2. fo + u - (fo - base) = base + u
    BY <2>1, <1>10
  <2>3. unit'[c][u] = IF u \in fo - base .. fo - base + copy_n - 1 THEN Data(name, base + u) ELSE unit[c][u]
    BY <2>2, <1>22
  <2>4. u \in fo - base .. fo - base + copy_n - 1 <=> (u >= fo - base /\ u < fo - base + copy_n)
    BY <2>1, <1>10, <1>19
  <2> QED  BY <2>1, <2>3, <2>4, <1>10, <1>19
<1>24. DiskTypes'
  <2>1. name \in Names
    BY <1>8, <1>9 DEF Entries
  <2>2. \A u \in Offset : Data(name, base + u) \in Units
    <3>1. \A u \in Offset : base + u \in Nat
      BY <1>10 DEF Offset
    <3> QED  BY <3>1, <2>1 DEF Data, Units
  <2>3. \A u \in Offset : unit[c][u] \in Units
    BY <1>11 DEF DiskTypes
  <2>4. unit'[c] \in [Offset -> Units]
    <3>1. \A u \in Offset : unit'[c][u] \in Units
      BY <2>2, <2>3, <1>23
    <3> QED  BY <3>1, <1>22
  <2>5. unit' \in [Cluster -> [Offset -> Units]]
    <3>1. unit' = [unit EXCEPT ![c] = unit'[c]]
      BY <1>11, <1>20, <1>22 DEF DiskTypes
    <3> QED  BY <3>1, <2>4 DEF DiskTypes
  <2> QED  BY <2>5, <1>1 DEF DiskTypes
<1>25. SameEntries(D)
  <2>1. \A p \in D \X Offset : At(p)' = At(p)
    BY <1>9, <1>11, <1>21 DEF At
  <2>2. EntriesOf(D)' = {p \in D \X Offset : At(p)'.kind = "entry"}
    BY DEF EntriesOf
  <2> QED  BY <2>1, <2>2 DEF EntriesOf, SameEntries
<1>26. At(n)' = At(n)
  BY <1>9, <1>25 DEF SameEntries, EntriesOf
<1>27. /\ Owners(D)' = Owners(D)
       /\ \A p \in Owners(D) : First(p)' = First(p) /\ IsDir(p)' = IsDir(p)
  BY <1>9, <1>25, OwnersStay
<1>28. ASSUME NEW x \in Cluster, own[x] = n, NEW end \in Nat, HoldsUpTo(x, pos, name, end)
       PROVE  HoldsUpTo(x, pos, name, end)'
  <2>1. CASE x = c
    <3>1. ASSUME NEW u \in Offset, pos[c] * UnitsPerClus + u < end
          PROVE  unit'[c][u] = Data(name, pos[c] * UnitsPerClus + u)
      <4>1. unit[c][u] = Data(name, pos[c] * UnitsPerClus + u)
        BY <3>1, <2>1, <1>28 DEF HoldsUpTo
      <4> QED  BY <4>1, <1>11, <1>23
    <3> QED  BY <3>1, <2>1 DEF HoldsUpTo
  <2>2. CASE x # c
    BY <2>2, <1>21, <1>28 DEF HoldsUpTo
  <2> QED  BY <2>1, <2>2
<1>29. DiskOK(D, own, pos, dep)'
  <2>1. WitnessTypes(D, own, pos, dep)'
    BY <1>12 DEF WitnessTypes
  <2>2. LinksOK(D, own, pos)'
    BY <1>1, <1>12, <1>27 DEF LinksOK, Linked
  <2>3. HeadsOK(D, own, pos)'
    BY <1>12, <1>27 DEF DiskOK, HeadsOK
  <2>4. DirsOK(D, own)'
    BY <1>1, <1>9, <1>12, <1>27 DEF DiskOK, DirsOK
  <2>5. EntriesOK(D)'
    <3>1. EntriesOK(D) /\ EntriesOf(D) \subseteq D \X Offset
      BY <1>12 DEF DiskOK, EntriesOf
    <3> QED  BY <3>1, <1>25 DEF EntriesOK, SameEntries
  <2>6. ParseOK(D)'
    <3>1. ParseOK(D) /\ \A x \in D : unit'[x] = unit[x]
      BY <1>9, <1>11, <1>12, <1>21 DEF DiskOK
    <3> QED  BY <3>1, <1>1 DEF ParseOK, Parses
  <2>7. DataOK(D, own, pos)'
    <3> SUFFICES ASSUME NEW p \in EntriesOf(D), At(p)'.type = FILE, NEW x \in Cluster, own[x] = p
                 PROVE  (HoldsUpTo(x, pos, At(p).name, At(p).size) /\ EndsWithin(x, pos, At(p).size))'
      BY <1>25 DEF DataOK, SameEntries
    <3>1. At(p)' = At(p)
      BY <1>25 DEF SameEntries, EntriesOf
    <3>2. HoldsUpTo(x, pos, At(p).name, At(p).size) /\ EndsWithin(x, pos, At(p).size)
      BY <3>1, <1>12 DEF DiskOK, DataOK
    <3>3. CASE p = n
      <4>1. PICK end : end = At(n).size
        OBVIOUS
      <4>2. end \in Nat
        BY <4>1, <1>9 DEF Entries
      <4>3. HoldsUpTo(x, pos, name, end)'
        BY <4>1, <4>2, <3>2, <3>3, <1>8, <1>28
      <4> QED  BY <4>1, <4>3, <3>1, <3>2, <3>3, <1>1, <1>8 DEF HoldsUpTo, EndsWithin
    <3>4. CASE p # n
      <4>1. x # c
        BY <3>4, <1>11
      <4> QED  BY <4>1, <3>1, <3>2, <1>1, <1>21 DEF HoldsUpTo, EndsWithin
    <3> QED  BY <3>3, <3>4
  <2>8. DepthOK(D, own, dep)'
    BY <1>12, <1>25 DEF DiskOK, DepthOK, SameEntries
  <2> QED  BY <2>1, <2>2, <2>3, <2>4, <2>5, <2>6, <2>7, <2>8 DEF DiskOK
<1>30. /\ op' \in Writes /\ op'.call = "write" /\ op'.pc \in {"walk", "size"}
       /\ op'.node = n /\ op'.cluster = c /\ op'.clus_base = base /\ op'.len = op.len
       /\ op'.offset = op.offset /\ op'.written = op.written + copy_n
  <2>1. op.written + copy_n \in Nat
    BY <1>10, <1>19
  <2> QED  BY <2>1, <1>1, <1>2, <1>4, <1>5, <1>7, <1>20 DEF Writes
<1>31. CacheOK(D, own)'
  <2>1. Gone' = {}
    BY <1>30 DEF Gone
  <2> QED  BY <2>1, <1>1, <1>9, <1>12, <1>25, CacheStays
<1>32. AllocOK(D, own)' /\ FreeOK(own, pos)'
  BY <1>1, <1>30 DEF AllocOK, FreeOK, Holds
<1>33. NoLeak(own)'
  <2>1. Taken = {}
    BY <1>1 DEF Taken
  <2> QED  BY <2>1, <1>1 DEF Holds, NoLeak
<1>34. file_offset' = fo + copy_n
  BY <1>6, <1>10, <1>19, <1>30 DEF file_offset
<1>35. ASSUME NEW x \in Cluster, own[x] = n
       PROVE  HoldsUpTo(x, pos, name, fo + copy_n)' /\ EndsWithin(x, pos, fo + copy_n)'
  <2>1. PICK px : px = pos[x] * UnitsPerClus
    OBVIOUS
  <2>2. px \in Nat /\ pos[x] \in Nat /\ pos[c] \in Nat
    BY <2>1, <1>11, <1>13, <1>35
  <2>3. CASE x = c
    <3>1. ASSUME NEW u \in Offset, base + u < fo + copy_n  PROVE unit'[c][u] = Data(name, base + u)
      <4>1. u \in Nat
        BY DEF Offset
      <4>2. CASE u < fo - base
        <5>1. base + u < fo
          BY <4>1, <4>2, <1>10
        <5>2. unit[c][u] = Data(name, base + u)
          BY <5>1, <1>11 DEF HoldsUpTo
        <5> QED  BY <5>2, <4>2, <1>23
      <4>3. CASE ~ (u < fo - base)
        <5>1. u >= fo - base /\ u < fo - base + copy_n
          BY <4>1, <4>3, <3>1, <1>10, <1>19
        <5> QED  BY <5>1, <1>23
      <4> QED  BY <4>2, <4>3
    <3>2. fo + copy_n <= (pos[c] + 1) * UnitsPerClus
      <4>1. (pos[c] + 1) * UnitsPerClus = base + UnitsPerClus
        BY <2>2, <1>11, <1>13
      <4> QED  BY <4>1, <1>10, <1>13, <1>19
    <3> QED  BY <3>1, <3>2, <2>3, <1>11 DEF HoldsUpTo, EndsWithin
  <2>4. CASE x # c /\ pos[x] < pos[c]
    <3>1. px + UnitsPerClus <= base
      <4>1. UnitsPerClus * (pos[x] + 1) <= UnitsPerClus * pos[c]
        <5>1. pos[x] + 1 \in Int /\ pos[c] \in Int /\ pos[x] + 1 <= pos[c]
          BY <2>2, <2>4
        <5> QED  BY <5>1, <1>13, TimesMonotone
      <4>2. UnitsPerClus * (pos[x] + 1) = px + UnitsPerClus /\ UnitsPerClus * pos[c] = base
        BY <2>1, <2>2, <1>11, <1>13
      <4> QED  BY <4>1, <4>2
    <3>2. HoldsUpTo(x, pos, name, fo + copy_n)'
      <4>1. ASSUME NEW u \in Offset  PROVE unit'[x][u] = Data(name, px + u)
        <5>1. u \in Nat /\ u < UnitsPerClus
          BY <1>13 DEF Offset
        <5>2. px + u < fo
          BY <5>1, <3>1, <2>2, <1>10, <1>11, <1>13
        <5>3. unit[x][u] = Data(name, px + u)
          BY <5>2, <2>1, <1>11, <1>35 DEF HoldsUpTo
        <5> QED  BY <5>3, <2>4, <1>21
      <4> QED  BY <4>1, <2>1 DEF HoldsUpTo
    <3>3. fat'[x] # EOC
      BY <2>2, <2>4, <1>1, <1>9, <1>11, <1>12, <1>35 DEF LinksOK
    <3> QED  BY <3>2, <3>3 DEF EndsWithin
  <2>5. CASE x # c /\ ~ (pos[x] < pos[c])
    <3>1. pos[c] + 1 <= pos[x]
      <4>1. pos[x] # pos[c]
        BY <2>5, <1>9, <1>11, <1>12, <1>35 DEF LinksOK
      <4> QED  BY <4>1, <2>2, <2>5
    <3>2. base + UnitsPerClus <= px
      <4>1. UnitsPerClus * (pos[c] + 1) <= UnitsPerClus * pos[x]
        <5>1. pos[c] + 1 \in Int /\ pos[x] \in Int
          BY <2>2
        <5> QED  BY <5>1, <3>1, <1>13, TimesMonotone
      <4>2. UnitsPerClus * (pos[c] + 1) = base + UnitsPerClus /\ UnitsPerClus * pos[x] = px
        BY <2>1, <2>2, <1>11, <1>13
      <4> QED  BY <4>1, <4>2
    <3>3. fo + copy_n <= px
      BY <3>2, <2>2, <1>10, <1>13, <1>19
    <3>4. HoldsUpTo(x, pos, name, fo + copy_n)'
      <4>1. ASSUME NEW u \in Offset  PROVE ~ (px + u < fo + copy_n)
        <5>1. u \in Nat
          BY DEF Offset
        <5> QED  BY <5>1, <3>3, <2>2, <1>10, <1>19
      <4> QED  BY <4>1, <2>1 DEF HoldsUpTo
    <3>5. fo + copy_n <= (pos[x] + 1) * UnitsPerClus
      <4>1. (pos[x] + 1) * UnitsPerClus = px + UnitsPerClus
        BY <2>1, <2>2, <1>13
      <4> QED  BY <4>1, <3>3, <2>2, <1>10, <1>13, <1>19
    <3> QED  BY <3>4, <3>5 DEF EndsWithin
  <2> QED  BY <2>3, <2>4, <2>5
<1>36. WriteOK(D, own, pos)'
  <2>1. At(op.node)' = At(n)
    BY <1>26, <1>30 DEF At
  <2>2. \A x \in Cluster : own[x] = op'.node =>
            (HoldsUpTo(x, pos, At(op.node).name, file_offset) /\ EndsWithin(x, pos, file_offset))'
    <3>1. \A x \in Cluster : own[x] = n =>
            HoldsUpTo(x, pos, name, fo + copy_n)' /\ EndsWithin(x, pos, fo + copy_n)'
      BY <1>35
    <3> QED  BY <3>1, <2>1, <1>8, <1>30, <1>34 DEF HoldsUpTo, EndsWithin
  <2>3. base <= fo + copy_n
    BY <1>10, <1>11, <1>19
  <2>4. Along(own, pos)'
    BY <2>2, <2>3, <1>11, <1>30, <1>34 DEF Along
  <2>5. op'.written <= op'.len
    BY <1>10, <1>16, <1>19, <1>30
  <2>6. op'.node \in DOMAIN cache' \ {Root} /\ cache'[op'.node].type = FILE
    BY <1>1, <1>2, <1>4, <1>30 DEF WriteOK
  <2> QED  BY <2>4, <2>5, <2>6, <1>30 DEF WriteOK, InChain, Extends
<1> QED  BY <1>24, <1>29, <1>31, <1>32, <1>33, <1>36 DEF Holds, CallOK

-----------------------------------------------------------------------------
(* A chain gets a cluster. *)

\* Entries, and the chains that they lie in, are as they were.
KeepsEntries(D, own, D2, own2) ==
    /\ EntriesOf(D2)' = EntriesOf(D)
    /\ \A p \in EntriesOf(D) : At(p)' = At(p) /\ own2[p[1]] = own[p[1]]

LEMMA CacheKeeps ==
    ASSUME NEW D, NEW own, NEW D2, NEW own2, KeepsEntries(D, own, D2, own2),
           CacheOK(D, own), cache' = cache, Gone = {}, Gone' = {}, lost' = lost
    PROVE  CacheOK(D2, own2)'
<1>k. /\ EntriesOf(D2)' = EntriesOf(D)
      /\ \A p \in EntriesOf(D) : At(p)' = At(p) /\ own2[p[1]] = own[p[1]]
  BY DEF KeepsEntries
<1>1. CacheFits(cache, {}, D) /\ ChildrenFit(cache, own) /\ (~ lost => WholeFits(cache, {}, D, own))
  BY DEF CacheOK
<1>2. CacheFits(cache, Gone, D2)'
  BY <1>1, <1>k DEF CacheFits, Agrees
<1>3. ChildrenFit(cache, own2)'
  <2>1. ASSUME NEW d \in DOMAIN cache, NEW n \in cache[d].children  PROVE own2[n[1]] = own[n[1]]
    <3>1. n \in DOMAIN cache /\ n # Root
      BY <1>1, <2>1, ChildrenAreEntries DEF ChildrenFit
    <3> QED  BY <3>1, <1>1, <1>k DEF CacheFits
  <2> QED  BY <2>1, <1>1 DEF ChildrenFit, Known
<1>4. ~ lost' => WholeFits(cache, Gone, D2, own2)'
  BY <1>1, <1>k DEF WholeFits
<1> QED  BY <1>2, <1>3, <1>4 DEF CacheOK

AllHold(o, own, pos, name, end) ==
    \A x \in Cluster : own[x] = o => HoldsUpTo(x, pos, name, end) /\ EndsWithin(x, pos, end)

LEMMA ExtendHolds ==
    ASSUME NEW own, NEW pos, pos \in [Cluster -> Nat],
           NEW c \in Cluster, NEW o, own[c] = o, fat[c] = EOC, fat \in [Cluster -> Links],
           NEW m \in Cluster, own[m] # o,
           fat' = [fat EXCEPT ![c] = m], unit' = unit,
           NEW own2, own2 = [own EXCEPT ![m] = o], NEW pos2, pos2 = [pos EXCEPT ![m] = pos[c] + 1],
           NEW name, NEW end \in Nat, AllHold(o, own, pos, name, end)
    PROVE  AllHold(o, own2, pos2, name, end)'
<1> SUFFICES ASSUME NEW x \in Cluster, own2[x] = o
             PROVE  (HoldsUpTo(x, pos2, name, end) /\ EndsWithin(x, pos2, end))'
  BY DEF AllHold
<1>0. \A y \in Cluster : own[y] = o => HoldsUpTo(y, pos, name, end) /\ EndsWithin(y, pos, end)
  BY DEF AllHold
<1>1. m # c /\ UnitsPerClus \in Nat /\ pos[c] \in Nat
  BY ClusterSize
<1>2. CASE x = m
  <2>1. pos2[x] = pos[c] + 1
    BY <1>2
  <2>2. end <= (pos[c] + 1) * UnitsPerClus /\ (pos[c] + 1) * UnitsPerClus \in Nat
    BY <1>0, <1>1 DEF EndsWithin
  <2>3. \A u \in Offset : ~ ((pos[c] + 1) * UnitsPerClus + u < end)
    <3>1. \A u \in Offset : u \in Nat
      BY DEF Offset
    <3> QED  BY <3>1, <2>2
  <2>4. end <= (pos[c] + 1 + 1) * UnitsPerClus
    <3>1. (pos[c] + 1 + 1) * UnitsPerClus = (pos[c] + 1) * UnitsPerClus + UnitsPerClus
      BY <1>1
    <3> QED  BY <3>1, <2>2, <1>1
  <2> QED  BY <2>1, <2>3, <2>4 DEF HoldsUpTo, EndsWithin
<1>3. CASE x # m
  <2>1. own[x] = o /\ pos2[x] = pos[x]
    BY <1>3
  <2>2. HoldsUpTo(x, pos, name, end) /\ EndsWithin(x, pos, end)
    BY <1>0, <2>1
  <2>3. fat'[x] = EOC => fat[x] = EOC
    BY <1>1
  <2> QED  BY <2>1, <2>2, <2>3 DEF HoldsUpTo, EndsWithin
<1> QED  BY <1>2, <1>3

\* Cluster c, the last of o's, is linked to the emptied cluster m.
HangsOn(c, m, o, D, own, pos, dep) ==
    /\ DiskTypes /\ DiskOK(D, own, pos, dep)
    /\ c \in Cluster /\ o \in Owners(D) /\ own[c] = o /\ fat[c] = EOC
    /\ m \in Cluster \ D /\ own[m] = None /\ fat[m] = EOC /\ \A u \in Offset : unit[m][u] = Zero
    /\ IsDir(o) => FreeSlots(c) = {}
    /\ fat' = [fat EXCEPT ![c] = m] /\ unit' = unit
Joins(c, m, o, D, own, pos, dep, D2, own2, pos2, dep2) ==
    /\ D2 = IF IsDir(o) THEN D \union {m} ELSE D
    /\ own2 = [own EXCEPT ![m] = o]
    /\ pos2 = [pos EXCEPT ![m] = pos[c] + 1]
    /\ dep2 = [dep EXCEPT ![m] = dep[c]]

LEMMA ExtendDisk ==
    ASSUME NEW D, NEW own, NEW pos, NEW dep, NEW c, NEW m, NEW o, HangsOn(c, m, o, D, own, pos, dep),
           NEW D2, NEW own2, NEW pos2, NEW dep2,
           Joins(c, m, o, D, own, pos, dep, D2, own2, pos2, dep2)
    PROVE  DiskTypes' /\ DiskOK(D2, own2, pos2, dep2)' /\ KeepsEntries(D, own, D2, own2)
<1>a. /\ DiskTypes /\ DiskOK(D, own, pos, dep)
      /\ c \in Cluster /\ o \in Owners(D) /\ own[c] = o /\ fat[c] = EOC
      /\ m \in Cluster \ D /\ own[m] = None /\ fat[m] = EOC /\ \A u \in Offset : unit[m][u] = Zero
      /\ IsDir(o) => FreeSlots(c) = {}
      /\ fat' = [fat EXCEPT ![c] = m] /\ unit' = unit
  BY DEF HangsOn
<1>b. /\ D2 = IF IsDir(o) THEN D \union {m} ELSE D
      /\ own2 = [own EXCEPT ![m] = o]
      /\ pos2 = [pos EXCEPT ![m] = pos[c] + 1]
      /\ dep2 = [dep EXCEPT ![m] = dep[c]]
  BY DEF Joins
<1> USE <1>a, <1>b
<1>1. WitnessTypes(D, own, pos, dep) /\ D \subseteq Cluster
  BY DEF DiskOK, WitnessTypes
<1>2. /\ LinksOK(D, own, pos) /\ HeadsOK(D, own, pos) /\ DirsOK(D, own) /\ EntriesOK(D) /\ ParseOK(D)
      /\ DataOK(D, own, pos) /\ DepthOK(D, own, dep)
  BY DEF DiskOK
<1>3. o # None /\ o # Freeing /\ o \in Labels /\ None \notin Owners(D)
  BY <1>1, OwnersAreNames
<1>4. m # c /\ m # EOC /\ c # EOC
  BY <1>3 DEF EOC, Cluster
<1>5. /\ fat'[c] = m /\ fat'[m] = EOC /\ \A x \in Cluster : x # c => fat'[x] = fat[x]
      /\ fat' \in [Cluster -> Cluster \union {FREE, EOC}]
  BY <1>4 DEF DiskTypes
<1>6. DiskTypes'
  BY <1>5 DEF DiskTypes
<1>7. /\ own2[m] = o /\ \A x \in Cluster : x # m => own2[x] = own[x]
      /\ pos2[m] = pos[c] + 1 /\ \A x \in Cluster : x # m => pos2[x] = pos[x]
      /\ dep2[m] = dep[c] /\ \A x \in Cluster : x # m => dep2[x] = dep[x]
      /\ own2 \in [Cluster -> Labels] /\ pos2 \in [Cluster -> Nat] /\ dep2 \in [Cluster -> Nat]
      /\ pos \in [Cluster -> Nat]
  BY <1>1, <1>3 DEF WitnessTypes
<1>8. D2 \subseteq Cluster /\ D \subseteq D2 /\ \A x \in D2 : x \in D \/ x = m
  BY <1>1
<1>9. \A p \in Cluster \X Offset : At(p)' = At(p)
  BY DEF At
<1>10. \A u \in Offset : unit[m][u].kind # "entry"
  BY DEF Zero
<1>11. EntriesOf(D2)' = EntriesOf(D)
  <2>1. EntriesOf(D2)' = {p \in D2 \X Offset : At(p).kind = "entry"}
    BY DEF EntriesOf, At
  <2>2. \A p \in D2 \X Offset : At(p).kind = "entry" => p[1] # m
    BY <1>10 DEF At
  <2>3. \A p \in D2 \X Offset : At(p).kind = "entry" => p \in D \X Offset
    BY <2>2, <1>8
  <2> QED  BY <2>1, <2>3, <1>8 DEF EntriesOf
<1>12. Owners(D2)' = Owners(D)
  BY <1>11 DEF Owners
<1>13. \A p \in EntriesOf(D) : At(p)' = At(p) /\ own2[p[1]] = own[p[1]] /\ p[1] # m
  BY <1>1, <1>7, <1>9 DEF EntriesOf
<1>14. \A p \in Owners(D) : First(p)' = First(p) /\ IsDir(p)' = IsDir(p)
  BY <1>13 DEF Owners, First, IsDir
<1>15. LinksOK(D2, own2, pos2)'
  <2>1. \A x \in Cluster : own2[x] # None => own2[x] \in Owners(D2)' \union {Freeing}
    BY <1>2, <1>7, <1>12 DEF LinksOK
  <2>2. ASSUME NEW x \in Cluster, own2[x] # None  PROVE Linked(x, own2, pos2)'
    <3>1. CASE x = m
      BY <3>1, <1>5 DEF Linked
    <3>2. CASE x = c
      BY <3>2, <1>4, <1>5, <1>7 DEF Linked
    <3>3. CASE x # m /\ x # c
      <4>1. own[x] # None /\ Linked(x, own, pos)
        BY <3>3, <2>2, <1>2, <1>7 DEF LinksOK
      <4>2. fat[x] # EOC => fat[x] # m
        BY <4>1 DEF Linked
      <4> QED  BY <4>1, <4>2, <3>3, <1>5, <1>7 DEF Linked
    <3> QED  BY <3>1, <3>2, <3>3
  <2>3. \A x \in Cluster : own[x] = o => pos[x] <= pos[c]
    BY <1>2, <1>3 DEF LinksOK
  <2>4. \A x \in Cluster : pos[x] \in Nat
    BY <1>7
  <2>5. \A x, y \in Cluster : own2[x] # None /\ own2[x] = own2[y] /\ pos2[x] = pos2[y] => x = y
    <3> SUFFICES ASSUME NEW x \in Cluster, NEW y \in Cluster, own2[x] # None, own2[x] = own2[y], pos2[x] = pos2[y]
                 PROVE  x = y
      OBVIOUS
    <3>1. CASE x # m /\ y # m
      BY <3>1, <1>2, <1>7 DEF LinksOK
    <3>2. CASE x = m /\ y # m
      <4>1. own[y] = o /\ pos[y] = pos[c] + 1
        BY <3>2, <1>7
      <4> QED  BY <4>1, <2>3, <2>4
    <3>3. CASE y = m /\ x # m
      <4>1. own[x] = o /\ pos[x] = pos[c] + 1
        BY <3>3, <1>7
      <4> QED  BY <4>1, <2>3, <2>4
    <3> QED  BY <3>1, <3>2, <3>3
  <2>6. \A x, y \in Cluster : own2[x] # None /\ own2[x] = own2[y] /\ fat'[x] = EOC => pos2[y] <= pos2[x]
    <3> SUFFICES ASSUME NEW x \in Cluster, NEW y \in Cluster, own2[x] # None, own2[x] = own2[y], fat'[x] = EOC
                 PROVE  pos2[y] <= pos2[x]
      OBVIOUS
    <3>1. CASE x = m
      <4>1. y = m \/ pos[y] <= pos[c]
        BY <3>1, <2>3, <1>7
      <4> QED  BY <4>1, <3>1, <2>4, <1>7
    <3>2. CASE x # m
      <4>1. x # c /\ fat[x] = EOC
        BY <3>2, <1>4, <1>5
      <4>2. own[x] # o
        <5>1. ASSUME own[x] = o  PROVE FALSE
          <6>1. pos[x] <= pos[c] /\ pos[c] <= pos[x]
            BY <5>1, <4>1, <2>3, <1>2, <1>3 DEF LinksOK
          <6>2. pos[x] = pos[c]
            BY <6>1, <2>4
          <6> QED  BY <6>2, <5>1, <4>1, <1>2, <1>3 DEF LinksOK
        <5> QED  BY <5>1
      <4>3. y # m
        BY <4>2, <3>2, <1>7
      <4> QED  BY <4>1, <4>3, <3>2, <1>2, <1>7 DEF LinksOK
    <3> QED  BY <3>1, <3>2
  <2> QED  BY <2>1, <2>2, <2>5, <2>6 DEF LinksOK
<1>16. HeadsOK(D2, own2, pos2)'
  <2>1. ASSUME NEW p \in Owners(D), First(p) # 0
        PROVE  First(p) \in Cluster /\ own2[First(p)] = p /\ pos2[First(p)] = 0
    <3>1. First(p) \in Cluster /\ own[First(p)] = p /\ pos[First(p)] = 0
      BY <2>1, <1>2 DEF HeadsOK
    <3>2. First(p) # m
      BY <3>1, <1>3
    <3> QED  BY <3>1, <3>2, <1>7
  <2>2. ASSUME NEW x \in Cluster, own2[x] \in Owners(D)  PROVE First(own2[x]) # 0
    <3>1. CASE x = m
      BY <3>1, <1>2, <1>7 DEF HeadsOK
    <3>2. CASE x # m
      BY <3>2, <2>2, <1>2, <1>7 DEF HeadsOK
    <3> QED  BY <3>1, <3>2
  <2>3. \A p \in Owners(D) : First(p)' # 0 =>
          First(p)' \in Cluster /\ own2[First(p)'] = p /\ pos2[First(p)'] = 0
    BY <2>1, <1>14
  <2>4. \A x \in Cluster : own2[x] \in Owners(D) => First(own2[x])' # 0
    BY <2>2, <1>14
  <2> QED  BY <2>3, <2>4, <1>12 DEF HeadsOK
<1>17. DirsOK(D2, own2)'
  <2>1. ASSUME NEW x \in D2
        PROVE  fat'[x] # FREE /\ (own2[x] # None => own2[x] \in Owners(D) /\ IsDir(own2[x]))
    <3>1. CASE x = m
      <4>1. IsDir(o)
        BY <3>1, <2>1
      <4> QED  BY <4>1, <3>1, <1>5, <1>7 DEF EOC, FREE
    <3>2. CASE x # m
      <4>1. x \in D /\ x \in Cluster
        BY <3>2, <2>1, <1>8
      <4>2. fat'[x] # FREE
        BY <4>1, <1>2, <1>5 DEF DirsOK, FREE, Cluster
      <4> QED  BY <4>1, <4>2, <3>2, <1>2, <1>7 DEF DirsOK
    <3> QED  BY <3>1, <3>2
  <2>2. ASSUME NEW x \in Cluster, own2[x] \in Owners(D), IsDir(own2[x])  PROVE x \in D2
    <3>1. CASE x = m
      BY <3>1, <2>2, <1>7
    <3>2. CASE x # m
      BY <3>2, <2>2, <1>2, <1>7, <1>8 DEF DirsOK
    <3> QED  BY <3>1, <3>2
  <2> QED  BY <2>1, <2>2, <1>12, <1>14 DEF DirsOK
<1>18. EntriesOK(D2)'
  BY <1>2, <1>11, <1>13 DEF EntriesOK
<1>19. ParseOK(D2)'
  <2> SUFFICES ASSUME NEW x \in D2
               PROVE  Parses(x) /\ (fat'[x] # EOC => \A u \in Offset : unit[x][u] # Zero)
    BY DEF ParseOK, Parses
  <2>1. CASE x = m
    <3>1. Parses(m)
      BY DEF Parses, Zero
    <3> QED  BY <3>1, <2>1, <1>5
  <2>2. CASE x = c
    <3>1. x \in D
      BY <2>2, <1>4, <1>8
    <3>2. IsDir(o)
      BY <3>1, <2>2, <1>2, <1>3 DEF DirsOK
    <3>3. \A u \in Offset : unit[c][u] # Zero
      BY <3>2 DEF FreeSlots
    <3> QED  BY <3>1, <3>3, <2>2, <1>2 DEF ParseOK
  <2>3. CASE x # m /\ x # c
    BY <2>3, <1>2, <1>5, <1>8 DEF ParseOK
  <2> QED  BY <2>1, <2>2, <2>3
<1>20. DataOK(D2, own2, pos2)'
  <2> SUFFICES ASSUME NEW p \in EntriesOf(D), At(p)'.type = FILE, NEW x \in Cluster, own2[x] = p
               PROVE  (HoldsUpTo(x, pos2, At(p).name, At(p).size) /\ EndsWithin(x, pos2, At(p).size))'
    BY <1>11 DEF DataOK
  <2>1. At(p)' = At(p) /\ At(p).type = FILE /\ p \in Owners(D)
    BY <1>13 DEF Owners
  <2>2. \A y \in Cluster : own[y] = p => HoldsUpTo(y, pos, At(p).name, At(p).size) /\ EndsWithin(y, pos, At(p).size)
    BY <2>1, <1>2 DEF DataOK
  <2>3. CASE p = o
    <3>1. PICK name : name = At(p).name
      OBVIOUS
    <3>2. PICK end : end = At(p).size
      OBVIOUS
    <3>3. end \in Nat
      <4>1. At(p).kind = "entry" /\ p \in Cluster \X Offset
        BY <1>1 DEF EntriesOf
      <4>2. At(p) \in Units
        BY <4>1 DEF At, DiskTypes
      <4> QED  BY <4>1, <4>2, <3>2, UnitKinds DEF Entries
    <3>4. AllHold(o, own, pos, name, end)
      BY <2>2, <2>3, <3>1, <3>2 DEF AllHold
    <3>5. fat \in [Cluster -> Links]
      BY DEF DiskTypes, Links
    <3>6. pos \in [Cluster -> Nat] /\ own[m] # o /\ m \in Cluster
      BY <1>3, <1>7
    <3>7. AllHold(o, own2, pos2, name, end)'
      BY <3>3, <3>4, <3>5, <3>6, ExtendHolds
    <3>8. (HoldsUpTo(x, pos2, name, end) /\ EndsWithin(x, pos2, end))'
      BY <3>7, <2>3 DEF AllHold
    <3> QED  BY <3>1, <3>2, <3>8, <2>1, <2>3 DEF HoldsUpTo, EndsWithin
  <2>4. CASE p # o
    <3>1. x # m /\ x # c /\ own[x] = p
      BY <2>4, <1>3, <1>4, <1>7
    <3> QED  BY <3>1, <2>1, <2>2, <1>5, <1>7 DEF HoldsUpTo, EndsWithin
  <2> QED  BY <2>3, <2>4
<1>21. DepthOK(D2, own2, dep2)'
  <2> SUFFICES ASSUME NEW x \in D2, own2[x] \in EntriesOf(D)  PROVE dep2[own2[x][1]] < dep2[x]
    BY <1>11 DEF DepthOK
  <2>1. own2[x][1] \in Cluster /\ own2[x][1] # m
    BY <1>1, <1>13 DEF EntriesOf
  <2>2. CASE x = m
    <3>1. own2[x] = own[c] /\ dep2[x] = dep[c]
      BY <2>2, <1>7
    <3>2. c \in D
      <4>1. IsDir(o)
        BY <2>2
      <4> QED  BY <4>1, <1>2 DEF DirsOK
    <3> QED  BY <3>1, <3>2, <2>1, <1>2, <1>7 DEF DepthOK
  <2>3. CASE x # m
    BY <2>1, <2>3, <1>2, <1>7, <1>8 DEF DepthOK
  <2> QED  BY <2>2, <2>3
<1>22. WitnessTypes(D2, own2, pos2, dep2)'
  BY <1>7, <1>8 DEF WitnessTypes
<1>23. DiskOK(D2, own2, pos2, dep2)'
  BY <1>15, <1>16, <1>17, <1>18, <1>19, <1>20, <1>21, <1>22 DEF DiskOK
<1> QED  BY <1>6, <1>11, <1>13, <1>23 DEF KeepsEntries

LEMMA ExtendStep ==
    ASSUME DiskTypes, NEW D, NEW own, NEW pos, NEW dep, Holds(D, own, pos, dep), Extend
    PROVE  DiskTypes' /\ \E D2, own2, pos2, dep2 : Holds(D2, own2, pos2, dep2)'
<1>1. op.pc = "extend" /\ op # Idle /\ unit' = unit /\ cache' = cache /\ lost' = lost /\ op.new_c # 0
  BY DEF Extend, Idle
<1>2. PICK c : c = op.cluster
  OBVIOUS
<1>3. PICK m : m = op.new_c
  OBVIOUS
<1>4. fat' = [fat EXCEPT ![c] = m] /\ op' = [op EXCEPT !.pc = "mark"]
  BY <1>2, <1>3 DEF Extend
<1>5. /\ m \in Cluster \ D /\ own[m] = None /\ fat[m] = EOC /\ \A u \in Offset : unit[m][u] = Zero
      /\ op.ret = "extend"
  BY <1>1, <1>3 DEF Holds, AllocOK, Fresh
<1>6. \/ op.call = "create" /\ CreateOK(D, own, pos) /\ op \in Creates
      \/ op.call = "write" /\ WriteOK(D, own, pos) /\ op \in Writes
  <2>1. op \notin Unlinks
    BY <1>1 DEF Unlinks
  <2> QED  BY <2>1, <1>1, CallKinds DEF Holds
<1>7. PICK o : o = own[c]
  OBVIOUS
<1>8. /\ c \in Cluster /\ fat[c] = EOC /\ o \in Owners(D) /\ Gone = {} /\ o # None
      /\ IsDir(o) => FreeSlots(c) = {}
      /\ op.call = "create" => o = op.dir /\ IsDir(o)
      /\ op.call = "write" => o = op.node /\ ~ IsDir(o) /\ InChain(own, pos)
  <2>1. CASE op.call = "create" /\ CreateOK(D, own, pos) /\ op \in Creates
    <3>1. c \in Cluster /\ own[c] = op.dir /\ fat[c] = EOC /\ FreeSlots(c) = {}
      BY <2>1, <1>1, <1>2, <1>5 DEF CreateOK, Extends
    <3>2. op.dir \in Owners(D) /\ IsDir(op.dir) /\ Gone = {} /\ op.dir # None
      BY <2>1, <1>1, CreateWorksOn
    <3> QED  BY <3>1, <3>2, <2>1, <1>7
  <2>2. CASE op.call = "write" /\ WriteOK(D, own, pos) /\ op \in Writes
    <3>1. InChain(own, pos)
      BY <2>2, <1>1, <1>5 DEF WriteOK
    <3>2. c \in Cluster /\ own[c] = op.node /\ fat[c] = EOC
      BY <3>1, <1>1, <1>2, <1>5 DEF InChain, Along, Extends
    <3>3. op.node \in Owners(D) /\ ~ IsDir(op.node) /\ Gone = {} /\ op.node # None
      BY <2>2, WriteWorksOn
    <3> QED  BY <3>1, <3>2, <3>3, <2>2, <1>7
  <2> QED  BY <2>1, <2>2, <1>6
<1>9. PICK own2 : own2 = [own EXCEPT ![m] = o]
  OBVIOUS
<1>10. PICK pos2 : pos2 = [pos EXCEPT ![m] = pos[c] + 1]
  OBVIOUS
<1>11. PICK dep2 : dep2 = [dep EXCEPT ![m] = dep[c]]
  OBVIOUS
<1>12. PICK D2 : D2 = IF IsDir(o) THEN D \union {m} ELSE D
  OBVIOUS
<1>13. DiskOK(D, own, pos, dep) /\ CacheOK(D, own) /\ WitnessTypes(D, own, pos, dep) /\ DirsOK(D, own)
  BY DEF Holds, DiskOK
<1>14. DiskTypes' /\ DiskOK(D2, own2, pos2, dep2)' /\ KeepsEntries(D, own, D2, own2)
  <2>1. HangsOn(c, m, o, D, own, pos, dep)
    BY <1>1, <1>4, <1>5, <1>7, <1>8, <1>13 DEF HangsOn
  <2>2. Joins(c, m, o, D, own, pos, dep, D2, own2, pos2, dep2)
    BY <1>9, <1>10, <1>11, <1>12 DEF Joins
  <2> QED  BY <2>1, <2>2, ExtendDisk
<1>15. /\ own2[m] = o /\ \A x \in Cluster : x # m => own2[x] = own[x]
       /\ pos2[m] = pos[c] + 1 /\ \A x \in Cluster : x # m => pos2[x] = pos[x]
       /\ D2 \subseteq D \union {m} /\ m # c
  BY <1>5, <1>7, <1>8, <1>9, <1>10, <1>12, <1>13 DEF WitnessTypes
<1>16. fat'[m] = EOC /\ \A x \in Cluster : x # c => fat'[x] = fat[x]
  BY <1>4, <1>5, <1>8, <1>15 DEF DiskTypes
<1>17. /\ op'.call = op.call /\ op'.pc = "mark" /\ op'.ret = "extend" /\ op'.new_c = m /\ op'.cluster = c
       /\ op.call = "create" =>
            op' \in Creates /\ op'.dir = op.dir /\ op'.type = op.type /\ op'.new_cluster = op.new_cluster
       /\ op.call = "write" =>
            /\ op' \in Writes /\ op'.node = op.node /\ op'.offset = op.offset
            /\ op'.written = op.written /\ op'.len = op.len /\ op'.clus_base = op.clus_base
  <2>1. CASE op.call = "create" /\ op \in Creates
    BY <2>1, <1>2, <1>3, <1>4, <1>5 DEF Creates
  <2>2. CASE op.call = "write" /\ op \in Writes
    BY <2>2, <1>2, <1>3, <1>4, <1>5 DEF Writes
  <2> QED  BY <2>1, <2>2, <1>6
<1>18. CacheOK(D2, own2)'
  <2>1. Gone' = {}
    BY <1>6, <1>17 DEF Gone
  <2> QED  BY <2>1, <1>1, <1>8, <1>13, <1>14, CacheKeeps
<1>19. AllocOK(D2, own2)'
  BY <1>5, <1>16, <1>17 DEF AllocOK
<1>20. FreeOK(own2, pos2)'
  <2>1. \A x \in Cluster : own[x] # Freeing
    BY <1>1 DEF Holds, FreeOK
  <2>2. o # Freeing
    BY <2>1, <1>7, <1>8
  <2>3. \A x \in Cluster : own2[x] # Freeing
    BY <2>1, <2>2, <1>15
  <2> QED  BY <2>3, <1>17 DEF FreeOK
<1>21. ASSUME op.call = "create", CreateOK(D, own, pos)  PROVE CreateOK(D2, own2, pos2)'
  <2>1. /\ op.dir \in DOMAIN cache /\ cache[op.dir].children_loaded
        /\ op.new_cluster # 0 => ReadyDir(op.new_cluster, D, own)
        /\ op.type = DIR <=> op.new_cluster # 0
        /\ m # op.new_cluster
    BY <1>1, <1>3, <1>5, <1>21 DEF CreateOK, MakesDots
  <2>2. ASSUME op.new_cluster # 0  PROVE ReadyDir(op.new_cluster, D2, own2)'
    <3>1. /\ op.new_cluster \in Cluster \ D /\ own[op.new_cluster] = None /\ fat[op.new_cluster] = EOC
          /\ Parses(op.new_cluster) /\ \A u \in Offset : unit[op.new_cluster][u].kind # "entry"
      BY <2>1, <2>2 DEF ReadyDir, Fresh
    <3>2. op.new_cluster # c /\ op.new_cluster \notin D2 /\ own2[op.new_cluster] = None
      BY <3>1, <2>1, <1>7, <1>8, <1>15
    <3>3. fat'[op.new_cluster] = EOC
      BY <3>1, <3>2, <1>16
    <3> QED  BY <3>1, <3>2, <3>3, <1>1, <1>17, <1>21 DEF ReadyDir, Fresh, Parses
  <2>3. own2[c] = op.dir /\ own2[m] = op.dir
    BY <1>7, <1>8, <1>15, <1>21
  <2> QED  BY <2>1, <2>2, <2>3, <1>1, <1>8, <1>17, <1>21 DEF CreateOK, MakesDots, Extends
<1>22. ASSUME op.call = "write", WriteOK(D, own, pos)  PROVE WriteOK(D2, own2, pos2)'
  <2>1. PICK name : name = At(op.node).name
    OBVIOUS
  <2>2. PICK fo : fo = file_offset
    OBVIOUS
  <2>3. InChain(own, pos) /\ o = op.node
    BY <1>8, <1>22
  <2>4. fo \in Nat
    BY <2>2, <1>22 DEF WriteOK, Writes, file_offset
  <2>5. file_offset' = fo /\ At(op.node)' = At(op.node)
    BY <2>2, <1>1, <1>17, <1>22 DEF file_offset, At
  <2>6. AllHold(o, own, pos, name, fo)
    BY <2>1, <2>2, <2>3 DEF InChain, Along, AllHold
  <2>7. AllHold(o, own2, pos2, name, fo)'
    <3>1. fat \in [Cluster -> Links] /\ pos \in [Cluster -> Nat] /\ own[m] # o /\ m \in Cluster
      BY <1>5, <1>8, <1>13 DEF DiskTypes, Links, WitnessTypes
    <3> QED  BY <3>1, <2>4, <2>6, <1>1, <1>4, <1>7, <1>8, <1>9, <1>10, ExtendHolds
  <2>8. \A x \in Cluster : own2[x] = op'.node =>
            (HoldsUpTo(x, pos2, At(op.node).name, file_offset) /\ EndsWithin(x, pos2, file_offset))'
    BY <2>1, <2>3, <2>5, <2>7, <1>17, <1>22 DEF AllHold, HoldsUpTo, EndsWithin
  <2>9. op.clus_base = pos[c] * UnitsPerClus /\ op.clus_base <= fo /\ Beyond
    BY <2>2, <2>3, <1>1, <1>2, <1>5 DEF InChain, Along, Extends
  <2>10. Along(own2, pos2)'
    BY <2>3, <2>5, <2>8, <2>9, <1>7, <1>8, <1>15, <1>17, <1>22 DEF Along
  <2>11. Beyond'
    BY <2>2, <2>5, <2>9, <1>17, <1>22 DEF Beyond
  <2>12. InChain(own2, pos2)'
    <3>1. ~ Extends'
      BY <1>17 DEF Extends
    <3>2. own2[op'.new_c] = op'.node /\ pos2[op'.new_c] = pos2[op'.cluster] + 1
      BY <2>3, <1>8, <1>15, <1>17, <1>22
    <3> QED  BY <3>1, <3>2, <2>10, <2>11 DEF InChain
  <2>13. op.node \in DOMAIN cache \ {Root} /\ cache[op.node].type = FILE /\ op.written <= op.len
    BY <1>22 DEF WriteOK
  <2> QED  BY <2>12, <2>13, <1>1, <1>17, <1>22 DEF WriteOK
<1>23. NoLeak(own2)'
  <2> SUFFICES ASSUME ~ lost, NEW x \in Cluster, fat'[x] # FREE, own2[x] = None  PROVE x \in Taken'
    BY <1>1 DEF NoLeak
  <2>1. x # m /\ x # c
    BY <1>7, <1>8, <1>15
  <2>2. fat[x] # FREE /\ own[x] = None
    BY <2>1, <1>15, <1>16
  <2>3. x \in Taken
    BY <2>2 DEF Holds, NoLeak
  <2> QED  BY <2>1, <2>3, <1>1, <1>3, <1>17 DEF Taken
<1>24. Holds(D2, own2, pos2, dep2)'
  BY <1>6, <1>14, <1>18, <1>19, <1>20, <1>21, <1>22, <1>23 DEF Holds, CallOK
<1> QED  BY <1>14, <1>24

LEMMA FirstStep ==
    ASSUME DiskTypes, NEW D, NEW own, NEW pos, NEW dep, Holds(D, own, pos, dep), SetFirstCluster
    PROVE  DiskTypes' /\ \E own2, pos2 : Holds(D, own2, pos2, dep)'
<1>1. op.pc = "first" /\ op # Idle /\ fat' = fat /\ lost' = lost /\ op.new_c # 0
  BY DEF SetFirstCluster, Idle
<1>2. WriteOK(D, own, pos) /\ op \in Writes /\ op.call = "write"
  <2>1. op \notin Creates /\ op \notin Unlinks
    BY <1>1 DEF Creates, Unlinks
  <2> QED  BY <2>1, <1>1, CallKinds DEF Holds
<1>3. PICK n : n = op.node
  OBVIOUS
<1>4. PICK c : c = op.new_c
  OBVIOUS
<1>5. /\ c \in Cluster \ D /\ own[c] = None /\ fat[c] = EOC /\ op.ret = "first"
  BY <1>1, <1>4 DEF Holds, AllocOK, Fresh
<1>6. /\ n \in EntriesOf(D) /\ n \in Owners(D) /\ n \in DOMAIN cache \ {Root} /\ n # None /\ n # Freeing
      /\ Agrees(cache, n) /\ At(n).type = FILE /\ At(n) \in Entries /\ ~ IsDir(n)
      /\ Gone = {} /\ D \subseteq Cluster /\ First(n) = At(n).first
  BY <1>2, <1>3, WriteWorksOn
<1>7. DiskOK(D, own, pos, dep) /\ CacheOK(D, own) /\ WitnessTypes(D, own, pos, dep)
  BY DEF Holds, DiskOK
<1>8. At(n).first = 0 /\ op.offset = 0 /\ op.written = 0 /\ op.clus_base = 0 /\ At(n).size = 0
  <2>1. At(n).first = 0 /\ op.offset = 0 /\ op.written = 0 /\ op.clus_base = 0
    BY <1>1, <1>2, <1>3, <1>5 DEF WriteOK
  <2> QED  BY <2>1, <1>6, <1>7 DEF DiskOK, EntriesOK
<1>9. \A x \in Cluster : own[x] # n
  BY <1>6, <1>7, <1>8 DEF DiskOK, HeadsOK
<1>10. PICK own2 : own2 = [own EXCEPT ![c] = n]
  OBVIOUS
<1>11. PICK pos2 : pos2 = [pos EXCEPT ![c] = 0]
  OBVIOUS
<1>12. PICK e : e = [At(n) EXCEPT !.first = c]
  OBVIOUS
<1>13. /\ own2[c] = n /\ \A x \in Cluster : x # c => own2[x] = own[x]
       /\ pos2[c] = 0 /\ \A x \in Cluster : x # c => pos2[x] = pos[x]
       /\ own2 \in [Cluster -> Labels] /\ pos2 \in [Cluster -> Nat]
  <2>1. n \in Labels
    BY <1>6, OwnersAreNames
  <2> QED  BY <2>1, <1>5, <1>7, <1>10, <1>11 DEF WitnessTypes
<1>14. /\ e \in Entries /\ e.type = At(n).type /\ e.first = c /\ e.name = At(n).name /\ e.size = 0
  BY <1>5, <1>6, <1>8, <1>12 DEF Entries
<1>15. unit' = Put(n, e) /\ cache' = [cache EXCEPT ![n].first_cluster = c]
       /\ op' = [op EXCEPT !.pc = "walk", !.cluster = c]
  BY <1>3, <1>4, <1>12 DEF SetFirstCluster
<1>16. /\ DiskTypes' /\ ParseOK(D)' /\ EntriesOf(D)' = EntriesOf(D) /\ Owners(D)' = Owners(D)
       /\ At(n)' = e /\ \A p \in EntriesOf(D) : p # n => At(p)' = At(p)
       /\ \A p \in Owners(D) : IsDir(p)' = IsDir(p)
       /\ \A x \in Cluster : x \notin D => unit'[x] = unit[x]
  <2>1. ParseOK(D)
    BY <1>7 DEF DiskOK
  <2> QED  BY <2>1, <1>1, <1>6, <1>14, <1>15, EditFacts
<1>17. First(n)' = c /\ \A p \in Owners(D) : p # n => First(p)' = First(p)
  <2>1. n # Root
    BY <1>6
  <2>2. First(n)' = c
    BY <2>1, <1>14, <1>16 DEF First
  <2>3. ASSUME NEW p \in Owners(D), p # n  PROVE First(p)' = First(p)
    <3>1. CASE p = Root
      BY <3>1 DEF First
    <3>2. CASE p # Root
      <4>1. At(p)' = At(p)
        BY <3>2, <2>3, <1>16 DEF Owners
      <4> QED  BY <4>1, <3>2 DEF First
    <3> QED  BY <3>1, <3>2
  <2> QED  BY <2>2, <2>3
<1>18. \A p \in EntriesOf(D) : own2[p[1]] = own[p[1]]
  <2>1. \A p \in EntriesOf(D) : p[1] \in D
    BY DEF EntriesOf
  <2> QED  BY <2>1, <1>5, <1>6, <1>13
<1>19. /\ LinksOK(D, own, pos) /\ HeadsOK(D, own, pos) /\ DirsOK(D, own) /\ EntriesOK(D)
       /\ DataOK(D, own, pos) /\ DepthOK(D, own, dep)
  BY <1>7 DEF DiskOK
<1>20. LinksOK(D, own2, pos2)'
  <2>1. \A x \in Cluster : own2[x] # None => own2[x] \in Owners(D)' \union {Freeing}
    BY <1>6, <1>13, <1>16, <1>19 DEF LinksOK
  <2>2. ASSUME NEW x \in Cluster, own2[x] # None  PROVE Linked(x, own2, pos2)'
    <3>1. CASE x = c
      BY <3>1, <1>1, <1>5 DEF Linked
    <3>2. CASE x # c
      <4>1. own[x] # None /\ Linked(x, own, pos)
        BY <3>2, <2>2, <1>13, <1>19 DEF LinksOK
      <4>2. fat[x] # EOC => fat[x] # c
        BY <4>1, <1>5 DEF Linked
      <4> QED  BY <4>1, <4>2, <3>2, <1>1, <1>13 DEF Linked
    <3> QED  BY <3>1, <3>2
  <2>3. ASSUME NEW x \in Cluster, NEW y \in Cluster, own2[x] # None, own2[x] = own2[y]
        PROVE  /\ pos2[x] = pos2[y] => x = y
               /\ fat'[x] = EOC => pos2[y] <= pos2[x]
    <3>1. CASE x = c
      <4>1. y = c
        BY <3>1, <2>3, <1>9, <1>13
      <4> QED  BY <4>1, <3>1, <1>13
    <3>2. CASE x # c
      <4>1. y # c
        BY <3>2, <2>3, <1>9, <1>13
      <4> QED  BY <4>1, <3>2, <2>3, <1>1, <1>13, <1>19 DEF LinksOK
    <3> QED  BY <3>1, <3>2
  <2> QED  BY <2>1, <2>2, <2>3 DEF LinksOK
<1>21. HeadsOK(D, own2, pos2)'
  <2>1. ASSUME NEW p \in Owners(D), First(p)' # 0
        PROVE  First(p)' \in Cluster /\ own2[First(p)'] = p /\ pos2[First(p)'] = 0
    <3>1. CASE p = n
      BY <3>1, <1>5, <1>13, <1>17
    <3>2. CASE p # n
      <4>1. First(p)' = First(p) /\ First(p) \in Cluster /\ own[First(p)] = p /\ pos[First(p)] = 0
        BY <3>2, <2>1, <1>17, <1>19 DEF HeadsOK
      <4>2. p # None
        BY <1>6, OwnersAreNames
      <4>3. First(p) # c
        BY <4>1, <4>2, <1>5
      <4> QED  BY <4>1, <4>3, <1>13
    <3> QED  BY <3>1, <3>2
  <2>2. ASSUME NEW x \in Cluster, own2[x] \in Owners(D)  PROVE First(own2[x])' # 0
    <3>1. CASE x = c
      <4>1. c # 0
        BY <1>5 DEF Cluster
      <4> QED  BY <4>1, <3>1, <1>13, <1>17
    <3>2. CASE x # c
      <4>1. own2[x] = own[x] /\ own[x] # n /\ First(own[x]) # 0
        BY <3>2, <2>2, <1>9, <1>13, <1>19 DEF HeadsOK
      <4> QED  BY <4>1, <2>2, <1>17
    <3> QED  BY <3>1, <3>2
  <2> QED  BY <2>1, <2>2, <1>16 DEF HeadsOK
<1>22. DirsOK(D, own2)'
  <2>1. \A x \in D : x # c /\ x \in Cluster
    BY <1>5, <1>6
  <2>2. \A x \in D : fat'[x] # FREE /\ (own2[x] # None => own2[x] \in Owners(D) /\ IsDir(own2[x]))
    BY <2>1, <1>1, <1>13, <1>19 DEF DirsOK
  <2>3. \A x \in Cluster : own2[x] \in Owners(D) /\ IsDir(own2[x]) => x \in D
    BY <1>6, <1>13, <1>19 DEF DirsOK
  <2> QED  BY <2>2, <2>3, <1>16 DEF DirsOK
<1>23. EntriesOK(D)'
  <2> SUFFICES ASSUME NEW p \in EntriesOf(D)
               PROVE  /\ At(p)'.type = DIR => At(p)'.first # 0
                      /\ At(p)'.first = 0 => At(p)'.size = 0
    BY <1>16 DEF EntriesOK
  <2>1. CASE p = n
    BY <2>1, <1>6, <1>14, <1>16 DEF FILE, DIR
  <2>2. CASE p # n
    BY <2>2, <1>16, <1>19 DEF EntriesOK
  <2> QED  BY <2>1, <2>2
<1>24. DataOK(D, own2, pos2)'
  <2> SUFFICES ASSUME NEW p \in EntriesOf(D), At(p)'.type = FILE, NEW x \in Cluster, own2[x] = p
               PROVE  (HoldsUpTo(x, pos2, At(p).name, At(p).size) /\ EndsWithin(x, pos2, At(p).size))'
    BY <1>16 DEF DataOK
  <2>1. CASE p = n
    <3>1. x = c /\ pos2[x] = 0 /\ At(p)'.size = 0
      BY <2>1, <1>9, <1>13, <1>14, <1>16
    <3>2. \A u \in Offset : ~ (0 * UnitsPerClus + u < 0)
      <4>1. \A u \in Offset : u \in Nat
        BY DEF Offset
      <4> QED  BY <4>1, ClusterSize
    <3>3. 0 <= (0 + 1) * UnitsPerClus
      BY ClusterSize
    <3> QED  BY <3>1, <3>2, <3>3 DEF HoldsUpTo, EndsWithin
  <2>2. CASE p # n
    <3>1. x # c /\ own[x] = p /\ At(p)' = At(p)
      BY <2>2, <1>13, <1>16
    <3>2. x \notin D
      BY <3>1, <1>6, <1>19, FileIsNoDir
    <3>3. unit'[x] = unit[x] /\ pos2[x] = pos[x]
      BY <3>1, <3>2, <1>13, <1>16
    <3>4. HoldsUpTo(x, pos, At(p).name, At(p).size) /\ EndsWithin(x, pos, At(p).size)
      BY <3>1, <1>19 DEF DataOK
    <3> QED  BY <3>1, <3>3, <3>4, <1>1 DEF HoldsUpTo, EndsWithin
  <2> QED  BY <2>1, <2>2
<1>25. DepthOK(D, own2, dep)'
  <2>1. \A x \in D : x # c /\ x \in Cluster
    BY <1>5, <1>6
  <2> QED  BY <2>1, <1>13, <1>16, <1>19 DEF DepthOK
<1>26. WitnessTypes(D, own2, pos2, dep)'
  BY <1>7, <1>13 DEF WitnessTypes
<1>27. DiskOK(D, own2, pos2, dep)'
  BY <1>16, <1>20, <1>21, <1>22, <1>23, <1>24, <1>25, <1>26 DEF DiskOK
<1>28. /\ op' \in Writes /\ op'.call = "write" /\ op'.pc = "walk" /\ op'.node = n /\ op'.cluster = c
       /\ op'.offset = 0 /\ op'.written = 0 /\ op'.clus_base = 0 /\ op'.len = op.len /\ op.len \in Nat
  BY <1>2, <1>3, <1>5, <1>8, <1>15 DEF Writes
<1>29. PICK ca : ca = [cache EXCEPT ![n].first_cluster = c]
  OBVIOUS
<1>30. CacheFits(cache, {}, D) /\ ChildrenFit(cache, own) /\ (~ lost => WholeFits(cache, {}, D, own))
  BY <1>6, <1>7 DEF CacheOK
<1>31. cache[n] \in Nodes /\ \A x \in DOMAIN cache : cache[x] \in Nodes
  BY <1>6, <1>30 DEF CacheFits
<1>32. DOMAIN ca = DOMAIN cache /\ ca[n] = [cache[n] EXCEPT !.first_cluster = c]
       /\ \A x \in DOMAIN cache : x # n => ca[x] = cache[x]
  BY <1>6, <1>29
<1>33. /\ ca[n] \in Nodes /\ ca[n].type = cache[n].type /\ ca[n].parent = cache[n].parent
       /\ ca[n].children = cache[n].children /\ ca[n].children_loaded = cache[n].children_loaded
       /\ ca[n].first_cluster = c /\ ca[n].file_size = cache[n].file_size
  BY <1>5, <1>31, <1>32 DEF Nodes
<1>34. CacheOK(D, own2)'
  <2>1. \A x \in DOMAIN cache :
           /\ ca[x].type = cache[x].type /\ ca[x].parent = cache[x].parent
           /\ ca[x].children = cache[x].children /\ ca[x].children_loaded = cache[x].children_loaded
    BY <1>32, <1>33
  <2>2. ChildrenFit(ca, own) /\ (~ lost => WholeFits(ca, {}, D, own))
    BY <2>1, <1>30, <1>32, NodeEdited
  <2>3. cache' = ca /\ Gone' = {}
    BY <1>15, <1>28, <1>29 DEF Gone
  <2>4. CacheFits(cache, Gone, D)'
    <3>1. ca \in [DOMAIN ca -> Nodes]
      BY <1>29, <1>31, <1>32, <1>33
    <3>2. Root \in DOMAIN ca /\ ca[Root].type = DIR /\ ca[Root].first_cluster = 0
      BY <1>6, <1>30, <1>32 DEF CacheFits
    <3>3. ASSUME NEW x \in DOMAIN ca, x # Root
          PROVE  x \in EntriesOf(D) /\ ca[x].type = At(x)'.type
                 /\ ca[x].first_cluster = At(x)'.first /\ ca[x].file_size = At(x)'.size
      <4>1. x \in EntriesOf(D) /\ Agrees(cache, x)
        BY <3>3, <1>30, <1>32 DEF CacheFits
      <4>2. CASE x = n
        BY <4>1, <4>2, <1>8, <1>14, <1>16, <1>33 DEF Agrees
      <4>3. CASE x # n
        BY <4>1, <4>3, <1>16, <1>32 DEF Agrees
      <4> QED  BY <4>2, <4>3
    <3> QED  BY <3>1, <3>2, <3>3, <2>3, <1>16 DEF CacheFits, Agrees
  <2>5. ChildrenFit(cache, own2)'
    <3>1. ASSUME NEW d \in DOMAIN ca, NEW x \in ca[d].children  PROVE own2[x[1]] = own[x[1]]
      <4>1. d \in DOMAIN cache /\ x \in cache[d].children
        BY <3>1, <2>1, <1>32
      <4>2. x \in DOMAIN cache /\ x # Root
        BY <4>1, <1>30, ChildrenAreEntries DEF ChildrenFit
      <4> QED  BY <4>2, <1>18, <1>30 DEF CacheFits
    <3> QED  BY <3>1, <2>2, <2>3 DEF ChildrenFit, Known
  <2>6. ~ lost' => WholeFits(cache, Gone, D, own2)'
    BY <2>2, <2>3, <1>1, <1>16, <1>18 DEF WholeFits
  <2> QED  BY <2>4, <2>5, <2>6 DEF CacheOK
<1>35. AllocOK(D, own2)'
  BY <1>28 DEF AllocOK
<1>36. FreeOK(own2, pos2)'
  <2>1. \A x \in Cluster : own[x] # Freeing
    BY <1>1 DEF Holds, FreeOK
  <2>2. \A x \in Cluster : own2[x] # Freeing
    BY <2>1, <1>6, <1>13
  <2> QED  BY <2>2, <1>28 DEF FreeOK
<1>37. NoLeak(own2)'
  <2>1. Taken \subseteq {c}
    BY <1>1, <1>2, <1>4 DEF Taken
  <2>2. NoLeak(own)
    BY DEF Holds
  <2> QED  BY <2>1, <2>2, <1>1, <1>6, <1>13 DEF NoLeak
<1>38. WriteOK(D, own2, pos2)'
  <2>1. file_offset' = 0
    BY <1>28 DEF file_offset
  <2>2. ASSUME NEW x \in Cluster, own2[x] = n
        PROVE  (HoldsUpTo(x, pos2, At(op.node).name, file_offset) /\ EndsWithin(x, pos2, file_offset))'
    <3>1. x = c /\ pos2[x] = 0
      BY <2>2, <1>9, <1>13
    <3>2. \A u \in Offset : ~ (0 * UnitsPerClus + u < 0)
      <4>1. \A u \in Offset : u \in Nat
        BY DEF Offset
      <4> QED  BY <4>1, ClusterSize
    <3>3. 0 <= (0 + 1) * UnitsPerClus
      BY ClusterSize
    <3> QED  BY <3>1, <3>2, <3>3, <2>1 DEF HoldsUpTo, EndsWithin
  <2>3. 0 = 0 * UnitsPerClus
    BY ClusterSize
  <2>4. Along(own2, pos2)'
    BY <2>1, <2>2, <2>3, <1>5, <1>13, <1>28 DEF Along
  <2>5. InChain(own2, pos2)'
    BY <2>4, <1>28 DEF InChain, Extends
  <2>6. n \in DOMAIN ca \ {Root} /\ ca[n].type = FILE /\ cache' = ca
    BY <1>2, <1>3, <1>6, <1>15, <1>29, <1>32, <1>33 DEF WriteOK
  <2> QED  BY <2>5, <2>6, <1>28 DEF WriteOK
<1>39. Holds(D, own2, pos2, dep)'
  BY <1>27, <1>34, <1>35, <1>36, <1>37, <1>38 DEF Holds, CallOK
<1> QED  BY <1>16, <1>39

-----------------------------------------------------------------------------
(* The disk is mounted for the first time. *)

\* No call is in progress, and nothing is cached.
LEMMA QuietCall ==
    ASSUME op = Idle, cache = JustMounted, NEW D, NEW own, NEW pos, \A x \in Cluster : own[x] # Freeing
    PROVE  CacheOK(D, own) /\ AllocOK(D, own) /\ FreeOK(own, pos) /\ CallOK(D, own, pos)
<1>1. op.pc = "idle"
  BY DEF Idle
<1>2. Gone = {}
  BY <1>1 DEF Gone
<1>3. CacheOK(D, own)
  BY <1>2, MountedFits DEF CacheOK
<1> QED  BY <1>1, <1>3 DEF AllocOK, FreeOK, CallOK

\* The root's only cluster; f is the place of the file there, if there is one.
LEMMA RootOnly ==
    ASSUME DiskTypes, op = Idle, cache = JustMounted,
           NEW first, NEW own, NEW pos, NEW dep, NEW D, D = {root_cluster},
           pos = [x \in Cluster |-> 0], dep = [x \in Cluster |-> 0],
           first \in Cluster \union {0}, first # root_cluster,
           EntriesOf(D) = IF first = 0 THEN {} ELSE {<<root_cluster, 1>>},
           first # 0 => /\ At(<<root_cluster, 1>>) = Entry(LongShort, FILE, first, 1)
                        /\ unit[first][0] = Data(LongShort, 0),
           own = [x \in Cluster |-> IF x = root_cluster THEN Root
                                    ELSE IF x = first THEN <<root_cluster, 1>> ELSE None],
           \A x \in Cluster : fat[x] = IF x \in {root_cluster, first} THEN EOC ELSE FREE,
           Parses(root_cluster)
    PROVE  Holds(D, own, pos, dep)
<1> DEFINE f == <<root_cluster, 1>>
<1>1. root_cluster \in Cluster /\ D \subseteq Cluster /\ root_cluster # 0
  BY Fat32Assumption DEF root_cluster, Cluster
<1>2. /\ None \notin Owners(D) /\ Freeing \notin Owners(D) /\ Root \notin EntriesOf(D) /\ None # Freeing
      /\ Root # None /\ Root # Freeing
  BY <1>1, OwnersAreNames
<1>3. f \in Place /\ f # Root /\ f # None /\ f # Freeing
  BY <1>1, ClusterSize DEF Place, Root, None, Freeing, root_cluster
<1>4. /\ own[root_cluster] = Root /\ own \in [Cluster -> Labels]
      /\ first # 0 => own[first] = f
      /\ \A x \in Cluster : x # root_cluster /\ x # first => own[x] = None
      /\ \A x \in Cluster : own[x] = Root => x = root_cluster
      /\ \A x \in Cluster : own[x] = f => x = first /\ first # 0
  BY <1>1, <1>2, <1>3 DEF Labels, Cluster
<1>5. /\ pos \in [Cluster -> Nat] /\ dep \in [Cluster -> Nat] /\ \A x \in Cluster : pos[x] = 0
  OBVIOUS
<1>6. Owners(D) = IF first = 0 THEN {Root} ELSE {Root, f}
  BY DEF Owners
<1>7. \A x \in Cluster : own[x] # None => own[x] \in Owners(D) /\ fat[x] = EOC
  BY <1>4, <1>6
<1>8. First(Root) = root_cluster /\ IsDir(Root)
  BY DEF First, IsDir
<1>9. first # 0 => At(f).first = first /\ At(f).type = FILE /\ At(f).size = 1 /\ At(f).name = LongShort
  BY DEF Entry
<1>10. first # 0 => First(f) = first /\ ~ IsDir(f)
  BY <1>3, <1>9 DEF First, IsDir, FILE, DIR
<1>11. WitnessTypes(D, own, pos, dep)
  BY <1>1, <1>4, <1>5 DEF WitnessTypes
<1>12. LinksOK(D, own, pos)
  <2>1. \A x, y \in Cluster : own[x] # None /\ own[x] = own[y] => x = y
    BY <1>4
  <2> QED  BY <2>1, <1>5, <1>7 DEF LinksOK, Linked
<1>13. HeadsOK(D, own, pos)
  BY <1>1, <1>4, <1>5, <1>6, <1>8, <1>10 DEF HeadsOK
<1>14. DirsOK(D, own)
  <2>1. \A x \in D : fat[x] # FREE /\ own[x] = Root
    BY <1>1, <1>4 DEF FREE, EOC
  <2>2. \A x \in Cluster : own[x] \in Owners(D) /\ IsDir(own[x]) => x \in D
    BY <1>4, <1>6, <1>10
  <2> QED  BY <2>1, <2>2, <1>6, <1>8 DEF DirsOK
<1>15. EntriesOK(D)
  BY <1>9 DEF EntriesOK, FILE, DIR
<1>16. ParseOK(D)
  BY <1>1 DEF ParseOK
<1>17. DataOK(D, own, pos)
  <2> SUFFICES ASSUME first # 0, NEW x \in Cluster, own[x] = f
               PROVE  HoldsUpTo(x, pos, LongShort, 1) /\ EndsWithin(x, pos, 1)
    BY <1>9 DEF DataOK
  <2>1. x = first /\ pos[x] = 0
    BY <1>4, <1>5
  <2>2. UnitsPerClus \in Nat /\ UnitsPerClus >= 2
    BY ClusterSize
  <2>3. ASSUME NEW u \in Offset, 0 * UnitsPerClus + u < 1  PROVE u = 0 /\ 0 * UnitsPerClus + u = 0
    <3>1. u \in Nat
      BY DEF Offset
    <3> QED  BY <2>2, <2>3, <3>1
  <2>4. 1 <= (0 + 1) * UnitsPerClus
    BY <2>2
  <2> QED  BY <2>1, <2>3, <2>4 DEF HoldsUpTo, EndsWithin
<1>18. DepthOK(D, own, dep)
  BY <1>2, <1>4 DEF DepthOK
<1>19. DiskOK(D, own, pos, dep)
  BY <1>11, <1>12, <1>13, <1>14, <1>15, <1>16, <1>17, <1>18 DEF DiskOK
<1>20. \A x \in Cluster : own[x] # Freeing
  BY <1>2, <1>3, <1>4
<1>21. NoLeak(own)
  <2>1. \A x \in Cluster : fat[x] # FREE => own[x] # None
    BY <1>2, <1>3, <1>4
  <2> QED  BY <2>1 DEF NoLeak
<1> QED  BY <1>19, <1>20, <1>21, QuietCall DEF Holds

LEMMA InitHolds ==
    ASSUME Init
    PROVE  Fat32Inv
<1>1. cache = JustMounted /\ op = Idle /\ lost = FALSE
  BY DEF Init
<1>2. root_cluster \in Cluster /\ root_cluster + 1 \in Cluster /\ root_cluster + 1 # root_cluster
  BY Fat32Assumption DEF root_cluster, Cluster
<1>3. {0, 1} \subseteq Offset /\ \A u \in Offset : u \in Nat
  BY ClusterSize DEF Offset
<1>4. Zero \in Units /\ Empty \in [Offset -> Units] /\ \A u \in Offset : Empty[u] = Zero
  BY DEF Units, Zero, Empty
<1>5. PICK D : D = {root_cluster}
  OBVIOUS
<1>6. PICK pos : pos = [x \in Cluster |-> 0]
  OBVIOUS
<1>7. CASE /\ fat = [c \in Cluster |-> IF c = root_cluster THEN EOC ELSE FREE]
           /\ unit = [c \in Cluster |-> Empty]
  <2>1. DiskTypes
    BY <1>4, <1>7 DEF DiskTypes
  <2>2. \A c \in Cluster, u \in Offset : unit[c][u] = Zero
    BY <1>4, <1>7
  <2>3. EntriesOf(D) = {}
    <3>1. \A p \in D \X Offset : At(p) = Zero
      BY <2>2, <1>2, <1>5 DEF At
    <3> QED  BY <3>1 DEF EntriesOf, Zero
  <2>4. Parses(root_cluster)
    BY <2>2, <1>2 DEF Parses, Zero
  <2>5. PICK own : own = [x \in Cluster |-> IF x = root_cluster THEN Root
                                    ELSE IF x = 0 THEN <<root_cluster, 1>> ELSE None]
    OBVIOUS
  <2>6. \A x \in Cluster : x # 0 /\ fat[x] = IF x \in {root_cluster, 0} THEN EOC ELSE FREE
    BY <1>7 DEF Cluster
  <2>7. 0 # root_cluster
    BY DEF root_cluster
  <2>8. Holds(D, own, pos, pos)
    BY <2>1, <2>3, <2>4, <2>5, <2>6, <2>7, <1>1, <1>5, <1>6, RootOnly
  <2> QED  BY <2>1, <2>8, <1>1 DEF Fat32Inv
<1>8. CASE /\ fat = [c \in Cluster |-> IF c \in {root_cluster, root_cluster + 1} THEN EOC ELSE FREE]
           /\ unit = [c \in Cluster |->
               CASE c = root_cluster ->
                      [Empty EXCEPT ![0] = Lfn(LongName),
                                    ![1] = Entry(LongShort, FILE, root_cluster + 1, 1)]
                 [] c = root_cluster + 1 -> [Empty EXCEPT ![0] = Data(LongShort, 0)]
                 [] OTHER -> Empty]
  <2>1. /\ unit[root_cluster] = [Empty EXCEPT ![0] = Lfn(LongName),
                                    ![1] = Entry(LongShort, FILE, root_cluster + 1, 1)]
        /\ unit[root_cluster + 1] = [Empty EXCEPT ![0] = Data(LongShort, 0)]
        /\ \A x \in Cluster : x # root_cluster /\ x # root_cluster + 1 => unit[x] = Empty
    BY <1>2, <1>8
  <2>2. Lfn(LongName) \in Units /\ Entry(LongShort, FILE, root_cluster + 1, 1) \in Units /\ Data(LongShort, 0) \in Units
    <3>1. LongShort \in Names /\ FILE \in {FILE, DIR} /\ 1 \in Nat /\ 0 \in Nat
      BY Fat32Assumption
    <3>2. Lfn(LongName) \in Units /\ Data(LongShort, 0) \in Units
      BY <3>1 DEF Units, Lfn, Data
    <3>3. Entry(LongShort, FILE, root_cluster + 1, 1) \in Entries
      BY <3>1, <1>2 DEF Entry, Entries
    <3> QED  BY <3>2, <3>3 DEF Units
  <2>3. /\ unit[root_cluster][0] = Lfn(LongName)
        /\ unit[root_cluster][1] = Entry(LongShort, FILE, root_cluster + 1, 1)
        /\ \A u \in Offset : u # 0 /\ u # 1 => unit[root_cluster][u] = Zero
        /\ unit[root_cluster] \in [Offset -> Units]
    BY <2>1, <2>2, <1>3, <1>4
  <2>4. unit[root_cluster + 1][0] = Data(LongShort, 0) /\ unit[root_cluster + 1] \in [Offset -> Units]
    BY <2>1, <2>2, <1>3, <1>4
  <2>5. DiskTypes
    <3>1. \A x \in Cluster : unit[x] \in [Offset -> Units]
      BY <2>1, <2>3, <2>4, <1>4
    <3>2. unit \in [Cluster -> [Offset -> Units]]
      BY <3>1, <1>8
    <3> QED  BY <3>2, <1>8 DEF DiskTypes
  <2>6. EntriesOf(D) = {<<root_cluster, 1>>}
    <3>1. ASSUME NEW p \in D \X Offset  PROVE At(p).kind = "entry" <=> p = <<root_cluster, 1>>
      <4>1. p = <<root_cluster, p[2]>> /\ p[2] \in Offset /\ At(p) = unit[root_cluster][p[2]]
        BY <1>5 DEF At
      <4>2. CASE p[2] = 1
        BY <4>1, <4>2, <2>3 DEF Entry
      <4>3. CASE p[2] = 0
        BY <4>1, <4>3, <2>3 DEF Lfn
      <4>4. CASE p[2] # 0 /\ p[2] # 1
        BY <4>1, <4>4, <2>3 DEF Zero
      <4> QED  BY <4>2, <4>3, <4>4
    <3>2. <<root_cluster, 1>> \in D \X Offset
      BY <1>3, <1>5
    <3> QED  BY <3>1, <3>2 DEF EntriesOf
  <2>7. Parses(root_cluster)
    <3>1. \A u \in Offset : unit[root_cluster][u].kind # "data"
      BY <2>3 DEF Lfn, Entry, Zero
    <3>2. ASSUME NEW u \in Offset, NEW v \in Offset, u < v, unit[root_cluster][u] = Zero
          PROVE  unit[root_cluster][v] = Zero
      <4>1. Lfn(LongName) # Zero /\ Entry(LongShort, FILE, root_cluster + 1, 1) # Zero
        <5>1. Zero.kind = "zero" /\ Lfn(LongName).kind = "lfn" /\ Entry(LongShort, FILE, root_cluster + 1, 1).kind = "entry"
          BY DEF Zero, Lfn, Entry
        <5> QED  BY <5>1
      <4>2. u # 0 /\ u # 1
        BY <4>1, <3>2, <2>3
      <4>3. v # 0 /\ v # 1
        BY <4>2, <3>2, <1>3
      <4> QED  BY <4>3, <2>3
    <3> QED  BY <3>1, <3>2 DEF Parses
  <2>8. PICK first : first = root_cluster + 1
    OBVIOUS
  <2>9. PICK own : own = [x \in Cluster |-> IF x = root_cluster THEN Root
                                    ELSE IF x = first THEN <<root_cluster, 1>> ELSE None]
    OBVIOUS
  <2>10. \A x \in Cluster : fat[x] = IF x \in {root_cluster, first} THEN EOC ELSE FREE
    BY <2>8, <1>8
  <2>11. first \in Cluster \union {0} /\ first # root_cluster /\ first # 0
    BY <2>8, <1>2 DEF Cluster
  <2>12. At(<<root_cluster, 1>>) = Entry(LongShort, FILE, first, 1) /\ unit[first][0] = Data(LongShort, 0)
    BY <2>3, <2>4, <2>8 DEF At
  <2>13. Holds(D, own, pos, pos)
    BY <2>5, <2>6, <2>7, <2>9, <2>10, <2>11, <2>12, <1>1, <1>5, <1>6, RootOnly
  <2> QED  BY <2>5, <2>13, <1>1 DEF Fat32Inv
<1> QED  BY <1>1, <1>7, <1>8 DEF Init

-----------------------------------------------------------------------------
(* A directory gets an entry. *)

\* Entry e is written into u, the first free slot of c, a cluster of directory
\* o; k is 0 or the cluster of the directory that e stands for.
Enters(c, u, o, k, e, D, own, pos, dep) ==
    /\ DiskTypes /\ DiskOK(D, own, pos, dep)
    /\ c \in Cluster /\ o \in Owners(D) /\ IsDir(o) /\ own[c] = o
    /\ u \in FreeSlots(c) /\ \A v \in FreeSlots(c) : u <= v
    /\ e \in Entries /\ e.first = k /\ e.size = 0 /\ (e.type = DIR <=> k # 0)
    /\ k # 0 => ReadyDir(k, D, own)
    /\ fat' = fat /\ unit' = Put(<<c, u>>, e)
Entered(c, u, o, k, e, D, own, pos, dep, D2, own2, pos2, dep2) ==
    /\ D2 = IF k = 0 THEN D ELSE D \union {k}
    /\ own2 = [own EXCEPT ![k] = <<c, u>>]
    /\ pos2 = [pos EXCEPT ![k] = 0]
    /\ dep2 = [dep EXCEPT ![k] = dep[c] + 1]
\* What there is, place included.
GainsEntry(place, e, D, own, D2, own2) ==
    /\ EntriesOf(D2)' = EntriesOf(D) \union {place}
    /\ place \in Place /\ place \notin EntriesOf(D) /\ At(place)' = e /\ own2[place[1]] = own[place[1]]
    /\ \A p \in EntriesOf(D) : At(p)' = At(p) /\ own2[p[1]] = own[p[1]]

LEMMA EntryDisk ==
    ASSUME NEW D, NEW own, NEW pos, NEW dep, NEW c, NEW u, NEW o, NEW k, NEW e,
           Enters(c, u, o, k, e, D, own, pos, dep),
           NEW D2, NEW own2, NEW pos2, NEW dep2,
           Entered(c, u, o, k, e, D, own, pos, dep, D2, own2, pos2, dep2)
    PROVE  DiskTypes' /\ DiskOK(D2, own2, pos2, dep2)' /\ GainsEntry(<<c, u>>, e, D, own, D2, own2)
<1>1. /\ DiskTypes /\ DiskOK(D, own, pos, dep)
      /\ c \in Cluster /\ o \in Owners(D) /\ IsDir(o) /\ own[c] = o
      /\ u \in FreeSlots(c) /\ \A v \in FreeSlots(c) : u <= v
      /\ e \in Entries /\ e.first = k /\ e.size = 0 /\ (e.type = DIR <=> k # 0)
      /\ k # 0 => ReadyDir(k, D, own)
      /\ fat' = fat /\ unit' = Put(<<c, u>>, e)
  BY DEF Enters
<1>2. /\ D2 = IF k = 0 THEN D ELSE D \union {k}
      /\ own2 = [own EXCEPT ![k] = <<c, u>>]
      /\ pos2 = [pos EXCEPT ![k] = 0]
      /\ dep2 = [dep EXCEPT ![k] = dep[c] + 1]
  BY DEF Entered
<1>3. /\ WitnessTypes(D, own, pos, dep) /\ D \subseteq Cluster
      /\ LinksOK(D, own, pos) /\ HeadsOK(D, own, pos) /\ DirsOK(D, own) /\ EntriesOK(D) /\ ParseOK(D)
      /\ DataOK(D, own, pos) /\ DepthOK(D, own, dep)
  BY <1>1 DEF DiskOK, WitnessTypes
<1>4. PICK place : place = <<c, u>>
  OBVIOUS
<1>5. u \in Offset /\ unit[c][u] \in {Zero, Deleted} /\ c \in D
  BY <1>1, <1>3 DEF FreeSlots, DirsOK
<1>6. place \in Place /\ place[1] = c /\ place[2] = u /\ place \notin EntriesOf(D)
  <2>1. At(place).kind # "entry"
    BY <1>4, <1>5 DEF At, Zero, Deleted
  <2> QED  BY <2>1, <1>1, <1>4, <1>5 DEF Place, EntriesOf
<1>7. /\ None \notin Owners(D) /\ Freeing \notin Owners(D) /\ o # None
      /\ place # None /\ place # Freeing /\ place # Root /\ place \notin Owners(D)
  <2>1. None \notin Owners(D) /\ Freeing \notin Owners(D)
    BY <1>3, OwnersAreNames
  <2>2. place # None /\ place # Freeing /\ place # Root
    BY <1>1, <1>4 DEF None, Freeing, Root, Cluster
  <2> QED  BY <2>1, <2>2, <1>1, <1>6 DEF Owners
<1>8. k # 0 => /\ k \in Cluster /\ k \notin D /\ k # c /\ own[k] = None /\ fat[k] = EOC /\ Parses(k)
               /\ \A v \in Offset : unit[k][v].kind # "entry"
  BY <1>1, <1>5 DEF ReadyDir, Fresh
<1>9. /\ \A x \in Cluster : x # k => own2[x] = own[x] /\ pos2[x] = pos[x] /\ dep2[x] = dep[x]
      /\ k # 0 => own2[k] = place /\ pos2[k] = 0 /\ dep2[k] = dep[c] + 1
      /\ own2 \in [Cluster -> Labels] /\ pos2 \in [Cluster -> Nat] /\ dep2 \in [Cluster -> Nat]
      /\ \A x \in Cluster : x # 0
  <2>1. own \in [Cluster -> Labels] /\ pos \in [Cluster -> Nat] /\ dep \in [Cluster -> Nat]
    BY <1>3 DEF WitnessTypes
  <2>2. place \in Labels /\ dep[c] \in Nat /\ dep[c] + 1 \in Nat
    BY <2>1, <1>1, <1>6 DEF Labels
  <2>3. \A x \in Cluster : x # 0
    BY DEF Cluster
  <2>4. own2 \in [Cluster -> Labels] /\ pos2 \in [Cluster -> Nat] /\ dep2 \in [Cluster -> Nat]
    BY <2>1, <2>2, <1>2, <1>4
  <2>5. \A x \in Cluster : x # k => own2[x] = own[x] /\ pos2[x] = pos[x] /\ dep2[x] = dep[x]
    BY <2>1, <1>2
  <2>6. k # 0 => own2[k] = place /\ pos2[k] = 0 /\ dep2[k] = dep[c] + 1
    BY <2>1, <1>2, <1>4, <1>8
  <2> QED  BY <2>3, <2>4, <2>5, <2>6
<1>10. D2 \subseteq Cluster /\ D \subseteq D2 /\ \A x \in D2 : x \in D \/ (x = k /\ k # 0)
  BY <1>2, <1>3, <1>8
<1>11. \A x \in Cluster : own[x] # place
  BY <1>3, <1>7 DEF LinksOK
<1>12. /\ unit'[c][u] = e /\ \A v \in Offset : v # u => unit'[c][v] = unit[c][v]
       /\ \A x \in Cluster : x # c => unit'[x] = unit[x]
       /\ unit' \in [Cluster -> [Offset -> Units]]
  <2>1. unit \in [Cluster -> [Offset -> Units]]
    BY <1>1 DEF DiskTypes
  <2>2. unit' = [unit EXCEPT ![c] = [unit[c] EXCEPT ![u] = e]]
    BY <1>1 DEF Put
  <2>3. unit'[c] = [unit[c] EXCEPT ![u] = e] /\ \A x \in Cluster : x # c => unit'[x] = unit[x]
    BY <2>1, <2>2, <1>1
  <2>4. unit'[c] \in [Offset -> Units]
    BY <2>1, <2>3, <1>1, <1>5 DEF Units
  <2>5. unit' \in [Cluster -> [Offset -> Units]]
    BY <2>1, <2>2, <2>3, <2>4, <1>1
  <2>6. unit[c] \in [Offset -> Units]
    BY <2>1, <1>1
  <2>7. unit'[c][u] = e /\ \A v \in Offset : v # u => unit'[c][v] = unit[c][v]
    BY <2>3, <2>6, <1>1, <1>5
  <2> QED  BY <2>3, <2>5, <2>7
<1>13. DiskTypes'
  BY <1>1, <1>12 DEF DiskTypes
<1>14. At(place)' = e /\ e.kind = "entry" /\ e # Zero
  BY <1>1, <1>4, <1>12 DEF At, Entries, Zero
<1>15. ASSUME NEW p \in Cluster \X Offset, p # place  PROVE At(p)' = At(p)
  <2>1. p = <<p[1], p[2]>> /\ p[1] \in Cluster /\ p[2] \in Offset
    BY <1>15
  <2>2. p[1] # c \/ p[2] # u
    BY <2>1, <1>4, <1>15
  <2> QED  BY <2>1, <2>2, <1>12 DEF At
<1>16. EntriesOf(D2)' = EntriesOf(D) \union {place}
  <2>1. EntriesOf(D2)' = {p \in D2 \X Offset : At(p)'.kind = "entry"}
    BY DEF EntriesOf
  <2>2. ASSUME NEW p \in D2 \X Offset
        PROVE  At(p)'.kind = "entry" <=> p = place \/ p \in EntriesOf(D)
    <3>1. p \in Cluster \X Offset /\ p = <<p[1], p[2]>> /\ p[1] \in D2
      BY <2>2, <1>10
    <3>2. CASE p = place
      BY <3>2, <1>14
    <3>3. CASE p # place /\ p[1] \in D
      BY <3>1, <3>3, <1>15 DEF EntriesOf
    <3>4. CASE p # place /\ p[1] \notin D
      <4>1. p[1] = k /\ k # 0
        BY <3>1, <3>4, <1>10
      <4>2. At(p).kind # "entry"
        BY <4>1, <3>1, <1>8 DEF At
      <4> QED  BY <4>2, <3>1, <3>4, <1>15 DEF EntriesOf
    <3> QED  BY <3>2, <3>3, <3>4
  <2>3. place \in D2 \X Offset
    BY <1>4, <1>5, <1>10
  <2>4. EntriesOf(D) \subseteq D2 \X Offset
    BY <1>10 DEF EntriesOf
  <2> QED  BY <2>1, <2>2, <2>3, <2>4
<1>17. \A p \in EntriesOf(D) : At(p)' = At(p) /\ own2[p[1]] = own[p[1]] /\ p[1] # k /\ p[1] \in D /\ p \in Place
  <2> SUFFICES ASSUME NEW p \in EntriesOf(D)
               PROVE  At(p)' = At(p) /\ own2[p[1]] = own[p[1]] /\ p[1] # k /\ p[1] \in D /\ p \in Place
    OBVIOUS
  <2>1. p \in Cluster \X Offset /\ p[1] \in D /\ p # place
    BY <1>3, <1>6 DEF EntriesOf
  <2>2. p[1] # k
    BY <2>1, <1>3, <1>8, <1>9
  <2> QED  BY <2>1, <2>2, <1>3, <1>9, <1>15 DEF Place
<1>18. Owners(D2)' = Owners(D) \union {place}
  BY <1>16 DEF Owners
<1>19. \A p \in Owners(D) : First(p)' = First(p) /\ IsDir(p)' = IsDir(p)
  BY <1>17 DEF Owners, First, IsDir
<1>20. First(place)' = k /\ IsDir(place)' = (k # 0)
  BY <1>1, <1>7, <1>14 DEF First, IsDir
<1>21. LinksOK(D2, own2, pos2)'
  <2>1. \A x \in Cluster : own2[x] # None => own2[x] \in Owners(D2)' \union {Freeing}
    BY <1>3, <1>9, <1>18 DEF LinksOK
  <2>2. ASSUME NEW x \in Cluster, own2[x] # None  PROVE Linked(x, own2, pos2)'
    <3>1. CASE x = k
      BY <3>1, <1>1, <1>8, <1>9 DEF Linked
    <3>2. CASE x # k
      <4>1. own[x] # None /\ Linked(x, own, pos)
        BY <3>2, <2>2, <1>3, <1>9 DEF LinksOK
      <4>2. fat[x] # EOC => fat[x] # k
        BY <4>1, <1>8, <1>9 DEF Linked
      <4> QED  BY <4>1, <4>2, <3>2, <1>1, <1>9 DEF Linked
    <3> QED  BY <3>1, <3>2
  <2>3. ASSUME NEW x \in Cluster, NEW y \in Cluster, own2[x] # None, own2[x] = own2[y]
        PROVE  /\ pos2[x] = pos2[y] => x = y
               /\ fat'[x] = EOC => pos2[y] <= pos2[x]
    <3>1. CASE x = k
      <4>1. y = k
        BY <3>1, <2>3, <1>9, <1>11
      <4> QED  BY <4>1, <3>1, <1>9
    <3>2. CASE x # k
      <4>1. y # k
        BY <3>2, <2>3, <1>9, <1>11
      <4> QED  BY <4>1, <3>2, <2>3, <1>1, <1>3, <1>9 DEF LinksOK
    <3> QED  BY <3>1, <3>2
  <2> QED  BY <2>1, <2>2, <2>3 DEF LinksOK
<1>22. HeadsOK(D2, own2, pos2)'
  <2>1. ASSUME NEW p \in Owners(D2)', First(p)' # 0
        PROVE  First(p)' \in Cluster /\ own2[First(p)'] = p /\ pos2[First(p)'] = 0
    <3>1. CASE p = place
      BY <3>1, <2>1, <1>8, <1>9, <1>20
    <3>2. CASE p # place
      <4>1. p \in Owners(D)
        BY <3>2, <1>18
      <4>2. First(p)' = First(p) /\ First(p) \in Cluster /\ own[First(p)] = p /\ pos[First(p)] = 0
        BY <4>1, <2>1, <1>3, <1>19 DEF HeadsOK
      <4>3. p # None
        BY <4>1, <1>7
      <4>4. First(p) # k
        BY <4>2, <4>3, <1>8, <1>9
      <4> QED  BY <4>2, <4>4, <1>9
    <3> QED  BY <3>1, <3>2
  <2>2. ASSUME NEW x \in Cluster, own2[x] \in Owners(D2)'  PROVE First(own2[x])' # 0
    <3>1. CASE x = k
      BY <3>1, <1>9, <1>20
    <3>2. CASE x # k
      <4>1. own2[x] = own[x] /\ own[x] # place
        BY <3>2, <1>9, <1>11
      <4>2. own[x] \in Owners(D)
        BY <4>1, <2>2, <1>18
      <4>3. First(own[x]) # 0
        BY <4>2, <1>3 DEF HeadsOK
      <4> QED  BY <4>1, <4>2, <4>3, <1>19
    <3> QED  BY <3>1, <3>2
  <2> QED  BY <2>1, <2>2 DEF HeadsOK
<1>23. DirsOK(D2, own2)'
  <2>1. ASSUME NEW x \in D2
        PROVE  fat'[x] # FREE /\ (own2[x] # None => own2[x] \in Owners(D2)' /\ IsDir(own2[x])')
    <3>1. CASE x = k /\ k # 0
      <4>1. fat'[x] # FREE
        BY <3>1, <1>1, <1>8 DEF EOC, FREE
      <4>2. own2[x] = place /\ IsDir(place)'
        BY <3>1, <1>9, <1>20
      <4> QED  BY <4>1, <4>2, <1>18
    <3>2. CASE ~ (x = k /\ k # 0)
      <4>1. x \in D /\ x \in Cluster /\ x # k
        BY <3>2, <2>1, <1>3, <1>9, <1>10
      <4>2. own2[x] = own[x] /\ fat'[x] = fat[x]
        BY <4>1, <1>1, <1>9
      <4>3. fat[x] # FREE /\ (own[x] # None => own[x] \in Owners(D) /\ IsDir(own[x]))
        BY <4>1, <1>3 DEF DirsOK
      <4> QED  BY <4>2, <4>3, <1>18, <1>19
    <3> QED  BY <3>1, <3>2
  <2>2. ASSUME NEW x \in Cluster, own2[x] \in Owners(D2)', IsDir(own2[x])'  PROVE x \in D2
    <3>1. CASE x = k
      BY <3>1, <1>2, <1>9
    <3>2. CASE x # k
      <4>1. own2[x] = own[x] /\ own[x] # place
        BY <3>2, <1>9, <1>11
      <4>2. own[x] \in Owners(D)
        BY <4>1, <2>2, <1>18
      <4>3. IsDir(own[x])
        BY <4>1, <4>2, <2>2, <1>19
      <4> QED  BY <4>2, <4>3, <1>3, <1>10 DEF DirsOK
    <3> QED  BY <3>1, <3>2
  <2> QED  BY <2>1, <2>2 DEF DirsOK
<1>24. EntriesOK(D2)'
  <2> SUFFICES ASSUME NEW p \in EntriesOf(D2)'
               PROVE  /\ At(p)'.type = DIR => At(p)'.first # 0
                      /\ At(p)'.first = 0 => At(p)'.size = 0
    BY DEF EntriesOK
  <2>1. CASE p = place
    BY <2>1, <1>1, <1>14
  <2>2. CASE p # place
    BY <2>2, <1>3, <1>16, <1>17 DEF EntriesOK
  <2> QED  BY <2>1, <2>2
<1>25. ParseOK(D2)'
  <2> SUFFICES ASSUME NEW x \in D2
               PROVE  /\ \A v \in Offset : unit'[x][v].kind # "data"
                      /\ \A v, w \in Offset : v < w /\ unit'[x][v] = Zero => unit'[x][w] = Zero
                      /\ fat[x] # EOC => \A v \in Offset : unit'[x][v] # Zero
    BY <1>1 DEF ParseOK, Parses
  <2>1. CASE x = c
    <3>1. Parses(c) /\ (fat[c] # EOC => \A v \in Offset : unit[c][v] # Zero)
      BY <1>3, <1>5 DEF ParseOK
    <3>2. \A v \in Offset : unit'[c][v].kind # "data"
      BY <3>1, <1>12, <1>14 DEF Parses
    <3>3. ASSUME NEW v \in Offset, NEW w \in Offset, v < w, unit'[c][v] = Zero  PROVE unit'[c][w] = Zero
      <4>1. v # u /\ unit[c][v] = Zero
        BY <3>3, <1>12, <1>14
      <4>2. v \in FreeSlots(c)
        BY <4>1 DEF FreeSlots
      <4>3. u <= v
        BY <4>2, <1>1
      <4>4. w # u
        BY <4>3, <3>3, <1>5 DEF Offset
      <4> QED  BY <4>1, <4>4, <3>1, <3>3, <1>12 DEF Parses
    <3>4. fat[c] # EOC => \A v \in Offset : unit'[c][v] # Zero
      BY <3>1, <1>12, <1>14
    <3> QED  BY <3>2, <3>3, <3>4, <2>1
  <2>2. CASE x # c
    <3>1. x \in Cluster /\ unit'[x] = unit[x]
      BY <2>2, <1>10, <1>12
    <3>2. Parses(x) /\ (fat[x] # EOC => \A v \in Offset : unit[x][v] # Zero)
      BY <1>3, <1>8, <1>10 DEF ParseOK
    <3> QED  BY <3>1, <3>2 DEF Parses
  <2> QED  BY <2>1, <2>2
<1>26. DataOK(D2, own2, pos2)'
  <2> SUFFICES ASSUME NEW p \in EntriesOf(D2)', At(p)'.type = FILE, NEW x \in Cluster, own2[x] = p
               PROVE  (HoldsUpTo(x, pos2, At(p).name, At(p).size) /\ EndsWithin(x, pos2, At(p).size))'
    BY DEF DataOK
  <2>1. p # place
    <3>1. ASSUME p = place  PROVE FALSE
      <4>1. x = k
        BY <3>1, <1>9, <1>11
      <4>2. e.type = DIR
        BY <4>1, <1>1, <1>9
      <4> QED  BY <4>2, <3>1, <1>14 DEF FILE, DIR
    <3> QED  BY <3>1
  <2>2. p \in EntriesOf(D) /\ At(p)' = At(p) /\ x # k
    BY <2>1, <1>9, <1>16, <1>17
  <2>3. own[x] = p
    BY <2>2, <1>9
  <2>4. x \notin D
    BY <2>2, <2>3, <1>3, FileIsNoDir
  <2>5. unit'[x] = unit[x] /\ pos2[x] = pos[x]
    BY <2>2, <2>4, <1>5, <1>9, <1>12
  <2>6. HoldsUpTo(x, pos, At(p).name, At(p).size) /\ EndsWithin(x, pos, At(p).size)
    BY <2>2, <2>3, <1>3 DEF DataOK
  <2> QED  BY <2>2, <2>5, <2>6, <1>1 DEF HoldsUpTo, EndsWithin
<1>27. DepthOK(D2, own2, dep2)'
  <2> SUFFICES ASSUME NEW x \in D2, own2[x] \in EntriesOf(D2)'  PROVE dep2[own2[x][1]] < dep2[x]
    BY DEF DepthOK
  <2>1. CASE x = k /\ k # 0
    <3>1. own2[x][1] = c /\ dep2[c] = dep[c] /\ dep2[x] = dep[c] + 1
      BY <2>1, <1>1, <1>6, <1>8, <1>9
    <3>2. dep[c] \in Nat
      BY <1>1, <1>3 DEF WitnessTypes
    <3> QED  BY <3>1, <3>2
  <2>2. CASE ~ (x = k /\ k # 0)
    <3>1. x \in D /\ x \in Cluster /\ x # k
      BY <2>2, <1>3, <1>9, <1>10
    <3>2. own2[x] = own[x] /\ own[x] \in EntriesOf(D) /\ dep2[x] = dep[x]
      BY <3>1, <1>9, <1>11, <1>16
    <3>3. own[x][1] \in Cluster /\ own[x][1] # k
      BY <3>2, <1>3, <1>17
    <3> QED  BY <3>1, <3>2, <3>3, <1>3, <1>9 DEF DepthOK
  <2> QED  BY <2>1, <2>2
<1>28. WitnessTypes(D2, own2, pos2, dep2)'
  BY <1>9, <1>10 DEF WitnessTypes
<1>29. DiskOK(D2, own2, pos2, dep2)'
  BY <1>21, <1>22, <1>23, <1>24, <1>25, <1>26, <1>27, <1>28 DEF DiskOK
<1>30. own2[c] = own[c]
  BY <1>1, <1>8, <1>9
<1> QED  BY <1>4, <1>6, <1>13, <1>14, <1>16, <1>17, <1>29, <1>30 DEF GainsEntry

\* The new entry's node, when there is memory for one.
LEMMA RegisteredFits ==
    ASSUME NEW D, NEW own, CacheFits(cache, {}, D), ChildrenFit(cache, own),
           NEW place, NEW e, NEW D2, NEW own2, GainsEntry(place, e, D, own, D2, own2),
           op \in Creates, op.dir \in DOMAIN cache, cache[op.dir].children_loaded, own[place[1]] = op.dir,
           e.type = op.type, e.first = op.new_cluster, e.size = 0,
           NEW ca, ca = Registered(place, TRUE)
    PROVE  /\ CacheFits(ca, {}, D2)' /\ ChildrenFit(ca, own2)
           /\ WholeFits(cache, {}, D, own) /\ ca[op.dir].children # cache[op.dir].children
                => WholeFits(ca, {}, D2, own2)'
<1>1. PICK d : d = op.dir
  OBVIOUS
<1>2. PICK node : node = NewNode(op.name, op.type, op.new_cluster, 0, d)
  OBVIOUS
<1>3. PICK fits : fits = (Cardinality(cache[d].children) < FAT32_MAX_DIR_CHILDREN)
  OBVIOUS
<1>4. /\ EntriesOf(D2)' = EntriesOf(D) \union {place}
      /\ place \in Place /\ place \notin EntriesOf(D) /\ At(place)' = e /\ own2[place[1]] = own[place[1]]
      /\ \A p \in EntriesOf(D) : At(p)' = At(p) /\ own2[p[1]] = own[p[1]]
  BY DEF GainsEntry
<1>5. ca = [n \in DOMAIN cache \union {place} |->
              IF n = place THEN node
              ELSE IF n = d /\ fits THEN [cache[n] EXCEPT !.children = @ \union {place}]
              ELSE cache[n]]
  BY <1>1, <1>2, <1>3 DEF Registered
<1>6. /\ cache \in [DOMAIN cache -> Nodes] /\ Root \in DOMAIN cache
      /\ cache[Root].type = DIR /\ cache[Root].first_cluster = 0
      /\ \A n \in DOMAIN cache : n # Root => n \in EntriesOf(D) /\ Agrees(cache, n)
  BY DEF CacheFits
<1>7. place # Root /\ place \notin DOMAIN cache /\ d \in DOMAIN cache
  <2>1. place # Root
    BY <1>4 DEF Place, Root, Cluster
  <2> QED  BY <2>1, <1>1, <1>4, <1>6
<1>8. /\ DOMAIN ca = DOMAIN cache \union {place} /\ ca[place] = node
      /\ \A n \in DOMAIN cache : n # d => ca[n] = cache[n]
      /\ ca[d] = IF fits THEN [cache[d] EXCEPT !.children = @ \union {place}] ELSE cache[d]
  BY <1>5, <1>7
<1>9. node \in Nodes /\ node.type = e.type /\ node.first_cluster = e.first /\ node.file_size = e.size
      /\ node.parent = d /\ node.children_loaded = FALSE /\ node.children = {}
  <2>1. /\ op.name \in AnyName /\ op.type \in {FILE, DIR} /\ op.new_cluster \in Cluster \union {0}
        /\ d \in Place \union {Root}
    BY <1>1 DEF Creates, AnyName
  <2>2. {} \in SUBSET Place /\ FALSE \in BOOLEAN /\ 0 \in Nat
    OBVIOUS
  <2>3. node \in Nodes
    BY ONLY <2>1, <2>2, <1>2 DEF NewNode, Nodes
  <2> QED  BY <2>3, <1>2 DEF NewNode
<1>10. cache[d] \in Nodes /\ \A n \in DOMAIN cache : cache[n] \in Nodes
  BY <1>6, <1>7
<1>11. /\ ca[d] \in Nodes /\ ca[d].type = cache[d].type /\ ca[d].parent = cache[d].parent
       /\ ca[d].first_cluster = cache[d].first_cluster /\ ca[d].file_size = cache[d].file_size
       /\ ca[d].children_loaded = cache[d].children_loaded
       /\ ca[d].children = cache[d].children \union (IF fits THEN {place} ELSE {})
  <2>1. CASE fits
    <3>1. ca[d] = [cache[d] EXCEPT !.children = @ \union {place}]
      BY <2>1, <1>8
    <3>2. cache[d].children \in SUBSET Place /\ cache[d] \in Nodes
      BY <1>10 DEF Nodes
    <3>3. PICK kids : kids = cache[d].children \union {place}
      OBVIOUS
    <3>4. kids \in SUBSET Place
      BY <3>2, <3>3, <1>4
    <3>5. ca[d] = [cache[d] EXCEPT !.children = kids]
      BY <3>1, <3>3
    <3>6. /\ ca[d] \in Nodes /\ ca[d].type = cache[d].type /\ ca[d].parent = cache[d].parent
          /\ ca[d].first_cluster = cache[d].first_cluster /\ ca[d].file_size = cache[d].file_size
          /\ ca[d].children_loaded = cache[d].children_loaded /\ ca[d].children = kids
      BY ONLY <3>2, <3>4, <3>5 DEF Nodes
    <3> QED  BY <3>3, <3>6, <2>1
  <2>2. CASE ~ fits
    BY <2>2, <1>8, <1>10
  <2> QED  BY <2>1, <2>2
<1>12. \A n \in DOMAIN cache : /\ ca[n].type = cache[n].type /\ ca[n].parent = cache[n].parent
                               /\ ca[n].first_cluster = cache[n].first_cluster
                               /\ ca[n].file_size = cache[n].file_size
                               /\ ca[n].children_loaded = cache[n].children_loaded
                               /\ cache[n].children \subseteq ca[n].children
  BY <1>8, <1>11
<1>13. CacheFits(ca, {}, D2)'
  <2>1. ca \in [DOMAIN ca -> Nodes]
    BY <1>5, <1>8, <1>9, <1>10, <1>11
  <2>2. Root \in DOMAIN ca /\ ca[Root].type = DIR /\ ca[Root].first_cluster = 0
    BY <1>6, <1>8, <1>12
  <2>3. ASSUME NEW n \in DOMAIN ca, n # Root
        PROVE  n \in EntriesOf(D2)' /\ Agrees(ca, n)'
    <3>1. CASE n = place
      BY <3>1, <1>4, <1>8, <1>9 DEF Agrees
    <3>2. CASE n # place
      <4>1. n \in DOMAIN cache /\ n \in EntriesOf(D) /\ Agrees(cache, n)
        BY <3>2, <2>3, <1>6, <1>8
      <4> QED  BY <4>1, <1>4, <1>12 DEF Agrees
    <3> QED  BY <3>1, <3>2
  <2> QED  BY <2>1, <2>2, <2>3 DEF CacheFits
<1>14. ChildrenFit(ca, own2)
  <2>0. DOMAIN ca = DOMAIN cache \union {place}
    BY <1>8
  <2>1. Known(cache) \subseteq Known(ca)
    <3>1. \A x \in DOMAIN cache : x \in DOMAIN ca /\ cache[x].children \subseteq ca[x].children
      BY <2>0, <1>12
    <3>2. ASSUME NEW n \in Known(cache), n # Root  PROVE n \in Known(ca)
      <4>1. PICK x \in DOMAIN cache : n \in cache[x].children
        BY <3>2 DEF Known
      <4>2. x \in DOMAIN ca /\ n \in ca[x].children
        BY <4>1, <3>1
      <4> QED  BY <4>2 DEF Known
    <3> QED  BY <3>2 DEF Known
  <2> SUFFICES ASSUME NEW x \in DOMAIN ca
               PROVE  /\ ~ ca[x].children_loaded => ca[x].children = {}
                      /\ ca[x].children_loaded => ca[x].type = DIR /\ x \in Known(ca)
                      /\ \A n \in ca[x].children : n \in DOMAIN ca /\ ca[n].parent = x /\ own2[n[1]] = x
    BY DEF ChildrenFit
  <2>2. CASE x = place
    BY <2>2, <1>8, <1>9
  <2>3. CASE x # place
    <3>1. x \in DOMAIN cache
      BY <2>3, <1>8
    <3>2. /\ ~ cache[x].children_loaded => cache[x].children = {}
          /\ cache[x].children_loaded => cache[x].type = DIR /\ x \in Known(cache)
          /\ \A n \in cache[x].children : n \in DOMAIN cache /\ cache[n].parent = x /\ own[n[1]] = x
      BY <3>1 DEF ChildrenFit
    <3>3. ASSUME NEW n \in cache[x].children
          PROVE  n \in DOMAIN ca /\ ca[n].parent = x /\ own2[n[1]] = x
      <4>1. n \in DOMAIN cache /\ cache[n].parent = x /\ own[n[1]] = x
        BY <3>2
      <4>2. n # Root
        BY <3>1, ChildrenAreEntries
      <4>3. own2[n[1]] = own[n[1]]
        BY <4>1, <4>2, <1>4, <1>6
      <4>4. ca[n].parent = cache[n].parent
        BY <4>1, <1>12
      <4> QED  BY <4>1, <4>3, <4>4, <2>0
    <3>4. CASE x # d
      <4>1. ca[x] = cache[x]
        BY <3>1, <3>4, <1>8
      <4> QED  BY <4>1, <3>2, <3>3, <2>1
    <3>5. CASE x = d
      <4>1. ca[x].children_loaded /\ ca[x].type = DIR /\ x \in Known(ca)
        BY <3>1, <3>2, <3>5, <2>1, <1>1, <1>12
      <4>2. place \in DOMAIN ca /\ ca[place].parent = x /\ own2[place[1]] = x
        BY <3>5, <1>1, <1>4, <1>8, <1>9
      <4>3. \A n \in ca[x].children : n \in cache[x].children \/ n = place
        BY <3>5, <1>11
      <4> QED  BY <4>1, <4>2, <4>3, <3>3
    <3> QED  BY <3>4, <3>5
  <2> QED  BY <2>2, <2>3
<1>15. ASSUME WholeFits(cache, {}, D, own), ca[op.dir].children # cache[op.dir].children
       PROVE  WholeFits(ca, {}, D2, own2)'
  <2>1. ca[d].children = cache[d].children \union {place}
    BY <1>1, <1>11, <1>15
  <2> SUFFICES ASSUME NEW x \in DOMAIN ca, ca[x].children_loaded
               PROVE  ca[x].children = {p \in EntriesOf(D2)' : own2[p[1]] = x}
    BY DEF WholeFits
  <2>2. x # place /\ x \in DOMAIN cache
    BY <1>8, <1>9, <2>1
  <2>3. cache[x].children_loaded
    BY <2>2, <1>12
  <2>4. cache[x].children = {p \in EntriesOf(D) : own[p[1]] = x}
    BY <2>2, <2>3, <1>15 DEF WholeFits
  <2>5. {p \in EntriesOf(D2)' : own2[p[1]] = x}
          = {p \in EntriesOf(D) : own[p[1]] = x} \union (IF x = d THEN {place} ELSE {})
    BY <1>1, <1>4
  <2>6. ca[x].children = cache[x].children \union (IF x = d THEN {place} ELSE {})
    BY <2>1, <2>2, <1>8
  <2> QED  BY <2>4, <2>5, <2>6
<1> QED  BY <1>13, <1>14, <1>15

LEMMA WriteEntryStep ==
    ASSUME lost \in BOOLEAN, DiskTypes, NEW D, NEW own, NEW pos, NEW dep, Holds(D, own, pos, dep), WriteEntry
    PROVE  lost' \in BOOLEAN /\ DiskTypes' /\ \E D2, own2, pos2, dep2 : Holds(D2, own2, pos2, dep2)'
<1>1. op.pc = "walk" /\ op.call = "create" /\ op # Idle /\ fat' = fat /\ op' = Idle /\ FreeSlots(op.cluster) # {}
  BY DEF WriteEntry, Idle
<1>2. CreateOK(D, own, pos) /\ op \in Creates
  <2>1. op \notin Writes /\ op \notin Unlinks
    BY <1>1 DEF Writes, Unlinks
  <2> QED  BY <2>1, <1>1, CallKinds DEF Holds
<1>3. PICK c : c = op.cluster
  OBVIOUS
<1>4. PICK k : k = op.new_cluster
  OBVIOUS
<1>5. PICK o : o = op.dir
  OBVIOUS
<1>6. PICK e : e = Entry(Short[op.name], op.type, k, 0)
  OBVIOUS
<1>7. PICK u : u = CHOOSE v \in FreeSlots(c) : \A w \in FreeSlots(c) : v <= w
  OBVIOUS
<1>8. u \in FreeSlots(c) /\ \A v \in FreeSlots(c) : u <= v
  <2>1. FreeSlots(c) \subseteq Nat /\ FreeSlots(c) # {}
    BY <1>1, <1>3 DEF FreeSlots, Offset
  <2>2. \E v \in FreeSlots(c) : \A w \in FreeSlots(c) : v <= w
    BY <2>1, NatHasMin
  <2> QED  BY <2>2, <1>7
<1>9. PICK room \in BOOLEAN : cache' = Registered(<<c, u>>, room)
  BY <1>3, <1>7 DEF WriteEntry
<1>10. /\ unit' = Put(<<c, u>>, e)
       /\ lost' = (lost \/ cache'[op.dir].children = cache[op.dir].children)
  BY <1>3, <1>4, <1>6, <1>7 DEF WriteEntry
<1>11. /\ o \in Owners(D) /\ IsDir(o) /\ own[c] = o /\ c \in Cluster /\ Gone = {} /\ o \in DOMAIN cache
       /\ cache[o].children_loaded
  <2>1. cache[op.dir].children_loaded
    BY <1>1, <1>2 DEF CreateOK
  <2> QED  BY <2>1, <1>1, <1>2, <1>3, <1>5, CreateWorksOn
<1>12. e \in Entries /\ e.first = k /\ e.size = 0 /\ e.type = op.type /\ (e.type = DIR <=> k # 0)
  <2>1. Short[op.name] \in Names /\ op.type \in {FILE, DIR} /\ k \in Cluster \union {0} /\ 0 \in Nat
    BY <1>2, <1>4, Fat32Assumption DEF Creates
  <2>2. e \in Entries
    BY <2>1, <1>6 DEF Entry, Entries
  <2>3. op.type = DIR <=> k # 0
    BY <1>1, <1>2, <1>4 DEF CreateOK, MakesDots
  <2> QED  BY <2>2, <2>3, <1>6 DEF Entry
<1>13. k # 0 => ReadyDir(k, D, own)
  BY <1>1, <1>2, <1>4 DEF CreateOK
<1>14. PICK D2 : D2 = IF k = 0 THEN D ELSE D \union {k}
  OBVIOUS
<1>15. PICK own2 : own2 = [own EXCEPT ![k] = <<c, u>>]
  OBVIOUS
<1>16. PICK pos2 : pos2 = [pos EXCEPT ![k] = 0]
  OBVIOUS
<1>17. PICK dep2 : dep2 = [dep EXCEPT ![k] = dep[c] + 1]
  OBVIOUS
<1>18. PICK place : place = <<c, u>>
  OBVIOUS
<1>19. DiskTypes' /\ DiskOK(D2, own2, pos2, dep2)' /\ GainsEntry(place, e, D, own, D2, own2)
  <2>1. DiskOK(D, own, pos, dep)
    BY DEF Holds
  <2>2. Enters(c, u, o, k, e, D, own, pos, dep)
    BY <2>1, <1>1, <1>8, <1>10, <1>11, <1>12, <1>13 DEF Enters
  <2>3. Entered(c, u, o, k, e, D, own, pos, dep, D2, own2, pos2, dep2)
    BY <1>14, <1>15, <1>16, <1>17 DEF Entered
  <2> QED  BY <2>2, <2>3, <1>18, EntryDisk
<1>20. Gone' = {} /\ op'.pc = "idle"
  BY <1>1 DEF Gone, Idle
<1>21. /\ CacheFits(cache, {}, D) /\ ChildrenFit(cache, own) /\ (~ lost => WholeFits(cache, {}, D, own))
       /\ own \in [Cluster -> Labels] /\ D \subseteq Cluster
  BY <1>11 DEF Holds, CacheOK, DiskOK, WitnessTypes
<1>22. CacheOK(D2, own2)'
  <2>1. CASE room = TRUE
    <3>1. PICK ca : ca = Registered(place, TRUE)
      OBVIOUS
    <3>2. own[place[1]] = op.dir /\ e.type = op.type /\ e.first = op.new_cluster /\ e.size = 0
      BY <1>4, <1>5, <1>11, <1>12, <1>18
    <3>3. /\ CacheFits(ca, {}, D2)' /\ ChildrenFit(ca, own2)
          /\ WholeFits(cache, {}, D, own) /\ ca[op.dir].children # cache[op.dir].children
                => WholeFits(ca, {}, D2, own2)'
      BY <3>1, <3>2, <1>2, <1>5, <1>11, <1>19, <1>21, RegisteredFits
    <3>4. cache' = ca
      BY <3>1, <2>1, <1>9, <1>18
    <3>5. ~ lost' => WholeFits(ca, {}, D2, own2)'
      BY <3>3, <3>4, <1>10, <1>21
    <3> QED  BY <3>3, <3>4, <3>5, <1>20 DEF CacheOK, CacheFits, ChildrenFit, WholeFits, Agrees, Known
  <2>2. CASE room # TRUE
    <3>1. cache' = cache /\ lost'
      BY <2>2, <1>9, <1>10 DEF Registered
    <3>2. /\ EntriesOf(D2)' = EntriesOf(D) \union {place}
          /\ \A p \in EntriesOf(D) : At(p)' = At(p) /\ own2[p[1]] = own[p[1]]
      BY <1>19 DEF GainsEntry
    <3>3. CacheFits(cache, Gone, D2)'
      BY <3>1, <3>2, <1>20, <1>21 DEF CacheFits, Agrees
    <3>4. ChildrenFit(cache, own2)'
      <4>1. ASSUME NEW d \in DOMAIN cache, NEW n \in cache[d].children  PROVE own2[n[1]] = own[n[1]]
        <5>1. n \in DOMAIN cache /\ n # Root
          BY <4>1, <1>21, ChildrenAreEntries DEF ChildrenFit
        <5> QED  BY <5>1, <3>2, <1>21 DEF CacheFits
      <4> QED  BY <4>1, <3>1, <1>21 DEF ChildrenFit, Known
    <3> QED  BY <3>1, <3>3, <3>4 DEF CacheOK
  <2> QED  BY <2>1, <2>2
<1>23. \A x \in Cluster : own2[x] = own[x] \/ (x = k /\ own2[x] = place)
  BY <1>15, <1>18, <1>21
<1>24. place # None /\ place # Freeing
  <2>1. place \in Place
    BY <1>19 DEF GainsEntry
  <2> QED  BY <2>1 DEF Place, None, Freeing, Cluster
<1>25. \A x \in Cluster : own2[x] # Freeing
  <2>1. \A x \in Cluster : own[x] # Freeing
    BY <1>1 DEF Holds, FreeOK
  <2> QED  BY <2>1, <1>23, <1>24
<1>26. AllocOK(D2, own2)' /\ FreeOK(own2, pos2)' /\ CallOK(D2, own2, pos2)'
  BY <1>1, <1>20, <1>25 DEF AllocOK, FreeOK, CallOK
<1>27. NoLeak(own2)'
  <2> SUFFICES ASSUME ~ lost', NEW x \in Cluster, fat'[x] # FREE  PROVE own2[x] # None
    BY DEF NoLeak
  <2>1. own[x] # None \/ x \in Taken
    BY <1>1, <1>10 DEF Holds, NoLeak
  <2>2. Taken \subseteq {k}
    BY <1>1, <1>4 DEF Taken
  <2>3. CASE x = k
    <3>1. own2[x] = place
      BY <2>3, <1>15, <1>18, <1>21
    <3> QED  BY <3>1, <1>24
  <2>4. CASE x # k
    BY <2>1, <2>2, <2>4, <1>23
  <2> QED  BY <2>3, <2>4
<1>28. Holds(D2, own2, pos2, dep2)'
  BY <1>19, <1>22, <1>26, <1>27 DEF Holds
<1>29. lost' \in BOOLEAN
  BY <1>10
<1> QED  BY <1>19, <1>28, <1>29

-----------------------------------------------------------------------------
(* An entry is marked deleted.  Its chain is Freeing from here on; what a    *)
(* directory that was not empty still holds belongs to nobody.               *)

Removes(n, D, own, pos, dep) ==
    /\ DiskTypes /\ DiskOK(D, own, pos, dep) /\ n \in EntriesOf(D)
    /\ \A x \in Cluster : own[x] # Freeing
    /\ fat' = fat /\ unit' = Put(n, Deleted)
Removed(n, D, own, D2, own2) ==
    /\ D2 = {x \in D : own[x] # n}
    /\ own2 = [x \in Cluster |->
                 IF own[x] = n THEN Freeing
                 ELSE IF own[x] \in EntriesOf(D) /\ own[own[x][1]] = n THEN None ELSE own[x]]
LosesEntry(n, D, own, D2) ==
    /\ EntriesOf(D2)' = {p \in EntriesOf(D) : p # n /\ own[p[1]] # n}
    /\ \A p \in EntriesOf(D) : p # n => At(p)' = At(p)

LEMMA RemoveDisk ==
    ASSUME NEW D, NEW own, NEW pos, NEW dep, NEW n, Removes(n, D, own, pos, dep),
           NEW D2, NEW own2, Removed(n, D, own, D2, own2)
    PROVE  DiskTypes' /\ DiskOK(D2, own2, pos, dep)' /\ LosesEntry(n, D, own, D2)
<1>1. /\ DiskTypes /\ DiskOK(D, own, pos, dep) /\ n \in EntriesOf(D)
      /\ \A x \in Cluster : own[x] # Freeing
      /\ fat' = fat /\ unit' = Put(n, Deleted)
  BY DEF Removes
<1>2. /\ D2 = {x \in D : own[x] # n}
      /\ own2 = [x \in Cluster |->
                 IF own[x] = n THEN Freeing
                 ELSE IF own[x] \in EntriesOf(D) /\ own[own[x][1]] = n THEN None ELSE own[x]]
  BY DEF Removed
<1>3. /\ WitnessTypes(D, own, pos, dep) /\ D \subseteq Cluster /\ own \in [Cluster -> Labels]
      /\ LinksOK(D, own, pos) /\ HeadsOK(D, own, pos) /\ DirsOK(D, own) /\ EntriesOK(D) /\ ParseOK(D)
      /\ DataOK(D, own, pos) /\ DepthOK(D, own, dep)
  BY <1>1 DEF DiskOK, WitnessTypes
<1>4. PICK Kept : Kept = {p \in EntriesOf(D) : p # n /\ own[p[1]] # n}
  OBVIOUS
<1>5. /\ None \notin Owners(D) /\ Freeing \notin Owners(D) /\ Root \notin EntriesOf(D) /\ None # Freeing
      /\ n # Root /\ n \in Owners(D) /\ EntriesOf(D) \subseteq Place
  BY <1>1, <1>3, OwnersAreNames DEF Owners
<1>6. n[1] \in D /\ n[1] \in Cluster /\ n[2] \in Offset /\ n = <<n[1], n[2]>> /\ At(n).kind = "entry"
  BY <1>1, <1>3 DEF EntriesOf
<1>7. /\ unit'[n[1]][n[2]] = Deleted /\ \A v \in Offset : v # n[2] => unit'[n[1]][v] = unit[n[1]][v]
      /\ \A x \in Cluster : x # n[1] => unit'[x] = unit[x]
      /\ unit' \in [Cluster -> [Offset -> Units]]
  <2>1. unit \in [Cluster -> [Offset -> Units]] /\ Deleted \in Units
    BY <1>1 DEF DiskTypes, Units, Deleted
  <2>2. unit' = [unit EXCEPT ![n[1]] = [unit[n[1]] EXCEPT ![n[2]] = Deleted]]
    BY <1>1 DEF Put
  <2>3. unit'[n[1]] = [unit[n[1]] EXCEPT ![n[2]] = Deleted] /\ \A x \in Cluster : x # n[1] => unit'[x] = unit[x]
    BY <2>1, <2>2, <1>6
  <2>4. unit'[n[1]] \in [Offset -> Units]
    BY <2>1, <2>3, <1>6
  <2>5. unit' \in [Cluster -> [Offset -> Units]]
    BY <2>1, <2>2, <2>3, <2>4, <1>6
  <2> QED  BY <2>1, <2>3, <2>5, <1>6
<1>8. DiskTypes'
  BY <1>1, <1>7 DEF DiskTypes
<1>9. ASSUME NEW p \in Cluster \X Offset, p # n  PROVE At(p)' = At(p)
  <2>1. p = <<p[1], p[2]>> /\ p[1] \in Cluster /\ p[2] \in Offset
    BY <1>9
  <2>2. p[1] # n[1] \/ p[2] # n[2]
    BY <2>1, <1>6, <1>9
  <2> QED  BY <2>1, <2>2, <1>6, <1>7 DEF At
<1>10. At(n)' = Deleted
  BY <1>7 DEF At
<1>11. \A p \in EntriesOf(D) : p # n => At(p)' = At(p)
  BY <1>3, <1>9 DEF EntriesOf
<1>12. EntriesOf(D2)' = Kept
  <2>1. EntriesOf(D2)' = {p \in D2 \X Offset : At(p)'.kind = "entry"}
    BY DEF EntriesOf
  <2>2. ASSUME NEW p \in D2 \X Offset
        PROVE  At(p)'.kind = "entry" <=> p \in Kept
    <3>1. p \in D \X Offset /\ own[p[1]] # n /\ p \in Cluster \X Offset
      BY <2>2, <1>2, <1>3
    <3>2. CASE p = n
      BY <3>2, <1>4, <1>10 DEF Deleted
    <3>3. CASE p # n
      BY <3>1, <3>3, <1>4, <1>9 DEF EntriesOf
    <3> QED  BY <3>2, <3>3
  <2>3. Kept \subseteq D2 \X Offset
    BY <1>2, <1>4 DEF EntriesOf
  <2> QED  BY <2>1, <2>2, <2>3
<1>13. Owners(D2)' = Kept \union {Root}
  BY <1>12 DEF Owners
<1>14. \A p \in Kept \union {Root} : p \in Owners(D) /\ p # n /\ First(p)' = First(p) /\ IsDir(p)' = IsDir(p)
  BY <1>4, <1>5, <1>11 DEF Owners, First, IsDir
<1>15. ASSUME NEW x \in Cluster
       PROVE  /\ own[x] = None \/ own[x] = Root \/ own[x] \in EntriesOf(D)
              /\ own[x] = n => own2[x] = Freeing
              /\ own[x] \in Kept \union {Root} => own2[x] = own[x]
              /\ own2[x] # Freeing => own[x] # n
              /\ own2[x] # None => own[x] # None
              /\ own2[x] # None /\ own2[x] # Freeing => own2[x] = own[x] /\ own[x] \in Kept \union {Root}
  <2>1. own[x] = None \/ own[x] = Root \/ own[x] \in EntriesOf(D)
    BY <1>1, <1>3 DEF LinksOK, Owners
  <2>2. own2[x] = IF own[x] = n THEN Freeing
                  ELSE IF own[x] \in EntriesOf(D) /\ own[own[x][1]] = n THEN None ELSE own[x]
    BY <1>2
  <2>3. Root # n /\ None # n /\ None \notin EntriesOf(D) /\ Root # None /\ Root # Freeing /\ Root \notin EntriesOf(D)
        /\ Freeing \notin EntriesOf(D) /\ None # Freeing
    BY <1>5, <1>3, OwnersAreNames DEF Owners
  <2> QED  BY <2>1, <2>2, <2>3, <1>4
<1>16. ASSUME NEW x \in Cluster, NEW y \in Cluster, own2[x] # None
       PROVE  own2[x] = own2[y] <=> own[x] = own[y]
  <2>1. own[x] = own[y] => own2[x] = own2[y]
    BY <1>2
  <2>2. ASSUME own2[x] = own2[y]  PROVE own[x] = own[y]
    <3>1. CASE own2[x] = Freeing
      <4>1. \A z \in Cluster : own2[z] = Freeing => own[z] = n
        BY <1>1, <1>2, <1>5
      <4> QED  BY <4>1, <3>1, <2>2
    <3>2. CASE own2[x] # Freeing
      BY <3>2, <2>2, <1>15, <1>16
    <3> QED  BY <3>1, <3>2
  <2> QED  BY <2>1, <2>2
<1>17. LinksOK(D2, own2, pos)'
  <2>1. \A x \in Cluster : own2[x] # None => own2[x] \in Owners(D2)' \union {Freeing}
    BY <1>13, <1>15
  <2>2. ASSUME NEW x \in Cluster, own2[x] # None  PROVE Linked(x, own2, pos)'
    <3>1. own[x] # None /\ Linked(x, own, pos)
      BY <2>2, <1>3, <1>15 DEF LinksOK
    <3>2. fat[x] # EOC => fat[x] \in Cluster /\ own[fat[x]] = own[x] /\ pos[fat[x]] = pos[x] + 1
      BY <3>1 DEF Linked
    <3>3. fat[x] # EOC => own2[fat[x]] = own2[x]
      BY <3>2, <2>2, <1>16
    <3> QED  BY <3>2, <3>3, <1>1 DEF Linked
  <2>3. ASSUME NEW x \in Cluster, NEW y \in Cluster, own2[x] # None, own2[x] = own2[y]
        PROVE  /\ pos[x] = pos[y] => x = y
               /\ fat'[x] = EOC => pos[y] <= pos[x]
    <3>1. own[x] # None /\ own[x] = own[y]
      BY <2>3, <1>15, <1>16
    <3> QED  BY <3>1, <1>1, <1>3 DEF LinksOK
  <2> QED  BY <2>1, <2>2, <2>3 DEF LinksOK
<1>18. HeadsOK(D2, own2, pos)'
  <2>1. ASSUME NEW p \in Kept \union {Root}, First(p)' # 0
        PROVE  First(p)' \in Cluster /\ own2[First(p)'] = p /\ pos[First(p)'] = 0
    <3>1. First(p)' = First(p) /\ First(p) \in Cluster /\ own[First(p)] = p /\ pos[First(p)] = 0
      BY <2>1, <1>3, <1>14 DEF HeadsOK
    <3> QED  BY <3>1, <1>15
  <2>2. ASSUME NEW x \in Cluster, own2[x] \in Kept \union {Root}  PROVE First(own2[x])' # 0
    <3>1. own2[x] = own[x] /\ own[x] \in Owners(D)
      BY <2>2, <1>5, <1>14, <1>15
    <3>2. First(own[x]) # 0
      BY <3>1, <1>3 DEF HeadsOK
    <3> QED  BY <3>1, <3>2, <2>2, <1>14
  <2> QED  BY <2>1, <2>2, <1>13 DEF HeadsOK
<1>19. DirsOK(D2, own2)'
  <2>1. ASSUME NEW x \in D2
        PROVE  fat'[x] # FREE /\ (own2[x] # None => own2[x] \in Kept \union {Root} /\ IsDir(own2[x])')
    <3>1. x \in D /\ x \in Cluster /\ own[x] # n
      BY <2>1, <1>2, <1>3
    <3>2. fat[x] # FREE /\ (own[x] # None => IsDir(own[x]))
      BY <3>1, <1>3 DEF DirsOK
    <3>3. ASSUME own2[x] # None  PROVE own2[x] = own[x] /\ own[x] \in Kept \union {Root}
      <4>1. own2[x] # Freeing
        BY <3>1, <1>1, <1>2, <1>5
      <4> QED  BY <4>1, <3>1, <3>3, <1>15
    <3>4. own2[x] # None => IsDir(own2[x])'
      BY <3>1, <3>2, <3>3, <1>14, <1>15
    <3> QED  BY <3>2, <3>3, <3>4, <1>1
  <2>2. ASSUME NEW x \in Cluster, own2[x] \in Kept \union {Root}, IsDir(own2[x])'  PROVE x \in D2
    <3>1. own2[x] = own[x] /\ own[x] \in Owners(D) /\ own[x] # n
      BY <2>2, <1>5, <1>14, <1>15
    <3>2. IsDir(own[x])
      BY <3>1, <2>2, <1>14
    <3> QED  BY <3>1, <3>2, <1>2, <1>3 DEF DirsOK
  <2> QED  BY <2>1, <2>2, <1>13 DEF DirsOK
<1>20. EntriesOK(D2)'
  BY <1>3, <1>4, <1>11, <1>12 DEF EntriesOK
<1>21. ParseOK(D2)'
  <2>1. unit[n[1]][n[2]].kind = "entry" /\ unit[n[1]][n[2]] # Zero /\ Deleted # Zero /\ Deleted.kind # "data"
    BY <1>6 DEF At, Zero, Deleted
  <2>2. ASSUME NEW x \in Cluster, NEW u \in Offset
        PROVE  /\ unit'[x][u] = Zero <=> unit[x][u] = Zero
               /\ unit[x][u].kind # "data" => unit'[x][u].kind # "data"
    <3>1. CASE x = n[1] /\ u = n[2]
      BY <3>1, <2>1, <1>7
    <3>2. CASE ~ (x = n[1] /\ u = n[2])
      <4>1. unit'[x][u] = unit[x][u]
        BY <3>2, <1>7
      <4> QED  BY <4>1
    <3> QED  BY <3>1, <3>2
  <2>3. \A x \in D2 : x \in D /\ x \in Cluster
    BY <1>2, <1>3
  <2> QED  BY <2>2, <2>3, <1>1, <1>3 DEF ParseOK, Parses
<1>22. DataOK(D2, own2, pos)'
  <2> SUFFICES ASSUME NEW p \in Kept, At(p)'.type = FILE, NEW x \in Cluster, own2[x] = p
               PROVE  (HoldsUpTo(x, pos, At(p).name, At(p).size) /\ EndsWithin(x, pos, At(p).size))'
    BY <1>12 DEF DataOK
  <2>1. p \in EntriesOf(D) /\ At(p)' = At(p)
    BY <1>4, <1>11
  <2>2. own[x] = p
    <3>1. p # None /\ p # Freeing
      BY <2>1, <1>5 DEF Owners
    <3> QED  BY <3>1, <1>15
  <2>3. x \notin D
    BY <2>1, <2>2, <1>3, FileIsNoDir
  <2>4. unit'[x] = unit[x]
    BY <2>3, <1>6, <1>7
  <2>5. HoldsUpTo(x, pos, At(p).name, At(p).size) /\ EndsWithin(x, pos, At(p).size)
    BY <2>1, <2>2, <1>3 DEF DataOK
  <2> QED  BY <2>1, <2>4, <2>5, <1>1 DEF HoldsUpTo, EndsWithin
<1>23. DepthOK(D2, own2, dep)'
  <2> SUFFICES ASSUME NEW x \in D2, own2[x] \in Kept  PROVE dep[own2[x][1]] < dep[x]
    BY <1>12 DEF DepthOK
  <2>1. x \in D /\ x \in Cluster
    BY <1>2, <1>3
  <2>2. own2[x] \in EntriesOf(D) /\ own2[x] # None /\ own2[x] # Freeing
    BY <1>4, <1>5 DEF Owners
  <2>3. own2[x] = own[x]
    BY <2>1, <2>2, <1>15
  <2> QED  BY <2>1, <2>2, <2>3, <1>3 DEF DepthOK
<1>24. WitnessTypes(D2, own2, pos, dep)'
  <2>1. own2 \in [Cluster -> Labels]
    BY <1>2, <1>3 DEF Labels
  <2> QED  BY <2>1, <1>2, <1>3 DEF WitnessTypes
<1>25. DiskOK(D2, own2, pos, dep)'
  BY <1>17, <1>18, <1>19, <1>20, <1>21, <1>22, <1>23, <1>24 DEF DiskOK
<1> QED  BY <1>4, <1>8, <1>11, <1>12, <1>25 DEF LosesEntry

\* The cache in which fat32_unlink finds the node.
LEMMA UnlinkFinds ==
    ASSUME lost \in BOOLEAN, DiskTypes, NEW D, NEW own, NEW pos, NEW dep, Holds(D, own, pos, dep),
           op = Idle, NEW n \in DOMAIN Closed, n # Root,
           NEW ca, ca \in IF cache[n].type = DIR THEN Loads(n) ELSE {Closed}
    PROVE  /\ CacheFits(ca, {}, D) /\ ChildrenFit(ca, own) /\ Listed(ca, own)
           /\ n \in DOMAIN ca /\ n \in EntriesOf(D) /\ Agrees(cache, n) /\ cache[n].first_cluster = At(n).first
           /\ ca[n].type = At(n).type /\ (At(n).type = DIR => ca[n].children_loaded)
           /\ ~ lost /\ (ca[n].type = DIR => IsWhole(ca, n)) => WholeFits(ca, {}, D, own)
<1>1. /\ DiskOK(D, own, pos, dep) /\ D \subseteq Cluster
      /\ CacheFits(cache, {}, D) /\ ChildrenFit(cache, own)
      /\ ~ lost => WholeFits(cache, {}, D, own)
  BY WhenIdle
<1>2. n \in DOMAIN cache
  BY <1>1, ClosedFits
<1>3. n \in EntriesOf(D) /\ Agrees(cache, n)
  BY <1>1, <1>2 DEF CacheFits
<1>4. /\ CacheFits(ca, {}, D) /\ ChildrenFit(ca, own) /\ Listed(ca, own) /\ Keeps(ca)
      /\ cache[n].type = DIR => ca[n].children_loaded
      /\ WholeFits(cache, {}, D, own) /\ (cache[n].type = DIR => IsWhole(ca, n)) => WholeFits(ca, {}, D, own)
  <2>1. CASE cache[n].type = DIR
    BY <2>1, <1>1, <1>2, LoadsFit
  <2>2. CASE cache[n].type # DIR
    BY <2>2, <1>1, ClosedFits
  <2> QED  BY <2>1, <2>2
<1>5. n \in DOMAIN ca /\ ca[n].type = cache[n].type
  BY <1>4 DEF Keeps
<1>6. cache[n].type = At(n).type /\ cache[n].first_cluster = At(n).first
  BY <1>3 DEF Agrees
<1> QED  BY <1>1, <1>3, <1>4, <1>5, <1>6

LEMMA UnlinkStep ==
    ASSUME lost \in BOOLEAN, DiskTypes, NEW D, NEW own, NEW pos, NEW dep, Holds(D, own, pos, dep),
           NEW n, fat32_unlink(n)
    PROVE  lost' \in BOOLEAN /\ DiskTypes' /\ \E D2, own2 : Holds(D2, own2, pos, dep)'
<1>1. op = Idle /\ n # Root /\ n \in DOMAIN Closed /\ fat' = fat /\ unit' = Put(n, Deleted)
  BY DEF fat32_unlink
<1>2. PICK ca \in IF cache[n].type = DIR THEN Loads(n) ELSE {Closed} :
        ca[n].children = {} /\ lost' = (lost \/ (ca[n].type = DIR /\ ~ IsWhole(ca, n))) /\ cache' = ca
  BY DEF fat32_unlink
<1>3. PICK first : first = At(n).first
  OBVIOUS
<1>4. /\ CacheFits(ca, {}, D) /\ ChildrenFit(ca, own) /\ Listed(ca, own)
      /\ n \in DOMAIN ca /\ n \in EntriesOf(D) /\ cache[n].first_cluster = first
      /\ ca[n].type = At(n).type /\ (At(n).type = DIR => ca[n].children_loaded)
      /\ ~ lost /\ (ca[n].type = DIR => IsWhole(ca, n)) => WholeFits(ca, {}, D, own)
  BY <1>1, <1>2, <1>3, UnlinkFinds
<1>5. /\ DiskOK(D, own, pos, dep) /\ D \subseteq Cluster /\ own \in [Cluster -> Labels] /\ pos \in [Cluster -> Nat]
      /\ \A x \in Cluster : own[x] # Freeing
      /\ NoLeak(own) /\ Taken = {}
      /\ LinksOK(D, own, pos) /\ HeadsOK(D, own, pos) /\ DirsOK(D, own)
  BY <1>1, WhenIdle DEF DiskOK, WitnessTypes
<1>6. PICK D2 : D2 = {x \in D : own[x] # n}
  OBVIOUS
<1>7. PICK own2 : own2 = [x \in Cluster |->
                 IF own[x] = n THEN Freeing
                 ELSE IF own[x] \in EntriesOf(D) /\ own[own[x][1]] = n THEN None ELSE own[x]]
  OBVIOUS
<1>8. DiskTypes' /\ DiskOK(D2, own2, pos, dep)' /\ LosesEntry(n, D, own, D2)
  <2>1. Removes(n, D, own, pos, dep)
    BY <1>1, <1>4, <1>5 DEF Removes
  <2>2. Removed(n, D, own, D2, own2)
    BY <1>6, <1>7 DEF Removed
  <2> QED  BY <2>1, <2>2, RemoveDisk
<1>9. /\ EntriesOf(D2)' = {p \in EntriesOf(D) : p # n /\ own[p[1]] # n}
      /\ \A p \in EntriesOf(D) : p # n => At(p)' = At(p)
  BY <1>8 DEF LosesEntry
<1>10. /\ None \notin Owners(D) /\ Freeing \notin Owners(D) /\ Root \notin EntriesOf(D) /\ None # Freeing
       /\ n \in Place /\ n \in Owners(D) /\ First(n) = first
  BY <1>1, <1>3, <1>4, <1>5, OwnersAreNames DEF Owners, First
<1>11. first \in Cluster \union {0}
  <2>1. At(n) \in Units /\ At(n).kind = "entry"
    BY <1>4, <1>5 DEF EntriesOf, At, DiskTypes
  <2> QED  BY <2>1, <1>3, UnitKinds DEF Entries
<1>12. /\ op' \in Unlinks /\ op'.call = "unlink" /\ op'.node = n /\ op'.cluster = first
       /\ op'.pc = IF first \in Cluster THEN "free" ELSE "forget"
  <2>1. op' = [call |-> "unlink", node |-> n, cluster |-> first,
               pc |-> IF first \in Cluster THEN "free" ELSE "forget"]
    BY <1>4 DEF fat32_unlink
  <2> QED  BY <2>1, <1>10, <1>11 DEF Unlinks, FREE
<1>13. Gone' = {n} /\ Taken' = {}
  <2>1. op'.pc # "idle" /\ op'.pc \in {"free", "forget"}
    BY <1>12
  <2> QED  BY <2>1, <1>12 DEF Gone, Taken
<1>14. \A m \in DOMAIN ca : m # n => m \in EntriesOf(D2)' \union {Root}
  <2> SUFFICES ASSUME NEW m \in DOMAIN ca, m # n, m # Root  PROVE m \in EntriesOf(D2)'
    OBVIOUS
  <2>1. m \in EntriesOf(D)
    BY <1>4 DEF CacheFits
  <2>2. own[m[1]] = n => m \in ca[n].children
    BY <1>4 DEF Listed
  <2> QED  BY <2>1, <2>2, <1>2, <1>9
<1>15. ASSUME NEW x \in Cluster, own[x] \in EntriesOf(D2)' \union {Root}
       PROVE  own2[x] = own[x]
  <2>1. own[x] # n /\ ~ (own[x] \in EntriesOf(D) /\ own[own[x][1]] = n)
    BY <1>1, <1>9, <1>10, <1>15
  <2> QED  BY <2>1, <1>7
<1>16. CacheFits(cache, Gone, D2)'
  <2>1. \A m \in DOMAIN ca : m # Root /\ m \notin {n} => m \in EntriesOf(D2)' /\ Agrees(ca, m)'
    <3> SUFFICES ASSUME NEW m \in DOMAIN ca, m # Root, m # n  PROVE m \in EntriesOf(D2)' /\ Agrees(ca, m)'
      OBVIOUS
    <3>1. m \in EntriesOf(D) /\ Agrees(ca, m)
      BY <1>4 DEF CacheFits
    <3> QED  BY <3>1, <1>9, <1>14 DEF Agrees
  <2> QED  BY <2>1, <1>2, <1>4, <1>13 DEF CacheFits, Agrees
<1>17. ChildrenFit(cache, own2)'
  <2>1. ASSUME NEW d \in DOMAIN ca, NEW m \in ca[d].children  PROVE own2[m[1]] = d
    <3>1. d # n /\ own[m[1]] = d /\ m[1] \in Cluster
      BY <2>1, <1>2, <1>4, ChildrenAreEntries DEF ChildrenFit
    <3>2. d \in EntriesOf(D2)' \union {Root}
      BY <3>1, <1>14
    <3> QED  BY <3>1, <3>2, <1>15
  <2> QED  BY <2>1, <1>2, <1>4 DEF ChildrenFit, Known
<1>18. ASSUME ~ lost'  PROVE ~ lost /\ WholeFits(ca, {}, D, own)
  BY <1>2, <1>4, <1>18
<1>19. ASSUME ~ lost'  PROVE WholeFits(cache, Gone, D2, own2)'
  <2> SUFFICES ASSUME NEW d \in DOMAIN ca \ {n}, ca[d].children_loaded
               PROVE  ca[d].children \ {n} = {p \in EntriesOf(D2)' : own2[p[1]] = d}
    BY <1>2, <1>13 DEF WholeFits
  <2>1. ca[d].children = {p \in EntriesOf(D) : own[p[1]] = d}
    BY <1>18, <1>19 DEF WholeFits
  <2>2. d \in EntriesOf(D2)' \union {Root} /\ d # n
    BY <1>14
  <2>3. ASSUME NEW p \in EntriesOf(D)  PROVE own2[p[1]] = d <=> own[p[1]] = d
    <3>1. p[1] \in Cluster
      BY <2>3, <1>5 DEF EntriesOf
    <3>2. own[p[1]] = d => own2[p[1]] = d
      BY <3>1, <2>2, <1>15
    <3>3. d # None /\ d # Freeing
      BY <2>2, <1>5, <1>9, <1>10, OwnersAreNames DEF Owners
    <3>4. own2[p[1]] = d => own[p[1]] = d
      BY <3>1, <3>3, <1>7
    <3> QED  BY <3>2, <3>4
  <2> QED  BY <2>1, <2>2, <2>3, <1>9
<1>20. CacheOK(D2, own2)'
  BY <1>16, <1>17, <1>19 DEF CacheOK
<1>21. NoLeak(own2)'
  <2> SUFFICES ASSUME ~ lost', NEW x \in Cluster, fat'[x] # FREE  PROVE own2[x] # None
    BY DEF NoLeak
  <2>1. ~ lost /\ WholeFits(ca, {}, D, own)
    BY <1>18
  <2>2. own[x] # None
    BY <2>1, <1>1, <1>5 DEF NoLeak
  <2>3. ASSUME own[x] \in EntriesOf(D), own[own[x][1]] = n  PROVE FALSE
    <3>1. PICK p : p = own[x]
      OBVIOUS
    <3>2. p \in EntriesOf(D) /\ own[p[1]] = n /\ p[1] \in D /\ p[1] \in Cluster
      BY <2>3, <3>1, <1>5 DEF EntriesOf
    <3>3. IsDir(n)
      BY <3>2, <1>5, <1>10 DEF DirsOK, Owners
    <3>4. ca[n].children_loaded
      BY <3>3, <1>1, <1>4 DEF IsDir
    <3>5. ca[n].children = {q \in EntriesOf(D) : own[q[1]] = n}
      BY <3>4, <2>1, <1>4 DEF WholeFits
    <3> QED  BY <3>2, <3>5, <1>2
  <2> QED  BY <2>2, <2>3, <1>7, <1>10
<1>22. AllocOK(D2, own2)'
  BY <1>12 DEF AllocOK
<1>23. FreeOK(own2, pos)'
  <2>1. \A x \in Cluster : own2[x] = Freeing => own[x] = n
    BY <1>5, <1>7, <1>10
  <2>2. CASE first \in Cluster
    <3>1. first # 0
      BY <2>2 DEF Cluster
    <3>2. own[first] = n /\ pos[first] = 0
      BY <3>1, <1>5, <1>10 DEF HeadsOK
    <3>3. own2[first] = Freeing
      BY <3>2, <2>2, <1>7
    <3>4. \A x \in Cluster : pos[first] <= pos[x]
      BY <3>2, <1>5
    <3> QED  BY <3>3, <3>4, <2>2, <1>12 DEF FreeOK
  <2>3. CASE first \notin Cluster
    <3>1. first = 0
      BY <2>3, <1>11
    <3>2. \A x \in Cluster : own[x] # n
      BY <3>1, <1>5, <1>10 DEF HeadsOK
    <3> QED  BY <3>2, <2>1, <2>3, <1>12 DEF FreeOK
  <2> QED  BY <2>2, <2>3
<1>24. UnlinkOK(D2)'
  BY <1>1, <1>2, <1>4, <1>9, <1>12 DEF UnlinkOK
<1>25. Holds(D2, own2, pos, dep)'
  BY <1>8, <1>20, <1>21, <1>22, <1>23, <1>24 DEF Holds, CallOK
<1>26. lost' \in BOOLEAN
  BY <1>2
<1> QED  BY <1>8, <1>25, <1>26

-----------------------------------------------------------------------------
(* Between calls, and unless something was lost, all that is marked in the   *)
(* FAT can be reached from the root.                                         *)

\* Growing takes one cluster at least each time, so it has stopped by the end.
LEMMA GrowthStops ==
    ASSUME NEW g, Reaches(g)
    PROVE  Grow(g[total_clusters]) = g[total_clusters]
<1>0. total_clusters \in Nat /\ \A k \in 0 .. total_clusters : g[k] \subseteq Cluster
  BY Fat32Assumption DEF Reaches
<1>1. \A k \in 0 .. total_clusters : g[k] \subseteq Grow(g[k]) /\ Grow(g[k]) \subseteq Cluster
  BY <1>0 DEF Grow, Chain
<1>2. \A k \in 0 .. total_clusters - 1 : g[k + 1] = Grow(g[k])
  BY DEF Reaches
<1>3. ASSUME Grow(g[total_clusters]) # g[total_clusters]  PROVE FALSE
  <2> DEFINE T == {k \in 0 .. total_clusters : Grow(g[total_clusters - k]) # g[total_clusters - k]}
             U == {k \in 0 .. total_clusters : Cardinality(g[k]) >= k}
  <2>1. 0 \in T
    BY <1>0, <1>3
  <2>2. ASSUME NEW k \in 0 .. total_clusters - 1, k \in T  PROVE k + 1 \in T
    <3> DEFINE j == total_clusters - (k + 1)
    <3>1. k + 1 \in 0 .. total_clusters /\ j \in 0 .. total_clusters - 1 /\ j + 1 = total_clusters - k
      BY <1>0
    <3>2. g[j + 1] = Grow(g[j]) /\ Grow(g[j + 1]) # g[j + 1]
      <4>1. Grow(g[total_clusters - k]) # g[total_clusters - k]
        BY <2>2
      <4> HIDE DEF j
      <4> QED  BY <3>1, <4>1, <1>2
    <3> HIDE DEF j
    <3>3. Grow(g[j]) # g[j]
      BY <3>2
    <3> QED  BY <3>1, <3>3 DEF j
  <2>3. \A k \in 0 .. total_clusters : k \in T
    <3> HIDE DEF T
    <3> QED  BY <2>1, <2>2, <1>0, UpTo
  <2>4. \A k \in 0 .. total_clusters : Grow(g[k]) # g[k]
    <3> SUFFICES ASSUME NEW k \in 0 .. total_clusters  PROVE Grow(g[k]) # g[k]
      OBVIOUS
    <3> DEFINE j == total_clusters - k
    <3>1. j \in 0 .. total_clusters /\ total_clusters - j = k
      BY <1>0
    <3>2. j \in T
      BY <3>1, <2>3
    <3> HIDE DEF j
    <3>3. Grow(g[total_clusters - j]) # g[total_clusters - j]
      BY <3>2
    <3> QED  BY <3>1, <3>3
  <2>5. ASSUME NEW k \in 0 .. total_clusters
        PROVE  /\ Cardinality(g[k]) \in Nat
               /\ Cardinality(Grow(g[k])) \in Nat
               /\ Cardinality(g[k]) < Cardinality(Grow(g[k]))
               /\ Cardinality(Grow(g[k])) <= total_clusters
    <3>1. g[k] \subseteq Grow(g[k]) /\ Grow(g[k]) \subseteq Cluster /\ Grow(g[k]) # g[k]
      BY <1>1, <2>4
    <3>2. IsFiniteSet(Grow(g[k])) /\ Cardinality(Grow(g[k])) <= total_clusters
      BY <3>1, ClustersAreFinite, FS_Subset
    <3>3. IsFiniteSet(g[k]) /\ Cardinality(g[k]) <= Cardinality(Grow(g[k]))
          /\ Cardinality(g[k]) # Cardinality(Grow(g[k]))
      BY <3>1, <3>2, FS_Subset
    <3>4. Cardinality(g[k]) \in Nat /\ Cardinality(Grow(g[k])) \in Nat
      BY <3>2, <3>3, FS_CardinalityType
    <3> QED  BY <3>2, <3>3, <3>4
  <2>6. 0 \in U
    BY <2>5, <1>0
  <2>7. ASSUME NEW k \in 0 .. total_clusters - 1, k \in U  PROVE k + 1 \in U
    <3>1. k \in 0 .. total_clusters /\ k + 1 \in 0 .. total_clusters /\ k \in Nat
      BY <1>0
    <3>2. Cardinality(g[k]) >= k
      BY <2>7
    <3>3. Cardinality(g[k + 1]) = Cardinality(Grow(g[k]))
      BY <1>2
    <3>4. Cardinality(g[k + 1]) >= k + 1
      BY <3>1, <3>2, <3>3, <2>5
    <3> QED  BY <3>1, <3>4
  <2>8. \A k \in 0 .. total_clusters : k \in U
    <3> HIDE DEF U
    <3> QED  BY <2>6, <2>7, <1>0, UpTo
  <2>9. total_clusters \in 0 .. total_clusters
    BY <1>0
  <2>10. Cardinality(g[total_clusters]) >= total_clusters
    BY <2>8, <2>9
  <2> QED  BY <2>5, <2>9, <2>10, <1>0
<1> QED  BY <1>3

\* A directory cluster that cannot be reached would have, nearer to the root,
\* the cluster with its entry.
LEMMA AllDirsReached ==
    ASSUME DiskTypes, NEW D, NEW own, NEW pos, NEW dep, DiskOK(D, own, pos, dep),
           \A c \in D : own[c] # None
    PROVE  DirClusters = D
<1>0. D \subseteq Cluster /\ dep \in [Cluster -> Nat]
  BY DEF DiskOK, WitnessTypes
<1>1. DirClusters \subseteq D
  BY ReachedAreDirs
<1>2. PICK g : Reaches(g) /\ DirClusters = g[total_clusters]
  BY ReachSteps
<1>3. Grow(DirClusters) = DirClusters
  BY <1>2, GrowthStops
<1>4. Chain(root_cluster) \subseteq DirClusters
  <2> DEFINE T == {k \in 0 .. total_clusters : Chain(root_cluster) \subseteq g[k]}
  <2>0. total_clusters \in Nat
    BY Fat32Assumption
  <2>1. 0 \in T
    BY <2>0, <1>2 DEF Reaches
  <2>2. ASSUME NEW k \in 0 .. total_clusters - 1, k \in T  PROVE k + 1 \in T
    <3>1. k + 1 \in 0 .. total_clusters /\ g[k + 1] = Grow(g[k])
      BY <2>0, <1>2 DEF Reaches
    <3> QED  BY <3>1, <2>2 DEF Grow
  <2>3. \A k \in 0 .. total_clusters : k \in T
    <3> HIDE DEF T
    <3> QED  BY <2>0, <2>1, <2>2, UpTo
  <2> QED  BY <2>0, <2>3, <1>2
<1>5. ASSUME NEW d \in D, d \notin DirClusters  PROVE FALSE
  <2> DEFINE bad == D \ DirClusters
             S == {dep[x] : x \in bad}
  <2>1. S \subseteq Nat /\ S # {}
    BY <1>0, <1>5
  <2>2. PICK least \in S : \A y \in S : least <= y
    <3> HIDE DEF S
    <3> QED  BY <2>1, NatHasMin
  <2>3. PICK c \in bad : least = dep[c]
    BY <2>2
  <2>4. c \in D /\ c \notin DirClusters /\ \A x \in D : dep[x] < dep[c] => x \in DirClusters
    <3>1. ASSUME NEW x \in D, dep[x] < dep[c], x \notin DirClusters  PROVE FALSE
      <4>1. dep[c] <= dep[x]
        BY <3>1, <2>2, <2>3
      <4> QED  BY <4>1, <3>1, <2>3, <1>0
    <3> QED  BY <2>3, <3>1
  <2> DEFINE p == own[c]
  <2>5. p \in Owners(D) /\ IsDir(p)
    BY <2>4 DEF DiskOK, DirsOK
  <2> HIDE DEF p
  <2>6. Chain(First(p)) = {x \in Cluster : own[x] = p} /\ c \in Chain(First(p))
    BY <2>5, <2>4, <1>0, SubdirOwns DEF p
  <2>7. CASE p = Root
    BY <2>7, <2>6, <2>4, <1>4, RootOwner
  <2>8. CASE p # Root
    <3>1. p \in EntriesOf(D) /\ p[1] \in D
      BY <2>8, <2>5 DEF Owners, EntriesOf
    <3>2. dep[p[1]] < dep[c]
      BY <3>1, <2>4 DEF DiskOK, DepthOK, p
    <3>3. p[1] \in DirClusters
      BY <3>1, <3>2, <2>4
    <3>4. At(p).type = DIR /\ First(p) = At(p).first
      BY <3>1, <2>5, <1>0, EntryOwner
    <3>5. p \in Subdirs(DirClusters)
      BY <3>1, <3>3, <3>4 DEF Subdirs, EntriesOf
    <3>6. Chain(At(p).first) \subseteq Grow(DirClusters)
      BY <3>5 DEF Grow
    <3> QED  BY <3>6, <3>4, <2>6, <2>4, <1>3
  <2> QED  BY <2>7, <2>8
<1> QED  BY <1>1, <1>5

LEMMA NothingIsLost ==
    ASSUME lost \in BOOLEAN, DiskTypes, NEW D, NEW own, NEW pos, NEW dep, Holds(D, own, pos, dep)
    PROVE  NoClusterLeaks
<1> SUFFICES ASSUME op = Idle, ~ lost
             PROVE  {c \in Cluster : fat[c] # FREE} = UNION {Chain(c) : c \in Heads}
  BY DEF NoClusterLeaks
<1>0. DiskOK(D, own, pos, dep) /\ D \subseteq Cluster /\ fat \in [Cluster -> Cluster \union {FREE, EOC}]
  BY DEF Holds, DiskOK, WitnessTypes, DiskTypes
<1>1. Taken = {} /\ op.pc = "idle"
  BY DEF Taken, Idle
<1>2. \A c \in Cluster : fat[c] # FREE => own[c] # None
  BY <1>1 DEF Holds, NoLeak
<1>3. \A c \in D : own[c] # None
  BY <1>0, <1>2 DEF DiskOK, DirsOK
<1>4. OnDisk = EntriesOf(D)
  BY <1>0, <1>3, AllDirsReached DEF OnDisk
<1>5. \A c \in Cluster : own[c] # Freeing
  BY <1>1 DEF Holds, FreeOK
<1>6. ASSUME NEW c \in Cluster, fat[c] # FREE  PROVE c \in UNION {Chain(h) : h \in Heads}
  <2> DEFINE p == own[c]
  <2>1. p \in Owners(D) /\ First(p) # 0
    BY <1>0, <1>2, <1>5, <1>6 DEF DiskOK, LinksOK, HeadsOK
  <2> HIDE DEF p
  <2>2. c \in Chain(First(p))
    BY <2>1, <1>0, ChainOfOwner DEF p
  <2>3. First(p) \in Heads
    <3>1. CASE p = Root
      BY <3>1, RootOwner DEF Heads
    <3>2. CASE p # Root
      <4>1. p \in EntriesOf(D)
        BY <3>2, <2>1 DEF Owners
      <4>2. First(p) = At(p).first
        BY <4>1, <1>0, EntryOwner
      <4> QED  BY <4>1, <4>2, <2>1, <1>4 DEF Heads
    <3> QED  BY <3>1, <3>2
  <2> QED  BY <2>2, <2>3
<1>7. ASSUME NEW h \in Heads, NEW c \in Chain(h)  PROVE c \in Cluster /\ fat[c] # FREE
  <2>1. PICK p \in Owners(D) : First(p) = h /\ h # 0
    <3>1. CASE h = root_cluster
      BY <3>1, RootOwner
    <3>2. CASE h # root_cluster
      <4>1. PICK q \in OnDisk : h = At(q).first /\ h # 0
        BY <3>2 DEF Heads
      <4>2. q \in Owners(D) /\ First(q) = h
        BY <4>1, <1>0, <1>4, EntryOwner
      <4> QED  BY <4>1, <4>2
    <3> QED  BY <3>1, <3>2
  <2>2. c \in Cluster /\ own[c] = p
    BY <2>1, <1>0, <1>7, ChainOfOwner
  <2>3. own[c] # None
    BY <2>1, <2>2, <1>0, OwnersAreNames
  <2>4. Linked(c, own, pos)
    BY <2>2, <2>3, <1>0 DEF DiskOK, LinksOK
  <2>5. fat[c] = EOC \/ fat[c] \in Cluster
    BY <2>4 DEF Linked
  <2> QED  BY <2>2, <2>5 DEF EOC, FREE, Cluster
<1> QED  BY <1>6, <1>7

-----------------------------------------------------------------------------
(* Every step keeps the invariant. *)

LEMMA HoldsIsInv ==
    ASSUME lost' \in BOOLEAN, DiskTypes', NEW D, NEW own, NEW pos, NEW dep, Holds(D, own, pos, dep)'
    PROVE  Fat32Inv'
BY DEF Fat32Inv

LEMMA ContinueHolds ==
    ASSUME lost \in BOOLEAN, DiskTypes, NEW D, NEW own, NEW pos, NEW dep, Holds(D, own, pos, dep), Continue
    PROVE  Fat32Inv'
<1>1. CASE fat_alloc
  BY <1>1, AllocStep, HoldsIsInv DEF fat_alloc
<1>2. CASE ZeroSector
  BY <1>2, ZeroStep, HoldsIsInv DEF ZeroSector
<1>3. CASE fat_free_chain
  BY <1>3, FreeStep, HoldsIsInv DEF fat_free_chain
<1>4. CASE Extend
  BY <1>4, ExtendStep, HoldsIsInv DEF Extend
<1>5. CASE Mark
  BY <1>5, MarkStep, HoldsIsInv DEF Mark
<1>6. CASE WriteDots
  BY <1>6, DotsStep, HoldsIsInv DEF WriteDots
<1>7. CASE WriteEntry
  BY <1>7, WriteEntryStep, HoldsIsInv
<1>8. CASE NextSlot
  BY <1>8, NextSlotStep, HoldsIsInv DEF NextSlot
<1>9. CASE CreateFails
  BY <1>9, CreateFailsStep, HoldsIsInv DEF CreateFails
<1>10. CASE SetFirstCluster
  BY <1>10, FirstStep, HoldsIsInv DEF SetFirstCluster
<1>11. CASE SkipCluster
  BY <1>11, SkipStep, HoldsIsInv DEF SkipCluster
<1>12. CASE WriteSector
  BY <1>12, SectorStep, HoldsIsInv DEF WriteSector
<1>13. CASE WriteStops
  BY <1>13, StopsStep, HoldsIsInv DEF WriteStops
<1>14. CASE UpdateSize
  BY <1>14, UpdateStep, HoldsIsInv DEF UpdateSize
<1>15. CASE Finish
  BY <1>15, FinishStep, HoldsIsInv DEF Finish
<1> QED
  BY <1>1, <1>2, <1>3, <1>4, <1>5, <1>6, <1>7, <1>8, <1>9, <1>10, <1>11, <1>12, <1>13, <1>14, <1>15 DEF Continue

LEMMA CallHolds ==
    ASSUME lost \in BOOLEAN, DiskTypes, NEW D, NEW own, NEW pos, NEW dep, Holds(D, own, pos, dep), Call
    PROVE  Fat32Inv'
<1>1. PICK n \in DOMAIN cache :
        \/ Load(n)
        \/ \E new \in NewEntries : fat32_create(n, new[1], new[2])
        \/ \E offset \in 0 .. MaxSize, len \in Lengths : fat32_write(n, offset, len)
        \/ fat32_unlink(n)
  BY DEF Call
<1>2. CASE Load(n)
  BY <1>2, LoadStep, HoldsIsInv
<1>3. CASE \E new \in NewEntries : fat32_create(n, new[1], new[2])
  <2>1. PICK new \in NewEntries : fat32_create(n, new[1], new[2])
    BY <1>3
  <2> QED  BY <2>1, CreateStep, HoldsIsInv
<1>4. CASE \E offset \in 0 .. MaxSize, len \in Lengths : fat32_write(n, offset, len)
  <2>1. PICK offset \in 0 .. MaxSize, len \in Lengths : fat32_write(n, offset, len)
    BY <1>4
  <2> QED  BY <2>1, CallWriteStep, HoldsIsInv
<1>5. CASE fat32_unlink(n)
  BY <1>5, UnlinkStep, HoldsIsInv
<1> QED  BY <1>1, <1>2, <1>3, <1>4, <1>5

LEMMA StutterHolds ==
    ASSUME lost \in BOOLEAN, DiskTypes, NEW D, NEW own, NEW pos, NEW dep, Holds(D, own, pos, dep), UNCHANGED vars
    PROVE  Fat32Inv'
<1>1. fat' = fat /\ unit' = unit /\ cache' = cache /\ op' = op /\ lost' = lost
  BY DEF vars, disk
<1>2. DiskTypes' /\ Untouched(D, own) /\ Gone' = Gone
  BY <1>1, SameIsUntouched DEF DiskTypes, Gone
<1>3. DiskOK(D, own, pos, dep)' /\ SameEntries(D) /\ CacheOK(D, own)'
  BY <1>1, <1>2, QuietStep DEF Holds
<1>4. AllocOK(D, own)' /\ FreeOK(own, pos)' /\ NoLeak(own)'
  <2>1. AllocOK(D, own) /\ FreeOK(own, pos) /\ NoLeak(own)
    BY DEF Holds
  <2>2. AllocOK(D, own)'
    BY <2>1, <1>1 DEF AllocOK, Fresh
  <2>3. FreeOK(own, pos)' /\ NoLeak(own)'
    BY <2>1, <1>1 DEF FreeOK, NoLeak, Taken
  <2> QED  BY <2>2, <2>3
<1>5. CallOK(D, own, pos)'
  <2>1. CASE op = Idle
    BY <2>1, <1>1 DEF CallOK
  <2>2. CASE CreateOK(D, own, pos)
    <3>1. CreateOK(D, own, pos)'
      BY <2>2, <1>1 DEF CreateOK, ReadyDir, Fresh, Parses, MakesDots, Extends, FreeSlots
    <3> QED  BY <3>1 DEF CallOK
  <2>3. CASE WriteOK(D, own, pos)
    <3>1. At(op.node)' = At(op.node) /\ file_offset' = file_offset
      BY <1>1 DEF At, file_offset
    <3>2. InChain(own, pos) => InChain(own, pos)'
      BY <3>1, <1>1 DEF InChain, Along, HoldsUpTo, EndsWithin, Beyond, Extends
    <3>3. WriteOK(D, own, pos)'
      BY <2>3, <3>1, <3>2, <1>1 DEF WriteOK
    <3> QED  BY <3>3 DEF CallOK
  <2>4. CASE UnlinkOK(D)
    <3>1. UnlinkOK(D)'
      BY <2>4, <1>1, <1>3 DEF UnlinkOK, SameEntries
    <3> QED  BY <3>1 DEF CallOK
  <2>5. CallOK(D, own, pos)
    BY DEF Holds
  <2> QED  BY <2>1, <2>2, <2>3, <2>4, <2>5 DEF CallOK
<1>6. Holds(D, own, pos, dep)'
  BY <1>3, <1>4, <1>5 DEF Holds
<1> QED  BY <1>1, <1>2, <1>6, HoldsIsInv

LEMMA NextHolds ==
    ASSUME Fat32Inv, [Next]_vars
    PROVE  Fat32Inv'
<1>1. lost \in BOOLEAN /\ DiskTypes
  BY DEF Fat32Inv
<1>2. PICK D, own, pos, dep : Holds(D, own, pos, dep)
  BY DEF Fat32Inv
<1>3. CASE Call
  BY <1>1, <1>2, <1>3, CallHolds
<1>4. CASE Continue
  BY <1>1, <1>2, <1>4, ContinueHolds
<1>5. CASE Crash
  BY <1>1, <1>2, <1>5, CrashStep, HoldsIsInv
<1>6. CASE UNCHANGED vars
  BY <1>1, <1>2, <1>6, StutterHolds
<1> QED  BY <1>3, <1>4, <1>5, <1>6 DEF Next

LEMMA InvHolds ==
    ASSUME Fat32Inv
    PROVE  /\ ChainsAreSound /\ FilesHoldTheirData /\ DirectoriesParse
           /\ CacheMatchesDisk /\ NoClusterLeaks
<1>1. DiskTypes /\ lost \in BOOLEAN
  BY DEF Fat32Inv
<1>2. PICK D, own, pos, dep : Holds(D, own, pos, dep)
  BY DEF Fat32Inv
<1>3. DiskOK(D, own, pos, dep) /\ CacheOK(D, own)
  BY <1>2 DEF Holds
<1> QED  BY <1>1, <1>2, <1>3, SoundChains, FilesAreWhole, DirectoriesAreWhole, CacheIsRight,
         NothingIsLost

-----------------------------------------------------------------------------
(* Fat32Inv is an invariant: before and after every sector that is written,  *)
(* and so wherever the machine stops, the disk is a tree of directories with *)
(* chains of their own, and the cache says what the disk holds               *)
(* (src/kernel/fat32.c).                                                     *)
THEOREM Fat32Invariant == Spec => []Fat32Inv
<1>1. Init => Fat32Inv
  BY InitHolds
<1>2. Fat32Inv /\ [Next]_vars => Fat32Inv'
  BY NextHolds
<1> QED  BY <1>1, <1>2, PTL DEF Spec

(* Every chain ends, no cluster is in two, and every directory has one       *)
(* (fat32.c:128-152, 499-506, 539-546, 654-662, 698-710).                    *)
THEOREM ChainsStaySound == Spec => []ChainsAreSound
<1>1. Fat32Inv => ChainsAreSound
  BY InvHolds
<1> QED  BY <1>1, Fat32Invariant, PTL

(* A file reads as long as its entry says and holds what was written to it   *)
(* (fat32.c:493-569).                                                        *)
THEOREM FilesAlwaysHoldTheirData == Spec => []FilesHoldTheirData
<1>1. Fat32Inv => FilesHoldTheirData
  BY InvHolds
<1> QED  BY <1>1, Fat32Invariant, PTL

(* load_dir_children finds every entry of a directory and takes nothing else *)
(* for one (fat32.c:309, 592-665).                                           *)
THEOREM DirectoriesAlwaysParse == Spec => []DirectoriesParse
<1>1. Fat32Inv => DirectoriesParse
  BY InvHolds
<1> QED  BY <1>1, Fat32Invariant, PTL

(* Between calls the cache agrees with the disk (fat32.c:472-485, 555-568,   *)
(* 672-679, 712-720).                                                        *)
THEOREM CacheAlwaysMatchesDisk == Spec => []CacheMatchesDisk
<1>1. Fat32Inv => CacheMatchesDisk
  BY InvHolds
<1> QED  BY <1>1, Fat32Invariant, PTL

(* Between calls, and unless the machine stopped in one or the cache lost an *)
(* entry, every cluster that is marked belongs to something that can be      *)
(* reached from the root (fat32.c:502-510, 539-546, 667-670, 708-710).       *)
THEOREM ClustersNeverLeak == Spec => []NoClusterLeaks
<1>1. Fat32Inv => NoClusterLeaks
  BY InvHolds
<1> QED  BY <1>1, Fat32Invariant, PTL
====
