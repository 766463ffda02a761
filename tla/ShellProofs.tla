---------------------------- MODULE ShellProofs ----------------------------
(***************************************************************************)
(* Proofs about Ramfs and, above it, Shell.  Whatever is created, written  *)
(* and unlinked, and whichever allocation fails, the nodes form a tree     *)
(* whose siblings have different names, whose files fit their buffers and  *)
(* whose heap blocks are accounted for; seen by path, it is FileTree.  For *)
(* every path that can be typed, every payload and every limit, the files  *)
(* hold what the shell was told it wrote, cat shows the file, no command   *)
(* leaves a file open, and a relative name means the entry of the current  *)
(* directory.                                                              *)
(***************************************************************************)
EXTENDS Shell, WellFoundedInduction, FiniteSetTheorems, TLAPS

-----------------------------------------------------------------------------
(* The RAM file system. *)

LEMMA NatHasMin ==
    ASSUME NEW T, T \subseteq Nat, T # {}
    PROVE  \E x \in T : \A y \in T : x <= y
<1> DEFINE R == OpToRel(<, Nat)
<1>1. \E x \in T : \A y \in T : ~(<<y, x>> \in R)
  <2>1. IsWellFoundedOn(R, Nat)
    BY NatLessThanWellFounded
  <2> HIDE DEF R
  <2> QED  BY <2>1, WFMin
<1>2. \A x, y \in T : ~(<<y, x>> \in R) => x <= y
  BY DEF OpToRel
<1> HIDE DEF R
<1> QED  BY <1>1, <1>2

Fields == {"name", "type", "size", "parent", "mount", "isize", "data", "children"}

\* What the tree's shape needs of a node.
IsNode(r) == DOMAIN r = Fields /\ r.type \in {FILE, DIR} /\ r.children \in Seq(Node)

SiblingsDiffer(ns) ==
    \A d \in DOMAIN ns : \A i, j \in DOMAIN ns[d].children :
        ns[ns[d].children[i]].name = ns[ns[d].children[j]].name => i = j

IsFs(ns) ==
    /\ root \in DOMAIN ns /\ DOMAIN ns \subseteq Node /\ IsFiniteSet(DOMAIN ns)
    /\ ns[root].type = DIR
    /\ \A n \in DOMAIN ns : IsNode(ns[n])
    /\ IsTree(ns)
    /\ SiblingsDiffer(ns)

\* Two tables that differ in what the files hold and nothing else.
SameShape(ns, u) ==
    /\ DOMAIN u = DOMAIN ns
    /\ \A n \in DOMAIN ns :
        /\ DOMAIN u[n] = DOMAIN ns[n]
        /\ u[n].type = ns[n].type /\ u[n].name = ns[n].name
        /\ u[n].parent = ns[n].parent /\ u[n].children = ns[n].children

LEMMA ShapeIsAll ==
    ASSUME NEW ns, NEW u, IsFs(ns), SameShape(ns, u)
    PROVE  IsFs(u)
<1>1. \A n \in DOMAIN u : IsNode(u[n])
  BY DEF IsFs, SameShape, IsNode
<1>2. \A d \in DOMAIN ns : \A i \in DOMAIN ns[d].children : ns[d].children[i] \in DOMAIN ns
  BY DEF IsFs, IsTree
<1>3. IsTree(u)
  <2>1. ASSUME NEW n \in DOMAIN u \ {root}
        PROVE  /\ u[n].parent \in DOMAIN u
               /\ \E i \in DOMAIN u[u[n].parent].children : u[u[n].parent].children[i] = n
    BY DEF IsFs, SameShape, IsTree
  <2>2. ASSUME NEW d \in DOMAIN u, NEW i \in DOMAIN u[d].children
        PROVE  /\ u[d].type = DIR
               /\ u[d].children[i] \in DOMAIN u \ {root}
               /\ u[u[d].children[i]].parent = d
               /\ \A j \in DOMAIN u[d].children :
                    u[d].children[i] = u[d].children[j] => i = j
    BY DEF IsFs, SameShape, IsTree
  <2> QED  BY <2>1, <2>2 DEF IsTree
<1>4. SiblingsDiffer(u)
  BY <1>2 DEF IsFs, SameShape, SiblingsDiffer
<1> QED  BY <1>1, <1>3, <1>4 DEF IsFs, SameShape

-----------------------------------------------------------------------------
(* ramfs_create. *)

\* lookup finds nothing only where no child has the name.
LEMMA LookupIsComplete ==
    ASSUME NEW ns, IsFs(ns), NEW dir \in DOMAIN ns, ns[dir].type = DIR, NEW name,
           ramfs_lookup(ns, dir, name) = NULL
    PROVE  \A i \in DOMAIN ns[dir].children : ns[ns[dir].children[i]].name # name
<1> DEFINE ch == ns[dir].children
           hits == {i \in DOMAIN ch : ns[ch[i]].name = name}
<1> SUFFICES ASSUME hits # {}  PROVE FALSE
  OBVIOUS
<1>1. ch \in Seq(Node)
  BY DEF IsFs, IsNode
<1>2. hits \subseteq Nat
  BY <1>1
<1>3. PICK i \in hits : \A j \in hits : i <= j
  <2> HIDE DEF hits
  <2> QED  BY <1>2, NatHasMin
<1>4. (CHOOSE k \in hits : \A j \in hits : k <= j) \in hits
  <2> HIDE DEF hits
  <2> QED  BY <1>3
<1>5. ramfs_lookup(ns, dir, name) = ch[CHOOSE k \in hits : \A j \in hits : k <= j]
  BY DEF ramfs_lookup
<1>6. ramfs_lookup(ns, dir, name) \in Node
  <2>1. \A k \in hits : ch[k] \in Node
    BY <1>1
  <2> HIDE DEF hits, ch
  <2> QED  BY <1>4, <1>5, <2>1
<1> QED  BY <1>6, RamfsAssumption

\* u is ns with a new node n linked into dir.
IsLinked(ns, u, dir, name, type, n) ==
    /\ DOMAIN u = DOMAIN ns \cup {n}
    /\ DOMAIN u[n] = Fields /\ u[n].name = name /\ u[n].type = type
    /\ u[n].parent = dir /\ u[n].children = <<>>
    /\ \A m \in DOMAIN ns :
        /\ DOMAIN u[m] = Fields
        /\ u[m].name = ns[m].name /\ u[m].type = ns[m].type
        /\ u[m].parent = ns[m].parent
    /\ u[dir].children = Append(ns[dir].children, n)
    /\ \A m \in DOMAIN ns \ {dir} : u[m].children = ns[m].children

LEMMA CreatedIsLinked ==
    ASSUME NEW ns, IsFs(ns), NEW dir \in DOMAIN ns, NEW name, NEW type \in {FILE, DIR},
           NEW n \in Node \ DOMAIN ns
    PROVE  IsLinked(ns, Created(ns, dir, name, type, n), dir, name, type, n)
<1> DEFINE u == Created(ns, dir, name, type, n)
<1>1. DOMAIN u = DOMAIN ns \cup {n}
  BY DEF Created
<1>2. u[n] = NewNode(name, type, dir)
  BY DEF Created
<1>3. u[dir] = [ns[dir] EXCEPT !.children = Append(@, n)]
  BY DEF Created
<1>4. \A m \in DOMAIN ns \ {dir} : u[m] = ns[m]
  BY DEF Created
<1>5. \A m \in DOMAIN ns : DOMAIN ns[m] = Fields
  BY DEF IsFs, IsNode
<1>6. /\ DOMAIN u[dir] = Fields
      /\ u[dir].name = ns[dir].name /\ u[dir].type = ns[dir].type
      /\ u[dir].parent = ns[dir].parent /\ u[dir].children = Append(ns[dir].children, n)
  <2>1. "children" \in Fields /\ "name" \in Fields /\ "type" \in Fields /\ "parent" \in Fields
    BY DEF Fields
  <2> QED  BY <1>3, <1>5, <2>1
<1>7. /\ DOMAIN u[n] = Fields /\ u[n].name = name /\ u[n].type = type
      /\ u[n].parent = dir /\ u[n].children = <<>>
  BY <1>2 DEF NewNode, Fields
<1> HIDE DEF u
<1>8. IsLinked(ns, u, dir, name, type, n)
  BY <1>1, <1>4, <1>5, <1>6, <1>7 DEF IsLinked
<1> QED  BY <1>8 DEF u

LEMMA LinkedIsFs ==
    ASSUME NEW ns, IsFs(ns), NEW dir \in DOMAIN ns, NEW name, NEW type \in {FILE, DIR},
           NEW n \in Node \ DOMAIN ns, CanCreate(ns, dir, name),
           NEW u, IsLinked(ns, u, dir, name, type, n)
    PROVE  IsFs(u)
<1> DEFINE ch == ns[dir].children
           len == Len(ch)
<1>1. /\ DOMAIN u = DOMAIN ns \cup {n}
      /\ DOMAIN u[n] = Fields /\ u[n].name = name /\ u[n].type = type
      /\ u[n].parent = dir /\ u[n].children = <<>>
      /\ u[dir].children = Append(ch, n)
  BY DEF IsLinked
<1>2. \A m \in DOMAIN ns :
        /\ DOMAIN u[m] = Fields
        /\ u[m].name = ns[m].name /\ u[m].type = ns[m].type
        /\ u[m].parent = ns[m].parent
  BY DEF IsLinked
<1>3. \A m \in DOMAIN ns \ {dir} : u[m].children = ns[m].children
  BY DEF IsLinked
<1>4. ch \in Seq(Node) /\ len \in Nat /\ DOMAIN ch = 1 .. len /\ ns[dir].type = DIR
  BY DEF IsFs, IsNode, CanCreate
<1>5. /\ DOMAIN u[dir].children = 1 .. len + 1
      /\ \A i \in 1 .. len : u[dir].children[i] = ch[i]
      /\ u[dir].children[len + 1] = n
      /\ u[dir].children \in Seq(Node)
  BY <1>1, <1>4
<1>6. \A i \in DOMAIN ch : ns[ch[i]].name # name
  BY <1>4, LookupIsComplete DEF CanCreate
<1>7. /\ \A m \in DOMAIN ns \ {root} :
            /\ ns[m].parent \in DOMAIN ns
            /\ \E i \in DOMAIN ns[ns[m].parent].children : ns[ns[m].parent].children[i] = m
      /\ \A d \in DOMAIN ns : \A i \in DOMAIN ns[d].children :
            /\ ns[d].type = DIR
            /\ ns[d].children[i] \in DOMAIN ns \ {root}
            /\ ns[ns[d].children[i]].parent = d
            /\ \A j \in DOMAIN ns[d].children :
                    ns[d].children[i] = ns[d].children[j] => i = j
  BY DEF IsFs, IsTree
<1>8. root \in DOMAIN ns /\ n # root /\ dir # n
  BY DEF IsFs
<1> HIDE DEF ch, len
<1>9. \A m \in DOMAIN u : IsNode(u[m])
  <2>1. IsNode(u[n])
    BY <1>1 DEF IsNode
  <2>2. ASSUME NEW m \in DOMAIN ns  PROVE IsNode(u[m])
    BY <1>2, <1>3, <1>5 DEF IsFs, IsNode
  <2> QED  BY <1>1, <2>1, <2>2
<1>10. ASSUME NEW m \in DOMAIN u \ {root}
       PROVE  /\ u[m].parent \in DOMAIN u
              /\ \E i \in DOMAIN u[u[m].parent].children : u[u[m].parent].children[i] = m
  <2>1. CASE m = n
    <3>1. len + 1 \in DOMAIN u[dir].children
      BY <1>4, <1>5
    <3> QED  BY <2>1, <3>1, <1>1, <1>5
  <2>2. CASE m # n
    <3>1. m \in DOMAIN ns \ {root} /\ u[m].parent = ns[m].parent
      BY <2>2, <1>1, <1>2
    <3>2. PICK i \in DOMAIN ns[ns[m].parent].children : ns[ns[m].parent].children[i] = m
      BY <3>1, <1>7
    <3>3. CASE ns[m].parent = dir
      <4>1. i \in 1 .. len /\ ch[i] = m
        BY <3>2, <3>3, <1>4 DEF ch
      <4>2. i \in DOMAIN u[dir].children /\ u[dir].children[i] = m
        BY <4>1, <1>4, <1>5
      <4> QED  BY <3>1, <3>3, <4>2, <1>1
    <3>4. CASE ns[m].parent # dir
      BY <3>1, <3>2, <3>4, <1>1, <1>3, <1>7
    <3> QED  BY <3>3, <3>4
  <2> QED  BY <2>1, <2>2
<1>11. ASSUME NEW d \in DOMAIN u, NEW i \in DOMAIN u[d].children
       PROVE  /\ u[d].type = DIR
              /\ u[d].children[i] \in DOMAIN u \ {root}
              /\ u[u[d].children[i]].parent = d
              /\ \A j \in DOMAIN u[d].children :
                    /\ u[d].children[i] = u[d].children[j] => i = j
                    /\ u[u[d].children[i]].name = u[u[d].children[j]].name => i = j
  <2>1. d # n
    BY <1>1
  <2>2. CASE d # dir
    <3>1. d \in DOMAIN ns /\ u[d].children = ns[d].children /\ u[d].type = ns[d].type
      BY <2>1, <2>2, <1>1, <1>2, <1>3
    <3>2. \A j \in DOMAIN ns[d].children : ns[d].children[j] \in DOMAIN ns \ {root}
      BY <3>1, <1>7
    <3>3. \A j \in DOMAIN ns[d].children :
            ns[ns[d].children[i]].name = ns[ns[d].children[j]].name => i = j
      BY <3>1 DEF IsFs, SiblingsDiffer
    <3> QED  BY <3>1, <3>2, <3>3, <1>1, <1>2, <1>7
  <2>3. CASE d = dir
    <3>1. \A k \in 1 .. len : ch[k] \in DOMAIN ns \ {root} /\ ns[ch[k]].parent = dir
                                /\ ch[k] # n /\ ns[ch[k]].name # name
      BY <1>4, <1>6, <1>7 DEF ch
    <3>2. \A k \in 1 .. len, j \in 1 .. len :
            ch[k] = ch[j] \/ ns[ch[k]].name = ns[ch[j]].name => k = j
      BY <1>4, <1>7 DEF ch, IsFs, SiblingsDiffer
    <3>3. \A k \in 1 .. len + 1 : k = len + 1 \/ k \in 1 .. len
      BY <1>4
    <3> QED  BY <2>3, <3>1, <3>2, <3>3, <1>1, <1>2, <1>4, <1>5, <1>8
  <2> QED  BY <2>2, <2>3
<1>12. IsTree(u) /\ SiblingsDiffer(u)
  BY <1>10, <1>11 DEF IsTree, SiblingsDiffer
<1>13. IsFiniteSet(DOMAIN u) /\ DOMAIN u \subseteq Node /\ root \in DOMAIN u /\ u[root].type = DIR
  BY <1>1, <1>2, <1>8, FS_AddElement DEF IsFs
<1> QED  BY <1>9, <1>12, <1>13 DEF IsFs

-----------------------------------------------------------------------------
(* ramfs_write changes what a file holds and nothing of the tree. *)

LEMMA WrittenIsFs ==
    ASSUME NEW ns, IsFs(ns), NEW n \in DOMAIN ns, NEW off, NEW bytes
    PROVE  SameShape(ns, Written(ns, n, off, bytes)) /\ IsFs(Written(ns, n, off, bytes))
<1> DEFINE u == Written(ns, n, off, bytes)
<1>1. DOMAIN ns[n] = Fields
  BY DEF IsFs, IsNode
<1>2. PICK data, isize, size :
        u = [ns EXCEPT ![n] = [@ EXCEPT !.data = data, !.isize = isize, !.size = size]]
  BY DEF Written
<1> HIDE DEF u
<1>3. DOMAIN u = DOMAIN ns /\ \A m \in DOMAIN ns \ {n} : u[m] = ns[m]
  BY <1>2
<1>4. u[n] = [ns[n] EXCEPT !.data = data, !.isize = isize, !.size = size]
  BY <1>2
<1>5. /\ DOMAIN u[n] = DOMAIN ns[n]
      /\ u[n].type = ns[n].type /\ u[n].name = ns[n].name
      /\ u[n].parent = ns[n].parent /\ u[n].children = ns[n].children
  BY <1>1, <1>4 DEF Fields
<1>6. SameShape(ns, u)
  BY <1>3, <1>5 DEF SameShape
<1> QED  BY <1>6, ShapeIsAll DEF u

-----------------------------------------------------------------------------
(* ramfs_unlink. *)

\* Taking the one entry out keeps the others, in order.
LEMMA WithoutChildShifts ==
    ASSUME NEW ch \in Seq(Node), NEW n, NEW k \in DOMAIN ch, ch[k] = n,
           \A i, j \in DOMAIN ch : ch[i] = ch[j] => i = j
    PROVE  /\ WithoutChild(ch, n) \in Seq(Node)
           /\ DOMAIN WithoutChild(ch, n) = 1 .. Len(ch) - 1
           /\ \A j \in 1 .. Len(ch) - 1 :
                WithoutChild(ch, n)[j] = ch[IF j < k THEN j ELSE j + 1]
<1> DEFINE hits == {i \in DOMAIN ch : ch[i] = n}
           first == CHOOSE i \in hits : \A j \in hits : i <= j
<1>1. hits = {k} /\ k \in Nat /\ k \in 1 .. Len(ch) /\ Len(ch) \in Nat
  OBVIOUS
<1>2. first = k
  <2>1. \A j \in hits : k <= j
    BY <1>1
  <2> HIDE DEF hits
  <2> QED  BY <1>1, <2>1
<1>3. WithoutChild(ch, n) = [j \in 1 .. Len(ch) - 1 |-> ch[IF j < k THEN j ELSE j + 1]]
  <2>1. WithoutChild(ch, n) =
            IF hits = {} THEN ch
            ELSE [j \in 1 .. Len(ch) - 1 |-> ch[IF j < first THEN j ELSE j + 1]]
    BY DEF WithoutChild
  <2> HIDE DEF hits, first
  <2> QED  BY <1>1, <1>2, <2>1
<1>4. \A j \in 1 .. Len(ch) - 1 : (IF j < k THEN j ELSE j + 1) \in 1 .. Len(ch)
  BY <1>1
<1>5. \A j \in 1 .. Len(ch) - 1 : ch[IF j < k THEN j ELSE j + 1] \in Node
  BY <1>4
<1>6. Len(ch) - 1 \in Nat
  BY <1>1
<1>7. [j \in 1 .. Len(ch) - 1 |-> ch[IF j < k THEN j ELSE j + 1]] \in Seq(Node)
  BY <1>5, <1>6
<1> QED  BY <1>3, <1>7

\* u is ns without n and without its entry in dir.
IsUnlinked(ns, u, dir, n) ==
    /\ DOMAIN u = DOMAIN ns \ {n}
    /\ \A m \in DOMAIN u :
        /\ DOMAIN u[m] = Fields
        /\ u[m].name = ns[m].name /\ u[m].type = ns[m].type
        /\ u[m].parent = ns[m].parent
    /\ u[dir].children = WithoutChild(ns[dir].children, n)
    /\ \A m \in DOMAIN u \ {dir} : u[m].children = ns[m].children

LEMMA UnlinkedIsUnlinked ==
    ASSUME NEW ns, IsFs(ns), NEW dir \in DOMAIN ns, NEW n \in DOMAIN ns \ {dir}
    PROVE  IsUnlinked(ns, Unlinked(ns, dir, n), dir, n)
<1> DEFINE u == Unlinked(ns, dir, n)
<1>1. DOMAIN u = DOMAIN ns \ {n}
  BY DEF Unlinked
<1>2. u[dir] = [ns[dir] EXCEPT !.children = WithoutChild(@, n)]
  BY DEF Unlinked
<1>3. \A m \in DOMAIN ns \ {dir, n} : u[m] = ns[m]
  BY DEF Unlinked
<1>4. \A m \in DOMAIN ns : DOMAIN ns[m] = Fields
  BY DEF IsFs, IsNode
<1> HIDE DEF u
<1>5. /\ DOMAIN u[dir] = Fields
      /\ u[dir].name = ns[dir].name /\ u[dir].type = ns[dir].type
      /\ u[dir].parent = ns[dir].parent
      /\ u[dir].children = WithoutChild(ns[dir].children, n)
  <2>1. "children" \in Fields /\ "name" \in Fields /\ "type" \in Fields /\ "parent" \in Fields
    BY DEF Fields
  <2> QED  BY <1>2, <1>4, <2>1
<1>6. IsUnlinked(ns, u, dir, n)
  BY <1>1, <1>3, <1>4, <1>5 DEF IsUnlinked
<1> QED  BY <1>6 DEF u

LEMMA UnlinkedIsFs ==
    ASSUME NEW ns, IsFs(ns), NEW n \in DOMAIN ns \ {root}, CanUnlink(ns, n),
           NEW dir, dir = ns[n].parent
    PROVE  /\ dir \in DOMAIN ns \ {n}
           /\ IsFs(Unlinked(ns, dir, n))
<1> DEFINE ch == ns[dir].children
           len == Len(ch)
<1>1. /\ \A m \in DOMAIN ns \ {root} :
            /\ ns[m].parent \in DOMAIN ns
            /\ \E i \in DOMAIN ns[ns[m].parent].children : ns[ns[m].parent].children[i] = m
      /\ \A d \in DOMAIN ns : \A i \in DOMAIN ns[d].children :
            /\ ns[d].type = DIR
            /\ ns[d].children[i] \in DOMAIN ns \ {root}
            /\ ns[ns[d].children[i]].parent = d
            /\ \A j \in DOMAIN ns[d].children :
                    ns[d].children[i] = ns[d].children[j] => i = j
  BY DEF IsFs, IsTree
<1>2. \A d \in DOMAIN ns : ns[d].children \in Seq(Node)
  BY DEF IsFs, IsNode
<1>3. DOMAIN ns[n].children = {}
  <2>1. ASSUME NEW i \in DOMAIN ns[n].children  PROVE FALSE
    <3>1. ns[n].type = DIR
      BY <1>1, <2>1
    <3>2. ns[n].children = <<>>
      BY <3>1 DEF CanUnlink
    <3> QED  BY <3>2, <2>1
  <2> QED  BY <2>1
<1>4. dir \in DOMAIN ns /\ \E i \in DOMAIN ch : ch[i] = n
  BY <1>1
<1>5. dir # n
  BY <1>3, <1>4
<1>6. PICK k \in DOMAIN ch : ch[k] = n
  BY <1>4
<1>7. ch \in Seq(Node) /\ \A i, j \in DOMAIN ch : ch[i] = ch[j] => i = j
  BY <1>1, <1>2, <1>4
<1> DEFINE u == Unlinked(ns, dir, n)
<1>8. IsUnlinked(ns, u, dir, n)
  BY <1>4, <1>5, UnlinkedIsUnlinked
<1> HIDE DEF u
<1>9. /\ DOMAIN u = DOMAIN ns \ {n} /\ dir \in DOMAIN u
      /\ \A m \in DOMAIN u :
            /\ DOMAIN u[m] = Fields
            /\ u[m].name = ns[m].name /\ u[m].type = ns[m].type
            /\ u[m].parent = ns[m].parent
      /\ \A m \in DOMAIN u \ {dir} : u[m].children = ns[m].children
  BY <1>4, <1>5, <1>8 DEF IsUnlinked
<1>10. /\ u[dir].children \in Seq(Node)
       /\ DOMAIN u[dir].children = 1 .. len - 1
       /\ \A j \in 1 .. len - 1 : u[dir].children[j] = ch[IF j < k THEN j ELSE j + 1]
  <2>1. u[dir].children = WithoutChild(ch, n)
    BY <1>8 DEF IsUnlinked
  <2> HIDE DEF ch
  <2> QED  BY <2>1, <1>6, <1>7, WithoutChildShifts
<1>11. len \in Nat /\ DOMAIN ch = 1 .. len /\ k \in 1 .. len
  BY <1>6, <1>7
<1> HIDE DEF len
<1>12. \A m \in DOMAIN u : IsNode(u[m])
  BY <1>9, <1>10 DEF IsFs, IsNode
<1>13. ASSUME NEW m \in DOMAIN u \ {root}
       PROVE  /\ u[m].parent \in DOMAIN u
              /\ \E i \in DOMAIN u[u[m].parent].children : u[u[m].parent].children[i] = m
  <2>1. PICK i \in DOMAIN ns[ns[m].parent].children : ns[ns[m].parent].children[i] = m
    BY <1>1, <1>9
  <2>2. u[m].parent = ns[m].parent /\ ns[m].parent \in DOMAIN u /\ m # n
    BY <1>1, <1>3, <1>9, <2>1
  <2>3. CASE ns[m].parent # dir
    BY <2>1, <2>2, <2>3, <1>9
  <2>4. CASE ns[m].parent = dir
    <3>1. i \in 1 .. len /\ ch[i] = m /\ i # k
      BY <2>1, <2>2, <2>4, <1>6, <1>11
    <3> HIDE DEF ch
    <3>2. CASE i < k
      <4>1. i \in 1 .. len - 1 /\ u[dir].children[i] = m
        BY <3>1, <3>2, <1>10, <1>11
      <4> QED  BY <4>1, <2>2, <2>4, <1>9, <1>10
    <3>3. CASE i > k
      <4>1. i - 1 \in 1 .. len - 1 /\ ~(i - 1 < k) /\ (i - 1) + 1 = i
        BY <3>1, <3>3, <1>11
      <4>2. u[dir].children[i - 1] = m
        BY <3>1, <4>1, <1>10
      <4> QED  BY <4>1, <4>2, <2>2, <2>4, <1>9, <1>10
    <3> QED  BY <3>1, <3>2, <3>3, <1>11
  <2> QED  BY <2>3, <2>4
<1>14. ASSUME NEW d \in DOMAIN u, NEW i \in DOMAIN u[d].children
       PROVE  /\ u[d].type = DIR
              /\ u[d].children[i] \in DOMAIN u \ {root}
              /\ u[u[d].children[i]].parent = d
              /\ \A j \in DOMAIN u[d].children :
                    /\ u[d].children[i] = u[d].children[j] => i = j
                    /\ u[u[d].children[i]].name = u[u[d].children[j]].name => i = j
  <2>1. \A x, y \in DOMAIN ns[d].children :
            ns[ns[d].children[x]].name = ns[ns[d].children[y]].name => x = y
    BY <1>9 DEF IsFs, SiblingsDiffer
  <2>2. CASE d # dir
    <3>1. u[d].children = ns[d].children /\ u[d].type = ns[d].type /\ d \in DOMAIN ns
      BY <2>2, <1>9
    <3>2. \A j \in DOMAIN ns[d].children :
            ns[d].children[j] \in DOMAIN u \ {root} /\ ns[ns[d].children[j]].parent = d
      <4>1. ASSUME NEW j \in DOMAIN ns[d].children  PROVE ns[d].children[j] # n
        BY <3>1, <2>2, <1>1
      <4> QED  BY <4>1, <3>1, <1>1, <1>9
    <3> QED  BY <2>1, <3>1, <3>2, <1>1, <1>9
  <2>3. CASE d = dir
    <3> DEFINE g(j) == IF j < k THEN j ELSE j + 1
    <3>1. i \in 1 .. len - 1 /\ DOMAIN u[d].children = 1 .. len - 1
      BY <2>3, <1>10
    <3>2. \A j \in 1 .. len - 1 : g(j) \in 1 .. len /\ g(j) # k
      BY <1>11
    <3>3. \A x, y \in 1 .. len - 1 : g(x) = g(y) => x = y
      BY <1>11
    <3>4. \A j \in 1 .. len - 1 : u[d].children[j] = ch[g(j)]
      BY <2>3, <1>10
    <3> HIDE DEF g
    <3>5. \A j \in 1 .. len - 1 :
            /\ ch[g(j)] \in DOMAIN u \ {root}
            /\ u[ch[g(j)]].parent = dir
            /\ u[ch[g(j)]].name = ns[ch[g(j)]].name
      <4> SUFFICES ASSUME NEW j \in 1 .. len - 1
                   PROVE  /\ ch[g(j)] \in DOMAIN u \ {root}
                          /\ u[ch[g(j)]].parent = dir
                          /\ u[ch[g(j)]].name = ns[ch[g(j)]].name
        OBVIOUS
      <4>1. g(j) \in DOMAIN ch /\ g(j) # k
        BY <3>2, <1>11
      <4>2. ch[g(j)] \in DOMAIN ns \ {root} /\ ns[ch[g(j)]].parent = dir
        BY <4>1, <1>1, <1>4
      <4>3. ch[g(j)] # n
        BY <4>1, <1>6, <1>7
      <4> QED  BY <4>2, <4>3, <1>9
    <3>6. \A x, y \in 1 .. len - 1 :
            ch[g(x)] = ch[g(y)] \/ ns[ch[g(x)]].name = ns[ch[g(y)]].name => x = y
      BY <2>1, <2>3, <3>2, <3>3, <1>7, <1>11
    <3>7. u[d].type = DIR
      <4>1. ns[dir].type = DIR
        BY <1>1, <1>4, <1>6
      <4> QED  BY <4>1, <2>3, <1>9
    <3> HIDE DEF ch
    <3> QED  BY <2>3, <3>1, <3>4, <3>5, <3>6, <3>7
  <2> QED  BY <2>2, <2>3
<1>15. IsTree(u) /\ SiblingsDiffer(u)
  BY <1>13, <1>14 DEF IsTree, SiblingsDiffer
<1>16. IsFiniteSet(DOMAIN u) /\ DOMAIN u \subseteq Node /\ root \in DOMAIN u /\ u[root].type = DIR
  BY <1>9, FS_RemoveElement DEF IsFs
<1>17. IsFs(u)
  BY <1>12, <1>15, <1>16 DEF IsFs
<1> QED  BY <1>4, <1>5, <1>17 DEF u

-----------------------------------------------------------------------------
(* The heap blocks. *)

Files(ns) == {n \in DOMAIN ns : ns[n].type = FILE}

Blocks(ns) == [node |-> Cardinality(DOMAIN ns), inode |-> Cardinality(DOMAIN ns),
               data |-> Cardinality(Files(ns))]

LEMMA CountsAreNat ==
    ASSUME NEW ns, IsFs(ns)
    PROVE  /\ IsFiniteSet(Files(ns))
           /\ Cardinality(DOMAIN ns) \in Nat /\ Cardinality(Files(ns)) \in Nat
<1>1. IsFiniteSet(DOMAIN ns) /\ Files(ns) \subseteq DOMAIN ns
  BY DEF IsFs, Files
<1>2. IsFiniteSet(Files(ns))
  BY <1>1, FS_Subset
<1> QED  BY <1>1, <1>2, FS_CardinalityType

LEMMA BlocksOfLinked ==
    ASSUME NEW ns, IsFs(ns), NEW dir \in DOMAIN ns, NEW name, NEW type \in {FILE, DIR},
           NEW n \in Node \ DOMAIN ns, NEW u, IsLinked(ns, u, dir, name, type, n)
    PROVE  Blocks(u) = Plus(Blocks(ns), BlocksOf(type))
<1>1. /\ IsFiniteSet(DOMAIN ns) /\ IsFiniteSet(Files(ns))
      /\ Cardinality(DOMAIN ns) \in Nat /\ Cardinality(Files(ns)) \in Nat
  BY CountsAreNat DEF IsFs
<1>2. /\ DOMAIN u = DOMAIN ns \cup {n} /\ u[n].type = type
      /\ \A m \in DOMAIN ns : u[m].type = ns[m].type
  BY DEF IsLinked
<1>3. Cardinality(DOMAIN u) = Cardinality(DOMAIN ns) + 1
  BY <1>1, <1>2, FS_AddElement
<1>4. Cardinality(Files(u)) = Cardinality(Files(ns)) + (IF type = FILE THEN 1 ELSE 0)
  <2>1. CASE type = FILE
    <3>1. Files(u) = Files(ns) \cup {n} /\ n \notin Files(ns)
      BY <1>2, <2>1 DEF Files
    <3> QED  BY <3>1, <1>1, <2>1, FS_AddElement
  <2>2. CASE type # FILE
    <3>1. Files(u) = Files(ns)
      BY <1>2, <2>2 DEF Files
    <3> QED  BY <3>1, <1>1, <2>2
  <2> QED  BY <2>1, <2>2
<1> QED  BY <1>3, <1>4 DEF Blocks, Plus, BlocksOf

LEMMA BlocksOfUnlinked ==
    ASSUME NEW ns, IsFs(ns), NEW n \in DOMAIN ns, NEW dir,
           NEW u, IsUnlinked(ns, u, dir, n)
    PROVE  Blocks(u) = Minus(Blocks(ns), BlocksOf(ns[n].type))
<1>1. /\ IsFiniteSet(DOMAIN ns) /\ IsFiniteSet(Files(ns))
      /\ Cardinality(DOMAIN ns) \in Nat /\ Cardinality(Files(ns)) \in Nat
  BY CountsAreNat DEF IsFs
<1>2. DOMAIN u = DOMAIN ns \ {n} /\ \A m \in DOMAIN u : u[m].type = ns[m].type
  BY DEF IsUnlinked
<1>3. Cardinality(DOMAIN u) = Cardinality(DOMAIN ns) - 1
  BY <1>1, <1>2, FS_RemoveElement
<1>4. Cardinality(Files(u))
        = Cardinality(Files(ns)) - (IF ns[n].type = FILE THEN 1 ELSE 0)
  <2>1. CASE ns[n].type = FILE
    <3>1. Files(u) = Files(ns) \ {n} /\ n \in Files(ns)
      BY <1>2, <2>1 DEF Files
    <3> QED  BY <3>1, <1>1, <2>1, FS_RemoveElement
  <2>2. CASE ns[n].type # FILE
    <3>1. Files(u) = Files(ns)
      BY <1>2, <2>2 DEF Files
    <3> QED  BY <3>1, <1>1, <2>2
  <2> QED  BY <2>1, <2>2
<1> QED  BY <1>3, <1>4 DEF Blocks, Minus, BlocksOf

\* What a failed creation has allocated it has freed.
LEMMA FailureFreesAll ==
    ASSUME NEW ns, IsFs(ns), NEW failing
    PROVE  Minus(Plus(Blocks(ns), Got(failing)), Freed(failing)) = Blocks(ns)
<1>1. Cardinality(DOMAIN ns) \in Nat /\ Cardinality(Files(ns)) \in Nat
  BY CountsAreNat
<1> DEFINE a == Cardinality(DOMAIN ns)
           b == Cardinality(Files(ns))
           x == IF failing # "node" THEN 1 ELSE 0
           y == IF failing = "data" THEN 1 ELSE 0
<1>2. Plus(Blocks(ns), Got(failing)) = [node |-> a + x, inode |-> a + y, data |-> b + 0]
  BY DEF Plus, Blocks, Got
<1>3. Minus([node |-> a + x, inode |-> a + y, data |-> b + 0], Freed(failing))
        = [node |-> (a + x) - x, inode |-> (a + y) - y, data |-> (b + 0) - 0]
  BY DEF Minus, Freed
<1>4. (a + x) - x = a /\ (a + y) - y = a /\ (b + 0) - 0 = b
  BY <1>1
<1> HIDE DEF a, b, x, y
<1>5. Minus(Plus(Blocks(ns), Got(failing)), Freed(failing)) = [node |-> a, inode |-> a, data |-> b]
  BY <1>2, <1>3, <1>4
<1> QED  BY <1>5 DEF Blocks, a, b

-----------------------------------------------------------------------------
(* What the files hold. *)

LEMMA CountingUp ==
    ASSUME NEW n \in Nat, NEW T, 0 \in T, \A k \in 0 .. n - 1 : k \in T => k + 1 \in T
    PROVE  \A k \in 0 .. n : k \in T
<1> DEFINE Out == {k \in 0 .. n : k \notin T}
<1>1. ASSUME Out # {}  PROVE FALSE
  <2>1. Out \subseteq Nat
    OBVIOUS
  <2>2. PICK k \in Out : \A j \in Out : k <= j
    <3> HIDE DEF Out
    <3> QED  BY <1>1, <2>1, NatHasMin
  <2>3. k - 1 \in 0 .. n - 1 /\ ~ (k <= k - 1) /\ k - 1 + 1 = k /\ k - 1 \in 0 .. n
    BY <2>2
  <2>4. k - 1 \in T
    BY <2>2, <2>3
  <2> QED  BY <2>2, <2>3, <2>4
<1> QED  BY <1>1

\* The capacities that the loop of ramfs_write goes through.
IsDoubling(d, n, first) == d = [k \in 0 .. n |-> IF k = 0 THEN first ELSE 2 * d[k - 1]]

LEMMA DoublingExists ==
    ASSUME NEW n \in Nat, NEW first \in Nat
    PROVE  \E d \in [0 .. n -> Nat] : IsDoubling(d, n, first)
<1> DEFINE T == {m \in Nat : ~ \E d \in [0 .. m -> Nat] : IsDoubling(d, m, first)}
<1>1. ASSUME T # {}  PROVE FALSE
  <2>1. PICK m \in T : \A j \in T : m <= j
    BY <1>1, NatHasMin
  <2>2. m # 0
    <3> DEFINE d == [k \in 0 .. 0 |-> first]
    <3>1. d \in [0 .. 0 -> Nat] /\ IsDoubling(d, 0, first)
      BY DEF IsDoubling
    <3> QED  BY <2>1, <3>1
  <2>3. m - 1 \in Nat /\ m - 1 \notin T
    <3>1. m \in Nat /\ m - 1 \in Nat /\ ~ (m <= m - 1)
      BY <2>1, <2>2
    <3> HIDE DEF T
    <3> QED  BY <2>1, <3>1
  <2>4. PICK d \in [0 .. m - 1 -> Nat] : IsDoubling(d, m - 1, first)
    BY <2>3
  <2>5. \A k \in 0 .. m - 1 : d[k] = IF k = 0 THEN first ELSE 2 * d[k - 1]
    BY <2>4 DEF IsDoubling
  <2> DEFINE e == [k \in 0 .. m |-> IF k = m THEN 2 * d[m - 1] ELSE d[k]]
  <2>6. e \in [0 .. m -> Nat]
    BY <2>1, <2>2, <2>3, <2>4
  <2>7. ASSUME NEW k \in 0 .. m  PROVE e[k] = IF k = 0 THEN first ELSE 2 * e[k - 1]
    <3>1. CASE k = m
      BY <3>1, <2>1, <2>2, <2>3
    <3>2. CASE k # m
      <4>1. k \in 0 .. m - 1 /\ (k # 0 => k - 1 \in 0 .. m /\ k - 1 # m)
        BY <3>2, <2>1, <2>3
      <4>2. e[k] = d[k] /\ (k # 0 => e[k - 1] = d[k - 1])
        BY <4>1, <3>2
      <4> HIDE DEF e
      <4> QED  BY <4>1, <4>2, <2>5
    <3> QED  BY <3>1, <3>2
  <2>8. IsDoubling(e, m, first)
    <3> HIDE DEF e
    <3> QED  BY <2>6, <2>7 DEF IsDoubling
  <2> QED  BY <2>1, <2>6, <2>8
<1> QED  BY <1>1

\* It goes on until the buffer is large enough, which it will be.
LEMMA DoublingReaches ==
    ASSUME NEW n \in Nat, NEW first \in Nat \ {0}, NEW d, IsDoubling(d, n, first)
    PROVE  \A k \in 0 .. n : d[k] \in Nat /\ d[k] > k
<1>1. \A k \in 0 .. n : d[k] = IF k = 0 THEN first ELSE 2 * d[k - 1]
  BY DEF IsDoubling
<1> DEFINE T == {k \in 0 .. n : d[k] \in Nat /\ d[k] > k}
<1>2. 0 \in T
  BY <1>1
<1>3. ASSUME NEW k \in 0 .. n - 1, k \in T  PROVE k + 1 \in T
  <2>1. k + 1 \in 0 .. n /\ k + 1 # 0 /\ k + 1 - 1 = k
    OBVIOUS
  <2>2. d[k + 1] = 2 * d[k]
    BY <2>1, <1>1
  <2> QED  BY <2>1, <2>2, <1>3
<1>4. \A k \in 0 .. n : k \in T
  <2> HIDE DEF T
  <2> QED  BY <1>2, <1>3, CountingUp
<1> QED  BY <1>4

LEMMA NewCapFits ==
    ASSUME NEW cap \in Nat, NEW end \in Nat, end <= RAMFS_MAX_FILESIZE
    PROVE  NewCap(cap, end) \in end .. RAMFS_MAX_FILESIZE
<1> DEFINE first == IF cap = 0 THEN RAMFS_INITIAL_CAP ELSE 2 * cap
           d == CHOOSE g : g = [k \in 0 .. end |-> IF k = 0 THEN first ELSE 2 * g[k - 1]]
           fits == {k \in 0 .. end : d[k] >= end}
           least == d[CHOOSE k \in fits : \A j \in fits : k <= j]
<1>1. NewCap(cap, end) = IF least > RAMFS_MAX_FILESIZE THEN RAMFS_MAX_FILESIZE ELSE least
  BY DEF NewCap
<1>2. first \in Nat \ {0} /\ RAMFS_MAX_FILESIZE \in Nat
  BY RamfsAssumption
<1> HIDE DEF first
<1>3. IsDoubling(d, end, first)
  <2>1. \E g : g = [k \in 0 .. end |-> IF k = 0 THEN first ELSE 2 * g[k - 1]]
    <3>1. PICK g \in [0 .. end -> Nat] : IsDoubling(g, end, first)
      BY <1>2, DoublingExists
    <3> QED  BY <3>1 DEF IsDoubling
  <2> QED  BY <2>1 DEF IsDoubling
<1> HIDE DEF d
<1>4. \A k \in 0 .. end : d[k] \in Nat /\ d[k] > k
  BY <1>2, <1>3, DoublingReaches
<1>5. end \in fits /\ fits \subseteq Nat
  BY <1>4
<1>6. \A k \in fits : d[k] \in Nat /\ d[k] >= end
  BY <1>4
<1> HIDE DEF fits
<1>7. \E k \in fits : \A j \in fits : k <= j
  BY <1>5, NatHasMin
<1>8. least \in Nat /\ least >= end
  BY <1>6, <1>7
<1> HIDE DEF least
<1> QED  BY <1>1, <1>2, <1>8

\* A node has room for its children and its content, zeros behind it.
IsSound(r) ==
    /\ r.parent \in Node
    /\ Len(r.children) <= RAMFS_MAX_CHILDREN
    /\ r.isize \in Nat
    /\ r.data \in Seq(Bytes \union {ZERO})
    /\ r.type = FILE =>
        /\ r.isize <= Len(r.data)
        /\ Len(r.data) <= RAMFS_MAX_FILESIZE
        /\ \A i \in r.isize + 1 .. Len(r.data) : r.data[i] = ZERO
AllSound(ns) == \A n \in DOMAIN ns : IsSound(ns[n])

LEMMA CreatedIsSound ==
    ASSUME NEW ns, IsFs(ns), AllSound(ns), NEW dir \in DOMAIN ns, NEW name, NEW type \in {FILE, DIR},
           NEW n \in Node \ DOMAIN ns, CanCreate(ns, dir, name)
    PROVE  AllSound(Created(ns, dir, name, type, n))
<1> DEFINE u == Created(ns, dir, name, type, n)
           ch == ns[dir].children
<1>0. RAMFS_MAX_CHILDREN \in Nat /\ RAMFS_MAX_FILESIZE \in Nat /\ RAMFS_INITIAL_CAP \in Nat
      /\ RAMFS_INITIAL_CAP <= RAMFS_MAX_FILESIZE /\ DOMAIN ns \subseteq Node
  BY RamfsAssumption DEF IsFs
<1>1. u[n] = NewNode(name, type, dir) /\ u[dir] = [ns[dir] EXCEPT !.children = Append(@, n)]
      /\ (\A m \in DOMAIN ns \ {dir} : u[m] = ns[m]) /\ DOMAIN u = DOMAIN ns \union {n}
  BY DEF Created
<1> HIDE DEF u
<1>2. IsSound(u[n])
  <2>1. ZeroBuffer(RAMFS_INITIAL_CAP) \in Seq(Bytes \union {ZERO})
        /\ Len(ZeroBuffer(RAMFS_INITIAL_CAP)) = RAMFS_INITIAL_CAP
        /\ \A i \in 1 .. RAMFS_INITIAL_CAP : ZeroBuffer(RAMFS_INITIAL_CAP)[i] = ZERO
    BY <1>0 DEF ZeroBuffer
  <2>2. u[n].parent \in Node /\ u[n].children = <<>> /\ u[n].isize = 0 /\ u[n].type = type
        /\ u[n].data = IF type = FILE THEN ZeroBuffer(RAMFS_INITIAL_CAP) ELSE <<>>
    BY <1>0, <1>1 DEF NewNode
  <2> QED  BY <2>1, <2>2, <1>0 DEF IsSound
<1>3. IsSound(u[dir])
  <2>1. DOMAIN ns[dir] = Fields /\ ch \in Seq(Node) /\ Len(ch) < RAMFS_MAX_CHILDREN
    BY DEF IsFs, IsNode, CanCreate
  <2>2. /\ u[dir].parent = ns[dir].parent /\ u[dir].isize = ns[dir].isize
        /\ u[dir].data = ns[dir].data /\ u[dir].type = ns[dir].type
        /\ u[dir].children = Append(ch, n)
    BY <2>1, <1>1 DEF Fields
  <2>3. Len(Append(ch, n)) = Len(ch) + 1 /\ Len(ch) \in Nat
    BY <2>1
  <2> HIDE DEF ch
  <2>4. IsSound(ns[dir])
    BY DEF AllSound
  <2> QED  BY <2>1, <2>2, <2>3, <2>4, <1>0 DEF IsSound
<1>4. \A m \in DOMAIN u : IsSound(u[m])
  BY <1>1, <1>2, <1>3 DEF AllSound
<1> QED  BY <1>4 DEF AllSound, u

\* The buffer a write goes into keeps the content and is zero behind it.
LEMMA GrownIsSound ==
    ASSUME NEW r, IsSound(r), r.type = FILE, NEW end \in Nat, end <= RAMFS_MAX_FILESIZE
    PROVE  /\ Grown(r, end) \in Seq(Bytes \union {ZERO})
           /\ Len(Grown(r, end)) \in Nat /\ end <= Len(Grown(r, end))
           /\ r.isize <= Len(Grown(r, end)) /\ Len(Grown(r, end)) <= RAMFS_MAX_FILESIZE
           /\ \A i \in r.isize + 1 .. Len(Grown(r, end)) : Grown(r, end)[i] = ZERO
<1>1. r.isize \in Nat /\ Len(r.data) \in Nat /\ r.isize <= Len(r.data)
      /\ r.data \in Seq(Bytes \union {ZERO}) /\ \A i \in 1 .. Len(r.data) : r.data[i] \in Bytes \union {ZERO}
  BY DEF IsSound
<1>2. CASE end > Len(r.data)
  <2> DEFINE cap == NewCap(Len(r.data), end)
             g == [i \in 1 .. cap |-> IF i <= r.isize THEN r.data[i] ELSE ZeroBuffer(cap)[i]]
  <2>1. Grown(r, end) = g
    BY <1>2 DEF Grown
  <2>2. cap \in Nat /\ end <= cap /\ cap <= RAMFS_MAX_FILESIZE
    <3>1. cap \in end .. RAMFS_MAX_FILESIZE
      BY <1>1, NewCapFits
    <3> QED  BY <3>1, RamfsAssumption
  <2>3. \A i \in 1 .. cap : ZeroBuffer(cap)[i] = ZERO
    BY DEF ZeroBuffer
  <2> HIDE DEF cap
  <2>4. g \in [1 .. cap -> Bytes \union {ZERO}]
    BY <1>1, <1>2, <2>2, <2>3
  <2>5. g \in Seq(Bytes \union {ZERO}) /\ Len(g) = cap
    BY <2>2, <2>4
  <2>6. \A i \in r.isize + 1 .. cap : g[i] = ZERO
    BY <1>1, <2>2, <2>3
  <2> HIDE DEF g
  <2> QED  BY <2>1, <2>2, <2>5, <2>6, <1>1, <1>2
<1>3. CASE ~ (end > Len(r.data))
  <2>1. Grown(r, end) = r.data
    BY <1>3 DEF Grown
  <2> QED  BY <2>1, <1>1, <1>3 DEF IsSound
<1> QED  BY <1>2, <1>3

LEMMA WrittenIsSound ==
    ASSUME NEW ns, IsFs(ns), AllSound(ns), NEW n \in DOMAIN ns, ns[n].type = FILE,
           NEW off \in Nat, NEW bytes \in Seq(Bytes), off + Len(bytes) <= RAMFS_MAX_FILESIZE
    PROVE  AllSound(Written(ns, n, off, bytes))
<1> DEFINE u == Written(ns, n, off, bytes)
           end == off + Len(bytes)
           buffer == Grown(ns[n], end)
           len == Len(buffer)
           data == [i \in DOMAIN buffer |-> IF i \in off + 1 .. end THEN bytes[i - off] ELSE buffer[i]]
           isize == IF end > ns[n].isize THEN end ELSE ns[n].isize
<1>0. end \in Nat /\ end <= RAMFS_MAX_FILESIZE /\ Len(bytes) \in Nat /\ end = off + Len(bytes)
  OBVIOUS
<1>1. IsSound(ns[n]) /\ ns[n].isize \in Nat /\ DOMAIN ns[n] = Fields
  BY DEF AllSound, IsSound, IsFs, IsNode
<1>2. PICK size : u = [ns EXCEPT ![n] =
                         [@ EXCEPT !.data = data, !.isize = isize, !.size = size]]
  BY DEF Written
<1>3. /\ buffer \in Seq(Bytes \union {ZERO})
      /\ len \in Nat /\ end <= len /\ ns[n].isize <= len /\ len <= RAMFS_MAX_FILESIZE
      /\ \A i \in ns[n].isize + 1 .. len : buffer[i] = ZERO
  <2> HIDE DEF end
  <2> QED  BY <1>0, <1>1, GrownIsSound
<1>4. \A m \in DOMAIN ns \ {n} : u[m] = ns[m]
  BY <1>2
<1>5. DOMAIN u = DOMAIN ns
  BY <1>2
<1>6. /\ u[n].parent = ns[n].parent /\ u[n].children = ns[n].children /\ u[n].type = ns[n].type
      /\ u[n].data = data /\ u[n].isize = isize
  <2> HIDE DEF data, isize, u
  <2>1. u[n] = [ns[n] EXCEPT !.data = data, !.isize = isize, !.size = size]
    BY <1>2
  <2> QED  BY <1>1, <2>1 DEF Fields
<1> HIDE DEF u, end, buffer
<1>7. DOMAIN buffer = 1 .. len /\ \A i \in 1 .. len : buffer[i] \in Bytes \union {ZERO}
  BY <1>3
<1> HIDE DEF len
<1>8. \A i \in off + 1 .. end : i - off \in 1 .. Len(bytes) /\ bytes[i - off] \in Bytes
  BY <1>0
<1>9. data \in [1 .. len -> Bytes \union {ZERO}]
  BY <1>7, <1>8
<1>10. data \in Seq(Bytes \union {ZERO}) /\ Len(data) = len
  BY <1>3, <1>9
<1>11. isize \in Nat /\ isize <= len
  BY <1>0, <1>1, <1>3
<1>12. \A i \in isize + 1 .. len : data[i] = ZERO
  BY <1>0, <1>1, <1>3, <1>7
<1> HIDE DEF data, isize
<1>13. IsSound(u[n])
  BY <1>1, <1>3, <1>6, <1>10, <1>11, <1>12 DEF IsSound
<1>14. AllSound(u)
  BY <1>4, <1>5, <1>13 DEF AllSound
<1> QED  BY <1>14 DEF u

LEMMA UnlinkedIsSound ==
    ASSUME NEW ns, IsFs(ns), AllSound(ns), NEW n \in DOMAIN ns \ {root},
           NEW dir, dir = ns[n].parent, dir \in DOMAIN ns \ {n}
    PROVE  AllSound(Unlinked(ns, dir, n))
<1> DEFINE u == Unlinked(ns, dir, n)
           ch == ns[dir].children
<1>1. /\ DOMAIN u = DOMAIN ns \ {n}
      /\ u[dir] = [ns[dir] EXCEPT !.children = WithoutChild(@, n)]
      /\ \A m \in DOMAIN ns \ {dir, n} : u[m] = ns[m]
  BY DEF Unlinked
<1> HIDE DEF u
<1>2. DOMAIN ns[dir] = Fields /\ ch \in Seq(Node)
  BY DEF IsFs, IsNode
<1>3. PICK k \in DOMAIN ch : ch[k] = n
  BY DEF IsFs, IsTree
<1>4. \A i, j \in DOMAIN ch : ch[i] = ch[j] => i = j
  BY DEF IsFs, IsTree
<1>5. DOMAIN WithoutChild(ch, n) = 1 .. Len(ch) - 1 /\ WithoutChild(ch, n) \in Seq(Node)
  <2> HIDE DEF ch
  <2> QED  BY <1>2, <1>3, <1>4, WithoutChildShifts
<1>6. Len(WithoutChild(ch, n)) <= Len(ch) /\ Len(WithoutChild(ch, n)) \in Nat /\ Len(ch) \in Nat
  <2> DEFINE w == WithoutChild(ch, n)
  <2>1. Len(ch) \in Nat /\ Len(ch) >= 1
    BY <1>2, <1>3
  <2>2. Len(w) \in Nat /\ DOMAIN w = 1 .. Len(w) /\ DOMAIN w = 1 .. Len(ch) - 1
    BY <1>5
  <2> HIDE DEF w, ch
  <2>3. Len(w) = Len(ch) - 1
    BY <2>1, <2>2
  <2> QED  BY <2>1, <2>2, <2>3 DEF w
<1>7. /\ u[dir].parent = ns[dir].parent /\ u[dir].isize = ns[dir].isize
      /\ u[dir].data = ns[dir].data /\ u[dir].type = ns[dir].type
      /\ u[dir].children = WithoutChild(ch, n)
  BY <1>1, <1>2 DEF Fields
<1>8. IsSound(ns[dir]) /\ RAMFS_MAX_CHILDREN \in Nat
  BY RamfsAssumption DEF AllSound
<1>9. IsSound(u[dir])
  BY <1>6, <1>7, <1>8 DEF IsSound
<1>10. AllSound(u)
  BY <1>1, <1>9 DEF AllSound
<1> QED  BY <1>10 DEF u

-----------------------------------------------------------------------------
(* The steps of the specification. *)

\* What every step preserves: the tree, what its nodes hold, and the account
\* of the heap.
RamfsInv == IsFs(nodes) /\ AllSound(nodes) /\ allocs = Blocks(nodes)

LEMMA StartIsFs == RamfsInit => RamfsInv
<1> SUFFICES ASSUME RamfsInit  PROVE RamfsInv
  OBVIOUS
<1>1. nodes = [n \in {root} |-> NewNode("/", DIR, root)] /\ allocs = BlocksOf(DIR)
  BY DEF RamfsInit
<1>2. /\ DOMAIN nodes = {root} /\ DOMAIN nodes[root] = Fields
      /\ nodes[root].type = DIR /\ nodes[root].children = <<>>
  BY <1>1 DEF NewNode, Fields
<1>3. IsFs(nodes)
  <2>1. root \in Node
    BY RamfsAssumption
  <2>2. IsFiniteSet({root})
    BY FS_Singleton
  <2>3. IsNode(nodes[root])
    BY <1>2 DEF IsNode
  <2>4. IsTree(nodes) /\ SiblingsDiffer(nodes)
    BY <1>2 DEF IsTree, SiblingsDiffer
  <2> QED  BY <1>2, <2>1, <2>2, <2>3, <2>4 DEF IsFs
<1>4. allocs = Blocks(nodes)
  <2>1. Files(nodes) = {}
    BY <1>2 DEF Files, FILE, DIR
  <2>2. Cardinality(DOMAIN nodes) = 1 /\ Cardinality(Files(nodes)) = 0
    BY <1>2, <2>1, FS_Singleton, FS_EmptySet
  <2> QED  BY <1>1, <2>2 DEF Blocks, BlocksOf, FILE, DIR
<1>5. AllSound(nodes)
  <2>1. /\ nodes[root].parent = root /\ nodes[root].children = <<>> /\ nodes[root].isize = 0
        /\ nodes[root].data = <<>> /\ nodes[root].type # FILE
    BY <1>1 DEF NewNode, FILE, DIR
  <2>2. Len(nodes[root].children) = 0 /\ nodes[root].data \in Seq(Bytes \union {ZERO})
    BY <2>1
  <2>3. IsSound(nodes[root])
    BY <2>1, <2>2, RamfsAssumption DEF IsSound
  <2> QED  BY <2>3, <1>2 DEF AllSound
<1> QED  BY <1>3, <1>4, <1>5 DEF RamfsInv

LEMMA StepKeepsFs == RamfsInv /\ [RamfsNext]_ramfs => RamfsInv'
<1> SUFFICES ASSUME RamfsInv, [RamfsNext]_ramfs  PROVE RamfsInv'
  OBVIOUS
<1> USE DEF RamfsInv
<1>1. ASSUME NEW dir \in Live, NEW name, NEW type \in {FILE, DIR},
             ramfs_create(dir, name, type)
      PROVE  RamfsInv'
  <2>1. CanCreate(nodes, dir, name)
    BY <1>1 DEF ramfs_create
  <2>2. ASSUME NEW n \in Node \ Live, nodes' = Created(nodes, dir, name, type, n),
               allocs' = Plus(allocs, BlocksOf(type))
        PROVE  RamfsInv'
    <3>1. IsLinked(nodes, nodes', dir, name, type, n)
      BY <2>2, CreatedIsLinked DEF Live
    <3>2. IsFs(nodes')
      BY <2>1, <3>1, LinkedIsFs DEF Live
    <3>3. Blocks(nodes') = Plus(Blocks(nodes), BlocksOf(type))
      BY <3>1, BlocksOfLinked DEF Live
    <3>4. AllSound(nodes')
      BY <2>1, <2>2, CreatedIsSound DEF Live
    <3> QED  BY <2>2, <3>2, <3>3, <3>4
  <2>3. ASSUME NEW failing, allocs' = Minus(Plus(allocs, Got(failing)), Freed(failing)),
               UNCHANGED nodes
        PROVE  RamfsInv'
    BY <2>3, FailureFreesAll
  <2> QED  BY <1>1, <2>2, <2>3 DEF ramfs_create
<1>2. ASSUME NEW n \in Live, NEW off \in 0 .. RAMFS_MAX_FILESIZE, NEW bytes \in Payloads,
             ramfs_write(n, off, bytes)
      PROVE  RamfsInv'
  <2>1. nodes' = Written(nodes, n, off, bytes) /\ allocs' = allocs
    BY <1>2 DEF ramfs_write
  <2>2. SameShape(nodes, nodes') /\ IsFs(nodes')
    BY <2>1, WrittenIsFs DEF Live
  <2>3. Files(nodes') = Files(nodes) /\ DOMAIN nodes' = DOMAIN nodes
    BY <2>2 DEF SameShape, Files
  <2>4. AllSound(nodes')
    <3>1. nodes[n].type = FILE /\ off + Len(bytes) <= RAMFS_MAX_FILESIZE /\ off \in Nat
          /\ bytes \in Seq(Bytes)
      BY <1>2, RamfsAssumption DEF ramfs_write
    <3> QED  BY <2>1, <3>1, WrittenIsSound DEF Live
  <2> QED  BY <2>1, <2>2, <2>3, <2>4 DEF Blocks
<1>3. ASSUME NEW n \in Live, n # root, ramfs_unlink(nodes[n].parent, n)
      PROVE  RamfsInv'
  <2> DEFINE dir == nodes[n].parent
  <2>1. /\ CanUnlink(nodes, n) /\ nodes' = Unlinked(nodes, dir, n)
        /\ allocs' = Minus(allocs, BlocksOf(nodes[n].type))
    BY <1>3 DEF ramfs_unlink
  <2>2. dir \in DOMAIN nodes \ {n} /\ IsFs(nodes')
    BY <1>3, <2>1, UnlinkedIsFs DEF Live
  <2>3. IsUnlinked(nodes, nodes', dir, n)
    BY <1>3, <2>1, <2>2, UnlinkedIsUnlinked DEF Live
  <2>4. Blocks(nodes') = Minus(Blocks(nodes), BlocksOf(nodes[n].type))
    BY <1>3, <2>3, BlocksOfUnlinked DEF Live
  <2>5. AllSound(nodes')
    BY <1>3, <2>1, <2>2, UnlinkedIsSound DEF Live
  <2> QED  BY <2>1, <2>2, <2>4, <2>5
<1>4. CASE UNCHANGED ramfs
  BY <1>4 DEF ramfs
<1> QED  BY <1>1, <1>2, <1>3, <1>4 DEF RamfsNext

\* Whatever is created, written and unlinked, the filesystem stays a tree and
\* every heap block belongs to a node in it (ramfs.c:87-212).
THEOREM RamfsInvariant == RamfsSpec => []RamfsInv
<1> QED  BY StartIsFs, StepKeepsFs, PTL DEF RamfsSpec

\* Every node keeps its fields, and no directory outgrows its array
\* (ramfs.c:26-72, 89-90).
THEOREM RamfsTypes == RamfsSpec => []RamfsTypeOK
<1>1. RamfsInv => RamfsTypeOK
  <2> SUFFICES ASSUME RamfsInv  PROVE RamfsTypeOK
    OBVIOUS
  <2>1. \A n \in DOMAIN nodes : IsNode(nodes[n]) /\ IsSound(nodes[n])
    BY DEF RamfsInv, IsFs, AllSound
  <2>2. IsTable(nodes)
    BY <2>1 DEF IsTable, IsNode, IsSound, Fields
  <2> QED  BY <2>2 DEF RamfsTypeOK, RamfsInv, IsFs, Live
<1> QED  BY <1>1, RamfsInvariant, PTL

\* Wherever it is written and however its buffer grew, a file fits into its
\* buffer, and the buffer is zero behind the content (ramfs.c:142-173).
THEOREM FilesFitTheirBuffers == RamfsSpec => []BuffersHoldTheirFiles
<1>1. RamfsInv => BuffersHoldTheirFiles
  BY DEF RamfsInv, AllSound, IsSound, BuffersHoldTheirFiles, Live
<1> QED  BY <1>1, RamfsInvariant, PTL

\* A node is in the children of exactly one directory, its parent, and nothing
\* that was freed is still in a tree (ramfs.c:111-115, 193-210).
THEOREM StaysATree == RamfsSpec => []TreeOK
<1>1. RamfsInv => TreeOK
  BY DEF RamfsInv, IsFs, TreeOK
<1> QED  BY <1>1, RamfsInvariant, PTL

\* Lookup can reach every child: no two have one name (ramfs.c:93-94).
THEOREM NamesStayUnique == RamfsSpec => []NamesUnique
<1>1. RamfsInv => NamesUnique
  BY DEF RamfsInv, IsFs, SiblingsDiffer, NamesUnique, Live
<1> QED  BY <1>1, RamfsInvariant, PTL

\* Creation that fails at any of its allocations, and deletion, leave the heap
\* holding the blocks of the nodes in the tree (ramfs.c:97-109, 203-210).
THEOREM NothingEverLeaks == RamfsSpec => []NothingLeaks
<1>1. RamfsInv => NothingLeaks
  BY DEF RamfsInv, Blocks, Files, NothingLeaks, Live
<1> QED  BY <1>1, RamfsInvariant, PTL

-----------------------------------------------------------------------------
(* The shell over it. *)

\* A recursive function over 0 .. n whose values stay in A is defined.
Recurs(f, n, b, F) == \A k \in 0 .. n : f[k] = IF k = 0 THEN b ELSE F[k][f[k - 1]]

LEMMA RecursionExists ==
    ASSUME NEW n \in Nat, NEW A, NEW b \in A, NEW F \in [1 .. n -> [A -> A]]
    PROVE  \E f \in [0 .. n -> A] : Recurs(f, n, b, F)
<1> DEFINE Is(f, m) == \A k \in 0 .. m : f[k] = IF k = 0 THEN b ELSE F[k][f[k - 1]]
           T == {m \in 0 .. n : \E f \in [0 .. m -> A] : Is(f, m)}
<1>1. 0 \in T
  <2> DEFINE f == [k \in 0 .. 0 |-> b]
  <2>1. f \in [0 .. 0 -> A]
    OBVIOUS
  <2>2. ASSUME NEW k \in 0 .. 0  PROVE f[k] = b /\ k = 0
    OBVIOUS
  <2>3. Is(f, 0)
    BY <2>2
  <2>4. 0 \in 0 .. n
    OBVIOUS
  <2> HIDE DEF f, Is
  <2> QED  BY <2>1, <2>3, <2>4
<1>2. ASSUME NEW m \in 0 .. n - 1, m \in T  PROVE m + 1 \in T
  <2>1. PICK f \in [0 .. m -> A] : Is(f, m)
    BY <1>2
  <2>2. m \in Nat /\ m + 1 \in 1 .. n /\ f[m] \in A
    OBVIOUS
  <2> DEFINE g == [k \in 0 .. m + 1 |-> IF k = m + 1 THEN F[m + 1][f[m]] ELSE f[k]]
  <2>3. F[m + 1][f[m]] \in A
    BY <2>2
  <2>4. g \in [0 .. m + 1 -> A]
    BY <2>2, <2>3
  <2>5. ASSUME NEW k \in 0 .. m + 1  PROVE g[k] = IF k = 0 THEN b ELSE F[k][g[k - 1]]
    <3>1. CASE k = m + 1
      <4>1. k # 0 /\ k - 1 = m /\ m \in 0 .. m + 1 /\ m # m + 1
        BY <3>1, <2>2
      <4> QED  BY <4>1, <3>1
    <3>2. CASE k # m + 1
      <4>1. k \in 0 .. m /\ (k # 0 => k - 1 \in 0 .. m + 1 /\ k - 1 # m + 1)
        BY <3>2, <2>2
      <4>2. f[k] = IF k = 0 THEN b ELSE F[k][f[k - 1]]
        BY <4>1, <2>1
      <4> QED  BY <4>1, <4>2, <3>2
    <3> QED  BY <3>1, <3>2
  <2>6. m + 1 \in 0 .. n
    BY <2>2
  <2> QED  BY <2>4, <2>5, <2>6
<1>3. \A m \in 0 .. n : m \in T
  <2> HIDE DEF T
  <2> QED  BY <1>1, <1>2, CountingUp
<1>4. n \in T
  <2> HIDE DEF T
  <2> QED  BY <1>3
<1> QED  BY <1>4 DEF Recurs

-----------------------------------------------------------------------------
(* Walking a path. *)

\* The tokens that paths are made of.
Token == {"", "/", ".", "..", "disk"} \union Names \union UNION {{arg[i] : i \in DOMAIN arg} : arg \in Args}

\* Where a walk may stand: on a node that nothing is mounted on.
Places(ns) == {n \in DOMAIN ns : ns[n].mount = NULL}

Walkable(ns) ==
    /\ root \in Places(ns) /\ cwd \in Places(ns) /\ NULL \notin DOMAIN ns
    /\ \A n \in Places(ns) : ns[n].parent \in Places(ns)
    /\ \A n \in Places(ns) : \A name : Enter(ns, ramfs_lookup(ns, n, name)) \in Places(ns) \union {NULL}

Start(ns, path) == Enter(ns, IF Head(path) = "/" THEN root ELSE cwd)

IsWalk(w, ns, path) ==
    w = [k \in 0 .. Len(path) |->
            IF k = 0 THEN Enter(ns, IF Head(path) = "/" THEN root ELSE cwd)
            ELSE IF path[k] = "/" THEN w[k - 1]
            ELSE Step(ns, w[k - 1], path[k])]

LEMMA StepStays ==
    ASSUME NEW ns, Walkable(ns), NEW cur \in Places(ns) \union {NULL}, NEW comp
    PROVE  /\ Step(ns, cur, comp) \in Places(ns) \union {NULL}
           /\ cur # NULL /\ comp \in {".", ".."} => Step(ns, cur, comp) # NULL
           /\ cur = NULL => Step(ns, cur, comp) = NULL
<1>0. "." # ".." /\ "." # "" /\ ".." # ""
  OBVIOUS
<1>1. CASE cur = NULL
  BY <1>1 DEF Step
<1>2. CASE cur # NULL
  <2>1. cur \in Places(ns) /\ ns[cur].parent \in Places(ns)
        /\ Enter(ns, ramfs_lookup(ns, cur, comp)) \in Places(ns) \union {NULL}
    BY <1>2 DEF Walkable
  <2>2. \A n \in Places(ns) : n # NULL
    BY DEF Walkable, Places
  <2>3. CASE comp \in {"", "."}
    <3>1. Step(ns, cur, comp) = cur
      BY <1>2, <2>3, <1>0 DEF Step
    <3> QED  BY <3>1, <1>2
  <2>4. CASE comp = ".."
    <3>1. Step(ns, cur, comp) = ns[cur].parent
      BY <1>2, <2>4, <1>0 DEF Step
    <3> QED  BY <3>1, <2>1, <2>2, <1>2
  <2>5. CASE comp \notin {"", ".", ".."}
    <3>1. Step(ns, cur, comp) = Enter(ns, ramfs_lookup(ns, cur, comp))
      BY <1>2, <2>5 DEF Step
    <3> QED  BY <3>1, <2>1, <2>5, <1>2
  <2> QED  BY <2>3, <2>4, <2>5
<1> QED  BY <1>1, <1>2

LEMMA WalkExists ==
    ASSUME NEW ns, Walkable(ns), NEW path \in Seq(Token)
    PROVE  \E w : /\ IsWalk(w, ns, path) /\ Walk(ns, path) = w[Len(path)]
                  /\ \A k \in 0 .. Len(path) : w[k] \in Places(ns) \union {NULL}
<1> DEFINE A == Places(ns) \union {NULL}
           n == Len(path)
           b == Start(ns, path)
           F == [k \in 1 .. n |-> [a \in A |-> IF path[k] = "/" THEN a ELSE Step(ns, a, path[k])]]
<1>1. n \in Nat
  OBVIOUS
<1>2. b \in A
  BY DEF Walkable, Places, Enter, Start
<1>3. F \in [1 .. n -> [A -> A]]
  <2>1. \A a \in A, k \in 1 .. n : Step(ns, a, path[k]) \in A
    BY StepStays
  <2> QED  BY <2>1
<1> HIDE DEF A, n, b
<1> HIDE DEF F
<1>4. PICK f \in [0 .. n -> A] : Recurs(f, n, b, F)
  BY <1>1, <1>2, <1>3, RecursionExists
<1> USE DEF F, Recurs
<1>5. ASSUME NEW k \in 0 .. n
      PROVE  f[k] = IF k = 0 THEN b ELSE IF path[k] = "/" THEN f[k - 1] ELSE Step(ns, f[k - 1], path[k])
  <2>1. CASE k = 0
    BY <2>1, <1>4
  <2>2. CASE k # 0
    <3>1. k \in 1 .. n /\ f[k - 1] \in A
      BY <2>2, <1>1
    <3> QED  BY <3>1, <2>2, <1>4
  <2> QED  BY <2>1, <2>2
<1>6. IsWalk(f, ns, path)
  BY <1>4, <1>5 DEF IsWalk, n, b, Start
<1> DEFINE w == CHOOSE g : IsWalk(g, ns, path)
<1>7. IsWalk(w, ns, path) /\ Walk(ns, path) = w[n]
  <2>1. IsWalk(w, ns, path)
    BY <1>6
  <2> QED  BY <2>1 DEF Walk, IsWalk, n
<1>8. \A k \in 0 .. n : w[k] \in A
  <2> HIDE DEF w
  <2>1. \A k \in 0 .. n : w[k] = IF k = 0 THEN b
                                 ELSE IF path[k] = "/" THEN w[k - 1] ELSE Step(ns, w[k - 1], path[k])
    BY <1>7 DEF IsWalk, n, b, Start
  <2> DEFINE T == {k \in 0 .. n : w[k] \in A}
  <2>2. 0 \in T
    BY <2>1, <1>1, <1>2
  <2>3. ASSUME NEW k \in 0 .. n - 1, k \in T  PROVE k + 1 \in T
    <3>1. k + 1 \in 0 .. n /\ k + 1 # 0 /\ k + 1 - 1 = k /\ w[k] \in A
      BY <2>3, <1>1
    <3>2. Step(ns, w[k], path[k + 1]) \in A
      BY <3>1, StepStays DEF A
    <3> QED  BY <3>1, <3>2, <2>1
  <2>4. \A k \in 0 .. n : k \in T
    <3> HIDE DEF T
    <3> QED  BY <1>1, <2>2, <2>3, CountingUp
  <2> QED  BY <2>4
<1> QED  BY <1>7, <1>8 DEF n, A

\* A walk depends on the tokens before it only.
LEMMA WalksAgree ==
    ASSUME NEW ns, NEW p \in Seq(Token), NEW q \in Seq(Token), NEW m \in Nat,
           m <= Len(p), m <= Len(q), \A k \in 1 .. m : p[k] = q[k], Start(ns, p) = Start(ns, q),
           NEW v, IsWalk(v, ns, p), NEW w, IsWalk(w, ns, q)
    PROVE  \A k \in 0 .. m : v[k] = w[k]
<1> DEFINE T == {k \in 0 .. m : v[k] = w[k]}
<1>1. \A k \in 0 .. Len(p) : v[k] = IF k = 0 THEN Start(ns, p)
                                    ELSE IF p[k] = "/" THEN v[k - 1] ELSE Step(ns, v[k - 1], p[k])
  BY DEF IsWalk, Start
<1>2. \A k \in 0 .. Len(q) : w[k] = IF k = 0 THEN Start(ns, q)
                                    ELSE IF q[k] = "/" THEN w[k - 1] ELSE Step(ns, w[k - 1], q[k])
  BY DEF IsWalk, Start
<1>3. Len(p) \in Nat /\ Len(q) \in Nat
  OBVIOUS
<1>4. 0 \in T
  BY <1>1, <1>2, <1>3
<1>5. ASSUME NEW k \in 0 .. m - 1, k \in T  PROVE k + 1 \in T
  <2>1. k + 1 \in 0 .. m /\ k + 1 \in 0 .. Len(p) /\ k + 1 \in 0 .. Len(q) /\ k + 1 # 0
        /\ k + 1 - 1 = k /\ k + 1 \in 1 .. m
    BY <1>3
  <2> QED  BY <2>1, <1>1, <1>2, <1>5
<1>6. \A k \in 0 .. m : k \in T
  <2> HIDE DEF T
  <2> QED  BY <1>4, <1>5, CountingUp
<1> QED  BY <1>6

LEMMA HasLast ==
    ASSUME NEW n \in Nat, NEW T, T \subseteq 1 .. n, T # {}
    PROVE  \E x \in T : \A y \in T : y <= x
<1> DEFINE U == {n - x : x \in T}
<1>1. U \subseteq Nat /\ U # {}
  <2>1. \A x \in T : n - x \in Nat
    OBVIOUS
  <2> QED  BY <2>1
<1>2. PICK u \in U : \A v \in U : u <= v
  <2> HIDE DEF U
  <2> QED  BY <1>1, NatHasMin
<1>3. PICK x \in T : u = n - x
  OBVIOUS
<1>4. ASSUME NEW y \in T  PROVE y <= x
  <2>1. n - y \in U
    OBVIOUS
  <2>2. u <= n - y
    <3> HIDE DEF U
    <3> QED  BY <1>2, <2>1
  <2> QED  BY <2>2, <1>3
<1> QED  BY <1>4

LEMMA ResolvedStays ==
    ASSUME NEW ns, Walkable(ns), NEW path \in Seq(Token)
    PROVE  Resolved(ns, path) \subseteq Places(ns) \union {NULL}
<1> SUFFICES ASSUME NEW stale  PROVE vfs_resolve(ns, path, stale) \in Places(ns) \union {NULL}
  BY DEF Resolved
<1>1. CASE path = <<>>
  BY <1>1 DEF vfs_resolve, Walkable
<1>2. CASE path # <<>>
  <2>1. Walk(ns, path) \in Places(ns) \union {NULL}
    <3>1. Len(path) \in 0 .. Len(path)
      OBVIOUS
    <3> QED  BY <3>1, WalkExists
  <2>2. Step(ns, Walk(ns, path), stale) \in Places(ns) \union {NULL}
    BY <2>1, StepStays
  <2>3. vfs_resolve(ns, path, stale) \in {Walk(ns, path), Step(ns, Walk(ns, path), stale)}
    BY <1>2 DEF vfs_resolve
  <2> QED  BY <2>1, <2>2, <2>3
<1> QED  BY <1>1, <1>2

LEMMA UpToIsPart ==
    ASSUME NEW path \in Seq(Token)
    PROVE  /\ UpTo(path) \in Seq(Token)
           /\ Len(UpTo(path)) > 1 => Front(UpTo(path)) \in Seq(Token)
<1> DEFINE slashes == {i \in DOMAIN path : path[i] = "/"}
           last == CHOOSE i \in slashes : \A j \in slashes : j <= i
<1>1. UpTo(path) = IF slashes = {} THEN <<>> ELSE SubSeq(path, 1, last)
  BY DEF UpTo
<1>2. UpTo(path) \in Seq(Token)
  <2>1. CASE slashes = {}
    BY <2>1, <1>1
  <2>2. CASE slashes # {}
    <3>1. slashes \subseteq 1 .. Len(path) /\ Len(path) \in Nat
      OBVIOUS
    <3>2. last \in slashes
      <4> HIDE DEF slashes
      <4> QED  BY <2>2, <3>1, HasLast
    <3>3. last \in 1 .. Len(path)
      BY <3>1, <3>2
    <3> HIDE DEF last
    <3>4. SubSeq(path, 1, last) \in Seq(Token)
      BY <3>3
    <3> QED  BY <3>4, <2>2, <1>1
  <2> QED  BY <2>1, <2>2
<1>3. ASSUME NEW s \in Seq(Token), Len(s) > 1  PROVE Front(s) \in Seq(Token)
  BY <1>3 DEF Front
<1> QED  BY <1>2, <1>3

LEMMA ParentStays ==
    ASSUME NEW ns, Walkable(ns), NEW path \in Seq(Token)
    PROVE  resolve_parent(ns, path) \subseteq Places(ns) \union {NULL}
<1> DEFINE upTo == UpTo(path)
<1>1. Len(upTo) \in Nat
  BY UpToIsPart
<1>2. CASE Len(upTo) = 0
  BY <1>2 DEF resolve_parent, Walkable
<1>3. CASE Len(upTo) = 1
  BY <1>3 DEF resolve_parent, Walkable
<1>4. CASE Len(upTo) > 1
  <2>1. resolve_parent(ns, path) = Resolved(ns, Front(upTo))
    <3>1. ~ (Len(upTo) = 0) /\ ~ (Len(upTo) = 1)
      <4> DEFINE n == Len(upTo)
      <4>1. n \in Nat /\ n > 1
        BY <1>1, <1>4
      <4> HIDE DEF n
      <4>2. n # 0 /\ n # 1
        BY <4>1
      <4> QED  BY <4>2 DEF n
    <3> QED  BY <3>1 DEF resolve_parent
  <2>2. Front(upTo) \in Seq(Token)
    BY <1>4, UpToIsPart
  <2> QED  BY <2>1, <2>2, ResolvedStays
<1>5. Len(upTo) = 0 \/ Len(upTo) = 1 \/ Len(upTo) > 1
  <2> DEFINE n == Len(upTo)
  <2>1. n \in Nat
    BY <1>1
  <2> HIDE DEF n
  <2>2. n = 0 \/ n = 1 \/ n > 1
    BY <2>1
  <2> QED  BY <2>2 DEF n
<1> QED  BY <1>2, <1>3, <1>4, <1>5

\* A path from the root whose last name stands behind a slash.
GoodPath(path) ==
    /\ path \in Seq(Token) /\ path # <<>> /\ path[1] = "/"
    /\ Last(path) # "/" => Len(path) >= 2 /\ path[Len(path) - 1] = "/"

LEMMA NameInIsAName ==
    ASSUME NEW path, GoodPath(path)
    PROVE  NameIn(path) \in Token \ {"/"}
<1>1. Last(path) \in Token
  <2>1. path \in Seq(Token) /\ path # <<>>
    BY DEF GoodPath
  <2>2. Len(path) \in 1 .. Len(path)
    BY <2>1
  <2>3. path[Len(path)] \in Token
    BY <2>1, <2>2
  <2> QED  BY <2>3 DEF Last
<1>2. "" # "/" /\ "" \in Token
  BY DEF Token
<1>3. CASE Last(path) = "/"
  BY <1>2, <1>3 DEF NameIn
<1>4. CASE Last(path) # "/"
  BY <1>1, <1>4 DEF NameIn
<1> QED  BY <1>3, <1>4

LEMMA UpToTheName ==
    ASSUME NEW path, GoodPath(path), Last(path) # "/"
    PROVE  UpTo(path) = SubSeq(path, 1, Len(path) - 1)
<1> DEFINE n == Len(path)
           slashes == {i \in DOMAIN path : path[i] = "/"}
<1>1. path \in Seq(Token) /\ n \in Nat /\ n >= 2 /\ path[n - 1] = "/" /\ path[n] # "/"
  BY DEF GoodPath, Last
<1>2. n - 1 \in slashes
  BY <1>1
<1>3. \A j \in slashes : j <= n - 1 /\ j \in Nat
  BY <1>1
<1> HIDE DEF n
<1>4. \A i \in slashes : (\A j \in slashes : j <= i) => i = n - 1
  BY <1>1, <1>2, <1>3
<1>5. (CHOOSE i \in slashes : \A j \in slashes : j <= i) = n - 1
  <2> HIDE DEF slashes
  <2> QED  BY <1>2, <1>3, <1>4
<1>6. slashes # {}
  BY <1>2
<1> QED  BY <1>5, <1>6 DEF UpTo, n

\* "." and ".." are always there, so nothing is ever made of that name.
LEMMA DotsAreThere ==
    ASSUME NEW ns, Walkable(ns), NEW path, GoodPath(path),
           NULL \in Resolved(ns, path), NEW dir \in resolve_parent(ns, path), dir # NULL
    PROVE  NameIn(path) \notin {".", ".."}
<1> SUFFICES ASSUME NameIn(path) \in {".", ".."}  PROVE FALSE
  OBVIOUS
<1> DEFINE n == Len(path)
           name == Last(path)
<1>1. path \in Seq(Token) /\ path # <<>> /\ n \in Nat /\ name \in {".", ".."} /\ name = path[n]
      /\ "." # "/" /\ ".." # "/" /\ name # "/"
  BY DEF GoodPath, NameIn, Last
<1>2. n >= 2 /\ path[n - 1] = "/" /\ path[1] = "/"
  BY <1>1 DEF GoodPath
<1>3. UpTo(path) = SubSeq(path, 1, n - 1)
  BY <1>1, UpToTheName
<1>4. Len(UpTo(path)) = n - 1
  BY <1>1, <1>2, <1>3
<1>5. PICK w : /\ IsWalk(w, ns, path) /\ Walk(ns, path) = w[n]
               /\ \A k \in 0 .. n : w[k] \in Places(ns) \union {NULL}
  BY <1>1, WalkExists
<1>6. w[n] = Step(ns, w[n - 1], name) /\ w[n - 1] = w[n - 2]
  <2>1. n \in 0 .. n /\ n # 0 /\ n - 1 \in 0 .. n /\ n - 1 # 0 /\ n - 1 - 1 = n - 2
    BY <1>1, <1>2
  <2>2. \A k \in 0 .. n : k # 0 => w[k] = IF path[k] = "/" THEN w[k - 1] ELSE Step(ns, w[k - 1], path[k])
    BY <1>5 DEF IsWalk
  <2> HIDE DEF n, name
  <2>3. path[n] = name /\ path[n] # "/"
    BY <1>1
  <2> QED  BY <2>1, <2>2, <2>3, <1>2
<1>7. w[n - 2] # NULL
  <2>1. CASE n = 2
    <3>1. w[0] = Enter(ns, root)
      <4>1. Head(path) = "/" /\ 0 \in 0 .. n
        BY <1>1, <1>2
      <4> QED  BY <4>1, <1>5 DEF IsWalk
    <3>2. Enter(ns, root) = root /\ root # NULL
      BY DEF Walkable, Places, Enter
    <3> QED  BY <3>1, <3>2, <2>1
  <2>2. CASE n > 2
    <3> DEFINE q == Front(UpTo(path))
    <3>1. q = SubSeq(path, 1, n - 2) /\ q \in Seq(Token) /\ Len(q) = n - 2 /\ q # <<>>
      <4>1. Len(UpTo(path)) - 1 = n - 2
        BY <1>1, <1>4
      <4>2. \A i \in 1 .. n - 2 : UpTo(path)[i] = path[i]
        BY <1>1, <1>3, <2>2
      <4>3. q = SubSeq(UpTo(path), 1, n - 2)
        BY <4>1 DEF Front
      <4>4. UpTo(path) \in Seq(Token)
        BY <1>1, <1>2, <1>3
      <4>5. q \in Seq(Token) /\ Len(q) = n - 2 /\ \A i \in 1 .. n - 2 : q[i] = path[i]
        BY <4>2, <4>3, <4>4, <1>1, <1>4, <2>2
      <4>6. SubSeq(path, 1, n - 2) \in Seq(Token) /\ Len(SubSeq(path, 1, n - 2)) = n - 2
            /\ \A i \in 1 .. n - 2 : SubSeq(path, 1, n - 2)[i] = path[i]
        BY <1>1, <2>2
      <4> HIDE DEF q, n
      <4>7. q = SubSeq(path, 1, n - 2)
        BY <4>5, <4>6
      <4> QED  BY <4>5, <4>7, <2>2, <1>1
    <3>2. dir \in Resolved(ns, q)
      BY <1>4, <2>2, <1>1 DEF resolve_parent
    <3>3. Walk(ns, q) # NULL
      <4>1. PICK stale : dir = vfs_resolve(ns, q, stale)
        BY <3>2 DEF Resolved
      <4>2. dir \in {Walk(ns, q), Step(ns, Walk(ns, q), stale)}
        BY <4>1, <3>1 DEF vfs_resolve
      <4>3. Walk(ns, q) = NULL => Step(ns, Walk(ns, q), stale) = NULL
        BY StepStays
      <4> QED  BY <4>2, <4>3
    <3>4. PICK v : IsWalk(v, ns, q) /\ Walk(ns, q) = v[Len(q)]
      BY <3>1, WalkExists
    <3>5. Start(ns, path) = Start(ns, q)
      <4>1. q[1] = path[1]
        BY <3>1, <1>1, <2>2
      <4>2. Head(q) = Head(path)
        BY <4>1, <3>1, <1>1
      <4> QED  BY <4>2 DEF Start
    <3>6. \A k \in 1 .. n - 2 : path[k] = q[k]
      BY <3>1, <1>1, <2>2
    <3>7. n - 2 \in Nat /\ n - 2 <= n /\ n - 2 <= Len(q) /\ n - 2 \in 0 .. n - 2
      BY <1>1, <2>2, <3>1
    <3> DEFINE m == n - 2
    <3> HIDE DEF q
    <3>8. m \in Nat /\ m <= Len(path) /\ m <= Len(q) /\ (\A k \in 1 .. m : path[k] = q[k])
          /\ IsWalk(w, ns, path) /\ IsWalk(v, ns, q) /\ path \in Seq(Token) /\ q \in Seq(Token)
          /\ m \in 0 .. m /\ Len(q) = m
      BY <1>1, <1>5, <3>1, <3>4, <3>6, <3>7
    <3>9. w[m] = v[m]
      <4> HIDE DEF m
      <4>1. \A k \in 0 .. m : w[k] = v[k]
        BY <3>5, <3>8, WalksAgree
      <4> QED  BY <4>1, <3>8
    <3>10. v[Len(q)] # NULL
      BY <3>3, <3>4
    <3> QED  BY <3>8, <3>9, <3>10
  <2>3. n = 2 \/ n > 2
    <3>1. n \in Nat /\ n >= 2
      BY <1>1, <1>2
    <3> HIDE DEF n
    <3> QED  BY <3>1
  <2> QED  BY <2>1, <2>2, <2>3
<1>8. Walk(ns, path) # NULL /\ Walk(ns, path) \in Places(ns) \union {NULL}
  <2>1. n - 1 \in 0 .. n /\ n \in 0 .. n
    BY <1>1, <1>2
  <2>2. w[n - 1] \in Places(ns) \union {NULL} /\ w[n - 1] # NULL
    BY <2>1, <1>5, <1>6, <1>7
  <2>3. Step(ns, w[n - 1], name) # NULL
    BY <2>2, <1>1, StepStays
  <2> QED  BY <2>1, <2>3, <1>5, <1>6
<1>9. PICK stale \in Stale(path) : NULL = vfs_resolve(ns, path, stale)
  BY DEF Resolved
<1>10. stale = name
  <2> DEFINE comps == {i \in DOMAIN path : path[i] # "/"}
  <2>1. n \in comps /\ \A j \in comps : j <= n /\ j \in Nat
    BY <1>1, <1>2
  <2>2. \A i \in comps : (\A j \in comps : j <= i) => i = n
    BY <2>1, <1>1
  <2>3. (CHOOSE i \in comps : \A j \in comps : j <= i) = n
    <3> HIDE DEF comps, n
    <3> QED  BY <2>1, <2>2
  <2>4. Stale(path) = {path[n]}
    BY <2>1, <2>3 DEF Stale
  <2> QED  BY <2>4, <1>1, <1>9
<1>11. vfs_resolve(ns, path, stale) = Step(ns, Walk(ns, path), name)
  BY <1>1, <1>10 DEF vfs_resolve
<1>12. Step(ns, Walk(ns, path), name) # NULL
  BY <1>1, <1>8, StepStays
<1> QED  BY <1>9, <1>11, <1>12

-----------------------------------------------------------------------------
(* The invariant. *)

\* The nodes of the RAM file system, without the volume's root.
Own(ns) == [n \in DOMAIN ns \ {fat_root} |-> ns[n]]

\* Every node has a path: the one of its parent and its name.
IsPaths(ns, p) ==
    /\ DOMAIN p = DOMAIN ns
    /\ \A n \in DOMAIN ns :
        /\ p[n] \in Seq(Token)
        /\ p[n] = IF n = root THEN <<>> ELSE Append(p[ns[n].parent], ns[n].name)

\* A name is never one that a path uses to say where to go.
NamesAreNames(ns) ==
    /\ ns[root].name = "/"
    /\ \A n \in DOMAIN ns \ {root} : ns[n].name \in Token \ {"/", ".", ".."}

OwnIsSound(ns) ==
    /\ IsFs(ns)
    /\ AllSound(ns)
    /\ NamesAreNames(ns)
    /\ ns[root].parent = root
    /\ \E p : IsPaths(ns, p)

\* The volume's root is an empty directory above which the root is.
VolumeIsEmpty ==
    /\ Live \subseteq Node \union {fat_root}
    /\ fat_root \in Live =>
        /\ nodes[fat_root].name = "/"
        /\ nodes[fat_root].type = DIR
        /\ nodes[fat_root].children = <<>>
        /\ nodes[fat_root].mount = NULL
        /\ nodes[fat_root].parent \in {root, fat_root}

\* Nothing is below a mount point, and nobody gets there.
MountsAreLeaves ==
    /\ \A n \in Live \ {fat_root} :
        \/ nodes[n].mount = NULL
        \/ nodes[n].mount = fat_root /\ nodes[n].children = <<>> /\ n # root
    /\ nodes[root].mount = NULL
    /\ cwd \in Live => nodes[cwd].mount = NULL

Booting ==
    /\ pc \in {"boot", "mount"} =>
        /\ cwd = root /\ fat_root \notin Live
        /\ \A n \in Live : nodes[n].mount = NULL /\ (n # root => nodes[n].children = <<>>)
    /\ pc = "boot" => Live = {root}

\* What cat, write and append know of the file they have open.
Session ==
    /\ pc \in {"boot", "mount", "prompt", "opened", "newline", "close"}
    /\ pc # "prompt" => ~ Dangling
    /\ pc \in {"boot", "mount", "prompt"} => fd_table = [f \in {} |-> NULL] /\ shown = <<>>
    /\ pc = "opened" /\ fd = -1 => fd_table = [f \in {} |-> NULL]
    /\ pc \in {"newline", "close"} => fd # -1
    /\ pc \in {"opened", "newline", "close"} =>
        cmd \in {"cat", "write", "append"} /\ text \in Seq(Bytes)
    /\ pc = "newline" => cmd # "cat"

OpenFile ==
    pc \in {"opened", "newline", "close"} /\ fd # -1 =>
        /\ DOMAIN fd_table = {fd}
        /\ DOMAIN fd_table[fd] = {"node", "offset"}
        /\ fd_table[fd].node \in Live \ {fat_root}
        /\ nodes[fd_table[fd].node].type = FILE
        /\ fd_table[fd].offset \in Nat

\* A writer stands behind what it wrote, a reader behind what it has shown.
Progress ==
    pc \in {"opened", "newline", "close"} /\ fd # -1 =>
        LET n == fd_table[fd].node
            offset == fd_table[fd].offset
        IN  /\ cmd # "cat" => offset = Len(wrote[n])
            /\ cmd = "cat" =>
                /\ offset <= nodes[n].isize
                /\ shown \in Seq(Bytes \union {ZERO}) /\ Len(shown) = offset
                /\ \A i \in 1 .. offset : shown[i] = nodes[n].data[i]
                /\ pc = "close" => offset = nodes[n].isize

\* What was written to a node is at its start, and its size says how much.
Holds(r, w) ==
    r.type = FILE =>
        /\ Len(w) <= r.isize
        /\ \A i \in 1 .. Len(w) : w[i] = r.data[i]
        /\ r.size = Len(w)

Kept ==
    /\ wrote \in [Node -> Seq(Bytes)]
    /\ \A n \in Live \ {fat_root} : Holds(nodes[n], wrote[n])

TreeInv ==
    /\ OwnIsSound(Own(nodes))
    /\ VolumeIsEmpty
    /\ MountsAreLeaves

ShellInv ==
    /\ TreeInv
    /\ Booting
    /\ Session
    /\ OpenFile
    /\ Progress
    /\ Kept

-----------------------------------------------------------------------------
(* What the operations of ramfs do to a sound tree. *)

LEMMA LinkedPaths ==
    ASSUME NEW ns, IsFs(ns), NEW p, IsPaths(ns, p), NEW dir \in DOMAIN ns, NEW name \in Token, NEW type,
           NEW n \in Node \ DOMAIN ns, NEW u, IsLinked(ns, u, dir, name, type, n)
    PROVE  IsPaths(u, [m \in DOMAIN u |-> IF m = n THEN Append(p[dir], name) ELSE p[m]])
<1> DEFINE q == [m \in DOMAIN u |-> IF m = n THEN Append(p[dir], name) ELSE p[m]]
<1>1. /\ DOMAIN u = DOMAIN ns \cup {n} /\ u[n].name = name /\ u[n].parent = dir
      /\ \A m \in DOMAIN ns : u[m].name = ns[m].name /\ u[m].parent = ns[m].parent
  BY DEF IsLinked
<1>2. root \in DOMAIN ns /\ n # root /\ (\A m \in DOMAIN ns \ {root} : ns[m].parent \in DOMAIN ns)
  BY DEF IsFs, IsTree
<1>3. \A m \in DOMAIN ns : p[m] \in Seq(Token) /\ q[m] = p[m]
  BY <1>1 DEF IsPaths
<1>4. q[n] = Append(p[dir], name) /\ q[n] \in Seq(Token) /\ q[dir] = p[dir]
  BY <1>1, <1>3
<1>5. ASSUME NEW m \in DOMAIN u
      PROVE  q[m] = IF m = root THEN <<>> ELSE Append(q[u[m].parent], u[m].name)
  <2>1. CASE m = n
    BY <2>1, <1>1, <1>2, <1>4
  <2>2. CASE m # n
    <3>1. m \in DOMAIN ns /\ p[m] = IF m = root THEN <<>> ELSE Append(p[ns[m].parent], ns[m].name)
      BY <2>2, <1>1 DEF IsPaths
    <3>2. m # root => q[u[m].parent] = p[ns[m].parent]
      BY <3>1, <1>1, <1>2, <1>3
    <3> HIDE DEF q
    <3> QED  BY <3>1, <3>2, <1>1, <1>3
  <2> QED  BY <2>1, <2>2
<1>6. DOMAIN q = DOMAIN u
  OBVIOUS
<1>7. \A m \in DOMAIN u : q[m] \in Seq(Token)
  BY <1>1, <1>3, <1>4
<1> HIDE DEF q
<1>8. IsPaths(u, q)
  BY <1>5, <1>6, <1>7 DEF IsPaths
<1> QED  BY <1>8 DEF q

LEMMA UnlinkedPaths ==
    ASSUME NEW ns, NEW p, IsPaths(ns, p), NEW n \in DOMAIN ns, NEW dir,
           NEW u, IsUnlinked(ns, u, dir, n), IsFs(u)
    PROVE  IsPaths(u, [m \in DOMAIN u |-> p[m]])
<1> DEFINE q == [m \in DOMAIN u |-> p[m]]
<1>1. /\ DOMAIN u = DOMAIN ns \ {n}
      /\ \A m \in DOMAIN u : u[m].name = ns[m].name /\ u[m].parent = ns[m].parent
  BY DEF IsUnlinked
<1>2. \A m \in DOMAIN u \ {root} : u[m].parent \in DOMAIN u
  BY DEF IsFs, IsTree
<1>3. \A m \in DOMAIN u : q[m] = p[m] /\ q[m] \in Seq(Token)
  BY <1>1 DEF IsPaths
<1>4. ASSUME NEW m \in DOMAIN u
      PROVE  q[m] = IF m = root THEN <<>> ELSE Append(q[u[m].parent], u[m].name)
  <2>1. p[m] = IF m = root THEN <<>> ELSE Append(p[ns[m].parent], ns[m].name)
    BY <1>1 DEF IsPaths
  <2>2. m # root => q[u[m].parent] = p[ns[m].parent]
    BY <1>1, <1>2, <1>3
  <2> HIDE DEF q
  <2> QED  BY <2>1, <2>2, <1>1, <1>3
<1>5. DOMAIN q = DOMAIN u
  OBVIOUS
<1> HIDE DEF q
<1>6. IsPaths(u, q)
  BY <1>3, <1>4, <1>5 DEF IsPaths
<1> QED  BY <1>6 DEF q

LEMMA ShapePaths ==
    ASSUME NEW ns, NEW p, IsPaths(ns, p), NEW u, SameShape(ns, u)
    PROVE  IsPaths(u, p)
BY DEF IsPaths, SameShape

\* Creating keeps the tree sound: the new node has the path of its directory
\* and its name.
LEMMA CreatedStaysSound ==
    ASSUME NEW ns, OwnIsSound(ns), NEW dir \in DOMAIN ns, NEW name \in Token \ {"/", ".", ".."},
           NEW type \in {FILE, DIR}, NEW n \in Node \ DOMAIN ns, CanCreate(ns, dir, name)
    PROVE  OwnIsSound(Created(ns, dir, name, type, n))
<1> DEFINE u == Created(ns, dir, name, type, n)
<1>1. IsLinked(ns, u, dir, name, type, n) /\ IsFs(u) /\ AllSound(u)
  <2>1. IsFs(ns) /\ AllSound(ns)
    BY DEF OwnIsSound
  <2>2. IsLinked(ns, u, dir, name, type, n)
    BY <2>1, CreatedIsLinked
  <2>3. AllSound(u)
    BY <2>1, CreatedIsSound
  <2> HIDE DEF u
  <2> QED  BY <2>1, <2>2, <2>3, LinkedIsFs
<1> HIDE DEF u
<1>2. /\ DOMAIN u = DOMAIN ns \cup {n} /\ u[n].name = name /\ u[n].parent = dir
      /\ \A m \in DOMAIN ns : u[m].name = ns[m].name /\ u[m].parent = ns[m].parent
  BY <1>1 DEF IsLinked
<1>3. root \in DOMAIN ns /\ n # root /\ (\A m \in DOMAIN ns \ {root} : ns[m].parent \in DOMAIN ns)
  BY DEF OwnIsSound, IsFs, IsTree
<1>4. NamesAreNames(u)
  BY <1>2, <1>3 DEF OwnIsSound, NamesAreNames
<1>5. u[root].parent = root
  BY <1>2, <1>3 DEF OwnIsSound
<1>6. PICK p : IsPaths(ns, p)
  BY DEF OwnIsSound
<1>7. \E q : IsPaths(u, q)
  BY <1>1, <1>6, LinkedPaths DEF OwnIsSound
<1> QED  BY <1>1, <1>4, <1>5, <1>7 DEF OwnIsSound, u

LEMMA UnlinkedStaysSound ==
    ASSUME NEW ns, OwnIsSound(ns), NEW n \in DOMAIN ns \ {root}, CanUnlink(ns, n),
           NEW dir, dir = ns[n].parent
    PROVE  dir \in DOMAIN ns \ {n} /\ OwnIsSound(Unlinked(ns, dir, n))
<1> DEFINE u == Unlinked(ns, dir, n)
<1>0. IsFs(ns) /\ AllSound(ns)
  BY DEF OwnIsSound
<1>1. dir \in DOMAIN ns \ {n} /\ IsFs(u)
  BY <1>0, UnlinkedIsFs
<1>2. IsUnlinked(ns, u, dir, n) /\ AllSound(u)
  BY <1>0, <1>1, UnlinkedIsUnlinked, UnlinkedIsSound
<1> HIDE DEF u
<1>3. /\ DOMAIN u = DOMAIN ns \ {n}
      /\ \A m \in DOMAIN u : u[m].name = ns[m].name /\ u[m].parent = ns[m].parent
  BY <1>2 DEF IsUnlinked
<1>4. root \in DOMAIN u /\ (\A m \in DOMAIN u \ {root} : u[m].parent \in DOMAIN u)
  BY <1>1, <1>3 DEF IsFs, IsTree
<1>5. NamesAreNames(u) /\ u[root].parent = root
  BY <1>3, <1>4 DEF OwnIsSound, NamesAreNames
<1>6. PICK p : IsPaths(ns, p)
  BY DEF OwnIsSound
<1>7. \E q : IsPaths(u, q)
  BY <1>1, <1>2, <1>6, UnlinkedPaths
<1> QED  BY <1>1, <1>2, <1>5, <1>7 DEF OwnIsSound, u

LEMMA ShapeStaysSound ==
    ASSUME NEW ns, OwnIsSound(ns), NEW u, SameShape(ns, u), AllSound(u)
    PROVE  OwnIsSound(u)
<1>1. IsFs(u)
  BY ShapeIsAll DEF OwnIsSound
<1>2. DOMAIN u = DOMAIN ns /\ \A m \in DOMAIN ns : u[m].name = ns[m].name /\ u[m].parent = ns[m].parent
  BY DEF SameShape
<1>3. NamesAreNames(u) /\ u[root].parent = root
  BY <1>1, <1>2 DEF OwnIsSound, NamesAreNames, IsFs
<1>4. PICK p : IsPaths(ns, p)
  BY DEF OwnIsSound
<1>5. IsPaths(u, p)
  BY <1>4, ShapePaths
<1> QED  BY <1>1, <1>3, <1>5 DEF OwnIsSound

-----------------------------------------------------------------------------
(* The table without the volume's root. *)

LEMMA OwnIs ==
    ASSUME NEW ns
    PROVE  DOMAIN Own(ns) = DOMAIN ns \ {fat_root} /\ \A n \in DOMAIN ns \ {fat_root} : Own(ns)[n] = ns[n]
BY DEF Own

LEMMA FatRootIsNoNode == fat_root \notin Node /\ fat_root # NULL /\ fat_root # root /\ root \in Node
                         /\ NULL \notin Node /\ root # NULL
BY VfsAssumption, RamfsAssumption

LEMMA OwnLookup ==
    ASSUME NEW ns, IsFs(Own(ns)), NEW dir \in DOMAIN ns \ {fat_root}, NEW name
    PROVE  ramfs_lookup(Own(ns), dir, name) = ramfs_lookup(ns, dir, name)
<1> DEFINE o == Own(ns)
           ch == ns[dir].children
           hits == {i \in DOMAIN ch : ns[ch[i]].name = name}
           hits2 == {i \in DOMAIN ch : o[ch[i]].name = name}
<1>1. o[dir] = ns[dir] /\ dir \in DOMAIN o
  BY OwnIs
<1>2. \A i \in DOMAIN ch : ch[i] \in DOMAIN o
  BY <1>1 DEF IsFs, IsTree
<1>3. \A i \in DOMAIN ch : o[ch[i]] = ns[ch[i]]
  BY <1>2, OwnIs
<1> HIDE DEF o, ch
<1>4. hits = hits2
  BY <1>3
<1>5. ramfs_lookup(ns, dir, name) = IF ns[dir].type # DIR \/ hits = {} THEN NULL
                                    ELSE ch[CHOOSE i \in hits : \A j \in hits : i <= j]
  BY DEF ramfs_lookup, ch
<1>6. ramfs_lookup(o, dir, name) = IF ns[dir].type # DIR \/ hits2 = {} THEN NULL
                                   ELSE ch[CHOOSE i \in hits2 : \A j \in hits2 : i <= j]
  BY <1>1 DEF ramfs_lookup, ch
<1> HIDE DEF hits, hits2
<1> QED  BY <1>4, <1>5, <1>6 DEF o

LEMMA OwnCreated ==
    ASSUME NEW ns, NEW dir \in DOMAIN ns \ {fat_root}, NEW name, NEW type, NEW n \in Node
    PROVE  Own(Created(ns, dir, name, type, n)) = Created(Own(ns), dir, name, type, n)
<1>1. n # fat_root
  BY FatRootIsNoNode
<1>2. DOMAIN Created(ns, dir, name, type, n) \ {fat_root} = DOMAIN Own(ns) \union {n}
  BY <1>1 DEF Created, Own
<1>3. ASSUME NEW m \in DOMAIN Own(ns) \union {n}
      PROVE  Created(ns, dir, name, type, n)[m]
               = IF m = n THEN NewNode(name, type, dir)
                 ELSE IF m = dir THEN [Own(ns)[m] EXCEPT !.children = Append(@, n)]
                 ELSE Own(ns)[m]
  BY OwnIs DEF Created
<1>4. Own(Created(ns, dir, name, type, n))
        = [m \in DOMAIN Own(ns) \union {n} |-> Created(ns, dir, name, type, n)[m]]
  BY <1>2 DEF Own
<1> QED  BY <1>3, <1>4 DEF Created

LEMMA OwnUnlinked ==
    ASSUME NEW ns, NEW dir, NEW n
    PROVE  Own(Unlinked(ns, dir, n)) = Unlinked(Own(ns), dir, n)
<1>1. DOMAIN Unlinked(ns, dir, n) \ {fat_root} = DOMAIN Own(ns) \ {n}
  BY DEF Unlinked, Own
<1>2. ASSUME NEW m \in DOMAIN Own(ns) \ {n}
      PROVE  Unlinked(ns, dir, n)[m]
               = IF m = dir THEN [Own(ns)[m] EXCEPT !.children = WithoutChild(@, n)] ELSE Own(ns)[m]
  BY OwnIs DEF Unlinked
<1>3. Own(Unlinked(ns, dir, n)) = [m \in DOMAIN Own(ns) \ {n} |-> Unlinked(ns, dir, n)[m]]
  BY <1>1 DEF Own
<1> QED  BY <1>2, <1>3 DEF Unlinked

LEMMA OwnWritten ==
    ASSUME NEW ns, NEW n \in DOMAIN ns \ {fat_root}, NEW off, NEW bytes
    PROVE  Own(Written(ns, n, off, bytes)) = Written(Own(ns), n, off, bytes)
<1>1. Own(ns)[n] = ns[n]
  BY OwnIs
<1>2. PICK r : /\ Written(ns, n, off, bytes) = [ns EXCEPT ![n] = r]
               /\ Written(Own(ns), n, off, bytes) = [Own(ns) EXCEPT ![n] = r]
  BY <1>1 DEF Written
<1>3. [Own(ns) EXCEPT ![n] = r] = Own([ns EXCEPT ![n] = r])
  BY DEF Own
<1> QED  BY <1>2, <1>3

-----------------------------------------------------------------------------
(* Every path that the shell asks for is walked from live nodes to live    *)
(* nodes.                                                                  *)

LEMMA LookupIsAChild ==
    ASSUME NEW ns, NEW dir \in DOMAIN ns, ns[dir].children \in Seq(Node), NEW name,
           ramfs_lookup(ns, dir, name) # NULL
    PROVE  \E i \in DOMAIN ns[dir].children :
                /\ ramfs_lookup(ns, dir, name) = ns[dir].children[i]
                /\ ns[ns[dir].children[i]].name = name
<1> DEFINE ch == ns[dir].children
           hits == {i \in DOMAIN ch : ns[ch[i]].name = name}
           k == CHOOSE i \in hits : \A j \in hits : i <= j
<1>1. ramfs_lookup(ns, dir, name) = IF ns[dir].type # DIR \/ hits = {} THEN NULL ELSE ch[k]
  BY DEF ramfs_lookup
<1>2. hits # {} /\ ramfs_lookup(ns, dir, name) = ch[k]
  BY <1>1
<1>3. hits \subseteq Nat
  OBVIOUS
<1>4. k \in hits
  <2> HIDE DEF hits
  <2> QED  BY <1>2, <1>3, NatHasMin
<1>5. k \in DOMAIN ch /\ ns[ch[k]].name = name
  <2> HIDE DEF k
  <2> QED  BY <1>4
<1> HIDE DEF k
<1> QED  BY <1>2, <1>5

LEMMA IsWalkable ==
    ASSUME OwnIsSound(Own(nodes)), VolumeIsEmpty, MountsAreLeaves, ~ Dangling
    PROVE  Walkable(nodes)
<1>1. /\ DOMAIN Own(nodes) = DOMAIN nodes \ {fat_root}
      /\ \A n \in DOMAIN nodes \ {fat_root} : Own(nodes)[n] = nodes[n]
  BY OwnIs
<1>2. IsFs(Own(nodes)) /\ Own(nodes)[root].parent = root
  BY DEF OwnIsSound
<1>3. root \in DOMAIN nodes /\ root # fat_root /\ nodes[root].parent = root
  BY <1>1, <1>2 DEF IsFs
<1>4. \A n \in DOMAIN nodes : nodes[n].mount \in DOMAIN nodes \union {NULL}
  BY DEF Dangling, Live
<1>5. NULL \notin DOMAIN nodes
  BY FatRootIsNoNode DEF VolumeIsEmpty, Live
<1>6. root \in Places(nodes) /\ cwd \in Places(nodes)
  BY <1>3 DEF Places, MountsAreLeaves, Dangling, Live
<1>7. fat_root \in DOMAIN nodes => fat_root \in Places(nodes)
  BY DEF VolumeIsEmpty, Places, Live
<1>8. \A n \in DOMAIN nodes \ {fat_root} :
        nodes[n].mount # NULL => nodes[n].mount = fat_root /\ nodes[n].children = <<>>
  BY DEF MountsAreLeaves, Live
<1>9. ASSUME NEW n \in Places(nodes)  PROVE nodes[n].parent \in Places(nodes)
  <2>1. CASE n = fat_root
    BY <2>1, <1>6, <1>7 DEF VolumeIsEmpty, Places, Live
  <2>2. CASE n = root
    BY <2>2, <1>3, <1>6
  <2>3. CASE n \notin {root, fat_root}
    <3> DEFINE d == nodes[n].parent
    <3>1. n \in DOMAIN Own(nodes) \ {root} /\ Own(nodes)[n].parent = d
      BY <2>3, <1>1 DEF Places
    <3>2. d \in DOMAIN Own(nodes) /\ \E i \in DOMAIN Own(nodes)[d].children : Own(nodes)[d].children[i] = n
      BY <3>1, <1>2 DEF IsFs, IsTree
    <3>3. d \in DOMAIN nodes \ {fat_root} /\ Own(nodes)[d] = nodes[d]
      BY <3>2, <1>1
    <3>4. nodes[d].children # <<>>
      BY <3>2, <3>3
    <3> QED  BY <3>3, <3>4, <1>8 DEF Places
  <2> QED  BY <2>1, <2>2, <2>3
<1>10. ASSUME NEW n \in Places(nodes), NEW name
       PROVE  Enter(nodes, ramfs_lookup(nodes, n, name)) \in Places(nodes) \union {NULL}
  <2> DEFINE c == ramfs_lookup(nodes, n, name)
  <2>1. CASE c = NULL
    BY <2>1 DEF Enter
  <2>2. CASE c # NULL
    <3>1. n \in DOMAIN nodes
      BY DEF Places
    <3>2. nodes[n].children \in Seq(Node)
      <4>1. CASE n = fat_root
        <5>1. nodes[n].children = <<>>
          BY <3>1, <4>1 DEF VolumeIsEmpty, Live
        <5> QED  BY <5>1
      <4>2. CASE n # fat_root
        BY <3>1, <4>2, <1>1, <1>2 DEF IsFs, IsNode
      <4> QED  BY <4>1, <4>2
    <3>3. PICK i \in DOMAIN nodes[n].children : c = nodes[n].children[i]
      BY <2>2, <3>1, <3>2, LookupIsAChild
    <3>4. n # fat_root
      BY <3>1, <3>3 DEF VolumeIsEmpty, Live
    <3>5. c \in DOMAIN Own(nodes) /\ c # NULL
      BY <2>2, <3>1, <3>3, <3>4, <1>1, <1>2 DEF IsFs, IsTree
    <3> HIDE DEF c
    <3>6. c \in DOMAIN nodes \ {fat_root}
      BY <3>5, <1>1
    <3>7. ASSUME nodes[c].mount = NULL  PROVE Enter(nodes, c) \in Places(nodes) \union {NULL}
      BY <3>5, <3>6, <3>7 DEF Enter, Places
    <3>8. ASSUME nodes[c].mount # NULL  PROVE Enter(nodes, c) \in Places(nodes) \union {NULL}
      <4>1. nodes[c].mount = fat_root /\ fat_root \in DOMAIN nodes
        BY <3>6, <3>8, <1>4, <1>8
      <4>2. Enter(nodes, c) = fat_root
        BY <4>1, <3>5, <3>8 DEF Enter
      <4> QED  BY <4>1, <4>2, <1>7
    <3> QED  BY <3>7, <3>8 DEF c
  <2> QED  BY <2>1, <2>2
<1> QED  BY <1>5, <1>6, <1>9, <1>10 DEF Walkable

LEMMA NamesAreTokens ==
    ASSUME OwnIsSound(Own(nodes)), VolumeIsEmpty
    PROVE  \A n \in DOMAIN nodes : nodes[n].name \in Token
<1>1. "/" \in Token
  BY DEF Token
<1>2. \A n \in DOMAIN nodes \ {fat_root} : nodes[n].name \in Token
  BY <1>1, OwnIs DEF OwnIsSound, NamesAreNames
<1> QED  BY <1>1, <1>2 DEF VolumeIsEmpty, Live

\* vfs_getcwd: the directories above the current one, how many of them have
\* a name to write down, and the text written so far.
Ups(up) == up = [k \in 0 .. MAX_DEPTH |-> IF k = 0 THEN cwd ELSE nodes[up[k - 1]].parent]
Depth(up) == Cardinality({k \in 0 .. MAX_DEPTH - 1 : up[k] # root})
Part(up, k) == nodes[up[Depth(up) - k]].name
Bufs(up, buf) ==
    buf = [k \in 0 .. Depth(up) |->
              IF k = 0 THEN <<>>
              ELSE buf[k - 1] \o IF Part(up, k) = "" THEN <<"/">> ELSE <<"/", Part(up, k)>>]

FromRoot == {s \in Seq(Token) : s # <<>> => s[1] = "/"}

LEMMA GetcwdIs ==
    ASSUME Walkable(nodes), \A n \in DOMAIN nodes : nodes[n].name \in Token
    PROVE  \E up, buf :
              /\ Ups(up) /\ Bufs(up, buf)
              /\ \A k \in 0 .. MAX_DEPTH : up[k] \in Places(nodes)
              /\ Depth(up) \in 0 .. MAX_DEPTH
              /\ \A k \in 0 .. Depth(up) : buf[k] \in FromRoot /\ (k # 0 => buf[k] # <<>>)
              /\ vfs_getcwd = IF Depth(up) = 0 THEN <<"/">> ELSE buf[Depth(up)]
<1>0. MAX_DEPTH \in Nat
  BY VfsAssumption
<1> DEFINE up == CHOOSE g : g = [k \in 0 .. MAX_DEPTH |-> IF k = 0 THEN cwd ELSE nodes[g[k - 1]].parent]
           depth == Cardinality({k \in 0 .. MAX_DEPTH - 1 : up[k] # root})
           part(k) == nodes[up[depth - k]].name
           buf == CHOOSE g : g = [k \in 0 .. depth |->
                     IF k = 0 THEN <<>>
                     ELSE g[k - 1] \o IF part(k) = "" THEN <<"/">> ELSE <<"/", part(k)>>]
<1>1. vfs_getcwd = IF depth = 0 THEN <<"/">> ELSE buf[depth]
  BY DEF vfs_getcwd
<1>2. Ups(up)
  <2> DEFINE A == Places(nodes)
             F == [k \in 1 .. MAX_DEPTH |-> [a \in A |-> nodes[a].parent]]
  <2>1. F \in [1 .. MAX_DEPTH -> [A -> A]] /\ cwd \in A
    BY DEF Walkable
  <2>2. PICK f \in [0 .. MAX_DEPTH -> A] : Recurs(f, MAX_DEPTH, cwd, F)
    <3> HIDE DEF A, F
    <3> QED  BY <1>0, <2>1, RecursionExists
  <2>3. ASSUME NEW k \in 0 .. MAX_DEPTH  PROVE f[k] = IF k = 0 THEN cwd ELSE nodes[f[k - 1]].parent
    <3>1. k # 0 => k \in 1 .. MAX_DEPTH /\ f[k - 1] \in A
      BY <1>0
    <3> HIDE DEF A
    <3> QED  BY <3>1, <2>2 DEF Recurs
  <2>4. f = [k \in 0 .. MAX_DEPTH |-> IF k = 0 THEN cwd ELSE nodes[f[k - 1]].parent]
    BY <2>3
  <2> QED  BY <2>4 DEF Ups
<1> HIDE DEF up
<1>3. \A k \in 0 .. MAX_DEPTH : up[k] \in Places(nodes)
  <2> DEFINE T == {k \in 0 .. MAX_DEPTH : up[k] \in Places(nodes)}
  <2>1. 0 \in T
    BY <1>0, <1>2 DEF Ups, Walkable
  <2>2. ASSUME NEW k \in 0 .. MAX_DEPTH - 1, k \in T  PROVE k + 1 \in T
    <3>1. k + 1 \in 0 .. MAX_DEPTH /\ k + 1 # 0 /\ k + 1 - 1 = k
      BY <1>0
    <3>2. up[k + 1] = nodes[up[k]].parent
      <4>1. \A i \in 0 .. MAX_DEPTH : i # 0 => up[i] = nodes[up[i - 1]].parent
        BY <1>2 DEF Ups
      <4> QED  BY <3>1, <4>1
    <3> QED  BY <3>1, <3>2, <2>2 DEF Walkable
  <2>3. \A k \in 0 .. MAX_DEPTH : k \in T
    <3> HIDE DEF T
    <3> QED  BY <1>0, <2>1, <2>2, CountingUp
  <2> QED  BY <2>3
<1>4. depth \in 0 .. MAX_DEPTH
  <2> DEFINE S == {k \in 0 .. MAX_DEPTH - 1 : up[k] # root}
  <2>1. S \subseteq 0 .. MAX_DEPTH - 1
    OBVIOUS
  <2>2. IsFiniteSet(0 .. MAX_DEPTH - 1) /\ Cardinality(0 .. MAX_DEPTH - 1) = MAX_DEPTH
    BY <1>0, FS_Interval
  <2> HIDE DEF S
  <2>3. Cardinality(S) \in Nat /\ Cardinality(S) <= MAX_DEPTH
    BY <2>1, <2>2, FS_Subset, FS_CardinalityType
  <2> QED  BY <2>3, <1>0 DEF S
<1> DEFINE d == depth
<1>5. d = Depth(up) /\ d \in Nat /\ \A k \in 1 .. d : part(k) = Part(up, k)
  BY <1>4 DEF Depth, Part
<1>6. \A k \in 1 .. d : Part(up, k) \in Token
  <2>1. \A k \in 1 .. d : d - k \in 0 .. MAX_DEPTH
    BY <1>0, <1>4, <1>5
  <2> HIDE DEF d
  <2> QED  BY <2>1, <1>3, <1>5 DEF Part, Places
<1> DEFINE piece(k) == IF Part(up, k) = "" THEN <<"/">> ELSE <<"/", Part(up, k)>>
<1>7. ASSUME NEW k \in 1 .. d, NEW s \in FromRoot
      PROVE  s \o piece(k) \in FromRoot /\ s \o piece(k) # <<>>
  <2>1. piece(k) \in Seq(Token) /\ piece(k)[1] = "/" /\ Len(piece(k)) > 0
    <3>1. "/" \in Token /\ Part(up, k) \in Token
      BY <1>6 DEF Token
    <3> DEFINE q == Part(up, k)
    <3> HIDE DEF q
    <3>2. <<"/">> \in Seq(Token) /\ <<"/">>[1] = "/" /\ Len(<<"/">>) > 0
      BY <3>1
    <3>3. <<"/", q>> \in Seq(Token) /\ <<"/", q>>[1] = "/" /\ Len(<<"/", q>>) > 0
      BY <3>1 DEF q
    <3> QED  BY <3>2, <3>3 DEF q
  <2>2. s \in Seq(Token)
    BY DEF FromRoot
  <2> HIDE DEF piece
  <2>3. s \o piece(k) \in Seq(Token) /\ Len(s \o piece(k)) = Len(s) + Len(piece(k))
        /\ Len(s) \in Nat /\ Len(piece(k)) \in Nat
    BY <2>1, <2>2
  <2>4. s \o piece(k) # <<>>
    BY <2>1, <2>3
  <2>5. CASE s = <<>>
    BY <2>1, <2>2, <2>3, <2>4, <2>5 DEF FromRoot
  <2>6. CASE s # <<>>
    <3>1. s[1] = "/" /\ 1 \in 1 .. Len(s)
      BY <2>2, <2>6 DEF FromRoot
    <3>2. (s \o piece(k))[1] = s[1]
      BY <3>1, <2>1, <2>2
    <3> QED  BY <3>1, <3>2, <2>3, <2>4 DEF FromRoot
  <2> QED  BY <2>5, <2>6
<1>8. \A k \in 1 .. d : piece(k) = IF part(k) = "" THEN <<"/">> ELSE <<"/", part(k)>>
  BY <1>5
<1> HIDE DEF d, piece, part
<1>9. Bufs(up, buf)
  <2> DEFINE F == [k \in 1 .. d |-> [s \in FromRoot |-> s \o piece(k)]]
  <2>1. F \in [1 .. d -> [FromRoot -> FromRoot]] /\ <<>> \in FromRoot
    BY <1>7 DEF FromRoot
  <2>2. PICK f \in [0 .. d -> FromRoot] : Recurs(f, d, <<>>, F)
    <3> HIDE DEF F
    <3> QED  BY <1>5, <2>1, RecursionExists
  <2>3. ASSUME NEW k \in 0 .. d
        PROVE  /\ f[k] = IF k = 0 THEN <<>> ELSE f[k - 1] \o IF part(k) = "" THEN <<"/">> ELSE <<"/", part(k)>>
    <3>1. k # 0 => k \in 1 .. d /\ f[k - 1] \in FromRoot
      BY <1>5
    <3>2. k # 0 => F[k][f[k - 1]] = f[k - 1] \o piece(k)
      BY <3>1
    <3> HIDE DEF F
    <3> QED  BY <3>1, <3>2, <2>2, <1>8 DEF Recurs
  <2>4. f = [k \in 0 .. d |-> IF k = 0 THEN <<>>
                 ELSE f[k - 1] \o IF part(k) = "" THEN <<"/">> ELSE <<"/", part(k)>>]
    BY <2>3
  <2>5. buf = [k \in 0 .. d |-> IF k = 0 THEN <<>>
                 ELSE buf[k - 1] \o IF part(k) = "" THEN <<"/">> ELSE <<"/", part(k)>>]
    BY <2>4 DEF d
  <2> HIDE DEF buf
  <2>6. \A k \in 0 .. d : buf[k] = IF k = 0 THEN <<>> ELSE buf[k - 1] \o piece(k)
    <3>1. \A k \in 0 .. d : k # 0 => k \in 1 .. d
      BY <1>5
    <3> QED  BY <3>1, <2>5, <1>8
  <2>7. buf = [k \in 0 .. d |-> IF k = 0 THEN <<>> ELSE buf[k - 1] \o piece(k)]
    BY <2>5, <2>6
  <2> QED  BY <2>7, <1>5 DEF Bufs, piece
<1> HIDE DEF buf
<1>10. \A k \in 0 .. d : buf[k] \in FromRoot /\ (k # 0 => buf[k] # <<>>)
  <2>0. \A k \in 0 .. d : buf[k] = IF k = 0 THEN <<>> ELSE buf[k - 1] \o piece(k)
    BY <1>5, <1>9 DEF Bufs, piece
  <2> DEFINE T == {k \in 0 .. d : buf[k] \in FromRoot /\ (k # 0 => buf[k] # <<>>)}
  <2>a. d \in Nat
    BY <1>5
  <2>1. 0 \in T
    <3>1. 0 \in 0 .. d
      BY <2>a
    <3>2. <<>> \in FromRoot
      BY DEF FromRoot
    <3> QED  BY <2>0, <3>1, <3>2
  <2>2. ASSUME NEW k \in 0 .. d - 1, k \in T  PROVE k + 1 \in T
    <3>1. k + 1 \in 0 .. d /\ k + 1 \in 1 .. d /\ k + 1 # 0 /\ k + 1 - 1 = k
      <4> HIDE DEF T
      <4> QED  BY <2>a
    <3>2. buf[k] \in FromRoot
      BY <2>2
    <3>3. buf[k] \o piece(k + 1) \in FromRoot /\ buf[k] \o piece(k + 1) # <<>>
      BY <3>1, <3>2, <1>7
    <3>4. buf[k + 1] = buf[k] \o piece(k + 1)
      <4> DEFINE j == k + 1
      <4>1. j \in 0 .. d /\ j # 0 /\ j - 1 = k
        BY <3>1
      <4> HIDE DEF j
      <4>2. buf[j] = buf[j - 1] \o piece(j)
        BY <4>1, <2>0
      <4> QED  BY <4>1, <4>2 DEF j
    <3> QED  BY <3>1, <3>3, <3>4
  <2>3. \A k \in 0 .. d : k \in T
    <3> HIDE DEF T
    <3> QED  BY <1>5, <2>1, <2>2, CountingUp
  <2> QED  BY <2>3
<1> QED  BY <1>1, <1>2, <1>3, <1>4, <1>5, <1>9, <1>10 DEF d

LEMMA MakePathIsGood ==
    ASSUME Walkable(nodes), \A n \in DOMAIN nodes : nodes[n].name \in Token, NEW arg,
           arg \in Args \/ \E name \in Names : arg = <<name>>
    PROVE  GoodPath(make_path(arg))
<1>1. /\ arg \in Seq(Token) /\ arg # <<>>
      /\ \A i \in 1 .. Len(arg) - 1 : arg[i] = "/" \/ arg[i + 1] = "/"
  <2>1. CASE arg \in Args
    <3>1. arg \in Seq(STRING) /\ arg # <<>>
          /\ \A i \in 1 .. Len(arg) - 1 : arg[i] = "/" \/ arg[i + 1] = "/"
      BY <2>1, ShellAssumption
    <3>2. ASSUME NEW i \in 1 .. Len(arg)  PROVE arg[i] \in Token
      <4>1. arg[i] \in {arg[j] : j \in DOMAIN arg}
        BY <3>1
      <4>2. arg[i] \in UNION {{a[j] : j \in DOMAIN a} : a \in Args}
        BY <4>1, <2>1
      <4> QED  BY <4>2 DEF Token
    <3>3. arg \in Seq(Token)
      BY <3>1, <3>2
    <3> QED  BY <3>1, <3>3
  <2>2. CASE arg \notin Args
    <3>1. PICK name \in Names : arg = <<name>>
      BY <2>2
    <3>2. name \in Token
      BY DEF Token
    <3>3. Len(arg) = 1 /\ arg \in Seq(Token) /\ arg # <<>>
      BY <3>1, <3>2
    <3> QED  BY <3>3
  <2> QED  BY <2>1, <2>2
<1>2. vfs_getcwd \in Seq(Token) /\ vfs_getcwd # <<>> /\ vfs_getcwd[1] = "/"
  <2>1. PICK up, buf :
          /\ Depth(up) \in 0 .. MAX_DEPTH
          /\ \A k \in 0 .. Depth(up) : buf[k] \in FromRoot /\ (k # 0 => buf[k] # <<>>)
          /\ vfs_getcwd = IF Depth(up) = 0 THEN <<"/">> ELSE buf[Depth(up)]
    BY GetcwdIs
  <2>2. CASE Depth(up) = 0
    <3>1. "/" \in Token /\ vfs_getcwd = <<"/">>
      BY <2>1, <2>2 DEF Token
    <3> QED  BY <3>1
  <2>3. CASE Depth(up) # 0
    <3>1. Depth(up) \in 0 .. Depth(up)
      BY <2>1, VfsAssumption
    <3>2. vfs_getcwd \in FromRoot /\ vfs_getcwd # <<>>
      BY <3>1, <2>1, <2>3
    <3> QED  BY <3>2 DEF FromRoot
  <2> QED  BY <2>2, <2>3
<1> DEFINE n == Len(arg)
<1>3. n \in Nat /\ n >= 1 /\ \A i \in 1 .. n : arg[i] \in Token
  BY <1>1
\* Whatever stands before it, the last name of arg follows a slash.
<1>4. ASSUME NEW s \in Seq(Token), s # <<>>, s[1] = "/", s[Len(s)] = "/"
      PROVE  GoodPath(s \o arg)
  <2> DEFINE t == s \o arg
             m == Len(s)
  <2>1. m \in Nat /\ m >= 1 /\ t \in Seq(Token) /\ Len(t) = m + n
        /\ \A i \in 1 .. m : t[i] = s[i]
    BY <1>1, <1>4
  <2>2. \A i \in 1 .. n : t[m + i] = arg[i]
    BY <1>1
  <2> HIDE DEF t
  <2>3. t # <<>> /\ t[1] = "/" /\ Len(t) >= 2
    BY <2>1, <1>3, <1>4
  <2>4. Last(t) # "/" => t[Len(t) - 1] = "/"
    <3>1. CASE n = 1
      <4>1. Len(t) - 1 = m /\ m \in 1 .. m
        BY <3>1, <2>1
      <4> QED  BY <4>1, <2>1, <1>4
    <3>2. CASE n # 1
      <4>1. n \in 1 .. n /\ n - 1 \in 1 .. n /\ n - 1 \in 1 .. n - 1 /\ n - 1 + 1 = n
            /\ Len(t) - 1 = m + (n - 1) /\ Len(t) = m + n
        <5>1. n \in Nat /\ n >= 1 /\ n # 1 /\ m \in Nat /\ Len(t) = m + n
          BY <3>2, <1>3, <2>1
        <5> HIDE DEF n, m
        <5> QED  BY <5>1
      <4>2. t[m + n] = arg[n] /\ t[m + (n - 1)] = arg[n - 1]
        BY <4>1, <2>2
      <4>3. arg[n - 1] = "/" \/ arg[n] = "/"
        <5>1. n - 1 \in 1 .. Len(arg) - 1 /\ arg[n - 1 + 1] = arg[n]
          BY <4>1
        <5> QED  BY <5>1, <1>1
      <4> HIDE DEF m, n
      <4> QED  BY <4>1, <4>2, <4>3 DEF Last
    <3> QED  BY <3>1, <3>2
  <2> QED  BY <2>1, <2>3, <2>4 DEF GoodPath, t
<1>5. CASE arg[1] = "/"
  <2>1. make_path(arg) = arg
    BY <1>5 DEF make_path
  <2>2. Last(arg) # "/" => n >= 2 /\ arg[n - 1] = "/"
    <3> SUFFICES ASSUME Last(arg) # "/"  PROVE n >= 2 /\ arg[n - 1] = "/"
      OBVIOUS
    <3>1. arg[n] # "/" /\ n # 1
      BY <1>5 DEF Last
    <3>2. n >= 2 /\ n - 1 \in 1 .. n - 1 /\ n - 1 + 1 = n
      <4>1. n \in Nat /\ n >= 1 /\ n # 1
        BY <3>1, <1>3
      <4> HIDE DEF n
      <4> QED  BY <4>1
    <3>3. arg[n - 1] = "/" \/ arg[n - 1 + 1] = "/"
      BY <3>2, <1>1
    <3> QED  BY <3>1, <3>2, <3>3
  <2> QED  BY <2>1, <2>2, <1>1, <1>5 DEF GoodPath
<1>6. CASE arg[1] # "/" /\ Last(vfs_getcwd) = "/"
  <2>1. make_path(arg) = vfs_getcwd \o arg
    BY <1>6 DEF make_path
  <2>2. vfs_getcwd[Len(vfs_getcwd)] = "/"
    BY <1>6 DEF Last
  <2> QED  BY <2>1, <2>2, <1>2, <1>4
<1>7. CASE arg[1] # "/" /\ Last(vfs_getcwd) # "/"
  <2> DEFINE g == vfs_getcwd
             s == Append(g, "/")
  <2>1. make_path(arg) = s \o arg
    BY <1>7 DEF make_path
  <2>2. s \in Seq(Token) /\ Len(s) = Len(g) + 1 /\ Len(g) \in Nat /\ Len(g) >= 1
    <3>1. "/" \in Token /\ g \in Seq(Token) /\ g # <<>>
      BY <1>2 DEF Token
    <3> HIDE DEF g
    <3> QED  BY <3>1
  <2>3. s[Len(g) + 1] = "/" /\ s[1] = g[1]
    BY <1>2, <2>2
  <2>4. s # <<>>
    BY <2>2
  <2> HIDE DEF g, s
  <2>5. s[1] = "/" /\ s[Len(s)] = "/"
    BY <2>2, <2>3, <1>2 DEF g
  <2> QED  BY <2>1, <2>2, <2>4, <2>5, <1>4
<1> QED  BY <1>5, <1>6, <1>7

-----------------------------------------------------------------------------
(* What the steps do to the table of nodes. *)

LEMMA LiveNodes ==
    ASSUME TreeInv
    PROVE  /\ Live \ {fat_root} \subseteq Node /\ root \in Live \ {fat_root}
           /\ \A n \in Live \ {fat_root} :
                /\ DOMAIN nodes[n] = Fields /\ nodes[n].type \in {FILE, DIR}
                /\ nodes[n].children \in Seq(Node)
                /\ IsSound(nodes[n])
           /\ \A d \in Live \ {fat_root} : \A i \in DOMAIN nodes[d].children :
                nodes[d].children[i] \in Live \ {root, fat_root}
           /\ nodes[root].type = DIR
<1>1. /\ DOMAIN Own(nodes) = Live \ {fat_root}
      /\ \A n \in Live \ {fat_root} : Own(nodes)[n] = nodes[n]
  BY OwnIs DEF Live
<1>2. IsFs(Own(nodes)) /\ AllSound(Own(nodes))
  BY DEF TreeInv, OwnIsSound
<1>3. root \in Live \ {fat_root} /\ nodes[root].type = DIR /\ Live \ {fat_root} \subseteq Node
  BY <1>1, <1>2 DEF IsFs
<1>4. \A n \in Live \ {fat_root} : IsNode(nodes[n]) /\ IsSound(nodes[n])
  BY <1>1, <1>2 DEF IsFs, AllSound
<1>5. \A d \in Live \ {fat_root} : \A i \in DOMAIN nodes[d].children :
                nodes[d].children[i] \in Live \ {root, fat_root}
  BY <1>1, <1>2 DEF IsFs, IsTree
<1> QED  BY <1>3, <1>4, <1>5 DEF IsNode

\* u is ns with other content, or another size, in n.
Alike(ns, u, n) ==
    /\ DOMAIN u = DOMAIN ns
    /\ \A m \in DOMAIN ns \ {n} : u[m] = ns[m]
    /\ DOMAIN u[n] = Fields
    /\ u[n].name = ns[n].name /\ u[n].type = ns[n].type
    /\ u[n].parent = ns[n].parent /\ u[n].mount = ns[n].mount /\ u[n].children = ns[n].children

LEMMA AlikeKeepsTree ==
    ASSUME TreeInv, NEW n \in Live \ {fat_root}, Alike(nodes, nodes', n), IsSound(nodes'[n]), cwd' = cwd
    PROVE  TreeInv' /\ Live' = Live /\ (~ Dangling => ~ Dangling')
<1>1. Live' = Live
  BY DEF Alike, Live
<1>2. /\ DOMAIN Own(nodes) = Live \ {fat_root} /\ DOMAIN Own(nodes') = Live \ {fat_root}
      /\ \A m \in Live \ {fat_root} : Own(nodes)[m] = nodes[m] /\ Own(nodes')[m] = nodes'[m]
  BY <1>1, OwnIs DEF Live
<1>3. SameShape(Own(nodes), Own(nodes'))
  BY <1>2, LiveNodes DEF SameShape, Alike, Live
<1>4. AllSound(Own(nodes'))
  BY <1>2, LiveNodes DEF AllSound, Alike, Live
<1>5. OwnIsSound(Own(nodes'))
  BY <1>3, <1>4, ShapeStaysSound DEF TreeInv
<1>6. /\ \A m \in Live : nodes'[m].mount = nodes[m].mount /\ nodes'[m].children = nodes[m].children
      /\ fat_root \in Live => nodes'[fat_root] = nodes[fat_root]
  BY DEF Alike, Live
<1>7. VolumeIsEmpty'
  BY <1>1, <1>6 DEF TreeInv, VolumeIsEmpty
<1>8. MountsAreLeaves'
  BY <1>1, <1>6, LiveNodes DEF TreeInv, MountsAreLeaves
<1>9. ~ Dangling => ~ Dangling'
  BY <1>1, <1>6 DEF Dangling
<1> QED  BY <1>1, <1>5, <1>7, <1>8, <1>9 DEF TreeInv

\* What a walk that is not at its end in NULL found.
Usable(n) == n \in Live /\ nodes[n].mount = NULL

LEMMA CreateKeepsTree ==
    ASSUME TreeInv, NEW dir, Usable(dir), NEW name \in Token \ {"/", ".", ".."}, NEW type \in {FILE, DIR},
           NEW n \in Node \ Live, CanCreateIn(dir, name), nodes' = Created(nodes, dir, name, type, n),
           cwd' = cwd
    PROVE  /\ TreeInv'
           /\ Live' = Live \union {n} /\ n # fat_root
           /\ nodes'[n] = NewNode(name, type, dir)
           /\ \A m \in Live : /\ nodes'[m].type = nodes[m].type /\ nodes'[m].size = nodes[m].size
                              /\ nodes'[m].isize = nodes[m].isize /\ nodes'[m].data = nodes[m].data
                              /\ nodes'[m].mount = nodes[m].mount
           /\ \A m \in Live \ {dir} : nodes'[m] = nodes[m]
           /\ ~ Dangling => ~ Dangling'
<1>1. dir \in Live \ {fat_root} /\ dir # n /\ n # fat_root
  BY FatRootIsNoNode DEF CanCreateIn, Usable
<1>2. /\ DOMAIN Own(nodes) = Live \ {fat_root}
      /\ \A m \in Live \ {fat_root} : Own(nodes)[m] = nodes[m]
  BY OwnIs DEF Live
<1>3. Own(nodes') = Created(Own(nodes), dir, name, type, n)
  BY <1>1, OwnCreated DEF Live
<1>4. CanCreate(Own(nodes), dir, name)
  <2>1. IsFs(Own(nodes)) /\ CanCreate(nodes, dir, name)
    BY DEF TreeInv, OwnIsSound, CanCreateIn
  <2>2. ramfs_lookup(Own(nodes), dir, name) = ramfs_lookup(nodes, dir, name)
    BY <1>1, <2>1, OwnLookup DEF Live
  <2> QED  BY <1>1, <1>2, <2>1, <2>2 DEF CanCreate
<1>5. OwnIsSound(Own(nodes'))
  <2>1. n \in Node \ DOMAIN Own(nodes) /\ dir \in DOMAIN Own(nodes) /\ OwnIsSound(Own(nodes))
    BY <1>1, <1>2 DEF TreeInv
  <2> QED  BY <2>1, <1>3, <1>4, CreatedStaysSound
<1>6. /\ Live' = Live \union {n}
      /\ nodes'[n] = NewNode(name, type, dir)
      /\ \A m \in Live \ {dir} : nodes'[m] = nodes[m]
      /\ nodes'[dir] = [nodes[dir] EXCEPT !.children = Append(@, n)]
  BY <1>1 DEF Live, Created
<1>7. DOMAIN nodes[dir] = Fields
  BY <1>1, LiveNodes
<1>8. /\ nodes'[dir].type = nodes[dir].type /\ nodes'[dir].size = nodes[dir].size
      /\ nodes'[dir].isize = nodes[dir].isize /\ nodes'[dir].data = nodes[dir].data
      /\ nodes'[dir].mount = nodes[dir].mount
  BY <1>6, <1>7 DEF Fields
<1>9. \A m \in Live : /\ nodes'[m].type = nodes[m].type /\ nodes'[m].size = nodes[m].size
                      /\ nodes'[m].isize = nodes[m].isize /\ nodes'[m].data = nodes[m].data
                      /\ nodes'[m].mount = nodes[m].mount
  BY <1>6, <1>8
<1>10. VolumeIsEmpty'
  <2>1. Live' \subseteq Node \union {fat_root}
    BY <1>6 DEF TreeInv, VolumeIsEmpty
  <2>2. fat_root \in Live' => fat_root \in Live /\ nodes'[fat_root] = nodes[fat_root]
    BY <1>1, <1>6
  <2> QED  BY <2>1, <2>2 DEF TreeInv, VolumeIsEmpty
<1>11. nodes'[n].mount = NULL
  BY <1>6 DEF NewNode
<1>12. MountsAreLeaves'
  <2>1. ASSUME NEW m \in Live' \ {fat_root}
        PROVE  \/ nodes'[m].mount = NULL
               \/ nodes'[m].mount = fat_root /\ nodes'[m].children = <<>> /\ m # root
    <3>1. CASE m = n
      BY <3>1, <1>11
    <3>2. CASE m = dir
      BY <3>2, <1>8 DEF Usable
    <3>3. CASE m \notin {n, dir}
      <4>1. m \in Live \ {fat_root} /\ nodes'[m] = nodes[m]
        BY <3>3, <1>6
      <4> QED  BY <4>1 DEF TreeInv, MountsAreLeaves
    <3> QED  BY <3>1, <3>2, <3>3
  <2>2. nodes'[root].mount = NULL
    BY <1>9, LiveNodes DEF TreeInv, MountsAreLeaves
  <2>3. cwd' \in Live' => nodes'[cwd'].mount = NULL
    BY <1>6, <1>9, <1>11 DEF TreeInv, MountsAreLeaves
  <2> QED  BY <2>1, <2>2, <2>3 DEF MountsAreLeaves
<1>13. ~ Dangling => ~ Dangling'
  BY <1>6, <1>9, <1>11 DEF Dangling
<1> QED  BY <1>1, <1>5, <1>6, <1>9, <1>10, <1>12, <1>13 DEF TreeInv

\* rm of a node of the RAM file system, or of the root of the volume.
LEMMA UnlinkKeepsTree ==
    ASSUME TreeInv, NEW n, Usable(n), n # root, CanUnlink(nodes, n),
           nodes' = Unlinked(nodes, nodes[n].parent, n), cwd' = cwd
    PROVE  /\ TreeInv'
           /\ Live' = Live \ {n}
           /\ \A m \in Live' : /\ nodes'[m].type = nodes[m].type /\ nodes'[m].size = nodes[m].size
                               /\ nodes'[m].isize = nodes[m].isize /\ nodes'[m].data = nodes[m].data
<1> DEFINE dir == nodes[n].parent
<1>1. /\ Live' = Live \ {n}
      /\ \A m \in Live' \ {dir} : nodes'[m] = nodes[m]
      /\ dir \in Live' => nodes'[dir] = [nodes[dir] EXCEPT !.children = WithoutChild(@, n)]
  BY DEF Live, Unlinked
<1>2. /\ DOMAIN Own(nodes) = Live \ {fat_root}
      /\ \A m \in Live \ {fat_root} : Own(nodes)[m] = nodes[m]
  BY OwnIs DEF Live
<1>3. Own(nodes') = Unlinked(Own(nodes), dir, n)
  BY OwnUnlinked
<1>4. CASE n = fat_root
  <2>1. dir \in {root, fat_root}
    BY <1>4 DEF TreeInv, VolumeIsEmpty, Usable
  <2>2. ASSUME NEW m \in Live'
        PROVE  /\ DOMAIN nodes'[m] = DOMAIN nodes[m]
               /\ nodes'[m].name = nodes[m].name /\ nodes'[m].parent = nodes[m].parent
               /\ nodes'[m].type = nodes[m].type /\ nodes'[m].size = nodes[m].size
               /\ nodes'[m].isize = nodes[m].isize /\ nodes'[m].data = nodes[m].data
               /\ nodes'[m].mount = nodes[m].mount /\ nodes'[m].children = nodes[m].children
    <3>1. CASE m # dir
      BY <3>1, <1>1
    <3>2. CASE m = dir
      <4>1. dir = root /\ dir \in Live \ {fat_root}
        BY <3>2, <1>1, <1>4, <2>1
      <4> DEFINE ch == nodes[dir].children
      <4>2. \A i \in DOMAIN ch : ch[i] # n
        BY <1>4, <4>1, LiveNodes
      <4>3. WithoutChild(ch, n) = ch
        BY <4>2 DEF WithoutChild
      <4>4. DOMAIN nodes[dir] = Fields
        BY <4>1, LiveNodes
      <4>5. nodes'[dir] = [nodes[dir] EXCEPT !.children = ch]
        BY <3>2, <4>3, <1>1
      <4> QED  BY <3>2, <4>4, <4>5 DEF Fields
    <3> QED  BY <3>1, <3>2
  <2>3. /\ DOMAIN Own(nodes') = DOMAIN Own(nodes)
        /\ \A m \in DOMAIN Own(nodes) : m \in Live' /\ Own(nodes')[m] = nodes'[m] /\ Own(nodes)[m] = nodes[m]
    <3>1. DOMAIN nodes' \ {fat_root} = DOMAIN nodes \ {fat_root}
      BY <1>1, <1>4 DEF Live
    <3> QED  BY <3>1, <1>1, <1>4 DEF Own, Live
  <2>4. SameShape(Own(nodes), Own(nodes'))
    BY <2>2, <2>3 DEF SameShape
  <2>5. AllSound(Own(nodes'))
    <3>1. AllSound(Own(nodes))
      BY DEF TreeInv, OwnIsSound
    <3>2. \A m \in DOMAIN Own(nodes) : IsSound(nodes[m])
      BY <3>1, <2>3 DEF AllSound
    <3>3. \A m \in DOMAIN Own(nodes) : IsSound(nodes'[m])
      BY <3>2, <2>2, <2>3 DEF IsSound
    <3> QED  BY <3>3, <2>3 DEF AllSound
  <2>6. OwnIsSound(Own(nodes'))
    BY <2>4, <2>5, ShapeStaysSound DEF TreeInv
  <2>7. VolumeIsEmpty' /\ MountsAreLeaves'
    <3>1. fat_root \notin Live' /\ Live' \subseteq Node \union {fat_root} /\ root \in Live'
      BY <1>1, <1>4, LiveNodes DEF TreeInv, VolumeIsEmpty
    <3>2. VolumeIsEmpty'
      BY <3>1 DEF VolumeIsEmpty
    <3>3. \A m \in Live' : nodes'[m].mount = nodes[m].mount /\ nodes'[m].children = nodes[m].children
      BY <2>2
    <3>4. MountsAreLeaves'
      BY <3>1, <3>3, <1>1 DEF TreeInv, MountsAreLeaves
    <3> QED  BY <3>2, <3>4
  <2> QED  BY <1>1, <2>2, <2>6, <2>7 DEF TreeInv
<1>5. CASE n # fat_root
  <2>1. n \in DOMAIN Own(nodes) \ {root} /\ Own(nodes)[n] = nodes[n]
    BY <1>2, <1>5 DEF Usable
  <2>2. CanUnlink(Own(nodes), n)
    BY <2>1 DEF CanUnlink
  <2>3. dir \in DOMAIN Own(nodes) \ {n} /\ OwnIsSound(Own(nodes'))
    BY <2>1, <2>2, <1>3, UnlinkedStaysSound DEF TreeInv
  <2>4. dir \in Live \ {fat_root} /\ dir \in Live' /\ DOMAIN nodes[dir] = Fields
    BY <2>3, <1>1, <1>2, LiveNodes
  <2>5. /\ nodes'[dir].type = nodes[dir].type /\ nodes'[dir].size = nodes[dir].size
        /\ nodes'[dir].isize = nodes[dir].isize /\ nodes'[dir].data = nodes[dir].data
        /\ nodes'[dir].mount = nodes[dir].mount
    BY <2>4, <1>1 DEF Fields
  <2>6. nodes[dir].mount = NULL
    <3>1. \E i \in DOMAIN nodes[dir].children : nodes[dir].children[i] = n
      BY <2>1, <2>4, <1>2 DEF TreeInv, OwnIsSound, IsFs, IsTree
    <3> QED  BY <3>1, <2>4 DEF TreeInv, MountsAreLeaves
  <2>7. VolumeIsEmpty'
    BY <1>1, <2>4 DEF TreeInv, VolumeIsEmpty
  <2>8. \A m \in Live' : nodes'[m].mount = nodes[m].mount
    BY <1>1, <2>5
  <2>9. MountsAreLeaves'
    <3>1. ASSUME NEW m \in Live' \ {fat_root}
          PROVE  \/ nodes'[m].mount = NULL
                 \/ nodes'[m].mount = fat_root /\ nodes'[m].children = <<>> /\ m # root
      <4>1. CASE m = dir
        BY <4>1, <2>5, <2>6
      <4>2. CASE m # dir
        BY <4>2, <1>1 DEF TreeInv, MountsAreLeaves
      <4> QED  BY <4>1, <4>2
    <3>2. root \in Live' /\ nodes'[root].mount = NULL
      BY <1>1, <2>8, LiveNodes DEF TreeInv, MountsAreLeaves
    <3>3. cwd' \in Live' => nodes'[cwd'].mount = NULL
      BY <1>1, <2>8 DEF TreeInv, MountsAreLeaves
    <3> QED  BY <3>1, <3>2, <3>3 DEF MountsAreLeaves
  <2> QED  BY <1>1, <2>3, <2>5, <2>7, <2>9 DEF TreeInv
<1> QED  BY <1>4, <1>5

-----------------------------------------------------------------------------
(* What a write leaves in the file. *)

LEMMA GrownKeeps ==
    ASSUME NEW r, IsSound(r), r.type = FILE, NEW end \in Nat, end <= RAMFS_MAX_FILESIZE
    PROVE  \A i \in 1 .. r.isize : Grown(r, end)[i] = r.data[i]
<1>1. r.isize \in Nat /\ Len(r.data) \in Nat /\ r.isize <= Len(r.data)
  BY DEF IsSound
<1>2. CASE end > Len(r.data)
  <2> DEFINE cap == NewCap(Len(r.data), end)
             g == [i \in 1 .. cap |-> IF i <= r.isize THEN r.data[i] ELSE ZeroBuffer(cap)[i]]
  <2>1. Grown(r, end) = g
    BY <1>2 DEF Grown
  <2>2. cap \in Nat /\ end <= cap
    <3>1. cap \in end .. RAMFS_MAX_FILESIZE
      BY <1>1, NewCapFits
    <3> QED  BY <3>1, RamfsAssumption
  <2> HIDE DEF cap
  <2>3. \A i \in 1 .. r.isize : i \in 1 .. cap /\ i <= r.isize
    BY <1>1, <1>2, <2>2
  <2>4. \A i \in 1 .. r.isize : g[i] = r.data[i]
    BY <2>3
  <2> QED  BY <2>1, <2>4
<1>3. CASE ~ (end > Len(r.data))
  BY <1>3 DEF Grown
<1> QED  BY <1>2, <1>3

\* u is ns with the bytes written in n, at off.
IsWritten(ns, u, n, off, bytes) ==
    /\ DOMAIN u = DOMAIN ns /\ \A m \in DOMAIN ns \ {n} : u[m] = ns[m]
    /\ DOMAIN u[n] = Fields
    /\ u[n].name = ns[n].name /\ u[n].type = ns[n].type
    /\ u[n].parent = ns[n].parent /\ u[n].mount = ns[n].mount /\ u[n].children = ns[n].children
    /\ u[n].isize = IF off + Len(bytes) > ns[n].isize THEN off + Len(bytes) ELSE ns[n].isize
    /\ u[n].size = IF off + Len(bytes) > ns[n].isize THEN off + Len(bytes) ELSE ns[n].size
    /\ \A i \in 1 .. off : u[n].data[i] = ns[n].data[i]
    /\ \A i \in 1 .. Len(bytes) : u[n].data[off + i] = bytes[i]

LEMMA WrittenIs ==
    ASSUME NEW ns, IsFs(ns), AllSound(ns), NEW n \in DOMAIN ns, ns[n].type = FILE,
           NEW off \in Nat, NEW bytes \in Seq(Bytes), off + Len(bytes) <= RAMFS_MAX_FILESIZE,
           off <= ns[n].isize
    PROVE  IsWritten(ns, Written(ns, n, off, bytes), n, off, bytes)
<1> DEFINE r == ns[n]
           end == off + Len(bytes)
           buffer == Grown(r, end)
           data == [i \in DOMAIN buffer |-> IF i \in off + 1 .. end THEN bytes[i - off] ELSE buffer[i]]
           isize == IF end > r.isize THEN end ELSE r.isize
           size == IF end > r.isize THEN end ELSE r.size
<1>1. IsSound(r) /\ r.isize \in Nat /\ Len(bytes) \in Nat /\ end \in Nat /\ end <= RAMFS_MAX_FILESIZE
  BY DEF AllSound, IsSound
<1> DEFINE x == [r EXCEPT !.data = data, !.isize = isize, !.size = size]
           u == [ns EXCEPT ![n] = x]
<1>2. Written(ns, n, off, bytes) = u
  BY DEF Written
<1> HIDE DEF u
<1>3. buffer \in Seq(Bytes \union {ZERO}) /\ end <= Len(buffer) /\ Len(buffer) \in Nat
  <2> HIDE DEF end
  <2> QED  BY <1>1, GrownIsSound
<1>4. \A i \in 1 .. r.isize : buffer[i] = r.data[i]
  <2> HIDE DEF end
  <2> QED  BY <1>1, GrownKeeps
<1>5. end = off + Len(bytes) /\ DOMAIN buffer = 1 .. Len(buffer)
  BY <1>3
<1> DEFINE len == Len(bytes)
           room == Len(buffer)
<1>6. len \in Nat /\ room \in Nat /\ end <= room /\ end = off + len /\ DOMAIN buffer = 1 .. room
  BY <1>1, <1>3, <1>5
<1>7. \A i \in 1 .. off : data[i] = r.data[i]
  <2> HIDE DEF end, room, buffer, len
  <2>1. ASSUME NEW i \in 1 .. off  PROVE i \in 1 .. room /\ i \notin off + 1 .. end /\ i \in 1 .. r.isize
    BY <1>1, <1>6
  <2>2. \A i \in 1 .. off : data[i] = buffer[i]
    BY <2>1, <1>6
  <2> HIDE DEF data
  <2> QED  BY <2>1, <2>2, <1>4
<1>8. \A i \in 1 .. len : data[off + i] = bytes[i]
  <2> SUFFICES ASSUME NEW i \in 1 .. len  PROVE data[off + i] = bytes[i]
    OBVIOUS
  <2> DEFINE k == off + i
  <2> HIDE DEF end, room, buffer, len
  <2>1. k \in 1 .. room /\ k \in off + 1 .. end /\ k - off = i
    BY <1>1, <1>6
  <2> HIDE DEF k
  <2>2. data[k] = bytes[i]
    BY <2>1, <1>6
  <2> QED  BY <2>2 DEF k
<1>9. /\ DOMAIN u = DOMAIN ns /\ \A m \in DOMAIN ns \ {n} : u[m] = ns[m]
      /\ DOMAIN u[n] = Fields
      /\ u[n].name = ns[n].name /\ u[n].type = ns[n].type
      /\ u[n].parent = ns[n].parent /\ u[n].mount = ns[n].mount /\ u[n].children = ns[n].children
      /\ u[n].data = data /\ u[n].isize = isize /\ u[n].size = size
  <2>1. DOMAIN ns[n] = Fields
    BY DEF IsFs, IsNode
  <2> HIDE DEF data, isize, end, x
  <2>3. DOMAIN u = DOMAIN ns /\ (\A m \in DOMAIN ns \ {n} : u[m] = ns[m]) /\ u[n] = x
    BY DEF u
  <2> HIDE DEF r
  <2>4. /\ DOMAIN u[n] = Fields
        /\ u[n].name = ns[n].name /\ u[n].type = ns[n].type
        /\ u[n].parent = ns[n].parent /\ u[n].mount = ns[n].mount /\ u[n].children = ns[n].children
        /\ u[n].data = data /\ u[n].isize = isize
        /\ u[n].size = IF end > ns[n].isize THEN end ELSE ns[n].size
    BY <2>1, <2>3 DEF Fields, x, r
  <2> QED  BY <2>3, <2>4 DEF r
<1> HIDE DEF data
<1>10. IsWritten(ns, u, n, off, bytes)
  BY <1>7, <1>8, <1>9 DEF IsWritten
<1> QED  BY <1>2, <1>10

\* A write behind what was written so far, as write and append do it, keeps
\* the tree and adds the bytes to what the file holds.
LEMMA WriteAppends ==
    ASSUME TreeInv, NEW n \in Live \ {fat_root}, nodes[n].type = FILE,
           NEW w \in Seq(Bytes), Holds(nodes[n], w), NEW off, off = Len(w),
           NEW bytes \in Seq(Bytes), off + Len(bytes) <= RAMFS_MAX_FILESIZE,
           NEW ns, ns = Written(nodes, n, off, bytes), NEW after, after = off + Len(bytes),
           nodes' = [ns EXCEPT ![n].size = IF after > @ THEN after ELSE @]
    PROVE  /\ Alike(nodes, nodes', n) /\ IsSound(nodes'[n])
           /\ Holds(nodes'[n], w \o bytes)
<1> DEFINE o == Own(nodes)
           r == nodes[n]
<1>1. DOMAIN o = Live \ {fat_root} /\ (\A m \in Live \ {fat_root} : o[m] = nodes[m]) /\ o[n] = r
  BY OwnIs DEF Live
<1>2. IsFs(o) /\ AllSound(o)
  BY DEF TreeInv, OwnIsSound
<1>3. off \in Nat /\ off <= r.isize /\ Len(bytes) \in Nat /\ r.isize \in Nat /\ r.size = off
  BY LiveNodes DEF Holds, IsSound
<1>4. IsWritten(o, Written(o, n, off, bytes), n, off, bytes)
  <2>1. n \in DOMAIN o /\ o[n].type = FILE /\ off <= o[n].isize /\ off \in Nat
    BY <1>1, <1>3
  <2> HIDE DEF o
  <2> QED  BY <2>1, <1>2, WrittenIs
<1>5. AllSound(Written(o, n, off, bytes))
  <2> HIDE DEF o
  <2> QED  BY <1>1, <1>2, <1>3, WrittenIsSound
<1>6. Own(ns) = Written(o, n, off, bytes)
  BY OwnWritten DEF Live
<1> DEFINE s == ns[n]
           t == nodes'[n]
<1>7. DOMAIN ns = DOMAIN nodes /\ \A m \in DOMAIN nodes \ {n} : ns[m] = nodes[m]
  <2>1. PICK x : ns = [nodes EXCEPT ![n] = x]
    BY DEF Written
  <2> QED  BY <2>1
<1>8. n \in DOMAIN Own(ns) /\ Own(ns)[n] = s
  BY <1>7, OwnIs DEF Live
<1>9. /\ DOMAIN s = Fields
      /\ s.name = r.name /\ s.type = r.type
      /\ s.parent = r.parent /\ s.mount = r.mount /\ s.children = r.children
      /\ s.isize = (IF off + Len(bytes) > r.isize THEN off + Len(bytes) ELSE r.isize)
      /\ s.size = (IF off + Len(bytes) > r.isize THEN off + Len(bytes) ELSE r.size)
      /\ \A i \in 1 .. off : s.data[i] = r.data[i]
      /\ \A i \in 1 .. Len(bytes) : s.data[off + i] = bytes[i]
  <2> DEFINE u == Written(o, n, off, bytes)
  <2>1. u[n] = s /\ o[n] = r
    BY <1>1, <1>6, <1>8
  <2> HIDE DEF u, o, r, s
  <2> QED  BY <2>1, <1>4 DEF IsWritten, u
<1>10. IsSound(s)
  BY <1>5, <1>6, <1>8 DEF AllSound
<1>11. nodes' = [ns EXCEPT ![n] = [s EXCEPT !.size = IF after > s.size THEN after ELSE s.size]]
  OBVIOUS
<1>12. /\ DOMAIN nodes' = DOMAIN nodes /\ \A m \in DOMAIN nodes \ {n} : nodes'[m] = nodes[m]
       /\ t = [s EXCEPT !.size = IF after > s.size THEN after ELSE s.size]
  <2> HIDE DEF s
  <2> QED  BY <1>7, <1>11 DEF Live
<1>13. /\ DOMAIN t = Fields /\ t.name = s.name /\ t.type = s.type /\ t.parent = s.parent
       /\ t.mount = s.mount /\ t.children = s.children
       /\ t.data = s.data /\ t.isize = s.isize /\ t.size = IF after > s.size THEN after ELSE s.size
  <2> HIDE DEF s, t
  <2> QED  BY <1>9, <1>12 DEF Fields
<1> HIDE DEF s, t, o
<1>14. IsSound(t) /\ Alike(nodes, nodes', n)
  <2>1. IsSound(t)
    BY <1>10, <1>13 DEF IsSound
  <2>2. Alike(nodes, nodes', n)
    BY <1>9, <1>12, <1>13 DEF Alike, t
  <2> QED  BY <2>1, <2>2
<1>15. t.size = off + Len(bytes) /\ off + Len(bytes) <= t.isize
  BY <1>3, <1>9, <1>13
<1> DEFINE v == w \o bytes
           len == Len(bytes)
<1>16. Len(v) = off + len /\ len \in Nat
       /\ (\A i \in 1 .. off : v[i] = w[i]) /\ (\A i \in 1 .. len : v[off + i] = bytes[i])
  BY <1>3
<1> HIDE DEF v
<1>17. \A i \in 1 .. Len(v) : v[i] = t.data[i]
  <2>1. \A i \in 1 .. off : t.data[i] = w[i]
    BY <1>9, <1>13 DEF Holds
  <2>2. ASSUME NEW i \in 1 .. Len(v)  PROVE v[i] = t.data[i]
    <3>1. CASE i \in 1 .. off
      BY <3>1, <2>1, <1>16
    <3>2. CASE i \notin 1 .. off
      <4> DEFINE k == i - off
      <4>1. k \in 1 .. len /\ off + k = i
        <5> HIDE DEF len
        <5> QED  BY <3>2, <1>3, <1>16
      <4> HIDE DEF k
      <4>2. v[off + k] = bytes[k] /\ s.data[off + k] = bytes[k]
        BY <4>1, <1>9, <1>16
      <4> QED  BY <4>1, <4>2, <1>13
    <3> QED  BY <3>1, <3>2
  <2> QED  BY <2>2
<1> HIDE DEF len
<1>18. Holds(t, v)
  BY <1>15, <1>16, <1>17 DEF Holds, len
<1> QED  BY <1>14, <1>18 DEF v, t
-----------------------------------------------------------------------------
(* Every command keeps the invariant. *)

LEMMA PathsLead ==
    ASSUME TreeInv, ~ Dangling, NEW path, GoodPath(path)
    PROVE  /\ \A n \in Resolved(nodes, path) : n # NULL => Usable(n)
           /\ \A dir \in resolve_parent(nodes, path) : dir # NULL => Usable(dir)
           /\ NULL \in Resolved(nodes, path) =>
                \A dir \in resolve_parent(nodes, path) :
                    dir # NULL => NameIn(path) \in Token \ {"/", ".", ".."}
<1>1. Walkable(nodes) /\ path \in Seq(Token)
  BY IsWalkable DEF TreeInv, GoodPath
<1>2. \A n \in Resolved(nodes, path) : n # NULL => Usable(n)
  BY <1>1, ResolvedStays DEF Places, Usable, Live
<1>3. \A dir \in resolve_parent(nodes, path) : dir # NULL => Usable(dir)
  BY <1>1, ParentStays DEF Places, Usable, Live
<1>4. ASSUME NULL \in Resolved(nodes, path), NEW dir \in resolve_parent(nodes, path), dir # NULL
      PROVE  NameIn(path) \in Token \ {"/", ".", ".."}
  <2>1. NameIn(path) \in Token \ {"/"}
    BY NameInIsAName
  <2>2. NameIn(path) \notin {".", ".."}
    BY <1>1, <1>4, DotsAreThere
  <2> QED  BY <2>1, <2>2
<1> QED  BY <1>2, <1>3, <1>4

LEMMA PathsAreGood ==
    ASSUME TreeInv, ~ Dangling
    PROVE  /\ \A arg \in Args : GoodPath(make_path(arg))
           /\ GoodPath(<<"/">>) /\ GoodPath(<<"/", "disk">>)
<1>1. Walkable(nodes) /\ \A n \in DOMAIN nodes : nodes[n].name \in Token
  BY IsWalkable, NamesAreTokens DEF TreeInv
<1>2. \A arg \in Args : GoodPath(make_path(arg))
  BY <1>1, MakePathIsGood
<1>3. "/" \in Token /\ "disk" \in Token
  BY DEF Token
<1>4. GoodPath(<<"/">>)
  <2> DEFINE p == <<"/">>
  <2>1. p \in Seq(Token) /\ Len(p) = 1 /\ p[1] = "/" /\ p # <<>>
    BY <1>3
  <2>2. Last(p) = "/"
    <3> HIDE DEF p
    <3> QED  BY <2>1 DEF Last
  <2> HIDE DEF p
  <2> QED  BY <2>1, <2>2 DEF GoodPath, p
<1>5. GoodPath(<<"/", "disk">>)
  <2> DEFINE p == <<"/", "disk">>
  <2>1. p \in Seq(Token) /\ Len(p) = 2 /\ p[1] = "/" /\ p # <<>>
    BY <1>3
  <2> HIDE DEF p
  <2>2. Len(p) >= 2 /\ Len(p) - 1 = 1
    BY <2>1
  <2> QED  BY <2>1, <2>2 DEF GoodPath, p
<1> QED  BY <1>2, <1>4, <1>5

\* Nothing changes in the tree.
LEMMA TreeStays ==
    ASSUME TreeInv, nodes' = nodes, cwd' = cwd \/ Usable(cwd')
    PROVE  TreeInv' /\ Live' = Live /\ (~ Dangling => ~ Dangling')
<1>1. Live' = Live
  BY DEF Live
<1>2. OwnIsSound(Own(nodes'))
  BY DEF TreeInv
<1>3. VolumeIsEmpty'
  BY <1>1 DEF TreeInv, VolumeIsEmpty
<1>4. MountsAreLeaves'
  BY <1>1 DEF TreeInv, MountsAreLeaves, Usable
<1>5. ~ Dangling => ~ Dangling'
  BY <1>1 DEF Dangling, Usable
<1> QED  BY <1>1, <1>2, <1>3, <1>4, <1>5 DEF TreeInv

\* Back at the prompt no more is to be shown.
LEMMA BackAtThePrompt ==
    ASSUME TreeInv', Kept', pc' = "prompt", fd_table' = [f \in {} |-> NULL], shown' = <<>>
    PROVE  ShellInv'
BY DEF ShellInv, Booting, Session, OpenFile, Progress

\* Files that nothing is done to still hold what was written to them.
LEMMA KeptStays ==
    ASSUME Kept, wrote' \in [Node -> Seq(Bytes)], Live' \subseteq Node \union {fat_root},
           \A n \in Live' \ {fat_root} :
              \/ nodes'[n].type = DIR
              \/ Holds(nodes'[n], wrote'[n])
              \/ /\ n \in Live /\ wrote'[n] = wrote[n]
                 /\ nodes'[n].type = nodes[n].type /\ nodes'[n].size = nodes[n].size
                 /\ nodes'[n].isize = nodes[n].isize /\ nodes'[n].data = nodes[n].data
    PROVE  Kept'
<1>1. FILE # DIR
  BY DEF FILE, DIR
<1>2. ASSUME NEW n \in Live' \ {fat_root}  PROVE Holds(nodes'[n], wrote'[n])
  <2>1. CASE nodes'[n].type = DIR
    BY <1>1, <2>1 DEF Holds
  <2>2. CASE Holds(nodes'[n], wrote'[n])
    BY <2>2
  <2>3. CASE /\ n \in Live /\ wrote'[n] = wrote[n]
             /\ nodes'[n].type = nodes[n].type /\ nodes'[n].size = nodes[n].size
             /\ nodes'[n].isize = nodes[n].isize /\ nodes'[n].data = nodes[n].data
    <3>1. Holds(nodes[n], wrote[n])
      BY <2>3 DEF Kept
    <3> QED  BY <3>1, <2>3 DEF Holds
  <2> QED  BY <2>1, <2>2, <2>3
<1> QED  BY <1>2 DEF Kept

LEMMA MkdirKeeps ==
    ASSUME TreeInv, Kept, ~ Dangling, NEW path, GoodPath(path), vfs_mkdir(path), wrote' = wrote
    PROVE  /\ TreeInv' /\ Kept' /\ ~ Dangling' /\ fd_table' = fd_table /\ cwd' = cwd /\ fd' = fd
           /\ \/ nodes' = nodes
              \/ \E dir \in resolve_parent(nodes, path) : \E n \in Node \ Live :
                    /\ Live' = Live \union {n} /\ nodes'[n] = NewNode(NameIn(path), DIR, dir)
                    /\ \A m \in Live : nodes'[m].mount = nodes[m].mount
                    /\ \A m \in Live \ {dir} : nodes'[m] = nodes[m]
<1>1. PICK dir \in resolve_parent(nodes, path) :
         /\ NULL \in Resolved(nodes, path)
         /\ CanCreateIn(dir, NameIn(path))
         /\ ramfs_create(dir, NameIn(path), DIR)
  BY DEF vfs_mkdir
<1>2. fd_table' = fd_table /\ cwd' = cwd /\ fd' = fd
  BY DEF vfs_mkdir
<1>3. Usable(dir) /\ NameIn(path) \in Token \ {"/", ".", ".."}
  BY <1>1, PathsLead DEF CanCreateIn
<1>4. CASE nodes' = nodes
  <2>1. TreeInv' /\ Live' = Live /\ ~ Dangling'
    BY <1>2, <1>4, TreeStays
  <2>2. Kept'
    BY <1>4, <2>1 DEF Kept
  <2> QED  BY <1>2, <1>4, <2>1, <2>2
<1>5. CASE nodes' # nodes
  <2>1. PICK n \in Node \ Live : nodes' = Created(nodes, dir, NameIn(path), DIR, n)
    BY <1>1, <1>5 DEF ramfs_create
  <2>2. DIR \in {FILE, DIR}
    OBVIOUS
  <2>3. /\ TreeInv' /\ Live' = Live \union {n} /\ ~ Dangling'
        /\ nodes'[n] = NewNode(NameIn(path), DIR, dir)
        /\ \A m \in Live : /\ nodes'[m].type = nodes[m].type /\ nodes'[m].size = nodes[m].size
                           /\ nodes'[m].isize = nodes[m].isize /\ nodes'[m].data = nodes[m].data
                           /\ nodes'[m].mount = nodes[m].mount
        /\ \A m \in Live \ {dir} : nodes'[m] = nodes[m]
    BY <1>1, <1>2, <1>3, <2>1, <2>2, CreateKeepsTree
  <2>4. nodes'[n].type = DIR
    BY <2>3 DEF NewNode
  <2>5. Live' \subseteq Node \union {fat_root} /\ wrote' \in [Node -> Seq(Bytes)]
    BY <2>3 DEF TreeInv, VolumeIsEmpty, Kept
  <2>6. Kept'
    BY <2>3, <2>4, <2>5, KeptStays
  <2> QED  BY <1>2, <2>3, <2>6
<1> QED  BY <1>4, <1>5

LEMMA MkdirStep == ASSUME ShellInv, NEW arg \in Args, Mkdir(arg)  PROVE ShellInv'
<1>1. TreeInv /\ Kept /\ ~ Dangling /\ pc = "prompt" /\ fd_table = [f \in {} |-> NULL] /\ shown = <<>>
  BY DEF ShellInv, Mkdir, AtPrompt, Session
<1>2. GoodPath(make_path(arg))
  BY <1>1, PathsAreGood
<1>3. vfs_mkdir(make_path(arg)) /\ wrote' = wrote /\ pc' = "prompt" /\ shown' = <<>>
  BY <1>1 DEF Mkdir, locals
<1>4. TreeInv' /\ Kept' /\ fd_table' = fd_table
  BY <1>1, <1>2, <1>3, MkdirKeeps
<1> QED  BY <1>1, <1>3, <1>4, BackAtThePrompt

LEMMA BootStep == ASSUME ShellInv, Boot  PROVE ShellInv'
<1>1. /\ TreeInv /\ Kept /\ ~ Dangling /\ pc = "boot" /\ fd_table = [f \in {} |-> NULL] /\ shown = <<>>
      /\ cwd = root /\ fat_root \notin Live /\ Live = {root}
      /\ \A n \in Live : nodes[n].mount = NULL
  BY DEF ShellInv, Boot, Session, Booting
<1>2. wrote' = wrote /\ pc' = "mount" /\ shown' = <<>>
  BY <1>1 DEF Boot
<1>3. /\ TreeInv' /\ Kept' /\ ~ Dangling' /\ fd_table' = fd_table /\ cwd' = cwd
      /\ \/ Live' = Live /\ nodes' = nodes
         \/ \E n \in Node \ Live : /\ Live' = Live \union {n} /\ nodes'[n].mount = NULL
                                   /\ nodes'[n].children = <<>>
                                   /\ \A m \in Live : nodes'[m].mount = nodes[m].mount
  <2>1. CASE UNCHANGED vfs
    <3>1. nodes' = nodes /\ cwd' = cwd /\ fd_table' = fd_table
      BY <2>1 DEF vfs, ramfs
    <3>2. TreeInv' /\ Live' = Live /\ ~ Dangling'
      BY <1>1, <3>1, TreeStays
    <3>3. Kept'
      BY <1>1, <1>2, <3>1, <3>2 DEF Kept
    <3> QED  BY <3>1, <3>2, <3>3
  <2>2. CASE vfs_mkdir(<<"/", "disk">>)
    <3> DEFINE p == <<"/", "disk">>
    <3>1. GoodPath(p)
      BY <1>1, PathsAreGood
    <3>2. vfs_mkdir(p)
      BY <2>2
    <3> HIDE DEF p
    <3>3. /\ TreeInv' /\ Kept' /\ ~ Dangling' /\ fd_table' = fd_table /\ cwd' = cwd
          /\ \/ nodes' = nodes
             \/ \E dir \in resolve_parent(nodes, p) : \E n \in Node \ Live :
                    /\ Live' = Live \union {n} /\ nodes'[n] = NewNode(NameIn(p), DIR, dir)
                    /\ \A m \in Live : nodes'[m].mount = nodes[m].mount
      BY <1>1, <1>2, <3>1, <3>2, MkdirKeeps
    <3>4. CASE nodes' = nodes
      BY <3>3, <3>4 DEF Live
    <3>5. CASE nodes' # nodes
      <4>1. PICK dir \in resolve_parent(nodes, p), n \in Node \ Live :
              /\ Live' = Live \union {n} /\ nodes'[n] = NewNode(NameIn(p), DIR, dir)
              /\ \A m \in Live : nodes'[m].mount = nodes[m].mount
        BY <3>3, <3>5
      <4>2. nodes'[n].mount = NULL /\ nodes'[n].children = <<>>
        BY <4>1 DEF NewNode
      <4> QED  BY <3>3, <4>1, <4>2
    <3> QED  BY <3>4, <3>5
  <2> QED  BY <2>1, <2>2 DEF Boot
<1>4. Session' /\ OpenFile' /\ Progress'
  BY <1>1, <1>2, <1>3 DEF Session, OpenFile, Progress
<1>5. Booting'
  <2>1. cwd' = root /\ fat_root \notin Live' /\ root \in Live'
    BY <1>1, <1>3, FatRootIsNoNode
  <2>2. \A n \in Live' : nodes'[n].mount = NULL /\ (n # root => nodes'[n].children = <<>>)
    BY <1>1, <1>3
  <2> QED  BY <1>2, <2>1, <2>2 DEF Booting
<1> QED  BY <1>3, <1>4, <1>5 DEF ShellInv

\* What vfs_mount finds at /disk when nothing is mounted yet: nothing, or an
\* entry of the root.
LEMMA MountPointIs ==
    ASSUME TreeInv, Booting, pc = "mount", NEW mp \in Resolved(fat32_mount(nodes), <<"/", "disk">>),
           mp # NULL
    PROVE  mp \in Live \ {root, fat_root} /\ nodes[mp].parent = root /\ nodes[mp].children = <<>>
<1> DEFINE ns == fat32_mount(nodes)
           path == <<"/", "disk">>
<1>1. /\ cwd = root /\ fat_root \notin Live
      /\ \A n \in Live : nodes[n].mount = NULL /\ (n # root => nodes[n].children = <<>>)
  BY DEF Booting
<1>2. /\ DOMAIN ns = Live \union {fat_root}
      /\ \A n \in Live : ns[n] = nodes[n]
      /\ ns[fat_root] = NewNode("/", DIR, fat_root)
  BY <1>1 DEF fat32_mount, Live
<1>3. /\ ns[fat_root].mount = NULL /\ ns[fat_root].parent = fat_root /\ ns[fat_root].children = <<>>
  BY <1>2 DEF NewNode
<1> HIDE DEF ns
<1>4. DOMAIN Own(nodes) = Live /\ \A n \in Live : Own(nodes)[n] = nodes[n]
  BY <1>1, OwnIs DEF Live
<1>5. IsFs(Own(nodes)) /\ nodes[root].parent = root /\ root \in Live /\ Live \subseteq Node
  BY <1>1, <1>4, LiveNodes DEF TreeInv, OwnIsSound
<1>6. Places(ns) = Live \union {fat_root}
  BY <1>1, <1>2, <1>3 DEF Places
<1>7. \A n \in Live : nodes[n].parent \in Live
  BY <1>4, <1>5 DEF IsFs, IsTree
\* Whatever is looked up is an entry of a live directory.
<1>8. ASSUME NEW n \in Live \union {fat_root}, NEW name, ramfs_lookup(ns, n, name) # NULL
      PROVE  /\ n \in Live
             /\ ramfs_lookup(ns, n, name) \in Live \ {root}
             /\ nodes[ramfs_lookup(ns, n, name)].parent = n
  <2>1. n \in DOMAIN ns /\ ns[n].children \in Seq(Node)
    <3>1. CASE n = fat_root
      <4>1. ns[n].children = <<>>
        BY <3>1, <1>3
      <4> QED  BY <4>1, <1>2
    <3>2. CASE n # fat_root
      <4>1. n \in Live /\ IsNode(nodes[n])
        BY <3>2, <1>4, <1>5 DEF IsFs
      <4> QED  BY <4>1, <1>2 DEF IsNode
    <3> QED  BY <3>1, <3>2
  <2>2. PICK i \in DOMAIN ns[n].children : ramfs_lookup(ns, n, name) = ns[n].children[i]
    BY <2>1, <1>8, LookupIsAChild
  <2>3. n \in Live
    <3>1. CASE n = fat_root
      <4>1. ns[n].children = <<>>
        BY <3>1, <1>3
      <4>2. FALSE
        BY <4>1, <2>2
      <4> QED  BY <4>2
    <3>2. CASE n # fat_root
      BY <3>2
    <3> QED  BY <3>1, <3>2
  <2>4. ns[n].children = nodes[n].children /\ Own(nodes)[n] = nodes[n] /\ n \in DOMAIN Own(nodes)
    BY <2>3, <1>2, <1>4
  <2>5. nodes[n].children[i] \in Live \ {root} /\ nodes[nodes[n].children[i]].parent = n
    <3>1. /\ Own(nodes)[n].children[i] \in DOMAIN Own(nodes) \ {root}
          /\ Own(nodes)[Own(nodes)[n].children[i]].parent = n
      BY <2>2, <2>4, <1>5 DEF IsFs, IsTree
    <3> QED  BY <3>1, <2>4, <1>4
  <2> QED  BY <2>2, <2>3, <2>4, <2>5
<1>9. \A n \in Live : Enter(ns, n) = n
  BY <1>1, <1>2 DEF Enter
<1>10. Walkable(ns)
  <2>1. root \in Places(ns) /\ cwd \in Places(ns) /\ NULL \notin DOMAIN ns
    BY <1>1, <1>2, <1>5, <1>6, FatRootIsNoNode
  <2>2. \A n \in Places(ns) : ns[n].parent \in Places(ns)
    BY <1>2, <1>3, <1>6, <1>7
  <2>3. \A n \in Places(ns) : \A name : Enter(ns, ramfs_lookup(ns, n, name)) \in Places(ns) \union {NULL}
    <3> SUFFICES ASSUME NEW n \in Places(ns), NEW name
                 PROVE  Enter(ns, ramfs_lookup(ns, n, name)) \in Places(ns) \union {NULL}
      OBVIOUS
    <3>1. CASE ramfs_lookup(ns, n, name) = NULL
      BY <3>1 DEF Enter
    <3>2. CASE ramfs_lookup(ns, n, name) # NULL
      <4>1. ramfs_lookup(ns, n, name) \in Live
        BY <3>2, <1>6, <1>8
      <4> QED  BY <4>1, <1>6, <1>9
    <3> QED  BY <3>1, <3>2
  <2> QED  BY <2>1, <2>2, <2>3 DEF Walkable
<1>11. path \in Seq(Token) /\ Len(path) = 2 /\ path[1] = "/" /\ path[2] = "disk" /\ path # <<>> /\ Head(path) = "/"
  <2>1. "/" \in Token /\ "disk" \in Token
    BY DEF Token
  <2> QED  BY <2>1
<1>12. Last(path) = "disk" /\ "disk" \notin {"", "/", ".", ".."}
  <2> HIDE DEF path
  <2> QED  BY <1>11 DEF Last
<1> HIDE DEF path
<1>13. PICK w : IsWalk(w, ns, path) /\ Walk(ns, path) = w[Len(path)]
  BY <1>10, <1>11, WalkExists
<1>14. w[0] = root /\ w[1] = w[0] /\ w[2] = Step(ns, w[1], "disk")
  <2>1. \A k \in 0 .. 2 : w[k] = IF k = 0 THEN Enter(ns, root)
                                 ELSE IF path[k] = "/" THEN w[k - 1] ELSE Step(ns, w[k - 1], path[k])
    BY <1>11, <1>13 DEF IsWalk
  <2>2. 0 \in 0 .. 2 /\ 1 \in 0 .. 2 /\ 2 \in 0 .. 2 /\ 1 - 1 = 0 /\ 2 - 1 = 1
    OBVIOUS
  <2>3. w[0] = root
    BY <2>1, <2>2, <1>5, <1>9
  <2>4. w[1] = w[0]
    BY <2>1, <2>2, <1>11
  <2>5. w[2] = Step(ns, w[1], "disk")
    BY <2>1, <2>2, <1>11, <1>12
  <2> QED  BY <2>3, <2>4, <2>5
<1> DEFINE c == ramfs_lookup(ns, root, "disk")
<1>15. mp = Enter(ns, c)
  <2>1. mp = Walk(ns, path)
    <3>1. PICK stale : mp = vfs_resolve(ns, path, stale)
      BY DEF Resolved, ns, path
    <3> QED  BY <3>1, <1>11, <1>12 DEF vfs_resolve
  <2>2. Walk(ns, path) = Step(ns, root, "disk") /\ root # NULL
    BY <1>11, <1>13, <1>14, FatRootIsNoNode
  <2>3. Step(ns, root, "disk") = Enter(ns, c)
    BY <2>2, <1>12 DEF Step
  <2> QED  BY <2>1, <2>2, <2>3
<1>16. c # NULL
  BY <1>15 DEF Enter
<1>17. c \in Live \ {root} /\ nodes[c].parent = root
  BY <1>5, <1>8, <1>16
<1> HIDE DEF c
<1>18. mp = c
  BY <1>9, <1>15, <1>17
<1> QED  BY <1>1, <1>17, <1>18

LEMMA MountStep == ASSUME ShellInv, Mount  PROVE ShellInv'
<1>1. /\ TreeInv /\ Kept /\ ~ Dangling /\ pc = "mount" /\ fd_table = [f \in {} |-> NULL] /\ shown = <<>>
      /\ cwd = root /\ fat_root \notin Live /\ Booting
      /\ \A n \in Live : nodes[n].mount = NULL
  BY DEF ShellInv, Mount, Session, Booting
<1>2. wrote' = wrote /\ pc' = "prompt" /\ shown' = <<>>
  BY <1>1 DEF Mount
<1>3. CASE UNCHANGED vfs
  <2>1. nodes' = nodes /\ cwd' = cwd /\ fd_table' = fd_table
    BY <1>3 DEF vfs, ramfs
  <2>2. TreeInv' /\ Live' = Live
    BY <1>1, <2>1, TreeStays
  <2>3. Kept'
    BY <1>1, <1>2, <2>1, <2>2 DEF Kept
  <2> QED  BY <1>1, <1>2, <2>1, <2>2, <2>3, BackAtThePrompt
<1>4. CASE vfs_mount(<<"/", "disk">>)
  <2> DEFINE ns == fat32_mount(nodes)
  <2>1. cwd' = cwd /\ fd_table' = fd_table
    BY <1>4 DEF vfs_mount
  <2>2. PICK mp \in Resolved(ns, <<"/", "disk">>) :
            nodes' = IF mp # NULL /\ ns[mp].type = DIR
                     THEN [ns EXCEPT ![mp].mount = fat_root, ![fat_root].parent = ns[mp].parent]
                     ELSE ns
    BY <1>4 DEF vfs_mount
  <2>3. mp # NULL => mp \in Live \ {root, fat_root} /\ nodes[mp].parent = root /\ nodes[mp].children = <<>>
    BY <1>1, <2>2, MountPointIs
  <2>4. /\ DOMAIN ns = Live \union {fat_root}
        /\ \A n \in Live : ns[n] = nodes[n]
        /\ ns[fat_root] = NewNode("/", DIR, fat_root)
    BY <1>1 DEF fat32_mount, Live
  <2> HIDE DEF ns
  <2>5. \A n \in Live : n # fat_root /\ DOMAIN nodes[n] = Fields
    BY <1>1, LiveNodes
  <2>6. /\ DOMAIN NewNode("/", DIR, fat_root) = Fields
        /\ NewNode("/", DIR, fat_root).name = "/" /\ NewNode("/", DIR, fat_root).type = DIR
        /\ NewNode("/", DIR, fat_root).children = <<>> /\ NewNode("/", DIR, fat_root).mount = NULL
        /\ NewNode("/", DIR, fat_root).parent = fat_root
    BY DEF NewNode, Fields
  <2>7. /\ Live' = Live \union {fat_root}
        /\ \A m \in Live : /\ DOMAIN nodes'[m] = DOMAIN nodes[m]
                           /\ nodes'[m].name = nodes[m].name /\ nodes'[m].parent = nodes[m].parent
                           /\ nodes'[m].type = nodes[m].type /\ nodes'[m].size = nodes[m].size
                           /\ nodes'[m].isize = nodes[m].isize /\ nodes'[m].data = nodes[m].data
                           /\ nodes'[m].children = nodes[m].children
                           /\ \/ nodes'[m].mount = NULL
                              \/ nodes'[m].mount = fat_root /\ nodes[m].children = <<>> /\ m # root
        /\ nodes'[fat_root].name = "/" /\ nodes'[fat_root].type = DIR
        /\ nodes'[fat_root].children = <<>> /\ nodes'[fat_root].mount = NULL
        /\ nodes'[fat_root].parent \in {root, fat_root}
    <3>1. CASE mp # NULL /\ ns[mp].type = DIR
      <4>1. /\ mp \in Live \ {root, fat_root} /\ nodes[mp].parent = root /\ nodes[mp].children = <<>>
            /\ mp # fat_root
        BY <3>1, <2>3
      <4> DEFINE a == [nodes[mp] EXCEPT !.mount = fat_root]
                 b == [NewNode("/", DIR, fat_root) EXCEPT !.parent = root]
      <4>2. nodes' = [ns EXCEPT ![mp].mount = fat_root, ![fat_root].parent = root]
        BY <2>2, <2>4, <3>1, <4>1
      <4>3. DOMAIN nodes' = Live \union {fat_root} /\ nodes'[mp] = a /\ nodes'[fat_root] = b
            /\ \A m \in Live \ {mp} : nodes'[m] = nodes[m]
        BY <4>1, <4>2, <2>4, <2>5
      <4>4. /\ DOMAIN a = DOMAIN nodes[mp] /\ a.mount = fat_root
            /\ a.name = nodes[mp].name /\ a.parent = nodes[mp].parent
            /\ a.type = nodes[mp].type /\ a.size = nodes[mp].size
            /\ a.isize = nodes[mp].isize /\ a.data = nodes[mp].data
            /\ a.children = nodes[mp].children
        BY <4>1, <2>5 DEF Fields
      <4>5. b.name = "/" /\ b.type = DIR /\ b.children = <<>> /\ b.mount = NULL /\ b.parent = root
        BY <2>6 DEF Fields
      <4> HIDE DEF a, b
      <4> QED  BY <4>1, <4>3, <4>4, <4>5, <1>1 DEF Live
    <3>2. CASE ~ (mp # NULL /\ ns[mp].type = DIR)
      <4>1. nodes' = ns
        BY <2>2, <3>2
      <4> QED  BY <4>1, <2>4, <2>6, <1>1 DEF Live
    <3> QED  BY <3>1, <3>2
  <2>8. /\ DOMAIN Own(nodes) = Live /\ DOMAIN Own(nodes') = Live
        /\ \A m \in Live : Own(nodes)[m] = nodes[m] /\ Own(nodes')[m] = nodes'[m]
    <3>1. DOMAIN nodes' \ {fat_root} = Live /\ DOMAIN nodes \ {fat_root} = Live
      BY <2>7, <1>1 DEF Live
    <3> QED  BY <3>1, OwnIs
  <2>9. SameShape(Own(nodes), Own(nodes'))
    BY <2>7, <2>8 DEF SameShape
  <2>10. AllSound(Own(nodes'))
    <3>1. \A m \in Live : IsSound(nodes[m])
      BY <1>1, LiveNodes
    <3>2. \A m \in Live : IsSound(nodes'[m])
      BY <3>1, <2>7 DEF IsSound
    <3> QED  BY <3>2, <2>8 DEF AllSound
  <2>11. OwnIsSound(Own(nodes'))
    BY <2>9, <2>10, <1>1, ShapeStaysSound DEF TreeInv
  <2>12. Live' \subseteq Node \union {fat_root}
    BY <2>7, <1>1 DEF TreeInv, VolumeIsEmpty
  <2>13. VolumeIsEmpty'
    BY <2>7, <2>12 DEF VolumeIsEmpty
  <2>14. MountsAreLeaves'
    BY <2>1, <2>7, <1>1, LiveNodes DEF MountsAreLeaves
  <2>15. Kept'
    <3>1. \A m \in Live' \ {fat_root} : m \in Live
      BY <2>7
    <3>2. wrote' \in [Node -> Seq(Bytes)]
      BY <1>1, <1>2 DEF Kept
    <3> QED  BY <3>1, <3>2, <2>7, <2>12, <1>1, <1>2, KeptStays
  <2> QED  BY <1>1, <1>2, <2>1, <2>11, <2>13, <2>14, <2>15, BackAtThePrompt DEF TreeInv
<1> QED  BY <1>3, <1>4 DEF Mount

LEMMA RmStep == ASSUME ShellInv, NEW arg \in Args, Rm(arg)  PROVE ShellInv'
<1>1. TreeInv /\ Kept /\ ~ Dangling /\ pc = "prompt" /\ fd_table = [f \in {} |-> NULL] /\ shown = <<>>
  BY DEF ShellInv, Rm, AtPrompt, Session
<1> DEFINE path == make_path(arg)
<1>2. GoodPath(path)
  BY <1>1, PathsAreGood
<1>3. /\ pc' = "prompt" /\ shown' = <<>> /\ cwd' = cwd /\ fd_table' = fd_table
      /\ wrote' = [n \in Node |-> IF n \in DOMAIN nodes' THEN wrote[n] ELSE <<>>]
  BY <1>1 DEF Rm, locals, vfs_unlink
<1>4. PICK n \in Resolved(nodes, path) \ {NULL, root} : ramfs_unlink(nodes[n].parent, n)
  BY DEF Rm, vfs_unlink
<1>5. Usable(n)
  <2> HIDE DEF path
  <2> QED  BY <1>1, <1>2, <1>4, PathsLead
<1>6. CanUnlink(nodes, n) /\ nodes' = Unlinked(nodes, nodes[n].parent, n)
  BY <1>4 DEF ramfs_unlink
<1>7. /\ TreeInv' /\ Live' = Live \ {n}
      /\ \A m \in Live' : /\ nodes'[m].type = nodes[m].type /\ nodes'[m].size = nodes[m].size
                          /\ nodes'[m].isize = nodes[m].isize /\ nodes'[m].data = nodes[m].data
  BY <1>1, <1>3, <1>4, <1>5, <1>6, UnlinkKeepsTree
<1>8. Kept'
  <2>1. Live' \subseteq Node \union {fat_root} /\ wrote \in [Node -> Seq(Bytes)]
    BY <1>1, <1>7 DEF TreeInv, VolumeIsEmpty, Kept
  <2>2. wrote' \in [Node -> Seq(Bytes)]
    <3>1. <<>> \in Seq(Bytes)
      OBVIOUS
    <3> QED  BY <3>1, <1>3, <2>1
  <2>3. \A m \in Live' \ {fat_root} : m \in Live /\ wrote'[m] = wrote[m]
    BY <1>3, <1>7, <2>1 DEF Live
  <2> QED  BY <1>1, <1>7, <2>1, <2>2, <2>3, KeptStays
<1> QED  BY <1>1, <1>3, <1>7, <1>8, BackAtThePrompt

LEMMA ChdirStep ==
    ASSUME ShellInv, AtPrompt, NEW path, GoodPath(path), vfs_chdir(path), UNCHANGED <<locals, wrote>>
    PROVE  ShellInv'
<1>1. TreeInv /\ Kept /\ ~ Dangling /\ pc = "prompt" /\ fd_table = [f \in {} |-> NULL] /\ shown = <<>>
  BY DEF ShellInv, AtPrompt, Session
<1>2. pc' = "prompt" /\ shown' = <<>> /\ wrote' = wrote /\ nodes' = nodes /\ fd_table' = fd_table
  BY <1>1 DEF locals, vfs_chdir, ramfs
<1>3. Usable(cwd')
  BY <1>1, PathsLead DEF vfs_chdir
<1>4. TreeInv' /\ Live' = Live
  BY <1>1, <1>2, <1>3, TreeStays
<1>5. Kept'
  BY <1>1, <1>2, <1>4 DEF Kept
<1> QED  BY <1>1, <1>2, <1>4, <1>5, BackAtThePrompt

LEMMA CdStep == ASSUME ShellInv, NEW arg \in Args, Cd(arg)  PROVE ShellInv'
<1>1. GoodPath(make_path(arg))
  BY PathsAreGood DEF ShellInv, Cd, AtPrompt
<1> QED  BY <1>1, ChdirStep DEF Cd

LEMMA CdRootStep == ASSUME ShellInv, CdRoot  PROVE ShellInv'
<1>1. GoodPath(<<"/">>)
  BY PathsAreGood DEF ShellInv, CdRoot, AtPrompt
<1> QED  BY <1>1, ChdirStep DEF CdRoot

\* With no file open there is a descriptor to be had.
LEMMA DescriptorsAreLeft ==
    ASSUME fd_table = [f \in {} |-> NULL]
    PROVE  alloc_fd \in FirstFd .. VFS_MAX_FDS - 1 /\ alloc_fd # -1
<1>1. FirstFd \in Nat /\ VFS_MAX_FDS \in Nat /\ FirstFd < VFS_MAX_FDS
  BY VfsAssumption
<1>2. Unused = FirstFd .. VFS_MAX_FDS - 1
  BY DEF Unused
<1>3. Unused # {} /\ Unused \subseteq Nat
  <2>1. FirstFd \in Unused
    BY <1>1, <1>2
  <2>2. \A i \in Unused : i \in Nat
    BY <1>1, <1>2
  <2> QED  BY <2>1, <2>2
<1>4. PICK i \in Unused : \A j \in Unused : i <= j
  BY <1>3, NatHasMin
<1>5. alloc_fd \in Unused
  BY <1>3, <1>4 DEF alloc_fd
<1> QED  BY <1>1, <1>2, <1>3, <1>5

\* The file has been opened at the place that the command works from.
LEMMA OpenedIs ==
    ASSUME NEW n, NEW offset, fd_table' = [f \in {fd'} |-> [node |-> n, offset |-> offset]],
           fd' # -1, offset \in Nat, n \in Live' \ {fat_root}, nodes'[n].type = FILE,
           cmd' \in {"cat", "write", "append"}, pc' = "opened", text' \in Seq(Bytes), ~ Dangling',
           TreeInv', Kept', shown' = <<>>,
           cmd' = "cat" => offset = 0,
           cmd' # "cat" => offset = Len(wrote'[n])
    PROVE  ShellInv'
<1>1. Booting' /\ Session'
  BY DEF Booting, Session
<1>2. /\ DOMAIN fd_table' = {fd'}
      /\ DOMAIN fd_table'[fd'] = {"node", "offset"}
      /\ fd_table'[fd'].node = n /\ fd_table'[fd'].offset = offset
  OBVIOUS
<1>3. OpenFile'
  BY <1>2 DEF OpenFile
<1>4. nodes'[n].isize \in Nat
  <2>1. OwnIsSound(Own(nodes')) /\ n \in DOMAIN nodes' \ {fat_root}
    BY DEF TreeInv, Live
  <2>2. IsSound(nodes'[n])
    BY <2>1, OwnIs DEF OwnIsSound, AllSound
  <2> QED  BY <2>2 DEF IsSound
<1>5. Progress'
  <2>1. <<>> \in Seq(Bytes \union {ZERO}) /\ Len(<<>>) = 0
    OBVIOUS
  <2>2. cmd' = "cat" => /\ offset <= nodes'[n].isize
                        /\ shown' \in Seq(Bytes \union {ZERO}) /\ Len(shown') = offset
                        /\ \A i \in 1 .. offset : shown'[i] = nodes'[n].data[i]
    BY <1>4, <2>1
  <2> QED  BY <1>2, <2>2 DEF Progress
<1> QED  BY <1>1, <1>3, <1>5 DEF ShellInv

LEMMA OpenStep ==
    ASSUME ShellInv, NEW arg \in Args, NEW command \in {"cat", "write", "append"},
           NEW payload \in Seq(Bytes), Open(command, arg, payload)
    PROVE  ShellInv'
<1> DEFINE path == make_path(arg)
           flags == Flags(command)
<1>1. TreeInv /\ Kept /\ ~ Dangling /\ pc = "prompt" /\ fd_table = [f \in {} |-> NULL] /\ shown = <<>>
  BY DEF ShellInv, Open, AtPrompt, Session
<1>2. GoodPath(path)
  BY <1>1, PathsAreGood
<1>3. /\ pc' = "opened" /\ cmd' = command /\ text' = payload /\ shown' = <<>> /\ cwd' = cwd
      /\ wrote' = IF fd' = -1 THEN wrote
                ELSE LET n == fd_table'[fd'].node
                     IN  IF command = "write" \/ n \notin Live
                         THEN [wrote EXCEPT ![n] = <<>>]
                         ELSE wrote
  BY <1>1 DEF Open, vfs_open
<1>4. /\ command = "cat" => "TRUNC" \notin flags /\ "APPEND" \notin flags
      /\ command = "write" => "TRUNC" \in flags
      /\ command = "append" => "TRUNC" \notin flags /\ "APPEND" \in flags
  <2>1. command = "cat" => flags = {"READ"}
    BY DEF Flags
  <2>2. command = "write" => flags = {"WRITE", "CREATE", "TRUNC"}
    BY DEF Flags
  <2>3. command = "append" => flags = {"WRITE", "CREATE", "APPEND"}
    BY DEF Flags
  <2> HIDE DEF flags
  <2> QED  BY <2>1, <2>2, <2>3
<1>5. alloc_fd # -1
  BY <1>1, DescriptorsAreLeft
<1>6. wrote \in [Node -> Seq(Bytes)] /\ <<>> \in Seq(Bytes) /\ Live \subseteq Node \union {fat_root}
  BY <1>1 DEF Kept, TreeInv, VolumeIsEmpty
<1>7. PICK n \in Resolved(nodes, path), dir \in resolve_parent(nodes, path) :
        LET name == NameIn(path)
            creates == n = NULL /\ "CREATE" \in flags /\ CanCreateIn(dir, name)
        IN  \/ /\ creates
               /\ \E m \in Node \ Live :
                    OpenNode(Created(nodes, dir, name, FILE, m), m, flags)
            \/ /\ n # NULL
               /\ nodes[n].type = FILE
               /\ OpenNode(nodes, n, flags)
            \/ nodes' = nodes /\ fd' = -1 /\ fd_table' = fd_table
  BY DEF Open, vfs_open, ramfs
<1> DEFINE name == NameIn(path)
<1> HIDE DEF path, flags
\* Nothing was opened.
<1>8. ASSUME nodes' = nodes, fd' = -1, fd_table' = fd_table  PROVE ShellInv'
  <2>1. TreeInv' /\ Live' = Live /\ ~ Dangling'
    BY <1>1, <1>3, <1>8, TreeStays
  <2>2. Kept'
    BY <1>1, <1>3, <1>8, <2>1 DEF Kept
  <2>3. Booting' /\ Session' /\ OpenFile' /\ Progress'
    BY <1>1, <1>3, <1>8, <2>1 DEF Booting, Session, OpenFile, Progress
  <2> QED  BY <2>1, <2>2, <2>3 DEF ShellInv
\* A file that was there.
<1>9. ASSUME n # NULL, nodes[n].type = FILE, OpenNode(nodes, n, flags)  PROVE ShellInv'
  <2>1. Usable(n)
    BY <1>1, <1>2, <1>9, PathsLead
  <2>2. n \in Live \ {fat_root} /\ n \in Node
    <3>1. fat_root \in Live => nodes[fat_root].type = DIR
      BY <1>1 DEF TreeInv, VolumeIsEmpty
    <3>2. FILE # DIR
      BY DEF FILE, DIR
    <3> QED  BY <2>1, <3>1, <3>2, <1>6, <1>9 DEF Usable
  <2> DEFINE offset == IF "APPEND" \in flags /\ "TRUNC" \notin flags THEN nodes[n].size ELSE 0
  <2>3. /\ fd' = alloc_fd /\ fd' # -1
        /\ nodes' = IF "TRUNC" \in flags THEN [nodes EXCEPT ![n].size = 0] ELSE nodes
        /\ fd_table' = [f \in {fd'} |-> [node |-> n, offset |-> offset]]
    <3>1. /\ fd' = alloc_fd
          /\ nodes' = IF "TRUNC" \in flags THEN [nodes EXCEPT ![n].size = 0] ELSE nodes
          /\ fd_table' = [f \in DOMAIN fd_table \union {alloc_fd} |->
                            IF f = alloc_fd THEN [node |-> n, offset |-> offset] ELSE fd_table[f]]
      BY <1>5, <1>9 DEF OpenNode
    <3>2. DOMAIN fd_table \union {alloc_fd} = {fd'}
      BY <1>1, <3>1
    <3> HIDE DEF offset
    <3> QED  BY <1>5, <3>1, <3>2
  <2>4. fd_table'[fd'].node = n
    BY <2>3
  <2>5. Holds(nodes[n], wrote[n]) /\ wrote[n] \in Seq(Bytes)
    BY <1>1, <1>6, <2>2 DEF Kept
  <2>6. CASE "TRUNC" \in flags
    <3>1. command = "write" /\ offset = 0
      BY <2>6, <1>4
    <3>2. wrote' = [wrote EXCEPT ![n] = <<>>] /\ wrote' \in [Node -> Seq(Bytes)] /\ wrote'[n] = <<>>
      BY <1>3, <1>6, <2>2, <2>3, <2>4, <3>1
    <3>3. /\ Alike(nodes, nodes', n) /\ nodes'[n].size = 0
          /\ nodes'[n].isize = nodes[n].isize /\ nodes'[n].data = nodes[n].data
      <4>1. nodes' = [nodes EXCEPT ![n].size = 0] /\ DOMAIN nodes[n] = Fields
        BY <1>1, <2>2, <2>3, <2>6, LiveNodes
      <4>2. /\ DOMAIN nodes' = DOMAIN nodes /\ \A m \in DOMAIN nodes \ {n} : nodes'[m] = nodes[m]
            /\ nodes'[n] = [nodes[n] EXCEPT !.size = 0]
        BY <4>1, <2>2 DEF Live
      <4>3. /\ DOMAIN nodes'[n] = Fields /\ nodes'[n].size = 0
            /\ nodes'[n].name = nodes[n].name /\ nodes'[n].type = nodes[n].type
            /\ nodes'[n].parent = nodes[n].parent /\ nodes'[n].mount = nodes[n].mount
            /\ nodes'[n].children = nodes[n].children
            /\ nodes'[n].isize = nodes[n].isize /\ nodes'[n].data = nodes[n].data
        BY <4>1, <4>2 DEF Fields
      <4> QED  BY <4>2, <4>3 DEF Alike
    <3>4. IsSound(nodes'[n])
      <4>1. IsSound(nodes[n])
        BY <1>1, <2>2, LiveNodes
      <4> QED  BY <4>1, <3>3 DEF IsSound, Alike
    <3>5. TreeInv' /\ Live' = Live /\ ~ Dangling'
      BY <1>1, <1>3, <2>2, <3>3, <3>4, AlikeKeepsTree
    <3>6. Holds(nodes'[n], wrote'[n])
      <4>1. nodes'[n].isize \in Nat /\ Len(<<>>) = 0
        BY <3>4 DEF IsSound
      <4> QED  BY <4>1, <3>2, <3>3 DEF Holds
    <3>7. Kept'
      <4>1. \A m \in Live' \ {fat_root, n} : m \in Live /\ m \in Node /\ wrote'[m] = wrote[m] /\ nodes'[m] = nodes[m]
        BY <1>6, <2>2, <3>2, <3>3, <3>5 DEF Alike, Live
      <4> QED  BY <1>1, <1>6, <3>2, <3>5, <3>6, <4>1, KeptStays
    <3>8. nodes'[n].type = FILE
      BY <1>9, <3>3 DEF Alike
    <3>9. n \in Live' \ {fat_root} /\ Len(wrote'[n]) = 0 /\ offset \in Nat
      BY <2>2, <3>1, <3>2, <3>5
    <3> HIDE DEF offset
    <3> QED  BY <1>3, <2>3, <3>1, <3>5, <3>7, <3>8, <3>9, OpenedIs
  <2>7. CASE "TRUNC" \notin flags
    <3>1. command # "write" /\ nodes' = nodes
      BY <2>3, <2>7, <1>4
    <3>2. wrote' = wrote
      BY <1>3, <2>2, <2>3, <2>4, <3>1
    <3>3. TreeInv' /\ Live' = Live /\ ~ Dangling'
      BY <1>1, <1>3, <3>1, TreeStays
    <3>4. Kept'
      BY <1>1, <3>1, <3>2, <3>3 DEF Kept
    <3>5. command = "cat" => offset = 0
      BY <1>4
    <3>6. command # "cat" => offset = Len(wrote[n])
      BY <1>4, <1>9, <2>5, <2>7, <3>1 DEF Holds
    <3>7. offset \in Nat
      BY <2>5, <3>5, <3>6
    <3> HIDE DEF offset
    <3> QED  BY <1>3, <1>9, <2>2, <2>3, <3>1, <3>2, <3>3, <3>4, <3>5, <3>6, <3>7, OpenedIs
  <2> QED  BY <2>6, <2>7
\* A new file.
<1>10. ASSUME n = NULL, CanCreateIn(dir, name), NEW m \in Node \ Live,
              OpenNode(Created(nodes, dir, name, FILE, m), m, flags)
       PROVE  ShellInv'
  <2> DEFINE ns == Created(nodes, dir, name, FILE, m)
             r == NewNode(name, FILE, dir)
             offset == IF "APPEND" \in flags /\ "TRUNC" \notin flags THEN ns[m].size ELSE 0
  <2>1. Usable(dir) /\ name \in Token \ {"/", ".", ".."}
    BY <1>1, <1>2, <1>7, <1>10, PathsLead DEF CanCreateIn
  <2>2. m \in DOMAIN ns /\ ns[m] = r /\ r.size = 0 /\ [r EXCEPT !.size = 0] = r /\ ns = [k \in DOMAIN ns |-> ns[k]]
    <3>1. m \in DOMAIN ns /\ ns[m] = r /\ ns = [k \in DOMAIN ns |-> ns[k]]
      BY DEF Created
    <3>2. r.size = 0 /\ [r EXCEPT !.size = 0] = r
      BY DEF NewNode
    <3> QED  BY <3>1, <3>2
  <2>3. [ns EXCEPT ![m].size = 0] = ns
    <3>1. [ns EXCEPT ![m].size = 0] = [ns EXCEPT ![m] = [ns[m] EXCEPT !.size = 0]]
      OBVIOUS
    <3> HIDE DEF ns, r
    <3> QED  BY <2>2, <3>1
  <2>4. offset = 0
    BY <2>2
  <2>5. /\ fd' = alloc_fd /\ fd' # -1 /\ nodes' = ns
        /\ fd_table' = [f \in {fd'} |-> [node |-> m, offset |-> 0]]
    <3>1. /\ fd' = alloc_fd
          /\ nodes' = IF "TRUNC" \in flags THEN [ns EXCEPT ![m].size = 0] ELSE ns
          /\ fd_table' = [f \in DOMAIN fd_table \union {alloc_fd} |->
                            IF f = alloc_fd THEN [node |-> m, offset |-> offset] ELSE fd_table[f]]
      BY <1>5, <1>10 DEF OpenNode
    <3>2. DOMAIN fd_table \union {alloc_fd} = {fd'}
      BY <1>1, <3>1
    <3> HIDE DEF ns, offset
    <3> QED  BY <1>5, <2>3, <2>4, <3>1, <3>2
  <2>6. FILE \in {FILE, DIR}
    OBVIOUS
  <2>7. /\ TreeInv' /\ Live' = Live \union {m} /\ m # fat_root /\ ~ Dangling' /\ nodes'[m] = r
        /\ \A k \in Live : /\ nodes'[k].type = nodes[k].type /\ nodes'[k].size = nodes[k].size
                           /\ nodes'[k].isize = nodes[k].isize /\ nodes'[k].data = nodes[k].data
    <3> HIDE DEF name
    <3> QED  BY <1>1, <1>3, <1>10, <2>1, <2>5, <2>6, CreateKeepsTree
  <2>8. wrote' = [wrote EXCEPT ![m] = <<>>] /\ wrote' \in [Node -> Seq(Bytes)] /\ wrote'[m] = <<>>
    <3>1. fd_table'[fd'].node = m
      BY <2>5
    <3> QED  BY <3>1, <1>3, <1>6, <2>5
  <2>9. r.type = FILE /\ r.isize = 0
    BY DEF NewNode
  <2> HIDE DEF r, ns
  <2>10. Holds(nodes'[m], wrote'[m])
    <3>1. Len(<<>>) = 0
      OBVIOUS
    <3> QED  BY <3>1, <2>2, <2>7, <2>8, <2>9 DEF Holds
  <2>11. Kept'
    <3>1. Live' \subseteq Node \union {fat_root}
      BY <1>6, <2>7
    <3>2. \A k \in Live' \ {fat_root, m} : k \in Live /\ wrote'[k] = wrote[k]
      BY <1>6, <2>7, <2>8
    <3> QED  BY <1>1, <2>7, <2>8, <2>10, <3>1, <3>2, KeptStays
  <2>12. m \in Live' \ {fat_root} /\ nodes'[m].type = FILE /\ Len(wrote'[m]) = 0 /\ 0 \in Nat
    BY <2>7, <2>8, <2>9
  <2> QED  BY <1>3, <2>5, <2>7, <2>11, <2>12, OpenedIs
<1> QED  BY <1>7, <1>8, <1>9, <1>10

LEMMA OpenFailedStep == ASSUME ShellInv, OpenFailed  PROVE ShellInv'
<1>1. TreeInv /\ Kept /\ fd_table = [f \in {} |-> NULL]
  BY DEF ShellInv, OpenFailed, Session
<1>2. /\ pc' = "prompt" /\ shown' = <<>> /\ wrote' = wrote /\ nodes' = nodes /\ cwd' = cwd
      /\ fd_table' = fd_table
  BY DEF OpenFailed, Reset, vfs, ramfs
<1>3. TreeInv' /\ Live' = Live
  BY <1>1, <1>2, TreeStays
<1>4. Kept'
  BY <1>1, <1>2, <1>3 DEF Kept
<1> QED  BY <1>1, <1>2, <1>3, <1>4, BackAtThePrompt

\* A write, or one that fails, leaves the writer behind what it wrote.
LEMMA WriteCallStep ==
    ASSUME ShellInv, pc \in {"opened", "newline"}, fd # -1, cmd # "cat", NEW bytes \in Seq(Bytes),
           WriteCall(bytes), pc' \in {"newline", "close"}, UNCHANGED <<cmd, text, shown>>
    PROVE  ShellInv'
<1> DEFINE n == fd_table[fd].node
           off == fd_table[fd].offset
           after == off + Len(bytes)
<1>1. /\ TreeInv /\ Kept /\ ~ Dangling /\ Session /\ OpenFile /\ Progress
      /\ pc \in {"opened", "newline", "close"}
  BY DEF ShellInv, Session
<1>2. /\ DOMAIN fd_table = {fd} /\ DOMAIN fd_table[fd] = {"node", "offset"}
      /\ n \in Live \ {fat_root} /\ nodes[n].type = FILE /\ off \in Nat /\ off = Len(wrote[n])
      /\ cmd \in {"write", "append"} /\ text \in Seq(Bytes)
  BY <1>1 DEF OpenFile, Progress, Session
<1>3. Live \subseteq Node \union {fat_root} /\ wrote \in [Node -> Seq(Bytes)] /\ Holds(nodes[n], wrote[n])
  BY <1>1, <1>2 DEF TreeInv, VolumeIsEmpty, Kept
<1> HIDE DEF n, off
<1>4. CASE UNCHANGED <<vfs, wrote>>
  <2>1. nodes' = nodes /\ cwd' = cwd /\ fd_table' = fd_table /\ fd' = fd /\ wrote' = wrote
    BY <1>4 DEF vfs, ramfs
  <2>2. TreeInv' /\ Live' = Live /\ ~ Dangling'
    BY <1>1, <2>1, TreeStays
  <2>3. Kept'
    BY <1>1, <2>1, <2>2 DEF Kept
  <2>4. Booting' /\ Session' /\ OpenFile' /\ Progress'
    BY <1>2, <2>1, <2>2 DEF Booting, Session, OpenFile, Progress, n, off
  <2> QED  BY <2>2, <2>3, <2>4 DEF ShellInv
<1>5. CASE vfs_write(fd, bytes) /\ wrote' = [wrote EXCEPT ![fd_table[fd].node] = @ \o bytes]
  <2>1. PICK ns : /\ ns = Written(nodes, n, off, bytes)
                  /\ off + Len(bytes) <= RAMFS_MAX_FILESIZE
                  /\ nodes' = [ns EXCEPT ![n].size = IF after > @ THEN after ELSE @]
                  /\ fd_table' = [fd_table EXCEPT ![fd].offset = after]
                  /\ cwd' = cwd /\ fd' = fd
    BY <1>5 DEF vfs_write, CanWrite, n, off
  <2>2. /\ wrote' = [wrote EXCEPT ![n] = wrote[n] \o bytes] /\ n \in Node
    BY <1>2, <1>3, <1>5 DEF n
  <2> HIDE DEF after
  <2>3. Alike(nodes, nodes', n) /\ IsSound(nodes'[n]) /\ Holds(nodes'[n], wrote[n] \o bytes)
    <3>1. wrote[n] \in Seq(Bytes)
      BY <1>3, <2>2
    <3>2. after = off + Len(bytes)
      BY DEF after
    <3> QED  BY <1>1, <1>2, <1>3, <2>1, <3>1, <3>2, WriteAppends
  <2>4. wrote[n] \in Seq(Bytes) /\ wrote[n] \o bytes \in Seq(Bytes) /\ Len(wrote[n] \o bytes) = after /\ after \in Nat
    <3>1. wrote[n] \in Seq(Bytes)
      BY <1>3, <2>2
    <3> QED  BY <3>1, <1>2 DEF after
  <2>5. wrote' \in [Node -> Seq(Bytes)] /\ wrote'[n] = wrote[n] \o bytes /\ \A m \in Node \ {n} : wrote'[m] = wrote[m]
    BY <1>3, <2>2, <2>4
  <2>6. TreeInv' /\ Live' = Live /\ ~ Dangling'
    BY <1>1, <1>2, <2>1, <2>3, AlikeKeepsTree
  <2>7. Kept'
    <3>1. \A m \in Live' \ {fat_root, n} : m \in Live /\ m \in Node /\ nodes'[m] = nodes[m]
      BY <1>3, <2>3, <2>6 DEF Alike, Live
    <3> QED  BY <1>1, <1>3, <2>3, <2>5, <2>6, <3>1, KeptStays
  <2>8. /\ DOMAIN fd_table' = {fd'} /\ DOMAIN fd_table'[fd'] = {"node", "offset"}
        /\ fd_table'[fd'].node = n /\ fd_table'[fd'].offset = after
    <3>1. fd_table'[fd] = [fd_table[fd] EXCEPT !.offset = after] /\ DOMAIN fd_table' = {fd} /\ fd' = fd
      BY <1>2, <2>1
    <3> QED  BY <3>1, <1>2 DEF n
  <2>9. nodes'[n].type = FILE /\ n \in Live' \ {fat_root}
    BY <1>2, <2>3, <2>6 DEF Alike
  <2>10. Booting' /\ Session'
    BY <1>2, <2>1, <2>6 DEF Booting, Session
  <2>11. OpenFile'
    BY <2>4, <2>8, <2>9 DEF OpenFile
  <2>12. Progress'
    BY <1>2, <2>4, <2>5, <2>8 DEF Progress
  <2> QED  BY <2>6, <2>7, <2>10, <2>11, <2>12 DEF ShellInv
<1> QED  BY <1>4, <1>5 DEF WriteCall

LEMMA WriteTextStep == ASSUME ShellInv, WriteText  PROVE ShellInv'
<1>1. pc = "opened" /\ fd # -1 /\ cmd # "cat" /\ WriteCall(text) /\ pc' = "newline" /\ UNCHANGED <<cmd, text, shown>>
  BY DEF WriteText
<1>2. text \in Seq(Bytes)
  BY <1>1 DEF ShellInv, Session
<1> QED  BY <1>1, <1>2, WriteCallStep

LEMMA WriteNewlineStep == ASSUME ShellInv, WriteNewline  PROVE ShellInv'
<1>1. pc = "newline" /\ WriteCall(<<NL>>) /\ pc' = "close" /\ UNCHANGED <<cmd, text, shown>>
  BY DEF WriteNewline
<1>2. fd # -1 /\ cmd # "cat"
  BY <1>1 DEF ShellInv, Session
<1>3. <<NL>> \in Seq(Bytes)
  <2>1. NL \in Bytes
    BY ShellAssumption
  <2> QED  BY <2>1
<1> QED  BY <1>1, <1>2, <1>3, WriteCallStep

LEMMA ReadStep == ASSUME ShellInv, Read  PROVE ShellInv'
<1> DEFINE n == fd_table[fd].node
           off == fd_table[fd].offset
           got == ReadResult(fd, READ_LEN)
<1>1. /\ TreeInv /\ Kept /\ ~ Dangling /\ Session /\ OpenFile /\ Progress
      /\ pc = "opened" /\ fd # -1 /\ cmd = "cat"
  BY DEF ShellInv, Session, Read
<1>2. /\ DOMAIN fd_table = {fd} /\ DOMAIN fd_table[fd] = {"node", "offset"}
      /\ n \in Live \ {fat_root} /\ nodes[n].type = FILE /\ off \in Nat /\ text \in Seq(Bytes)
      /\ off <= nodes[n].isize
      /\ shown \in Seq(Bytes \union {ZERO}) /\ Len(shown) = off
      /\ \A i \in 1 .. off : shown[i] = nodes[n].data[i]
  BY <1>1 DEF OpenFile, Progress, Session
<1>3. /\ nodes' = nodes /\ cwd' = cwd /\ fd' = fd /\ wrote' = wrote /\ cmd' = cmd /\ text' = text
      /\ fd_table' = [fd_table EXCEPT ![fd].offset = @ + Len(got)]
      /\ shown' = shown \o got
      /\ pc' = IF got = <<>> THEN "close" ELSE "opened"
  BY DEF Read, vfs_read, ramfs
<1>4. /\ DOMAIN fd_table' = {fd'} /\ DOMAIN fd_table'[fd'] = {"node", "offset"}
      /\ fd_table'[fd'].node = n /\ fd_table'[fd'].offset = off + Len(got)
  <2>1. fd_table' = [fd_table EXCEPT ![fd] = [fd_table[fd] EXCEPT !.offset = off + Len(got)]]
    BY <1>3
  <2> HIDE DEF got, off
  <2>2. fd_table'[fd] = [fd_table[fd] EXCEPT !.offset = off + Len(got)] /\ DOMAIN fd_table' = {fd} /\ fd' = fd
    BY <1>2, <1>3, <2>1
  <2> QED  BY <2>2, <1>2
<1>5. nodes[n].isize \in Nat /\ nodes[n].data \in Seq(Bytes \union {ZERO}) /\ nodes[n].isize <= Len(nodes[n].data)
  BY <1>1, <1>2, LiveNodes DEF IsSound
<1> DEFINE size == nodes[n].isize
           data == nodes[n].data
           avail == size - off
           take == IF READ_LEN < avail THEN READ_LEN ELSE avail
<1>6. got = IF off >= size THEN <<>> ELSE SubSeq(data, off + 1, off + take)
  BY DEF ReadResult, ramfs_read
<1>7. READ_LEN \in Nat \ {0}
  BY ShellAssumption
<1>8. /\ got \in Seq(Bytes \union {ZERO}) /\ Len(got) \in Nat /\ off + Len(got) <= size
      /\ \A i \in 1 .. Len(got) : got[i] = data[off + i]
      /\ got = <<>> => off + Len(got) = size
  <2> HIDE DEF got
  <2>1. CASE off >= size
    <3>1. got = <<>> /\ off = size
      BY <2>1, <1>2, <1>5, <1>6
    <3> HIDE DEF size, off, data
    <3> QED  BY <3>1, <1>2
  <2>2. CASE ~ (off >= size)
    <3> DEFINE len == Len(data)
    <3>1. len \in Nat /\ size \in Nat /\ off \in Nat /\ size <= len /\ off < size
      BY <2>2, <1>2, <1>5
    <3> HIDE DEF len, size, off
    <3>2. take \in Nat /\ take > 0 /\ off + take <= size
      BY <3>1, <1>7
    <3> HIDE DEF take
    <3>3. got = SubSeq(data, off + 1, off + take) /\ data \in Seq(Bytes \union {ZERO}) /\ Len(data) = len
      BY <2>2, <1>5, <1>6 DEF len, take
    <3> HIDE DEF data
    <3>4. got \in Seq(Bytes \union {ZERO}) /\ Len(got) = take
      BY <3>1, <3>2, <3>3
    <3>5. \A i \in 1 .. take : got[i] = data[off + i]
      BY <3>1, <3>2, <3>3
    <3>6. got # <<>>
      BY <3>2, <3>4
    <3> QED  BY <3>2, <3>4, <3>5, <3>6
  <2> QED  BY <2>1, <2>2
<1> HIDE DEF got
<1>9. /\ shown' \in Seq(Bytes \union {ZERO}) /\ Len(shown') = off + Len(got)
      /\ \A i \in 1 .. off + Len(got) : shown'[i] = data[i]
  <2> DEFINE k == Len(got)
             s == shown \o got
  <2>1. s \in Seq(Bytes \union {ZERO}) /\ Len(s) = off + k /\ k \in Nat
        /\ (\A i \in 1 .. off : s[i] = shown[i]) /\ (\A i \in 1 .. k : s[off + i] = got[i])
    <3> HIDE DEF off, data, n
    <3>1. shown \in Seq(Bytes \union {ZERO}) /\ got \in Seq(Bytes \union {ZERO}) /\ Len(shown) = off
      BY <1>2, <1>8
    <3> QED  BY <3>1
  <2> HIDE DEF s
  <2>2. ASSUME NEW i \in 1 .. off + k  PROVE s[i] = data[i]
    <3> HIDE DEF k
    <3>1. CASE i \in 1 .. off
      BY <3>1, <1>2, <2>1
    <3>2. CASE i \notin 1 .. off
      <4> DEFINE j == i - off
      <4> HIDE DEF off
      <4>1. j \in 1 .. k /\ off + j = i
        BY <3>2, <1>2, <2>1
      <4> HIDE DEF j
      <4>2. s[off + j] = got[j] /\ got[j] = data[off + j]
        BY <4>1, <2>1, <1>8 DEF k
      <4> QED  BY <4>1, <4>2
    <3> QED  BY <3>1, <3>2
  <2>3. shown' = s
    BY <1>3 DEF s
  <2> QED  BY <2>1, <2>2, <2>3
<1>10. TreeInv' /\ Live' = Live /\ ~ Dangling'
  BY <1>1, <1>3, TreeStays
<1>11. Kept'
  BY <1>1, <1>3, <1>10 DEF Kept
<1> HIDE DEF n, off
<1>12. pc' \in {"opened", "close"} /\ fd' # -1 /\ cmd' = "cat"
  BY <1>1, <1>3
<1>13. Booting' /\ Session'
  BY <1>2, <1>3, <1>10, <1>12 DEF Booting, Session
<1>14. OpenFile'
  <2>1. off + Len(got) \in Nat
    BY <1>2, <1>8
  <2> QED  BY <2>1, <1>2, <1>3, <1>4, <1>10 DEF OpenFile
<1>15. Progress'
  <2>1. pc' = "close" => off + Len(got) = nodes[n].isize
    BY <1>3, <1>8
  <2> QED  BY <2>1, <1>3, <1>4, <1>8, <1>9, <1>12 DEF Progress
<1> QED  BY <1>10, <1>11, <1>13, <1>14, <1>15 DEF ShellInv

LEMMA CloseStep == ASSUME ShellInv, Close  PROVE ShellInv'
<1>1. TreeInv /\ Kept /\ OpenFile /\ pc = "close" /\ fd # -1
  BY DEF ShellInv, Close, Session
<1>2. /\ pc' = "prompt" /\ shown' = <<>> /\ wrote' = wrote /\ nodes' = nodes /\ cwd' = cwd
      /\ fd_table' = [g \in DOMAIN fd_table \ {fd} |-> fd_table[g]]
  BY DEF Close, Reset, vfs_close, ramfs
<1>3. fd_table' = [f \in {} |-> NULL]
  <2>1. DOMAIN fd_table \ {fd} = {}
    BY <1>1 DEF OpenFile
  <2> QED  BY <2>1, <1>2
<1>4. TreeInv' /\ Live' = Live
  BY <1>1, <1>2, TreeStays
<1>5. Kept'
  BY <1>1, <1>2, <1>4 DEF Kept
<1> QED  BY <1>2, <1>3, <1>4, <1>5, BackAtThePrompt

LEMMA StutterStep == ASSUME ShellInv, UNCHANGED vars  PROVE ShellInv'
<1>1. /\ nodes' = nodes /\ cwd' = cwd /\ fd_table' = fd_table /\ fd' = fd /\ wrote' = wrote
      /\ pc' = pc /\ cmd' = cmd /\ text' = text /\ shown' = shown
  BY DEF vars, vfs, ramfs, locals
<1>2. TreeInv' /\ Live' = Live /\ (~ Dangling => ~ Dangling')
  BY <1>1, TreeStays DEF ShellInv
<1>3. Kept'
  BY <1>1, <1>2 DEF ShellInv, Kept
<1>4. Booting'
  BY <1>1, <1>2 DEF ShellInv, Booting
<1>5. Session'
  BY <1>1, <1>2 DEF ShellInv, Session
<1>6. OpenFile' /\ Progress'
  BY <1>1, <1>2 DEF ShellInv, OpenFile, Progress
<1> QED  BY <1>2, <1>3, <1>4, <1>5, <1>6 DEF ShellInv

LEMMA ShellStep == ShellInv /\ [Next]_vars => ShellInv'
<1> SUFFICES ASSUME ShellInv, [Next]_vars  PROVE ShellInv'
  OBVIOUS
<1>1. CASE shell_run
  BY <1>1, BootStep, MountStep, OpenFailedStep, WriteTextStep, WriteNewlineStep, ReadStep, CloseStep DEF shell_run
<1>2. CASE Command
  <2>1. CASE CdRoot
    BY <2>1, CdRootStep
  <2>2. ASSUME NEW arg \in Args, Mkdir(arg) \/ Rm(arg) \/ Cd(arg)  PROVE ShellInv'
    BY <2>2, MkdirStep, RmStep, CdStep
  <2>3. ASSUME NEW arg \in Args, Open("cat", arg, <<>>)  PROVE ShellInv'
    <3>1. <<>> \in Seq(Bytes) /\ "cat" \in {"cat", "write", "append"}
      OBVIOUS
    <3> QED  BY <2>3, <3>1, OpenStep
  <2>4. ASSUME NEW arg \in Args, NEW payload \in Payloads,
               Open("write", arg, payload) \/ Open("append", arg, payload)
        PROVE  ShellInv'
    <3>1. payload \in Seq(Bytes)
      BY RamfsAssumption
    <3>2. "write" \in {"cat", "write", "append"} /\ "append" \in {"cat", "write", "append"}
      OBVIOUS
    <3> QED  BY <2>4, <3>1, <3>2, OpenStep
  <2> QED  BY <1>2, <2>1, <2>2, <2>3, <2>4 DEF Command
<1>3. CASE Ended \/ UNCHANGED vars
  BY <1>3, StutterStep DEF Ended
<1> QED  BY <1>1, <1>2, <1>3 DEF Next

LEMMA ShellStart == Init => ShellInv
<1> SUFFICES ASSUME Init  PROVE ShellInv
  OBVIOUS
<1>1. /\ nodes = [n \in {root} |-> NewNode("/", DIR, root)]
      /\ fd_table = [f \in {} |-> NULL] /\ cwd = root /\ fd = -1
      /\ pc = "boot" /\ shown = <<>> /\ wrote = [n \in Node |-> <<>>]
  BY DEF Init, VfsInit, RamfsInit
<1> DEFINE r == NewNode("/", DIR, root)
<1>2. Live = {root} /\ nodes[root] = r /\ root # fat_root
  BY <1>1, FatRootIsNoNode DEF Live
<1>3. /\ DOMAIN r = Fields /\ r.name = "/" /\ r.type = DIR /\ r.parent = root /\ r.mount = NULL
      /\ r.children = <<>> /\ r.isize = 0
  BY DEF NewNode, Fields
<1>4. r.data = <<>>
  <2>1. DIR # FILE
    BY DEF FILE, DIR
  <2> QED  BY <2>1 DEF NewNode
<1> HIDE DEF r
<1>5. Own(nodes) = nodes
  <2>1. DOMAIN nodes \ {fat_root} = DOMAIN nodes
    BY <1>2 DEF Live
  <2> QED  BY <2>1, <1>1 DEF Own
<1>6. OwnIsSound(nodes)
  <2>1. RamfsInv /\ root \in Node
    <3>1. RamfsInit
      BY DEF Init, VfsInit
    <3> QED  BY <3>1, StartIsFs, RamfsAssumption
  <2>2. IsFs(nodes) /\ AllSound(nodes)
    BY <2>1 DEF RamfsInv
  <2>3. NamesAreNames(nodes)
    BY <1>2, <1>3 DEF NamesAreNames, Live
  <2>4. \E p : IsPaths(nodes, p)
    <3> DEFINE p == [n \in {root} |-> <<>>]
    <3>1. <<>> \in Seq(Token)
      OBVIOUS
    <3>2. IsPaths(nodes, p)
      BY <3>1, <1>2 DEF IsPaths, Live
    <3> QED  BY <3>2
  <2>5. nodes[root].parent = root
    BY <1>2, <1>3
  <2> QED  BY <2>2, <2>3, <2>4, <2>5 DEF OwnIsSound
<1>7. VolumeIsEmpty /\ MountsAreLeaves /\ Booting
  BY <1>1, <1>2, <1>3, FatRootIsNoNode DEF VolumeIsEmpty, MountsAreLeaves, Booting
<1>8. ~ Dangling
  BY <1>1, <1>2, <1>3 DEF Dangling
<1>9. Session /\ OpenFile /\ Progress
  BY <1>1, <1>8 DEF Session, OpenFile, Progress
<1>10. Kept
  <2>1. <<>> \in Seq(Bytes) /\ DIR # FILE
    BY DEF FILE, DIR
  <2> QED  BY <2>1, <1>1, <1>2, <1>3 DEF Kept, Holds
<1> QED  BY <1>5, <1>6, <1>7, <1>9, <1>10 DEF ShellInv, TreeInv

\* The invariant that everything below follows from.
THEOREM ShellInvariant == Spec => []ShellInv
BY ShellStart, ShellStep, PTL DEF Spec

-----------------------------------------------------------------------------
(* What the invariant says. *)

\* No command leaves a file open, whatever failed in it.
THEOREM NoFileStaysOpen == Spec => []PromptHoldsNoFile
<1>1. ShellInv => PromptHoldsNoFile
  BY DEF ShellInv, Session, PromptHoldsNoFile
<1> QED  BY <1>1, ShellInvariant, PTL

\* cat shows the file, the whole of it and once.
THEOREM CatShowsAll == Spec => []CatShowsTheFile
<1>1. ShellInv => CatShowsTheFile
  <2> SUFFICES ASSUME ShellInv, pc = "close", cmd = "cat"
               PROVE  shown = Content(fd_table[fd].node)
    BY DEF CatShowsTheFile
  <2> DEFINE n == fd_table[fd].node
             size == nodes[n].isize
             data == nodes[n].data
  <2>1. TreeInv /\ fd # -1 /\ OpenFile /\ Progress
    BY DEF ShellInv, Session
  <2>2. n \in Live \ {fat_root} /\ nodes[n].type = FILE
    BY <2>1 DEF OpenFile
  <2>3. shown \in Seq(Bytes \union {ZERO}) /\ Len(shown) = size /\ \A i \in 1 .. size : shown[i] = data[i]
    BY <2>1 DEF Progress
  <2>4. size \in Nat /\ data \in Seq(Bytes \union {ZERO}) /\ size <= Len(data)
    BY <2>1, <2>2, LiveNodes DEF IsSound
  <2>5. Content(n) = SubSeq(data, 1, size)
    BY DEF Content
  <2> HIDE DEF size, data, n
  <2>6. SubSeq(data, 1, size) \in Seq(Bytes \union {ZERO}) /\ Len(SubSeq(data, 1, size)) = size
        /\ \A i \in 1 .. size : SubSeq(data, 1, size)[i] = data[i]
    BY <2>4
  <2>7. shown = SubSeq(data, 1, size)
    BY <2>3, <2>6
  <2> QED  BY <2>5, <2>7 DEF n
<1> QED  BY <1>1, ShellInvariant, PTL

\* What write and append were told was written is in the file, from its first
\* byte, and its size says how much it is.
THEOREM WrittenStays == Spec => []WrittenIsKept
<1>1. ShellInv => WrittenIsKept
  <2> SUFFICES ASSUME ShellInv, NEW n \in Live \ {fat_root}, nodes[n].type = FILE
               PROVE  IsPrefix(wrote[n], Content(n)) /\ nodes[n].size = Len(wrote[n])
    BY DEF WrittenIsKept
  <2> DEFINE w == wrote[n]
             c == Content(n)
             size == nodes[n].isize
             data == nodes[n].data
  <2>1. TreeInv /\ Kept
    BY DEF ShellInv
  <2>2. n \in Node /\ size \in Nat /\ data \in Seq(Bytes \union {ZERO}) /\ size <= Len(data)
    BY <2>1, LiveNodes DEF IsSound
  <2>3. w \in Seq(Bytes) /\ Len(w) <= size /\ (\A i \in 1 .. Len(w) : w[i] = data[i]) /\ nodes[n].size = Len(w)
    BY <2>1, <2>2 DEF Kept, Holds
  <2>4. c = SubSeq(data, 1, size)
    BY DEF Content
  <2> HIDE DEF w, c, size, data
  <2>5. c \in Seq(Bytes \union {ZERO}) /\ Len(c) = size /\ \A i \in 1 .. size : c[i] = data[i]
    BY <2>2, <2>4
  <2>6. IsPrefix(w, c)
    <3> DEFINE m == Len(w)
               p == SubSeq(c, 1, m)
    <3>1. m \in Nat /\ m <= size /\ size = Len(c)
      BY <2>2, <2>3, <2>5
    <3>2. p \in Seq(Bytes \union {ZERO}) /\ Len(p) = m /\ \A i \in 1 .. m : p[i] = c[i]
      BY <3>1, <2>5
    <3> HIDE DEF p
    <3>3. \A i \in 1 .. m : p[i] = w[i]
      BY <3>1, <3>2, <2>2, <2>3, <2>5
    <3>4. w = p
      BY <3>2, <3>3, <2>3
    <3> QED  BY <3>1, <3>4 DEF IsPrefix, p
  <2> QED  BY <2>3, <2>6 DEF w, c
<1> QED  BY <1>1, ShellInvariant, PTL

\* Whatever is made and removed, the RAM file system is a tree, and nothing
\* is below a current directory that was removed.
THEOREM ShellKeepsTheTree == Spec => []RamfsStaysATree
<1>1. ShellInv => RamfsStaysATree
  <2> SUFFICES ASSUME ShellInv  PROVE RamfsStaysATree
    OBVIOUS
  <2>1. /\ DOMAIN Own(nodes) = Live \ {fat_root}
        /\ \A n \in Live \ {fat_root} : Own(nodes)[n] = nodes[n]
    BY OwnIs DEF Live
  <2>2. IsTree(Own(nodes)) /\ root \in DOMAIN Own(nodes) /\ Own(nodes)[root].parent = root
    BY DEF ShellInv, TreeInv, OwnIsSound, IsFs
  <2>3. Own(nodes) = [n \in Live \ {fat_root} |-> nodes[n]]
    BY DEF Own, Live
  <2>4. \A n \in Live : nodes[n].parent \in Live
    <3>1. \A n \in Live \ {fat_root} : nodes[n].parent \in Live
      BY <2>1, <2>2 DEF IsTree
    <3>2. fat_root \in Live => nodes[fat_root].parent \in Live
      BY <2>1, <2>2 DEF ShellInv, TreeInv, VolumeIsEmpty
    <3> QED  BY <3>1, <3>2
  <2>5. IsTree([n \in Live \ {fat_root} |-> nodes[n]])
    BY <2>2, <2>3
  <2> QED  BY <2>4, <2>5 DEF RamfsStaysATree
<1> QED  BY <1>1, ShellInvariant, PTL

LEMMA PairIs ==
    ASSUME NEW S, NEW a \in S, NEW b \in S
    PROVE  <<a, b>> \in Seq(S) /\ Len(<<a, b>>) = 2 /\ <<a, b>>[1] = a /\ <<a, b>>[2] = b
OBVIOUS

LEMMA WithinReach ==
    ASSUME NEW d \in Nat, NEW m \in Nat, NEW k \in 0 .. m - 1, NEW x, x = d + m
    PROVE  d + k \in 0 .. x - 1 /\ d + k + 1 = d + (k + 1) /\ k + 1 \in 0 .. m
OBVIOUS

-----------------------------------------------------------------------------
(* A relative name means the entry of the current directory. *)

\* The paths that PathOf defines are the only ones.
LEMMA PathOfIs ==
    ASSUME NEW ns, IsFs(ns), NEW p, IsPaths(ns, p), NEW n \in DOMAIN ns
    PROVE  PathOf(ns, n) = p[n]
<1> DEFINE P == CHOOSE g : g = [m \in DOMAIN ns |-> IF m = root THEN <<>> ELSE Append(g[ns[m].parent], ns[m].name)]
<1>1. PathOf(ns, n) = P[n]
  BY DEF PathOf
<1>2. \A m \in DOMAIN ns \ {root} : ns[m].parent \in DOMAIN ns
  BY DEF IsFs, IsTree
<1>3. P = [m \in DOMAIN ns |-> IF m = root THEN <<>> ELSE Append(P[ns[m].parent], ns[m].name)]
  <2> DEFINE q == [m \in DOMAIN ns |-> p[m]]
  <2>1. ASSUME NEW m \in DOMAIN ns
        PROVE  q[m] = IF m = root THEN <<>> ELSE Append(q[ns[m].parent], ns[m].name)
    <3>1. p[m] = IF m = root THEN <<>> ELSE Append(p[ns[m].parent], ns[m].name)
      BY DEF IsPaths
    <3> QED  BY <3>1, <1>2
  <2>2. q = [m \in DOMAIN ns |-> IF m = root THEN <<>> ELSE Append(q[ns[m].parent], ns[m].name)]
    BY <2>1
  <2> HIDE DEF q
  <2> QED  BY <2>2
<1> HIDE DEF P
<1>4. \A m \in DOMAIN ns : P[m] = IF m = root THEN <<>> ELSE Append(P[ns[m].parent], ns[m].name)
  BY <1>3
<1>5. \A m \in DOMAIN ns : /\ p[m] \in Seq(Token)
                           /\ p[m] = IF m = root THEN <<>> ELSE Append(p[ns[m].parent], ns[m].name)
  BY DEF IsPaths
\* The shortest path on which they differ goes on from one on which they agree.
<1> DEFINE Bad == {k \in Nat : \E m \in DOMAIN ns : P[m] # p[m] /\ Len(p[m]) = k}
<1>6. ASSUME Bad # {}  PROVE FALSE
  <2>1. Bad \subseteq Nat
    OBVIOUS
  <2>2. PICK k \in Bad : \A j \in Bad : k <= j
    <3> HIDE DEF Bad
    <3> QED  BY <1>6, <2>1, NatHasMin
  <2>3. PICK m \in DOMAIN ns : P[m] # p[m] /\ Len(p[m]) = k
    BY <2>2
  <2>4. m # root
    BY <2>3, <1>4, <1>5
  <2> DEFINE d == ns[m].parent
  <2>5. d \in DOMAIN ns /\ p[m] = Append(p[d], ns[m].name) /\ P[m] = Append(P[d], ns[m].name)
    BY <2>4, <1>2, <1>4, <1>5
  <2>6. P[d] # p[d] /\ p[d] \in Seq(Token)
    BY <2>3, <2>5, <1>5
  <2>7. Len(p[d]) \in Nat /\ k = Len(p[d]) + 1
    BY <2>3, <2>5, <2>6
  <2> DEFINE j == Len(p[d])
  <2>8. j \in Bad
    BY <2>5, <2>6, <2>7
  <2> HIDE DEF j, Bad
  <2>9. k <= j /\ j \in Nat /\ k = j + 1
    BY <2>2, <2>7, <2>8 DEF j
  <2> QED  BY <2>9
<1>7. P[n] = p[n]
  <2>1. Len(p[n]) \in Nat
    BY <1>5
  <2> QED  BY <2>1, <1>6
<1> QED  BY <1>1, <1>7

\* The directories above the current one, as its path names them.
LEMMA AncestorsAre ==
    ASSUME OwnIsSound(Own(nodes)), NEW p, IsPaths(Own(nodes), p), cwd \in DOMAIN Own(nodes),
           NEW up, Ups(up), NEW d, d = Len(p[cwd]), d <= MAX_DEPTH
    PROVE  /\ d \in Nat /\ Depth(up) = d /\ up[0] = cwd /\ up[d] = root
           /\ \A k \in 0 .. d : up[k] \in DOMAIN Own(nodes)
           /\ \A k \in 0 .. d - 1 : /\ up[k] # root /\ up[k + 1] = nodes[up[k]].parent
                                    /\ nodes[up[k]].name = p[cwd][d - k]
<1> DEFINE o == Own(nodes)
           c == p[cwd]
<1>1. (\A n \in DOMAIN o : o[n] = nodes[n]) /\ root \in DOMAIN o /\ nodes[root].parent = root
      /\ \A n \in DOMAIN o \ {root} : nodes[n].parent \in DOMAIN o
  <2>1. \A n \in DOMAIN o : o[n] = nodes[n]
    BY OwnIs
  <2>2. root \in DOMAIN o /\ o[root].parent = root /\ \A n \in DOMAIN o \ {root} : o[n].parent \in DOMAIN o
    BY DEF OwnIsSound, IsFs, IsTree
  <2> QED  BY <2>1, <2>2
<1>2. \A n \in DOMAIN o : /\ p[n] \in Seq(Token)
                          /\ p[n] = IF n = root THEN <<>> ELSE Append(p[nodes[n].parent], nodes[n].name)
  BY <1>1 DEF IsPaths
<1> HIDE DEF o
<1>3. MAX_DEPTH \in Nat /\ d \in Nat /\ cwd \in DOMAIN o
  BY <1>2, VfsAssumption DEF o
<1>4. \A k \in 0 .. MAX_DEPTH : up[k] = IF k = 0 THEN cwd ELSE nodes[up[k - 1]].parent
  BY DEF Ups
<1>5. up[0] = cwd
  BY <1>3, <1>4
<1>6. ASSUME NEW k \in 0 .. MAX_DEPTH - 1  PROVE up[k + 1] = nodes[up[k]].parent
  <2> DEFINE j == k + 1
  <2>1. j \in 0 .. MAX_DEPTH /\ j # 0 /\ j - 1 = k
    BY <1>3
  <2> HIDE DEF j
  <2>2. up[j] = nodes[up[j - 1]].parent
    BY <2>1, <1>4
  <2> QED  BY <2>1, <2>2 DEF j
\* The k-th directory above has the first d - k names of the path.
<1> DEFINE Is(k) == /\ up[k] \in DOMAIN o /\ Len(p[up[k]]) = d - k
                    /\ \A i \in 1 .. d - k : p[up[k]][i] = c[i]
           T == {k \in 0 .. d : Is(k)}
<1>7. ASSUME NEW k \in 0 .. d - 1, Is(k)
      PROVE  /\ up[k] # root /\ up[k + 1] = nodes[up[k]].parent
             /\ nodes[up[k]].name = c[d - k] /\ Is(k + 1)
  <2> DEFINE n == up[k]
             a == nodes[n].parent
             s == p[a]
             x == nodes[n].name
             l == d - k
  <2>1. n \in DOMAIN o /\ Len(p[n]) = l /\ \A i \in 1 .. l : p[n][i] = c[i]
    BY <1>7
  <2>2. l \in Nat /\ l > 0 /\ k \in 0 .. MAX_DEPTH - 1 /\ k + 1 \in 0 .. d /\ d - (k + 1) = l - 1
    BY <1>3
  <2>3. n # root
    <3>1. Len(<<>>) = 0
      OBVIOUS
    <3> HIDE DEF l, n
    <3> QED  BY <2>1, <2>2, <3>1, <1>2
  <2>4. up[k + 1] = a
    BY <2>2, <1>6
  <2>5. a \in DOMAIN o /\ s \in Seq(Token) /\ p[n] = Append(s, x)
    BY <2>1, <2>3, <1>1, <1>2
  <2> HIDE DEF l, s, x, a, n
  <2>6. Len(s) \in Nat /\ Len(s) = l - 1
    BY <2>1, <2>2, <2>5
  <2>7. p[n][l] = x /\ \A i \in 1 .. l - 1 : p[n][i] = s[i]
    BY <2>5, <2>6, <2>2
  <2>8. l \in 1 .. l /\ \A i \in 1 .. l - 1 : i \in 1 .. l
    BY <2>2
  <2>9. x = c[l] /\ \A i \in 1 .. l - 1 : s[i] = c[i]
    BY <2>1, <2>7, <2>8
  <2>10. Is(k + 1)
    BY <2>2, <2>4, <2>5, <2>6, <2>9 DEF s
  <2> QED  BY <2>3, <2>4, <2>9, <2>10 DEF n, a, x, l
<1>8. \A k \in 0 .. d : k \in T
  <2>1. 0 \in T
    <3>1. Is(0)
      BY <1>2, <1>3, <1>5
    <3> HIDE DEF Is
    <3> QED  BY <3>1, <1>3
  <2>2. ASSUME NEW k \in 0 .. d - 1, k \in T  PROVE k + 1 \in T
    <3>1. Is(k + 1)
      BY <2>2, <1>7
    <3>2. k + 1 \in 0 .. d
      BY <1>3
    <3> HIDE DEF Is
    <3> QED  BY <3>1, <3>2
  <2> HIDE DEF T
  <2> QED  BY <1>3, <2>1, <2>2, CountingUp
<1>9. ASSUME NEW k \in 0 .. d - 1
      PROVE  up[k] # root /\ up[k + 1] = nodes[up[k]].parent /\ nodes[up[k]].name = c[d - k]
  <2>1. k \in 0 .. d
    BY <1>3
  <2>2. Is(k)
    BY <2>1, <1>8
  <2> HIDE DEF Is
  <2> QED  BY <2>2, <1>7
<1>10. up[d] = root
  <2>1. d \in 0 .. d
    BY <1>3
  <2>2. Is(d)
    BY <2>1, <1>8
  <2> DEFINE n == up[d]
  <2>3. n \in DOMAIN o /\ Len(p[n]) = 0
    BY <2>2, <1>3
  <2> HIDE DEF n
  <2>4. n # root => p[n] = Append(p[nodes[n].parent], nodes[n].name) /\ p[nodes[n].parent] \in Seq(Token)
    BY <2>3, <1>1, <1>2
  <2>5. n # root => Len(p[n]) = Len(p[nodes[n].parent]) + 1 /\ Len(p[nodes[n].parent]) \in Nat
    BY <2>4
  <2>6. n = root
    <3> DEFINE l == Len(p[nodes[n].parent])
    <3>1. n # root => 0 = l + 1 /\ l \in Nat
      BY <2>3, <2>5
    <3> HIDE DEF l
    <3> QED  BY <3>1
  <2> QED  BY <2>6 DEF n
<1>11. \A k \in 0 .. MAX_DEPTH - d : up[d + k] = root
  <2> DEFINE m == MAX_DEPTH - d
             U == {k \in 0 .. m : up[d + k] = root}
  <2>1. m \in Nat
    BY <1>3
  <2>2. 0 \in U
    BY <2>1, <1>3, <1>10
  <2>3. ASSUME NEW k \in 0 .. m - 1, k \in U  PROVE k + 1 \in U
    <3>1. d + k \in 0 .. MAX_DEPTH - 1 /\ d + k + 1 = d + (k + 1) /\ k + 1 \in 0 .. m
      <4> DEFINE x == MAX_DEPTH
      <4>1. x = d + m /\ k \in 0 .. m - 1 /\ d \in Nat
        BY <1>3
      <4> HIDE DEF m, U, x
      <4>2. d + k \in 0 .. x - 1 /\ d + k + 1 = d + (k + 1) /\ k + 1 \in 0 .. m
        BY <4>1, <2>1, WithinReach
      <4> QED  BY <4>2 DEF x
    <3>2. up[d + k + 1] = nodes[up[d + k]].parent
      <4> DEFINE j == d + k
      <4>1. j \in 0 .. MAX_DEPTH - 1
        BY <3>1
      <4> HIDE DEF j
      <4>2. up[j + 1] = nodes[up[j]].parent
        BY <4>1, <1>6
      <4> QED  BY <4>2 DEF j
    <3> QED  BY <3>1, <3>2, <2>3, <1>1
  <2> HIDE DEF m
  <2>4. \A k \in 0 .. m : k \in U
    <3> HIDE DEF U
    <3> QED  BY <2>1, <2>2, <2>3, CountingUp
  <2> QED  BY <2>4 DEF m
<1>12. Depth(up) = d
  <2> DEFINE S == {k \in 0 .. MAX_DEPTH - 1 : up[k] # root}
  <2>1. ASSUME NEW k \in 0 .. MAX_DEPTH - 1, k >= d  PROVE up[k] = root
    <3> DEFINE i == k - d
    <3>1. i \in 0 .. MAX_DEPTH - d /\ d + i = k
      BY <2>1, <1>3
    <3> HIDE DEF i
    <3> QED  BY <3>1, <1>11
  <2>2. \A k \in 0 .. d - 1 : k \in 0 .. MAX_DEPTH - 1 /\ up[k] # root
    BY <1>3, <1>9
  <2>3. \A k \in S : k \in 0 .. d - 1
    <3> SUFFICES ASSUME NEW k \in S  PROVE k \in 0 .. d - 1
      OBVIOUS
    <3>1. k \in 0 .. MAX_DEPTH - 1 /\ ~ (k >= d)
      BY <2>1
    <3> QED  BY <3>1, <1>3
  <2>4. S = 0 .. d - 1
    BY <2>2, <2>3
  <2>5. Cardinality(0 .. d - 1) = d
    <3>1. 0 \in Int /\ d - 1 \in Int
      BY <1>3
    <3> DEFINE e == d - 1
    <3> HIDE DEF e
    <3>2. e \in Int /\ Cardinality(0 .. e) = IF 0 > e THEN 0 ELSE e - 0 + 1
      BY <3>1, FS_Interval DEF e
    <3> QED  BY <3>2, <1>3 DEF e
  <2> QED  BY <2>4, <2>5 DEF Depth
<1>13. \A k \in 0 .. d : up[k] \in DOMAIN o
  BY <1>8
<1> HIDE DEF Is, T
<1> QED  BY <1>3, <1>5, <1>9, <1>10, <1>12, <1>13 DEF o

\* A directory finds each of its entries by name.
LEMMA EntryIsFound ==
    ASSUME NEW ns, IsFs(ns), NEW n \in DOMAIN ns \ {root}
    PROVE  ramfs_lookup(ns, ns[n].parent, ns[n].name) = n
<1> DEFINE d == ns[n].parent
           name == ns[n].name
           ch == ns[d].children
           hits == {i \in DOMAIN ch : ns[ch[i]].name = name}
<1>1. IsTree(ns) /\ SiblingsDiffer(ns)
  BY DEF IsFs
<1>2. d \in DOMAIN ns /\ \E i \in DOMAIN ch : ch[i] = n
  BY <1>1 DEF IsTree
<1>3. PICK k \in DOMAIN ch : ch[k] = n
  BY <1>2
<1>4. ns[d].type = DIR
  BY <1>1, <1>2, <1>3 DEF IsTree
<1>5. \A i \in DOMAIN ch : ns[ch[i]].name = name => i = k
  BY <1>1, <1>2, <1>3 DEF SiblingsDiffer
<1>6. hits = {k}
  BY <1>3, <1>5
<1>7. ch \in Seq(Node)
  BY <1>2 DEF IsFs, IsNode
<1>8. (CHOOSE i \in hits : \A j \in hits : i <= j) = k
  <2>1. k \in Nat
    BY <1>3, <1>7
  <2> HIDE DEF hits
  <2> QED  BY <1>6, <2>1
<1>9. ramfs_lookup(ns, d, name) = ch[CHOOSE i \in hits : \A j \in hits : i <= j]
  BY <1>4, <1>6 DEF ramfs_lookup
<1> HIDE DEF hits, ch
<1> QED  BY <1>3, <1>8, <1>9

\* So does the table with the volume's root.
LEMMA LookupFinds ==
    ASSUME OwnIsSound(Own(nodes)), NEW n \in DOMAIN Own(nodes) \ {root}
    PROVE  ramfs_lookup(nodes, nodes[n].parent, nodes[n].name) = n
<1> DEFINE o == Own(nodes)
           d == nodes[n].parent
<1>1. IsFs(o)
  BY DEF OwnIsSound
<1>2. o[n] = nodes[n] /\ DOMAIN o = DOMAIN nodes \ {fat_root}
  BY OwnIs
<1>3. d \in DOMAIN nodes \ {fat_root}
  BY <1>1, <1>2 DEF IsFs, IsTree
<1>4. ramfs_lookup(o, d, nodes[n].name) = n
  <2> HIDE DEF o, d
  <2>1. ramfs_lookup(o, o[n].parent, o[n].name) = n
    BY <1>1, EntryIsFound DEF o
  <2> QED  BY <2>1, <1>2 DEF d
<1> QED  BY <1>1, <1>3, <1>4, OwnLookup

\* The text of the current directory: a slash and a name for each of its
\* path.
IsText(t, c) ==
    /\ t \in Seq(Token) /\ Len(t) = 2 * Len(c)
    /\ \A i \in 1 .. Len(c) : t[2 * i - 1] = "/" /\ t[2 * i] = c[i]

\* Every name of the path can be written down.
Writable(c) == \A i \in DOMAIN c : c[i] # ""

LEMMA GetcwdIsThePath ==
    ASSUME TreeInv, ~ Dangling, NEW p, IsPaths(Own(nodes), p), cwd \in DOMAIN Own(nodes),
           Len(p[cwd]) <= MAX_DEPTH, Writable(p[cwd])
    PROVE  /\ p[cwd] \in Seq(Token \ {"/", ".", ".."})
           /\ p[cwd] = <<>> => vfs_getcwd = <<"/">>
           /\ p[cwd] # <<>> => IsText(vfs_getcwd, p[cwd])
<1> DEFINE c == p[cwd]
           d == Len(c)
<1>1. OwnIsSound(Own(nodes)) /\ Walkable(nodes) /\ \A n \in DOMAIN nodes : nodes[n].name \in Token
  BY IsWalkable, NamesAreTokens DEF TreeInv
<1>2. PICK up, buf :
          /\ Ups(up) /\ Bufs(up, buf)
          /\ vfs_getcwd = IF Depth(up) = 0 THEN <<"/">> ELSE buf[Depth(up)]
  BY <1>1, GetcwdIs
<1>3. c \in Seq(Token)
  BY DEF IsPaths
<1> HIDE DEF c
<1>4. d \in Nat /\ d = Len(p[cwd]) /\ d <= MAX_DEPTH
  BY <1>3 DEF c
<1> HIDE DEF d
<1>5. /\ Depth(up) = d /\ \A k \in 0 .. d : up[k] \in DOMAIN Own(nodes)
      /\ \A k \in 0 .. d - 1 : up[k] # root /\ nodes[up[k]].name = c[d - k]
  BY <1>1, <1>2, <1>4, AncestorsAre DEF c
<1>6. \A n \in DOMAIN Own(nodes) \ {root} : nodes[n].name \in Token \ {"/", ".", ".."}
  BY <1>1, OwnIs DEF OwnIsSound, NamesAreNames
<1>7. ASSUME NEW k \in 1 .. d  PROVE c[k] \in Token \ {"", "/", ".", ".."} /\ Part(up, k) = c[k]
  <2> DEFINE j == d - k
  <2>1. j \in 0 .. d - 1 /\ j \in 0 .. d /\ d - j = k
    BY <1>4
  <2> HIDE DEF j
  <2>2. up[j] # root /\ nodes[up[j]].name = c[k] /\ up[j] \in DOMAIN Own(nodes)
    BY <2>1, <1>5
  <2>3. c[k] \in Token \ {"/", ".", ".."}
    BY <2>2, <1>6
  <2>4. c[k] # ""
    <3>1. k \in DOMAIN p[cwd]
      BY <1>3 DEF c, d
    <3> QED  BY <3>1 DEF c, Writable
  <2>5. Part(up, k) = nodes[up[j]].name
    BY <1>5 DEF Part, j
  <2> QED  BY <2>2, <2>3, <2>4, <2>5
<1>8. c \in Seq(Token \ {"/", ".", ".."})
  <2>1. \A k \in 1 .. Len(c) : c[k] \in Token \ {"/", ".", ".."}
    BY <1>7 DEF d
  <2> QED  BY <2>1, <1>3
<1>9. \A k \in 0 .. d : buf[k] = IF k = 0 THEN <<>>
                                 ELSE buf[k - 1] \o IF Part(up, k) = "" THEN <<"/">> ELSE <<"/", Part(up, k)>>
  BY <1>2, <1>5 DEF Bufs
<1> DEFINE Is(t, k) == /\ t \in Seq(Token) /\ Len(t) = 2 * k
                       /\ \A i \in 1 .. k : t[2 * i - 1] = "/" /\ t[2 * i] = c[i]
           T == {k \in 0 .. d : Is(buf[k], k)}
<1>10. 0 \in T
  <2>1. 0 \in 0 .. d
    BY <1>4
  <2>2. buf[0] = <<>>
    BY <2>1, <1>9
  <2>3. <<>> \in Seq(Token) /\ Len(<<>>) = 2 * 0 /\ \A i \in 1 .. 0 : FALSE
    OBVIOUS
  <2> DEFINE b == buf[0]
  <2>4. b \in Seq(Token) /\ Len(b) = 2 * 0
    BY <2>2, <2>3
  <2>5. Is(b, 0)
    <3> HIDE DEF b
    <3> QED  BY <2>3, <2>4
  <2> HIDE DEF Is
  <2> QED  BY <2>1, <2>5
<1>11. ASSUME NEW k \in 0 .. d - 1, k \in T  PROVE k + 1 \in T
  <2> DEFINE j == k + 1
             s == buf[k]
             q == c[j]
             e == <<"/", q>>
             t == s \o e
  <2>1. j \in 1 .. d /\ j \in 0 .. d /\ j # 0 /\ j - 1 = k /\ k \in Nat /\ j = k + 1
    <3> HIDE DEF T
    <3> QED  BY <1>4
  <2>2. s \in Seq(Token) /\ Len(s) = 2 * k /\ \A i \in 1 .. k : s[2 * i - 1] = "/" /\ s[2 * i] = c[i]
    BY <1>11
  <2> HIDE DEF j, s, T
  <2>3. q \in Token /\ q # "" /\ Part(up, j) = q /\ "/" \in Token
    BY <2>1, <1>7 DEF Token
  <2> HIDE DEF q
  <2>4. buf[j] = t
    BY <2>1, <2>3, <1>9 DEF s
  <2>5. e \in Seq(Token) /\ Len(e) = 2 /\ e[1] = "/" /\ e[2] = q
    <3> DEFINE v == "/"
    <3>1. v \in Token
      BY <2>3
    <3> HIDE DEF v
    <3>2. q \in Token
      BY <2>3
    <3> HIDE DEF e
    <3>3. <<v, q>> \in Seq(Token) /\ Len(<<v, q>>) = 2 /\ <<v, q>>[1] = v /\ <<v, q>>[2] = q
      BY <3>1, <3>2, PairIs
    <3> QED  BY <3>3 DEF v, e
  <2> HIDE DEF e
  <2>6. t \in Seq(Token) /\ Len(t) = 2 * k + 2 /\ (\A i \in 1 .. 2 * k : t[i] = s[i])
        /\ t[2 * k + 1] = e[1] /\ t[2 * k + 2] = e[2]
    <3> DEFINE m == 2 * k
    <3>1. m \in Nat /\ Len(s) = m
      BY <2>1, <2>2
    <3> HIDE DEF m
    <3>2. s \in Seq(Token) /\ e \in Seq(Token) /\ 2 \in Nat /\ Len(e) = 2 /\ 1 \in 1 .. 2 /\ 2 \in 1 .. 2
      BY <2>2, <2>5
    <3>3. /\ t \in Seq(Token) /\ Len(t) = m + 2 /\ \A i \in 1 .. m : t[i] = s[i]
          /\ \A i \in 1 .. 2 : t[m + i] = e[i]
      <4> HIDE DEF t
      <4>1. t = s \o e
        BY DEF t
      <4>2. s \o e \in Seq(Token) /\ e \in Seq(Token) /\ s \in Seq(Token)
        BY <3>2
      <4>3. Len(s \o e) = Len(s) + Len(e)
        BY <4>2
      <4>4. \A i \in 1 .. Len(s) : (s \o e)[i] = s[i]
        BY <4>2
      <4>5. \A i \in 1 .. Len(e) : (s \o e)[Len(s) + i] = e[i]
        BY <4>2
      <4> QED  BY <3>1, <3>2, <4>1, <4>2, <4>3, <4>4, <4>5
    <3> QED  BY <3>2, <3>3 DEF m
  <2> HIDE DEF t
  <2>7. Len(t) = 2 * j /\ t[2 * j - 1] = "/" /\ t[2 * j] = c[j]
    <3>1. 2 * j = 2 * k + 2 /\ 2 * j - 1 = 2 * k + 1
      BY <2>1
    <3> QED  BY <3>1, <2>5, <2>6 DEF q
  <2>8. ASSUME NEW i \in 1 .. j  PROVE t[2 * i - 1] = "/" /\ t[2 * i] = c[i]
    <3>1. CASE i = j
      BY <3>1, <2>7
    <3>2. CASE i # j
      <4>1. i \in 1 .. k /\ 2 * i - 1 \in 1 .. 2 * k /\ 2 * i \in 1 .. 2 * k
        BY <3>2, <2>1
      <4> QED  BY <4>1, <2>2, <2>6
    <3> QED  BY <3>1, <3>2
  <2>9. Is(buf[j], j)
    BY <2>4, <2>6, <2>7, <2>8
  <2> HIDE DEF Is
  <2>10. j \in T
    BY <2>1, <2>9 DEF T
  <2> QED  BY <2>10 DEF j
<1>12. \A k \in 0 .. d : k \in T
  <2> HIDE DEF T
  <2> QED  BY <1>4, <1>10, <1>11, CountingUp
<1>13. Is(buf[d], d)
  <2>1. d \in 0 .. d
    BY <1>4
  <2> QED  BY <2>1, <1>12
<1>14. c = <<>> => vfs_getcwd = <<"/">>
  <2>1. c = <<>> => d = 0
    BY DEF d
  <2> QED  BY <2>1, <1>2, <1>5
<1>15. c # <<>> => IsText(vfs_getcwd, c)
  <2>1. c # <<>> => d # 0
    BY <1>3 DEF d
  <2>2. c # <<>> => vfs_getcwd = buf[d]
    BY <2>1, <1>2, <1>5
  <2> QED  BY <2>2, <1>13 DEF IsText, d
<1> QED  BY <1>8, <1>14, <1>15 DEF c

\* A plain name typed in a directory with path c is the text of c, a slash
\* and the name.
LEMMA RelativePathIs ==
    ASSUME TreeInv, ~ Dangling, NEW p, IsPaths(Own(nodes), p), cwd \in DOMAIN Own(nodes),
           NEW c, c = p[cwd], Len(c) <= MAX_DEPTH, Writable(c),
           NEW name \in Names, NEW path, path = make_path(<<name>>)
    PROVE  /\ path \in Seq(Token) /\ Len(path) = 2 * Len(c) + 2
           /\ path[2 * Len(c) + 1] = "/" /\ path[2 * Len(c) + 2] = name
           /\ \A i \in 1 .. Len(c) : path[2 * i - 1] = "/" /\ path[2 * i] = c[i]
<1>1. /\ c \in Seq(Token \ {"/", ".", ".."})
      /\ c = <<>> => vfs_getcwd = <<"/">>
      /\ c # <<>> => IsText(vfs_getcwd, c)
  BY GetcwdIsThePath
<1>2. name \in Token /\ name # "/" /\ "/" \in Token
  BY ShellAssumption DEF Token
<1> DEFINE d == Len(c)
<1>3. d \in Nat
  BY <1>1
<1>4. <<name>>[1] # "/"
  BY <1>2
<1>5. CASE c = <<>>
  <2>1. d = 0 /\ vfs_getcwd = <<"/">> /\ <<"/">>[1] = "/" /\ Len(<<"/">>) = 1
    BY <1>1, <1>5
  <2>2. Last(vfs_getcwd) = "/"
    BY <2>1 DEF Last
  <2>3. path = <<"/">> \o <<name>>
    BY <2>1, <2>2, <1>4 DEF make_path
  <2>4. path = <<"/", name>>
    BY <2>3
  <2>5. path \in Seq(Token) /\ Len(path) = 2 /\ path[1] = "/" /\ path[2] = name
    <3> DEFINE v == "/"
               q == name
    <3>1. v \in Token /\ q \in Token
      BY <1>2
    <3> HIDE DEF v, q
    <3>2. <<v, q>> \in Seq(Token) /\ Len(<<v, q>>) = 2 /\ <<v, q>>[1] = v /\ <<v, q>>[2] = q
      BY <3>1, PairIs
    <3> QED  BY <3>2, <2>4 DEF v, q
  <2> QED  BY <2>1, <2>5
<1>6. CASE c # <<>>
  <2> DEFINE g == vfs_getcwd
             s == Append(g, "/")
             t == s \o <<name>>
  <2>1. g \in Seq(Token) /\ Len(g) = 2 * d /\ \A i \in 1 .. d : g[2 * i - 1] = "/" /\ g[2 * i] = c[i]
    BY <1>1, <1>6 DEF IsText
  <2>2. d \in 1 .. d /\ c[d] # "/"
    <3>1. d # 0
      BY <1>1, <1>6
    <3>2. d \in 1 .. d
      BY <3>1, <1>3
    <3>3. c[d] \in Token \ {"/", ".", ".."}
      BY <3>2, <1>1
    <3> QED  BY <3>2, <3>3
  <2> HIDE DEF g, d
  <2>3. Last(g) # "/"
    BY <2>1, <2>2 DEF Last
  <2>4. path = t
    BY <2>3, <1>4 DEF make_path, g
  <2>5. s \in Seq(Token) /\ Len(s) = 2 * d + 1 /\ s[2 * d + 1] = "/" /\ \A i \in 1 .. 2 * d : s[i] = g[i]
    BY <2>1, <1>2, <1>3
  <2> HIDE DEF s
  <2>6. <<name>> \in Seq(Token) /\ Len(<<name>>) = 1 /\ <<name>>[1] = name
    BY <1>2
  <2>7. t \in Seq(Token) /\ Len(t) = 2 * d + 2 /\ t[2 * d + 2] = name /\ \A i \in 1 .. 2 * d + 1 : t[i] = s[i]
    <3> DEFINE e == <<name>>
               m == 2 * d + 1
    <3>1. e \in Seq(Token) /\ Len(e) = 1 /\ e[1] = name /\ Len(s) = m /\ m \in Nat
      BY <2>5, <2>6, <1>3
    <3>2. m + 1 = 2 * d + 2
      BY <1>3
    <3> HIDE DEF e, m
    <3>3. s \in Seq(Token) /\ 1 \in Nat /\ 1 \in 1 .. 1
      BY <2>5
    <3>4. /\ s \o e \in Seq(Token) /\ Len(s \o e) = m + 1 /\ \A i \in 1 .. m : (s \o e)[i] = s[i]
          /\ \A i \in 1 .. 1 : (s \o e)[m + i] = e[i]
      <4>1. s \o e \in Seq(Token) /\ e \in Seq(Token) /\ s \in Seq(Token)
        BY <3>1, <3>3
      <4>2. Len(s \o e) = Len(s) + Len(e)
        BY <4>1
      <4>3. \A i \in 1 .. Len(s) : (s \o e)[i] = s[i]
        BY <4>1
      <4>4. \A i \in 1 .. Len(e) : (s \o e)[Len(s) + i] = e[i]
        BY <4>1
      <4> QED  BY <3>1, <4>1, <4>2, <4>3, <4>4
    <3> QED  BY <3>1, <3>2, <3>3, <3>4 DEF e, m
  <2> HIDE DEF t
  <2>8. t[2 * d + 1] = "/"
    <3>1. 2 * d + 1 \in 1 .. 2 * d + 1
      BY <1>3
    <3> QED  BY <3>1, <2>5, <2>7
  <2>9. ASSUME NEW i \in 1 .. d  PROVE t[2 * i - 1] = "/" /\ t[2 * i] = c[i]
    <3>1. 2 * i - 1 \in 1 .. 2 * d /\ 2 * i \in 1 .. 2 * d
          /\ 2 * i - 1 \in 1 .. 2 * d + 1 /\ 2 * i \in 1 .. 2 * d + 1
      BY <1>3
    <3> QED  BY <3>1, <2>1, <2>5, <2>7
  <2> QED  BY <2>4, <2>7, <2>8, <2>9 DEF d
<1> QED  BY <1>5, <1>6

\* A step to the name of an entry leads to the entry.
LEMMA EntryStep ==
    ASSUME OwnIsSound(Own(nodes)), Walkable(nodes), NEW n \in DOMAIN Own(nodes) \ {root},
           n \in Places(nodes), nodes[n].name \notin {"", ".", ".."}
    PROVE  Step(nodes, nodes[n].parent, nodes[n].name) = n
<1> DEFINE d == nodes[n].parent
           name == nodes[n].name
<1>1. ramfs_lookup(nodes, d, name) = n
  BY LookupFinds
<1>2. d # NULL /\ n # NULL /\ nodes[n].mount = NULL
  BY DEF Walkable, Places
<1>3. Enter(nodes, n) = n
  BY <1>2 DEF Enter
<1>4. ASSUME NEW x, x \notin {"", ".", ".."}
      PROVE  Step(nodes, d, x) = Enter(nodes, ramfs_lookup(nodes, d, x))
  BY <1>2, <1>4 DEF Step
<1>5. Step(nodes, d, name) = Enter(nodes, ramfs_lookup(nodes, d, name))
  BY <1>4
<1> HIDE DEF d, name
<1>6. Step(nodes, d, name) = n
  BY <1>1, <1>3, <1>5
<1> QED  BY <1>6 DEF d, name

\* What a walk does at each token.
WalkTurn(w, path, k) == w[k] = IF path[k] = "/" THEN w[k - 1] ELSE Step(nodes, w[k - 1], path[k])

\* The walk of the typed name goes down the directories that vfs_getcwd went
\* up, and from the current one to the entry.
LEMMA NameIsWalkedFromCwd ==
    ASSUME TreeInv, ~ Dangling, NEW p, IsPaths(Own(nodes), p), cwd \in DOMAIN Own(nodes),
           NEW c, c = p[cwd], Len(c) <= MAX_DEPTH, Writable(c),
           NEW name \in Names, NEW path, path = make_path(<<name>>)
    PROVE  Walk(nodes, path) = Enter(nodes, ramfs_lookup(nodes, cwd, name))
<1> DEFINE d == Len(c)
<1>1. OwnIsSound(Own(nodes)) /\ Walkable(nodes) /\ \A n \in DOMAIN nodes : nodes[n].name \in Token
  BY IsWalkable, NamesAreTokens DEF TreeInv
<1>2. PICK up : Ups(up) /\ \A k \in 0 .. MAX_DEPTH : up[k] \in Places(nodes)
  BY <1>1, GetcwdIs
<1>3. /\ path \in Seq(Token) /\ Len(path) = 2 * d + 2
      /\ path[2 * d + 1] = "/" /\ path[2 * d + 2] = name
      /\ \A i \in 1 .. d : path[2 * i - 1] = "/" /\ path[2 * i] = c[i]
  BY RelativePathIs
<1>4. c \in Seq(Token \ {"/", ".", ".."})
  BY GetcwdIsThePath
<1>5. \A i \in 1 .. d : c[i] \notin {"", "/", ".", ".."}
  <2> SUFFICES ASSUME NEW i \in 1 .. d  PROVE c[i] \notin {"", "/", ".", ".."}
    OBVIOUS
  <2>1. c[i] \in Token \ {"/", ".", ".."} /\ i \in DOMAIN c
    BY <1>4
  <2>2. c[i] # ""
    BY <2>1 DEF Writable
  <2> QED  BY <2>1, <2>2
<1>6. d \in Nat /\ d <= MAX_DEPTH /\ MAX_DEPTH \in Nat
  BY <1>4, VfsAssumption
<1>7. d = Len(p[cwd])
  OBVIOUS
<1> HIDE DEF d
<1>8. /\ up[0] = cwd /\ up[d] = root
      /\ \A k \in 0 .. d : up[k] \in DOMAIN Own(nodes) /\ up[k] \in Places(nodes)
      /\ \A k \in 0 .. d - 1 : /\ up[k] # root /\ up[k + 1] = nodes[up[k]].parent
                               /\ nodes[up[k]].name = c[d - k]
  <2>1. /\ up[0] = cwd /\ up[d] = root
        /\ \A k \in 0 .. d : up[k] \in DOMAIN Own(nodes)
        /\ \A k \in 0 .. d - 1 : /\ up[k] # root /\ up[k + 1] = nodes[up[k]].parent
                                 /\ nodes[up[k]].name = c[d - k]
    BY <1>1, <1>2, <1>6, <1>7, AncestorsAre
  <2>2. \A k \in 0 .. d : k \in 0 .. MAX_DEPTH
    BY <1>6
  <2> QED  BY <2>1, <2>2, <1>2
<1>9. PICK w : IsWalk(w, nodes, path) /\ Walk(nodes, path) = w[Len(path)]
  BY <1>1, <1>3, WalkExists
<1>10. w[0] = Start(nodes, path)
  <2>1. 0 \in 0 .. Len(path)
    BY <1>3, <1>6
  <2> QED  BY <2>1, <1>9 DEF IsWalk, Start
<1>11. ASSUME NEW k \in 1 .. 2 * d + 2  PROVE WalkTurn(w, path, k)
  <2>1. k \in 0 .. Len(path) /\ k # 0
    BY <1>3, <1>6
  <2> QED  BY <2>1, <1>9 DEF IsWalk, WalkTurn
<1>12. w[0] = root
  <2>1. path[1] = "/"
    <3>1. CASE d = 0
      BY <3>1, <1>3
    <3>2. CASE d # 0
      <4>1. 1 \in 1 .. d
        BY <3>2, <1>6
      <4> QED  BY <4>1, <1>3
    <3> QED  BY <3>1, <3>2
  <2>2. Head(path) = "/"
    <3>1. path # <<>>
      BY <1>3, <1>6
    <3> QED  BY <3>1, <2>1, <1>3
  <2>3. Enter(nodes, root) = root
    BY <1>1 DEF Enter, Walkable, Places
  <2> QED  BY <2>2, <2>3, <1>10 DEF Start
<1> DEFINE T == {i \in 0 .. d : w[2 * i] = up[d - i]}
<1>13. 0 \in T
  BY <1>6, <1>8, <1>12
<1>14. ASSUME NEW i \in 0 .. d - 1, i \in T  PROVE i + 1 \in T
  <2> DEFINE j == i + 1
             k == d - j
             a == 2 * j
  <2>1. /\ i \in Nat /\ j \in 1 .. d /\ j \in 0 .. d /\ k \in 0 .. d - 1 /\ k \in 0 .. d
        /\ d - k = j /\ d - i = k + 1
        /\ a \in 1 .. 2 * d + 2 /\ a - 1 \in 1 .. 2 * d + 2 /\ a - 1 - 1 = 2 * i
    <3> HIDE DEF T
    <3> QED  BY <1>6
  <2>2. w[2 * i] = up[d - i]
    BY <1>14
  <2> HIDE DEF T
  <2>3. path[a - 1] = "/" /\ path[a] = c[j]
    BY <2>1, <1>3
  <2>4. c[j] \notin {"", "/", ".", ".."}
    BY <2>1, <1>5
  <2>5. /\ up[k] # root /\ up[k + 1] = nodes[up[k]].parent /\ nodes[up[k]].name = c[d - k]
        /\ up[k] \in DOMAIN Own(nodes) /\ up[k] \in Places(nodes)
    BY <2>1, <1>8
  <2>6. WalkTurn(w, path, a - 1) /\ WalkTurn(w, path, a)
    BY <2>1, <1>11
  <2> HIDE DEF j, k, a
  <2>7. w[a - 1] = up[k + 1]
    BY <2>1, <2>2, <2>3, <2>6 DEF WalkTurn
  <2>8. w[a] = Step(nodes, w[a - 1], c[j])
    BY <2>3, <2>4, <2>6 DEF WalkTurn
  <2>9. Step(nodes, nodes[up[k]].parent, nodes[up[k]].name) = up[k]
    <3> DEFINE n == up[k]
    <3>1. n \in DOMAIN Own(nodes) \ {root} /\ n \in Places(nodes) /\ nodes[n].name \notin {"", ".", ".."}
      BY <2>1, <2>4, <2>5
    <3> HIDE DEF n
    <3>2. Step(nodes, nodes[n].parent, nodes[n].name) = n
      BY <3>1, <1>1, EntryStep
    <3> QED  BY <3>2 DEF n
  <2>10. w[a] = up[k]
    BY <2>1, <2>5, <2>7, <2>8, <2>9
  <2> QED  BY <2>1, <2>10 DEF a, j, k, T
<1>15. \A i \in 0 .. d : i \in T
  <2> HIDE DEF T
  <2> QED  BY <1>6, <1>13, <1>14, CountingUp
<1>16. w[2 * d] = cwd
  <2>1. d \in T /\ d - d = 0
    BY <1>6, <1>15
  <2> QED  BY <2>1, <1>8
<1> HIDE DEF T
<1>17. name \notin {"", "/", ".", ".."}
  BY ShellAssumption
<1>18. w[2 * d + 2] = Step(nodes, cwd, name)
  <2> DEFINE a == 2 * d
             j == 2 * d + 1
             k == 2 * d + 2
  <2>1. j \in 1 .. k /\ k \in 1 .. k /\ j - 1 = a /\ k - 1 = j
    BY <1>6
  <2>2. WalkTurn(w, path, j) /\ WalkTurn(w, path, k)
    BY <2>1, <1>11
  <2>3. path[j] = "/" /\ path[k] = name /\ w[a] = cwd
    BY <1>3, <1>16
  <2> HIDE DEF a, j, k
  <2>4. w[j] = w[j - 1]
    BY <2>2, <2>3 DEF WalkTurn
  <2>5. w[k] = Step(nodes, w[k - 1], name)
    BY <2>2, <2>3, <1>17 DEF WalkTurn
  <2>6. w[k] = Step(nodes, cwd, name)
    BY <2>1, <2>3, <2>4, <2>5
  <2> QED  BY <2>6 DEF k
<1>19. Step(nodes, cwd, name) = Enter(nodes, ramfs_lookup(nodes, cwd, name))
  <2>1. cwd # NULL
    BY <1>1 DEF Walkable, Places
  <2> QED  BY <2>1, <1>17 DEF Step
<1> QED  BY <1>3, <1>9, <1>18, <1>19

\* A path that ends with a name means what the walk of it leads to.
LEMMA NameResolves ==
    ASSUME NEW path, GoodPath(path), NEW name, Last(path) = name, name \notin {"/", ".", ".."}
    PROVE  Resolved(nodes, path) = {Walk(nodes, path)}
<1>1. path \in Seq(Token) /\ path # <<>>
  BY DEF GoodPath
<1>2. \A stale : vfs_resolve(nodes, path, stale) = Walk(nodes, path)
  BY <1>1 DEF vfs_resolve
<1>3. \E stale : stale \in Stale(path)
  <2> DEFINE comps == {i \in DOMAIN path : path[i] # "/"}
  <2>1. Len(path) \in DOMAIN path
    BY <1>1
  <2>2. path[Len(path)] # "/"
    BY DEF Last
  <2>3. comps # {}
    BY <2>1, <2>2
  <2>4. Stale(path) = IF comps = {} THEN Junk
                      ELSE {path[CHOOSE i \in comps : \A j \in comps : j <= i]}
    BY DEF Stale
  <2> HIDE DEF comps
  <2> QED  BY <2>3, <2>4
<1> QED  BY <1>2, <1>3 DEF Resolved

\* A plain name means the entry of the current directory: the path that
\* vfs_getcwd prints and make_path extends leads vfs_resolve back to it.
THEOREM RelativeIsCwd == Spec => []RelativeMeansCwd
<1>1. ShellInv => RelativeMeansCwd
  <2> SUFFICES ASSUME ShellInv, AtPrompt, cwd # fat_root, Len(cwdPath) <= MAX_DEPTH,
                      Writable(cwdPath), NEW name \in Names
               PROVE  Resolved(nodes, make_path(<<name>>))
                        = {Enter(nodes, ramfs_lookup(nodes, cwd, name))}
    BY DEF RelativeMeansCwd, Writable
  <2>1. TreeInv /\ ~ Dangling /\ cwd \in DOMAIN Own(nodes)
    BY OwnIs DEF ShellInv, AtPrompt, Dangling, Live
  <2>2. OwnIsSound(Own(nodes)) /\ Walkable(nodes) /\ \A n \in DOMAIN nodes : nodes[n].name \in Token
    BY <2>1, IsWalkable, NamesAreTokens DEF TreeInv
  <2>3. PICK p : IsPaths(Own(nodes), p)
    BY <2>2 DEF OwnIsSound
  <2>4. cwdPath = p[cwd]
    <3>1. PathOf(Own(nodes), cwd) = p[cwd]
      BY <2>1, <2>2, <2>3, PathOfIs DEF OwnIsSound
    <3> QED  BY <3>1 DEF cwdPath, Own, Live
  <2> DEFINE c == p[cwd]
             path == make_path(<<name>>)
  <2>5. Len(c) <= MAX_DEPTH /\ Writable(c)
    BY <2>4
  <2> HIDE DEF c, path
  <2>6. Walk(nodes, path) = Enter(nodes, ramfs_lookup(nodes, cwd, name))
    BY <2>1, <2>3, <2>5, NameIsWalkedFromCwd DEF c, path
  <2>7. path \in Seq(Token) /\ Len(path) = 2 * Len(c) + 2 /\ path[2 * Len(c) + 2] = name
    BY <2>1, <2>3, <2>5, RelativePathIs DEF c, path
  <2>8. Last(path) = name
    BY <2>7 DEF Last
  <2>9. GoodPath(path)
    BY <2>2, MakePathIsGood DEF path
  <2>10. name \notin {"/", ".", ".."}
    BY ShellAssumption
  <2>11. Resolved(nodes, path) = {Walk(nodes, path)}
    BY <2>8, <2>9, <2>10, NameResolves
  <2> QED  BY <2>6, <2>11 DEF path
<1> QED  BY <1>1, ShellInvariant, PTL

-----------------------------------------------------------------------------
(* The RAM file system is the tree of paths it promises to be. *)

\* What is seen of a node by its path.
Seen(ns, n) == [type |-> ns[n].type, content |-> ramfs_read(ns, n, 0, RAMFS_MAX_FILESIZE)]

\* w takes the path from the root.
IsDescent(w, ns, q) == w = [i \in 0 .. Len(q) |-> IF i = 0 THEN root ELSE ramfs_lookup(ns, w[i - 1], q[i])]

LEMMA DescentIs ==
    ASSUME NEW w, NEW ns, NEW q, IsDescent(w, ns, q), NEW i \in 0 .. Len(q)
    PROVE  w[i] = IF i = 0 THEN root ELSE ramfs_lookup(ns, w[i - 1], q[i])
BY DEF IsDescent

LEMMA DescentsAgree ==
    ASSUME NEW S, NEW q \in Seq(S), NEW ns, NEW w, NEW v, IsDescent(w, ns, q), IsDescent(v, ns, q)
    PROVE  w[Len(q)] = v[Len(q)]
<1> DEFINE L == Len(q)
           T == {i \in 0 .. L : w[i] = v[i]}
<1>1. L \in Nat
  OBVIOUS
<1>2. 0 \in T
  <2>1. 0 \in 0 .. Len(q)
    BY <1>1
  <2>2. w[0] = root /\ v[0] = root
    BY <2>1, DescentIs
  <2> QED  BY <2>1, <2>2
<1>3. ASSUME NEW i \in 0 .. L - 1, i \in T  PROVE i + 1 \in T
  <2>1. i + 1 \in 0 .. Len(q) /\ i + 1 # 0 /\ (i + 1) - 1 = i
    BY <1>1
  <2>2. w[i + 1] = ramfs_lookup(ns, w[i], q[i + 1])
    BY <2>1, DescentIs
  <2>3. v[i + 1] = ramfs_lookup(ns, v[i], q[i + 1])
    BY <2>1, DescentIs
  <2> QED  BY <1>3, <2>1, <2>2, <2>3
<1>4. \A i \in 0 .. L : i \in T
  <2> HIDE DEF T, L
  <2> QED  BY <1>1, <1>2, <1>3, CountingUp
<1>5. L \in T
  <2> HIDE DEF T, L
  <2> QED  BY <1>1, <1>4
<1> QED  BY <1>5

\* The path of a node leads to it.
LEMMA PathDescends ==
    ASSUME NEW ns, IsFs(ns), NEW p, IsPaths(ns, p), NEW n \in DOMAIN ns
    PROVE  \E w : IsDescent(w, ns, p[n]) /\ w[Len(p[n])] = n
<1> DEFINE Led(m) == \E w : IsDescent(w, ns, p[m]) /\ w[Len(p[m])] = m
<1>1. \A m \in DOMAIN ns \ {root} : ns[m].parent \in DOMAIN ns
  BY DEF IsFs, IsTree
<1>2. \A m \in DOMAIN ns : /\ p[m] \in Seq(Token)
                           /\ p[m] = IF m = root THEN <<>> ELSE Append(p[ns[m].parent], ns[m].name)
  BY DEF IsPaths
<1>3. root \in DOMAIN ns => Led(root)
  <2> SUFFICES ASSUME root \in DOMAIN ns  PROVE Led(root)
    OBVIOUS
  <2> DEFINE w == [i \in 0 .. 0 |-> root]
  <2>1. p[root] = <<>> /\ Len(p[root]) = 0
    BY <1>2
  <2>2. w[0] = root /\ \A i \in 0 .. 0 : w[i] = IF i = 0 THEN root ELSE ramfs_lookup(ns, w[i - 1], p[root][i])
    OBVIOUS
  <2>3. w = [i \in 0 .. 0 |-> w[i]]
    OBVIOUS
  <2> HIDE DEF w
  <2>4. w = [i \in 0 .. 0 |-> IF i = 0 THEN root ELSE ramfs_lookup(ns, w[i - 1], p[root][i])]
    BY <2>2, <2>3
  <2>5. IsDescent(w, ns, p[root])
    BY <2>1, <2>4 DEF IsDescent
  <2> QED  BY <2>1, <2>2, <2>5
<1>4. ASSUME NEW m \in DOMAIN ns \ {root}, Led(ns[m].parent)  PROVE Led(m)
  <2> DEFINE d == ns[m].parent
             q == p[d]
             L == Len(q)
             r == p[m]
  <2>1. d \in DOMAIN ns /\ q \in Seq(Token) /\ r = Append(q, ns[m].name) /\ r \in Seq(Token)
    BY <1>1, <1>2
  <2>2. L \in Nat /\ Len(r) = L + 1 /\ r[L + 1] = ns[m].name /\ \A i \in 1 .. L : r[i] = q[i]
    <3> HIDE DEF q, r
    <3> QED  BY <2>1
  <2>3. PICK w : IsDescent(w, ns, q) /\ w[L] = d
    BY <1>4
  <2> DEFINE v == [i \in 0 .. L + 1 |-> IF i = L + 1 THEN m ELSE w[i]]
  <2>4. ramfs_lookup(ns, d, ns[m].name) = m
    BY EntryIsFound
  <2> HIDE DEF d, q, r
  <2>5. \A i \in 0 .. L : w[i] = IF i = 0 THEN root ELSE ramfs_lookup(ns, w[i - 1], q[i])
    BY <2>3, DescentIs
  <2> HIDE DEF L
  <2>6. ASSUME NEW i \in 0 .. L + 1
        PROVE  v[i] = IF i = 0 THEN root ELSE ramfs_lookup(ns, v[i - 1], r[i])
    <3>1. CASE i = L + 1
      <4>1. i # 0 /\ i - 1 = L /\ L \in 0 .. L + 1 /\ L # L + 1
        BY <3>1, <2>2
      <4>2. v[i] = m /\ v[i - 1] = d
        BY <4>1, <3>1, <2>3
      <4> QED  BY <3>1, <4>1, <4>2, <2>2, <2>4
    <3>2. CASE i # L + 1
      <4>1. i \in 0 .. L /\ (i # 0 => i \in 1 .. L /\ i - 1 \in 0 .. L + 1 /\ i - 1 # L + 1)
        BY <3>2, <2>2
      <4>2. v[i] = w[i] /\ (i # 0 => v[i - 1] = w[i - 1])
        BY <4>1, <3>2
      <4> HIDE DEF v
      <4> QED  BY <4>1, <4>2, <2>2, <2>5
    <3> QED  BY <3>1, <3>2
  <2>7. v = [i \in 0 .. L + 1 |-> v[i]] /\ v[L + 1] = m
    BY <2>2
  <2> HIDE DEF v
  <2>8. v = [i \in 0 .. L + 1 |-> IF i = 0 THEN root ELSE ramfs_lookup(ns, v[i - 1], r[i])]
    BY <2>6, <2>7
  <2>9. IsDescent(v, ns, r) /\ v[Len(r)] = m
    BY <2>2, <2>7, <2>8 DEF IsDescent
  <2> QED  BY <2>9 DEF r
<1> HIDE DEF Led
\* Of the nodes that are not led to, one with the shortest path.
<1> DEFINE Bad == {k \in Nat : \E m \in DOMAIN ns : ~Led(m) /\ Len(p[m]) = k}
<1>5. ASSUME Bad # {}  PROVE FALSE
  <2>1. Bad \subseteq Nat
    OBVIOUS
  <2>2. PICK k \in Bad : \A j \in Bad : k <= j
    <3> HIDE DEF Bad
    <3> QED  BY <1>5, <2>1, NatHasMin
  <2>3. PICK m \in DOMAIN ns : ~Led(m) /\ Len(p[m]) = k
    BY <2>2
  <2>4. m # root
    BY <2>3, <1>3
  <2> DEFINE d == ns[m].parent
  <2>5. d \in DOMAIN ns /\ p[m] = Append(p[d], ns[m].name) /\ p[d] \in Seq(Token)
    BY <2>4, <1>1, <1>2
  <2>6. ~Led(d)
    BY <2>3, <2>4, <1>4
  <2> DEFINE j == Len(p[d])
  <2>7. j \in Nat /\ k = j + 1
    BY <2>3, <2>5
  <2>8. j \in Bad
    BY <2>5, <2>6, <2>7
  <2> HIDE DEF j, Bad
  <2> QED  BY <2>2, <2>7, <2>8
<1>6. Led(n)
  <2>1. Len(p[n]) \in Nat
    BY <1>2
  <2> QED  BY <2>1, <1>5
<1> QED  BY <1>6 DEF Led

\* No two nodes have one path.
LEMMA PathsDiffer ==
    ASSUME NEW ns, IsFs(ns), NEW p, IsPaths(ns, p), NEW n \in DOMAIN ns, NEW m \in DOMAIN ns, p[n] = p[m]
    PROVE  n = m
<1>1. PICK w : IsDescent(w, ns, p[n]) /\ w[Len(p[n])] = n
  BY PathDescends
<1>2. PICK v : IsDescent(v, ns, p[m]) /\ v[Len(p[m])] = m
  BY PathDescends
<1>3. p[n] \in Seq(Token)
  BY DEF IsPaths
<1> DEFINE q == p[n]
<1>4. IsDescent(w, ns, q) /\ IsDescent(v, ns, q) /\ q \in Seq(Token) /\ w[Len(q)] = n /\ v[Len(q)] = m
  BY <1>1, <1>2, <1>3
<1> HIDE DEF q
<1> QED  BY <1>4, DescentsAgree

LEMMA AtIsSeen ==
    ASSUME NEW ns, IsFs(ns), NEW p, IsPaths(ns, p), NEW n \in DOMAIN ns
    PROVE  At(ns, p[n]) = Seen(ns, n)
<1> DEFINE q == p[n]
           v == CHOOSE w : w = [i \in 0 .. Len(q) |-> IF i = 0 THEN root ELSE ramfs_lookup(ns, w[i - 1], q[i])]
<1>1. PICK w : IsDescent(w, ns, q) /\ w[Len(q)] = n
  BY PathDescends
<1>2. q \in Seq(Token)
  BY DEF IsPaths
<1>3. At(ns, q) = [type |-> ns[v[Len(q)]].type, content |-> ramfs_read(ns, v[Len(q)], 0, RAMFS_MAX_FILESIZE)]
  BY DEF At
<1> HIDE DEF q
<1>4. IsDescent(v, ns, q)
  BY <1>1 DEF IsDescent
<1> HIDE DEF v
<1>5. v[Len(q)] = n
  BY <1>1, <1>2, <1>4, DescentsAgree
<1> QED  BY <1>3, <1>5 DEF Seen, q

\* The table seen through its paths.
IsSeen(t, ns, p) ==
    /\ t = [q \in DOMAIN t |-> t[q]]
    /\ DOMAIN t = {p[n] : n \in DOMAIN ns}
    /\ \A n \in DOMAIN ns : t[p[n]] = Seen(ns, n)

LEMMA TreeIs ==
    ASSUME NEW ns, IsFs(ns), NEW p, IsPaths(ns, p)
    PROVE  IsSeen(TreeOf(ns), ns, p)
<1>1. {PathOf(ns, n) : n \in DOMAIN ns} = {p[n] : n \in DOMAIN ns}
  BY PathOfIs
<1>2. TreeOf(ns) = [q \in {p[n] : n \in DOMAIN ns} |-> At(ns, q)]
  BY <1>1 DEF TreeOf
<1>3. ASSUME NEW n \in DOMAIN ns  PROVE TreeOf(ns)[p[n]] = Seen(ns, n)
  BY <1>2, AtIsSeen
<1> QED  BY <1>2, <1>3 DEF IsSeen

\* A directory shows nothing of itself.
DirectoriesAreBare(ns) == \A n \in DOMAIN ns : ns[n].type = DIR => ns[n].isize = 0

LEMMA SeenDirectory ==
    ASSUME NEW ns, NEW n, ns[n].type = DIR, ns[n].isize = 0
    PROVE  Seen(ns, n) = Promised!Directory
BY DEF Seen, ramfs_read, Promised!Directory, DIR

LEMMA SeenFile ==
    ASSUME NEW ns, NEW n, ns[n].type = FILE, IsSound(ns[n])
    PROVE  Seen(ns, n) = Promised!File([i \in 1 .. ns[n].isize |-> ns[n].data[i]])
<1> DEFINE size == ns[n].isize
           data == ns[n].data
           c == ramfs_read(ns, n, 0, RAMFS_MAX_FILESIZE)
<1>1. size \in Nat /\ Len(data) \in Nat /\ size <= Len(data) /\ size <= RAMFS_MAX_FILESIZE
      /\ data \in Seq(Bytes \union {ZERO}) /\ RAMFS_MAX_FILESIZE \in Nat
  BY RamfsAssumption DEF IsSound
<1>2. c = [i \in 1 .. size |-> data[i]]
  <2>1. CASE size = 0
    <3>1. c = <<>>
      BY <2>1 DEF ramfs_read
    <3>2. 1 .. size = {}
      BY <2>1
    <3> HIDE DEF c, size
    <3> QED  BY <3>1, <3>2
  <2>2. CASE size # 0
    <3>1. size - 0 = size /\ ~(0 >= size) /\ 0 + 1 = 1 /\ 0 + size = size
          /\ 0 + (IF RAMFS_MAX_FILESIZE < size THEN RAMFS_MAX_FILESIZE ELSE size) = size
      BY <1>1, <2>2
    <3>2. c = SubSeq(data, 1, size)
      BY <3>1 DEF ramfs_read
    <3> HIDE DEF c, size, data
    <3>3. SubSeq(data, 1, size) = [i \in 1 .. size |-> data[i]]
      BY <1>1
    <3> QED  BY <3>2, <3>3
  <2> QED  BY <2>1, <2>2
<1> QED  BY <1>2 DEF Seen, Promised!File, FILE

\* A write splices the bytes into what the file shows.
LEMMA WrittenIsSpliced ==
    ASSUME NEW ns, IsFs(ns), AllSound(ns), NEW n \in DOMAIN ns, ns[n].type = FILE,
           NEW off \in Nat, NEW bytes \in Seq(Bytes), off + Len(bytes) <= RAMFS_MAX_FILESIZE
    PROVE  LET u == Written(ns, n, off, bytes)
           IN  /\ DOMAIN u = DOMAIN ns /\ \A m \in DOMAIN ns \ {n} : u[m] = ns[m]
               /\ Seen(u, n) = Promised!File(Promised!Splice(Seen(ns, n).content, off, bytes))
<1> DEFINE r == ns[n]
           len == Len(bytes)
           end == off + Len(bytes)
           buffer == Grown(r, end)
           room == Len(buffer)
           data == [i \in DOMAIN buffer |-> IF i \in off + 1 .. end THEN bytes[i - off] ELSE buffer[i]]
           isize == IF end > r.isize THEN end ELSE r.isize
           size == IF end > r.isize THEN end ELSE r.size
           x == [r EXCEPT !.data = data, !.isize = isize, !.size = size]
           u == [ns EXCEPT ![n] = x]
           old == [i \in 1 .. r.isize |-> r.data[i]]
<1>1. IsSound(r) /\ r.isize \in Nat /\ len \in Nat /\ end \in Nat /\ end <= RAMFS_MAX_FILESIZE /\ end = off + len
  BY DEF AllSound, IsSound
<1>2. Written(ns, n, off, bytes) = u
  BY DEF Written
<1>3. /\ buffer \in Seq(Bytes \union {ZERO}) /\ end <= room /\ room \in Nat /\ r.isize <= room
      /\ \A i \in r.isize + 1 .. room : buffer[i] = ZERO
  <2> HIDE DEF end
  <2> QED  BY <1>1, GrownIsSound
<1>4. \A i \in 1 .. r.isize : buffer[i] = r.data[i]
  <2> HIDE DEF end
  <2> QED  BY <1>1, GrownKeeps
<1>5. DOMAIN buffer = 1 .. room
  BY <1>3
<1>6. /\ DOMAIN u = DOMAIN ns /\ \A m \in DOMAIN ns \ {n} : u[m] = ns[m]
      /\ u[n].type = FILE /\ u[n].isize = isize /\ u[n].data = data
  <2>1. DOMAIN ns[n] = Fields
    BY DEF IsFs, IsNode
  <2> HIDE DEF data, isize, size, x
  <2>2. DOMAIN u = DOMAIN ns /\ (\A m \in DOMAIN ns \ {n} : u[m] = ns[m]) /\ u[n] = x
    OBVIOUS
  <2> HIDE DEF r, u
  <2>3. u[n].type = FILE /\ u[n].isize = isize /\ u[n].data = data
    BY <2>1, <2>2 DEF Fields, x, r
  <2> QED  BY <2>2, <2>3
<1>7. AllSound(u)
  <2> HIDE DEF u
  <2>1. AllSound(Written(ns, n, off, bytes))
    BY WrittenIsSound
  <2> QED  BY <1>2, <2>1
<1>8. Seen(u, n) = Promised!File([i \in 1 .. isize |-> data[i]])
  <2> HIDE DEF u, isize, data
  <2>1. IsSound(u[n])
    BY <1>6, <1>7 DEF AllSound
  <2> QED  BY <1>6, <2>1, SeenFile
<1>9. Seen(ns, n).content = old
  BY <1>1, SeenFile DEF Promised!File
<1>10. Len(old) = r.isize
  BY <1>1
<1> DEFINE new == [i \in 1 .. isize |-> data[i]]
<1>11. ASSUME NEW i \in 1 .. isize
       PROVE  new[i] = CASE i \in off + 1 .. end -> bytes[i - off]
                         [] i \notin off + 1 .. end /\ i <= r.isize -> old[i]
                         [] OTHER -> ZERO
  <2> DEFINE k == r.isize
  <2> HIDE DEF end, room, buffer, len
  <2>1. i \in 1 .. room /\ i \in Nat /\ i >= 1 /\ (i <= k => i \in 1 .. k) /\ (~(i <= k) => i \in k + 1 .. room)
    BY <1>1, <1>3
  <2>2. data[i] = IF i \in off + 1 .. end THEN bytes[i - off] ELSE buffer[i]
    BY <2>1, <1>5
  <2>3. new[i] = data[i]
    OBVIOUS
  <2> HIDE DEF data, isize, new
  <2>4. CASE i \in off + 1 .. end
    BY <2>2, <2>3, <2>4
  <2>5. CASE i \notin off + 1 .. end /\ i <= k
    <3>1. buffer[i] = r.data[i] /\ old[i] = r.data[i]
      BY <2>1, <2>5, <1>4
    <3> QED  BY <2>2, <2>3, <2>5, <3>1
  <2>6. CASE i \notin off + 1 .. end /\ ~(i <= k)
    <3>1. buffer[i] = ZERO
      BY <2>1, <2>6, <1>3
    <3> QED  BY <2>2, <2>3, <2>6, <3>1
  <2> QED  BY <2>4, <2>5, <2>6
<1>12. new = Promised!Splice(old, off, bytes)
  <2>1. new = [i \in 1 .. isize |-> new[i]]
    OBVIOUS
  <2> HIDE DEF new
  <2>2. new = [i \in 1 .. isize |-> CASE i \in off + 1 .. end -> bytes[i - off]
                                      [] i \notin off + 1 .. end /\ i <= r.isize -> old[i]
                                      [] OTHER -> ZERO]
    BY <1>11, <2>1
  <2> HIDE DEF old
  <2> QED  BY <1>10, <2>2 DEF Promised!Splice
<1> HIDE DEF u, new, old
<1> QED  BY <1>2, <1>6, <1>8, <1>9, <1>12 DEF new

LEMMA SeenSame ==
    ASSUME NEW ns, NEW u, NEW n, u[n].type = ns[n].type, u[n].isize = ns[n].isize, u[n].data = ns[n].data
    PROVE  Seen(u, n) = Seen(ns, n)
BY DEF Seen, ramfs_read

LEMMA LessTheLast ==
    ASSUME NEW S, NEW s \in Seq(S), NEW e \in S
    PROVE  Promised!Parent(Append(s, e)) = s /\ Append(s, e) # <<>>
<1>1. Len(s) \in Nat /\ Len(Append(s, e)) = Len(s) + 1 /\ \A k \in 1 .. Len(s) : Append(s, e)[k] = s[k]
  OBVIOUS
<1>2. Append(s, e) \in Seq(S) /\ Len(Append(s, e)) - 1 = Len(s)
  BY <1>1
<1> DEFINE r == Append(s, e)
           n == Len(s)
<1>3. r \in Seq(S) /\ Len(r) = n + 1 /\ n \in Nat /\ \A k \in 1 .. n : r[k] = s[k]
  BY <1>1, <1>2
<1>4. s = [k \in 1 .. n |-> s[k]]
  OBVIOUS
<1>5. Promised!Parent(r) = SubSeq(r, 1, n)
  BY <1>2 DEF Promised!Parent
<1> HIDE DEF r, n
<1>6. SubSeq(r, 1, n) = [k \in 1 .. n |-> r[k]]
  BY <1>3
<1>7. [k \in 1 .. n |-> r[k]] = [k \in 1 .. n |-> s[k]]
  BY <1>3
<1>8. r # <<>>
  BY <1>3
<1> QED  BY <1>4, <1>5, <1>6, <1>7, <1>8 DEF r

LEMMA CreateIsPromised ==
    ASSUME NEW ns, IsFs(ns), AllSound(ns), DirectoriesAreBare(ns), NEW p, IsPaths(ns, p),
           NEW dir \in DOMAIN ns, NEW name \in Names, NEW type \in {FILE, DIR}, NEW n \in Node \ DOMAIN ns,
           CanCreate(ns, dir, name)
    PROVE  LET u == Created(ns, dir, name, type, n)
           IN  DirectoriesAreBare(u) /\ (\E q : IsPaths(u, q)) /\ Promised!IsStep(TreeOf(ns), TreeOf(u))
<1> DEFINE u == Created(ns, dir, name, type, n)
           q == [m \in DOMAIN u |-> IF m = n THEN Append(p[dir], name) ELSE p[m]]
           t == TreeOf(ns)
           v == TreeOf(u)
           new == Append(p[dir], name)
<1>1. /\ DOMAIN u = DOMAIN ns \union {n} /\ u[n] = NewNode(name, type, dir)
      /\ u[dir] = [ns[dir] EXCEPT !.children = Append(@, n)] /\ \A m \in DOMAIN ns \ {dir} : u[m] = ns[m]
  BY DEF Created
<1>2. IsLinked(ns, u, dir, name, type, n)
  BY CreatedIsLinked
<1>3. name \in Token
  BY DEF Token
<1> HIDE DEF u
<1>4. IsFs(u) /\ IsPaths(u, q)
  BY <1>2, <1>3, LinkedIsFs, LinkedPaths
<1>5. \A m \in DOMAIN ns : q[m] = p[m]
  BY <1>1
<1>6. q[n] = new
  BY <1>1
<1> HIDE DEF q
<1>7. u[n].type = type /\ u[n].isize = 0
  BY <1>1 DEF NewNode
<1>8. \A m \in DOMAIN ns : u[m].type = ns[m].type /\ u[m].isize = ns[m].isize /\ u[m].data = ns[m].data
  <2>1. DOMAIN ns[dir] = Fields
    BY DEF IsFs, IsNode
  <2>2. u[dir].type = ns[dir].type /\ u[dir].isize = ns[dir].isize /\ u[dir].data = ns[dir].data
    BY <2>1, <1>1 DEF Fields
  <2> QED  BY <2>2, <1>1
<1>9. DirectoriesAreBare(u)
  BY <1>1, <1>7, <1>8 DEF DirectoriesAreBare
<1>10. IsSeen(t, ns, p) /\ IsSeen(v, u, q)
  BY <1>4, TreeIs
<1> HIDE DEF t, v
<1>11. DOMAIN v = DOMAIN t \union {new}
  <2>1. DOMAIN t = {p[m] : m \in DOMAIN ns} /\ DOMAIN v = {q[m] : m \in DOMAIN ns \union {n}}
    BY <1>1, <1>10 DEF IsSeen
  <2>2. {q[m] : m \in DOMAIN ns \union {n}} = {q[m] : m \in DOMAIN ns} \union {new}
    BY <1>6
  <2>3. {q[m] : m \in DOMAIN ns} = {p[m] : m \in DOMAIN ns}
    BY <1>5
  <2> HIDE DEF new
  <2> QED  BY <2>1, <2>2, <2>3
<1>12. new \notin DOMAIN t
  <2> SUFFICES ASSUME new \in DOMAIN t  PROVE FALSE
    OBVIOUS
  <2>1. PICK m \in DOMAIN ns : p[m] = new
    BY <1>10 DEF IsSeen
  <2>2. m \in DOMAIN u /\ n \in DOMAIN u /\ q[m] = q[n]
    BY <2>1, <1>1, <1>5, <1>6
  <2> HIDE DEF new
  <2>3. m = n
    BY <2>2, <1>4, PathsDiffer
  <2> QED  BY <2>3
<1>13. \A o \in DOMAIN t : v[o] = t[o]
  <2> SUFFICES ASSUME NEW o \in DOMAIN t  PROVE v[o] = t[o]
    OBVIOUS
  <2>1. PICK m \in DOMAIN ns : o = p[m]
    BY <1>10 DEF IsSeen
  <2>2. t[o] = Seen(ns, m) /\ v[o] = Seen(u, m)
    BY <2>1, <1>1, <1>5, <1>10 DEF IsSeen
  <2>3. Seen(u, m) = Seen(ns, m)
    BY <1>8, SeenSame
  <2> QED  BY <2>2, <2>3
<1>14. v[new] \in {Promised!Directory, Promised!File(<<>>)}
  <2>1. v[new] = Seen(u, n)
    BY <1>1, <1>6, <1>10 DEF IsSeen
  <2>2. CASE type = DIR
    BY <2>1, <2>2, <1>7, SeenDirectory
  <2>3. CASE type = FILE
    <3>1. Seen(u, n) = [type |-> FILE, content |-> <<>>]
      BY <2>3, <1>7 DEF Seen, ramfs_read
    <3> QED  BY <2>1, <3>1 DEF Promised!File, FILE
  <2> QED  BY <2>2, <2>3
<1>15. p[dir] \in DOMAIN t /\ t[p[dir]] = Promised!Directory
  <2>1. ns[dir].type = DIR /\ ns[dir].isize = 0
    BY DEF CanCreate, DirectoriesAreBare
  <2> QED  BY <2>1, <1>10, SeenDirectory DEF IsSeen
<1>16. Promised!Create(t, v, p[dir], name)
  BY <1>11, <1>12, <1>13, <1>14, <1>15 DEF Promised!Create
<1>17. Promised!IsStep(t, v)
  BY <1>15, <1>16 DEF Promised!IsStep
<1> QED  BY <1>4, <1>9, <1>17 DEF u, t, v

LEMMA WriteIsPromised ==
    ASSUME NEW ns, IsFs(ns), AllSound(ns), DirectoriesAreBare(ns), NEW p, IsPaths(ns, p),
           NEW n \in DOMAIN ns, ns[n].type = FILE,
           NEW off \in 0 .. RAMFS_MAX_FILESIZE, NEW bytes \in Payloads, off + Len(bytes) <= RAMFS_MAX_FILESIZE
    PROVE  LET u == Written(ns, n, off, bytes)
           IN  DirectoriesAreBare(u) /\ (\E q : IsPaths(u, q)) /\ Promised!IsStep(TreeOf(ns), TreeOf(u))
<1> DEFINE u == Written(ns, n, off, bytes)
           t == TreeOf(ns)
           v == TreeOf(u)
<1>1. off \in Nat /\ bytes \in Seq(Bytes)
  BY RamfsAssumption
<1>2. SameShape(ns, u) /\ IsFs(u)
  BY WrittenIsFs
<1>3. /\ DOMAIN u = DOMAIN ns /\ \A m \in DOMAIN ns \ {n} : u[m] = ns[m]
      /\ Seen(u, n) = Promised!File(Promised!Splice(Seen(ns, n).content, off, bytes))
  BY <1>1, WrittenIsSpliced
<1> HIDE DEF u
<1>4. IsPaths(u, p)
  BY <1>2, ShapePaths
<1>5. u[n].type = FILE /\ FILE # DIR
  BY <1>2 DEF SameShape, FILE, DIR
<1>6. DirectoriesAreBare(u)
  BY <1>3, <1>5 DEF DirectoriesAreBare
<1>7. IsSeen(t, ns, p) /\ IsSeen(v, u, p)
  BY <1>2, <1>4, TreeIs
<1> HIDE DEF t, v
<1>8. p[n] \in DOMAIN t /\ DOMAIN v = DOMAIN t
  BY <1>3, <1>7 DEF IsSeen
<1>9. t[p[n]].type = "file" /\ v[p[n]] = Promised!File(Promised!Splice(t[p[n]].content, off, bytes))
  <2>1. t[p[n]] = Seen(ns, n) /\ v[p[n]] = Seen(u, n)
    BY <1>3, <1>7 DEF IsSeen
  <2>2. Seen(ns, n).type = "file"
    BY DEF Seen, FILE
  <2> QED  BY <2>1, <2>2, <1>3
<1>10. \A o \in DOMAIN t \ {p[n]} : v[o] = t[o]
  <2> SUFFICES ASSUME NEW o \in DOMAIN t \ {p[n]}  PROVE v[o] = t[o]
    OBVIOUS
  <2>1. PICK m \in DOMAIN ns : o = p[m]
    BY <1>7 DEF IsSeen
  <2>2. m # n
    BY <2>1
  <2>3. t[o] = Seen(ns, m) /\ v[o] = Seen(u, m)
    BY <2>1, <1>3, <1>7 DEF IsSeen
  <2>4. u[m] = ns[m]
    BY <2>2, <1>3
  <2>5. Seen(u, m) = Seen(ns, m)
    BY <2>4, SeenSame
  <2> QED  BY <2>3, <2>5
<1>11. Promised!Write(t, v, p[n])
  BY <1>8, <1>9, <1>10 DEF Promised!Write
<1>12. Promised!IsStep(t, v)
  BY <1>8, <1>11 DEF Promised!IsStep
<1> QED  BY <1>4, <1>6, <1>12 DEF u, t, v

LEMMA UnlinkIsPromised ==
    ASSUME NEW ns, IsFs(ns), DirectoriesAreBare(ns), NEW p, IsPaths(ns, p),
           NEW n \in DOMAIN ns \ {root}, CanUnlink(ns, n)
    PROVE  LET u == Unlinked(ns, ns[n].parent, n)
           IN  DirectoriesAreBare(u) /\ (\E q : IsPaths(u, q)) /\ Promised!IsStep(TreeOf(ns), TreeOf(u))
<1> DEFINE dir == ns[n].parent
           u == Unlinked(ns, dir, n)
           q == [m \in DOMAIN u |-> p[m]]
           t == TreeOf(ns)
           v == TreeOf(u)
<1>1. dir \in DOMAIN ns \ {n} /\ IsFs(u)
  BY UnlinkedIsFs
<1>2. /\ DOMAIN u = DOMAIN ns \ {n}
      /\ u[dir] = [ns[dir] EXCEPT !.children = WithoutChild(@, n)] /\ \A m \in DOMAIN ns \ {dir, n} : u[m] = ns[m]
  BY <1>1 DEF Unlinked
<1>3. IsUnlinked(ns, u, dir, n)
  BY <1>1, UnlinkedIsUnlinked
<1> HIDE DEF u
<1>4. IsPaths(u, q)
  BY <1>1, <1>3, UnlinkedPaths
<1>5. \A m \in DOMAIN u : q[m] = p[m]
  OBVIOUS
<1> HIDE DEF q
<1>6. \A m \in DOMAIN u : u[m].type = ns[m].type /\ u[m].isize = ns[m].isize /\ u[m].data = ns[m].data
  <2>1. DOMAIN ns[dir] = Fields
    BY <1>1 DEF IsFs, IsNode
  <2>2. u[dir].type = ns[dir].type /\ u[dir].isize = ns[dir].isize /\ u[dir].data = ns[dir].data
    BY <2>1, <1>1, <1>2 DEF Fields
  <2> QED  BY <2>2, <1>2
<1>7. DirectoriesAreBare(u)
  BY <1>2, <1>6 DEF DirectoriesAreBare
<1>8. IsSeen(t, ns, p) /\ IsSeen(v, u, q)
  BY <1>1, <1>4, TreeIs
<1> HIDE DEF t, v, dir
<1>9. \A m \in DOMAIN ns : p[m] = p[n] => m = n
  BY PathsDiffer
<1>10. p[n] \in DOMAIN t /\ DOMAIN v = DOMAIN t \ {p[n]}
  BY <1>2, <1>5, <1>8, <1>9 DEF IsSeen
<1>11. \A m \in DOMAIN ns \ {root} : ns[m].parent \in DOMAIN ns /\ p[m] # <<>> /\ Promised!Parent(p[m]) = p[ns[m].parent]
  <2> SUFFICES ASSUME NEW m \in DOMAIN ns \ {root}
               PROVE  ns[m].parent \in DOMAIN ns /\ p[m] # <<>> /\ Promised!Parent(p[m]) = p[ns[m].parent]
    OBVIOUS
  <2>1. ns[m].parent \in DOMAIN ns
    BY DEF IsFs, IsTree
  <2> DEFINE s == p[ns[m].parent]
             e == ns[m].name
  <2>2. s \in Seq(Token) /\ p[m] = Append(s, e) /\ p[m] \in Seq(Token)
    BY <2>1 DEF IsPaths
  <2> HIDE DEF s, e
  <2>3. s \in Seq(Token \union {e})
    BY <2>2
  <2>4. e \in Token \union {e}
    OBVIOUS
  <2>5. Promised!Parent(Append(s, e)) = s /\ Append(s, e) # <<>>
    BY <2>3, <2>4, LessTheLast
  <2> QED  BY <2>1, <2>2, <2>5 DEF s
<1>12. ASSUME NEW o \in DOMAIN v, o # <<>>  PROVE Promised!Parent(o) # p[n]
  <2>1. PICK m \in DOMAIN u : o = p[m]
    BY <1>5, <1>8 DEF IsSeen
  <2>2. m \in DOMAIN ns /\ m # root
    BY <2>1, <1>2, <1>12 DEF IsPaths
  <2> SUFFICES ASSUME p[ns[m].parent] = p[n]  PROVE FALSE
    BY <2>1, <2>2, <1>11
  <2>3. ns[m].parent = n
    BY <2>2, <1>9, <1>11
  <2>4. PICK i \in DOMAIN ns[n].children : ns[n].children[i] = m
    BY <2>2, <2>3 DEF IsFs, IsTree
  <2>5. ns[n].type = DIR /\ ns[n].children # <<>>
    BY <2>4 DEF IsFs, IsTree
  <2> QED  BY <2>5 DEF CanUnlink
<1>13. \A o \in DOMAIN v : v[o] = t[o]
  <2> SUFFICES ASSUME NEW o \in DOMAIN v  PROVE v[o] = t[o]
    OBVIOUS
  <2>1. PICK m \in DOMAIN u : o = q[m]
    BY <1>8 DEF IsSeen
  <2>2. t[o] = Seen(ns, m) /\ v[o] = Seen(u, m)
    BY <2>1, <1>2, <1>5, <1>8 DEF IsSeen
  <2>3. Seen(u, m) = Seen(ns, m)
    BY <1>6, SeenSame
  <2> QED  BY <2>2, <2>3
<1>14. Promised!Remove(t, v, p[n])
  BY <1>10, <1>11, <1>12, <1>13 DEF Promised!Remove
<1>15. Promised!IsStep(t, v)
  BY <1>10, <1>14 DEF Promised!IsStep
<1> QED  BY <1>4, <1>7, <1>15 DEF u, t, v, dir

\* The nodes are a sound tree that can be looked at by path.
RamfsHasPaths == RamfsInv /\ DirectoriesAreBare(nodes) /\ \E p : IsPaths(nodes, p)

LEMMA StartIsPromised == RamfsInit => RamfsHasPaths /\ Promised!TreeInit
<1> SUFFICES ASSUME RamfsInit  PROVE RamfsHasPaths /\ Promised!TreeInit
  OBVIOUS
<1>1. DOMAIN nodes = {root} /\ nodes[root].type = DIR /\ nodes[root].isize = 0
  BY DEF RamfsInit, NewNode, FILE, DIR
<1>2. RamfsInv
  BY StartIsFs
<1>3. DirectoriesAreBare(nodes)
  BY <1>1 DEF DirectoriesAreBare
<1> DEFINE p == [n \in {root} |-> <<>>]
           t == TreeOf(nodes)
<1>4. IsPaths(nodes, p)
  BY <1>1 DEF IsPaths
<1>5. IsSeen(t, nodes, p)
  BY <1>2, <1>4, TreeIs DEF RamfsInv
<1>6. p[root] = <<>> /\ Seen(nodes, root) = Promised!Directory
  BY <1>1, SeenDirectory
<1> HIDE DEF t, p
<1>7. DOMAIN t = {<<>>} /\ t[<<>>] = Promised!Directory
  BY <1>1, <1>5, <1>6 DEF IsSeen
<1>8. t = [o \in {<<>>} |-> Promised!Directory]
  BY <1>5, <1>7 DEF IsSeen
<1> QED  BY <1>2, <1>3, <1>4, <1>8 DEF RamfsHasPaths, Promised!TreeInit, t

LEMMA StepIsPromised ==
    RamfsHasPaths /\ [RamfsNext]_ramfs
    => RamfsHasPaths' /\ [\E t \in {TreeOf(nodes)}, u \in {TreeOf(nodes)'} : Promised!IsStep(t, u)]_(TreeOf(nodes))
<1> DEFINE StaysThere == DirectoriesAreBare(nodes') /\ \E q : IsPaths(nodes', q)
           Promises == Promised!IsStep(TreeOf(nodes), TreeOf(nodes'))
<1> SUFFICES ASSUME RamfsHasPaths, [RamfsNext]_ramfs
             PROVE  StaysThere /\ (Promises \/ nodes' = nodes)
  BY StepKeepsFs DEF RamfsHasPaths, DirectoriesAreBare, IsPaths
<1>1. IsFs(nodes) /\ AllSound(nodes) /\ DirectoriesAreBare(nodes)
  BY DEF RamfsHasPaths, RamfsInv
<1>2. PICK p : IsPaths(nodes, p)
  BY DEF RamfsHasPaths
<1>3. ASSUME nodes' = nodes  PROVE StaysThere
  BY <1>1, <1>2, <1>3
<1>4. ASSUME NEW dir \in Live, NEW name \in Names, NEW type \in {FILE, DIR}, ramfs_create(dir, name, type)
      PROVE  StaysThere /\ (Promises \/ nodes' = nodes)
  <2>1. CanCreate(nodes, dir, name) /\ dir \in DOMAIN nodes
    BY <1>4 DEF ramfs_create, Live
  <2>2. ASSUME NEW n \in Node \ Live, nodes' = Created(nodes, dir, name, type, n)  PROVE StaysThere /\ Promises
    BY <2>1, <2>2, <1>1, <1>2, CreateIsPromised DEF Live
  <2> QED  BY <1>3, <1>4, <2>2 DEF ramfs_create
<1>5. ASSUME NEW n \in Live, NEW off \in 0 .. RAMFS_MAX_FILESIZE, NEW bytes \in Payloads, ramfs_write(n, off, bytes)
      PROVE  StaysThere /\ Promises
  <2>1. /\ nodes[n].type = FILE /\ off + Len(bytes) <= RAMFS_MAX_FILESIZE
        /\ nodes' = Written(nodes, n, off, bytes) /\ n \in DOMAIN nodes
    BY <1>5 DEF ramfs_write, Live
  <2> QED  BY <2>1, <1>1, <1>2, WriteIsPromised
<1>6. ASSUME NEW n \in Live, n # root, ramfs_unlink(nodes[n].parent, n)  PROVE StaysThere /\ Promises
  <2>1. CanUnlink(nodes, n) /\ nodes' = Unlinked(nodes, nodes[n].parent, n) /\ n \in DOMAIN nodes \ {root}
    BY <1>6 DEF ramfs_unlink, Live
  <2> QED  BY <2>1, <1>1, <1>2, UnlinkIsPromised
<1>7. CASE UNCHANGED ramfs
  BY <1>3, <1>7 DEF ramfs
<1> QED  BY <1>4, <1>5, <1>6, <1>7 DEF RamfsNext

\* Looked at by path and content, every operation is one step of the promised
\* tree or, where an allocation fails, none (ramfs.c:87-212).
THEOREM RamfsImplementsFileTree == RamfsSpec => RefinesFileTree
<1>1. RamfsInit => RamfsHasPaths /\ Promised!TreeInit
  BY StartIsPromised
<1>2. RamfsHasPaths /\ [RamfsNext]_ramfs
      => RamfsHasPaths' /\ [\E t \in {TreeOf(nodes)}, u \in {TreeOf(nodes)'} : Promised!IsStep(t, u)]_(TreeOf(nodes))
  BY StepIsPromised
<1> QED  BY <1>1, <1>2, PTL DEF RamfsSpec, RefinesFileTree, Promised!TreeSpec
=============================================================================
