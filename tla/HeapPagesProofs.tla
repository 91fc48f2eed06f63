-------------------------- MODULE HeapPagesProofs --------------------------
(***************************************************************************)
(* Proofs about the heap of the memory pool, for any threads, pages, units *)
(* and requests: first the free tree of a page, then the pages and their   *)
(* threads (HeapInv), then the blocks of the pages (BlockInv).             *)
(***************************************************************************)
EXTENDS HeapPages, FiniteSetTheorems, SequenceTheorems, WellFoundedInduction, TLAPS

(***************************************************************************)
(* The free tree of a page.                                                *)
(***************************************************************************)
Sides == {"left", "right"}
TreeType == [root : Offsets \cup {None}, node : [Offsets -> Header]]
SizeAt(t, x) == t.node[x].size

(* What is at a side of a size: equal sizes may stand at either.           *)
Ordered(s, a, b) == IF s = "left" THEN a <= b ELSE b <= a

(* What is below a node on one side; sub gives the subtree at a node.      *)
Kids(t, sub, x, s) == IF HasChild(t, x, s) THEN sub[Child(t, x, s)] ELSE {}

(* A node: its children have it as parent, what is at its left and what is *)
(* at its right are apart and in order, and it with them makes up its      *)
(* subtree.                                                                *)
NodeOK(t, S, par, sub, x) ==
  /\ \A s \in Sides : HasChild(t, x, s) => Child(t, x, s) \in S /\ par[Child(t, x, s)] = x
  /\ \A s \in Sides : x \notin Kids(t, sub, x, s)
  /\ \A s \in Sides : \A u \in Kids(t, sub, x, s) : Ordered(s, SizeAt(t, u), SizeAt(t, x))
  /\ Kids(t, sub, x, "left") \cap Kids(t, sub, x, "right") = {}
  /\ sub[x] = {x} \cup Kids(t, sub, x, "left") \cup Kids(t, sub, x, "right")
  /\ sub[x] \subseteq S

(* t is a search tree of the nodes S; par gives each node's parent.        *)
Tree(t, S, par, sub) ==
  /\ t \in TreeType /\ S \subseteq Offsets
  /\ par \in [Offsets -> Offsets \cup {None}] /\ sub \in [Offsets -> SUBSET Offsets]
  /\ \A x \in Offsets \ S, s \in Sides : ~HasChild(t, x, s)
  /\ \A x \in S : NodeOK(t, S, par, sub, x)
  /\ t.root = None => S = {}
  /\ t.root # None => t.root \in S /\ par[t.root] = None /\ sub[t.root] = S

(* The nodes determine the parents and the subtrees; most facts leave them *)
(* out.                                                                    *)
IsTree(t, S) == \E par, sub : Tree(t, S, par, sub)
SameSizes(n, t) == \A y \in Offsets : SizeAt(n, y) = SizeAt(t, y)
-----------------------------------------------------------------------------
(* The offsets of a page, and the mark for no node.                        *)
LEMMA NoneIs == Offsets \subseteq Nat /\ None \notin Offsets
BY TreeAssumption DEF Offsets, None

(* A page has finitely many offsets.                                       *)
LEMMA OffsetsFinite == IsFiniteSet(Offsets) /\ Cardinality(Offsets) = Units
<1>1. 0 \in Int /\ Units - 1 \in Int /\ 0 <= Units - 1 /\ (Units - 1) - 0 + 1 = Units
  BY TreeAssumption
<1> QED BY <1>1, FS_Interval DEF Offsets

(* A set of natural numbers has a least element.                           *)
LEMMA LeastNatural ==
  ASSUME NEW T \in SUBSET Nat, T # {}
  PROVE  \E x \in T : \A y \in T : ~(y < x)
<1> DEFINE Segments == {0 .. x : x \in T}
<1>1. Segments \subseteq FiniteSubsetsOf(Nat) /\ Segments # {}
  <2>1. \A x \in T : 0 .. x \in SUBSET Nat /\ IsFiniteSet(0 .. x)
    BY FS_Interval
  <2> QED BY <2>1 DEF FiniteSubsetsOf
<1>2. PICK X \in Segments : \A Y \in Segments : ~(<<Y, X>> \in StrictSubsetOrdering(Nat))
  <2> HIDE DEF Segments
  <2> QED BY <1>1, WFMin, FS_StrictSubsetOrderingWellFounded
<1>3. PICK x \in T : X = 0 .. x
  BY <1>2
<1>4. ASSUME NEW y \in T, y < x PROVE FALSE
  <2>1. 0 .. y \subseteq 0 .. x /\ 0 .. y # 0 .. x
    <3>1. x \in 0 .. x /\ x \notin 0 .. y
      BY <1>4
    <3> QED BY <1>4, <3>1
  <2>2. 0 .. y \in SUBSET Nat /\ 0 .. x \in SUBSET Nat
    OBVIOUS
  <2>3. <<0 .. y, 0 .. x>> \in StrictSubsetOrdering(Nat)
    <3>1. \A A, B \in SUBSET Nat : A \subseteq B /\ A # B => <<A, B>> \in StrictSubsetOrdering(Nat)
      BY DEF StrictSubsetOrdering
    <3> QED BY <2>1, <2>2, <3>1
  <2>4. 0 .. y \in Segments
    OBVIOUS
  <2> QED BY <1>2, <1>3, <2>3, <2>4
<1> QED BY <1>4

(* The header of a node.                                                   *)
LEMMA ChildType ==
  ASSUME NEW t \in TreeType, NEW y \in Offsets
  PROVE  SizeAt(t, y) \in 0 .. Units /\ \A s \in Sides : Child(t, y, s) \in Offsets
BY DEF TreeType, Header, SizeAt, Child

(* A link changes just the link.                                           *)
Relinked(t, n, p, s, c) ==
  /\ n \in TreeType /\ n.root = t.root /\ SameSizes(n, t) /\ Child(n, p, s) = c
  /\ \A y \in Offsets, r \in Sides : y # p \/ r # s => Child(n, y, r) = Child(t, y, r)

(* A child's link is set.                                                  *)
LEMMA LinkedIs ==
  ASSUME NEW t \in TreeType, NEW p \in Offsets, NEW s \in Sides, NEW c \in Offsets,
         NEW n, n = Linked(t, p, s, c)
  PROVE  Relinked(t, n, p, s, c)
<1>1. CASE s = "left"
  <2>1. Linked(t, p, s, c) = [t EXCEPT !.node[p].left = c]
    BY <1>1 DEF Linked
  <2> QED BY <1>1, <2>1 DEF TreeType, Header, SameSizes, SizeAt, Child, Sides, Relinked
<1>2. CASE s = "right"
  <2>1. Linked(t, p, s, c) = [t EXCEPT !.node[p].right = c]
    BY <1>2 DEF Linked
  <2> QED BY <1>2, <2>1 DEF TreeType, Header, SameSizes, SizeAt, Child, Sides, Relinked
<1> QED BY <1>1, <1>2 DEF Sides

(* The root is set.                                                        *)
LEMMA RootLinkedIs ==
  ASSUME NEW t \in TreeType, NEW p, NEW c \in Offsets \cup {None}
  PROVE  LET n == Linked(t, p, "root", c)
         IN /\ n \in TreeType /\ n.root = c /\ SameSizes(n, t)
            /\ \A y \in Offsets, r \in Sides : Child(n, y, r) = Child(t, y, r)
<1>1. Linked(t, p, "root", c) = [t EXCEPT !.root = c]
  BY DEF Linked
<1> QED BY <1>1 DEF TreeType, SameSizes, SizeAt, Child

(* mp_heap_btree_node_init: a node without children.                       *)
LEMMA UnlinkedIs ==
  ASSUME NEW t \in TreeType, NEW x \in Offsets
  PROVE  LET n == Unlinked(t, x)
         IN /\ n \in TreeType /\ n.root = t.root /\ SameSizes(n, t)
            /\ \A y \in Offsets, r \in Sides :
                 Child(n, y, r) = IF y = x THEN x ELSE Child(t, y, r)
<1> DEFINE n == Unlinked(t, x)
<1>1. n = [t EXCEPT !.node = [t.node EXCEPT ![x] = [t.node[x] EXCEPT !.left = x, !.right = x]]]
  BY DEF Unlinked, TreeType, Header
<1> HIDE DEF n
<1>a. PICK h : h = [t.node[x] EXCEPT !.left = x, !.right = x]
  OBVIOUS
<1>b. t.node[x] \in Header /\ h \in Header
  <2>1. PICK g : g = t.node[x]
    OBVIOUS
  <2>2. g \in Header
    BY <2>1 DEF TreeType
  <2>3. h = [g EXCEPT !.left = x, !.right = x]
    BY <1>a, <2>1
  <2> QED BY <2>1, <2>2, <2>3 DEF Header
<1>2. n.root = t.root /\ n \in TreeType
  BY <1>1, <1>a, <1>b DEF TreeType
<1>3. /\ n.node[x] = [t.node[x] EXCEPT !.left = x, !.right = x]
      /\ \A y \in Offsets : y # x => n.node[y] = t.node[y]
  BY <1>1 DEF TreeType
<1>4. n.node[x].left = x /\ n.node[x].right = x /\ n.node[x].size = t.node[x].size
  BY <1>3 DEF TreeType, Header
<1> QED BY <1>2, <1>3, <1>4 DEF SameSizes, SizeAt, Child, n
-----------------------------------------------------------------------------
(* What a tree consists of.                                                *)
LEMMA TreeFacts ==
  ASSUME NEW t, NEW S, NEW par, NEW sub, Tree(t, S, par, sub)
  PROVE  /\ t \in TreeType /\ S \subseteq Offsets /\ IsFiniteSet(S)
         /\ par \in [Offsets -> Offsets \cup {None}] /\ sub \in [Offsets -> SUBSET Offsets]
         /\ \A x \in Offsets \ S, s \in Sides : ~HasChild(t, x, s)
         /\ \A x \in S : NodeOK(t, S, par, sub, x)
         /\ \A x \in S, s \in Sides : Kids(t, sub, x, s) \subseteq S
         /\ \A x \in S : x \in sub[x]
<1>1. S \subseteq Offsets
  BY DEF Tree
<1>2. IsFiniteSet(S)
  BY <1>1, OffsetsFinite, FS_Subset
<1>3. \A x \in S : NodeOK(t, S, par, sub, x)
  BY DEF Tree
<1>4. \A x \in S, s \in Sides : Kids(t, sub, x, s) \subseteq S
  BY <1>3 DEF NodeOK, Sides
<1> QED BY <1>1, <1>2, <1>3, <1>4 DEF Tree, NodeOK

(* What holds of a node if it holds of its children holds of all.          *)
LEMMA TreeInduction ==
  ASSUME NEW t, NEW S, NEW par, NEW sub, Tree(t, S, par, sub),
         NEW T, \A x \in S :
           (\A s \in Sides : HasChild(t, x, s) => Child(t, x, s) \in T) => x \in T
  PROVE  S \subseteq T
<1> DEFINE Bad == S \ T
           N == {Cardinality(sub[x]) : x \in Bad}
<1> SUFFICES ASSUME Bad # {} PROVE FALSE
  OBVIOUS
<1>1. \A x \in S : IsFiniteSet(sub[x]) /\ Cardinality(sub[x]) \in Nat
  <2> TAKE x \in S
  <2>1. sub[x] \subseteq S /\ IsFiniteSet(S)
    BY TreeFacts DEF NodeOK
  <2> QED BY <2>1, FS_Subset, FS_CardinalityType
<1>2. N \in SUBSET Nat /\ N # {}
  BY <1>1
<1>3. PICK m \in N : \A k \in N : ~(k < m)
  <2> HIDE DEF N
  <2> QED BY <1>2, LeastNatural
<1>4. PICK x \in Bad : m = Cardinality(sub[x])
  BY <1>3
<1>5. PICK s \in Sides : HasChild(t, x, s) /\ Child(t, x, s) \notin T
  OBVIOUS
<1>6. PICK c : c = Child(t, x, s)
  OBVIOUS
<1>7. c \in Bad /\ c \in S /\ Kids(t, sub, x, s) = sub[c] /\ x \in S
  BY <1>5, <1>6, TreeFacts DEF NodeOK, Kids
<1>8. sub[c] \subseteq sub[x] /\ x \in sub[x] /\ x \notin sub[c]
  BY <1>7, TreeFacts DEF NodeOK, Sides
<1>9. Cardinality(sub[c]) < Cardinality(sub[x])
  <2>1. Cardinality(sub[c]) <= Cardinality(sub[x])
        /\ (Cardinality(sub[c]) = Cardinality(sub[x]) => sub[c] = sub[x])
    BY <1>1, <1>7, <1>8, FS_Subset
  <2>2. sub[c] # sub[x]
    BY <1>8
  <2> QED BY <1>1, <1>7, <2>1, <2>2
<1> QED BY <1>3, <1>4, <1>7, <1>9

(* From each node a leads to a child, or nowhere.                          *)
Follows(t, a) ==
  /\ a \in [Offsets -> Offsets]
  /\ \A x \in Offsets : a[x] # x => \E s \in Sides : HasChild(t, x, s) /\ a[x] = Child(t, x, s)

(* f computes a value from those of two children, d where there is none.   *)
Computes(V, d, F, a, b, f) ==
  \A x \in Offsets, u, v \in V :
    /\ a[x] = x => u = d
    /\ a[x] # x => u = f[a[x]]
    /\ b[x] = x => v = d
    /\ b[x] # x => v = f[b[x]]
    => f[x] = F[x][u][v]

(* A function that is defined by recursion along the links exists.         *)
LEMMA TreeRecursion ==
  ASSUME NEW t, NEW S, NEW par, NEW sub, Tree(t, S, par, sub),
         NEW V, NEW d \in V, NEW F \in [Offsets -> [V -> [V -> V]]],
         NEW a, NEW b, Follows(t, a), Follows(t, b)
  PROVE  \E f \in [Offsets -> V] : Computes(V, d, F, a, b, f)
<1>m. PICK m : m = [x \in Offsets |-> IF x \in S THEN Cardinality(sub[x]) ELSE 0]
  OBVIOUS
<1> DEFINE Val(f, x) == F[x][IF a[x] = x THEN d ELSE f[a[x]]][IF b[x] = x THEN d ELSE f[b[x]]]
           Reaches(n) == \E f \in [Offsets -> V] : \A x \in Offsets : m[x] < n => f[x] = Val(f, x)
<1>1. \A x \in S : IsFiniteSet(sub[x]) /\ Cardinality(sub[x]) \in Nat /\ Cardinality(sub[x]) <= Units
  <2> TAKE x \in S
  <2>1. sub[x] \subseteq Offsets
    BY TreeFacts
  <2> QED BY <2>1, OffsetsFinite, FS_Subset, FS_CardinalityType
<1>2. m \in [Offsets -> Nat] /\ \A x \in Offsets : m[x] <= Units
  BY <1>1, <1>m, TreeAssumption
<1>3. ASSUME NEW x \in Offsets, NEW s \in Sides, HasChild(t, x, s)
      PROVE  m[Child(t, x, s)] < m[x]
  <2>1. PICK c : c = Child(t, x, s)
    OBVIOUS
  <2>2. x \in S
    BY <1>3, TreeFacts
  <2>3. c \in S /\ Kids(t, sub, x, s) = sub[c]
    BY <1>3, <2>1, <2>2, TreeFacts DEF NodeOK, Kids
  <2>4. sub[c] \subseteq sub[x] /\ x \in sub[x] /\ x \notin sub[c]
    BY <2>2, <2>3, TreeFacts DEF NodeOK, Sides
  <2>5. /\ Cardinality(sub[c]) <= Cardinality(sub[x])
        /\ Cardinality(sub[c]) = Cardinality(sub[x]) => sub[c] = sub[x]
    BY <1>1, <2>2, <2>3, <2>4, FS_Subset
  <2>6. sub[c] # sub[x]
    BY <2>4
  <2>7. m[c] = Cardinality(sub[c]) /\ m[x] = Cardinality(sub[x])
    BY <1>m, <2>2, <2>3, TreeFacts
  <2>8. PICK i \in Nat, j \in Nat : i = Cardinality(sub[c]) /\ j = Cardinality(sub[x])
    BY <1>1, <2>2, <2>3
  <2>9. i <= j /\ i # j
    BY <2>5, <2>6, <2>8
  <2>10. m[c] = i /\ m[x] = j
    BY <2>7, <2>8
  <2>11. i < j
    BY <2>9
  <2> QED BY <2>1, <2>10, <2>11
<1>4. \A x \in Offsets : /\ a[x] \in Offsets /\ (a[x] # x => m[a[x]] < m[x])
                         /\ b[x] \in Offsets /\ (b[x] # x => m[b[x]] < m[x])
  BY <1>3 DEF Follows
<1>5. Reaches(0)
  <2>1. [x \in Offsets |-> d] \in [Offsets -> V]
    OBVIOUS
  <2>2. \A x \in Offsets : ~(m[x] < 0)
    BY <1>2
  <2> QED BY <2>1, <2>2
<1>6. ASSUME NEW n \in Nat, Reaches(n) PROVE Reaches(n + 1)
  <2>1. PICK f \in [Offsets -> V] : \A x \in Offsets : m[x] < n => f[x] = Val(f, x)
    BY <1>6
  <2> DEFINE g == [x \in Offsets |-> IF m[x] < n THEN f[x] ELSE Val(f, x)]
  <2>2. \A x \in Offsets : Val(f, x) \in V
    <3> TAKE x \in Offsets
    <3>1. PICK u \in V : u = IF a[x] = x THEN d ELSE f[a[x]]
      BY <1>4
    <3>2. PICK v \in V : v = IF b[x] = x THEN d ELSE f[b[x]]
      BY <1>4
    <3>3. F[x][u][v] \in V
      OBVIOUS
    <3> QED BY <3>1, <3>2, <3>3
  <2>3. g \in [Offsets -> V]
    BY <2>2
  <2>4. ASSUME NEW x \in Offsets, m[x] < n + 1 PROVE g[x] = Val(g, x)
    <3>1. a[x] # x => g[a[x]] = f[a[x]]
      <4>1. a[x] # x => m[a[x]] < n
        BY <1>2, <1>4, <2>4
      <4> QED BY <1>4, <4>1
    <3>2. b[x] # x => g[b[x]] = f[b[x]]
      <4>1. b[x] # x => m[b[x]] < n
        BY <1>2, <1>4, <2>4
      <4> QED BY <1>4, <4>1
    <3>3. Val(g, x) = Val(f, x)
      BY <3>1, <3>2
    <3>4. g[x] = Val(f, x)
      BY <2>1
    <3> QED BY <3>3, <3>4
  <2> HIDE DEF g, Val
  <2> QED BY <2>3, <2>4
<1> HIDE DEF Reaches
<1>7. Reaches(Units + 1)
  <2> DEFINE Bad == {n \in Nat : ~Reaches(n)}
  <2> SUFFICES ASSUME Bad # {} PROVE FALSE
    BY TreeAssumption
  <2>1. Bad \in SUBSET Nat
    OBVIOUS
  <2>2. PICK n \in Bad : \A k \in Bad : ~(k < n)
    <3> HIDE DEF Bad
    <3> QED BY <2>1, LeastNatural
  <2>3. n \in Nat /\ n # 0 /\ ~Reaches(n)
    BY <1>5, <2>2
  <2>4. n - 1 \in Nat /\ n - 1 < n /\ (n - 1) + 1 = n
    BY <2>3
  <2>5. Reaches(n - 1)
    BY <2>2, <2>4
  <2> QED BY <1>6, <2>3, <2>4, <2>5
<1>8. \A x \in Offsets : m[x] < Units + 1
  BY <1>2, TreeAssumption
<1>9. PICK f \in [Offsets -> V] : \A x \in Offsets : f[x] = Val(f, x)
  BY <1>7, <1>8 DEF Reaches
<1>10. ASSUME NEW x \in Offsets, NEW u \in V, NEW v \in V, a[x] = x => u = d, a[x] # x => u = f[a[x]],
              b[x] = x => v = d, b[x] # x => v = f[b[x]]
       PROVE  f[x] = F[x][u][v]
  <2>1. u = (IF a[x] = x THEN d ELSE f[a[x]]) /\ v = IF b[x] = x THEN d ELSE f[b[x]]
    BY <1>10
  <2> QED BY <1>9, <2>1
<1> HIDE DEF Val
<1> QED BY <1>10 DEF Computes
-----------------------------------------------------------------------------
(***************************************************************************)
(* A subtree spans an interval of sizes; a node that fits there can be     *)
(* attached to one of its nodes.                                           *)
(***************************************************************************)
(* With a node, its parent is at or below the same nodes.                  *)
LEMMA ParentBelow ==
  ASSUME NEW t, NEW S, NEW par, NEW sub, Tree(t, S, par, sub)
  PROVE  \A y \in S : \A c \in sub[y] : c # y => par[c] \in sub[y]
<1> DEFINE T == {y \in S : \A c \in sub[y] : c # y => par[c] \in sub[y]}
<1>1. ASSUME NEW x \in S, \A s \in Sides : HasChild(t, x, s) => Child(t, x, s) \in T
      PROVE  x \in T
  <2> SUFFICES ASSUME NEW c \in sub[x], c # x PROVE par[c] \in sub[x]
    OBVIOUS
  <2>1. NodeOK(t, S, par, sub, x)
    BY TreeFacts
  <2>2. PICK s \in Sides : c \in Kids(t, sub, x, s)
    BY <2>1 DEF NodeOK, Sides
  <2>3. PICK d : d = Child(t, x, s)
    OBVIOUS
  <2>4. HasChild(t, x, s) /\ c \in sub[d] /\ d \in T /\ par[d] = x /\ sub[d] \subseteq sub[x]
    BY <1>1, <2>1, <2>2, <2>3 DEF Kids, NodeOK, Sides
  <2>5. CASE c = d
    BY <2>1, <2>4, <2>5 DEF NodeOK
  <2>6. CASE c # d
    BY <2>4, <2>6
  <2> QED BY <2>5, <2>6
<1> HIDE DEF T
<1>2. S \subseteq T
  BY <1>1, TreeInduction
<1> QED BY <1>2 DEF T

(* What is below a node of a subtree is in the subtree.                    *)
LEMMA SubtreesNest ==
  ASSUME NEW t, NEW S, NEW par, NEW sub, Tree(t, S, par, sub)
  PROVE  \A y \in S : \A c \in sub[y] : sub[c] \subseteq sub[y]
<1> DEFINE T == {y \in S : \A c \in sub[y] : sub[c] \subseteq sub[y]}
<1>1. ASSUME NEW x \in S, \A s \in Sides : HasChild(t, x, s) => Child(t, x, s) \in T
      PROVE  x \in T
  <2> SUFFICES ASSUME NEW c \in sub[x], c # x PROVE sub[c] \subseteq sub[x]
    OBVIOUS
  <2>1. NodeOK(t, S, par, sub, x)
    BY TreeFacts
  <2>2. PICK s \in Sides : c \in Kids(t, sub, x, s)
    BY <2>1 DEF NodeOK, Sides
  <2>3. PICK d : d = Child(t, x, s)
    OBVIOUS
  <2>4. HasChild(t, x, s) /\ c \in sub[d] /\ d \in T /\ sub[d] \subseteq sub[x]
    BY <1>1, <2>1, <2>2, <2>3 DEF Kids, NodeOK, Sides
  <2> QED BY <2>4
<1> HIDE DEF T
<1>2. S \subseteq T
  BY <1>1, TreeInduction
<1> QED BY <1>2 DEF T

(* A size may be put at and below p as far as the nodes above it go.       *)
Fits(t, S, sub, p, z) ==
  \A y \in S, s \in Sides : p \in Kids(t, sub, y, s) => Ordered(s, z, SizeAt(t, y))

(* Every size fits at the root, where the insertion begins.                *)
LEMMA RootFits ==
  ASSUME NEW t, NEW S, NEW par, NEW sub, Tree(t, S, par, sub), t.root # None, NEW z
  PROVE  Fits(t, S, sub, t.root, z)
<1> SUFFICES ASSUME NEW y \in S, NEW s \in Sides, t.root \in Kids(t, sub, y, s) PROVE FALSE
  BY DEF Fits
<1>1. PICK c : c = Child(t, y, s)
  OBVIOUS
<1>2. HasChild(t, y, s) /\ c \in S /\ par[c] = y /\ t.root \in sub[c]
  BY <1>1, TreeFacts DEF Kids, NodeOK
<1>3. par[t.root] = None /\ t.root \in S /\ S \subseteq Offsets /\ sub[c] \subseteq S
  BY <1>2, TreeFacts DEF Tree, NodeOK
<1>4. t.root # c
  BY <1>2, <1>3, NoneIs
<1>5. par[t.root] \in S
  BY <1>2, <1>3, <1>4, ParentBelow
<1> QED BY <1>3, <1>5, NoneIs

(* If a size fits at a node, it fits at the child on its side.             *)
LEMMA ChildFits ==
  ASSUME NEW t, NEW S, NEW par, NEW sub, Tree(t, S, par, sub), NEW p \in S, NEW s \in Sides,
         HasChild(t, p, s), NEW z, Fits(t, S, sub, p, z), Ordered(s, z, SizeAt(t, p))
  PROVE  Child(t, p, s) \in S /\ Fits(t, S, sub, Child(t, p, s), z)
<1>1. PICK c : c = Child(t, p, s)
  OBVIOUS
<1>2. c \in S /\ par[c] = p /\ c \in sub[c] /\ Kids(t, sub, p, s) = sub[c]
  BY <1>1, TreeFacts DEF NodeOK, Kids
<1>3. ASSUME NEW y \in S, NEW r \in Sides, c \in Kids(t, sub, y, r)
      PROVE  Ordered(r, z, SizeAt(t, y))
  <2>1. PICK d : d = Child(t, y, r)
    OBVIOUS
  <2>2. HasChild(t, y, r) /\ d \in S /\ par[d] = y /\ c \in sub[d] /\ Kids(t, sub, y, r) = sub[d]
    BY <1>3, <2>1, TreeFacts DEF Kids, NodeOK
  <2>3. CASE c = d
    <3>1. y = p
      BY <1>2, <2>2, <2>3
    <3>2. r = s
      <4>1. NodeOK(t, S, par, sub, p)
        BY TreeFacts
      <4> QED BY <1>2, <1>3, <3>1, <4>1 DEF NodeOK, Sides
    <3> QED BY <3>1, <3>2
  <2>4. CASE c # d
    <3>1. p \in sub[d]
      BY <1>2, <2>2, <2>4, ParentBelow
    <3> QED BY <2>2, <3>1 DEF Fits
  <2> QED BY <2>3, <2>4
<1> QED BY <1>1, <1>2, <1>3 DEF Fits
-----------------------------------------------------------------------------
(* A node comes between p and what was on one side of it, if anything.     *)
Attached(t, n, p, s, x) ==
  /\ n \in TreeType /\ n.root = t.root /\ SameSizes(n, t)
  /\ \A y \in Offsets, r \in Sides :
       Child(n, y, r) = IF y = p /\ r = s THEN x
                        ELSE IF y = x THEN IF r = s /\ HasChild(t, p, s) THEN Child(t, p, s) ELSE x
                        ELSE Child(t, y, r)

(* A node attached where its size fits gives a search tree: its parent is  *)
(* p, what was on that side of p is below it, and everything above p has   *)
(* it below.                                                               *)
LEMMA Attach ==
  ASSUME NEW t, NEW S, NEW par, NEW sub, Tree(t, S, par, sub), NEW p \in S, NEW s \in Sides,
         NEW x \in Offsets \ S, NEW n, Attached(t, n, p, s, x),
         Fits(t, S, sub, p, SizeAt(t, x)), Ordered(s, SizeAt(t, x), SizeAt(t, p)),
         \A u \in Kids(t, sub, p, s) : Ordered(s, SizeAt(t, u), SizeAt(t, x))
  PROVE  IsTree(n, S \cup {x})
<1> DEFINE K(y, r) == Kids(t, sub, y, r)
<1>q. PICK q : q = [y \in Offsets |-> IF y = x THEN p
                                      ELSE IF HasChild(t, p, s) /\ y = Child(t, p, s) THEN x
                                      ELSE par[y]]
  OBVIOUS
<1>b. PICK b : b = [y \in Offsets |-> IF y = x THEN {x} \cup K(p, s)
                                      ELSE IF p \in sub[y] THEN sub[y] \cup {x} ELSE sub[y]]
  OBVIOUS
<1>1. /\ S \subseteq Offsets /\ p \in Offsets /\ p # x /\ x \notin S
      /\ par \in [Offsets -> Offsets \cup {None}] /\ sub \in [Offsets -> SUBSET Offsets]
      /\ \A y \in S : NodeOK(t, S, par, sub, y)
      /\ \A y \in S, r \in Sides : K(y, r) \subseteq S
      /\ \A y \in S : y \in sub[y] /\ sub[y] \subseteq S
  BY TreeFacts DEF NodeOK
<1>2. q \in [Offsets -> Offsets \cup {None}] /\ b \in [Offsets -> SUBSET Offsets]
  BY <1>1, <1>q, <1>b
<1>3. \A y \in S : b[y] = IF p \in sub[y] THEN sub[y] \cup {x} ELSE sub[y]
  BY <1>1, <1>b
<1>4. b[x] = {x} \cup K(p, s)
  BY <1>b
<1>5. \A y \in Offsets, r \in Sides :
        Child(n, y, r) = IF y = p /\ r = s THEN x
                         ELSE IF y = x THEN IF r = s /\ HasChild(t, p, s) THEN Child(t, p, s) ELSE x
                         ELSE Child(t, y, r)
  BY DEF Attached
<1>6. ASSUME NEW y \in S, NEW r \in Sides
      PROVE  Kids(n, b, y, r) = IF p \in K(y, r) \/ (y = p /\ r = s) THEN K(y, r) \cup {x} ELSE K(y, r)
  <2>1. CASE y = p /\ r = s
    <3>1. Child(n, y, r) = x /\ HasChild(n, y, r)
      BY <1>1, <1>5, <2>1 DEF HasChild
    <3>2. Kids(n, b, y, r) = b[x]
      BY <3>1 DEF Kids
    <3> QED BY <1>4, <2>1, <3>2
  <2>2. CASE ~(y = p /\ r = s)
    <3>1. PICK c : c = Child(t, y, r)
      OBVIOUS
    <3>2. Child(n, y, r) = c
      BY <1>1, <1>5, <2>2, <3>1
    <3>3. CASE c = y
      BY <2>2, <3>1, <3>2, <3>3 DEF HasChild, Kids
    <3>4. CASE c # y
      <4>1. c \in S /\ K(y, r) = sub[c] /\ Kids(n, b, y, r) = b[c]
        BY <1>1, <3>1, <3>2, <3>4 DEF HasChild, Kids, NodeOK
      <4> QED BY <1>3, <2>2, <4>1
    <3> QED BY <3>3, <3>4
  <2> QED BY <2>1, <2>2
<1>7. \A y \in Offsets : SizeAt(n, y) = SizeAt(t, y)
  BY DEF Attached, SameSizes
<1> HIDE DEF K
<1>8. ASSUME NEW y \in S PROVE NodeOK(n, S \cup {x}, q, b, y)
  <2>0. NodeOK(t, S, par, sub, y) /\ y # x /\ y \in Offsets
    BY <1>1
  <2>1. ASSUME NEW r \in Sides, HasChild(n, y, r)
        PROVE  Child(n, y, r) \in S \cup {x} /\ q[Child(n, y, r)] = y
    <3>1. CASE y = p /\ r = s
      <4>1. Child(n, y, r) = x
        BY <1>1, <1>5, <3>1
      <4> QED BY <1>q, <3>1, <4>1
    <3>2. CASE ~(y = p /\ r = s)
      <4>1. PICK c : c = Child(t, y, r)
        OBVIOUS
      <4>2. Child(n, y, r) = c /\ c # y
        BY <1>1, <1>5, <2>1, <3>2, <4>1 DEF HasChild
      <4>3. c \in S /\ par[c] = y /\ c \in Offsets /\ c # x
        BY <1>1, <2>0, <4>1, <4>2 DEF NodeOK, HasChild
      <4>4. ~(HasChild(t, p, s) /\ c = Child(t, p, s))
        <5> SUFFICES ASSUME HasChild(t, p, s), c = Child(t, p, s) PROVE FALSE
          OBVIOUS
        <5>1. par[c] = p
          BY <1>1 DEF NodeOK
        <5>2. y = p /\ r # s
          BY <3>2, <4>3, <5>1
        <5>3. c \in Kids(t, sub, p, r) /\ c \in Kids(t, sub, p, s)
          BY <1>1, <4>1, <4>2, <4>3, <5>2 DEF Kids, HasChild
        <5>4. Kids(t, sub, p, "left") \cap Kids(t, sub, p, "right") = {}
          BY <2>0, <5>2 DEF NodeOK
        <5> QED BY <5>2, <5>3, <5>4 DEF Sides
      <4>5. q[c] = par[c]
        BY <1>q, <4>3, <4>4
      <4> QED BY <4>2, <4>3, <4>5
    <3> QED BY <3>1, <3>2
  <2>2. \A r \in Sides : y \notin Kids(n, b, y, r)
    BY <1>6, <2>0 DEF NodeOK, K
  <2>3. ASSUME NEW r \in Sides, NEW u \in Kids(n, b, y, r)
        PROVE  Ordered(r, SizeAt(n, u), SizeAt(n, y))
    <3>1. CASE u # x
      <4>1. u \in K(y, r) /\ u \in Offsets
        BY <1>1, <1>6, <2>3, <3>1
      <4>2. Ordered(r, SizeAt(t, u), SizeAt(t, y))
        BY <2>0, <4>1 DEF NodeOK, K
      <4> QED BY <1>7, <2>0, <4>1, <4>2
    <3>2. CASE u = x
      <4>1. p \in K(y, r) \/ (y = p /\ r = s)
        BY <1>1, <1>6, <2>3, <3>2
      <4>2. Ordered(r, SizeAt(t, x), SizeAt(t, y))
        BY <4>1 DEF Fits, K
      <4> QED BY <1>7, <2>0, <3>2, <4>2
    <3> QED BY <3>1, <3>2
  <2>4. Kids(n, b, y, "left") \cap Kids(n, b, y, "right") = {}
    <3>1. K(y, "left") \cap K(y, "right") = {} /\ (\A r \in Sides : y \notin K(y, r))
      BY <2>0 DEF NodeOK, K
    <3>2. x \notin K(y, "left") /\ x \notin K(y, "right")
      BY <1>1 DEF Sides
    <3> QED BY <1>6, <3>1, <3>2 DEF Sides
  <2>5. b[y] = {y} \cup Kids(n, b, y, "left") \cup Kids(n, b, y, "right")
    <3>1. sub[y] = {y} \cup K(y, "left") \cup K(y, "right")
      BY <2>0 DEF NodeOK, K
    <3>2. p \in sub[y] <=> y = p \/ p \in K(y, "left") \/ p \in K(y, "right")
      BY <3>1
    <3>3. /\ Kids(n, b, y, "left") = IF p \in K(y, "left") \/ (y = p /\ "left" = s)
                                     THEN K(y, "left") \cup {x} ELSE K(y, "left")
          /\ Kids(n, b, y, "right") = IF p \in K(y, "right") \/ (y = p /\ "right" = s)
                                      THEN K(y, "right") \cup {x} ELSE K(y, "right")
      BY <1>6 DEF Sides
    <3>4. CASE p \in sub[y]
      <4>1. b[y] = sub[y] \cup {x}
        BY <1>3, <3>4
      <4>2. x \in Kids(n, b, y, "left") \/ x \in Kids(n, b, y, "right")
        BY <3>2, <3>3, <3>4 DEF Sides
      <4> QED BY <3>1, <3>3, <4>1, <4>2
    <3>5. CASE p \notin sub[y]
      <4>1. b[y] = sub[y]
        BY <1>3, <3>5
      <4> QED BY <3>1, <3>2, <3>3, <3>5, <4>1
    <3> QED BY <3>4, <3>5
  <2>6. b[y] \subseteq S \cup {x}
    BY <1>1, <1>3
  <2> QED BY <2>1, <2>2, <2>3, <2>4, <2>5, <2>6 DEF NodeOK
<1>9. NodeOK(n, S \cup {x}, q, b, x)
  <2>1. ASSUME NEW r \in Sides
        PROVE  /\ HasChild(n, x, r) => r = s /\ HasChild(t, p, s) /\ Child(n, x, r) = Child(t, p, s)
               /\ Kids(n, b, x, r) = IF r = s THEN K(p, s) ELSE {}
    <3>1. CASE r = s /\ HasChild(t, p, s)
      <4>1. PICK c : c = Child(t, p, s)
        OBVIOUS
      <4>2. c \in S /\ c # p /\ par[c] = p /\ K(p, s) = sub[c]
        BY <1>1, <3>1, <4>1 DEF NodeOK, HasChild, Kids, K
      <4>3. Child(n, x, r) = c /\ HasChild(n, x, r)
        BY <1>1, <1>5, <3>1, <4>1, <4>2 DEF HasChild
      <4>4. Kids(n, b, x, r) = b[c]
        BY <4>3 DEF Kids
      <4>5. p \notin sub[c]
        BY <1>1, <4>2 DEF NodeOK, K
      <4>6. b[c] = sub[c]
        BY <1>3, <4>2, <4>5
      <4> QED BY <3>1, <4>1, <4>2, <4>3, <4>4, <4>6
    <3>2. CASE ~(r = s /\ HasChild(t, p, s))
      <4>1. ~HasChild(n, x, r)
        BY <1>1, <1>5, <3>2 DEF HasChild
      <4> QED BY <3>2, <4>1 DEF Kids, K
    <3> QED BY <3>1, <3>2
  <2>2. ASSUME NEW r \in Sides, HasChild(n, x, r)
        PROVE  Child(n, x, r) \in S \cup {x} /\ q[Child(n, x, r)] = x
    <3>1. PICK c : c = Child(t, p, s)
      OBVIOUS
    <3>2. HasChild(t, p, s) /\ Child(n, x, r) = c
      BY <2>1, <2>2, <3>1
    <3>3. c \in S /\ c # x /\ c \in Offsets
      BY <1>1, <3>1, <3>2 DEF NodeOK
    <3> QED BY <1>q, <3>1, <3>2, <3>3
  <2>3. K(p, s) \subseteq S /\ (s = "left" \/ s = "right")
    BY <1>1 DEF Sides
  <2>4. \A r \in Sides : \A u \in Kids(n, b, x, r) : Ordered(r, SizeAt(n, u), SizeAt(n, x))
    <3> SUFFICES ASSUME NEW r \in Sides, NEW u \in Kids(n, b, x, r)
                 PROVE  Ordered(r, SizeAt(n, u), SizeAt(n, x))
      OBVIOUS
    <3>1. r = s /\ u \in K(p, s) /\ u \in Offsets
      BY <1>1, <2>1, <2>3
    <3> QED BY <1>7, <3>1 DEF K
  <2>5. \A r \in Sides : x \notin Kids(n, b, x, r)
    BY <1>1, <2>1, <2>3
  <2>6. Kids(n, b, x, "left") \cap Kids(n, b, x, "right") = {}
    BY <2>1, <2>3 DEF Sides
  <2>7. b[x] = {x} \cup Kids(n, b, x, "left") \cup Kids(n, b, x, "right")
    BY <1>4, <2>1, <2>3 DEF Sides
  <2>8. b[x] \subseteq S \cup {x}
    BY <1>4, <2>3
  <2> QED BY <2>2, <2>4, <2>5, <2>6, <2>7, <2>8 DEF NodeOK
<1>10. \A y \in Offsets \ (S \cup {x}), r \in Sides : ~HasChild(n, y, r)
  BY <1>1, <1>5, TreeFacts DEF HasChild
<1>11. n.root = t.root /\ n \in TreeType
  BY DEF Attached
<1>12. t.root # None
  BY DEF Tree
<1>13. t.root \in S /\ par[t.root] = None /\ sub[t.root] = S
  BY <1>12 DEF Tree
<1>14. q[t.root] = None
  <2>1. ~(HasChild(t, p, s) /\ t.root = Child(t, p, s))
    BY <1>1, <1>13, NoneIs DEF NodeOK
  <2> QED BY <1>1, <1>13, <1>q, <2>1
<1>15. b[t.root] = S \cup {x}
  BY <1>3, <1>13
<1>16. Tree(n, S \cup {x}, q, b)
  BY <1>1, <1>2, <1>8, <1>9, <1>10, <1>11, <1>12, <1>13, <1>14, <1>15 DEF Tree
<1> QED BY <1>16 DEF IsTree
-----------------------------------------------------------------------------
(***************************************************************************)
(* mp_heap_btree_insert: the tree with one more block is a search tree.    *)
(***************************************************************************)
(* A tree is what its links and the sizes of its nodes are.                *)
LEMMA SameTree ==
  ASSUME NEW t, NEW S, NEW par, NEW sub, Tree(t, S, par, sub), NEW n \in TreeType,
         n.root = t.root, \A y \in S : SizeAt(n, y) = SizeAt(t, y),
         \A y \in Offsets, r \in Sides : Child(n, y, r) = Child(t, y, r)
  PROVE  Tree(n, S, par, sub)
<1>1. \A y \in Offsets, r \in Sides : /\ HasChild(n, y, r) <=> HasChild(t, y, r)
                                      /\ Kids(n, sub, y, r) = Kids(t, sub, y, r)
  BY DEF HasChild, Kids
<1>2. ASSUME NEW x \in S PROVE NodeOK(n, S, par, sub, x)
  <2>1. NodeOK(t, S, par, sub, x) /\ x \in Offsets
    BY TreeFacts
  <2>2. \A s \in Sides : Kids(t, sub, x, s) \subseteq S
    BY TreeFacts
  <2>3. \A s \in Sides : \A u \in Kids(n, sub, x, s) : Ordered(s, SizeAt(n, u), SizeAt(n, x))
    <3> SUFFICES ASSUME NEW s \in Sides, NEW u \in Kids(n, sub, x, s)
                 PROVE  Ordered(s, SizeAt(n, u), SizeAt(n, x))
      OBVIOUS
    <3>1. u \in Kids(t, sub, x, s) /\ u \in S
      BY <1>1, <2>1, <2>2
    <3>2. Ordered(s, SizeAt(t, u), SizeAt(t, x))
      BY <2>1, <3>1 DEF NodeOK
    <3> QED BY <3>1, <3>2
  <2> QED BY <1>1, <2>1, <2>3 DEF NodeOK, Sides
<1> QED BY <1>1, <1>2 DEF Tree

(* The side that the insertion takes.                                      *)
LEMMA OnSide ==
  ASSUME NEW a \in Nat, NEW b \in Nat
  PROVE  Side(a, b) \in Sides /\ Ordered(Side(a, b), a, b)
BY DEF Side, Ordered, Sides

(* A block whose size is in the tree takes over that node's left subtree.  *)
LEMMA MovedIs ==
  ASSUME NEW t \in TreeType, NEW p \in Offsets, NEW x \in Offsets, p # x,
         ~HasChild(t, x, "left"), ~HasChild(t, x, "right")
  PROVE  Attached(t, Linked(Moved(t, p, x), p, "left", x), p, "left", x)
<1>1. PICK z : z = IF HasChild(t, p, "left") THEN Child(t, p, "left") ELSE x
  OBVIOUS
<1>2. z \in Offsets
  BY <1>1, ChildType DEF Sides
<1>3. PICK m : m = Linked(t, x, "left", z)
  OBVIOUS
<1>4. Moved(t, p, x) = m
  BY <1>1, <1>3 DEF Moved, Linked, Child
<1>5. "left" \in Sides
  BY DEF Sides
<1>6. /\ m \in TreeType /\ m.root = t.root /\ SameSizes(m, t) /\ Child(m, x, "left") = z
      /\ \A y \in Offsets, r \in Sides : y # x \/ r # "left" => Child(m, y, r) = Child(t, y, r)
  <2>1. Relinked(t, m, x, "left", z)
    BY <1>2, <1>3, <1>5, LinkedIs
  <2> QED BY <2>1 DEF Relinked
<1>7. PICK n : n = Linked(m, p, "left", x)
  OBVIOUS
<1>8. /\ n \in TreeType /\ n.root = m.root /\ SameSizes(n, m) /\ Child(n, p, "left") = x
      /\ \A y \in Offsets, r \in Sides : y # p \/ r # "left" => Child(n, y, r) = Child(m, y, r)
  BY <1>5, <1>6, <1>7, LinkedIs DEF Relinked
<1>9. \A y \in Offsets, r \in Sides :
        Child(n, y, r) = IF y = p /\ r = "left" THEN x
                         ELSE IF y = x THEN IF r = "left" /\ HasChild(t, p, "left")
                                            THEN Child(t, p, "left") ELSE x
                         ELSE Child(t, y, r)
  <2>1. Child(t, x, "left") = x /\ Child(t, x, "right") = x
    BY DEF HasChild
  <2> QED BY <1>1, <1>6, <1>8, <2>1 DEF Sides
<1>10. n \in TreeType /\ n.root = t.root /\ SameSizes(n, t)
  BY <1>6, <1>8 DEF SameSizes
<1>11. Attached(t, n, p, "left", x)
  BY <1>9, <1>10 DEF Attached
<1> QED BY <1>4, <1>7, <1>11

(* A block that comes where there is no child.                             *)
LEMMA LeafIs ==
  ASSUME NEW t \in TreeType, NEW p \in Offsets, NEW x \in Offsets, p # x, NEW s \in Sides,
         ~HasChild(t, x, "left"), ~HasChild(t, x, "right"), ~HasChild(t, p, s)
  PROVE  Attached(t, Linked(t, p, s, x), p, s, x)
<1>1. PICK n : n = Linked(t, p, s, x)
  OBVIOUS
<1>2. /\ n \in TreeType /\ n.root = t.root /\ SameSizes(n, t) /\ Child(n, p, s) = x
      /\ \A y \in Offsets, r \in Sides : y # p \/ r # s => Child(n, y, r) = Child(t, y, r)
  BY <1>1, LinkedIs DEF Relinked
<1>3. Child(t, x, "left") = x /\ Child(t, x, "right") = x
  BY DEF HasChild
<1>4. Attached(t, n, p, s, x)
  BY <1>2, <1>3 DEF Attached, Sides
<1> QED BY <1>1, <1>4

(* mp_heap_btree_insert descends.                                          *)
BelowAt(t, x, f, p) ==
  LET s == Side(SizeAt(t, x), SizeAt(t, p))
  IN IF SizeAt(t, x) = SizeAt(t, p) THEN Linked(Moved(t, p, x), p, "left", x)
     ELSE IF HasChild(t, p, s) THEN f[Child(t, p, s)]
     ELSE Linked(t, p, s, x)

(* What the recursive function gives: it exists, and is what one turn of   *)
(* the loop says of the next.                                              *)
LEMMA BelowIs ==
  ASSUME NEW t, NEW S, NEW par, NEW sub, Tree(t, S, par, sub), NEW x
  PROVE  \A p \in Offsets : Below(t, x)[p] = BelowAt(t, x, Below(t, x), p)
<1> DEFINE P(f) == f = [p \in Offsets |-> BelowAt(t, x, f, p)]
<1>1. Below(t, x) = CHOOSE f : P(f)
  BY DEF Below, BelowAt, SizeAt
<1>2. \E f : P(f)
  <2>s. PICK sd : sd = [p \in Offsets |-> Side(SizeAt(t, x), SizeAt(t, p))]
    OBVIOUS
  <2>a. PICK a : a = [p \in Offsets |-> IF HasChild(t, p, sd[p]) THEN Child(t, p, sd[p]) ELSE p]
    OBVIOUS
  <2>b. PICK b : b = [p \in Offsets |-> p]
    OBVIOUS
  <2>g. PICK G : G = [p \in Offsets |-> IF SizeAt(t, x) = SizeAt(t, p)
                                        THEN Linked(Moved(t, p, x), p, "left", x)
                                        ELSE Linked(t, p, sd[p], x)]
    OBVIOUS
  <2>v. PICK V : V = {t} \cup {G[p] : p \in Offsets}
    OBVIOUS
  <2>f. PICK F : F = [p \in Offsets |-> [u \in V |-> [v \in V |->
          IF SizeAt(t, x) # SizeAt(t, p) /\ HasChild(t, p, sd[p]) THEN u ELSE G[p]]]]
    OBVIOUS
  <2>1. F \in [Offsets -> [V -> [V -> V]]] /\ t \in V
    BY <2>f, <2>v
  <2>2. \A p \in Offsets : sd[p] \in Sides
    BY <2>s DEF Side, Sides
  <2>3. t \in TreeType
    BY TreeFacts
  <2>4. a \in [Offsets -> Offsets] /\ b \in [Offsets -> Offsets]
    <3>1. \A p \in Offsets : Child(t, p, sd[p]) \in Offsets
      BY <2>2, <2>3, ChildType
    <3> QED BY <2>a, <2>b, <3>1
  <2>5. Follows(t, a) /\ Follows(t, b)
    BY <2>2, <2>4, <2>a, <2>b DEF Follows
  <2>6. PICK f \in [Offsets -> V] : Computes(V, t, F, a, b, f)
    BY <2>1, <2>5, TreeRecursion
  <2>7. ASSUME NEW p \in Offsets PROVE f[p] = BelowAt(t, x, f, p)
    <3>1. b[p] = p
      BY <2>b
    <3>2. PICK u \in V : u = IF a[p] = p THEN t ELSE f[a[p]]
      BY <2>1, <2>4
    <3>3. f[p] = F[p][u][t]
      BY <2>1, <2>6, <3>1, <3>2 DEF Computes
    <3>4. f[p] = IF SizeAt(t, x) # SizeAt(t, p) /\ HasChild(t, p, sd[p]) THEN u ELSE G[p]
      BY <2>1, <2>f, <3>3
    <3>5. HasChild(t, p, sd[p]) => u = f[Child(t, p, sd[p])]
      BY <2>a, <3>2 DEF HasChild
    <3>6. sd[p] = Side(SizeAt(t, x), SizeAt(t, p))
      BY <2>s
    <3>7. G[p] = IF SizeAt(t, x) = SizeAt(t, p) THEN Linked(Moved(t, p, x), p, "left", x)
                 ELSE Linked(t, p, sd[p], x)
      BY <2>g
    <3> QED BY <3>4, <3>5, <3>6, <3>7 DEF BelowAt
  <2> QED BY <2>7
<1> HIDE DEF P
<1>3. P(Below(t, x))
  BY <1>1, <1>2
<1> QED BY <1>3 DEF P

(* From any node at which the size fits, the descent inserts the block.    *)
LEMMA BelowInserts ==
  ASSUME NEW t, NEW S, NEW par, NEW sub, Tree(t, S, par, sub), NEW x \in Offsets \ S
  PROVE  \A p \in S : Fits(t, S, sub, p, SizeAt(t, x)) =>
           IsTree(Below(t, x)[p], S \cup {x}) /\ SameSizes(Below(t, x)[p], t)
<1> DEFINE Done(p) == IsTree(Below(t, x)[p], S \cup {x}) /\ SameSizes(Below(t, x)[p], t)
           z == SizeAt(t, x)
           T == {p \in S : Fits(t, S, sub, p, z) => Done(p)}
<1>0. /\ t \in TreeType /\ S \subseteq Offsets /\ ~HasChild(t, x, "left") /\ ~HasChild(t, x, "right")
  BY TreeFacts DEF Sides
<1>1. ASSUME NEW p \in S, \A s \in Sides : HasChild(t, p, s) => Child(t, p, s) \in T,
             Fits(t, S, sub, p, z)
      PROVE  Done(p)
  <2>1. p \in Offsets /\ p # x
    BY <1>0
  <2>2. z \in Nat /\ SizeAt(t, p) \in Nat
    BY <1>0, <2>1, ChildType
  <2>3. PICK s : s = Side(z, SizeAt(t, p))
    OBVIOUS
  <2>4. s \in Sides /\ Ordered(s, z, SizeAt(t, p))
    BY <2>2, <2>3, OnSide
  <2>5. Below(t, x)[p] = BelowAt(t, x, Below(t, x), p)
    BY <2>1, BelowIs
  <2>6. CASE z = SizeAt(t, p)
    <3>1. PICK n : n = Linked(Moved(t, p, x), p, "left", x)
      OBVIOUS
    <3>2. Below(t, x)[p] = n
      BY <2>5, <2>6, <3>1 DEF BelowAt
    <3>3. Attached(t, n, p, "left", x)
      BY <1>0, <2>1, <3>1, MovedIs
    <3>4. "left" \in Sides /\ Ordered("left", z, SizeAt(t, p))
      BY <2>2, <2>6 DEF Sides, Ordered
    <3>5. \A u \in Kids(t, sub, p, "left") : Ordered("left", SizeAt(t, u), z)
      BY <2>6, <3>4, TreeFacts DEF NodeOK
    <3>6. IsTree(n, S \cup {x})
      BY <1>1, <3>3, <3>4, <3>5, Attach
    <3> QED BY <3>2, <3>3, <3>6 DEF Attached
  <2>7. CASE z # SizeAt(t, p) /\ HasChild(t, p, s)
    <3>1. PICK c : c = Child(t, p, s)
      OBVIOUS
    <3>2. Below(t, x)[p] = Below(t, x)[c]
      BY <2>3, <2>5, <2>7, <3>1 DEF BelowAt
    <3>3. c \in S /\ Fits(t, S, sub, c, z)
      BY <1>1, <2>4, <2>7, <3>1, ChildFits
    <3>4. c \in T
      BY <1>1, <2>4, <2>7, <3>1
    <3> QED BY <3>2, <3>3, <3>4
  <2>8. CASE z # SizeAt(t, p) /\ ~HasChild(t, p, s)
    <3>1. PICK n : n = Linked(t, p, s, x)
      OBVIOUS
    <3>2. Below(t, x)[p] = n
      BY <2>3, <2>5, <2>8, <3>1 DEF BelowAt
    <3>3. Attached(t, n, p, s, x)
      BY <1>0, <2>1, <2>4, <2>8, <3>1, LeafIs
    <3>4. Kids(t, sub, p, s) = {}
      BY <2>8 DEF Kids
    <3>5. IsTree(n, S \cup {x})
      BY <1>1, <2>4, <3>3, <3>4, Attach
    <3> QED BY <3>2, <3>3, <3>5 DEF Attached
  <2> QED BY <2>6, <2>7, <2>8
<1> HIDE DEF Done
<1>2. \A p \in S : (\A s \in Sides : HasChild(t, p, s) => Child(t, p, s) \in T) => p \in T
  BY <1>1
<1> HIDE DEF T
<1>3. S \subseteq T
  BY <1>2, TreeInduction
<1> QED BY <1>3 DEF T, Done

(* mp_heap_btree_insert: into any search tree of free blocks it puts one   *)
(* more, wherever its size belongs, and the result is a search tree of     *)
(* them all, each with its size.                                           *)
THEOREM InsertKeepsTree ==
  ASSUME NEW t, NEW S, IsTree(t, S), NEW x \in Offsets \ S
  PROVE  IsTree(Insert(t, x), S \cup {x}) /\ SameSizes(Insert(t, x), t)
<1>1. PICK par, sub : Tree(t, S, par, sub)
  BY DEF IsTree
<1>2. PICK n : n = Unlinked(t, x)
  OBVIOUS
<1>3. t \in TreeType /\ S \subseteq Offsets /\ Child(t, x, "left") = x /\ Child(t, x, "right") = x
  BY <1>1, TreeFacts DEF Sides, HasChild
<1>4. /\ n \in TreeType /\ n.root = t.root /\ SameSizes(n, t)
      /\ \A y \in Offsets, r \in Sides : Child(n, y, r) = IF y = x THEN x ELSE Child(t, y, r)
  BY <1>2, <1>3, UnlinkedIs
<1>5. Tree(n, S, par, sub)
  <2>1. \A y \in Offsets, r \in Sides : Child(n, y, r) = Child(t, y, r)
    BY <1>3, <1>4 DEF Sides
  <2>2. \A y \in S : SizeAt(n, y) = SizeAt(t, y)
    BY <1>3, <1>4 DEF SameSizes
  <2> QED BY <1>1, <1>4, <2>1, <2>2, SameTree
<1>6. CASE n.root # None
  <2>1. Insert(t, x) = Below(n, x)[n.root]
    BY <1>2, <1>6 DEF Insert
  <2>2. n.root \in S /\ Fits(n, S, sub, n.root, SizeAt(n, x))
    BY <1>5, <1>6, RootFits DEF Tree
  <2>3. IsTree(Below(n, x)[n.root], S \cup {x}) /\ SameSizes(Below(n, x)[n.root], n)
    BY <1>5, <2>2, BelowInserts
  <2> QED BY <1>4, <2>1, <2>3 DEF SameSizes
<1>7. CASE n.root = None
  <2>1. PICK m : m = Linked(n, None, "root", x)
    OBVIOUS
  <2>2. Insert(t, x) = m
    BY <1>2, <1>7, <2>1 DEF Insert
  <2>3. /\ m \in TreeType /\ m.root = x /\ SameSizes(m, n)
        /\ \A y \in Offsets, r \in Sides : Child(m, y, r) = Child(n, y, r)
    BY <1>4, <2>1, RootLinkedIs
  <2>4. S = {} /\ \A y \in Offsets, r \in Sides : ~HasChild(n, y, r)
    BY <1>5, <1>7 DEF Tree
  <2>5. PICK q : q = [y \in Offsets |-> None]
    OBVIOUS
  <2>6. PICK b : b = [y \in Offsets |-> {y}]
    OBVIOUS
  <2>7. \A y \in Offsets, r \in Sides : ~HasChild(m, y, r) /\ Kids(m, b, y, r) = {}
    BY <2>3, <2>4 DEF HasChild, Kids
  <2>8. NodeOK(m, {x}, q, b, x)
    BY <2>6, <2>7 DEF NodeOK, Sides
  <2>9. Tree(m, {x}, q, b)
    BY <2>3, <2>5, <2>6, <2>7, <2>8, NoneIs DEF Tree
  <2> QED BY <1>4, <2>2, <2>3, <2>4, <2>9 DEF IsTree, SameSizes
<1> QED BY <1>6, <1>7
-----------------------------------------------------------------------------
(***************************************************************************)
(* A node with at most one child leaves its tree.                          *)
(***************************************************************************)
(* The link that leads to a node.                                          *)
LinkTo(t, parent, x, side) ==
  \/ side = "root" /\ parent = None /\ t.root = x
  \/ side \in Sides /\ parent \in Offsets /\ HasChild(t, parent, side) /\ Child(t, parent, side) = x

(* There is one link to a node: from the root, or from its parent.         *)
LEMMA OneLink ==
  ASSUME NEW t, NEW S, NEW par, NEW sub, Tree(t, S, par, sub), NEW x \in S,
         NEW parent, NEW side, LinkTo(t, parent, x, side)
  PROVE  /\ side = "root" => parent = None /\ t.root = x
            /\ \A y \in Offsets, r \in Sides : y # x => Child(t, y, r) # x
         /\ side # "root" =>
            /\ t.root # x /\ side \in Sides /\ parent \in S /\ parent # x
            /\ Child(t, parent, side) = x /\ par[x] = parent
            /\ \A y \in Offsets, r \in Sides : y # x /\ Child(t, y, r) = x => y = parent /\ r = side
<1>1. S \subseteq Offsets /\ x # None
  BY TreeFacts, NoneIs
<1>2. ASSUME NEW y \in Offsets, NEW r \in Sides, y # x, Child(t, y, r) = x
      PROVE  y \in S /\ par[x] = y /\ x \in Kids(t, sub, y, r)
  <2>1. HasChild(t, y, r)
    BY <1>2 DEF HasChild
  <2>2. y \in S
    BY <2>1, TreeFacts
  <2> QED BY <1>2, <2>1, <2>2, TreeFacts DEF NodeOK, Kids
<1>3. t.root = x => par[x] = None
  BY <1>1 DEF Tree
<1>4. CASE side = "root"
  <2>1. parent = None /\ t.root = x
    BY <1>4 DEF LinkTo, Sides
  <2>2. \A y \in Offsets, r \in Sides : y # x => Child(t, y, r) # x
    BY <1>1, <1>2, <1>3, <2>1, NoneIs
  <2> QED BY <1>4, <2>1, <2>2
<1>5. CASE side # "root"
  <2>1. side \in Sides /\ parent \in Offsets /\ HasChild(t, parent, side) /\ Child(t, parent, side) = x
    BY <1>5 DEF LinkTo
  <2>2. parent # x
    BY <2>1 DEF HasChild
  <2>3. parent \in S /\ par[x] = parent /\ x \in Kids(t, sub, parent, side)
    BY <1>2, <2>1, <2>2
  <2>4. t.root # x
    BY <1>1, <1>3, <2>3, NoneIs
  <2>5. ASSUME NEW y \in Offsets, NEW r \in Sides, y # x, Child(t, y, r) = x
        PROVE  y = parent /\ r = side
    <3>1. y = parent /\ x \in Kids(t, sub, y, r)
      BY <1>2, <2>3, <2>5
    <3>2. Kids(t, sub, parent, "left") \cap Kids(t, sub, parent, "right") = {}
      BY <2>3, TreeFacts DEF NodeOK
    <3> QED BY <2>1, <2>3, <3>1, <3>2 DEF Sides
  <2> QED BY <1>5, <2>1, <2>2, <2>3, <2>4, <2>5
<1> QED BY <1>4, <1>5

(* A node is taken out; its only child, c, comes in its place (c is the    *)
(* node itself if it has none).                                            *)
Detached(t, n, x, c) ==
  /\ n \in TreeType /\ SameSizes(n, t)
  /\ \A y \in Offsets, r \in Sides :
       /\ y = x => Child(n, y, r) = x
       /\ y # x /\ Child(t, y, r) = x => Child(n, y, r) = IF c = x THEN y ELSE c
       /\ y # x /\ Child(t, y, r) # x => Child(n, y, r) = Child(t, y, r)
  /\ t.root = x => n.root = IF c = x THEN None ELSE c
  /\ t.root # x => n.root = t.root

(* c is the only child of x.                                               *)
OnlyChild(t, x, c) ==
  \/ c = x /\ ~HasChild(t, x, "left") /\ ~HasChild(t, x, "right")
  \/ \E s, r \in Sides : s # r /\ ~HasChild(t, x, r) /\ HasChild(t, x, s) /\ c = Child(t, x, s)

(* The subtrees without a node.                                            *)
Without(sub, x) == [y \in Offsets |-> sub[y] \ {x}]

(* Taking a node with at most one child out leaves a search tree.          *)
LEMMA Detach ==
  ASSUME NEW t, NEW S, NEW par, NEW sub, Tree(t, S, par, sub), NEW x \in S,
         NEW c, OnlyChild(t, x, c), NEW n, Detached(t, n, x, c)
  PROVE  /\ \E q : Tree(n, S \ {x}, q, Without(sub, x))
         /\ \A y \in S \ {x}, r \in Sides :
              Kids(n, Without(sub, x), y, r) = Kids(t, sub, y, r) \ {x}
<1>q. PICK q : q = [y \in Offsets |-> IF y = c THEN par[x] ELSE par[y]]
  OBVIOUS
<1>b. PICK b : b = Without(sub, x)
  OBVIOUS
<1>0. /\ S \subseteq Offsets /\ x \in Offsets
      /\ par \in [Offsets -> Offsets \cup {None}] /\ sub \in [Offsets -> SUBSET Offsets]
      /\ \A y \in S : NodeOK(t, S, par, sub, y)
      /\ \A y \in S, r \in Sides : Kids(t, sub, y, r) \subseteq S
      /\ \A y \in S : y \in sub[y] /\ sub[y] \subseteq S
  BY TreeFacts DEF NodeOK
<1>1. \A y \in Offsets : b[y] = sub[y] \ {x}
  BY <1>b DEF Without
<1>2. /\ c = x => sub[x] = {x}
      /\ c # x => c \in S /\ par[c] = x /\ sub[x] = {x} \cup sub[c] /\ x \notin sub[c]
  <2>1. CASE c = x
    <3>1. ~HasChild(t, x, "left") /\ ~HasChild(t, x, "right")
      BY <2>1 DEF OnlyChild, HasChild
    <3>2. Kids(t, sub, x, "left") = {} /\ Kids(t, sub, x, "right") = {}
      BY <3>1 DEF Kids
    <3> QED BY <1>0, <2>1, <3>2 DEF NodeOK
  <2>2. CASE c # x
    <3>1. PICK s \in Sides, r \in Sides : s # r /\ ~HasChild(t, x, r) /\ HasChild(t, x, s) /\ c = Child(t, x, s)
      BY <2>2 DEF OnlyChild
    <3>2. Kids(t, sub, x, s) = sub[c] /\ Kids(t, sub, x, r) = {}
      BY <3>1 DEF Kids
    <3>3. sub[x] = {x} \cup Kids(t, sub, x, "left") \cup Kids(t, sub, x, "right")
      BY <1>0 DEF NodeOK
    <3>4. sub[x] = {x} \cup sub[c]
      BY <3>1, <3>2, <3>3 DEF Sides
    <3>5. c \in S /\ par[c] = x /\ x \notin sub[c]
      BY <1>0, <3>1, <3>2 DEF NodeOK
    <3> QED BY <2>2, <3>4, <3>5
  <2> QED BY <2>1, <2>2
<1>3. \A y \in Offsets, r \in Sides :
       /\ y = x => Child(n, y, r) = x
       /\ y # x /\ Child(t, y, r) = x => Child(n, y, r) = IF c = x THEN y ELSE c
       /\ y # x /\ Child(t, y, r) # x => Child(n, y, r) = Child(t, y, r)
  BY DEF Detached
<1>4. ASSUME NEW y \in S \ {x}, NEW r \in Sides
      PROVE  /\ Kids(n, b, y, r) = Kids(t, sub, y, r) \ {x}
             /\ HasChild(n, y, r) => Child(n, y, r) \in S \ {x} /\ q[Child(n, y, r)] = y
  <2>1. PICK d : d = Child(t, y, r)
    OBVIOUS
  <2>2. NodeOK(t, S, par, sub, y) /\ y \in Offsets /\ y # x
    BY <1>0
  <2>3. CASE d = x /\ c = x
    <3>1. Child(n, y, r) = y /\ HasChild(t, y, r)
      BY <1>3, <2>1, <2>2, <2>3 DEF HasChild
    <3>2. Kids(n, b, y, r) = {} /\ Kids(t, sub, y, r) = sub[x]
      BY <2>1, <2>3, <3>1 DEF HasChild, Kids
    <3> QED BY <1>2, <2>3, <3>1, <3>2 DEF HasChild
  <2>4. CASE d = x /\ c # x
    <3>1. Child(n, y, r) = c /\ HasChild(t, y, r)
      BY <1>3, <2>1, <2>2, <2>4 DEF HasChild
    <3>2. par[x] = y /\ Kids(t, sub, y, r) = sub[x]
      BY <2>1, <2>2, <2>4, <3>1 DEF NodeOK, Kids
    <3>3. y # c
      <4>1. x \in sub[x] /\ y \notin Kids(t, sub, y, r)
        BY <1>0, <2>2 DEF NodeOK
      <4>2. c \in sub[x]
        BY <1>0, <1>2, <2>4
      <4> QED BY <3>2, <4>1, <4>2
    <3>4. HasChild(n, y, r) /\ Kids(n, b, y, r) = b[c]
      BY <3>1, <3>3 DEF HasChild, Kids
    <3>5. b[c] = sub[c]
      <4>1. b[c] = sub[c] \ {x} /\ x \notin sub[c]
        BY <1>0, <1>1, <1>2, <2>4
      <4> QED BY <4>1
    <3>6. q[c] = y /\ c \in S \ {x}
      BY <1>0, <1>2, <1>q, <2>4, <3>2
    <3> QED BY <1>2, <2>4, <3>1, <3>2, <3>4, <3>5, <3>6
  <2>5. CASE d # x
    <3>1. Child(n, y, r) = d
      BY <1>3, <2>1, <2>2, <2>5
    <3>2. CASE d = y
      BY <2>1, <3>1, <3>2 DEF HasChild, Kids
    <3>3. CASE d # y
      <4>1. d \in S /\ par[d] = y /\ Kids(t, sub, y, r) = sub[d] /\ Kids(n, b, y, r) = b[d]
        BY <2>1, <2>2, <3>1, <3>3 DEF HasChild, Kids, NodeOK
      <4>2. d # c
        BY <1>2, <2>2, <2>5, <4>1
      <4>3. q[d] = y /\ b[d] = sub[d] \ {x}
        BY <1>0, <1>1, <1>q, <4>1, <4>2
      <4> QED BY <2>5, <3>1, <4>1, <4>3
    <3> QED BY <3>2, <3>3
  <2> QED BY <2>3, <2>4, <2>5
<1>5. \A y \in Offsets : SizeAt(n, y) = SizeAt(t, y)
  BY DEF Detached, SameSizes
<1>6. ASSUME NEW y \in S \ {x} PROVE NodeOK(n, S \ {x}, q, b, y)
  <2>1. NodeOK(t, S, par, sub, y) /\ y \in Offsets /\ y # x
    BY <1>0
  <2>2. \A r \in Sides : HasChild(n, y, r) => Child(n, y, r) \in S \ {x} /\ q[Child(n, y, r)] = y
    BY <1>4
  <2>3. \A r \in Sides : y \notin Kids(n, b, y, r)
    BY <1>4, <2>1 DEF NodeOK
  <2>4. \A r \in Sides : \A u \in Kids(n, b, y, r) : Ordered(r, SizeAt(n, u), SizeAt(n, y))
    <3> SUFFICES ASSUME NEW r \in Sides, NEW u \in Kids(n, b, y, r)
                 PROVE  Ordered(r, SizeAt(n, u), SizeAt(n, y))
      OBVIOUS
    <3>1. u \in Kids(t, sub, y, r) /\ u \in Offsets
      BY <1>0, <1>4
    <3>2. Ordered(r, SizeAt(t, u), SizeAt(t, y))
      BY <2>1, <3>1 DEF NodeOK
    <3> QED BY <1>5, <2>1, <3>1, <3>2
  <2>5. /\ Kids(n, b, y, "left") = Kids(t, sub, y, "left") \ {x}
        /\ Kids(n, b, y, "right") = Kids(t, sub, y, "right") \ {x}
    BY <1>4 DEF Sides
  <2>6. Kids(n, b, y, "left") \cap Kids(n, b, y, "right") = {}
    BY <2>1, <2>5 DEF NodeOK
  <2>7. sub[y] = {y} \cup Kids(t, sub, y, "left") \cup Kids(t, sub, y, "right") /\ sub[y] \subseteq S
    BY <2>1 DEF NodeOK
  <2>8. b[y] = {y} \cup Kids(n, b, y, "left") \cup Kids(n, b, y, "right") /\ b[y] \subseteq S \ {x}
    BY <1>1, <2>1, <2>5, <2>7
  <2> QED BY <2>2, <2>3, <2>4, <2>6, <2>8 DEF NodeOK
<1>7. \A y \in Offsets \ (S \ {x}), r \in Sides : ~HasChild(n, y, r)
  <2> SUFFICES ASSUME NEW y \in Offsets, y \notin S \/ y = x, NEW r \in Sides, HasChild(n, y, r) PROVE FALSE
    OBVIOUS
  <2>1. y # x
    BY <1>3 DEF HasChild
  <2>2. Child(t, y, r) = y
    BY <2>1, TreeFacts DEF HasChild
  <2> QED BY <1>3, <2>1, <2>2 DEF HasChild
<1>8. q \in [Offsets -> Offsets \cup {None}] /\ b \in [Offsets -> SUBSET Offsets]
  BY <1>0, <1>b, <1>q DEF Without
<1>9. /\ n.root = None => S \ {x} = {}
      /\ n.root # None => n.root \in S \ {x} /\ q[n.root] = None /\ b[n.root] = S \ {x}
  <2>1. t.root # None /\ t.root \in S /\ par[t.root] = None /\ sub[t.root] = S
    BY DEF Tree
  <2>2. /\ t.root = x => n.root = IF c = x THEN None ELSE c
        /\ t.root # x => n.root = t.root
    BY DEF Detached
  <2>3. CASE t.root = x /\ c = x
    BY <1>2, <2>1, <2>2, <2>3
  <2>4. CASE t.root = x /\ c # x
    <3>1. n.root = c /\ c \in S \ {x} /\ c \in Offsets
      BY <1>0, <1>2, <2>2, <2>4
    <3>2. q[c] = None /\ b[c] = S \ {x} /\ c # None
      BY <1>1, <1>2, <1>q, <2>1, <2>4, <3>1, NoneIs
    <3> QED BY <3>1, <3>2
  <2>5. CASE t.root # x
    <3>1. c # t.root
      BY <1>0, <1>2, <2>1, <2>5, NoneIs
    <3>2. q[t.root] = None /\ b[t.root] = S \ {x}
      BY <1>0, <1>1, <1>q, <2>1, <3>1
    <3> QED BY <2>1, <2>2, <2>5, <3>2
  <2> QED BY <2>3, <2>4, <2>5
<1>10. n \in TreeType /\ S \ {x} \subseteq Offsets
  BY <1>0 DEF Detached
<1>11. Tree(n, S \ {x}, q, b)
  BY <1>6, <1>7, <1>8, <1>9, <1>10 DEF Tree
<1> QED BY <1>4, <1>11, <1>b
-----------------------------------------------------------------------------
(***************************************************************************)
(* One node takes the place of another.                                    *)
(***************************************************************************)
(* mp_heap_btree_delete_impl takes such a node out.                        *)
LEMMA DeleteOneIs ==
  ASSUME NEW t, NEW S, NEW par, NEW sub, Tree(t, S, par, sub), NEW x \in S,
         NEW c, OnlyChild(t, x, c), NEW parent, NEW side, LinkTo(t, parent, x, side)
  PROVE  Detached(t, DeleteOne(t, parent, x, side), x, c)
<1>0. t \in TreeType /\ S \subseteq Offsets /\ x \in Offsets /\ x # None
  BY TreeFacts, NoneIs
<1>1. PICK tail : tail = IF c = x THEN parent ELSE c
  OBVIOUS
<1>2. PICK m : m = Linked(t, parent, side, tail)
  OBVIOUS
<1>3. PICK n : n = Unlinked(m, x)
  OBVIOUS
<1>4. DeleteOne(t, parent, x, side) = n
  <2>1. CASE c = x
    <3>1. ~HasChild(t, x, "left") /\ ~HasChild(t, x, "right")
      BY <2>1 DEF OnlyChild, HasChild
    <3> QED BY <1>1, <1>2, <1>3, <2>1, <3>1 DEF DeleteOne
  <2>2. CASE c # x
    <3>1. \/ HasChild(t, x, "left") /\ c = Child(t, x, "left")
          \/ ~HasChild(t, x, "left") /\ HasChild(t, x, "right") /\ c = Child(t, x, "right")
      BY <2>2 DEF OnlyChild, Sides
    <3>2. CASE HasChild(t, x, "left")
      <4>1. c = t.node[x].left
        BY <3>1, <3>2 DEF Child
      <4> QED BY <1>1, <1>2, <1>3, <2>2, <3>2, <4>1 DEF DeleteOne
    <3>3. CASE ~HasChild(t, x, "left")
      <4>1. HasChild(t, x, "right") /\ c = t.node[x].right
        BY <3>1, <3>3 DEF Child
      <4> QED BY <1>1, <1>2, <1>3, <2>2, <3>3, <4>1 DEF DeleteOne
    <3> QED BY <3>2, <3>3
  <2> QED BY <2>1, <2>2
<1>5. c \in Offsets
  <2>1. \A s \in Sides : Child(t, x, s) \in Offsets
    BY <1>0, ChildType
  <2> QED BY <1>0, <2>1 DEF OnlyChild
<1>6. CASE side = "root"
  <2>1. parent = None /\ t.root = x /\ \A y \in Offsets, r \in Sides : y # x => Child(t, y, r) # x
    BY <1>6, OneLink
  <2>2. tail \in Offsets \cup {None}
    BY <1>1, <1>5, <2>1
  <2>3. /\ m \in TreeType /\ m.root = tail /\ SameSizes(m, t)
        /\ \A y \in Offsets, r \in Sides : Child(m, y, r) = Child(t, y, r)
    BY <1>0, <1>2, <1>6, <2>2, RootLinkedIs
  <2>4. /\ n \in TreeType /\ n.root = m.root /\ SameSizes(n, m)
        /\ \A y \in Offsets, r \in Sides : Child(n, y, r) = IF y = x THEN x ELSE Child(m, y, r)
    BY <1>0, <1>3, <2>3, UnlinkedIs
  <2>5. n.root = IF c = x THEN None ELSE c
    BY <1>1, <2>1, <2>3, <2>4
  <2>6. SameSizes(n, t)
    BY <2>3, <2>4 DEF SameSizes
  <2>7. Detached(t, n, x, c)
    BY <2>1, <2>3, <2>4, <2>5, <2>6 DEF Detached
  <2> QED BY <1>4, <2>7
<1>7. CASE side # "root"
  <2>1. /\ t.root # x /\ side \in Sides /\ parent \in S /\ parent # x /\ Child(t, parent, side) = x
        /\ \A y \in Offsets, r \in Sides : y # x /\ Child(t, y, r) = x => y = parent /\ r = side
    BY <1>7, OneLink
  <2>2. tail \in Offsets /\ parent \in Offsets
    BY <1>0, <1>1, <1>5, <2>1
  <2>3. /\ m \in TreeType /\ m.root = t.root /\ SameSizes(m, t) /\ Child(m, parent, side) = tail
        /\ \A y \in Offsets, r \in Sides : y # parent \/ r # side => Child(m, y, r) = Child(t, y, r)
    <3>1. Relinked(t, m, parent, side, tail)
      BY <1>0, <1>2, <2>1, <2>2, LinkedIs
    <3> QED BY <3>1 DEF Relinked
  <2>4. /\ n \in TreeType /\ n.root = m.root /\ SameSizes(n, m)
        /\ \A y \in Offsets, r \in Sides : Child(n, y, r) = IF y = x THEN x ELSE Child(m, y, r)
    BY <1>0, <1>3, <2>3, UnlinkedIs
  <2>5. ASSUME NEW y \in Offsets, NEW r \in Sides
        PROVE  /\ y = x => Child(n, y, r) = x
               /\ y # x /\ Child(t, y, r) = x => Child(n, y, r) = IF c = x THEN y ELSE c
               /\ y # x /\ Child(t, y, r) # x => Child(n, y, r) = Child(t, y, r)
    <3>1. y = x => Child(n, y, r) = x
      BY <2>4
    <3>2. ASSUME y # x, Child(t, y, r) = x PROVE Child(n, y, r) = IF c = x THEN y ELSE c
      <4>1. y = parent /\ r = side
        BY <2>1, <3>2
      <4>2. Child(n, y, r) = tail
        BY <2>3, <2>4, <3>2, <4>1
      <4> QED BY <1>1, <4>1, <4>2
    <3>3. ASSUME y # x, Child(t, y, r) # x PROVE Child(n, y, r) = Child(t, y, r)
      <4>1. y # parent \/ r # side
        BY <2>1, <3>3
      <4> QED BY <2>3, <2>4, <3>3, <4>1
    <3> QED BY <3>1, <3>2, <3>3
  <2>6. SameSizes(n, t) /\ n.root = t.root
    BY <2>3, <2>4 DEF SameSizes
  <2>7. Detached(t, n, x, c)
    BY <2>1, <2>4, <2>5, <2>6 DEF Detached
  <2> QED BY <1>4, <2>7
<1> QED BY <1>6, <1>7
-----------------------------------------------------------------------------
(* z comes in the place of x.                                              *)
Replaced(t, n, x, z) ==
  /\ n \in TreeType /\ SameSizes(n, t)
  /\ \A y \in Offsets, r \in Sides :
       /\ y = x => Child(n, y, r) = x
       /\ y = z => Child(n, y, r) = IF HasChild(t, x, r) THEN Child(t, x, r) ELSE z
       /\ y # x /\ y # z /\ Child(t, y, r) = x => Child(n, y, r) = z
       /\ y # x /\ y # z /\ Child(t, y, r) # x => Child(n, y, r) = Child(t, y, r)
  /\ t.root = x => n.root = z
  /\ t.root # x => n.root = t.root

(* A node that fits where another stands, and is in order with what is     *)
(* below that one, may come in its place.                                  *)
LEMMA Replace ==
  ASSUME NEW t, NEW S, NEW par, NEW sub, Tree(t, S, par, sub), NEW x \in S,
         NEW z \in Offsets \ S, NEW n, Replaced(t, n, x, z), Fits(t, S, sub, x, SizeAt(t, z)),
         \A s \in Sides : \A u \in Kids(t, sub, x, s) : Ordered(s, SizeAt(t, u), SizeAt(t, z))
  PROVE  IsTree(n, (S \ {x}) \cup {z})
<1>r. PICK R : R = (S \ {x}) \cup {z}
  OBVIOUS
<1>q. PICK q : q = [y \in Offsets |-> IF y = z THEN par[x] ELSE IF par[y] = x THEN z ELSE par[y]]
  OBVIOUS
<1>b. PICK b : b = [y \in Offsets |-> IF y = z THEN (sub[x] \ {x}) \cup {z}
                                      ELSE IF x \in sub[y] THEN (sub[y] \ {x}) \cup {z} ELSE sub[y]]
  OBVIOUS
<1>0. /\ S \subseteq Offsets /\ x \in Offsets /\ z \in Offsets /\ z \notin S /\ z # x
      /\ par \in [Offsets -> Offsets \cup {None}] /\ sub \in [Offsets -> SUBSET Offsets]
      /\ \A y \in S : NodeOK(t, S, par, sub, y)
      /\ \A y \in S, r \in Sides : Kids(t, sub, y, r) \subseteq S
      /\ \A y \in S : y \in sub[y] /\ sub[y] \subseteq S
  BY TreeFacts DEF NodeOK
<1>1. /\ b[z] = (sub[x] \ {x}) \cup {z}
      /\ \A y \in S : b[y] = IF x \in sub[y] THEN (sub[y] \ {x}) \cup {z} ELSE sub[y]
  BY <1>0, <1>b
<1>2. \A y \in Offsets, r \in Sides :
       /\ y = x => Child(n, y, r) = x
       /\ y = z => Child(n, y, r) = IF HasChild(t, x, r) THEN Child(t, x, r) ELSE z
       /\ y # x /\ y # z /\ Child(t, y, r) = x => Child(n, y, r) = z
       /\ y # x /\ y # z /\ Child(t, y, r) # x => Child(n, y, r) = Child(t, y, r)
  BY DEF Replaced
<1>3. \A y \in Offsets : SizeAt(n, y) = SizeAt(t, y)
  BY DEF Replaced, SameSizes
<1>4. ASSUME NEW y \in S \ {x}, NEW r \in Sides
      PROVE  /\ Kids(n, b, y, r) = IF x \in Kids(t, sub, y, r) THEN (Kids(t, sub, y, r) \ {x}) \cup {z}
                                   ELSE Kids(t, sub, y, r)
             /\ HasChild(n, y, r) => Child(n, y, r) \in R /\ q[Child(n, y, r)] = y
  <2>1. PICK d : d = Child(t, y, r)
    OBVIOUS
  <2>2. NodeOK(t, S, par, sub, y) /\ y \in Offsets /\ y # x /\ y # z
    BY <1>0
  <2>3. CASE d = x
    <3>1. Child(n, y, r) = z /\ HasChild(n, y, r) /\ HasChild(t, y, r)
      BY <1>2, <2>1, <2>2, <2>3 DEF HasChild
    <3>2. Kids(n, b, y, r) = b[z] /\ Kids(t, sub, y, r) = sub[x] /\ x \in sub[x] /\ par[x] = y
      <4>1. Kids(n, b, y, r) = b[z] /\ Kids(t, sub, y, r) = sub[x]
        BY <2>1, <2>3, <3>1 DEF Kids
      <4>2. par[x] = y
        BY <2>1, <2>2, <2>3, <3>1 DEF NodeOK
      <4>3. x \in sub[x]
        BY <1>0
      <4> QED BY <4>1, <4>2, <4>3
    <3>3. q[z] = y /\ z \in R
      BY <1>0, <1>q, <1>r, <3>2
    <3> QED BY <1>1, <3>1, <3>2, <3>3
  <2>4. CASE d # x
    <3>1. Child(n, y, r) = d
      BY <1>2, <2>1, <2>2, <2>4
    <3>2. CASE d = y
      BY <2>1, <3>1, <3>2 DEF HasChild, Kids
    <3>3. CASE d # y
      <4>1. d \in S /\ par[d] = y /\ Kids(t, sub, y, r) = sub[d] /\ Kids(n, b, y, r) = b[d]
        BY <2>1, <2>2, <3>1, <3>3 DEF HasChild, Kids, NodeOK
      <4>2. q[d] = y /\ d \in R
        BY <1>0, <1>q, <1>r, <2>2, <2>4, <4>1
      <4> QED BY <1>1, <3>1, <4>1, <4>2
    <3> QED BY <3>2, <3>3
  <2> QED BY <2>3, <2>4
<1>5. ASSUME NEW y \in S \ {x} PROVE NodeOK(n, R, q, b, y)
  <2>1. NodeOK(t, S, par, sub, y) /\ y \in Offsets /\ y # x /\ y # z
    BY <1>0
  <2>2. \A r \in Sides : HasChild(n, y, r) => Child(n, y, r) \in R /\ q[Child(n, y, r)] = y
    BY <1>4
  <2>3. \A r \in Sides : y \notin Kids(n, b, y, r)
    BY <1>4, <2>1 DEF NodeOK
  <2>4. \A r \in Sides : \A u \in Kids(n, b, y, r) : Ordered(r, SizeAt(n, u), SizeAt(n, y))
    <3> SUFFICES ASSUME NEW r \in Sides, NEW u \in Kids(n, b, y, r)
                 PROVE  Ordered(r, SizeAt(n, u), SizeAt(n, y))
      OBVIOUS
    <3>1. CASE u = z
      <4>1. x \in Kids(t, sub, y, r)
        BY <1>0, <1>4, <3>1
      <4>2. Ordered(r, SizeAt(t, z), SizeAt(t, y))
        BY <4>1 DEF Fits
      <4> QED BY <1>0, <1>3, <2>1, <3>1, <4>2
    <3>2. CASE u # z
      <4>1. u \in Kids(t, sub, y, r) /\ u \in Offsets
        BY <1>0, <1>4, <3>2
      <4>2. Ordered(r, SizeAt(t, u), SizeAt(t, y))
        BY <2>1, <4>1 DEF NodeOK
      <4> QED BY <1>3, <2>1, <4>1, <4>2
    <3> QED BY <3>1, <3>2
  <2>5. PICK A, B : A = Kids(t, sub, y, "left") /\ B = Kids(t, sub, y, "right")
    OBVIOUS
  <2>6. A \cap B = {} /\ sub[y] = {y} \cup A \cup B /\ A \subseteq S /\ B \subseteq S
    BY <1>0, <2>1, <2>5 DEF NodeOK, Sides
  <2>7. /\ Kids(n, b, y, "left") = IF x \in A THEN (A \ {x}) \cup {z} ELSE A
        /\ Kids(n, b, y, "right") = IF x \in B THEN (B \ {x}) \cup {z} ELSE B
    BY <1>4, <2>5 DEF Sides
  <2>8. Kids(n, b, y, "left") \cap Kids(n, b, y, "right") = {}
    BY <1>0, <2>6, <2>7
  <2>9. b[y] = {y} \cup Kids(n, b, y, "left") \cup Kids(n, b, y, "right")
    <3>1. CASE x \in A
      <4>1. x \notin B /\ x \in sub[y]
        BY <2>6, <3>1
      <4>2. b[y] = (sub[y] \ {x}) \cup {z}
        BY <1>1, <4>1
      <4> QED BY <2>1, <2>6, <2>7, <3>1, <4>1, <4>2
    <3>2. CASE x \in B
      <4>1. x \notin A /\ x \in sub[y]
        BY <2>6, <3>2
      <4>2. b[y] = (sub[y] \ {x}) \cup {z}
        BY <1>1, <4>1
      <4> QED BY <2>1, <2>6, <2>7, <3>2, <4>1, <4>2
    <3>3. CASE x \notin A /\ x \notin B
      <4>1. b[y] = sub[y]
        BY <1>1, <2>1, <2>6, <3>3
      <4> QED BY <2>6, <2>7, <3>3, <4>1
    <3> QED BY <3>1, <3>2, <3>3
  <2>10. b[y] \subseteq R
    <3>1. y \in S /\ sub[y] \subseteq S
      BY <1>0
    <3>2. b[y] = IF x \in sub[y] THEN (sub[y] \ {x}) \cup {z} ELSE sub[y]
      BY <1>1, <3>1
    <3>3. (sub[y] \ {x}) \cup {z} \subseteq R
      BY <3>1, <1>r
    <3>4. x \notin sub[y] => sub[y] \subseteq R
      BY <3>1, <1>r
    <3> QED BY <3>2, <3>3, <3>4
  <2> QED BY <2>2, <2>3, <2>4, <2>8, <2>9, <2>10 DEF NodeOK
<1>6. ASSUME NEW r \in Sides
      PROVE  /\ Kids(n, b, z, r) = Kids(t, sub, x, r)
             /\ HasChild(n, z, r) => Child(n, z, r) \in R /\ q[Child(n, z, r)] = z
  <2>1. PICK d : d = Child(t, x, r)
    OBVIOUS
  <2>2. CASE d = x
    <3>1. Child(n, z, r) = z
      BY <1>0, <1>2, <2>1, <2>2 DEF HasChild
    <3> QED BY <2>1, <2>2, <3>1 DEF HasChild, Kids
  <2>3. CASE d # x
    <3>1. d \in S /\ par[d] = x /\ Kids(t, sub, x, r) = sub[d] /\ x \notin sub[d]
      BY <1>0, <2>1, <2>3 DEF NodeOK, HasChild, Kids
    <3>2. Child(n, z, r) = d /\ d # z
      BY <1>0, <1>2, <2>1, <2>3, <3>1 DEF HasChild
    <3>3. Kids(n, b, z, r) = b[d]
      BY <3>2 DEF HasChild, Kids
    <3>4. b[d] = sub[d]
      BY <1>1, <3>1
    <3>5. q[d] = z /\ d \in R
      BY <1>0, <1>q, <1>r, <2>3, <3>1
    <3> QED BY <3>1, <3>2, <3>3, <3>4, <3>5
  <2> QED BY <2>2, <2>3
<1>7. NodeOK(n, R, q, b, z)
  <2>1. NodeOK(t, S, par, sub, x)
    BY <1>0
  <2>2. \A r \in Sides : \A u \in Kids(n, b, z, r) : Ordered(r, SizeAt(n, u), SizeAt(n, z))
    <3> SUFFICES ASSUME NEW r \in Sides, NEW u \in Kids(n, b, z, r)
                 PROVE  Ordered(r, SizeAt(n, u), SizeAt(n, z))
      OBVIOUS
    <3>1. u \in Kids(t, sub, x, r) /\ u \in Offsets
      BY <1>0, <1>6
    <3> QED BY <1>0, <1>3, <3>1
  <2>3. \A r \in Sides : z \notin Kids(n, b, z, r)
    BY <1>0, <1>6
  <2>4. /\ Kids(n, b, z, "left") = Kids(t, sub, x, "left")
        /\ Kids(n, b, z, "right") = Kids(t, sub, x, "right")
    BY <1>6 DEF Sides
  <2>5. Kids(n, b, z, "left") \cap Kids(n, b, z, "right") = {}
    BY <2>1, <2>4 DEF NodeOK
  <2>6. /\ sub[x] = {x} \cup Kids(t, sub, x, "left") \cup Kids(t, sub, x, "right") /\ sub[x] \subseteq S
        /\ x \notin Kids(t, sub, x, "left") /\ x \notin Kids(t, sub, x, "right")
    BY <2>1 DEF NodeOK, Sides
  <2>7. b[z] = {z} \cup Kids(n, b, z, "left") \cup Kids(n, b, z, "right") /\ b[z] \subseteq R
    BY <1>1, <1>r, <2>4, <2>6
  <2> QED BY <1>6, <2>2, <2>3, <2>5, <2>7 DEF NodeOK
<1>8. \A y \in Offsets \ R, r \in Sides : ~HasChild(n, y, r)
  <2> SUFFICES ASSUME NEW y \in Offsets, y \notin R, NEW r \in Sides, HasChild(n, y, r) PROVE FALSE
    OBVIOUS
  <2>1. y # x
    BY <1>2 DEF HasChild
  <2>2. y # z /\ y \notin S
    BY <1>r, <2>1
  <2>3. Child(t, y, r) = y
    BY <2>2, TreeFacts DEF HasChild
  <2> QED BY <1>2, <2>1, <2>2, <2>3 DEF HasChild
<1>9. q \in [Offsets -> Offsets \cup {None}] /\ b \in [Offsets -> SUBSET Offsets]
  BY <1>0, <1>b, <1>q
<1>10. n.root # None /\ n.root \in R /\ q[n.root] = None /\ b[n.root] = R
  <2>1. t.root # None /\ t.root \in S /\ par[t.root] = None /\ sub[t.root] = S
    BY DEF Tree
  <2>2. /\ t.root = x => n.root = z
        /\ t.root # x => n.root = t.root
    BY DEF Replaced
  <2>3. CASE t.root = x
    BY <1>0, <1>1, <1>q, <1>r, <2>1, <2>2, <2>3, NoneIs
  <2>4. CASE t.root # x
    <3>1. q[t.root] = None
      BY <1>0, <1>q, <2>1, NoneIs
    <3>2. b[t.root] = R
      BY <1>0, <1>1, <1>r, <2>1
    <3> QED BY <1>r, <2>1, <2>2, <2>4, <3>1, <3>2
  <2> QED BY <2>3, <2>4
<1>11. n \in TreeType /\ R \subseteq Offsets
  BY <1>0, <1>r DEF Replaced
<1>12. \A y \in R : NodeOK(n, R, q, b, y)
  BY <1>5, <1>7, <1>r
<1>13. Tree(n, R, q, b)
  BY <1>8, <1>9, <1>10, <1>11, <1>12 DEF Tree
<1> QED BY <1>13, <1>r DEF IsTree
-----------------------------------------------------------------------------
(***************************************************************************)
(* mp_heap_btree_delete: the tree with one block less is a search tree.    *)
(***************************************************************************)
(* What the recursive function Leftmost gives, one turn of the loop after  *)
(* the other.                                                              *)
LEMMA LeftmostIs ==
  ASSUME NEW t, NEW S, NEW par, NEW sub, Tree(t, S, par, sub)
  PROVE  \A p \in Offsets :
           Leftmost(t)[p] = IF HasChild(t, Child(t, p, "left"), "left")
                            THEN Leftmost(t)[Child(t, p, "left")] ELSE p
<1> DEFINE P(f) == f = [p \in Offsets |-> IF HasChild(t, Child(t, p, "left"), "left")
                                          THEN f[Child(t, p, "left")] ELSE p]
<1>1. Leftmost(t) = CHOOSE f : P(f)
  BY DEF Leftmost, Child
<1>2. \E f : P(f)
  <2>a. PICK a : a = [p \in Offsets |-> IF HasChild(t, Child(t, p, "left"), "left")
                                        THEN Child(t, p, "left") ELSE p]
    OBVIOUS
  <2>b. PICK b : b = [p \in Offsets |-> p]
    OBVIOUS
  <2>f. PICK F : F = [p \in Offsets |-> [u \in Offsets |-> [v \in Offsets |->
          IF HasChild(t, Child(t, p, "left"), "left") THEN u ELSE p]]]
    OBVIOUS
  <2>1. F \in [Offsets -> [Offsets -> [Offsets -> Offsets]]] /\ 0 \in Offsets
    BY <2>f, TreeAssumption DEF Offsets
  <2>2. \A p \in Offsets : Child(t, p, "left") \in Offsets
    BY TreeFacts, ChildType DEF Sides
  <2>3. a \in [Offsets -> Offsets] /\ b \in [Offsets -> Offsets]
    BY <2>2, <2>a, <2>b
  <2>4. ASSUME NEW p \in Offsets, a[p] # p
        PROVE  HasChild(t, p, "left") /\ a[p] = Child(t, p, "left")
    BY <2>4, <2>a DEF HasChild
  <2>5. Follows(t, a) /\ Follows(t, b)
    BY <2>3, <2>4, <2>b DEF Follows, Sides
  <2>6. PICK f \in [Offsets -> Offsets] : Computes(Offsets, 0, F, a, b, f)
    BY <2>1, <2>5, TreeRecursion
  <2>7. ASSUME NEW p \in Offsets
        PROVE  f[p] = IF HasChild(t, Child(t, p, "left"), "left") THEN f[Child(t, p, "left")] ELSE p
    <3>1. b[p] = p
      BY <2>b
    <3>2. PICK u \in Offsets : u = IF a[p] = p THEN 0 ELSE f[a[p]]
      BY <2>1, <2>3
    <3>3. f[p] = F[p][u][0]
      BY <2>1, <2>6, <3>1, <3>2 DEF Computes
    <3>4. f[p] = IF HasChild(t, Child(t, p, "left"), "left") THEN u ELSE p
      BY <2>1, <2>f, <3>3
    <3>5. ASSUME HasChild(t, Child(t, p, "left"), "left") PROVE u = f[Child(t, p, "left")]
      <4>1. Child(t, p, "left") # p
        BY <3>5 DEF HasChild
      <4>2. a[p] = Child(t, p, "left")
        BY <2>a, <3>5
      <4> QED BY <3>2, <4>1, <4>2
    <3> QED BY <3>4, <3>5
  <2> QED BY <2>7
<1> HIDE DEF P
<1>3. P(Leftmost(t))
  BY <1>1, <1>2
<1> QED BY <1>3 DEF P

(* q's left child is the least node of a subtree.                          *)
LeastBelow(t, S, sub, p, q) ==
  /\ q \in S /\ q \in sub[p] /\ HasChild(t, q, "left") /\ ~HasChild(t, Child(t, q, "left"), "left")
  /\ Child(t, q, "left") \in sub[p]
  /\ \A u \in sub[p] : SizeAt(t, Child(t, q, "left")) <= SizeAt(t, u)

(* The leftmost node of a subtree is its least one.                        *)
LEMMA LeftmostIsLeast ==
  ASSUME NEW t, NEW S, NEW par, NEW sub, Tree(t, S, par, sub)
  PROVE  \A p \in S : HasChild(t, p, "left") => LeastBelow(t, S, sub, p, Leftmost(t)[p])
<1> DEFINE T == {p \in S : HasChild(t, p, "left") => LeastBelow(t, S, sub, p, Leftmost(t)[p])}
<1>0. /\ t \in TreeType /\ S \subseteq Offsets
      /\ \A y \in S : NodeOK(t, S, par, sub, y)
      /\ \A y \in S : y \in sub[y] /\ sub[y] \subseteq S
  BY TreeFacts DEF NodeOK
<1>s. \A y \in S : SizeAt(t, y) \in Nat
  BY <1>0, ChildType
<1>1. ASSUME NEW p \in S, \A s \in Sides : HasChild(t, p, s) => Child(t, p, s) \in T,
             HasChild(t, p, "left")
      PROVE  LeastBelow(t, S, sub, p, Leftmost(t)[p])
  <2>1. PICK c : c = Child(t, p, "left")
    OBVIOUS
  <2>2. PICK B : B = Kids(t, sub, p, "right")
    OBVIOUS
  <2>3. c \in T /\ c \in S /\ Kids(t, sub, p, "left") = sub[c] /\ c \in sub[c]
    BY <1>0, <1>1, <2>1 DEF Kids, NodeOK, Sides
  <2>4. sub[p] = {p} \cup sub[c] \cup B /\ sub[p] \subseteq S
    BY <1>0, <2>2, <2>3 DEF NodeOK
  <2>5. \A u \in sub[c] : SizeAt(t, u) <= SizeAt(t, p)
    BY <1>0, <2>3 DEF NodeOK, Sides, Ordered
  <2>6. \A u \in B : SizeAt(t, p) <= SizeAt(t, u)
    BY <1>0, <2>2 DEF NodeOK, Sides, Ordered
  <2>7. ASSUME NEW d \in sub[c], \A u \in sub[c] : SizeAt(t, d) <= SizeAt(t, u)
        PROVE  \A u \in sub[p] : SizeAt(t, d) <= SizeAt(t, u)
    <3> TAKE u \in sub[p]
    <3>1. d \in S /\ u \in S /\ SizeAt(t, d) \in Nat /\ SizeAt(t, u) \in Nat /\ SizeAt(t, p) \in Nat
      BY <1>s, <2>4
    <3>2. SizeAt(t, d) <= SizeAt(t, p)
      BY <2>5
    <3>3. CASE u \in sub[c]
      BY <2>7, <3>3
    <3>4. CASE u = p
      BY <3>2, <3>4
    <3>5. CASE u \in B
      BY <2>6, <3>1, <3>2, <3>5
    <3> QED BY <2>4, <3>3, <3>4, <3>5
  <2>8. CASE HasChild(t, c, "left")
    <3>1. Leftmost(t)[p] = Leftmost(t)[c]
      BY <1>0, <2>1, <2>8, LeftmostIs
    <3>2. LeastBelow(t, S, sub, c, Leftmost(t)[c])
      BY <2>3, <2>8
    <3>3. PICK q : q = Leftmost(t)[c]
      OBVIOUS
    <3>4. PICK d : d = Child(t, q, "left")
      OBVIOUS
    <3>5. /\ q \in S /\ q \in sub[c] /\ HasChild(t, q, "left") /\ ~HasChild(t, d, "left")
          /\ d \in sub[c] /\ \A u \in sub[c] : SizeAt(t, d) <= SizeAt(t, u)
      BY <3>2, <3>3, <3>4 DEF LeastBelow
    <3>6. LeastBelow(t, S, sub, p, q)
      BY <2>4, <2>7, <3>4, <3>5 DEF LeastBelow
    <3> QED BY <3>1, <3>3, <3>6
  <2>9. CASE ~HasChild(t, c, "left")
    <3>1. Leftmost(t)[p] = p
      BY <1>0, <2>1, <2>9, LeftmostIs
    <3>2. Kids(t, sub, c, "left") = {}
      BY <2>9 DEF Kids
    <3>3. sub[c] = {c} \cup Kids(t, sub, c, "right")
      BY <1>0, <2>3, <3>2 DEF NodeOK
    <3>4. \A u \in Kids(t, sub, c, "right") : SizeAt(t, c) <= SizeAt(t, u)
      BY <1>0, <2>3 DEF NodeOK, Sides, Ordered
    <3>5. SizeAt(t, c) <= SizeAt(t, c)
      BY <1>s, <2>3
    <3>6. \A u \in sub[c] : SizeAt(t, c) <= SizeAt(t, u)
      BY <3>3, <3>4, <3>5
    <3>7. LeastBelow(t, S, sub, p, p)
      BY <1>1, <2>1, <2>3, <2>4, <2>7, <2>9, <3>6 DEF LeastBelow
    <3> QED BY <3>1, <3>7
  <2> QED BY <2>8, <2>9
<1>2. \A p \in S : (\A s \in Sides : HasChild(t, p, s) => Child(t, p, s) \in T) => p \in T
  BY <1>1
<1> HIDE DEF T
<1>3. S \subseteq T
  BY <1>2, TreeInduction
<1> QED BY <1>3 DEF T
-----------------------------------------------------------------------------
(* mp_heap_btree_delete of a node with two children: the least node of its *)
(* right subtree comes in its place.                                       *)
LEMMA DeleteTwo ==
  ASSUME NEW t, NEW S, NEW par, NEW sub, Tree(t, S, par, sub), NEW x \in S,
         NEW parent, NEW side, LinkTo(t, parent, x, side),
         HasChild(t, x, "left"), HasChild(t, x, "right")
  PROVE  IsTree(Delete(t, parent, x, side), S \ {x}) /\ SameSizes(Delete(t, parent, x, side), t)
<1>0. /\ t \in TreeType /\ S \subseteq Offsets /\ x \in Offsets
      /\ \A y \in S : NodeOK(t, S, par, sub, y)
      /\ \A y \in S, r \in Sides : Kids(t, sub, y, r) \subseteq S
      /\ \A y \in S : y \in sub[y] /\ sub[y] \subseteq S
      /\ \A y \in S : SizeAt(t, y) \in Nat
  BY TreeFacts, ChildType DEF NodeOK
<1>c. PICK c : c = Child(t, x, "right")
  OBVIOUS
<1>1. c \in S /\ Kids(t, sub, x, "right") = sub[c] /\ c # x /\ c \in sub[c] /\ x \notin sub[c]
  BY <1>0, <1>c DEF NodeOK, Kids, Sides, HasChild
<1>d. PICK direct : direct = ~HasChild(t, t.node[x].right, "left")
  OBVIOUS
<1>p. PICK tparent : tparent = IF direct THEN x ELSE Leftmost(t)[t.node[x].right]
  OBVIOUS
<1>t. PICK tail : tail = IF direct THEN t.node[x].right ELSE t.node[tparent].left
  OBVIOUS
<1>e. PICK tside : tside = IF direct THEN "right" ELSE "left"
  OBVIOUS
<1>2. direct = ~HasChild(t, c, "left") /\ t.node[x].right = c
  BY <1>c, <1>d DEF Child
<1>3. /\ tail \in sub[c] /\ tail \in S /\ ~HasChild(t, tail, "left") /\ LinkTo(t, tparent, tail, tside)
      /\ \A u \in sub[c] : SizeAt(t, tail) <= SizeAt(t, u)
  <2>1. CASE direct
    <3>1. tparent = x /\ tail = c /\ tside = "right"
      BY <1>2, <1>e, <1>p, <1>t, <2>1
    <3>2. LinkTo(t, tparent, tail, tside)
      BY <1>0, <1>c, <3>1 DEF LinkTo, Sides
    <3>3. ~HasChild(t, c, "left")
      BY <1>2, <2>1
    <3>4. Kids(t, sub, c, "left") = {}
      BY <3>3 DEF Kids
    <3>5. sub[c] = {c} \cup Kids(t, sub, c, "right")
      BY <1>0, <1>1, <3>4 DEF NodeOK
    <3>6. \A u \in Kids(t, sub, c, "right") : SizeAt(t, c) <= SizeAt(t, u)
      BY <1>0, <1>1 DEF NodeOK, Sides, Ordered
    <3>7. SizeAt(t, c) <= SizeAt(t, c)
      BY <1>0, <1>1
    <3>8. \A u \in sub[c] : SizeAt(t, c) <= SizeAt(t, u)
      BY <3>5, <3>6, <3>7
    <3> QED BY <1>1, <3>1, <3>2, <3>3, <3>8
  <2>2. CASE ~direct
    <3>1. HasChild(t, c, "left")
      BY <1>2, <2>2
    <3>2. LeastBelow(t, S, sub, c, Leftmost(t)[c])
      BY <1>1, <3>1, LeftmostIsLeast
    <3>3. tparent = Leftmost(t)[c] /\ tail = Child(t, tparent, "left") /\ tside = "left"
      BY <1>2, <1>e, <1>p, <1>t, <2>2 DEF Child
    <3>4. /\ tparent \in S /\ HasChild(t, tparent, "left") /\ ~HasChild(t, tail, "left")
          /\ tail \in sub[c] /\ \A u \in sub[c] : SizeAt(t, tail) <= SizeAt(t, u)
      BY <3>2, <3>3 DEF LeastBelow
    <3>5. LinkTo(t, tparent, tail, tside)
      BY <1>0, <3>3, <3>4 DEF LinkTo, Sides
    <3> QED BY <1>0, <1>1, <3>4, <3>5
  <2> QED BY <2>1, <2>2
<1>r. PICK rest : rest = DeleteOne(t, tparent, tail, tside)
  OBVIOUS
<1>k. PICK k : k = Child(t, tail, "right")
  OBVIOUS
<1>4. OnlyChild(t, tail, k)
  BY <1>3, <1>k DEF OnlyChild, HasChild, Sides
<1>5. Detached(t, rest, tail, k)
  BY <1>3, <1>4, <1>r, DeleteOneIs
<1>b. PICK b : b = Without(sub, tail)
  OBVIOUS
<1>6. /\ \E q : Tree(rest, S \ {tail}, q, b)
      /\ \A y \in S \ {tail}, r \in Sides : Kids(rest, b, y, r) = Kids(t, sub, y, r) \ {tail}
  <2>1. /\ \E q : Tree(rest, S \ {tail}, q, Without(sub, tail))
        /\ \A y \in S \ {tail}, r \in Sides :
             Kids(rest, Without(sub, tail), y, r) = Kids(t, sub, y, r) \ {tail}
    BY <1>3, <1>4, <1>5, Detach
  <2> QED BY <2>1, <1>b
<1>7. PICK q : Tree(rest, S \ {tail}, q, b)
  BY <1>6
<1>8. /\ rest \in TreeType /\ SameSizes(rest, t)
      /\ \A y \in Offsets, r \in Sides :
           /\ y = tail => Child(rest, y, r) = tail
           /\ y # tail /\ Child(t, y, r) # tail => Child(rest, y, r) = Child(t, y, r)
      /\ t.root # tail => rest.root = t.root
  BY <1>5 DEF Detached
<1>9. tail # x /\ tail \in Offsets /\ x \in S \ {tail} /\ tail \in Offsets \ (S \ {tail})
  BY <1>0, <1>1, <1>3
<1>10. \A y \in Offsets : SizeAt(rest, y) = SizeAt(t, y)
  BY <1>8 DEF SameSizes
<1>11. LinkTo(rest, parent, x, side)
  <2>1. CASE side = "root"
    BY <1>8, <1>9, <2>1 DEF LinkTo, Sides
  <2>2. CASE side # "root"
    <3>1. side \in Sides /\ parent \in Offsets /\ HasChild(t, parent, side) /\ Child(t, parent, side) = x
      BY <2>2 DEF LinkTo
    <3>2. parent \in S /\ x \in Kids(t, sub, parent, side) /\ Kids(t, sub, parent, side) = sub[x]
      BY <1>0, <3>1, TreeFacts DEF Kids
    <3>3. parent \notin sub[x]
      BY <1>0, <3>1, <3>2 DEF NodeOK
    <3>4. tail \in sub[x]
      <4>1. sub[c] \subseteq sub[x]
        BY <1>0, <1>1 DEF NodeOK
      <4> QED BY <1>3, <4>1
    <3>5. Child(rest, parent, side) = x
      BY <1>8, <1>9, <3>1, <3>3, <3>4
    <3> QED BY <3>1, <3>5 DEF LinkTo, HasChild
  <2> QED BY <2>1, <2>2
<1>12. Child(rest, x, "left") = Child(t, x, "left") /\ HasChild(rest, x, "left")
  <2>1. Child(t, x, "left") \in Kids(t, sub, x, "left")
    BY <1>0 DEF NodeOK, Kids, Sides
  <2>2. Kids(t, sub, x, "left") \cap Kids(t, sub, x, "right") = {}
    BY <1>0 DEF NodeOK
  <2>3. Child(t, x, "left") # tail
    BY <1>1, <1>3, <2>1, <2>2
  <2> QED BY <1>0, <1>8, <1>9, <2>3 DEF HasChild, Sides
<1>13. Fits(rest, S \ {tail}, b, x, SizeAt(rest, tail))
  <2> SUFFICES ASSUME NEW y \in S \ {tail}, NEW s \in Sides, x \in Kids(rest, b, y, s)
               PROVE  Ordered(s, SizeAt(rest, tail), SizeAt(rest, y))
    BY DEF Fits
  <2>1. x \in Kids(t, sub, y, s)
    BY <1>6
  <2>2. PICK e : e = Child(t, y, s)
    OBVIOUS
  <2>3. HasChild(t, y, s) /\ e \in S /\ Kids(t, sub, y, s) = sub[e]
    BY <1>0, <2>1, <2>2 DEF Kids, NodeOK
  <2>4. sub[x] \subseteq sub[e]
    BY <2>1, <2>3, SubtreesNest
  <2>5. sub[c] \subseteq sub[x]
    BY <1>0, <1>1 DEF NodeOK
  <2>6. tail \in Kids(t, sub, y, s)
    BY <1>3, <2>3, <2>4, <2>5
  <2>7. Ordered(s, SizeAt(t, tail), SizeAt(t, y))
    BY <1>0, <2>6 DEF NodeOK
  <2> QED BY <1>0, <1>9, <1>10, <2>7
<1>14. ASSUME NEW s \in Sides, NEW u \in Kids(rest, b, x, s)
       PROVE  Ordered(s, SizeAt(rest, u), SizeAt(rest, tail))
  <2>1. u \in Kids(t, sub, x, s) /\ u \in S
    BY <1>0, <1>6, <1>9
  <2>2. CASE s = "right"
    <3>1. SizeAt(t, tail) <= SizeAt(t, u)
      BY <1>1, <1>3, <2>1, <2>2
    <3> QED BY <1>0, <1>9, <1>10, <2>1, <2>2, <3>1 DEF Ordered
  <2>3. CASE s = "left"
    <3>1. SizeAt(t, u) <= SizeAt(t, x)
      BY <1>0, <2>1, <2>3 DEF NodeOK, Ordered
    <3>2. SizeAt(t, x) <= SizeAt(t, tail)
      BY <1>0, <1>1, <1>3 DEF NodeOK, Ordered, Sides
    <3>3. SizeAt(t, u) \in Nat /\ SizeAt(t, x) \in Nat /\ SizeAt(t, tail) \in Nat
      BY <1>0, <1>3, <2>1
    <3>4. SizeAt(t, u) <= SizeAt(t, tail)
      BY <3>1, <3>2, <3>3
    <3> QED BY <1>0, <1>9, <1>10, <2>1, <2>3, <3>4 DEF Ordered
  <2> QED BY <2>2, <2>3 DEF Sides
<1>l. PICK l : l = Child(rest, x, "left")
  OBVIOUS
<1>g. PICK g : g = IF HasChild(rest, x, "right") THEN Child(rest, x, "right") ELSE tail
  OBVIOUS
<1>m. PICK m : m = [rest EXCEPT !.node[tail].left = l, !.node[tail].right = g]
  OBVIOUS
<1>15. l \in Offsets /\ g \in Offsets
  BY <1>0, <1>8, <1>9, <1>g, <1>l, ChildType DEF Sides
<1>16. /\ m \in TreeType /\ m.root = rest.root /\ SameSizes(m, rest)
       /\ Child(m, tail, "left") = l /\ Child(m, tail, "right") = g
       /\ \A y \in Offsets, r \in Sides : y # tail => Child(m, y, r) = Child(rest, y, r)
  <2>1. PICK m1 : m1 = Linked(rest, tail, "left", l)
    OBVIOUS
  <2>2. PICK m2 : m2 = Linked(m1, tail, "right", g)
    OBVIOUS
  <2>3. m2 = m
    BY <1>m, <2>1, <2>2 DEF Linked
  <2>4. "left" \in Sides /\ "right" \in Sides /\ rest \in TreeType /\ tail \in Offsets
    BY <1>8, <1>9 DEF Sides
  <2>5. Relinked(rest, m1, tail, "left", l)
    BY <1>15, <2>1, <2>4, LinkedIs
  <2>6. m1 \in TreeType
    BY <2>5 DEF Relinked
  <2>7. Relinked(m1, m2, tail, "right", g)
    BY <1>15, <2>2, <2>4, <2>6, LinkedIs
  <2> QED BY <1>9, <2>3, <2>4, <2>5, <2>7 DEF Relinked, SameSizes, Sides
<1>h. PICK h : h = Linked(m, parent, side, tail)
  OBVIOUS
<1>n. PICK n : n = Unlinked(h, x)
  OBVIOUS
<1>17. Delete(t, parent, x, side) = n
  BY <1>d, <1>p, <1>t, <1>e, <1>r, <1>l, <1>g, <1>m, <1>h, <1>n DEF Delete, Child
<1>18. Replaced(rest, n, x, tail)
  <2>1. /\ side = "root" => parent = None /\ rest.root = x
           /\ \A y \in Offsets, r \in Sides : y # x => Child(rest, y, r) # x
        /\ side # "root" =>
            /\ rest.root # x /\ side \in Sides /\ parent \in S \ {tail} /\ parent # x
            /\ Child(rest, parent, side) = x
            /\ \A y \in Offsets, r \in Sides : y # x /\ Child(rest, y, r) = x => y = parent /\ r = side
    BY <1>7, <1>9, <1>11, OneLink
  <2>2. CASE side = "root"
    <3>1. /\ h \in TreeType /\ h.root = tail /\ SameSizes(h, m)
          /\ \A y \in Offsets, r \in Sides : Child(h, y, r) = Child(m, y, r)
      BY <1>9, <1>16, <1>h, <2>2, RootLinkedIs
    <3>2. /\ n \in TreeType /\ n.root = h.root /\ SameSizes(n, h)
          /\ \A y \in Offsets, r \in Sides : Child(n, y, r) = IF y = x THEN x ELSE Child(h, y, r)
      BY <1>0, <1>n, <3>1, UnlinkedIs
    <3>3. SameSizes(n, rest)
      BY <1>16, <3>1, <3>2 DEF SameSizes
    <3>4. \A r \in Sides : Child(n, tail, r) = IF HasChild(rest, x, r) THEN Child(rest, x, r) ELSE tail
      BY <1>9, <1>12, <1>16, <1>g, <1>l, <3>1, <3>2 DEF Sides
    <3> QED BY <1>9, <1>16, <2>1, <2>2, <3>1, <3>2, <3>3, <3>4 DEF Replaced
  <2>3. CASE side # "root"
    <3>1. parent \in Offsets /\ parent # tail /\ parent # x
      BY <1>0, <2>1, <2>3
    <3>2. /\ h \in TreeType /\ h.root = m.root /\ SameSizes(h, m) /\ Child(h, parent, side) = tail
          /\ \A y \in Offsets, r \in Sides : y # parent \/ r # side => Child(h, y, r) = Child(m, y, r)
      BY <1>9, <1>16, <1>h, <2>1, <2>3, <3>1, LinkedIs DEF Relinked
    <3>3. /\ n \in TreeType /\ n.root = h.root /\ SameSizes(n, h)
          /\ \A y \in Offsets, r \in Sides : Child(n, y, r) = IF y = x THEN x ELSE Child(h, y, r)
      BY <1>0, <1>n, <3>2, UnlinkedIs
    <3>4. SameSizes(n, rest)
      BY <1>16, <3>2, <3>3 DEF SameSizes
    <3>5. \A r \in Sides : Child(n, tail, r) = IF HasChild(rest, x, r) THEN Child(rest, x, r) ELSE tail
      BY <1>9, <1>12, <1>16, <1>g, <1>l, <3>1, <3>2, <3>3 DEF Sides
    <3>6. ASSUME NEW y \in Offsets, NEW r \in Sides, y # x, y # tail
          PROVE  Child(n, y, r) = IF Child(rest, y, r) = x THEN tail ELSE Child(rest, y, r)
      <4>1. Child(n, y, r) = Child(h, y, r) /\ Child(m, y, r) = Child(rest, y, r)
        BY <1>16, <3>3, <3>6
      <4>2. CASE y = parent /\ r = side
        BY <2>1, <2>3, <3>2, <4>1, <4>2
      <4>3. CASE ~(y = parent /\ r = side)
        <5>1. Child(rest, y, r) # x
          BY <2>1, <2>3, <3>6, <4>3
        <5> QED BY <3>2, <4>1, <4>3, <5>1
      <4> QED BY <4>2, <4>3
    <3>7. \A r \in Sides : Child(n, x, r) = x
      BY <1>0, <3>3
    <3>8. n.root = rest.root /\ rest.root # x
      BY <1>16, <2>1, <2>3, <3>2, <3>3
    <3> QED BY <3>3, <3>4, <3>5, <3>6, <3>7, <3>8 DEF Replaced
  <2> QED BY <2>2, <2>3
<1>19. IsTree(n, ((S \ {tail}) \ {x}) \cup {tail})
  BY <1>7, <1>9, <1>13, <1>14, <1>18, Replace
<1>20. ((S \ {tail}) \ {x}) \cup {tail} = S \ {x}
  BY <1>3, <1>9
<1>21. SameSizes(n, t)
  BY <1>8, <1>18 DEF SameSizes, Replaced
<1> QED BY <1>17, <1>19, <1>20, <1>21

(* mp_heap_btree_delete: a block with no child, with one or with two that  *)
(* is deleted leaves a search tree of the others, each with its size.      *)
THEOREM DeleteKeepsTree ==
  ASSUME NEW t, NEW S, NEW par, NEW sub, Tree(t, S, par, sub), NEW x \in S,
         NEW parent, NEW side, LinkTo(t, parent, x, side)
  PROVE  IsTree(Delete(t, parent, x, side), S \ {x}) /\ SameSizes(Delete(t, parent, x, side), t)
<1>1. CASE HasChild(t, x, "left") /\ HasChild(t, x, "right")
  BY <1>1, DeleteTwo
<1>2. CASE ~(HasChild(t, x, "left") /\ HasChild(t, x, "right"))
  <2>1. PICK n : n = DeleteOne(t, parent, x, side)
    OBVIOUS
  <2>2. Delete(t, parent, x, side) = n
    BY <1>2, <2>1 DEF Delete
  <2>3. PICK c : OnlyChild(t, x, c)
    <3>1. CASE ~HasChild(t, x, "left") /\ ~HasChild(t, x, "right")
      BY <3>1 DEF OnlyChild
    <3>2. CASE HasChild(t, x, "left")
      BY <1>2, <3>2 DEF OnlyChild, Sides
    <3>3. CASE HasChild(t, x, "right")
      BY <1>2, <3>3 DEF OnlyChild, Sides
    <3> QED BY <3>1, <3>2, <3>3
  <2>4. Detached(t, n, x, c)
    BY <2>1, <2>3, DeleteOneIs
  <2>5. \E q : Tree(n, S \ {x}, q, Without(sub, x))
    BY <2>3, <2>4, Detach
  <2> QED BY <2>2, <2>4, <2>5 DEF IsTree, Detached
<1> QED BY <1>1, <1>2
-----------------------------------------------------------------------------
(***************************************************************************)
(* mp_heap_btree_find_delete: the path of the search reaches every block   *)
(* that can be the best.                                                   *)
(***************************************************************************)
(* A sequence of one node.                                                 *)
LEMMA OneElement ==
  ASSUME NEW X, NEW p \in X
  PROVE  /\ <<p>> \in Seq(X) /\ Len(<<p>>) = 1 /\ <<p>>[1] = p
         /\ <<p>> \o <<>> = <<p>>
OBVIOUS

(* The search goes on from p.                                              *)
Turns(t, n, p) == Turn(t, p, n) # "none" /\ HasChild(t, p, Turn(t, p, n))

(* The turn that the search takes at a node.                               *)
LEMMA TurnIs ==
  ASSUME NEW t, NEW n, NEW p, SizeAt(t, p) \in Nat, n \in Nat
  PROVE  /\ SizeAt(t, p) > n => Turn(t, p, n) = "left"
         /\ SizeAt(t, p) < n => Turn(t, p, n) = "right"
         /\ SizeAt(t, p) = n => Turn(t, p, n) = "none"
         /\ Turn(t, p, n) # "none" => Turn(t, p, n) \in Sides
BY DEF Turn, SizeAt, Sides

(* What the recursive function Path gives: the path from a node is the     *)
(* node and the path from the child.                                       *)
LEMMA PathIs ==
  ASSUME NEW t, NEW S, NEW par, NEW sub, Tree(t, S, par, sub), NEW n
  PROVE  \A p \in Offsets :
           /\ Turns(t, n, p) => Path(t, n)[p] = <<p>> \o Path(t, n)[Child(t, p, Turn(t, p, n))]
           /\ ~Turns(t, n, p) => Path(t, n)[p] = <<p>>
<1> DEFINE P(f) == f = [p \in Offsets |-> <<p>> \o (IF Turns(t, n, p) THEN f[Child(t, p, Turn(t, p, n))]
                                                     ELSE <<>>)]
<1>1. Path(t, n) = CHOOSE f : P(f)
  BY DEF Path, Turns
<1>s. PICK s : s = [p \in Offsets |-> Turn(t, p, n)]
  OBVIOUS
<1>v. PICK V : V = Seq(Offsets)
  OBVIOUS
<1>2. <<>> \in V /\ \A p \in Offsets : \A u \in V : <<p>> \o u \in V
  BY <1>v
<1>3. \E f \in [Offsets -> V] : P(f)
  <2>a. PICK a : a = [p \in Offsets |-> IF Turns(t, n, p) THEN Child(t, p, s[p]) ELSE p]
    OBVIOUS
  <2>b. PICK b : b = [p \in Offsets |-> p]
    OBVIOUS
  <2>f. PICK F : F = [p \in Offsets |-> [u \in V |-> [v \in V |-> <<p>> \o u]]]
    OBVIOUS
  <2>1. F \in [Offsets -> [V -> [V -> V]]] /\ <<>> \in V
    BY <1>2, <2>f
  <2>2. \A p \in Offsets : Turns(t, n, p) => s[p] \in Sides /\ HasChild(t, p, s[p])
    BY <1>s DEF Turns, Turn, Sides
  <2>3. \A p \in Offsets : Turns(t, n, p) => Child(t, p, s[p]) \in Offsets
    BY <2>2, TreeFacts, ChildType
  <2>4. a \in [Offsets -> Offsets] /\ b \in [Offsets -> Offsets]
    BY <2>3, <2>a, <2>b
  <2>5. Follows(t, a) /\ Follows(t, b)
    BY <2>2, <2>4, <2>a, <2>b DEF Follows
  <2>6. PICK f \in [Offsets -> V] : Computes(V, <<>>, F, a, b, f)
    BY <2>1, <2>5, TreeRecursion
  <2>7. ASSUME NEW p \in Offsets
        PROVE  f[p] = <<p>> \o (IF Turns(t, n, p) THEN f[Child(t, p, Turn(t, p, n))] ELSE <<>>)
    <3>1. b[p] = p
      BY <2>b
    <3>2. PICK u \in V : u = IF a[p] = p THEN <<>> ELSE f[a[p]]
      BY <2>1, <2>4
    <3>3. f[p] = F[p][u][<<>>]
      BY <2>1, <2>6, <3>1, <3>2 DEF Computes
    <3>4. f[p] = <<p>> \o u
      BY <2>1, <2>f, <3>3
    <3>5. CASE Turns(t, n, p)
      <4>1. a[p] # p /\ a[p] = Child(t, p, Turn(t, p, n))
        BY <1>s, <2>a, <3>5 DEF Turns, HasChild
      <4> QED BY <3>2, <3>4, <3>5, <4>1
    <3>6. CASE ~Turns(t, n, p)
      <4>1. a[p] = p
        BY <2>a, <3>6
      <4> QED BY <3>2, <3>4, <3>6, <4>1
    <3> QED BY <3>5, <3>6
  <2> QED BY <2>7
<1> HIDE DEF P
<1>4. P(Path(t, n))
  BY <1>1, <1>3
<1>5. Path(t, n) = [p \in Offsets |-> <<p>> \o (IF Turns(t, n, p)
                                                THEN Path(t, n)[Child(t, p, Turn(t, p, n))]
                                                ELSE <<>>)]
  BY <1>4 DEF P
<1>6. ASSUME NEW p \in Offsets
      PROVE  /\ Turns(t, n, p) => Path(t, n)[p] = <<p>> \o Path(t, n)[Child(t, p, Turn(t, p, n))]
             /\ ~Turns(t, n, p) => Path(t, n)[p] = <<p>>
  <2>1. PICK e : e = IF Turns(t, n, p) THEN Path(t, n)[Child(t, p, Turn(t, p, n))] ELSE <<>>
    OBVIOUS
  <2>2. Path(t, n)[p] = <<p>> \o e
    BY <1>5, <2>1
  <2>3. <<p>> \o <<>> = <<p>>
    BY OneElement
  <2> QED BY <2>1, <2>2, <2>3
<1> QED BY <1>6

(* What mp_heap_btree_find_delete visits from p: a path down the tree on   *)
(* which every block that is large enough is matched by one not larger.    *)
PathOK(t, sub, n, p, w) ==
  /\ w \in Seq(sub[p]) /\ Len(w) >= 1 /\ w[1] = p
  /\ \A k \in 1 .. Len(w) - 1 : Turns(t, n, w[k]) /\ w[k + 1] = Child(t, w[k], Turn(t, w[k], n))
  /\ \A u \in sub[p] : SizeAt(t, u) >= n =>
       \E k \in 1 .. Len(w) : n <= SizeAt(t, w[k]) /\ SizeAt(t, w[k]) <= SizeAt(t, u)

(* The search for n visits, of the blocks that are large enough, one at    *)
(* most as large as any of them.                                           *)
LEMMA PathFinds ==
  ASSUME NEW t, NEW S, NEW par, NEW sub, Tree(t, S, par, sub), NEW n \in Nat
  PROVE  \A p \in S : PathOK(t, sub, n, p, Path(t, n)[p])
<1> DEFINE T == {p \in S : PathOK(t, sub, n, p, Path(t, n)[p])}
<1>0. /\ t \in TreeType /\ S \subseteq Offsets
      /\ \A y \in S : NodeOK(t, S, par, sub, y)
      /\ \A y \in S : y \in sub[y] /\ sub[y] \subseteq S
      /\ \A y \in S : SizeAt(t, y) \in Nat
  BY TreeFacts, ChildType DEF NodeOK
<1>1. ASSUME NEW p \in S, \A s \in Sides : HasChild(t, p, s) => Child(t, p, s) \in T
      PROVE  PathOK(t, sub, n, p, Path(t, n)[p])
  <2>0. p \in Offsets /\ SizeAt(t, p) \in Nat /\ p \in sub[p] /\ sub[p] \subseteq S
    BY <1>0
  <2>1. PICK A, B : A = Kids(t, sub, p, "left") /\ B = Kids(t, sub, p, "right")
    OBVIOUS
  <2>2. sub[p] = {p} \cup A \cup B
    BY <1>0, <2>1 DEF NodeOK
  <2>3. (\A u \in A : SizeAt(t, u) <= SizeAt(t, p)) /\ (\A u \in B : SizeAt(t, p) <= SizeAt(t, u))
    BY <1>0, <2>1 DEF NodeOK, Sides, Ordered
  <2>4. CASE Turns(t, n, p)
    <3>1. PICK s : s = Turn(t, p, n)
      OBVIOUS
    <3>2. s \in Sides /\ HasChild(t, p, s)
      BY <2>0, <2>4, <3>1, TurnIs DEF Turns
    <3>3. PICK c : c = Child(t, p, s)
      OBVIOUS
    <3>4. PICK v : v = Path(t, n)[c]
      OBVIOUS
    <3>5. PathOK(t, sub, n, c, v) /\ Kids(t, sub, p, s) = sub[c]
      BY <1>1, <3>2, <3>3, <3>4 DEF Kids
    <3>6. sub[c] \subseteq sub[p]
      BY <2>1, <2>2, <3>2, <3>5 DEF Sides
    <3>7. v \in Seq(sub[c]) /\ Len(v) >= 1 /\ v[1] = c /\ Len(v) \in Nat
      BY <3>5 DEF PathOK
    <3>8. PICK w : w = <<p>> \o v
      OBVIOUS
    <3>9. Path(t, n)[p] = w
      BY <2>0, <2>4, <3>1, <3>3, <3>4, <3>8, PathIs
    <3>10. v \in Seq(sub[p]) /\ <<p>> \in Seq(sub[p])
      BY <2>0, <3>6, <3>7, OneElement, SeqMonotonic
    <3>11. w \in Seq(sub[p]) /\ Len(w) = Len(v) + 1 /\ w[1] = p
           /\ \A k \in 1 .. Len(v) : w[k + 1] = v[k]
      BY <3>7, <3>8, <3>10
    <3>12. ASSUME NEW k \in 1 .. Len(w) - 1
           PROVE  Turns(t, n, w[k]) /\ w[k + 1] = Child(t, w[k], Turn(t, w[k], n))
      <4>1. CASE k = 1
        <5>1. w[2] = v[1]
          BY <3>7, <3>11
        <5> QED BY <2>4, <3>1, <3>3, <3>7, <3>11, <4>1, <5>1
      <4>2. CASE k # 1
        <5>1. k - 1 \in 1 .. Len(v) - 1 /\ k - 1 \in 1 .. Len(v) /\ k \in 1 .. Len(v) /\ (k - 1) + 1 = k
          BY <3>7, <3>11, <4>2
        <5>2. w[k] = v[k - 1] /\ w[k + 1] = v[k]
          BY <3>11, <5>1
        <5>3. PICK j : j = k - 1
          OBVIOUS
        <5>4. Turns(t, n, v[j]) /\ v[j + 1] = Child(t, v[j], Turn(t, v[j], n))
          BY <3>5, <5>1, <5>3 DEF PathOK
        <5> QED BY <5>1, <5>2, <5>3, <5>4
      <4> QED BY <4>1, <4>2
    <3>13. ASSUME NEW u \in sub[p], SizeAt(t, u) >= n
           PROVE  \E k \in 1 .. Len(w) : n <= SizeAt(t, w[k]) /\ SizeAt(t, w[k]) <= SizeAt(t, u)
      <4>0. u \in S /\ SizeAt(t, u) \in Nat
        BY <1>0, <2>0
      <4>1. CASE u \in sub[c]
        <5>1. PICK k \in 1 .. Len(v) : n <= SizeAt(t, v[k]) /\ SizeAt(t, v[k]) <= SizeAt(t, u)
          BY <3>5, <3>13, <4>1 DEF PathOK
        <5>2. k + 1 \in 1 .. Len(w) /\ w[k + 1] = v[k]
          BY <3>7, <3>11
        <5> QED BY <5>1, <5>2
      <4>2. CASE u \notin sub[c]
        <5>1. n <= SizeAt(t, p) /\ SizeAt(t, p) <= SizeAt(t, u)
          <6>1. CASE SizeAt(t, p) > n
            <7>1. s = "left" /\ A = sub[c]
              BY <2>0, <2>1, <3>1, <3>5, <6>1, TurnIs
            <7>2. u = p \/ u \in B
              BY <2>2, <4>2, <7>1
            <7> QED BY <2>0, <2>3, <6>1, <7>2
          <6>2. CASE SizeAt(t, p) < n
            <7>1. s = "right" /\ B = sub[c]
              BY <2>0, <2>1, <3>1, <3>5, <6>2, TurnIs
            <7>2. u = p \/ u \in A
              BY <2>2, <4>2, <7>1
            <7>3. SizeAt(t, u) <= SizeAt(t, p)
              BY <2>0, <2>3, <7>2
            <7> QED BY <2>0, <3>13, <4>0, <6>2, <7>3
          <6>3. CASE SizeAt(t, p) = n
            <7>1. s = "none"
              BY <2>0, <3>1, <6>3, TurnIs
            <7> QED BY <3>2, <7>1 DEF Sides
          <6> QED BY <2>0, <6>1, <6>2, <6>3
        <5>2. 1 \in 1 .. Len(w)
          BY <3>7, <3>11
        <5> QED BY <3>11, <5>1, <5>2
      <4> QED BY <4>1, <4>2
    <3>14. Len(w) >= 1
      BY <3>7, <3>11
    <3>15. PathOK(t, sub, n, p, w)
      BY <3>11, <3>12, <3>13, <3>14 DEF PathOK
    <3> QED BY <3>9, <3>15
  <2>5. CASE ~Turns(t, n, p)
    <3>1. PICK w : w = <<p>>
      OBVIOUS
    <3>2. Path(t, n)[p] = w
      BY <2>0, <2>5, <3>1, PathIs
    <3>3. w \in Seq(sub[p]) /\ Len(w) = 1 /\ w[1] = p
      BY <2>0, <3>1, OneElement
    <3>4. ASSUME NEW u \in sub[p], SizeAt(t, u) >= n
          PROVE  n <= SizeAt(t, p) /\ SizeAt(t, p) <= SizeAt(t, u)
      <4>0. u \in S /\ SizeAt(t, u) \in Nat
        BY <1>0, <2>0
      <4>1. CASE SizeAt(t, p) > n
        <5>1. Turn(t, p, n) = "left"
          BY <2>0, <4>1, TurnIs
        <5>2. A = {}
          BY <2>1, <2>5, <5>1 DEF Turns, Kids
        <5>3. u = p \/ u \in B
          BY <2>2, <5>2
        <5> QED BY <2>0, <2>3, <4>1, <5>3
      <4>2. CASE SizeAt(t, p) < n
        <5>1. Turn(t, p, n) = "right"
          BY <2>0, <4>2, TurnIs
        <5>2. B = {}
          BY <2>1, <2>5, <5>1 DEF Turns, Kids
        <5>3. u = p \/ u \in A
          BY <2>2, <5>2
        <5>4. SizeAt(t, u) <= SizeAt(t, p)
          BY <2>0, <2>3, <5>3
        <5> QED BY <2>0, <3>4, <4>0, <4>2, <5>4
      <4>3. CASE SizeAt(t, p) = n
        BY <3>4, <4>0, <4>3
      <4> QED BY <2>0, <4>1, <4>2, <4>3
    <3>5. PathOK(t, sub, n, p, w)
      <4>1. 1 .. Len(w) - 1 = {} /\ 1 \in 1 .. Len(w) /\ Len(w) >= 1
        BY <3>3
      <4> QED BY <3>3, <3>4, <4>1 DEF PathOK
    <3> QED BY <3>2, <3>5
  <2> QED BY <2>4, <2>5
<1>2. \A p \in S : (\A s \in Sides : HasChild(t, p, s) => Child(t, p, s) \in T) => p \in T
  BY <1>1
<1> HIDE DEF T
<1>3. S \subseteq T
  BY <1>2, TreeInduction
<1> QED BY <1>3 DEF T
-----------------------------------------------------------------------------
(***************************************************************************)
(* The best fit, and the list of the blocks of a tree.                     *)
(***************************************************************************)
(* The best of the nodes visited: none is smaller of those large enough.   *)
LEMMA BestIs ==
  ASSUME NEW t \in TreeType, NEW n \in Nat, NEW w \in Seq(Offsets), Visited(t, n) = w
  PROVE  LET Large == {k \in 1 .. Len(w) : SizeAt(t, w[k]) >= n}
         IN /\ Large = {} => Best(t, n) = None
            /\ Large # {} => /\ Best(t, n) \in Large
                             /\ \A j \in Large : SizeAt(t, w[Best(t, n)]) <= SizeAt(t, w[j])
<1> DEFINE Large == {k \in 1 .. Len(w) : SizeAt(t, w[k]) >= n}
           Good(k) == \A j \in Large : \/ SizeAt(t, w[k]) < SizeAt(t, w[j])
                                       \/ SizeAt(t, w[k]) = SizeAt(t, w[j]) /\ k >= j
<1>1. DOMAIN w = 1 .. Len(w) /\ Len(w) \in Nat /\ \A k \in 1 .. Len(w) : w[k] \in Offsets
  BY LenProperties, ElementOfSeq
<1>2. Best(t, n) = IF Large = {} THEN None ELSE CHOOSE k \in Large : Good(k)
  BY <1>1 DEF Best, SizeAt
<1>3. \A k \in Large : k \in Nat /\ SizeAt(t, w[k]) \in Nat /\ k <= Len(w)
  BY <1>1, ChildType
<1> HIDE DEF Large
<1>4. ASSUME Large # {} PROVE \E k \in Large : Good(k)
  <2> DEFINE Least == {SizeAt(t, w[k]) : k \in Large}
  <2>1. PICK m \in Least : \A y \in Least : ~(y < m)
    <3>1. Least \in SUBSET Nat /\ Least # {}
      BY <1>3, <1>4
    <3> HIDE DEF Least
    <3> QED BY <3>1, LeastNatural
  <2> DEFINE Late == {Len(w) - k : k \in {i \in Large : SizeAt(t, w[i]) = m}}
  <2>2. PICK d \in Late : \A y \in Late : ~(y < d)
    <3>1. Late \in SUBSET Nat /\ Late # {}
      BY <1>1, <1>3, <2>1
    <3> HIDE DEF Late
    <3> QED BY <3>1, LeastNatural
  <2>3. PICK k \in Large : SizeAt(t, w[k]) = m /\ d = Len(w) - k
    BY <2>2
  <2>4. ASSUME NEW j \in Large
        PROVE  \/ SizeAt(t, w[k]) < SizeAt(t, w[j])
               \/ SizeAt(t, w[k]) = SizeAt(t, w[j]) /\ k >= j
    <3>1. SizeAt(t, w[j]) \in Nat /\ SizeAt(t, w[k]) \in Nat /\ j \in Nat /\ k \in Nat
      BY <1>3
    <3>2. ~(SizeAt(t, w[j]) < SizeAt(t, w[k]))
      BY <2>1, <2>3
    <3>3. ASSUME SizeAt(t, w[j]) = SizeAt(t, w[k]) PROVE k >= j
      <4>1. Len(w) - j \in Late
        BY <2>3, <3>3
      <4>2. ~(Len(w) - j < Len(w) - k)
        BY <2>2, <2>3, <4>1
      <4> QED BY <1>1, <3>1, <4>2
    <3> QED BY <3>1, <3>2, <3>3
  <2> QED BY <2>4
<1>5. ASSUME Large # {} PROVE Best(t, n) \in Large /\ Good(Best(t, n))
  <2> HIDE DEF Good
  <2> QED BY <1>2, <1>4, <1>5
<1>6. ASSUME Large # {} PROVE \A j \in Large : SizeAt(t, w[Best(t, n)]) <= SizeAt(t, w[j])
  BY <1>3, <1>5, <1>6
<1> QED BY <1>2, <1>5, <1>6 DEF Large

(* mp_heap_btree_find_delete: the search finds a block just if one is      *)
(* large enough, no other that is large enough is smaller, and what is     *)
(* left is a search tree of the others.                                    *)
THEOREM BestFitIs ==
  ASSUME NEW t, NEW S, NEW par, NEW sub, Tree(t, S, par, sub), t.root # None, NEW n \in Nat
  PROVE  /\ (\A u \in S : ~(SizeAt(t, u) >= n)) => BestFit(t, n) = None
         /\ (\E u \in S : SizeAt(t, u) >= n) =>
              /\ BestFit(t, n) \in S /\ SizeAt(t, BestFit(t, n)) >= n
              /\ \A u \in S : SizeAt(t, u) >= n => SizeAt(t, BestFit(t, n)) <= SizeAt(t, u)
         /\ BestFit(t, n) # None => IsTree(FindDelete(t, n), S \ {BestFit(t, n)})
                                    /\ SameSizes(FindDelete(t, n), t)
<1>0. /\ t \in TreeType /\ S \subseteq Offsets /\ t.root \in S /\ sub[t.root] = S
      /\ \A y \in S : SizeAt(t, y) \in Nat
  BY TreeFacts, ChildType DEF Tree
<1>w. PICK w : w = Visited(t, n)
  OBVIOUS
<1>1. PathOK(t, sub, n, t.root, w)
  BY <1>0, <1>w, PathFinds DEF Visited
<1>2. w \in Seq(S) /\ w \in Seq(Offsets) /\ Len(w) >= 1 /\ w[1] = t.root
  BY <1>0, <1>1, SeqMonotonic DEF PathOK
<1>3. Len(w) \in Nat /\ \A k \in 1 .. Len(w) : w[k] \in S
  BY <1>2, ElementOfSeq, LenProperties
<1>4. PICK Large : Large = {k \in 1 .. Len(w) : SizeAt(t, w[k]) >= n}
  OBVIOUS
<1>5. /\ Large = {} => Best(t, n) = None
      /\ Large # {} => /\ Best(t, n) \in Large
                       /\ \A j \in Large : SizeAt(t, w[Best(t, n)]) <= SizeAt(t, w[j])
  BY <1>0, <1>2, <1>4, <1>w, BestIs
<1>6. ASSUME \A u \in S : ~(SizeAt(t, u) >= n) PROVE BestFit(t, n) = None
  <2>1. Large = {}
    BY <1>3, <1>4, <1>6
  <2> QED BY <1>5, <2>1 DEF BestFit
<1>7. ASSUME Large # {}
      PROVE  \E k \in 1 .. Len(w) :
               /\ k = Best(t, n) /\ k # None /\ BestFit(t, n) = w[k]
               /\ SizeAt(t, w[k]) >= n /\ \A j \in Large : SizeAt(t, w[k]) <= SizeAt(t, w[j])
  <2>1. PICK k : k = Best(t, n)
    OBVIOUS
  <2>2. k \in Large /\ \A j \in Large : SizeAt(t, w[k]) <= SizeAt(t, w[j])
    BY <1>5, <1>7, <2>1
  <2>3. k \in 1 .. Len(w) /\ SizeAt(t, w[k]) >= n
    BY <1>4, <2>2
  <2>4. k # None
    BY <2>3 DEF None
  <2> QED BY <1>w, <2>1, <2>2, <2>3, <2>4 DEF BestFit
<1>8. ASSUME NEW u \in S, SizeAt(t, u) >= n
      PROVE  /\ BestFit(t, n) \in S /\ SizeAt(t, BestFit(t, n)) >= n
             /\ SizeAt(t, BestFit(t, n)) <= SizeAt(t, u)
  <2>1. PICK i \in 1 .. Len(w) : n <= SizeAt(t, w[i]) /\ SizeAt(t, w[i]) <= SizeAt(t, u)
    BY <1>0, <1>1, <1>8 DEF PathOK
  <2>2. i \in Large /\ w[i] \in S
    BY <1>0, <1>3, <1>4, <2>1
  <2>3. PICK k \in 1 .. Len(w) : /\ BestFit(t, n) = w[k] /\ SizeAt(t, w[k]) >= n
                                 /\ \A j \in Large : SizeAt(t, w[k]) <= SizeAt(t, w[j])
    BY <1>7, <2>2
  <2>4. w[k] \in S /\ SizeAt(t, w[k]) <= SizeAt(t, w[i])
    BY <1>3, <2>2, <2>3
  <2>5. SizeAt(t, w[k]) \in Nat /\ SizeAt(t, w[i]) \in Nat /\ SizeAt(t, u) \in Nat
    BY <1>0, <2>2, <2>4
  <2> QED BY <2>1, <2>3, <2>4, <2>5
<1>9. ASSUME BestFit(t, n) # None
      PROVE  IsTree(FindDelete(t, n), S \ {BestFit(t, n)}) /\ SameSizes(FindDelete(t, n), t)
  <2>1. Large # {}
    BY <1>5, <1>9 DEF BestFit
  <2>2. PICK k \in 1 .. Len(w) : k = Best(t, n) /\ BestFit(t, n) = w[k]
    BY <1>7, <2>1
  <2>3. PICK x : x = w[k]
    OBVIOUS
  <2>4. x \in S /\ BestFit(t, n) = x
    BY <1>3, <2>2, <2>3
  <2>5. CASE k = 1
    <3>1. FindDelete(t, n) = Delete(t, None, x, "root")
      BY <1>w, <2>2, <2>3, <2>5 DEF FindDelete
    <3>2. LinkTo(t, None, x, "root")
      BY <1>2, <2>3, <2>5 DEF LinkTo
    <3> QED BY <2>4, <3>1, <3>2, DeleteKeepsTree
  <2>6. CASE k # 1
    <3>1. PICK parent : parent = w[k - 1]
      OBVIOUS
    <3>2. PICK side : side = IF t.node[parent].left = x THEN "left" ELSE "right"
      OBVIOUS
    <3>3. FindDelete(t, n) = Delete(t, parent, x, side)
      BY <1>w, <2>2, <2>3, <2>6, <3>1, <3>2 DEF FindDelete
    <3>4. k - 1 \in 1 .. Len(w) - 1 /\ k - 1 \in 1 .. Len(w) /\ (k - 1) + 1 = k
      BY <1>3, <2>6
    <3>5. parent \in S /\ Turns(t, n, parent) /\ x = Child(t, parent, Turn(t, parent, n))
      <4>1. PICK j : j = k - 1
        OBVIOUS
      <4>2. Turns(t, n, w[j]) /\ w[j + 1] = Child(t, w[j], Turn(t, w[j], n))
        BY <1>1, <3>4, <4>1 DEF PathOK
      <4> QED BY <1>3, <2>3, <3>1, <3>4, <4>1, <4>2
    <3>6. x # parent /\ (x = Child(t, parent, "left") \/ x = Child(t, parent, "right"))
      BY <3>5 DEF Turns, Turn, HasChild
    <3>7. LinkTo(t, parent, x, side)
      BY <1>0, <3>2, <3>5, <3>6 DEF LinkTo, HasChild, Child, Sides
    <3> QED BY <2>4, <3>3, <3>7, DeleteKeepsTree
  <2> QED BY <2>5, <2>6
<1> QED BY <1>6, <1>8, <1>9
-----------------------------------------------------------------------------
(* mp_heap_btree_linearize lists the nodes, each once.                     *)
LEMMA NodesIs ==
  ASSUME NEW t, NEW S, NEW par, NEW sub, Tree(t, S, par, sub)
  PROVE  \A p \in Offsets :
           Nodes(t)[p] = <<p>> \o (IF HasChild(t, p, "left") THEN Nodes(t)[Child(t, p, "left")] ELSE <<>>)
                               \o (IF HasChild(t, p, "right") THEN Nodes(t)[Child(t, p, "right")] ELSE <<>>)
<1> DEFINE P(f) == f = [p \in Offsets |->
             <<p>> \o (IF HasChild(t, p, "left") THEN f[Child(t, p, "left")] ELSE <<>>)
                   \o (IF HasChild(t, p, "right") THEN f[Child(t, p, "right")] ELSE <<>>)]
<1>1. Nodes(t) = CHOOSE f : P(f)
  BY DEF Nodes, Child
<1>v. PICK V : V = Seq(Offsets)
  OBVIOUS
<1>2. <<>> \in V /\ \A p \in Offsets : \A u, v \in V : <<p>> \o u \o v \in V
  BY <1>v
<1>3. \E f : P(f)
  <2>a. PICK a : a = [p \in Offsets |-> Child(t, p, "left")]
    OBVIOUS
  <2>b. PICK b : b = [p \in Offsets |-> Child(t, p, "right")]
    OBVIOUS
  <2>f. PICK F : F = [p \in Offsets |-> [u \in V |-> [v \in V |-> <<p>> \o u \o v]]]
    OBVIOUS
  <2>1. F \in [Offsets -> [V -> [V -> V]]] /\ <<>> \in V
    BY <1>2, <2>f
  <2>2. \A p \in Offsets : Child(t, p, "left") \in Offsets /\ Child(t, p, "right") \in Offsets
    BY TreeFacts, ChildType DEF Sides
  <2>3. a \in [Offsets -> Offsets] /\ b \in [Offsets -> Offsets]
    BY <2>2, <2>a, <2>b
  <2>4. Follows(t, a) /\ Follows(t, b)
    BY <2>3, <2>a, <2>b DEF Follows, HasChild, Sides
  <2>5. PICK f \in [Offsets -> V] : Computes(V, <<>>, F, a, b, f)
    BY <2>1, <2>4, TreeRecursion
  <2>6. ASSUME NEW p \in Offsets
        PROVE  f[p] = <<p>> \o (IF HasChild(t, p, "left") THEN f[Child(t, p, "left")] ELSE <<>>)
                            \o (IF HasChild(t, p, "right") THEN f[Child(t, p, "right")] ELSE <<>>)
    <3>1. PICK u \in V : u = IF a[p] = p THEN <<>> ELSE f[a[p]]
      BY <2>1, <2>3
    <3>2. PICK v \in V : v = IF b[p] = p THEN <<>> ELSE f[b[p]]
      BY <2>1, <2>3
    <3>3. f[p] = F[p][u][v]
      BY <2>1, <2>5, <3>1, <3>2 DEF Computes
    <3>4. f[p] = <<p>> \o u \o v
      BY <2>1, <2>f, <3>3
    <3>5. u = IF HasChild(t, p, "left") THEN f[Child(t, p, "left")] ELSE <<>>
      BY <2>a, <3>1 DEF HasChild
    <3>6. v = IF HasChild(t, p, "right") THEN f[Child(t, p, "right")] ELSE <<>>
      BY <2>b, <3>2 DEF HasChild
    <3> QED BY <3>4, <3>5, <3>6
  <2> QED BY <2>6
<1> HIDE DEF P
<1>4. P(Nodes(t))
  BY <1>1, <1>3
<1> QED BY <1>4 DEF P

(* w lists the members of A, each once.                                    *)
Lists(w, A) ==
  /\ w \in Seq(Offsets) /\ ToSet(w) = A /\ IsFiniteSet(A) /\ Len(w) = Cardinality(A)

(* Lists of two sets that are apart, one after the other.                  *)
LEMMA JoinedLists ==
  ASSUME NEW u, NEW A, Lists(u, A), NEW v, NEW B, Lists(v, B), A \cap B = {}
  PROVE  Lists(u \o v, A \cup B)
<1>1. /\ u \in Seq(Offsets) /\ v \in Seq(Offsets) /\ Len(u) \in Nat /\ Len(v) \in Nat
      /\ DOMAIN u = 1 .. Len(u) /\ DOMAIN v = 1 .. Len(v)
  BY LenProperties DEF Lists
<1>2. /\ u \o v \in Seq(Offsets) /\ Len(u \o v) = Len(u) + Len(v)
      /\ DOMAIN (u \o v) = 1 .. Len(u) + Len(v)
      /\ \A i \in 1 .. Len(u) + Len(v) : (u \o v)[i] = IF i <= Len(u) THEN u[i] ELSE v[i - Len(u)]
  BY <1>1, ConcatProperties, LenProperties
<1>3. ToSet(u \o v) \subseteq A \cup B
  <2> SUFFICES ASSUME NEW i \in 1 .. Len(u) + Len(v) PROVE (u \o v)[i] \in A \cup B
    BY <1>2 DEF ToSet
  <2>1. CASE i <= Len(u)
    BY <1>1, <1>2, <2>1 DEF ToSet, Lists
  <2>2. CASE ~(i <= Len(u))
    <3>1. i - Len(u) \in 1 .. Len(v)
      BY <1>1, <2>2
    <3>2. (u \o v)[i] = v[i - Len(u)]
      BY <1>2, <2>2
    <3> QED BY <1>1, <3>1, <3>2 DEF ToSet, Lists
  <2> QED BY <2>1, <2>2
<1>4. A \cup B \subseteq ToSet(u \o v)
  <2>1. ASSUME NEW i \in 1 .. Len(u) PROVE u[i] \in ToSet(u \o v)
    <3>1. i \in 1 .. Len(u) + Len(v) /\ (u \o v)[i] = u[i]
      BY <1>1, <1>2
    <3> QED BY <1>2, <3>1 DEF ToSet
  <2>2. ASSUME NEW i \in 1 .. Len(v) PROVE v[i] \in ToSet(u \o v)
    <3>1. i + Len(u) \in 1 .. Len(u) + Len(v) /\ ~(i + Len(u) <= Len(u)) /\ (i + Len(u)) - Len(u) = i
      BY <1>1
    <3>2. (u \o v)[i + Len(u)] = v[i]
      BY <1>2, <3>1
    <3> QED BY <1>2, <3>1, <3>2 DEF ToSet
  <2>3. A = {u[i] : i \in 1 .. Len(u)} /\ B = {v[i] : i \in 1 .. Len(v)}
    BY <1>1 DEF Lists, ToSet
  <2> QED BY <2>1, <2>2, <2>3
<1>5. IsFiniteSet(A) /\ IsFiniteSet(B) /\ IsFiniteSet(A \cup B) /\ Cardinality(A \cap B) = 0
  BY FS_Union, FS_EmptySet DEF Lists
<1>6. Cardinality(A \cup B) = Cardinality(A) + Cardinality(B)
  <2>1. Cardinality(A \cup B) = Cardinality(A) + Cardinality(B) - Cardinality(A \cap B)
    BY <1>5, FS_Union
  <2>2. Cardinality(A) \in Nat /\ Cardinality(B) \in Nat
    BY <1>5, FS_CardinalityType
  <2> QED BY <1>5, <2>1, <2>2
<1> QED BY <1>2, <1>3, <1>4, <1>5, <1>6 DEF Lists

(* mp_heap_btree_linearize lists the blocks of the tree, each once.        *)
LEMMA LinearLists ==
  ASSUME NEW t, NEW S, NEW par, NEW sub, Tree(t, S, par, sub)
  PROVE  Lists(Linear(t), S)
<1> DEFINE T == {p \in S : Lists(Nodes(t)[p], sub[p])}
<1>e. Lists(<<>>, {})
  <2>1. <<>> \in Seq(Offsets) /\ Len(<<>>) = 0 /\ ToSet(<<>>) = {}
    BY DEF ToSet
  <2> QED BY <2>1, FS_EmptySet DEF Lists
<1>0. S \subseteq Offsets /\ \A y \in S : NodeOK(t, S, par, sub, y)
  BY TreeFacts
<1>1. ASSUME NEW p \in S, \A s \in Sides : HasChild(t, p, s) => Child(t, p, s) \in T
      PROVE  Lists(Nodes(t)[p], sub[p])
  <2>1. PICK u : u = IF HasChild(t, p, "left") THEN Nodes(t)[Child(t, p, "left")] ELSE <<>>
    OBVIOUS
  <2>2. PICK v : v = IF HasChild(t, p, "right") THEN Nodes(t)[Child(t, p, "right")] ELSE <<>>
    OBVIOUS
  <2>3. Nodes(t)[p] = (<<p>> \o u) \o v
    BY <1>0, <2>1, <2>2, NodesIs
  <2>4. PICK A, B : A = Kids(t, sub, p, "left") /\ B = Kids(t, sub, p, "right")
    OBVIOUS
  <2>5. Lists(u, A)
    BY <1>1, <1>e, <2>1, <2>4 DEF Kids, Sides
  <2>6. Lists(v, B)
    BY <1>1, <1>e, <2>2, <2>4 DEF Kids, Sides
  <2>7. Lists(<<p>>, {p})
    <3>1. <<p>> \in Seq(Offsets) /\ Len(<<p>>) = 1 /\ <<p>>[1] = p
      BY <1>0, OneElement
    <3>2. DOMAIN <<p>> = 1 .. 1
      OBVIOUS
    <3>3. ToSet(<<p>>) = {p}
      BY <3>1, <3>2 DEF ToSet
    <3> QED BY <3>1, <3>3, FS_Singleton DEF Lists
  <2>8. p \notin A /\ p \notin B /\ A \cap B = {} /\ sub[p] = ({p} \cup A) \cup B
    BY <1>0, <2>4 DEF NodeOK, Sides
  <2>9. Lists(<<p>> \o u, {p} \cup A)
    BY <2>5, <2>7, <2>8, JoinedLists
  <2>10. ({p} \cup A) \cap B = {}
    BY <2>8
  <2>11. Lists((<<p>> \o u) \o v, ({p} \cup A) \cup B)
    BY <2>6, <2>9, <2>10, JoinedLists
  <2> QED BY <2>3, <2>8, <2>11
<1>2. \A p \in S : (\A s \in Sides : HasChild(t, p, s) => Child(t, p, s) \in T) => p \in T
  BY <1>1
<1> HIDE DEF T
<1>3. S \subseteq T
  BY <1>2, TreeInduction
<1>4. CASE t.root = None
  BY <1>4, <1>e DEF Linear, Tree
<1>5. CASE t.root # None
  BY <1>3, <1>5 DEF Linear, Tree, T
<1> QED BY <1>4, <1>5
-----------------------------------------------------------------------------
(***************************************************************************)
(* Blocks that tile the memory of a page.                                  *)
(***************************************************************************)
(* The free blocks F and the others, H, tile a page; z gives the sizes.    *)
Tiled(z, F, H) ==
  /\ z \in [Offsets -> 0 .. Units] /\ F \subseteq Offsets /\ H \subseteq Offsets /\ F \cap H = {}
  /\ 0 \in F \cup H
  /\ \A x \in F \cup H : z[x] >= 1 /\ x + z[x] \in F \cup H \cup {Units}
  /\ \A e \in F \cup H \cup {Units} : e = 0 \/ \E x \in F \cup H : x + z[x] = e
  /\ \A x, y \in F \cup H : x < y => x + z[x] <= y

(* The units of the blocks F.                                              *)
Points(z, F) == UNION {x .. x + z[x] - 1 : x \in F}

(* The bounds of an offset.                                                *)
LEMMA OffsetsAre == \A x \in Offsets : x \in Nat /\ x >= 0 /\ x < Units /\ x <= Units - 1
BY TreeAssumption DEF Offsets

(* Blocks that tile a page are finitely many and lie in it.                *)
LEMMA TiledFacts ==
  ASSUME NEW z, NEW F, NEW H, Tiled(z, F, H)
  PROVE  /\ IsFiniteSet(F) /\ IsFiniteSet(H)
         /\ \A x \in F \cup H : x \in Offsets /\ x \in Nat /\ z[x] \in Nat /\ z[x] >= 1 /\ x + z[x] <= Units
<1>1. F \subseteq Offsets /\ H \subseteq Offsets /\ z \in [Offsets -> 0 .. Units]
  BY DEF Tiled
<1>2. IsFiniteSet(F) /\ IsFiniteSet(H)
  BY <1>1, OffsetsFinite, FS_Subset
<1>3. ASSUME NEW x \in F \cup H
      PROVE  x \in Offsets /\ x \in Nat /\ z[x] \in Nat /\ z[x] >= 1 /\ x + z[x] <= Units
  <2>1. x \in Offsets /\ x \in Nat /\ z[x] \in 0 .. Units
    BY <1>1, OffsetsAre
  <2>2. z[x] >= 1 /\ x + z[x] \in F \cup H \cup {Units}
    BY DEF Tiled
  <2>3. x + z[x] <= Units
    BY <1>1, <2>2, OffsetsAre, TreeAssumption
  <2> QED BY <2>1, <2>2, <2>3, TreeAssumption
<1> QED BY <1>2, <1>3

(* A block that changes hands.                                             *)
LEMMA HandedOver ==
  ASSUME NEW z, NEW F, NEW H, Tiled(z, F, H), NEW E, NEW G,
         E \cup G = F \cup H, E \cap G = {}
  PROVE  Tiled(z, E, G)
<1>1. E \subseteq Offsets /\ G \subseteq Offsets
  BY DEF Tiled
<1> QED BY <1>1 DEF Tiled

(* They have at most the units of the page.                                *)
LEMMA PointsFinite ==
  ASSUME NEW z, NEW F, NEW H, Tiled(z, F, H)
  PROVE  /\ Points(z, F) \subseteq Offsets /\ IsFiniteSet(Points(z, F))
         /\ Cardinality(Points(z, F)) \in 0 .. Units
<1>1. ASSUME NEW x \in F PROVE x .. x + z[x] - 1 \subseteq Offsets
  <2>1. x \in Nat /\ z[x] \in Nat /\ x + z[x] <= Units
    BY TiledFacts
  <2> QED BY <2>1, TreeAssumption DEF Offsets
<1>2. Points(z, F) \subseteq Offsets
  BY <1>1 DEF Points
<1>3. /\ IsFiniteSet(Points(z, F)) /\ Cardinality(Points(z, F)) <= Cardinality(Offsets)
      /\ Cardinality(Points(z, F)) \in Nat
  BY <1>2, OffsetsFinite, FS_Subset, FS_CardinalityType
<1>4. Cardinality(Points(z, F)) <= Units
  BY <1>3, OffsetsFinite
<1> QED BY <1>2, <1>3, <1>4, TreeAssumption

(* The memory of one more block.                                           *)
LEMMA PointsMore ==
  ASSUME NEW z, NEW F, NEW H, Tiled(z, F, H), NEW x \in H
  PROVE  Cardinality(Points(z, F \cup {x})) = Cardinality(Points(z, F)) + z[x]
<1>1. PICK I : I = x .. x + z[x] - 1
  OBVIOUS
<1>2. x \in Nat /\ z[x] \in Nat /\ z[x] >= 1 /\ x \notin F
  <2>1. x \notin F
    BY DEF Tiled
  <2> QED BY <2>1, TiledFacts
<1>3. IsFiniteSet(I) /\ Cardinality(I) = z[x]
  <2>1. x \in Int /\ x + z[x] - 1 \in Int /\ x <= x + z[x] - 1 /\ (x + z[x] - 1) - x + 1 = z[x]
    BY <1>2
  <2> QED BY <1>1, <2>1, FS_Interval
<1>4. Points(z, F \cup {x}) = Points(z, F) \cup I
  BY <1>1 DEF Points
<1>5. Points(z, F) \cap I = {}
  <2> SUFFICES ASSUME NEW y \in F, NEW v \in y .. y + z[y] - 1, v \in I PROVE FALSE
    BY DEF Points
  <2>1. y \in Nat /\ z[y] \in Nat /\ y # x
    BY <1>2, TiledFacts
  <2>2. x < y => x + z[x] <= y
    BY DEF Tiled
  <2>3. y < x => y + z[y] <= x
    BY DEF Tiled
  <2> QED BY <1>1, <1>2, <2>1, <2>2, <2>3
<1>6. IsFiniteSet(Points(z, F)) /\ Cardinality(Points(z, F)) \in Nat
  BY PointsFinite, TreeAssumption
<1>7. /\ Cardinality(Points(z, F) \cup I)
           = Cardinality(Points(z, F)) + Cardinality(I) - Cardinality(Points(z, F) \cap I)
      /\ Cardinality(Points(z, F) \cap I) = 0
  BY <1>3, <1>5, <1>6, FS_Union, FS_EmptySet
<1>8. PICK i \in Nat : i = Cardinality(Points(z, F))
  BY <1>6
<1>9. Cardinality(Points(z, F) \cup I) = i + z[x] - 0
  BY <1>3, <1>7, <1>8
<1>10. i + z[x] - 0 = i + z[x]
  BY <1>2
<1>11. Cardinality(Points(z, F \cup {x})) = i + z[x]
  BY <1>4, <1>9, <1>10
<1> QED BY <1>8, <1>11

(* A block is cut in two.                                                  *)
LEMMA Cut ==
  ASSUME NEW z, NEW F, NEW H, Tiled(z, F, H), NEW x \in F, NEW n \in Nat, 1 <= n, n < z[x],
         NEW c \in [Offsets -> 0 .. Units], c[x] = n, c[x + n] = z[x] - n,
         \A y \in (F \cup H) \ {x} : c[y] = z[y]
  PROVE  /\ x + n \in Offsets /\ x + n \notin F \cup H
         /\ Tiled(c, (F \ {x}) \cup {x + n}, H \cup {x})
<1>B. PICK B : B = F \cup H
  OBVIOUS
<1>y. PICK y : y = x + n
  OBVIOUS
<1>1. /\ x \in Offsets /\ x \in Nat /\ z[x] \in Nat /\ x + z[x] <= Units /\ x \in B
      /\ B \subseteq Offsets
  BY <1>B, TiledFacts DEF Tiled
<1>2. y \in Offsets /\ y \in Nat /\ x < y /\ y < x + z[x] /\ y + (z[x] - n) = x + z[x]
  <2>1. y \in Nat /\ x < y /\ y < x + z[x] /\ y + (z[x] - n) = x + z[x]
    BY <1>1, <1>y
  <2>2. y < Units
    BY <1>1, <2>1, TreeAssumption
  <2> QED BY <2>1, <2>2, TreeAssumption DEF Offsets
<1>3. y \notin B
  BY <1>1, <1>2, <1>B DEF Tiled
<1>4. \A e \in B : e \in Nat /\ z[e] \in Nat /\ z[e] >= 1 /\ e + z[e] \in B \cup {Units} /\ e + z[e] <= Units
  <2>1. \A e \in B : e + z[e] \in B \cup {Units}
    BY <1>B DEF Tiled
  <2> QED BY <1>B, <2>1, TiledFacts
<1>5. \A e \in B : e # x /\ e # y => c[e] = z[e]
  BY <1>B
<1>6. \A e, f \in B : e < f => e + z[e] <= f
  BY <1>B DEF Tiled
<1>7. \A e \in B \cup {Units} : e = 0 \/ \E f \in B : f + z[f] = e
  BY <1>B DEF Tiled
<1>c. c[x] = n /\ c[y] = z[x] - n
  BY <1>y
<1>8. PICK E, G : E = (F \ {x}) \cup {y} /\ G = H \cup {x}
  OBVIOUS
<1>9. E \cup G = B \cup {y} /\ E \cap G = {} /\ E \subseteq Offsets /\ G \subseteq Offsets
  <2>1. F \cap H = {} /\ F \subseteq Offsets /\ H \subseteq Offsets
    BY DEF Tiled
  <2>2. y \notin H
    BY <1>3, <1>B
  <2> QED BY <1>1, <1>2, <1>3, <1>8, <1>B, <2>1, <2>2
<1>10. 0 \in B \cup {y}
  BY <1>B DEF Tiled
<1>11. ASSUME NEW e \in B \cup {y} PROVE c[e] >= 1 /\ e + c[e] \in B \cup {y} \cup {Units}
  <2>1. CASE e = x
    BY <1>c, <1>y, <2>1
  <2>2. CASE e = y
    BY <1>1, <1>2, <1>4, <1>c, <2>2
  <2>3. CASE e # x /\ e # y
    BY <1>4, <1>5, <2>3
  <2> QED BY <2>1, <2>2, <2>3
<1>12. ASSUME NEW e \in B \cup {y} \cup {Units}
       PROVE  e = 0 \/ \E f \in B \cup {y} : f + c[f] = e
  <2>1. CASE e = y
    BY <1>1, <1>c, <1>y, <2>1
  <2>2. CASE e = x + z[x]
    BY <1>2, <1>c, <2>2
  <2>3. CASE e # y /\ e # x + z[x]
    <3>1. e = 0 \/ \E f \in B : f + z[f] = e
      BY <1>7, <2>3
    <3>2. ASSUME NEW f \in B, f + z[f] = e PROVE f + c[f] = e
      BY <1>3, <1>5, <2>3, <3>2
    <3> QED BY <3>1, <3>2
  <2> QED BY <2>1, <2>2, <2>3
<1>13. ASSUME NEW e \in B \cup {y}, NEW f \in B \cup {y}, e < f PROVE e + c[e] <= f
  <2>1. CASE e = y
    <3>1. f \in B /\ x < f /\ f \in Nat
      BY <1>1, <1>2, <1>4, <1>13, <2>1
    <3>2. x + z[x] <= f
      BY <1>1, <1>6, <3>1
    <3> QED BY <1>2, <1>c, <2>1, <3>2
  <2>2. CASE e # y /\ f = y
    <3>1. CASE e = x
      BY <1>c, <1>y, <2>2, <3>1
    <3>2. CASE e # x
      <4>1. e \in B /\ e \in Nat /\ z[e] \in Nat
        BY <1>4, <2>2
      <4>2. x < e => x + z[x] <= e
        BY <1>1, <1>6, <4>1
      <4>3. e < x
        BY <1>1, <1>2, <1>13, <2>2, <3>2, <4>1, <4>2
      <4>4. e + z[e] <= x
        BY <1>1, <1>6, <4>1, <4>3
      <4> QED BY <1>1, <1>2, <1>5, <2>2, <3>2, <4>1, <4>4
    <3> QED BY <3>1, <3>2
  <2>3. CASE e # y /\ f # y
    <3>1. e \in B /\ f \in B /\ e + z[e] <= f
      BY <1>6, <1>13, <2>3
    <3>2. CASE e = x
      <4>1. x + n <= f
        BY <1>1, <1>4, <3>1, <3>2
      <4> QED BY <1>c, <3>2, <4>1
    <3>3. CASE e # x
      BY <1>5, <2>3, <3>1, <3>3
    <3> QED BY <3>2, <3>3
  <2> QED BY <2>1, <2>2, <2>3
<1>14. Tiled(c, E, G)
  BY <1>9, <1>10, <1>11, <1>12, <1>13 DEF Tiled
<1> QED BY <1>2, <1>3, <1>8, <1>14, <1>B, <1>y

(* The units that are free after a cut.                                    *)
LEMMA PointsCut ==
  ASSUME NEW z, NEW F, NEW H, Tiled(z, F, H), NEW x \in F, NEW n \in Nat, 1 <= n, n < z[x],
         NEW c \in [Offsets -> 0 .. Units], c[x] = n, c[x + n] = z[x] - n,
         \A y \in (F \cup H) \ {x} : c[y] = z[y]
  PROVE  Cardinality(Points(c, (F \ {x}) \cup {x + n})) = Cardinality(Points(z, F)) - n
<1>1. /\ Tiled(c, (F \ {x}) \cup {x + n}, H \cup {x}) /\ x + n \notin F \cup H
  BY Cut
<1>2. F \cap H = {} /\ z[x] \in Nat /\ x \in Nat
  BY TiledFacts DEF Tiled
<1>y. PICK y : y = x + n
  OBVIOUS
<1>3. Tiled(z, F \ {x}, H \cup {x}) /\ F = (F \ {x}) \cup {x}
  <2>1. (F \ {x}) \cup (H \cup {x}) = F \cup H /\ (F \ {x}) \cap (H \cup {x}) = {}
    BY <1>2
  <2> QED BY <2>1, HandedOver
<1>4. Tiled(c, F \ {x}, (H \cup {x}) \cup {y})
  <2>1. (F \ {x}) \cup ((H \cup {x}) \cup {y}) = ((F \ {x}) \cup {x + n}) \cup (H \cup {x})
    BY <1>y
  <2>2. (F \ {x}) \cap ((H \cup {x}) \cup {y}) = {}
    BY <1>1, <1>2, <1>y
  <2> QED BY <1>1, <2>1, <2>2, HandedOver
<1>5. Cardinality(Points(z, F)) = Cardinality(Points(z, F \ {x})) + z[x]
  <2>1. x \in H \cup {x}
    OBVIOUS
  <2>2. Cardinality(Points(z, (F \ {x}) \cup {x})) = Cardinality(Points(z, F \ {x})) + z[x]
    BY <1>3, <2>1, PointsMore
  <2> QED BY <1>3, <2>2
<1>6. Cardinality(Points(c, (F \ {x}) \cup {y})) = Cardinality(Points(c, F \ {x})) + c[y]
  <2>1. PICK A, B : A = F \ {x} /\ B = (H \cup {x}) \cup {y}
    OBVIOUS
  <2>2. Tiled(c, A, B) /\ y \in B
    BY <1>4, <2>1
  <2>3. Cardinality(Points(c, A \cup {y})) = Cardinality(Points(c, A)) + c[y]
    BY <2>2, PointsMore
  <2> QED BY <2>1, <2>3
<1>7. Points(c, F \ {x}) = Points(z, F \ {x})
  <2>1. \A e \in F \ {x} : c[e] = z[e]
    OBVIOUS
  <2> QED BY <2>1 DEF Points
<1>8. PICK i \in Nat : i = Cardinality(Points(z, F \ {x}))
  BY <1>3, PointsFinite, TreeAssumption
<1>9. c[y] = z[x] - n
  BY <1>y
<1> QED BY <1>2, <1>5, <1>6, <1>7, <1>8, <1>9, <1>y
-----------------------------------------------------------------------------
(***************************************************************************)
(* mp_heap_page_defrag: the runs of free blocks that touch.                *)
(***************************************************************************)
(* What holds of 0, and of k + 1 if of k, holds of every natural number.   *)
LEMMA UpFrom0 ==
  ASSUME NEW T, 0 \in T, \A k \in Nat : k \in T => k + 1 \in T
  PROVE  Nat \subseteq T
<1> DEFINE Bad == Nat \ T
<1> SUFFICES ASSUME Bad # {} PROVE FALSE
  OBVIOUS
<1>1. PICK n \in Bad : \A k \in Bad : ~(k < n)
  <2>1. Bad \in SUBSET Nat
    OBVIOUS
  <2> HIDE DEF Bad
  <2> QED BY <2>1, LeastNatural
<1>2. n \in Nat /\ n # 0 /\ n \notin T
  BY <1>1
<1>3. n - 1 \in Nat /\ n - 1 < n /\ (n - 1) + 1 = n
  BY <1>2
<1>4. n - 1 \in T
  BY <1>1, <1>3
<1> QED BY <1>2, <1>3, <1>4

(* What holds of an address if it holds of the lower ones holds of all.    *)
LEMMA Ascending ==
  ASSUME NEW T, \A y \in 0 .. Units : (\A w \in 0 .. Units : w < y => w \in T) => y \in T
  PROVE  0 .. Units \subseteq T
<1> DEFINE Bad == (0 .. Units) \ T
<1> SUFFICES ASSUME Bad # {} PROVE FALSE
  OBVIOUS
<1>1. PICK n \in Bad : \A k \in Bad : ~(k < n)
  <2>1. Bad \in SUBSET Nat
    OBVIOUS
  <2> HIDE DEF Bad
  <2> QED BY <2>1, LeastNatural
<1> QED BY <1>1

(* What holds of an address if it holds of the higher ones holds of all.   *)
LEMMA Descending ==
  ASSUME NEW T, \A y \in 0 .. Units : (\A w \in 0 .. Units : y < w => w \in T) => y \in T
  PROVE  0 .. Units \subseteq T
<1> DEFINE Bad == (0 .. Units) \ T
           Far == {Units - y : y \in Bad}
<1> SUFFICES ASSUME Bad # {} PROVE FALSE
  OBVIOUS
<1>1. PICK m \in Far : \A k \in Far : ~(k < m)
  <2>1. Far \in SUBSET Nat /\ Far # {}
    BY TreeAssumption
  <2> HIDE DEF Far
  <2> QED BY <2>1, LeastNatural
<1>2. PICK n \in Bad : m = Units - n
  BY <1>1
<1>3. ASSUME NEW w \in Bad PROVE ~(n < w)
  <2>1. ~(Units - w < Units - n)
    BY <1>1, <1>2
  <2> QED BY <2>1, TreeAssumption
<1> QED BY <1>3

(* The sizes of the blocks of a page.                                      *)
Sz(t) == [x \in Offsets |-> SizeAt(t, x)]

(* What the recursive function RunEnd gives: it exists, as the addresses   *)
(* that it needs are higher ones.                                          *)
LEMMA RunEndIs ==
  ASSUME NEW t, NEW F, NEW H, Tiled(Sz(t), F, H)
  PROVE  \A y \in 0 .. Units :
           RunEnd(t, F, y) = IF y \in F THEN RunEnd(t, F, y + SizeAt(t, y)) ELSE y
<1> DEFINE P(f) == f = [y \in 0 .. Units |-> IF y \in F THEN f[y + SizeAt(t, y)] ELSE y]
<1>e. PICK e : e = CHOOSE f : P(f)
  OBVIOUS
<1>1. \A y : RunEnd(t, F, y) = e[y]
  BY <1>e DEF RunEnd, SizeAt
<1>2. \A y \in F : y \in Nat /\ SizeAt(t, y) \in Nat /\ SizeAt(t, y) >= 1 /\ y + SizeAt(t, y) <= Units
  <2>1. \A y \in F : y \in Offsets /\ Sz(t)[y] = SizeAt(t, y)
    BY TiledFacts DEF Sz
  <2> QED BY <2>1, TiledFacts
<1> DEFINE Val(f, y) == IF y \in F THEN f[y + SizeAt(t, y)] ELSE y
           Reaches(k) == \E f : \A y \in 0 .. Units : Units - y < k => f[y] = Val(f, y)
           T == {k \in Nat : Reaches(k)}
<1>3. 0 \in T
  <2>1. \A y \in 0 .. Units : ~(Units - y < 0)
    BY TreeAssumption
  <2> QED BY <2>1
<1>4. ASSUME NEW k \in Nat, k \in T PROVE k + 1 \in T
  <2>1. PICK f : \A y \in 0 .. Units : Units - y < k => f[y] = Val(f, y)
    BY <1>4
  <2> DEFINE g == [y \in 0 .. Units |-> IF Units - y < k THEN f[y] ELSE Val(f, y)]
  <2>2. ASSUME NEW y \in 0 .. Units, Units - y < k + 1 PROVE g[y] = Val(g, y)
    <3>1. g[y] = Val(f, y)
      BY <2>1
    <3>2. y \in F => g[y + SizeAt(t, y)] = f[y + SizeAt(t, y)]
      <4> SUFFICES ASSUME y \in F PROVE g[y + SizeAt(t, y)] = f[y + SizeAt(t, y)]
        OBVIOUS
      <4>1. PICK s \in Nat : s = SizeAt(t, y) /\ s >= 1 /\ y + s <= Units
        BY <1>2
      <4>2. y + s \in 0 .. Units /\ Units - (y + s) < k
        BY <2>2, <4>1, TreeAssumption
      <4> QED BY <4>1, <4>2
    <3> QED BY <3>1, <3>2
  <2> HIDE DEF g, Val
  <2> QED BY <2>2
<1> HIDE DEF T
<1>5. Nat \subseteq T
  BY <1>3, <1>4, UpFrom0
<1>6. \E f : P(f)
  <2>1. Reaches(Units + 1)
    <3>1. Units + 1 \in Nat
      BY TreeAssumption
    <3> QED BY <1>5, <3>1 DEF T
  <2>2. \A y \in 0 .. Units : Units - y < Units + 1
    BY TreeAssumption
  <2>3. PICK f : \A y \in 0 .. Units : f[y] = Val(f, y)
    BY <2>1, <2>2
  <2> DEFINE g == [y \in 0 .. Units |-> f[y]]
  <2>4. \A y \in F : y + SizeAt(t, y) \in 0 .. Units
    BY <1>2, TreeAssumption
  <2>5. \A y \in 0 .. Units : g[y] = Val(g, y)
    BY <2>3, <2>4
  <2>6. P(g)
    BY <2>5
  <2> QED BY <2>6
<1> HIDE DEF P
<1>7. P(e)
  BY <1>e, <1>6
<1>8. \A y \in 0 .. Units : e[y] = IF y \in F THEN e[y + SizeAt(t, y)] ELSE y
  BY <1>7 DEF P
<1> QED BY <1>1, <1>8
-----------------------------------------------------------------------------
(* The end of the run of free blocks from x.                               *)
RunOK(z, F, H, x, e) ==
  /\ e \in H \cup {Units} /\ x < e /\ x + z[x] <= e
  /\ \A y \in F \cup H : x < y /\ y < e => y \in F /\ \E w \in F : w + z[w] = y
  /\ \A v \in x .. e - 1 : \E y \in F : v \in y .. y + z[y] - 1

(* RunEnd finds it.                                                        *)
LEMMA RunsEnd ==
  ASSUME NEW t, NEW F, NEW H, Tiled(Sz(t), F, H)
  PROVE  \A x \in F : RunOK(Sz(t), F, H, x, RunEnd(t, F, x))
<1>z. PICK z : z = Sz(t)
  OBVIOUS
<1>0. Tiled(z, F, H) /\ \A x \in F : x \in Nat /\ z[x] \in Nat /\ z[x] >= 1 /\ x + z[x] <= Units /\ SizeAt(t, x) = z[x]
  BY <1>z, TiledFacts DEF Sz
<1> DEFINE T == {x \in 0 .. Units : x \in F => RunOK(z, F, H, x, RunEnd(t, F, x))}
<1>1. ASSUME NEW x \in 0 .. Units, \A w \in 0 .. Units : x < w => w \in T, x \in F
      PROVE  RunOK(z, F, H, x, RunEnd(t, F, x))
  <2>1. PICK y : y = x + z[x]
    OBVIOUS
  <2>2. /\ y \in 0 .. Units /\ x < y /\ y \in F \cup H \cup {Units} /\ x \in Nat /\ z[x] \in Nat
        /\ y \in Nat /\ x \notin H
    <3>1. y \in F \cup H \cup {Units} /\ x \notin H
      BY <1>0, <1>1, <2>1 DEF Tiled
    <3> QED BY <1>0, <1>1, <2>1, <3>1, TreeAssumption
  <2>3. RunEnd(t, F, x) = RunEnd(t, F, y)
    BY <1>0, <1>1, <2>1, RunEndIs
  <2>4. \A u \in F \cup H : u \in Nat /\ (x < u => y <= u)
    <3>1. \A u \in F \cup H : x < u => y <= u
      BY <1>0, <1>1, <2>1 DEF Tiled
    <3> QED BY <1>0, <3>1, TiledFacts
  <2>5. CASE y \in F
    <3>1. PICK e : e = RunEnd(t, F, y)
      OBVIOUS
    <3>2. RunOK(z, F, H, y, e)
      BY <1>1, <2>2, <2>5, <3>1
    <3>3. e \in H \cup {Units} /\ y < e /\ e \in Nat
      BY <2>4, <3>2, TreeAssumption DEF RunOK
    <3>4. x < e /\ x + z[x] <= e
      BY <2>1, <2>2, <3>3
    <3>5. ASSUME NEW u \in F \cup H, x < u, u < e PROVE u \in F /\ \E w \in F : w + z[w] = u
      <4>1. CASE u = y
        BY <1>1, <2>1, <2>5, <4>1
      <4>2. CASE u # y
        <5>1. y < u
          BY <2>2, <2>4, <3>5, <4>2
        <5> QED BY <3>2, <3>5, <5>1 DEF RunOK
      <4> QED BY <4>1, <4>2
    <3>6. ASSUME NEW v \in x .. e - 1 PROVE \E u \in F : v \in u .. u + z[u] - 1
      <4>1. CASE v < y
        <5>1. v \in x .. x + z[x] - 1
          BY <2>1, <2>2, <3>3, <4>1
        <5> QED BY <1>1, <5>1
      <4>2. CASE ~(v < y)
        <5>1. v \in y .. e - 1
          BY <2>2, <3>3, <4>2
        <5> QED BY <3>2, <5>1 DEF RunOK
      <4> QED BY <4>1, <4>2
    <3> QED BY <2>3, <3>1, <3>3, <3>4, <3>5, <3>6 DEF RunOK
  <2>6. CASE y \notin F
    <3>1. RunEnd(t, F, x) = y
      BY <1>0, <2>2, <2>3, <2>6, RunEndIs
    <3>2. \A u \in F \cup H : ~(x < u /\ u < y)
      BY <2>2, <2>4
    <3>3. \A v \in x .. y - 1 : v \in x .. x + z[x] - 1
      BY <2>1, <2>2
    <3>4. x + z[x] <= y /\ y \in H \cup {Units}
      BY <2>1, <2>2, <2>6
    <3> QED BY <1>1, <2>2, <3>1, <3>2, <3>3, <3>4 DEF RunOK
  <2> QED BY <2>5, <2>6
<1>2. \A y \in 0 .. Units : (\A w \in 0 .. Units : y < w => w \in T) => y \in T
  BY <1>1
<1> HIDE DEF T
<1>3. 0 .. Units \subseteq T
  BY <1>2, Descending
<1>4. \A x \in F : x \in 0 .. Units
  BY <1>0, TreeAssumption
<1> QED BY <1>3, <1>4, <1>z DEF T

(* The blocks before which no free one ends: those that keep their header. *)
Starts(z, F) == {x \in F : ~\E y \in F : y + z[y] = x}

(* Every free block is in the run of a start.                              *)
LEMMA RunsStart ==
  ASSUME NEW t, NEW F, NEW H, Tiled(Sz(t), F, H)
  PROVE  \A x \in F : \E s \in Starts(Sz(t), F) : s <= x /\ RunEnd(t, F, s) = RunEnd(t, F, x)
<1>z. PICK z : z = Sz(t)
  OBVIOUS
<1>0. Tiled(z, F, H) /\ \A x \in F : x \in Nat /\ z[x] \in Nat /\ z[x] >= 1 /\ x + z[x] <= Units /\ SizeAt(t, x) = z[x]
  BY <1>z, TiledFacts DEF Sz
<1> DEFINE Has(x) == \E s \in Starts(z, F) : s <= x /\ RunEnd(t, F, s) = RunEnd(t, F, x)
           T == {x \in 0 .. Units : x \in F => Has(x)}
<1>1. ASSUME NEW x \in 0 .. Units, \A w \in 0 .. Units : w < x => w \in T, x \in F
      PROVE  Has(x)
  <2>1. CASE x \in Starts(z, F)
    BY <2>1
  <2>2. CASE x \notin Starts(z, F)
    <3>1. PICK y \in F : y + z[y] = x
      BY <1>1, <2>2 DEF Starts
    <3>2. y \in 0 .. Units /\ y < x /\ y \in Nat /\ x \in Nat
      BY <1>0, <1>1, <3>1, TreeAssumption
    <3>3. PICK s \in Starts(z, F) : s <= y /\ RunEnd(t, F, s) = RunEnd(t, F, y)
      BY <1>1, <3>2
    <3>4. RunEnd(t, F, y) = RunEnd(t, F, x)
      BY <1>0, <3>1, <3>2, <1>z, RunEndIs
    <3>5. s \in Nat
      BY <1>0 DEF Starts
    <3>6. s <= x
      BY <3>2, <3>3, <3>5
    <3> QED BY <3>3, <3>4, <3>6
  <2> QED BY <2>1, <2>2
<1> HIDE DEF Has
<1>2. \A y \in 0 .. Units : (\A w \in 0 .. Units : w < y => w \in T) => y \in T
  BY <1>1
<1> HIDE DEF T
<1>3. 0 .. Units \subseteq T
  BY <1>2, Ascending
<1>4. \A x \in F : x \in 0 .. Units
  BY <1>0, TreeAssumption
<1> QED BY <1>3, <1>4, <1>z DEF T, Has

(* The runs tile the page as their blocks did, and cover the same memory.  *)
LEMMA RunsTile ==
  ASSUME NEW t, NEW F, NEW H, Tiled(Sz(t), F, H), NEW c \in [Offsets -> 0 .. Units],
         \A x \in Starts(Sz(t), F) : c[x] = RunEnd(t, F, x) - x, \A x \in H : c[x] = SizeAt(t, x)
  PROVE  /\ Tiled(c, Starts(Sz(t), F), H)
         /\ Points(c, Starts(Sz(t), F)) = Points(Sz(t), F)
<1>z. PICK z : z = Sz(t)
  OBVIOUS
<1>s. PICK S : S = Starts(z, F)
  OBVIOUS
<1>e. PICK e : e = [x \in F |-> RunEnd(t, F, x)]
  OBVIOUS
<1>0. /\ Tiled(z, F, H) /\ S \subseteq F /\ F \subseteq Offsets /\ H \subseteq Offsets /\ F \cap H = {}
  BY <1>s, <1>z DEF Starts, Tiled
<1>n. \A x \in F \cup H : x \in Nat /\ z[x] \in Nat /\ z[x] >= 1 /\ x + z[x] <= Units
  BY <1>0, TiledFacts
<1>1. \A x \in F : RunOK(z, F, H, x, e[x])
  BY <1>e, <1>z, RunsEnd
<1>2. \A x \in F : \E s \in S : s <= x /\ e[s] = e[x]
  <2> TAKE x \in F
  <2>1. PICK s \in S : s <= x /\ RunEnd(t, F, s) = RunEnd(t, F, x)
    BY <1>s, <1>z, RunsStart
  <2> QED BY <1>0, <1>e, <2>1
<1>3. \A x \in S : c[x] = e[x] - x
  BY <1>0, <1>e, <1>s, <1>z
<1>4. \A x \in H : c[x] = z[x]
  BY <1>0, <1>z DEF Sz
<1>5. \A x \in F : e[x] \in Nat /\ x < e[x] /\ x + z[x] <= e[x] /\ e[x] \in H \cup {Units}
  BY <1>1, <1>n, TreeAssumption DEF RunOK
<1>6. \A x \in S : x + c[x] = e[x] /\ c[x] >= 1
  BY <1>0, <1>3, <1>5, <1>n
<1>7. \A x, y \in F \cup H : x < y => x + z[x] <= y
  BY <1>0 DEF Tiled
<1>8. \A x \in F \cup H \cup {Units} : x = 0 \/ \E y \in F \cup H : y + z[y] = x
  BY <1>0 DEF Tiled
(* What follows a block in use starts a run, or is in use.                 *)
<1>9. ASSUME NEW x \in H PROVE x + z[x] \in S \cup H \cup {Units}
  <2>1. PICK y : y = x + z[x]
    OBVIOUS
  <2>2. y \in F \cup H \cup {Units}
    BY <1>0, <2>1 DEF Tiled
  <2>3. ASSUME y \in F, NEW w \in F, w + z[w] = y PROVE FALSE
    <3>1. w # x /\ w \in Nat /\ x \in Nat /\ z[w] \in Nat /\ z[x] \in Nat /\ z[w] >= 1 /\ z[x] >= 1
      BY <1>0, <1>n
    <3>2. w < x => w + z[w] <= x
      BY <1>7
    <3>3. x < w => x + z[x] <= w
      BY <1>7
    <3> QED BY <2>1, <2>3, <3>1, <3>2, <3>3
  <2> QED BY <1>s, <2>1, <2>2, <2>3 DEF Starts
<1>10. 0 \in S \cup H
  <2>1. 0 \in F \cup H
    BY <1>0 DEF Tiled
  <2>2. \A w \in F : w + z[w] # 0
    BY <1>n
  <2> QED BY <1>s, <2>1, <2>2 DEF Starts
<1>11. ASSUME NEW x \in S \cup H PROVE c[x] >= 1 /\ x + c[x] \in S \cup H \cup {Units}
  <2>1. CASE x \in S
    BY <1>0, <1>5, <1>6, <2>1
  <2>2. CASE x \in H
    BY <1>4, <1>9, <1>n, <2>2
  <2> QED BY <2>1, <2>2
<1>12. ASSUME NEW y \in S \cup H \cup {Units} PROVE y = 0 \/ \E x \in S \cup H : x + c[x] = y
  <2> SUFFICES ASSUME y # 0 PROVE \E x \in S \cup H : x + c[x] = y
    OBVIOUS
  <2>1. PICK x \in F \cup H : x + z[x] = y
    BY <1>0, <1>8
  <2>2. CASE x \in H
    BY <1>4, <2>1, <2>2
  <2>3. CASE x \in F
    <3>1. y \notin S
      BY <1>s, <2>1, <2>3 DEF Starts
    <3>2. y \in 0 .. Units /\ y \notin F /\ x \in 0 .. Units
      BY <1>0, <1>n, <2>1, <2>3, <3>1, OffsetsAre, TreeAssumption
    <3>3. e[x] = y
      <4>1. SizeAt(t, x) = z[x]
        BY <1>0, <1>z, <2>3 DEF Sz
      <4>2. RunEnd(t, F, x) = RunEnd(t, F, y) /\ RunEnd(t, F, y) = y
        BY <2>1, <2>3, <3>2, <4>1, RunEndIs
      <4> QED BY <1>e, <2>3, <4>2
    <3>4. PICK s \in S : e[s] = e[x]
      BY <1>2, <2>3
    <3> QED BY <1>6, <3>3, <3>4
  <2> QED BY <2>2, <2>3
<1>13. ASSUME NEW x \in S \cup H, NEW y \in S \cup H, x < y PROVE x + c[x] <= y
  <2>1. CASE x \in H
    BY <1>0, <1>4, <1>7, <1>13, <2>1
  <2>2. CASE x \in S
    <3>1. x \in F /\ x + c[x] = e[x] /\ e[x] \in Nat /\ y \in Nat /\ y \in F \cup H
      BY <1>0, <1>5, <1>6, <1>n, <2>2
    <3>2. ASSUME y < e[x] PROVE FALSE
      <4>1. y \in F /\ \E w \in F : w + z[w] = y
        BY <1>1, <1>13, <3>1, <3>2 DEF RunOK
      <4> QED BY <1>0, <1>s, <4>1 DEF Starts
    <3> QED BY <3>1, <3>2
  <2> QED BY <2>1, <2>2
<1>14. S \subseteq Offsets /\ S \cap H = {}
  BY <1>0
<1>15. Tiled(c, S, H)
  BY <1>0, <1>10, <1>11, <1>12, <1>13, <1>14 DEF Tiled
<1>16. ASSUME NEW x \in S, NEW v \in x .. x + c[x] - 1 PROVE \E y \in F : v \in y .. y + z[y] - 1
  <2>1. x \in F /\ x + c[x] = e[x]
    BY <1>0, <1>6
  <2>2. v \in x .. e[x] - 1
    <3>1. x \in Nat /\ c[x] \in Nat /\ e[x] \in Nat /\ x + c[x] = e[x]
      BY <1>3, <1>5, <1>n, <2>1
    <3>2. x + (c[x] - 1) = e[x] - 1
      BY <3>1
    <3> QED BY <3>2
  <2> QED BY <1>1, <2>1, <2>2 DEF RunOK
<1>17. ASSUME NEW y \in F, NEW v \in y .. y + z[y] - 1 PROVE \E x \in S : v \in x .. x + c[x] - 1
  <2>1. PICK s \in S : s <= y /\ e[s] = e[y]
    BY <1>2
  <2>2. s + c[s] = e[y] /\ y + z[y] <= e[y] /\ e[y] \in Nat /\ s \in Nat /\ y \in Nat /\ z[y] \in Nat
    BY <1>0, <1>5, <1>6, <1>n, <2>1
  <2>c. c[s] \in Nat
    BY <1>0, <1>3, <1>5, <1>n
  <2>3. PICK i \in Nat, j \in Nat, k \in Nat : i = s /\ j = y + z[y] /\ k = s + c[s]
    BY <2>2
  <2>4. v \in y .. j - 1 /\ i <= y /\ j <= k
    BY <2>1, <2>2, <2>3
  <2>a. PICK h \in Nat : h = y
    BY <2>2
  <2>b. v \in h .. j - 1 /\ i <= h /\ j <= k
    BY <2>4, <2>a
  <2>5. v \in i .. k - 1
    BY <2>b
  <2>d. s + (c[s] - 1) = k - 1
    BY <2>2, <2>3, <2>c
  <2> QED BY <2>3, <2>5, <2>d
<1>18. Points(c, S) = Points(z, F)
  BY <1>16, <1>17 DEF Points
<1> QED BY <1>15, <1>18, <1>s, <1>z
-----------------------------------------------------------------------------
(***************************************************************************)
(* The tree that is built anew from the runs.                              *)
(***************************************************************************)
(* The blocks S inserted in the order of their addresses, into g.          *)
Building(g, S, f, x) ==
  IF x = 0 THEN g ELSE IF x - 1 \in S THEN Insert(f[x - 1], x - 1) ELSE f[x - 1]

(* What the recursive function that builds the tree gives.                 *)
LEMMA BuiltIs ==
  ASSUME NEW g, NEW S, NEW b,
         b = CHOOSE f : f = [x \in 0 .. Units |-> Building(g, S, f, x)]
  PROVE  \A x \in 0 .. Units : b[x] = Building(g, S, b, x)
<1> DEFINE P(f) == f = [x \in 0 .. Units |-> Building(g, S, f, x)]
           Reaches(k) == \E f : \A x \in 0 .. Units : x < k => f[x] = Building(g, S, f, x)
           T == {k \in Nat : Reaches(k)}
<1>1. 0 \in T
  <2>1. \A x \in 0 .. Units : ~(x < 0)
    BY TreeAssumption
  <2> QED BY <2>1
<1>2. ASSUME NEW k \in Nat, k \in T PROVE k + 1 \in T
  <2>1. PICK f : \A x \in 0 .. Units : x < k => f[x] = Building(g, S, f, x)
    BY <1>2
  <2> DEFINE h == [x \in 0 .. Units |-> IF x < k THEN f[x] ELSE Building(g, S, f, x)]
  <2>2. ASSUME NEW x \in 0 .. Units, x < k + 1 PROVE h[x] = Building(g, S, h, x)
    <3>1. h[x] = Building(g, S, f, x)
      BY <2>1
    <3>2. x # 0 => h[x - 1] = f[x - 1]
      <4> SUFFICES ASSUME x # 0 PROVE h[x - 1] = f[x - 1]
        OBVIOUS
      <4>1. x - 1 \in 0 .. Units /\ x - 1 < k
        BY <2>2, TreeAssumption
      <4> QED BY <4>1
    <3> HIDE DEF h
    <3> QED BY <3>1, <3>2 DEF Building
  <2> HIDE DEF h
  <2> QED BY <2>2
<1> HIDE DEF T
<1>3. Nat \subseteq T
  BY <1>1, <1>2, UpFrom0
<1>4. \E f : P(f)
  <2>1. Reaches(Units + 1)
    <3>1. Units + 1 \in Nat
      BY TreeAssumption
    <3> QED BY <1>3, <3>1 DEF T
  <2>2. \A x \in 0 .. Units : x < Units + 1
    BY TreeAssumption
  <2>3. PICK f : \A x \in 0 .. Units : f[x] = Building(g, S, f, x)
    BY <2>1, <2>2
  <2> DEFINE h == [x \in 0 .. Units |-> f[x]]
  <2>4. ASSUME NEW x \in 0 .. Units PROVE h[x] = Building(g, S, h, x)
    <3>1. x # 0 => h[x - 1] = f[x - 1]
      <4> SUFFICES ASSUME x # 0 PROVE h[x - 1] = f[x - 1]
        OBVIOUS
      <4>1. x - 1 \in 0 .. Units
        BY TreeAssumption
      <4> QED BY <4>1
    <3>2. h[x] = Building(g, S, f, x)
      BY <2>3
    <3> HIDE DEF h
    <3> QED BY <3>1, <3>2 DEF Building
  <2>5. P(h)
    BY <2>4
  <2> QED BY <2>5
<1> HIDE DEF P
<1>5. P(b)
  <2>1. b = CHOOSE f : P(f)
    BY DEF P
  <2> QED BY <1>4, <2>1
<1> QED BY <1>5 DEF P

(* The tree that is built has those blocks.                                *)
LEMMA BuiltTree ==
  ASSUME NEW g, IsTree(g, {}), NEW S \in SUBSET Offsets, NEW b,
         \A x \in 0 .. Units : b[x] = Building(g, S, b, x)
  PROVE  IsTree(b[Units], S) /\ SameSizes(b[Units], g)
<1> DEFINE Before(x) == {y \in S : y < x}
           Good(x) == IsTree(b[x], Before(x)) /\ SameSizes(b[x], g)
           T == {x \in 0 .. Units : Good(x)}
<1>1. ASSUME NEW x \in 0 .. Units, \A w \in 0 .. Units : w < x => w \in T
      PROVE  Good(x)
  <2>0. x \in Nat
    OBVIOUS
  <2>1. CASE x = 0
    <3>1. Before(x) = {}
      BY <2>1, OffsetsAre
    <3>2. b[x] = g
      BY <2>1 DEF Building
    <3>3. SameSizes(g, g)
      BY DEF SameSizes
    <3> HIDE DEF Before
    <3> QED BY <3>1, <3>2, <3>3
  <2>2. CASE x # 0
    <3>1. PICK w : w = x - 1
      OBVIOUS
    <3>2. w \in 0 .. Units /\ w < x /\ w \in Offsets
      BY <2>0, <2>2, <3>1, TreeAssumption DEF Offsets
    <3>3. IsTree(b[w], Before(w)) /\ SameSizes(b[w], g)
      BY <1>1, <3>2
    <3>4. w \notin Before(w) /\ \A y \in S : y < x <=> y < w \/ y = w
      BY <2>0, <3>1, OffsetsAre
    <3>5. CASE w \in S
      <4>1. b[x] = Insert(b[w], w)
        BY <2>2, <3>1, <3>5 DEF Building
      <4>2. Before(x) = Before(w) \cup {w}
        BY <3>4, <3>5
      <4> HIDE DEF Before
      <4>3. IsTree(Insert(b[w], w), Before(w) \cup {w}) /\ SameSizes(Insert(b[w], w), b[w])
        BY <3>2, <3>3, <3>4, InsertKeepsTree
      <4> QED BY <3>3, <4>1, <4>2, <4>3 DEF SameSizes
    <3>6. CASE w \notin S
      <4>1. b[x] = b[w]
        BY <2>2, <3>1, <3>6 DEF Building
      <4>2. Before(x) = Before(w)
        BY <3>4, <3>6
      <4> HIDE DEF Before
      <4> QED BY <3>3, <4>1, <4>2
    <3> QED BY <3>5, <3>6
  <2> QED BY <2>1, <2>2
<1> HIDE DEF Good
<1>2. \A x \in 0 .. Units : (\A w \in 0 .. Units : w < x => w \in T) => x \in T
  BY <1>1
<1> HIDE DEF T
<1>3. 0 .. Units \subseteq T
  BY <1>2, Ascending
<1>4. Units \in 0 .. Units
  BY TreeAssumption
<1>5. Before(Units) = S
  BY OffsetsAre
<1>6. Good(Units)
  BY <1>3, <1>4 DEF T
<1> HIDE DEF Before
<1> QED BY <1>5, <1>6 DEF Good

(* mp_heap_page_defrag, for the free blocks F and the starts S of the      *)
(* runs.                                                                   *)
MergedRuns(t, F, S) ==
  LET sized == [root |-> None,
                node |-> [x \in Offsets |->
                  IF x \in S THEN [NoTree.node[x] EXCEPT !.size = RunEnd(t, F, x) - x]
                  ELSE IF x \in F THEN NoTree.node[x] ELSE t.node[x]]]
      built[x \in 0 .. Units] ==
        IF x = 0 THEN sized
        ELSE IF x - 1 \in S THEN Insert(built[x - 1], x - 1) ELSE built[x - 1]
  IN built[Units]

(* Merged, in terms of the blocks of the tree.                             *)
MergedBlocks(t, F) == MergedRuns(t, F, {x \in F : ~\E y \in F : y + t.node[y].size = x})

LEMMA MergedBlocksIs == ASSUME NEW t PROVE Merged(t) = MergedBlocks(t, ToSet(Linear(t)))
BY DEF Merged, MergedBlocks, MergedRuns

(* mp_heap_page_defrag: free blocks that touch become one; the blocks of   *)
(* the new tree have the same units and tile the page with those in use.   *)
THEOREM MergedIs ==
  ASSUME NEW t, NEW F, IsTree(t, F), NEW H, Tiled(Sz(t), F, H)
  PROVE  \E S \in SUBSET Offsets :
           /\ IsTree(Merged(t), S) /\ Tiled(Sz(Merged(t)), S, H)
           /\ Points(Sz(Merged(t)), S) = Points(Sz(t), F)
<1>1. PICK par, sub : Tree(t, F, par, sub)
  BY DEF IsTree
<1>S. PICK S : S = Starts(Sz(t), F)
  OBVIOUS
<1>g. PICK g : g = [root |-> None,
                    node |-> [x \in Offsets |->
                      IF x \in S THEN [NoTree.node[x] EXCEPT !.size = RunEnd(t, F, x) - x]
                      ELSE IF x \in F THEN NoTree.node[x] ELSE t.node[x]]]
  OBVIOUS
<1>b. PICK b : b = CHOOSE f : f = [x \in 0 .. Units |-> Building(g, S, f, x)]
  OBVIOUS
<1>2. /\ t \in TreeType /\ F \subseteq Offsets /\ H \subseteq Offsets /\ S \subseteq F /\ F \cap H = {}
      /\ \A x \in F : SizeAt(t, x) = Sz(t)[x] /\ x \in Nat
      /\ \A x \in H : x \notin F
  <2>1. F \subseteq Offsets /\ H \subseteq Offsets /\ F \cap H = {}
    BY DEF Tiled
  <2> QED BY <1>1, <1>S, <2>1, TreeFacts, OffsetsAre DEF Starts, Sz
<1>3. Merged(t) = b[Units]
  <2>1. ToSet(Linear(t)) = F
    BY <1>1, LinearLists DEF Lists
  <2>2. {x \in F : ~\E y \in F : y + t.node[y].size = x} = S
    BY <1>2, <1>S DEF Starts, SizeAt
  <2>3. g = [root |-> None,
             node |-> [x \in Offsets |->
               IF x \in S THEN [NoTree.node[x] EXCEPT !.size = RunEnd(t, F, x) - x]
               ELSE IF x \in F THEN NoTree.node[x] ELSE t.node[x]]]
    BY <1>g
  <2>4. Merged(t) = MergedBlocks(t, F)
    BY <2>1, MergedBlocksIs
  <2>5. Merged(t) = MergedRuns(t, F, S)
    BY <2>2, <2>4 DEF MergedBlocks
  <2>6. MergedRuns(t, F, S) = (CHOOSE f : f = [x \in 0 .. Units |-> Building(g, S, f, x)])[Units]
    BY <2>3, Zenon DEF MergedRuns, Building
  <2> QED BY <1>b, <2>5, <2>6
<1>4. \A x \in 0 .. Units : b[x] = Building(g, S, b, x)
  BY <1>b, BuiltIs
<1>5. \A x \in S : RunEnd(t, F, x) - x \in 0 .. Units
  <2> TAKE x \in S
  <2>1. PICK e : e = RunEnd(t, F, x)
    OBVIOUS
  <2>2. e \in H \cup {Units} /\ x < e /\ x \in Nat
    BY <1>2, <2>1, RunsEnd DEF RunOK
  <2>3. e \in Nat /\ e <= Units
    BY <1>2, <2>2, OffsetsAre, TreeAssumption
  <2> QED BY <2>1, <2>2, <2>3, TreeAssumption
<1>6. \A x \in Offsets : /\ NoTree.node[x] = [size |-> 0, left |-> x, right |-> x]
                         /\ NoTree.node[x] \in Header
  BY TreeAssumption DEF NoTree, Header
<1>7. /\ g.root = None
      /\ \A x \in S : g.node[x] = [size |-> RunEnd(t, F, x) - x, left |-> x, right |-> x]
      /\ \A x \in F \ S : g.node[x] = [size |-> 0, left |-> x, right |-> x]
      /\ \A x \in Offsets \ F : g.node[x] = t.node[x]
  <2>1. ASSUME NEW x \in S PROVE g.node[x] = [size |-> RunEnd(t, F, x) - x, left |-> x, right |-> x]
    <3>1. x \in Offsets
      BY <1>2
    <3>2. PICK h : h = g.node
      OBVIOUS
    <3>3. h[x] = [NoTree.node[x] EXCEPT !.size = RunEnd(t, F, x) - x]
      BY <1>g, <3>1, <3>2
    <3>4. PICK k : k = RunEnd(t, F, x) - x
      OBVIOUS
    <3>5. NoTree.node[x] = [size |-> 0, left |-> x, right |-> x]
      BY <1>6, <3>1
    <3>6. h[x] = [size |-> k, left |-> x, right |-> x]
      BY <3>3, <3>4, <3>5
    <3> QED BY <3>2, <3>4, <3>6
  <2>2. ASSUME NEW x \in F \ S PROVE g.node[x] = [size |-> 0, left |-> x, right |-> x]
    <3>1. x \in Offsets
      BY <1>2
    <3>2. g.node[x] = NoTree.node[x]
      BY <1>g, <3>1
    <3> QED BY <1>6, <3>1, <3>2
  <2>3. ASSUME NEW x \in Offsets \ F PROVE g.node[x] = t.node[x]
    BY <1>2, <1>g
  <2> QED BY <1>g, <2>1, <2>2, <2>3
<1>8. g \in TreeType
  <2>1. ASSUME NEW x \in Offsets PROVE g.node[x] \in Header
    <3>1. CASE x \in S
      <4>1. PICK k : k = RunEnd(t, F, x) - x
        OBVIOUS
      <4>2. k \in 0 .. Units
        BY <1>5, <3>1, <4>1
      <4>3. g.node[x] = [size |-> k, left |-> x, right |-> x]
        BY <1>7, <3>1, <4>1
      <4>4. [size |-> k, left |-> x, right |-> x] \in Header
        BY <4>2 DEF Header
      <4> QED BY <4>3, <4>4
    <3>2. CASE x \in F \ S
      <4>1. g.node[x] = [size |-> 0, left |-> x, right |-> x]
        BY <1>7, <3>2
      <4>2. [size |-> 0, left |-> x, right |-> x] \in Header
        BY TreeAssumption DEF Header
      <4> QED BY <4>1, <4>2
    <3>3. CASE x \notin F
      BY <1>2, <1>7, <3>3 DEF TreeType
    <3> QED BY <3>1, <3>2, <3>3
  <2>2. PICK h : h = g.node
    OBVIOUS
  <2>3. h = [x \in Offsets |-> h[x]]
    BY <1>g, <2>2
  <2>4. h \in [Offsets -> Header]
    BY <2>1, <2>2, <2>3
  <2>5. g = [root |-> None, node |-> h]
    BY <1>g, <2>2
  <2> QED BY <2>4, <2>5 DEF TreeType
<1>9. \A x \in Offsets, r \in Sides : ~HasChild(g, x, r)
  <2> TAKE x \in Offsets, r \in Sides
  <2>1. CASE x \in F
    <3>1. \E k : g.node[x] = [size |-> k, left |-> x, right |-> x]
      <4>1. CASE x \in S
        BY <1>7, <4>1
      <4>2. CASE x \notin S
        BY <1>7, <2>1, <4>2
      <4> QED BY <4>1, <4>2
    <3>2. g.node[x].left = x /\ g.node[x].right = x
      BY <3>1
    <3> QED BY <3>2 DEF HasChild, Child
  <2>2. CASE x \notin F
    <3>1. ~HasChild(t, x, r)
      BY <1>1, <2>2, TreeFacts
    <3> QED BY <1>7, <2>2, <3>1 DEF HasChild, Child
  <2> QED BY <2>1, <2>2
<1>10. IsTree(g, {})
  <2>1. PICK q, k : q = [y \in Offsets |-> None] /\ k = [y \in Offsets |-> {}]
    OBVIOUS
  <2>2. Tree(g, {}, q, k)
    BY <1>7, <1>8, <1>9, <2>1 DEF Tree
  <2> QED BY <2>2 DEF IsTree
<1>11. S \in SUBSET Offsets
  BY <1>2
<1>12. IsTree(Merged(t), S) /\ SameSizes(Merged(t), g)
  BY <1>3, <1>4, <1>10, <1>11, BuiltTree
<1>13. /\ Sz(Merged(t)) \in [Offsets -> 0 .. Units]
       /\ \A x \in S : Sz(Merged(t))[x] = RunEnd(t, F, x) - x
       /\ \A x \in H : Sz(Merged(t))[x] = SizeAt(t, x)
  <2>1. \A x \in Offsets : Sz(Merged(t))[x] = SizeAt(g, x)
    BY <1>12 DEF Sz, SameSizes
  <2>2. \A x \in Offsets : SizeAt(g, x) \in 0 .. Units
    BY <1>8, ChildType
  <2>3. \A x \in S : SizeAt(g, x) = RunEnd(t, F, x) - x
    <3> TAKE x \in S
    <3>1. PICK k : k = RunEnd(t, F, x) - x
      OBVIOUS
    <3>2. g.node[x] = [size |-> k, left |-> x, right |-> x]
      BY <1>7, <3>1
    <3> QED BY <3>1, <3>2 DEF SizeAt
  <2>4. \A x \in H : SizeAt(g, x) = SizeAt(t, x)
    BY <1>2, <1>7 DEF SizeAt
  <2>5. Sz(Merged(t)) = [x \in Offsets |-> SizeAt(Merged(t), x)]
    BY DEF Sz
  <2>6. \A x \in Offsets : SizeAt(Merged(t), x) \in 0 .. Units
    BY <1>12, <2>2 DEF SameSizes
  <2> QED BY <1>2, <2>1, <2>3, <2>4, <2>5, <2>6
<1>14. Tiled(Sz(Merged(t)), S, H) /\ Points(Sz(Merged(t)), S) = Points(Sz(t), F)
  BY <1>13, <1>S, RunsTile
<1> QED BY <1>11, <1>12, <1>14
-----------------------------------------------------------------------------
(***************************************************************************)
(* The list of the pages, and the threads that work on them.               *)
(***************************************************************************)
PageFields == {"tree", "allocated", "mutex", "used"}
ThreadFields == {"pc", "page", "block"}
NoRepeat(s) == \A j, k \in DOMAIN s : s[j] = s[k] => j = k
Holds1(s, p) == \E k \in DOMAIN s : s[k] = p

(* The records the threads work on have their fields.                      *)
HeapFields ==
  /\ DOMAIN page = Pages /\ DOMAIN thread = Threads
  /\ \A p \in Pages : PageFields \subseteq DOMAIN page[p] /\ page[p].allocated \in Int
  /\ \A t \in Threads : ThreadFields \subseteq DOMAIN thread[t]

Listed ==
  /\ list \in Seq(Pages) /\ NoRepeat(list)
  /\ \A p \in Pages : page[p].used <=> Holds1(list, p)
  /\ last # Nobody => last \in Pages /\ page[last].used

(* A thread works on a page that is used and that it has locked.           *)
Works(v) == v.pc \in {"take", "free", "drop"}
WorkOn(r, t) == r.used /\ r.mutex = t
Working ==
  \A t \in Threads :
    /\ thread[t].pc = "lock" => thread[t].page \in Pages
    /\ Works(thread[t]) => /\ thread[t].page \in Pages
                                /\ WorkOn(page[thread[t].page], t)

(* A page counts at least the blocks handed out and the one being freed.   *)
Out(p) == {b \in live : b[1] = p}
Freeing(p) ==
  IF \E t \in Threads : thread[t].pc = "free" /\ thread[t].page = p THEN 1 ELSE 0
Counted ==
  /\ IsFiniteSet(live)
  /\ \A b \in live : b[1] \in Pages /\ page[b[1]].used
  /\ \A p \in Pages : Cardinality(Out(p)) + Freeing(p) <= page[p].allocated
  /\ \A t \in Threads :
       thread[t].pc = "drop" => page[thread[t].page].allocated = 0

HeapInv == HeapFields /\ Listed /\ Working /\ Counted

(* The blocks handed out on a page can be counted.                         *)
LEMMA OutFinite ==
  ASSUME Counted, NEW p
  PROVE  IsFiniteSet(Out(p)) /\ Cardinality(Out(p)) \in Nat
<1>1. IsFiniteSet(Out(p))
  BY FS_Subset DEF Counted, Out
<1> QED BY <1>1, FS_CardinalityType

LEMMA FreeingIs ==
  ASSUME NEW p
  PROVE  Freeing(p) \in {0, 1} /\ Freeing(p)' \in {0, 1}
BY DEF Freeing

(* A thread that comes to a place where it holds no page, the pages left   *)
(* alone.                                                                  *)
Leaves(t, v) ==
  /\ thread' = [thread EXCEPT ![t] = v]
  /\ ThreadFields \subseteq DOMAIN v /\ ~Works(v)
  /\ v.pc = "lock" => v.page \in Pages
  /\ UNCHANGED <<page, list, last, live>>

LEMMA LeavesKeeps ==
  ASSUME HeapInv, NEW t \in Threads, NEW v, Leaves(t, v)
  PROVE  HeapInv'
<1>1. /\ DOMAIN thread' = Threads /\ thread'[t] = v
      /\ \A u \in Threads : u # t => thread'[u] = thread[u]
  BY DEF Leaves, HeapInv, HeapFields
<1>2. HeapFields'
  <2>1. \A u \in Threads : ThreadFields \subseteq DOMAIN thread'[u]
    BY <1>1 DEF Leaves, HeapInv, HeapFields
  <2> QED BY <1>1, <2>1 DEF Leaves, HeapInv, HeapFields
<1>3. Listed'
  BY DEF Leaves, HeapInv, Listed
<1>4. Working'
  <2> SUFFICES ASSUME NEW u \in Threads
               PROVE  /\ thread'[u].pc = "lock" => thread'[u].page \in Pages
                      /\ Works(thread'[u]) => /\ thread'[u].page \in Pages
                                                   /\ WorkOn(page[thread'[u].page], u)
    BY DEF Leaves, Working
  <2>1. CASE u = t
    BY <1>1, <2>1 DEF Leaves
  <2>2. CASE u # t
    BY <1>1, <2>2 DEF HeapInv, Working
  <2> QED BY <2>1, <2>2
<1>5. Counted'
  <2>1. \A p \in Pages : Out(p)' = Out(p)
    BY DEF Out, Leaves
  <2>2. \A p \in Pages : Freeing(p)' <= Freeing(p)
    BY <1>1 DEF Freeing, Leaves, Works
  <2>3. \A p \in Pages : Cardinality(Out(p))' + Freeing(p)' <= page'[p].allocated
    <3> SUFFICES ASSUME NEW p \in Pages
                 PROVE  Cardinality(Out(p))' + Freeing(p)' <= page'[p].allocated
      OBVIOUS
    <3>1. PICK a \in Int : a = page[p].allocated /\ page'[p].allocated = a
      BY DEF Leaves, HeapInv, HeapFields
    <3>2. PICK c \in Nat, f \in {0, 1}, g \in {0, 1} :
            c = Cardinality(Out(p)) /\ f = Freeing(p) /\ g = Freeing(p)'
      BY OutFinite, FreeingIs DEF HeapInv
    <3>3. c + f <= a /\ g <= f /\ Cardinality(Out(p))' = c
      BY <2>1, <2>2, <3>1, <3>2 DEF HeapInv, Counted
    <3> QED BY <3>1, <3>2, <3>3
  <2>4. \A u \in Threads :
          thread'[u].pc = "drop" => page'[thread'[u].page].allocated = 0
    BY <1>1 DEF Leaves, Works, HeapInv, Counted
  <2>5. IsFiniteSet(live') /\ \A b \in live' : b[1] \in Pages /\ page'[b[1]].used
    BY DEF Leaves, HeapInv, Counted
  <2> QED BY <2>3, <2>4, <2>5 DEF Counted
<1> QED BY <1>2, <1>3, <1>4, <1>5 DEF HeapInv

(* A thread that works on a used page nobody else has locked.              *)
WorksOn(t, v, p, r) ==
  /\ p \in Pages /\ page[p].used /\ page[p].mutex \in {Nobody, t}
  /\ page' = [page EXCEPT ![p] = r] /\ PageFields \subseteq DOMAIN r /\ r.used
  /\ r.allocated \in Int
  /\ thread' = [thread EXCEPT ![t] = v] /\ ThreadFields \subseteq DOMAIN v
  /\ v.pc # "lock" /\ (Works(v) => v.page = p /\ r.mutex = t)
  /\ v.pc = "drop" => r.allocated = 0
  /\ thread[t].pc = "free" => thread[t].page = p
  /\ IsFiniteSet(live') /\ \A b \in live' : b \in live \/ b[1] = p
  /\ \A b \in live : b \in live' \/ b[1] = p
  /\ Cardinality(Out(p))' + (IF v.pc = "free" THEN 1 ELSE 0) <= r.allocated
  /\ UNCHANGED <<list, last>>

LEMMA WorksOnKeeps ==
  ASSUME HeapInv, NEW t \in Threads, NEW v, NEW p, NEW r,
         WorksOn(t, v, p, r)
  PROVE  HeapInv'
<1>1. /\ DOMAIN thread' = Threads /\ thread'[t] = v
      /\ \A u \in Threads : u # t => thread'[u] = thread[u]
  BY DEF WorksOn, HeapInv, HeapFields
<1>2. /\ DOMAIN page' = Pages /\ page'[p] = r /\ p \in Pages
      /\ \A q \in Pages : q # p => page'[q] = page[q]
  BY DEF WorksOn, HeapInv, HeapFields
(* No other thread works on that page.                                     *)
<1>3. ASSUME NEW u \in Threads, u # t, Works(thread[u])
      PROVE  thread[u].page # p
  BY <1>3, HeapAssumption DEF WorksOn, HeapInv, Working, WorkOn
<1>4. HeapFields'
  <2>1. \A u \in Threads : ThreadFields \subseteq DOMAIN thread'[u]
    BY <1>1 DEF WorksOn, HeapInv, HeapFields
  <2>2. \A q \in Pages : PageFields \subseteq DOMAIN page'[q] /\ page'[q].allocated \in Int
    BY <1>2 DEF WorksOn, HeapInv, HeapFields
  <2> QED BY <1>1, <1>2, <2>1, <2>2 DEF HeapFields
<1>5. \A q \in Pages : page'[q].used <=> page[q].used
  BY <1>2 DEF WorksOn
<1>6. Listed'
  BY <1>5 DEF WorksOn, HeapInv, Listed
<1>7. Working'
  <2> SUFFICES ASSUME NEW u \in Threads
               PROVE  /\ thread'[u].pc = "lock" => thread'[u].page \in Pages
                      /\ Works(thread'[u]) => /\ thread'[u].page \in Pages
                                                   /\ WorkOn(page'[thread'[u].page], u)
    BY DEF Working
  <2>1. CASE u = t
    BY <1>1, <1>2, <2>1 DEF WorksOn, WorkOn
  <2>2. CASE u # t
    BY <1>1, <1>2, <1>3, <2>2 DEF HeapInv, Working
  <2> QED BY <2>1, <2>2
<1>8. Counted'
  <2>1. \A q \in Pages : q # p => Out(q)' = Out(q)
    BY DEF Out, WorksOn
  <2>2. \A q \in Pages : q # p => Freeing(q)' <= Freeing(q)
    BY <1>1 DEF Freeing, WorksOn, Works
  <2>3. Freeing(p)' = IF v.pc = "free" THEN 1 ELSE 0
    <3>1. CASE v.pc = "free"
      BY <1>1, <3>1 DEF Freeing, WorksOn, Works
    <3>2. CASE v.pc # "free"
      <4>1. \A u \in Threads : ~(thread'[u].pc = "free" /\ thread'[u].page = p)
        BY <1>1, <1>3, <3>2 DEF Works
      <4> QED BY <3>2, <4>1 DEF Freeing
    <3> QED BY <3>1, <3>2
  <2>4. ASSUME NEW q \in Pages
        PROVE  Cardinality(Out(q))' + Freeing(q)' <= page'[q].allocated
    <3>1. CASE q = p
      BY <1>2, <2>3, <3>1 DEF WorksOn
    <3>2. CASE q # p
      <4>1. PICK a \in Int : a = page[q].allocated /\ page'[q].allocated = a
        BY <1>2, <3>2 DEF HeapInv, HeapFields
      <4>2. PICK c \in Nat, f \in {0, 1}, g \in {0, 1} :
              c = Cardinality(Out(q)) /\ f = Freeing(q) /\ g = Freeing(q)'
        BY OutFinite, FreeingIs DEF HeapInv
      <4>3. c + f <= a /\ g <= f /\ Cardinality(Out(q))' = c
        BY <2>1, <2>2, <3>2, <4>1, <4>2 DEF HeapInv, Counted
      <4> QED BY <4>1, <4>2, <4>3
    <3> QED BY <3>1, <3>2
  <2>5. ASSUME NEW u \in Threads, thread'[u].pc = "drop"
        PROVE  page'[thread'[u].page].allocated = 0
    <3>1. CASE u = t
      BY <1>1, <1>2, <2>5, <3>1 DEF WorksOn, Works
    <3>2. CASE u # t
      <4>1. thread[u].page \in Pages /\ thread[u].page # p
        BY <1>1, <1>3, <2>5, <3>2 DEF HeapInv, Working, Works
      <4> QED BY <1>1, <1>2, <2>5, <3>2, <4>1 DEF HeapInv, Counted
    <3> QED BY <3>1, <3>2
  <2>6. IsFiniteSet(live') /\ \A b \in live' : b[1] \in Pages /\ page'[b[1]].used
    BY <1>2, <1>5 DEF WorksOn, HeapInv, Counted
  <2> QED BY <2>4, <2>5, <2>6 DEF Counted
<1> QED BY <1>4, <1>6, <1>7, <1>8 DEF HeapInv

(* list_del and list_add of heap_page_list.                                *)
LEMMA WithoutPage ==
  ASSUME NEW S, NEW s \in Seq(S), NoRepeat(s), NEW k \in DOMAIN s
  PROVE  /\ RemoveAt(s, k) \in Seq(S)
         /\ NoRepeat(RemoveAt(s, k))
         /\ \A v : Holds1(RemoveAt(s, k), v) <=> Holds1(s, v) /\ v # s[k]
<1> DEFINE n == Len(s)
           a == SubSeq(s, 1, k - 1)
           b == SubSeq(s, k + 1, n)
           new == a \o b
<1>1. n \in Nat /\ DOMAIN s = 1 .. n
  BY LenProperties
<1>2. k \in 1 .. n /\ k \in Int
  BY <1>1
<1>a. RemoveAt(s, k) = new
  BY DEF RemoveAt
<1> HIDE DEF n
<1>3. \A i \in 1 .. n : s[i] \in S
  BY ElementOfSeq DEF n
<1>4. /\ a \in Seq(S) /\ Len(a) = k - 1
      /\ \A i \in 1 .. k - 1 : a[i] = s[i]
  BY <1>2, <1>3, <1>1, SubSeqProperties
<1>5. /\ b \in Seq(S) /\ Len(b) = n - k
      /\ \A i \in 1 .. n - k : b[i] = s[k + i]
  BY <1>2, <1>3, <1>1, SubSeqProperties
<1> HIDE DEF a, b
<1>6. /\ new \in Seq(S) /\ DOMAIN new = 1 .. n - 1
      /\ \A i \in 1 .. n - 1 : new[i] = IF i < k THEN s[i] ELSE s[i + 1]
  <2>0. /\ new \in Seq(S) /\ Len(new) = Len(a) + Len(b)
        /\ \A i \in 1 .. Len(a) + Len(b) : new[i] = IF i <= Len(a) THEN a[i] ELSE b[i - Len(a)]
    BY <1>4, <1>5, ConcatProperties
  <2>1. /\ new \in Seq(S) /\ Len(new) = (k - 1) + (n - k)
        /\ \A i \in 1 .. (k - 1) + (n - k) : new[i] = IF i <= k - 1 THEN a[i] ELSE b[i - (k - 1)]
    BY <1>4, <1>5, <2>0
  <2>2. Len(new) = n - 1
    BY <2>1, <1>1, <1>2
  <2>3. ASSUME NEW i \in 1 .. n - 1 PROVE new[i] = IF i < k THEN s[i] ELSE s[i + 1]
    <3>1. new[i] = IF i <= k - 1 THEN a[i] ELSE b[i - (k - 1)]
      BY <2>1, <1>1, <1>2
    <3>2. CASE i < k
      BY <3>1, <3>2, <1>2, <1>4
    <3>3. CASE ~(i < k)
      <4>1. i - (k - 1) \in 1 .. n - k /\ k + (i - (k - 1)) = i + 1 /\ ~(i <= k - 1)
        BY <3>3, <1>1, <1>2
      <4> QED BY <3>1, <3>3, <4>1, <1>5
    <3> QED BY <3>2, <3>3
  <2> QED BY <2>1, <2>2, <2>3, LenProperties
<1> HIDE DEF new
<1>7. NoRepeat(new)
  <2> SUFFICES ASSUME NEW i \in 1 .. n - 1, NEW j \in 1 .. n - 1, new[i] = new[j]
               PROVE  i = j
    BY <1>6 DEF NoRepeat
  <2>1. \A x, y \in 1 .. n : s[x] = s[y] => x = y
    BY <1>1 DEF NoRepeat
  <2> QED BY <1>1, <1>2, <1>6, <2>1
<1>8. ASSUME NEW v PROVE Holds1(new, v) <=> Holds1(s, v) /\ v # s[k]
  <2>1. ASSUME Holds1(new, v) PROVE Holds1(s, v) /\ v # s[k]
    <3>1. PICK i \in 1 .. n - 1 : new[i] = v
      BY <2>1, <1>6 DEF Holds1
    <3>2. PICK j \in 1 .. n : j # k /\ s[j] = v
      <4>1. v = IF i < k THEN s[i] ELSE s[i + 1]
        BY <3>1, <1>6
      <4>2. CASE i < k
        BY <4>1, <4>2, <1>1, <1>2
      <4>3. CASE ~(i < k)
        BY <4>1, <4>3, <1>1, <1>2
      <4> QED BY <4>2, <4>3
    <3> QED BY <3>2, <1>1, <1>2 DEF Holds1, NoRepeat
  <2>2. ASSUME Holds1(s, v), v # s[k] PROVE Holds1(new, v)
    <3>1. PICK j \in 1 .. n : s[j] = v /\ j # k
      BY <2>2, <1>1 DEF Holds1
    <3>2. CASE j < k
      <4>1. j \in 1 .. n - 1 /\ new[j] = v
        BY <3>1, <3>2, <1>1, <1>2, <1>6
      <4> QED BY <4>1, <1>6 DEF Holds1
    <3>3. CASE j > k
      <4>1. j - 1 \in 1 .. n - 1 /\ ~(j - 1 < k) /\ (j - 1) + 1 = j
        BY <3>1, <3>3, <1>1, <1>2
      <4>2. new[j - 1] = v
        BY <3>1, <4>1, <1>6
      <4> QED BY <4>1, <4>2, <1>6 DEF Holds1
    <3> QED BY <3>1, <3>2, <3>3, <1>1, <1>2
  <2> QED BY <2>1, <2>2
<1> QED BY <1>a, <1>6, <1>7, <1>8

LEMMA WithPage ==
  ASSUME NEW S, NEW s \in Seq(S), NoRepeat(s), NEW p \in S, ~Holds1(s, p)
  PROVE  /\ <<p>> \o s \in Seq(S)
         /\ NoRepeat(<<p>> \o s)
         /\ \A v : Holds1(<<p>> \o s, v) <=> Holds1(s, v) \/ v = p
<1> DEFINE n == Len(s)
           new == <<p>> \o s
<1>1. n \in Nat /\ DOMAIN s = 1 .. n
  BY LenProperties
<1>2. <<p>> \in Seq(S) /\ Len(<<p>>) = 1 /\ <<p>>[1] = p
  OBVIOUS
<1>3. /\ new \in Seq(S) /\ Len(new) = 1 + n
      /\ \A i \in 1 .. 1 + n : new[i] = IF i <= 1 THEN <<p>>[i] ELSE s[i - 1]
  BY <1>2, ConcatProperties
<1> HIDE DEF n, new
<1>4. DOMAIN new = 1 .. n + 1
  BY <1>1, <1>3, LenProperties
<1>5. new[1] = p
  BY <1>1, <1>2, <1>3
<1>6. \A i \in 1 .. n : i + 1 \in 1 .. n + 1 /\ new[i + 1] = s[i]
  BY <1>1, <1>3
<1>7. ASSUME NEW i \in 2 .. n + 1
      PROVE  i - 1 \in 1 .. n /\ new[i] = s[i - 1] /\ new[i] # p
  <2>1. i \in 1 .. 1 + n /\ ~(i <= 1) /\ i - 1 \in 1 .. n
    BY <1>1
  <2>2. new[i] = s[i - 1]
    BY <1>3, <2>1
  <2>3. s[i - 1] # p
    BY <1>1, <2>1 DEF Holds1
  <2> QED BY <2>1, <2>2, <2>3
<1>8. NoRepeat(new)
  <2> SUFFICES ASSUME NEW i \in 1 .. n + 1, NEW j \in 1 .. n + 1, new[i] = new[j]
               PROVE  i = j
    BY <1>4 DEF NoRepeat
  <2>1. CASE i = 1 \/ j = 1
    BY <1>1, <1>5, <1>7, <2>1
  <2>2. CASE i # 1 /\ j # 1
    <3>1. i \in 2 .. n + 1 /\ j \in 2 .. n + 1
      BY <1>1, <2>2
    <3>2. i - 1 = j - 1
      BY <1>1, <1>7, <3>1 DEF NoRepeat
    <3> QED BY <3>1, <3>2
  <2> QED BY <2>1, <2>2
<1>9. ASSUME NEW v PROVE Holds1(new, v) <=> Holds1(s, v) \/ v = p
  <2>1. ASSUME Holds1(new, v) PROVE Holds1(s, v) \/ v = p
    <3>1. PICK i \in 1 .. n + 1 : new[i] = v
      BY <1>4, <2>1 DEF Holds1
    <3>2. CASE i = 1
      BY <1>5, <3>1, <3>2
    <3>3. CASE i # 1
      <4>1. i \in 2 .. n + 1
        BY <1>1, <3>3
      <4> QED BY <1>1, <1>7, <3>1, <4>1 DEF Holds1
    <3> QED BY <3>2, <3>3
  <2>2. ASSUME Holds1(s, v) PROVE Holds1(new, v)
    <3>1. PICK i \in 1 .. n : s[i] = v
      BY <1>1, <2>2 DEF Holds1
    <3> QED BY <1>4, <1>6, <3>1 DEF Holds1
  <2>3. ASSUME v = p PROVE Holds1(new, v)
    <3>1. 1 \in 1 .. n + 1
      BY <1>1
    <3> QED BY <1>4, <1>5, <2>3, <3>1 DEF Holds1
  <2> QED BY <2>1, <2>2, <2>3
<1> QED BY <1>3, <1>8, <1>9 DEF new

(* What a fault leaves alone.                                              *)
LEMMA FaultKeeps ==
  ASSUME HeapInv, UNCHANGED <<page, list, last, live, thread>>
  PROVE  HeapInv'
<1>1. HeapFields'
  BY DEF HeapInv, HeapFields
<1>2. Listed'
  BY DEF HeapInv, Listed
<1>3. Working'
  BY DEF HeapInv, Working
<1>4. Counted'
  <2>1. \A p : Out(p)' = Out(p) /\ Freeing(p)' = Freeing(p)
    BY DEF Out, Freeing
  <2> QED BY <2>1 DEF HeapInv, Counted
<1> QED BY <1>1, <1>2, <1>3, <1>4 DEF HeapInv
-----------------------------------------------------------------------------
(* One lemma per action.                                                   *)
LEMMA AllocBeginKeeps ==
  ASSUME HeapInv, NEW t \in Threads, AllocBegin(t)
  PROVE  HeapInv'
<1>1. PICK n : thread' = [thread EXCEPT ![t] =
                 [Idle EXCEPT !.pc = "scan", !.units = n, !.page = Behind(Nobody)]]
  BY DEF AllocBegin
<1> DEFINE v == [Idle EXCEPT !.pc = "scan", !.units = n, !.page = Behind(Nobody)]
<1>2. v.pc = "scan" /\ ThreadFields \subseteq DOMAIN v
  BY DEF Idle, ThreadFields
<1>3. UNCHANGED <<page, list, last, live>>
  BY DEF AllocBegin
<1> HIDE DEF v
<1>4. Leaves(t, v)
  BY <1>1, <1>2, <1>3 DEF Leaves, Works, v
<1> QED BY <1>4, LeavesKeeps

(* A thread that goes to another place, with the page it has or another.   *)
LEMMA GoesIs ==
  ASSUME HeapInv, NEW t \in Threads, NEW pc, NEW q
  PROVE  /\ [thread[t] EXCEPT !.pc = pc].pc = pc
         /\ [thread[t] EXCEPT !.pc = pc].page = thread[t].page
         /\ ThreadFields \subseteq DOMAIN [thread[t] EXCEPT !.pc = pc]
         /\ [thread[t] EXCEPT !.page = q].pc = thread[t].pc
         /\ [thread[t] EXCEPT !.page = q].page = q
         /\ ThreadFields \subseteq DOMAIN [thread[t] EXCEPT !.page = q]
<1>1. ThreadFields \subseteq DOMAIN thread[t]
  BY DEF HeapInv, HeapFields
<1>2. "pc" \in DOMAIN thread[t] /\ "page" \in DOMAIN thread[t]
  BY <1>1 DEF ThreadFields
<1> QED BY <1>1, <1>2

LEMMA GoesKeeps ==
  ASSUME HeapInv, NEW t \in Threads, NEW pc, Goes(t, pc),
         pc \notin {"lock", "take", "free", "drop"},
         UNCHANGED <<page, list, last, live>>
  PROVE  HeapInv'
<1> DEFINE v == [thread[t] EXCEPT !.pc = pc]
<1>1. v.pc = pc /\ ThreadFields \subseteq DOMAIN v
  BY GoesIs
<1>2. thread' = [thread EXCEPT ![t] = v]
  BY DEF Goes
<1> HIDE DEF v
<1>3. Leaves(t, v)
  BY <1>1, <1>2 DEF Leaves, Works
<1> QED BY <1>3, LeavesKeeps

(* A page is locked.                                                       *)
LEMMA LockedKeeps ==
  ASSUME HeapInv, NEW t \in Threads, NEW v, NEW p \in Pages,
         page[p].used, page[p].mutex = Nobody,
         thread[t].pc \in {"scan", "lock"},
         page' = [page EXCEPT ![p].mutex = t],
         thread' = [thread EXCEPT ![t] = v],
         v.pc = "take", v.page = p, ThreadFields \subseteq DOMAIN v,
         UNCHANGED <<list, last, live>>
  PROVE  HeapInv'
<1> DEFINE r == [page[p] EXCEPT !.mutex = t]
<1>1. PageFields \subseteq DOMAIN page[p] /\ page[p].allocated \in Int
  BY DEF HeapInv, HeapFields
<1>2. {"mutex", "used", "allocated"} \subseteq DOMAIN page[p]
  BY <1>1 DEF PageFields
<1>3. /\ r.mutex = t /\ r.used = page[p].used /\ r.allocated = page[p].allocated
      /\ PageFields \subseteq DOMAIN r
  <2>1. DOMAIN r = DOMAIN page[p]
    OBVIOUS
  <2>2. r.mutex = t
    BY <1>2
  <2>3. r.used = page[p].used /\ r.allocated = page[p].allocated
    BY <1>2
  <2> QED BY <1>1, <2>1, <2>2, <2>3
<1>4. page' = [page EXCEPT ![p] = r]
  OBVIOUS
<1> HIDE DEF r
<1>5. Out(p)' = Out(p)
  BY DEF Out
<1>6. Cardinality(Out(p))' + 0 <= r.allocated
  <2>1. PICK a \in Int, c \in Nat, f \in {0, 1} :
          a = r.allocated /\ c = Cardinality(Out(p)) /\ f = Freeing(p)
    BY <1>1, <1>3, OutFinite, FreeingIs DEF HeapInv
  <2>2. c + f <= a
    BY <1>3, <2>1 DEF HeapInv, Counted
  <2> QED BY <1>5, <2>1, <2>2
<1>7. IsFiniteSet(live)
  BY DEF HeapInv, Counted
<1>8. WorksOn(t, v, p, r)
  BY <1>1, <1>3, <1>4, <1>6, <1>7 DEF WorksOn
<1> QED BY <1>8, WorksOnKeeps

(* Action by action.                                                       *)
LEMMA ScanPageKeeps ==
  ASSUME HeapInv, NEW t \in Threads, ScanPage(t)
  PROVE  HeapInv'
<1> DEFINE p == thread[t].page
           q == list[After(p)]
<1>0. UNCHANGED <<list, last, live>> /\ thread[t].pc = "scan"
  BY DEF ScanPage, At
<1>1. CASE UNCHANGED <<page, thread>>
  BY <1>0, <1>1, FaultKeeps
<1>2. CASE Goes(t, "add") /\ UNCHANGED page
  BY <1>0, <1>2, GoesKeeps
<1>3. CASE thread' = [thread EXCEPT ![t].page = q] /\ UNCHANGED page
  <2> DEFINE v == [thread[t] EXCEPT !.page = q]
  <2>1. v.pc = "scan" /\ ThreadFields \subseteq DOMAIN v
    BY <1>0, GoesIs
  <2>2. thread' = [thread EXCEPT ![t] = v]
    BY <1>3
  <2> HIDE DEF v
  <2>3. Leaves(t, v)
    BY <1>0, <1>3, <2>1, <2>2 DEF Leaves, Works
  <2> QED BY <2>3, LeavesKeeps
<1>4. CASE /\ ~(p # Nobody /\ ~(\E k \in DOMAIN list : list[k] = p))
           /\ ~(After(p) > Len(list))
           /\ page[q].mutex = Nobody
           /\ page' = [page EXCEPT ![q].mutex = t]
           /\ thread' = [thread EXCEPT ![t].pc = "take", ![t].page = q]
  <2>1. list \in Seq(Pages) /\ Len(list) \in Nat /\ DOMAIN list = 1 .. Len(list)
    BY LenProperties DEF HeapInv, Listed
  <2>2. After(p) \in DOMAIN list
    <3>1. CASE p = Nobody
      BY <1>4, <2>1, <3>1 DEF After
    <3>2. CASE p # Nobody
      <4>1. PlaceOf(p) \in DOMAIN list
        BY <1>4, <3>2 DEF PlaceOf
      <4> QED BY <1>4, <2>1, <3>2, <4>1 DEF After
    <3> QED BY <3>1, <3>2
  <2>3. q \in Pages /\ page[q].used
    <3>1. q \in Pages
      BY <2>1, <2>2, ElementOfSeq
    <3> QED BY <2>2, <3>1 DEF HeapInv, Listed, Holds1
  <2> DEFINE v == [thread[t] EXCEPT !.pc = "take", !.page = q]
  <2>4. "pc" \in DOMAIN thread[t] /\ "page" \in DOMAIN thread[t]
    BY DEF HeapInv, HeapFields, ThreadFields
  <2>5. v.pc = "take" /\ v.page = q /\ DOMAIN v = DOMAIN thread[t]
    BY <2>4
  <2>6. ThreadFields \subseteq DOMAIN v
    BY <2>5 DEF HeapInv, HeapFields
  <2>7. thread' = [thread EXCEPT ![t] = v]
    BY <1>4
  <2> HIDE DEF v, q
  <2> QED BY <1>0, <1>4, <2>3, <2>5, <2>6, <2>7, LockedKeeps
<1> QED BY <1>1, <1>2, <1>3, <1>4 DEF ScanPage

LEMMA ScanAgainKeeps ==
  ASSUME HeapInv, NEW t \in Threads, ScanAgain(t)
  PROVE  HeapInv'
BY GoesKeeps DEF ScanAgain

LEMMA TryAddKeeps ==
  ASSUME HeapInv, NEW t \in Threads, TryAdd(t)
  PROVE  HeapInv'
<1>1. CASE Goes(t, "new")
  BY <1>1, GoesKeeps DEF TryAdd
<1>2. CASE Goes(t, "await")
  BY <1>2, GoesKeeps DEF TryAdd
<1> QED BY <1>1, <1>2 DEF TryAdd

LEMMA AwaitPageKeeps ==
  ASSUME HeapInv, NEW t \in Threads, AwaitPage(t)
  PROVE  HeapInv'
<1> DEFINE pc == IF last = Nobody THEN "add" ELSE "lock"
           v == [thread[t] EXCEPT !.pc = pc, !.page = last]
<1>1. "pc" \in DOMAIN thread[t] /\ "page" \in DOMAIN thread[t]
  BY DEF HeapInv, HeapFields, ThreadFields
<1>2. v.pc = pc /\ v.page = last /\ DOMAIN v = DOMAIN thread[t]
  BY <1>1
<1>3. ThreadFields \subseteq DOMAIN v
  BY <1>2 DEF HeapInv, HeapFields
<1>4. thread' = [thread EXCEPT ![t] = v] /\ UNCHANGED <<page, list, last, live>>
  BY DEF AwaitPage
<1>5. last # Nobody => last \in Pages
  BY DEF HeapInv, Listed
<1> HIDE DEF v
<1>6. Leaves(t, v)
  BY <1>2, <1>3, <1>4, <1>5 DEF Leaves, Works
<1> QED BY <1>6, LeavesKeeps

LEMMA LockPageKeeps ==
  ASSUME HeapInv, NEW t \in Threads, LockPage(t)
  PROVE  HeapInv'
<1> DEFINE p == thread[t].page
<1>0. UNCHANGED <<list, last, live>> /\ thread[t].pc = "lock" /\ p \in Pages
  BY DEF LockPage, At, HeapInv, Working
<1>1. CASE UNCHANGED <<page, thread>>
  BY <1>0, <1>1, FaultKeeps
<1>2. CASE /\ page[p].used /\ page[p].mutex = Nobody
           /\ page' = [page EXCEPT ![p].mutex = t] /\ Goes(t, "take")
  <2> DEFINE v == [thread[t] EXCEPT !.pc = "take"]
  <2>1. v.pc = "take" /\ v.page = p /\ ThreadFields \subseteq DOMAIN v
    BY GoesIs
  <2>2. thread' = [thread EXCEPT ![t] = v]
    BY <1>2 DEF Goes
  <2> HIDE DEF v
  <2> QED BY <1>0, <1>2, <2>1, <2>2, LockedKeeps
<1> QED BY <1>1, <1>2 DEF LockPage

(* The block is taken from a tree: the counts and the lock stay what they  *)
(* are otherwise.                                                          *)
LEMMA AllocatedIs ==
  ASSUME NEW h, PageFields \subseteq DOMAIN h, NEW x, NEW n
  PROVE  LET r == [Allocated(h, x, n) EXCEPT !.mutex = Nobody]
         IN /\ PageFields \subseteq DOMAIN r
            /\ r.allocated = h.allocated + 1 /\ r.used = h.used
<1> DEFINE a == Allocated(h, x, n)
           r == [a EXCEPT !.mutex = Nobody]
<1>1. {"mutex", "used", "allocated"} \subseteq DOMAIN h
  BY DEF PageFields
<1>2. /\ DOMAIN a = DOMAIN h
      /\ a.allocated = h.allocated + 1 /\ a.used = h.used
  <2> DEFINE tree == FindDelete(h.tree, n)
             rest == [tree EXCEPT !.node[x].size = n,
                                  !.node[x + n].size = tree.node[x].size - n]
             ins == Insert(rest, x + n)
             left == h.free - n
             gone == h.free - tree.node[x].size
             fc == h.free_count - 1
  <2>1. \/ a = [h EXCEPT !.tree = ins, !.allocated = @ + 1, !.free = left]
        \/ a = [h EXCEPT !.tree = tree, !.allocated = @ + 1, !.free_count = fc, !.free = gone]
    BY DEF Allocated
  <2> HIDE DEF a, ins, left, gone, fc, tree
  <2>2. CASE a = [h EXCEPT !.tree = ins, !.allocated = @ + 1, !.free = left]
    BY <1>1, <2>2
  <2>3. CASE a = [h EXCEPT !.tree = tree, !.allocated = @ + 1, !.free_count = fc, !.free = gone]
    BY <1>1, <2>3
  <2> QED BY <2>1, <2>2, <2>3
<1> HIDE DEF a
<1>3. DOMAIN r = DOMAIN h /\ r.allocated = h.allocated + 1 /\ r.used = h.used
  BY <1>1, <1>2
<1> QED BY <1>3 DEF a

LEMMA TakeKeeps ==
  ASSUME HeapInv, NEW t \in Threads, Take(t)
  PROVE  HeapInv'
<1>p. PICK p : p = thread[t].page
  OBVIOUS
<1> DEFINE n == thread[t].units
           x == BestFit(page[p].tree, n)
<1>0. /\ UNCHANGED <<list, last>> /\ thread[t].pc = "take"
      /\ p \in Pages /\ page[p].used /\ page[p].mutex = t
  BY <1>p DEF Take, At, HeapInv, Working, Works, WorkOn
<1>1. PageFields \subseteq DOMAIN page[p] /\ page[p].allocated \in Int
  BY <1>0 DEF HeapInv, HeapFields
<1>2. {"mutex", "used", "allocated"} \subseteq DOMAIN page[p]
  BY <1>1 DEF PageFields
<1>3. PICK c \in Nat : c = Cardinality(Out(p)) /\ c <= page[p].allocated
  <2>1. PICK a \in Int, c \in Nat, f \in {0, 1} :
          a = page[p].allocated /\ c = Cardinality(Out(p)) /\ f = Freeing(p)
    BY <1>1, OutFinite, FreeingIs DEF HeapInv
  <2>2. c + f <= a
    BY <1>0, <2>1 DEF HeapInv, Counted
  <2> QED BY <2>1, <2>2
<1>4. IsFiniteSet(live)
  BY DEF HeapInv, Counted
<1>5. CASE UNCHANGED <<page, live, thread>>
  BY <1>0, <1>5, FaultKeeps
(* No block fits: the page is unlocked.                                    *)
<1>6. CASE /\ page' = [page EXCEPT ![p].mutex = Nobody]
           /\ Goes(t, "again") /\ UNCHANGED live
  <2> DEFINE v == [thread[t] EXCEPT !.pc = "again"]
             r == [page[p] EXCEPT !.mutex = Nobody]
  <2>1. v.pc = "again" /\ ThreadFields \subseteq DOMAIN v
    BY GoesIs
  <2>2. thread' = [thread EXCEPT ![t] = v] /\ page' = [page EXCEPT ![p] = r]
    BY <1>6 DEF Goes
  <2>3. DOMAIN r = DOMAIN page[p] /\ r.used = page[p].used /\ r.allocated = page[p].allocated
    BY <1>2
  <2>4. PageFields \subseteq DOMAIN r
    BY <1>1, <2>3
  <2> HIDE DEF v, r
  <2>5. Out(p)' = Out(p)
    BY <1>6 DEF Out
  <2>6. Cardinality(Out(p))' + 0 <= r.allocated
    BY <1>3, <2>3, <2>5
  <2>7. WorksOn(t, v, p, r)
    BY <1>0, <1>1, <1>4, <1>6, <2>1, <2>2, <2>3, <2>4, <2>6 DEF WorksOn, Works
  <2> QED BY <2>7, WorksOnKeeps
(* The block found is handed out.                                          *)
<1>7. CASE /\ page' = [page EXCEPT ![p] = [Allocated(page[p], x, n)
                                           EXCEPT !.mutex = Nobody]]
           /\ live' = live \cup {<<p, x>>}
           /\ thread' = [thread EXCEPT ![t] = Idle]
  <2> DEFINE r == [Allocated(page[p], x, n) EXCEPT !.mutex = Nobody]
  <2>1. Idle.pc = "idle" /\ ThreadFields \subseteq DOMAIN Idle
    BY DEF Idle, ThreadFields
  <2>2. /\ PageFields \subseteq DOMAIN r
        /\ r.allocated = page[p].allocated + 1 /\ r.used = page[p].used
    BY <1>1, AllocatedIs
  <2>3. page' = [page EXCEPT ![p] = r]
    BY <1>7
  <2> HIDE DEF r
  <2>x. PICK y : y = x
    OBVIOUS
  <2> HIDE DEF x
  <2>4. Out(p)' = Out(p) \cup {<<p, y>>}
    BY <1>7, <2>x DEF Out
  <2>5. IsFiniteSet(Out(p))
    BY OutFinite DEF HeapInv
  <2>6. Cardinality(Out(p))' \in {c, c + 1}
    BY <1>3, <2>4, <2>5, FS_AddElement
  <2>7. Cardinality(Out(p))' + 0 <= r.allocated /\ r.allocated \in Int
    BY <1>1, <1>3, <2>2, <2>6
  <2>8. /\ IsFiniteSet(live') /\ \A b \in live : b \in live'
        /\ \A b \in live' : b \in live \/ b[1] = p
    <3>1. live' = live \cup {<<p, y>>} /\ <<p, y>>[1] = p
      BY <1>7, <2>x
    <3>2. IsFiniteSet(live')
      BY <1>4, <3>1, FS_AddElement
    <3> QED BY <3>1, <3>2
  <2>9. WorksOn(t, Idle, p, r)
    BY <1>0, <1>p, <1>7, <2>1, <2>2, <2>3, <2>7, <2>8 DEF WorksOn, Works
  <2> QED BY <2>9, WorksOnKeeps
<1>8. CASE page[p].tree.root = None
  BY <1>p, <1>5, <1>8 DEF Take
<1>9. CASE page[p].tree.root # None
  BY <1>p, <1>6, <1>7, <1>9 DEF Take
<1> QED BY <1>8, <1>9

LEMMA FreeBeginKeeps ==
  ASSUME HeapInv, NEW t \in Threads, FreeBegin(t)
  PROVE  HeapInv'
<1>1. PICK b \in live :
        /\ page[b[1]].mutex = Nobody
        /\ page' = [page EXCEPT ![b[1]].mutex = t]
        /\ live' = live \ {b}
        /\ thread' = [thread EXCEPT ![t] =
             [Idle EXCEPT !.pc = "free", !.page = b[1], !.block = b[2]]]
  BY DEF FreeBegin
<1> DEFINE v == [Idle EXCEPT !.pc = "free", !.page = b[1], !.block = b[2]]
           r == [page[b[1]] EXCEPT !.mutex = t]
<1>2. PICK p : p = b[1]
  OBVIOUS
<1>3. p \in Pages /\ page[p].used
  BY <1>2 DEF HeapInv, Counted
<1>4. PageFields \subseteq DOMAIN page[p] /\ page[p].allocated \in Int
  BY <1>3 DEF HeapInv, HeapFields
<1>5. {"mutex", "used", "allocated"} \subseteq DOMAIN page[p]
  BY <1>4 DEF PageFields
<1>6. /\ DOMAIN r = DOMAIN page[p] /\ r.mutex = t
      /\ r.used = page[p].used /\ r.allocated = page[p].allocated
  BY <1>2, <1>5
<1>7. page' = [page EXCEPT ![p] = r] /\ PageFields \subseteq DOMAIN r
  BY <1>1, <1>2, <1>4, <1>6
<1>8. v.pc = "free" /\ v.page = p /\ ThreadFields \subseteq DOMAIN v
  BY <1>2 DEF Idle, ThreadFields
<1>9. thread' = [thread EXCEPT ![t] = v] /\ thread[t].pc = "idle"
  BY <1>1 DEF FreeBegin, At
<1>10. UNCHANGED <<list, last>>
  BY DEF FreeBegin
<1> HIDE DEF r, v
<1>11. Cardinality(Out(p))' + 1 <= r.allocated
  <2>1. Out(p)' = Out(p) \ {b} /\ b \in Out(p)
    BY <1>1, <1>2 DEF Out
  <2>2. IsFiniteSet(Out(p))
    BY OutFinite DEF HeapInv
  <2>3. PICK a \in Int, c \in Nat, f \in {0, 1} :
          a = page[p].allocated /\ c = Cardinality(Out(p)) /\ f = Freeing(p)
    BY <1>4, OutFinite, FreeingIs DEF HeapInv
  <2>4. c + f <= a
    BY <1>3, <2>3 DEF HeapInv, Counted
  <2>5. Cardinality(Out(p))' = c - 1
    BY <2>1, <2>2, <2>3, FS_RemoveElement
  <2> QED BY <1>6, <2>3, <2>4, <2>5
<1>12. /\ IsFiniteSet(live') /\ \A e \in live' : e \in live \/ e[1] = p
       /\ \A e \in live : e \in live' \/ e[1] = p
  <2>1. IsFiniteSet(live')
    BY <1>1, FS_RemoveElement DEF HeapInv, Counted
  <2> QED BY <1>1, <1>2, <2>1
<1>13. WorksOn(t, v, p, r)
  BY <1>1, <1>2, <1>3, <1>4, <1>6, <1>7, <1>8, <1>9, <1>10, <1>11, <1>12 DEF WorksOn
<1> QED BY <1>13, WorksOnKeeps

(* The merge keeps the counts of blocks handed out, and the lock.          *)
LEMMA DefragmentedIs ==
  ASSUME NEW h, PageFields \subseteq DOMAIN h
  PROVE  /\ DOMAIN Defragmented(h) = DOMAIN h
         /\ Defragmented(h).allocated = h.allocated
         /\ Defragmented(h).used = h.used
<1> DEFINE d == Defragmented(h)
           m == Merged(h.tree)
           k == Len(Linear(Merged(h.tree)))
           e == h.defrag_period - 1
<1>1. {"mutex", "used", "allocated"} \subseteq DOMAIN h
  BY DEF PageFields
<1>2. \/ d = h
      \/ d = [h EXCEPT !.defrag_period = e]
      \/ d = [h EXCEPT !.tree = m, !.free_count = k, !.defrag_period = DefragPeriod]
  BY DEF Defragmented
<1> HIDE DEF d, m, k, e
<1>3. CASE d = h
  BY <1>3 DEF d
<1>4. CASE d = [h EXCEPT !.defrag_period = e]
  <2>1. DOMAIN d = DOMAIN h /\ d.allocated = h.allocated /\ d.used = h.used
    BY <1>1, <1>4
  <2> QED BY <2>1 DEF d
<1>5. CASE d = [h EXCEPT !.tree = m, !.free_count = k, !.defrag_period = DefragPeriod]
  <2>1. DOMAIN d = DOMAIN h /\ d.allocated = h.allocated /\ d.used = h.used
    BY <1>1, <1>5
  <2> QED BY <2>1 DEF d
<1> QED BY <1>2, <1>3, <1>4, <1>5

LEMMA FreeKeeps ==
  ASSUME HeapInv, NEW t \in Threads, Free(t)
  PROVE  HeapInv'
<1>p. PICK p : p = thread[t].page
  OBVIOUS
<1> DEFINE x == thread[t].block
           h == [page[p] EXCEPT !.tree = Insert(@, x), !.free_count = @ + 1,
                                !.free = Freed(page[p], x), !.allocated = @ - 1]
<1>0. /\ UNCHANGED <<list, last, live>> /\ thread[t].pc = "free"
      /\ p \in Pages /\ page[p].used /\ page[p].mutex = t
  BY <1>p DEF Free, At, HeapInv, Working, Works, WorkOn
<1>1. PageFields \subseteq DOMAIN page[p] /\ page[p].allocated \in Int
  BY <1>0 DEF HeapInv, HeapFields
<1>2. {"mutex", "used", "allocated"} \subseteq DOMAIN page[p]
  BY <1>1 DEF PageFields
<1>3. /\ DOMAIN h = DOMAIN page[p] /\ h.allocated = page[p].allocated - 1
      /\ h.used = page[p].used /\ h.mutex = page[p].mutex
  <2> DEFINE tree == Insert(page[p].tree, x)
             fc == page[p].free_count + 1
             fr == Freed(page[p], x)
  <2>1. h = [page[p] EXCEPT !.tree = tree, !.free_count = fc, !.free = fr,
                            !.allocated = @ - 1]
    OBVIOUS
  <2> HIDE DEF h, tree, fc, fr
  <2> QED BY <1>2, <2>1
<1>4. \/ /\ h.allocated = 0 /\ page' = [page EXCEPT ![p] = h] /\ Goes(t, "drop")
      \/ /\ page' = [page EXCEPT ![p] = [IF h.allocated = 0 THEN h ELSE Defragmented(h)
                                         EXCEPT !.mutex = Nobody]]
         /\ thread' = [thread EXCEPT ![t] = Idle]
  BY <1>p DEF Free
<1> HIDE DEF h
<1>5. Cardinality(Out(p))' + 0 <= h.allocated /\ h.allocated \in Int
  <2>1. Out(p)' = Out(p)
    BY <1>0 DEF Out
  <2>2. PICK a \in Int, c \in Nat, f \in {0, 1} :
          a = page[p].allocated /\ c = Cardinality(Out(p)) /\ f = Freeing(p)
    BY <1>1, OutFinite, FreeingIs DEF HeapInv
  <2>3. c + f <= a
    BY <1>0, <2>2 DEF HeapInv, Counted
  <2>4. f = 1
    BY <1>0, <1>p, <2>2 DEF Freeing
  <2> QED BY <1>3, <2>1, <2>2, <2>3, <2>4
<1>6. IsFiniteSet(live) /\ PageFields \subseteq DOMAIN h
  BY <1>1, <1>3 DEF HeapInv, Counted
<1>7. CASE h.allocated = 0 /\ page' = [page EXCEPT ![p] = h] /\ Goes(t, "drop")
  <2> DEFINE v == [thread[t] EXCEPT !.pc = "drop"]
  <2>1. v.pc = "drop" /\ v.page = p /\ ThreadFields \subseteq DOMAIN v
    BY <1>p, GoesIs
  <2>2. thread' = [thread EXCEPT ![t] = v]
    BY <1>7 DEF Goes
  <2> HIDE DEF v
  <2>3. WorksOn(t, v, p, h)
    BY <1>0, <1>p, <1>3, <1>5, <1>6, <1>7, <2>1, <2>2 DEF WorksOn
  <2> QED BY <2>3, WorksOnKeeps
<1>8. CASE /\ page' = [page EXCEPT ![p] = [IF h.allocated = 0 THEN h ELSE Defragmented(h)
                                           EXCEPT !.mutex = Nobody]]
           /\ thread' = [thread EXCEPT ![t] = Idle]
  <2> DEFINE g == IF h.allocated = 0 THEN h ELSE Defragmented(h)
             r == [g EXCEPT !.mutex = Nobody]
  <2>1. DOMAIN g = DOMAIN h /\ g.allocated = h.allocated /\ g.used = h.used
    BY <1>6, DefragmentedIs
  <2>2. Idle.pc = "idle" /\ ThreadFields \subseteq DOMAIN Idle
    BY DEF Idle, ThreadFields
  <2>3. page' = [page EXCEPT ![p] = r]
    BY <1>8
  <2> HIDE DEF g
  <2>4. DOMAIN r = DOMAIN h /\ r.allocated = h.allocated /\ r.used = h.used
    BY <1>2, <1>3, <2>1
  <2> HIDE DEF r
  <2>5. WorksOn(t, Idle, p, r)
    BY <1>0, <1>p, <1>3, <1>5, <1>6, <1>8, <2>2, <2>3, <2>4 DEF WorksOn, Works
  <2> QED BY <2>5, WorksOnKeeps
<1> QED BY <1>4, <1>7, <1>8

LEMMA UnlockFreedKeeps ==
  ASSUME HeapInv, NEW t \in Threads, UnlockFreed(t)
  PROVE  HeapInv'
<1>1. Idle.pc = "idle" /\ ThreadFields \subseteq DOMAIN Idle
  BY DEF Idle, ThreadFields
<1>2. Leaves(t, Idle)
  BY <1>1 DEF UnlockFreed, Leaves, Works
<1> QED BY <1>2, LeavesKeeps

(* A new page enters the list: nothing was in it, and nobody worked on it. *)
LEMMA NewPageKeeps ==
  ASSUME HeapInv, NEW t \in Threads, NewPage(t)
  PROVE  HeapInv'
<1>1. UNCHANGED live /\ thread[t].pc = "new"
  BY DEF NewPage, At
<1>2. CASE UNCHANGED <<page, list, last, thread>>
  BY <1>1, <1>2, FaultKeeps
<1>3. ASSUME NEW p \in Pages, ~page[p].used,
             page' = [page EXCEPT ![p] = FreshPage],
             list' = <<p>> \o list, last' = p,
             thread' = [thread EXCEPT ![t].pc = "lock", ![t].page = p]
      PROVE  HeapInv'
  <2> DEFINE v == [thread[t] EXCEPT !.pc = "lock", !.page = p]
             r == FreshPage
  <2>1. {"pc", "page"} \subseteq DOMAIN thread[t]
    BY DEF HeapInv, HeapFields, ThreadFields
  <2>2. v.pc = "lock" /\ v.page = p /\ DOMAIN v = DOMAIN thread[t]
    BY <2>1
  <2>3. thread' = [thread EXCEPT ![t] = v]
    BY <1>3
  <2>4. /\ DOMAIN thread' = Threads /\ thread'[t] = v
        /\ \A u \in Threads : u # t => thread'[u] = thread[u]
    BY <2>3 DEF HeapInv, HeapFields
  <2>5. r.used = TRUE /\ r.allocated = 0 /\ PageFields \subseteq DOMAIN r
    BY DEF FreshPage, Unused, PageFields
  <2>6. /\ DOMAIN page' = Pages /\ page'[p] = r
        /\ \A q \in Pages : q # p => page'[q] = page[q]
    BY <1>3 DEF HeapInv, HeapFields
  <2> HIDE DEF v, r
  <2>7. HeapFields'
    <3>1. \A u \in Threads : ThreadFields \subseteq DOMAIN thread'[u]
      BY <2>2, <2>4 DEF HeapInv, HeapFields
    <3>2. \A q \in Pages : PageFields \subseteq DOMAIN page'[q] /\ page'[q].allocated \in Int
      BY <2>5, <2>6 DEF HeapInv, HeapFields
    <3> QED BY <2>4, <2>6, <3>1, <3>2 DEF HeapFields
  <2>8. Listed'
    <3>1. list \in Seq(Pages) /\ NoRepeat(list) /\ ~Holds1(list, p)
      BY <1>3 DEF HeapInv, Listed
    <3>2. /\ list' \in Seq(Pages) /\ NoRepeat(list')
          /\ \A q : Holds1(list', q) <=> Holds1(list, q) \/ q = p
      BY <1>3, <3>1, WithPage
    <3>3. \A q \in Pages : page'[q].used <=> Holds1(list', q)
      BY <2>5, <2>6, <3>2 DEF HeapInv, Listed
    <3>4. last' \in Pages /\ page'[last'].used
      BY <1>3, <2>5, <2>6
    <3> QED BY <3>2, <3>3, <3>4 DEF Listed
  <2>9. \A u \in Threads : Works(thread[u]) => thread[u].page # p
    BY <1>3 DEF HeapInv, Working, WorkOn
  <2>10. Working'
    <3> SUFFICES ASSUME NEW u \in Threads
                 PROVE  /\ thread'[u].pc = "lock" => thread'[u].page \in Pages
                        /\ Works(thread'[u]) => /\ thread'[u].page \in Pages
                                                     /\ WorkOn(page'[thread'[u].page], u)
      BY DEF Working
    <3>1. CASE u = t
      BY <2>2, <2>4, <3>1 DEF Works
    <3>2. CASE u # t
      BY <2>4, <2>6, <2>9, <3>2 DEF HeapInv, Working
    <3> QED BY <3>1, <3>2
  <2>11. Counted'
    <3>1. \A b \in live : b[1] \in Pages /\ b[1] # p /\ page[b[1]].used
      BY <1>3 DEF HeapInv, Counted
    <3>2. \A q : Out(q)' = Out(q)
      BY <1>1 DEF Out
    <3>3. Cardinality(Out(p))' = 0
      <4>1. Out(p) = {}
        BY <3>1 DEF Out
      <4> QED BY <3>2, <4>1, FS_EmptySet
    <3>4. Freeing(p)' = 0
      <4>1. \A u \in Threads : ~(thread'[u].pc = "free" /\ thread'[u].page = p)
        BY <2>2, <2>4, <2>9 DEF Works
      <4> QED BY <4>1 DEF Freeing
    <3>5. \A q \in Pages : Freeing(q)' <= Freeing(q)
      BY <2>2, <2>4 DEF Freeing
    <3>6. ASSUME NEW q \in Pages
          PROVE  Cardinality(Out(q))' + Freeing(q)' <= page'[q].allocated
      <4>1. CASE q = p
        BY <2>5, <2>6, <3>3, <3>4, <4>1
      <4>2. CASE q # p
        <5>1. PICK a \in Int : a = page[q].allocated /\ page'[q].allocated = a
          BY <2>6, <4>2 DEF HeapInv, HeapFields
        <5>2. PICK c \in Nat, f \in {0, 1}, g \in {0, 1} :
                c = Cardinality(Out(q)) /\ f = Freeing(q) /\ g = Freeing(q)'
          BY OutFinite, FreeingIs DEF HeapInv
        <5>3. c + f <= a /\ g <= f /\ Cardinality(Out(q))' = c
          BY <3>2, <3>5, <5>1, <5>2 DEF HeapInv, Counted
        <5> QED BY <5>1, <5>2, <5>3
      <4> QED BY <4>1, <4>2
    <3>7. ASSUME NEW u \in Threads, thread'[u].pc = "drop"
          PROVE  page'[thread'[u].page].allocated = 0
      <4>1. u # t /\ thread'[u] = thread[u]
        BY <2>2, <2>4, <3>7
      <4>2. thread[u].page \in Pages /\ thread[u].page # p
        BY <2>9, <3>7, <4>1 DEF HeapInv, Working, Works
      <4> QED BY <2>6, <3>7, <4>1, <4>2 DEF HeapInv, Counted
    <3>8. IsFiniteSet(live') /\ \A b \in live' : b[1] \in Pages /\ page'[b[1]].used
      BY <1>1, <2>6, <3>1 DEF HeapInv, Counted
    <3> QED BY <3>6, <3>7, <3>8 DEF Counted
  <2> QED BY <2>7, <2>8, <2>10, <2>11 DEF HeapInv
<1> QED BY <1>2, <1>3 DEF NewPage

(* A page without blocks leaves the list; the thread that drops it holds   *)
(* its mutex, so that nobody else works on it.                             *)
LEMMA DropPageKeeps ==
  ASSUME HeapInv, NEW t \in Threads, DropPage(t)
  PROVE  HeapInv'
<1>p. PICK p : p = thread[t].page
  OBVIOUS
<1> DEFINE v == [thread[t] EXCEPT !.pc = "unlock"]
           k == PlaceOf(p)
<1>1. /\ thread[t].pc = "drop" /\ UNCHANGED live
      /\ list' = RemoveAt(list, k) /\ last' = LastWithout(p)
      /\ page' = [page EXCEPT ![p] = Unused]
      /\ thread' = [thread EXCEPT ![t] = v]
  BY <1>p DEF DropPage, At, Goes
<1>2. p \in Pages /\ page[p].used /\ page[p].mutex = t /\ page[p].allocated = 0
  BY <1>p, <1>1 DEF HeapInv, Working, Works, WorkOn, Counted
<1>3. v.pc = "unlock" /\ ThreadFields \subseteq DOMAIN v
  BY GoesIs
<1> HIDE DEF v
<1>4. /\ DOMAIN thread' = Threads /\ thread'[t] = v
      /\ \A u \in Threads : u # t => thread'[u] = thread[u]
  BY <1>1 DEF HeapInv, HeapFields
<1>5. /\ Unused.used = FALSE /\ Unused.allocated = 0
      /\ PageFields \subseteq DOMAIN Unused
  BY DEF Unused, PageFields
<1>6. /\ DOMAIN page' = Pages /\ page'[p] = Unused
      /\ \A q \in Pages : q # p => page'[q] = page[q]
  BY <1>1, <1>2 DEF HeapInv, HeapFields
<1>7. \A u \in Threads : u # t /\ Works(thread[u]) => thread[u].page # p
  BY <1>2 DEF HeapInv, Working, WorkOn
<1>8. HeapFields'
  <2>1. \A u \in Threads : ThreadFields \subseteq DOMAIN thread'[u]
    BY <1>3, <1>4 DEF HeapInv, HeapFields
  <2>2. \A q \in Pages : PageFields \subseteq DOMAIN page'[q] /\ page'[q].allocated \in Int
    BY <1>5, <1>6 DEF HeapInv, HeapFields
  <2> QED BY <1>4, <1>6, <2>1, <2>2 DEF HeapFields
<1>9. Listed'
  <2>1. list \in Seq(Pages) /\ NoRepeat(list)
    BY DEF HeapInv, Listed
  <2>2. k \in DOMAIN list /\ list[k] = p
    <3>1. Holds1(list, p)
      BY <1>2 DEF HeapInv, Listed
    <3> QED BY <3>1 DEF Holds1, PlaceOf
  <2> HIDE DEF k
  <2>3. /\ list' \in Seq(Pages) /\ NoRepeat(list')
        /\ \A q : Holds1(list', q) <=> Holds1(list, q) /\ q # p
    BY <1>1, <2>1, <2>2, WithoutPage
  <2>4. \A q \in Pages : page'[q].used <=> Holds1(list', q)
    BY <1>5, <1>6, <2>3 DEF HeapInv, Listed
  <2>5. last' # Nobody => last' \in Pages /\ page'[last'].used
    BY <1>1, <1>6 DEF LastWithout, HeapInv, Listed
  <2> QED BY <2>3, <2>4, <2>5 DEF Listed
<1>10. Working'
  <2> SUFFICES ASSUME NEW u \in Threads
               PROVE  /\ thread'[u].pc = "lock" => thread'[u].page \in Pages
                      /\ Works(thread'[u]) => /\ thread'[u].page \in Pages
                                                   /\ WorkOn(page'[thread'[u].page], u)
    BY DEF Working
  <2>1. CASE u = t
    BY <1>3, <1>4, <2>1 DEF Works
  <2>2. CASE u # t
    BY <1>4, <1>6, <1>7, <2>2 DEF HeapInv, Working
  <2> QED BY <2>1, <2>2
<1>11. Counted'
  <2>1. \A q : Out(q)' = Out(q)
    BY <1>1 DEF Out
  <2>2. Out(p) = {}
    <3>1. PICK c \in Nat, f \in {0, 1} : c = Cardinality(Out(p)) /\ f = Freeing(p)
      BY OutFinite, FreeingIs DEF HeapInv
    <3>2. c + f <= 0
      BY <1>2, <3>1 DEF HeapInv, Counted
    <3>3. Cardinality(Out(p)) = 0 /\ IsFiniteSet(Out(p))
      BY <3>1, <3>2, OutFinite DEF HeapInv
    <3> QED BY <3>3, FS_EmptySet
  <2>3. \A b \in live : b[1] \in Pages /\ b[1] # p /\ page[b[1]].used
    BY <2>2 DEF HeapInv, Counted, Out
  <2>4. Freeing(p)' = 0
    <3>1. \A u \in Threads : ~(thread'[u].pc = "free" /\ thread'[u].page = p)
      BY <1>3, <1>4, <1>7 DEF Works
    <3> QED BY <3>1 DEF Freeing
  <2>5. \A q \in Pages : Freeing(q)' <= Freeing(q)
    BY <1>3, <1>4 DEF Freeing
  <2>6. ASSUME NEW q \in Pages
        PROVE  Cardinality(Out(q))' + Freeing(q)' <= page'[q].allocated
    <3>1. CASE q = p
      <4>1. Cardinality(Out(p))' = 0
        BY <2>1, <2>2, FS_EmptySet
      <4> QED BY <1>5, <1>6, <2>4, <3>1, <4>1
    <3>2. CASE q # p
      <4>1. PICK a \in Int : a = page[q].allocated /\ page'[q].allocated = a
        BY <1>6, <3>2 DEF HeapInv, HeapFields
      <4>2. PICK c \in Nat, f \in {0, 1}, g \in {0, 1} :
              c = Cardinality(Out(q)) /\ f = Freeing(q) /\ g = Freeing(q)'
        BY OutFinite, FreeingIs DEF HeapInv
      <4>3. c + f <= a /\ g <= f /\ Cardinality(Out(q))' = c
        BY <2>1, <2>5, <4>1, <4>2 DEF HeapInv, Counted
      <4> QED BY <4>1, <4>2, <4>3
    <3> QED BY <3>1, <3>2
  <2>7. ASSUME NEW u \in Threads, thread'[u].pc = "drop"
        PROVE  page'[thread'[u].page].allocated = 0
    <3>1. u # t /\ thread'[u] = thread[u]
      BY <1>3, <1>4, <2>7
    <3>2. thread[u].page \in Pages /\ thread[u].page # p
      BY <1>7, <2>7, <3>1 DEF HeapInv, Working, Works
    <3> QED BY <1>6, <2>7, <3>1, <3>2 DEF HeapInv, Counted
  <2>8. IsFiniteSet(live') /\ \A b \in live' : b[1] \in Pages /\ page'[b[1]].used
    BY <1>1, <1>6, <2>3 DEF HeapInv, Counted
  <2> QED BY <2>6, <2>7, <2>8 DEF Counted
<1> QED BY <1>8, <1>9, <1>10, <1>11 DEF HeapInv

(* The heap begins without pages.                                          *)
LEMMA HeapInitInv == Init => HeapInv
<1> SUFFICES ASSUME Init PROVE HeapInv
  OBVIOUS
<1>1. /\ Unused.used = FALSE /\ Unused.allocated = 0
      /\ PageFields \subseteq DOMAIN Unused
  BY DEF Unused, PageFields
<1>2. Idle.pc = "idle" /\ ThreadFields \subseteq DOMAIN Idle
  BY DEF Idle, ThreadFields
<1>3. /\ page = [p \in Pages |-> Unused] /\ list = <<>> /\ last = Nobody
      /\ live = {} /\ thread = [t \in Threads |-> Idle]
  BY DEF Init
<1>4. HeapFields
  BY <1>1, <1>2, <1>3 DEF HeapFields
<1>5. Listed
  BY <1>1, <1>3 DEF Listed, NoRepeat, Holds1
<1>6. Working
  BY <1>2, <1>3 DEF Working, Works
<1>7. Counted
  <2>1. \A p \in Pages : Cardinality(Out(p)) = 0 /\ Freeing(p) = 0
    BY <1>2, <1>3, FS_EmptySet DEF Out, Freeing
  <2> QED BY <1>1, <1>2, <1>3, <2>1, FS_EmptySet DEF Counted
<1> QED BY <1>4, <1>5, <1>6, <1>7 DEF HeapInv

(* Every step keeps HeapInv.                                               *)
LEMMA HeapStepInv ==
  ASSUME HeapInv, [Next]_vars
  PROVE  HeapInv'
<1>1. ASSUME NEW t \in Threads, Step(t)
      PROVE  HeapInv'
  BY <1>1, AllocBeginKeeps, ScanPageKeeps, ScanAgainKeeps, TryAddKeeps, AwaitPageKeeps,
     NewPageKeeps, LockPageKeeps, TakeKeeps, FreeBeginKeeps, FreeKeeps, DropPageKeeps,
     UnlockFreedKeeps DEF Step
<1>2. CASE UNCHANGED vars
  BY <1>2, FaultKeeps DEF vars
<1> QED BY <1>1, <1>2 DEF Next, Stopped

(* It implies ListedWhileUsed.                                             *)
LEMMA HeapInvListed == HeapInv => ListedWhileUsed
BY DEF HeapInv, Listed, Working, Works, WorkOn, Counted, NoRepeat, Holds1, ListedWhileUsed

(* heap_page_mutex, heap_list_lock and the pages' mutexes: a page is in    *)
(* the list once, just as long as it is a heap page; a block handed out,   *)
(* last_heap_page, and a thread that takes, frees or drops are on such a   *)
(* page, and the thread has locked it.                                     *)
THEOREM PagesListed == Spec => []ListedWhileUsed
<1>1. HeapInv /\ [Next]_vars => HeapInv'
  BY HeapStepInv
<1> QED BY <1>1, HeapInitInv, HeapInvListed, PTL DEF Spec
-----------------------------------------------------------------------------
(***************************************************************************)
(* The blocks of the pages.                                                *)
(***************************************************************************)
(* The values of the fields of a page and of a thread.                     *)
PageRecord == [tree : TreeType, free : Nat, allocated : Nat, free_count : Nat,
               defrag_period : 0 .. DefragPeriod, mutex : Threads \cup {Nobody}, used : BOOLEAN]
Places == {"idle", "scan", "again", "add", "await", "new", "lock", "take", "free", "drop", "unlock"}
ThreadRecord == [pc : Places, units : Requests \cup {0}, page : Pages \cup {Nobody},
                 block : Offsets \cup {None}]

(* The blocks F of the tree and the blocks H in use tile the page, and it  *)
(* counts them.                                                            *)
Blocks(r, F, H) ==
  /\ IsTree(r.tree, F) /\ Tiled(Sz(r.tree), F, H)
  /\ r.free = Cardinality(Points(Sz(r.tree), F))
  /\ r.free_count = Cardinality(F) /\ r.allocated = Cardinality(H)

(* A page that is used, and the blocks of it that are in use.              *)
HasBlocks(r, H) == r.used /\ \E F : Blocks(r, F, H)

(* What is handed out, and what a thread is about to free.                 *)
HandedOf(lv, th, p) ==
  {b[2] : b \in {c \in lv : c[1] = p}}
  \cup {th[t].block : t \in {u \in Threads : th[u].pc = "free" /\ th[u].page = p}}

(* Where a thread is in mp_heap_alloc, and where in mp_heap_free.          *)
Allocates(v) == v.pc \in {"scan", "again", "add", "await", "new", "lock", "take"}
Frees(v) == v.pc = "free"

(* A thread that allocates has a request; the block it frees is no longer  *)
(* handed out.                                                             *)
ThreadOK(v, lv) ==
  /\ v \in ThreadRecord /\ (Allocates(v) => v.units \in Requests)
  /\ Frees(v) => v.block \in Offsets /\ <<v.page, v.block>> \notin lv

(* AllocBegin is bounded by MaxLive: blocks handed out and operations      *)
(* under way together stay within it.                                      *)
Busy(th) == {u \in Threads : th[u].pc # "idle"}
Bounded(lv, th) ==
  /\ IsFiniteSet(lv) /\ IsFiniteSet(Busy(th))
  /\ Cardinality(lv) + Cardinality(Busy(th)) <= MaxLive

(* The inductive invariant: with HeapInv, it says that the blocks tile     *)
(* their page and that its tree is a search tree.                          *)
BlockInv ==
  /\ page \in [Pages -> PageRecord] /\ DOMAIN thread = Threads
  /\ mutex \in Threads \cup {Nobody} /\ live \subseteq Pages \X Offsets
  /\ state \in {"running", "aborted"} \cup Faults
  /\ \A t \in Threads : ThreadOK(thread[t], live)
  /\ Bounded(live, thread)
  /\ \A p \in Pages : HasBlocks(page[p], HandedOf(live, thread, p)) \/ page[p] = Unused
-----------------------------------------------------------------------------
(* A page outside the heap.                                                *)
LEMMA UnusedIs ==
  /\ Unused \in PageRecord /\ ~Unused.used
  /\ NoTree \in TreeType /\ NoTree.root = None
  /\ \A x \in Offsets : NoTree.node[x] = [size |-> 0, left |-> x, right |-> x]
<1>1. \A x \in Offsets : NoTree.node[x] = [size |-> 0, left |-> x, right |-> x]
                         /\ [size |-> 0, left |-> x, right |-> x] \in Header
  BY TreeAssumption DEF NoTree, Header
<1>2. NoTree.root = None /\ NoTree.node \in [Offsets -> Header]
  BY <1>1 DEF NoTree
<1>3. NoTree \in TreeType
  BY <1>1 DEF NoTree, TreeType
<1>4. 0 \in 0 .. DefragPeriod
  BY HeapAssumption
<1> HIDE DEF NoTree
<1>5. Unused \in PageRecord /\ ~Unused.used
  BY <1>3, <1>4 DEF Unused, PageRecord
<1> QED BY <1>1, <1>2, <1>3, <1>5

(* A thread outside the heap.                                              *)
LEMMA IdleIs == Idle \in ThreadRecord /\ Idle.pc = "idle" /\ \A lv : ThreadOK(Idle, lv)
<1>1. Idle = [pc |-> "idle", units |-> 0, page |-> Nobody, block |-> None]
  BY DEF Idle
<1>2. Idle \in ThreadRecord
  BY <1>1 DEF ThreadRecord, Places
<1>3. Idle.pc = "idle"
  BY <1>1
<1> QED BY <1>2, <1>3 DEF ThreadOK, Allocates, Frees

(* A tree without nodes.                                                   *)
LEMMA EmptyTree ==
  ASSUME NEW g \in TreeType, g.root = None, \A x \in Offsets, r \in Sides : ~HasChild(g, x, r)
  PROVE  IsTree(g, {})
<1>1. PICK q, k : q = [y \in Offsets |-> None] /\ k = [y \in Offsets |-> {}]
  OBVIOUS
<1>2. Tree(g, {}, q, k)
  BY <1>1 DEF Tree
<1> QED BY <1>2 DEF IsTree

(* A page that was just added is one free block.                           *)
LEMMA FreshBlocks == FreshPage \in PageRecord /\ HasBlocks(FreshPage, {}) /\ FreshPage.used
<1>1. PICK g : g = FreshPage.tree
  OBVIOUS
<1>2. /\ FreshPage = [tree |-> g, free |-> Units, allocated |-> 0, free_count |-> 1,
                      defrag_period |-> 1, mutex |-> Nobody, used |-> TRUE]
      /\ g = [NoTree EXCEPT !.root = 0, !.node[0].size = Units]
  <2>1. PICK n : n = NoTree
    OBVIOUS
  <2>2. PICK m : m = [n EXCEPT !.root = 0, !.node[0].size = Units]
    OBVIOUS
  <2>3. PICK u : u = [tree |-> n, free |-> 0, allocated |-> 0, free_count |-> 0,
                      defrag_period |-> 0, mutex |-> Nobody, used |-> FALSE]
    OBVIOUS
  <2>4. Unused = u
    BY <2>1, <2>3 DEF Unused
  <2>5. FreshPage = [u EXCEPT !.tree.root = 0, !.tree.node[0].size = Units, !.free = Units,
                              !.free_count = 1, !.defrag_period = 1, !.used = TRUE]
    BY <2>4 DEF FreshPage
  <2>6. FreshPage = [tree |-> m, free |-> Units, allocated |-> 0, free_count |-> 1,
                     defrag_period |-> 1, mutex |-> Nobody, used |-> TRUE]
    BY <2>2, <2>3, <2>5
  <2>7. g = m
    BY <1>1, <2>6
  <2> QED BY <2>1, <2>2, <2>6, <2>7
<1>3. 0 \in Offsets
  BY TreeAssumption DEF Offsets
<1>4. PICK h \in [Offsets -> Header] : h = NoTree.node
  BY UnusedIs DEF TreeType
<1>5. h[0] = [size |-> 0, left |-> 0, right |-> 0] /\ \A x \in Offsets : h[x] = [size |-> 0, left |-> x, right |-> x]
  BY <1>3, <1>4, UnusedIs
<1>6. NoTree = [root |-> None, node |-> h]
  BY <1>4 DEF NoTree
<1>7. /\ g.root = 0
      /\ \A x \in Offsets : g.node[x] = [size |-> IF x = 0 THEN Units ELSE 0, left |-> x, right |-> x]
      /\ g.node = [x \in Offsets |-> g.node[x]] /\ g = [root |-> 0, node |-> g.node]
  <2>1. g = [root |-> 0, node |-> [h EXCEPT ![0].size = Units]]
    BY <1>2, <1>6
  <2>2. PICK k : k = [h EXCEPT ![0].size = Units]
    OBVIOUS
  <2>3. k = [x \in Offsets |-> k[x]] /\ k[0] = [h[0] EXCEPT !.size = Units]
        /\ \A x \in Offsets : x # 0 => k[x] = h[x]
    BY <1>3, <1>4, <2>2
  <2>4. k[0] = [size |-> Units, left |-> 0, right |-> 0]
    BY <1>5, <2>3
  <2>5. \A x \in Offsets : k[x] = [size |-> IF x = 0 THEN Units ELSE 0, left |-> x, right |-> x]
    BY <1>5, <2>3, <2>4
  <2> QED BY <2>1, <2>2, <2>3, <2>5
<1>8. \A x \in Offsets : g.node[x] \in Header /\ Child(g, x, "left") = x /\ Child(g, x, "right") = x
                         /\ SizeAt(g, x) = IF x = 0 THEN Units ELSE 0
  <2> TAKE x \in Offsets
  <2>1. PICK z : z = IF x = 0 THEN Units ELSE 0
    OBVIOUS
  <2>2. z \in 0 .. Units /\ g.node[x] = [size |-> z, left |-> x, right |-> x]
    <3>1. g.node[x] = [size |-> IF x = 0 THEN Units ELSE 0, left |-> x, right |-> x]
      BY <1>7
    <3>2. z \in 0 .. Units
      BY <2>1, TreeAssumption
    <3> QED BY <2>1, <3>1, <3>2
  <2> QED BY <2>1, <2>2 DEF Header, Child, SizeAt
<1>9. g \in TreeType
  BY <1>3, <1>7, <1>8 DEF TreeType
<1>10. FreshPage \in PageRecord /\ FreshPage.used
  BY <1>2, <1>9, HeapAssumption, TreeAssumption DEF PageRecord
<1>11. IsTree(g, {0})
  <2>1. PICK q, k : q = [y \in Offsets |-> None] /\ k = [y \in Offsets |-> {0}]
    OBVIOUS
  <2>2. \A x \in Offsets, r \in Sides : ~HasChild(g, x, r) /\ Kids(g, k, x, r) = {}
    BY <1>8 DEF HasChild, Sides, Kids
  <2>3. NodeOK(g, {0}, q, k, 0)
    BY <1>3, <2>1, <2>2 DEF NodeOK, Sides
  <2>4. 0 # None
    BY DEF None
  <2>5. Tree(g, {0}, q, k)
    BY <1>3, <1>7, <1>9, <2>1, <2>2, <2>3, <2>4 DEF Tree
  <2> QED BY <2>5 DEF IsTree
<1>12. \A x \in Offsets : Sz(g)[x] = IF x = 0 THEN Units ELSE 0
  BY <1>8 DEF Sz
<1>13. Tiled(Sz(g), {0}, {})
  <2>1. Sz(g) \in [Offsets -> 0 .. Units]
    <3>1. \A x \in Offsets : SizeAt(g, x) \in 0 .. Units
      BY <1>9, ChildType
    <3> QED BY <3>1 DEF Sz
  <2>2. Sz(g)[0] = Units /\ 0 + Units = Units /\ Units >= 1
    BY <1>3, <1>12, TreeAssumption
  <2> QED BY <1>3, <2>1, <2>2 DEF Tiled
<1>14. Points(Sz(g), {0}) = Offsets /\ Cardinality(Points(Sz(g), {0})) = Units
  <2>1. Sz(g)[0] = Units /\ 0 + Units - 1 = Units - 1
    BY <1>3, <1>12, TreeAssumption
  <2>2. Points(Sz(g), {0}) = 0 .. 0 + Units - 1
    BY <2>1 DEF Points
  <2>3. Points(Sz(g), {0}) = Offsets
    BY <2>1, <2>2 DEF Offsets
  <2> QED BY <2>3, OffsetsFinite
<1>15. Cardinality({0}) = 1 /\ Cardinality({}) = 0
  BY FS_EmptySet, FS_Singleton
<1> QED BY <1>2, <1>10, <1>11, <1>13, <1>14, <1>15 DEF Blocks, HasBlocks
-----------------------------------------------------------------------------
(***************************************************************************)
(* A block that is cut, and what is left of it.                            *)
(***************************************************************************)
(* Trees with the same sizes.                                              *)
LEMMA SameSz == ASSUME NEW n, NEW t, SameSizes(n, t) PROVE Sz(n) = Sz(t)
BY DEF Sz, SameSizes

(* The type and the root of a tree.                                        *)
LEMMA TreeIs == ASSUME NEW t, NEW F, IsTree(t, F) PROVE t \in TreeType /\ (t.root = None => F = {})
BY DEF IsTree, Tree

(* The headers of a block that is cut in two.                              *)
CutAt(t, x, n) == [t EXCEPT !.node[x].size = n, !.node[x + n].size = t.node[x].size - n]
LEMMA CutAtIs ==
  ASSUME NEW t \in TreeType, NEW x \in Offsets, NEW n \in 1 .. Units, n < SizeAt(t, x),
         x + n \in Offsets
  PROVE  /\ CutAt(t, x, n) \in TreeType /\ CutAt(t, x, n).root = t.root
         /\ SizeAt(CutAt(t, x, n), x) = n /\ SizeAt(CutAt(t, x, n), x + n) = SizeAt(t, x) - n
         /\ \A y \in Offsets : y # x /\ y # x + n => SizeAt(CutAt(t, x, n), y) = SizeAt(t, y)
         /\ \A y \in Offsets, r \in Sides : Child(CutAt(t, x, n), y, r) = Child(t, y, r)
<1>1. PICK y : y = x + n
  OBVIOUS
<1>2. PICK m : m = SizeAt(t, x) - n
  OBVIOUS
<1>3. m \in 0 .. Units /\ n \in 0 .. Units /\ y \in Offsets /\ x # y
  <2>1. SizeAt(t, x) \in 0 .. Units
    BY ChildType
  <2> QED BY <1>1, <1>2, <2>1, OffsetsAre, TreeAssumption
<1>4. PICK c : c = CutAt(t, x, n)
  OBVIOUS
<1>5. c = [t EXCEPT !.node[x].size = n, !.node[y].size = m]
  BY <1>1, <1>2, <1>4 DEF CutAt, SizeAt
<1>6. PICK h \in [Offsets -> Header] : h = t.node
  BY DEF TreeType
<1>7. PICK g : g = [h EXCEPT ![x].size = n, ![y].size = m]
  OBVIOUS
<1>8. c = [t EXCEPT !.node = g]
  <2>1. c.node = g
    BY <1>5, <1>6, <1>7 DEF TreeType
  <2>2. c.root = t.root
    BY <1>5 DEF TreeType
  <2>3. DOMAIN c = DOMAIN t
    BY <1>5
  <2> QED BY <1>5, <1>6, <1>7 DEF TreeType
<1>9. /\ g[x] = [h[x] EXCEPT !.size = n] /\ g[y] = [h[y] EXCEPT !.size = m]
      /\ g = [z \in Offsets |-> g[z]] /\ \A z \in Offsets : z # x /\ z # y => g[z] = h[z]
  BY <1>3, <1>6, <1>7
<1>10. \A z \in Offsets : g[z] \in Header /\ g[z].left = h[z].left /\ g[z].right = h[z].right
  <2> TAKE z \in Offsets
  <2>1. h[z] \in Header
    BY <1>6
  <2>2. CASE z = x
    BY <1>3, <1>9, <2>1, <2>2 DEF Header
  <2>3. CASE z = y
    BY <1>3, <1>9, <2>1, <2>3 DEF Header
  <2>4. CASE z # x /\ z # y
    BY <1>9, <2>1, <2>4
  <2> QED BY <2>2, <2>3, <2>4
<1>11. g[x].size = n /\ g[y].size = m
  <2>1. h[x] \in Header /\ h[y] \in Header
    BY <1>3, <1>6
  <2> QED BY <1>9, <2>1 DEF Header
<1>12. c.node = g /\ c.root = t.root /\ c \in TreeType
  <2>1. g \in [Offsets -> Header]
    BY <1>9, <1>10
  <2> QED BY <1>8, <2>1 DEF TreeType
<1>13. \A z \in Offsets, r \in Sides : Child(c, z, r) = Child(t, z, r)
  BY <1>6, <1>10, <1>12 DEF Child
<1>14. SizeAt(c, x) = n /\ SizeAt(c, y) = m /\ \A z \in Offsets : z # x /\ z # y => SizeAt(c, z) = SizeAt(t, z)
  BY <1>6, <1>9, <1>11, <1>12 DEF SizeAt
<1> QED BY <1>1, <1>2, <1>4, <1>12, <1>13, <1>14

(* What is left of a block that is cut goes back into the tree.            *)
LEMMA Trimmed ==
  ASSUME NEW t, NEW F, NEW H, NEW x \in F, IsTree(t, F \ {x}), Tiled(Sz(t), F, H),
         NEW n \in 1 .. Units, n < SizeAt(t, x), NEW g, g = Insert(CutAt(t, x, n), x + n)
  PROVE  /\ x + n \in Offsets /\ x + n \notin F \cup H
         /\ IsTree(g, (F \ {x}) \cup {x + n})
         /\ Tiled(Sz(g), (F \ {x}) \cup {x + n}, H \cup {x})
         /\ Cardinality(Points(Sz(g), (F \ {x}) \cup {x + n})) = Cardinality(Points(Sz(t), F)) - n
<1>z. PICK z : z = Sz(t)
  OBVIOUS
<1>1. /\ Tiled(z, F, H) /\ x \in Offsets /\ x \in Nat /\ z[x] = SizeAt(t, x) /\ z[x] \in Nat
      /\ x + z[x] <= Units /\ n \in Nat /\ 1 <= n /\ n < z[x] /\ t \in TreeType
  <2>1. x \in Offsets /\ x \in Nat /\ z[x] \in Nat /\ x + z[x] <= Units
    BY <1>z, TiledFacts
  <2>2. z[x] = SizeAt(t, x)
    BY <1>z, <2>1 DEF Sz
  <2> QED BY <1>z, <2>1, <2>2, TreeIs, TreeAssumption
<1>y. PICK y : y = x + n
  OBVIOUS
<1>2. y \in Offsets /\ y \notin F \cup H
  <2>1. y \in Nat /\ x < y /\ y < x + z[x] /\ y < Units
    BY <1>1, <1>y, TreeAssumption
  <2>2. \A e \in F \cup H : x < e => x + z[x] <= e
    BY <1>1 DEF Tiled
  <2>3. y \notin F \cup H
    BY <1>1, <2>1, <2>2
  <2> QED BY <2>1, <2>3, TreeAssumption DEF Offsets
<1>c. PICK c : c = CutAt(t, x, n)
  OBVIOUS
<1>3. /\ c \in TreeType /\ c.root = t.root /\ SizeAt(c, x) = n /\ SizeAt(c, y) = z[x] - n
      /\ \A e \in Offsets : e # x /\ e # y => SizeAt(c, e) = SizeAt(t, e)
      /\ \A e \in Offsets, r \in Sides : Child(c, e, r) = Child(t, e, r)
  BY <1>1, <1>2, <1>c, <1>y, CutAtIs
<1>4. IsTree(c, F \ {x})
  <2>1. PICK par, sub : Tree(t, F \ {x}, par, sub)
    BY DEF IsTree
  <2>2. \A e \in F \ {x} : e \in Offsets /\ e # x /\ e # y
    BY <1>1, <1>2, TiledFacts
  <2>3. \A e \in F \ {x} : SizeAt(c, e) = SizeAt(t, e)
    BY <1>3, <2>2
  <2>4. Tree(c, F \ {x}, par, sub)
    BY <1>3, <2>1, <2>3, SameTree
  <2> QED BY <2>4 DEF IsTree
<1>5. IsTree(g, (F \ {x}) \cup {y}) /\ SameSizes(g, c)
  <2>1. y \in Offsets \ (F \ {x})
    BY <1>2
  <2> QED BY <1>4, <1>c, <1>y, <2>1, InsertKeepsTree
<1>6. PICK k : k = Sz(g)
  OBVIOUS
<1>7. /\ k \in [Offsets -> 0 .. Units] /\ k[x] = n /\ k[y] = z[x] - n
      /\ \A e \in (F \cup H) \ {x} : k[e] = z[e]
  <2>1. \A e \in Offsets : k[e] = SizeAt(c, e)
    BY <1>5, <1>6 DEF Sz, SameSizes
  <2>2. \A e \in Offsets : SizeAt(c, e) \in 0 .. Units
    BY <1>3, ChildType
  <2>3. k = [e \in Offsets |-> SizeAt(c, e)]
    BY <1>5, <1>6 DEF Sz, SameSizes
  <2>4. \A e \in (F \cup H) \ {x} : e \in Offsets /\ e # x /\ e # y
    BY <1>1, <1>2, TiledFacts
  <2>5. \A e \in Offsets : z[e] = SizeAt(t, e)
    BY <1>z DEF Sz
  <2>6. \A e \in (F \cup H) \ {x} : k[e] = z[e]
    BY <1>3, <2>1, <2>4, <2>5
  <2> QED BY <1>1, <1>2, <1>3, <2>1, <2>2, <2>3, <2>6
<1>n. /\ k \in [Offsets -> 0 .. Units] /\ k[x] = n /\ k[x + n] = z[x] - n
      /\ \A e \in (F \cup H) \ {x} : k[e] = z[e]
      /\ Tiled(z, F, H) /\ n \in Nat /\ 1 <= n /\ n < z[x]
  BY <1>1, <1>7, <1>y
<1>8. Tiled(k, (F \ {x}) \cup {x + n}, H \cup {x})
  BY <1>n, Cut
<1>9. Cardinality(Points(k, (F \ {x}) \cup {x + n})) = Cardinality(Points(z, F)) - n
  BY <1>n, PointsCut
<1> QED BY <1>2, <1>5, <1>6, <1>8, <1>9, <1>y, <1>z
-----------------------------------------------------------------------------
(***************************************************************************)
(* What mp_heap_page_alloc, mp_heap_free and mp_heap_page_defrag do to the *)
(* blocks of one page.                                                     *)
(***************************************************************************)
(* The fields that an allocation and a freeing change.                     *)
LEMMA PageRecordIs ==
  ASSUME NEW h \in PageRecord, NEW t \in TreeType, NEW a \in Nat, NEW b \in Nat, NEW c \in Nat
  PROVE  [h EXCEPT !.tree = t, !.allocated = a, !.free = b, !.free_count = c] \in PageRecord
BY DEF PageRecord

(* mp_heap_page_alloc takes the block from the tree.                       *)
LEMMA AllocatedBlocks ==
  ASSUME NEW h \in PageRecord, NEW H, HasBlocks(h, H), h.tree.root # None, NEW n \in Requests,
         NEW x, x = BestFit(h.tree, n), x # None
  PROVE  /\ x \in Offsets /\ x \notin H
         /\ Allocated(h, x, n) \in PageRecord /\ HasBlocks(Allocated(h, x, n), H \cup {x})
<1>1. PICK F : Blocks(h, F, H)
  BY DEF HasBlocks
<1>2. PICK par, sub : Tree(h.tree, F, par, sub)
  BY <1>1 DEF Blocks, IsTree
<1>3. n \in 1 .. Units /\ n \in Nat /\ MinUnits \in Nat
  BY HeapAssumption, TreeAssumption
<1>t. PICK t : t = FindDelete(h.tree, n)
  OBVIOUS
<1>z. PICK z : z = Sz(h.tree)
  OBVIOUS
<1>4. /\ x \in F /\ SizeAt(h.tree, x) >= n
      /\ IsTree(t, F \ {x}) /\ SameSizes(t, h.tree)
  <2>1. \E u \in F : SizeAt(h.tree, u) >= n
    BY <1>2, <1>3, BestFitIs
  <2> QED BY <1>2, <1>3, <1>t, <2>1, BestFitIs
<1>5. Tiled(z, F, H) /\ Sz(t) = z
  BY <1>1, <1>4, <1>z, SameSz DEF Blocks
<1>6. /\ x \in Offsets /\ x \notin H /\ x \in Nat /\ z[x] \in Nat /\ SizeAt(t, x) = z[x] /\ z[x] >= n
      /\ IsFiniteSet(F) /\ IsFiniteSet(H) /\ t \in TreeType
  <2>1. F \cap H = {}
    BY <1>5 DEF Tiled
  <2>2. x \in Offsets /\ x \in Nat /\ z[x] \in Nat /\ IsFiniteSet(F) /\ IsFiniteSet(H)
    BY <1>4, <1>5, TiledFacts
  <2>3. SizeAt(t, x) = z[x] /\ SizeAt(h.tree, x) = z[x]
    BY <1>5, <1>z, <2>2 DEF Sz
  <2> QED BY <1>4, <2>1, <2>2, <2>3, TreeIs
<1>7. /\ Cardinality(H \cup {x}) = Cardinality(H) + 1 /\ Cardinality(H) \in Nat
      /\ Cardinality(F \ {x}) = Cardinality(F) - 1 /\ Cardinality(F) \in Nat
      /\ Cardinality(F \ {x}) \in Nat
  <2>1. IsFiniteSet(F \ {x})
    BY <1>6, FS_RemoveElement
  <2> QED BY <1>4, <1>6, <2>1, FS_AddElement, FS_RemoveElement, FS_CardinalityType
<1>8. PICK i \in Nat : i = Cardinality(Points(z, F)) /\ h.free = i
  BY <1>1, <1>5, <1>z, PointsFinite, TreeAssumption DEF Blocks
<1>9. h.used /\ h.allocated = Cardinality(H) /\ h.free_count = Cardinality(F)
  BY <1>1 DEF HasBlocks, Blocks
<1>10. ASSUME Trims(t, x, n)
       PROVE  Allocated(h, x, n) \in PageRecord /\ HasBlocks(Allocated(h, x, n), H \cup {x})
  <2>1. PICK g : g = Insert(CutAt(t, x, n), x + n)
    OBVIOUS
  <2>2. PICK r : r = [h EXCEPT !.tree = g, !.allocated = @ + 1, !.free = @ - n]
    OBVIOUS
  <2>3. Allocated(h, x, n) = r
    BY <1>10, <1>t, <2>1, <2>2 DEF Allocated, CutAt
  <2>4. n < SizeAt(t, x)
    <3>1. SizeAt(t, x) - n > MinUnits
      BY <1>10 DEF Trims, SizeAt
    <3> QED BY <1>3, <1>6, <3>1
  <2>5. PICK y : y = x + n
    OBVIOUS
  <2>6. PICK E : E = (F \ {x}) \cup {y}
    OBVIOUS
  <2>7. /\ y \in Offsets /\ y \notin F \cup H /\ IsTree(g, E) /\ Tiled(Sz(g), E, H \cup {x})
        /\ Cardinality(Points(Sz(g), E)) = i - n
    BY <1>3, <1>4, <1>5, <1>8, <2>1, <2>4, <2>5, <2>6, Trimmed
  <2>8. i - n \in Nat
    BY <2>7, PointsFinite, TreeAssumption
  <2>9. Cardinality(E) = Cardinality(F)
    <3>1. Cardinality((F \ {x}) \cup {y}) = Cardinality(F \ {x}) + 1
      BY <1>6, <2>7, FS_AddElement, FS_RemoveElement
    <3> QED BY <1>7, <2>6, <3>1
  <2>10. /\ r.tree = g /\ r.allocated = Cardinality(H) + 1 /\ r.free = i - n
         /\ r.free_count = h.free_count /\ r.used = h.used
    BY <1>8, <1>9, <2>2 DEF PageRecord
  <2>11. r \in PageRecord
    <3>1. PICK a \in Nat, b \in Nat, c \in Nat :
            a = h.allocated + 1 /\ b = h.free - n /\ c = h.free_count
      BY <1>7, <1>8, <1>9, <2>8
    <3>2. r = [h EXCEPT !.tree = g, !.allocated = a, !.free = b, !.free_count = c]
      BY <2>2, <3>1 DEF PageRecord
    <3> QED BY <2>7, <3>2, TreeIs, PageRecordIs
  <2> QED BY <1>7, <1>9, <2>3, <2>7, <2>9, <2>10, <2>11 DEF HasBlocks, Blocks
<1>11. ASSUME ~Trims(t, x, n)
       PROVE  Allocated(h, x, n) \in PageRecord /\ HasBlocks(Allocated(h, x, n), H \cup {x})
  <2>1. PICK r : r = [h EXCEPT !.tree = t, !.allocated = @ + 1, !.free_count = @ - 1,
                               !.free = @ - z[x]]
    OBVIOUS
  <2>2. Allocated(h, x, n) = r
    BY <1>11, <1>t, <1>6, <2>1 DEF Allocated, SizeAt
  <2>3. Tiled(z, F \ {x}, H \cup {x})
    <3>1. (F \ {x}) \cup (H \cup {x}) = F \cup H /\ (F \ {x}) \cap (H \cup {x}) = {}
      <4>1. F \cap H = {}
        BY <1>5 DEF Tiled
      <4> QED BY <1>4, <4>1
    <3> QED BY <1>5, <3>1, HandedOver
  <2>4. PICK j \in Nat : j = Cardinality(Points(z, F \ {x}))
    BY <2>3, PointsFinite, TreeAssumption
  <2>5. i = j + z[x]
    <3>1. x \in H \cup {x}
      OBVIOUS
    <3>2. Cardinality(Points(z, (F \ {x}) \cup {x})) = j + z[x]
      BY <2>3, <2>4, <3>1, PointsMore
    <3>3. (F \ {x}) \cup {x} = F
      BY <1>4
    <3> QED BY <1>8, <3>2, <3>3
  <2>6. /\ r.tree = t /\ r.allocated = Cardinality(H) + 1 /\ r.free = i - z[x]
        /\ r.free_count = Cardinality(F) - 1 /\ r.used = h.used
    BY <1>8, <1>9, <2>1 DEF PageRecord
  <2>7. i - z[x] = j
    BY <1>6, <2>5
  <2>8. r \in PageRecord
    <3>1. PICK a \in Nat, b \in Nat, c \in Nat :
            a = h.allocated + 1 /\ b = h.free - z[x] /\ c = h.free_count - 1
      BY <1>7, <1>8, <1>9, <2>7
    <3>2. r = [h EXCEPT !.tree = t, !.allocated = a, !.free = b, !.free_count = c]
      BY <2>1, <3>1 DEF PageRecord
    <3> QED BY <1>6, <3>2, PageRecordIs
  <2> QED BY <1>4, <1>5, <1>7, <1>9, <2>2, <2>3, <2>4, <2>6, <2>7, <2>8 DEF HasBlocks, Blocks
<1> QED BY <1>6, <1>10, <1>11

(* mp_heap_free: the block goes back into the tree.                        *)
GivenBack(h, x) ==
  [h EXCEPT !.tree = Insert(@, x), !.free_count = @ + 1, !.free = Freed(h, x), !.allocated = @ - 1]
LEMMA FreedBlocks ==
  ASSUME NEW h \in PageRecord, NEW H, HasBlocks(h, H), NEW x \in H
  PROVE  GivenBack(h, x) \in PageRecord /\ HasBlocks(GivenBack(h, x), H \ {x})
<1>g. PICK g : g = GivenBack(h, x)
  OBVIOUS
<1>1. PICK F : Blocks(h, F, H)
  BY DEF HasBlocks
<1>t. PICK t : t = Insert(h.tree, x)
  OBVIOUS
<1>z. PICK z : z = Sz(h.tree)
  OBVIOUS
<1>2. /\ Tiled(z, F, H) /\ x \in Offsets /\ x \notin F /\ z[x] \in Nat /\ z[x] = SizeAt(h.tree, x)
      /\ IsFiniteSet(F) /\ IsFiniteSet(H)
  <2>1. Tiled(z, F, H)
    BY <1>1, <1>z DEF Blocks
  <2>2. x \in Offsets /\ z[x] \in Nat /\ IsFiniteSet(F) /\ IsFiniteSet(H)
    BY <2>1, TiledFacts
  <2>3. x \notin F
    BY <2>1 DEF Tiled
  <2>4. z[x] = SizeAt(h.tree, x)
    BY <1>z, <2>2 DEF Sz
  <2> QED BY <2>1, <2>2, <2>3, <2>4
<1>3. IsTree(t, F \cup {x}) /\ Sz(t) = z
  <2>1. IsTree(h.tree, F) /\ x \in Offsets \ F
    BY <1>1, <1>2 DEF Blocks
  <2> QED BY <1>t, <1>z, <2>1, InsertKeepsTree, SameSz
<1>4. Tiled(z, F \cup {x}, H \ {x})
  <2>1. (F \cup {x}) \cup (H \ {x}) = F \cup H /\ (F \cup {x}) \cap (H \ {x}) = {}
    <3>1. F \cap H = {}
      BY <1>2 DEF Tiled
    <3> QED BY <3>1
  <2> QED BY <1>2, <2>1, HandedOver
<1>5. PICK i \in Nat : i = Cardinality(Points(z, F)) /\ h.free = i
  BY <1>1, <1>2, <1>z, PointsFinite, TreeAssumption DEF Blocks
<1>6. Cardinality(Points(z, F \cup {x})) = i + z[x]
  <2>1. Cardinality(Points(z, F \cup {x})) = Cardinality(Points(z, F)) + z[x]
    BY <1>2, PointsMore
  <2> QED BY <1>5, <2>1
<1>7. /\ Cardinality(F \cup {x}) = Cardinality(F) + 1 /\ Cardinality(F) \in Nat
      /\ Cardinality(H \ {x}) = Cardinality(H) - 1 /\ Cardinality(H \ {x}) \in Nat
      /\ IsFiniteSet(H \ {x})
  <2>1. IsFiniteSet(H \ {x})
    BY <1>2, FS_RemoveElement
  <2> QED BY <1>2, <2>1, FS_AddElement, FS_RemoveElement, FS_CardinalityType
<1>8. h.used /\ h.allocated = Cardinality(H) /\ h.free_count = Cardinality(F)
  BY <1>1 DEF HasBlocks, Blocks
<1>9. Freed(h, x) = i + z[x]
  BY <1>2, <1>5 DEF Freed, SizeAt
<1>10. g = [h EXCEPT !.tree = t, !.free_count = @ + 1, !.free = i + z[x], !.allocated = @ - 1]
  BY <1>9, <1>g, <1>t DEF GivenBack
<1>11. /\ g.tree = t /\ g.free_count = Cardinality(F) + 1 /\ g.free = i + z[x]
       /\ g.allocated = Cardinality(H) - 1 /\ g.used = h.used
  BY <1>8, <1>10 DEF PageRecord
<1>12. g \in PageRecord
  <2>1. t \in TreeType
    BY <1>3, TreeIs
  <2>2. PICK a \in Nat, b \in Nat, c \in Nat :
          a = h.allocated - 1 /\ b = i + z[x] /\ c = h.free_count + 1
    BY <1>2, <1>7, <1>8
  <2>3. g = [h EXCEPT !.tree = t, !.allocated = a, !.free = b, !.free_count = c]
    BY <1>10, <2>2 DEF PageRecord
  <2>4. [h EXCEPT !.tree = t, !.allocated = a, !.free = b, !.free_count = c] \in PageRecord
    BY <2>1, PageRecordIs
  <2> QED BY <2>3, <2>4, Zenon
<1> QED BY <1>3, <1>4, <1>6, <1>7, <1>8, <1>11, <1>12, <1>g DEF HasBlocks, Blocks

(* mp_heap_page_defrag                                                     *)
LEMMA DefragmentedBlocks ==
  ASSUME NEW h \in PageRecord, NEW H, HasBlocks(h, H)
  PROVE  Defragmented(h) \in PageRecord /\ HasBlocks(Defragmented(h), H)
<1>1. PICK F : Blocks(h, F, H)
  BY DEF HasBlocks
<1>2. CASE h.free_count <= DefragFree
  <2>1. Defragmented(h) = h
    BY <1>2 DEF Defragmented
  <2> QED BY <2>1
<1>3. CASE ~(h.free_count <= DefragFree) /\ h.defrag_period > 1
  <2>1. PICK r : r = [h EXCEPT !.defrag_period = @ - 1]
    OBVIOUS
  <2>2. Defragmented(h) = r
    BY <1>3, <2>1 DEF Defragmented
  <2>3. /\ r.tree = h.tree /\ r.free = h.free /\ r.free_count = h.free_count
        /\ r.allocated = h.allocated /\ r.used = h.used
    BY <2>1 DEF PageRecord
  <2>4. h.defrag_period - 1 \in 0 .. DefragPeriod
    BY <1>3, HeapAssumption DEF PageRecord
  <2>5. r \in PageRecord
    BY <2>1, <2>4 DEF PageRecord
  <2> QED BY <1>1, <2>2, <2>3, <2>5 DEF HasBlocks, Blocks
<1>4. CASE ~(h.free_count <= DefragFree) /\ ~(h.defrag_period > 1)
  <2>1. PICK t : t = Merged(h.tree)
    OBVIOUS
  <2>2. PICK m : m = Len(Linear(t))
    OBVIOUS
  <2>3. PICK r : r = [h EXCEPT !.tree = t, !.free_count = m, !.defrag_period = DefragPeriod]
    OBVIOUS
  <2>4. Defragmented(h) = r
    BY <1>4, <2>1, <2>2, <2>3 DEF Defragmented
  <2>5. PICK S \in SUBSET Offsets :
          /\ IsTree(t, S) /\ Tiled(Sz(t), S, H)
          /\ Points(Sz(t), S) = Points(Sz(h.tree), F)
    BY <1>1, <2>1, MergedIs DEF Blocks
  <2>6. m = Cardinality(S) /\ m \in Nat
    <3>1. PICK par, sub : Tree(t, S, par, sub)
      BY <2>5 DEF IsTree
    <3>2. Lists(Linear(t), S)
      BY <3>1, LinearLists
    <3> QED BY <2>2, <3>2, LenProperties DEF Lists
  <2>7. /\ r.tree = t /\ r.free = h.free /\ r.free_count = m
        /\ r.allocated = h.allocated /\ r.used = h.used
    BY <2>3 DEF PageRecord
  <2>8. r \in PageRecord
    <3>1. t \in TreeType /\ DefragPeriod \in 0 .. DefragPeriod
      BY <2>5, TreeIs, HeapAssumption
    <3> QED BY <2>3, <2>6, <3>1 DEF PageRecord
  <2> QED BY <1>1, <2>4, <2>5, <2>6, <2>7, <2>8 DEF HasBlocks, Blocks
<1> QED BY <1>2, <1>3, <1>4
-----------------------------------------------------------------------------
(***************************************************************************)
(* Steps of a thread: those that leave the blocks alone, and those on a    *)
(* page the thread has to itself.                                          *)
(***************************************************************************)
(* HandedOf, of one block.                                                 *)
HandsOut(lv, th, p, x) ==
  <<p, x>> \in lv \/ \E u \in Threads : Frees(th[u]) /\ th[u].page = p /\ th[u].block = x

LEMMA HandedOfIs ==
  ASSUME NEW lv, lv \subseteq Pages \X Offsets, NEW th, NEW p \in Pages, NEW x
  PROVE  x \in HandedOf(lv, th, p) <=> HandsOut(lv, th, p, x)
<1>1. \A b \in lv : b[1] = p => b = <<p, b[2]>>
  OBVIOUS
<1>2. <<p, x>>[1] = p /\ <<p, x>>[2] = x
  OBVIOUS
<1> QED BY <1>1, <1>2 DEF HandedOf, HandsOut, Frees

(* A step of t that takes it to v.                                         *)
Moves(t, v) ==
  /\ thread' = [thread EXCEPT ![t] = v] /\ v \in ThreadRecord
  /\ Allocates(v) => v.units \in Requests
  /\ mutex' \in Threads \cup {Nobody} /\ state' \in {"running", "aborted"} \cup Faults

(* The other threads stay where they are.                                  *)
LEMMA MovesIs ==
  ASSUME BlockInv, NEW t \in Threads, NEW v, Moves(t, v)
  PROVE  /\ DOMAIN thread' = Threads /\ thread'[t] = v
         /\ \A u \in Threads : u # t => thread'[u] = thread[u]
BY DEF Moves, BlockInv

(* Who is busy after the step.                                             *)
LEMMA BusyIs ==
  ASSUME BlockInv, NEW t \in Threads, NEW v, Moves(t, v)
  PROVE  Busy(thread') = IF v.pc = "idle" THEN Busy(thread) \ {t} ELSE Busy(thread) \cup {t}
BY MovesIs DEF Busy

(* The bound, as numbers.                                                  *)
LEMMA BoundedIs ==
  ASSUME BlockInv
  PROVE  /\ IsFiniteSet(live) /\ IsFiniteSet(Busy(thread))
         /\ Cardinality(live) \in Nat /\ Cardinality(Busy(thread)) \in Nat
         /\ Cardinality(live) + Cardinality(Busy(thread)) <= MaxLive
BY FS_CardinalityType DEF BlockInv, Bounded

(* A thread that was not idle, and the blocks left alone.                  *)
LEMMA BoundedKept ==
  ASSUME BlockInv, NEW t \in Threads, NEW v, Moves(t, v), thread[t].pc # "idle", UNCHANGED live
  PROVE  Bounded(live', thread')
<1>1. PICK i \in Nat, j \in Nat :
        i = Cardinality(live) /\ j = Cardinality(Busy(thread)) /\ i + j <= MaxLive
  BY BoundedIs
<1>2. t \in Busy(thread)
  BY DEF Busy
<1>3. IsFiniteSet(Busy(thread')) /\ Cardinality(Busy(thread')) \in {j, j - 1}
  <2>1. CASE v.pc = "idle"
    <3>1. Busy(thread') = Busy(thread) \ {t}
      BY <2>1, BusyIs
    <3> QED BY <1>1, <1>2, <3>1, BoundedIs, FS_RemoveElement
  <2>2. CASE v.pc # "idle"
    <3>1. Busy(thread') = Busy(thread)
      BY <1>2, <2>2, BusyIs
    <3> QED BY <1>1, <3>1, BoundedIs
  <2> QED BY <2>1, <2>2
<1>4. i + Cardinality(Busy(thread')) <= MaxLive
  BY <1>1, <1>3, HeapAssumption
<1> QED BY <1>1, <1>3, <1>4, BoundedIs DEF Bounded

(* Steps that leave the blocks alone.                                      *)
Quiet(t, v) == Moves(t, v) /\ ~Frees(thread[t]) /\ ~Frees(v) /\ UNCHANGED live

(* Such a step hands nothing out and takes nothing back.                   *)
LEMMA QuietHanded ==
  ASSUME BlockInv, NEW t \in Threads, NEW v, Quiet(t, v)
  PROVE  /\ \A p \in Pages : HandedOf(live', thread', p) = HandedOf(live, thread, p)
         /\ \A u \in Threads : ThreadOK(thread'[u], live')
<1>1. /\ Moves(t, v) /\ live' = live /\ ~Frees(thread[t]) /\ ~Frees(v)
  BY DEF Quiet
<1>2. thread'[t] = v /\ \A u \in Threads : u # t => thread'[u] = thread[u]
  BY <1>1, MovesIs
<1>3. ASSUME NEW p \in Pages PROVE HandedOf(live', thread', p) = HandedOf(live, thread, p)
  <2>1. {u \in Threads : thread'[u].pc = "free" /\ thread'[u].page = p}
          = {u \in Threads : thread[u].pc = "free" /\ thread[u].page = p}
    BY <1>1, <1>2 DEF Frees
  <2>2. \A u \in Threads : thread[u].pc = "free" => thread'[u] = thread[u]
    BY <1>1, <1>2 DEF Frees
  <2> QED BY <1>1, <2>1, <2>2 DEF HandedOf
<1>4. ASSUME NEW u \in Threads PROVE ThreadOK(thread'[u], live')
  <2>1. CASE u = t
    BY <1>1, <1>2, <2>1 DEF ThreadOK, Moves
  <2>2. CASE u # t
    BY <1>1, <1>2, <2>2 DEF BlockInv
  <2> QED BY <2>1, <2>2
<1> QED BY <1>3, <1>4

(* The mutex of a page is no part of its blocks.                           *)
LEMMA MutexIs ==
  ASSUME NEW r \in PageRecord, NEW m \in Threads \cup {Nobody}
  PROVE  /\ [r EXCEPT !.mutex = m] \in PageRecord
         /\ \A H : HasBlocks(r, H) => HasBlocks([r EXCEPT !.mutex = m], H)
<1>1. PICK n : n = [r EXCEPT !.mutex = m]
  OBVIOUS
<1>2. /\ n \in PageRecord /\ n.tree = r.tree /\ n.free = r.free /\ n.free_count = r.free_count
      /\ n.allocated = r.allocated /\ n.used = r.used
  BY <1>1 DEF PageRecord
<1> QED BY <1>1, <1>2 DEF HasBlocks, Blocks

(* Such a step may lock pages, drop them, or change their trees.           *)
LEMMA QuietKeeps ==
  ASSUME BlockInv, NEW t \in Threads, NEW v, Quiet(t, v), Bounded(live', thread'),
         DOMAIN page' = Pages,
         \A p \in Pages :
           \/ page'[p] = page[p] \/ page'[p] = Unused
           \/ page[p].used /\ \E m \in Threads \cup {Nobody} : page'[p] = [page[p] EXCEPT !.mutex = m]
           \/ page'[p] \in PageRecord /\ HasBlocks(page'[p], HandedOf(live, thread, p)),
         page' = [p \in Pages |-> page'[p]]
  PROVE  BlockInv'
<1>1. ASSUME NEW p \in Pages
      PROVE  /\ page'[p] \in PageRecord
             /\ HasBlocks(page'[p], HandedOf(live, thread, p)) \/ page'[p] = Unused
  <2>1. /\ page[p] \in PageRecord
        /\ HasBlocks(page[p], HandedOf(live, thread, p)) \/ page[p] = Unused
    BY DEF BlockInv
  <2>2. CASE page'[p] = page[p] \/ page'[p] = Unused
    BY <2>1, <2>2, UnusedIs
  <2>3. CASE page[p].used /\ \E m \in Threads \cup {Nobody} : page'[p] = [page[p] EXCEPT !.mutex = m]
    <3>1. HasBlocks(page[p], HandedOf(live, thread, p))
      BY <2>1, <2>3, UnusedIs
    <3> QED BY <2>1, <2>3, <3>1, MutexIs
  <2> QED BY <2>2, <2>3
<1>2. page' \in [Pages -> PageRecord]
  BY <1>1
<1>3. \A p \in Pages : HandedOf(live', thread', p) = HandedOf(live, thread, p)
  BY QuietHanded
<1>4. \A u \in Threads : ThreadOK(thread'[u], live')
  BY QuietHanded
<1>5. /\ DOMAIN thread' = Threads /\ mutex' \in Threads \cup {Nobody}
      /\ state' \in {"running", "aborted"} \cup Faults /\ live' \subseteq Pages \X Offsets
  BY MovesIs DEF Quiet, Moves, BlockInv
<1>6. \A p \in Pages : HasBlocks(page'[p], HandedOf(live', thread', p)) \/ page'[p] = Unused
  BY <1>1, <1>3
<1> QED BY <1>2, <1>4, <1>5, <1>6 DEF BlockInv

(* Steps on the blocks of a page that no other thread works on.            *)
LEMMA OwnKeeps ==
  ASSUME HeapInv, BlockInv, NEW t \in Threads, NEW v, Moves(t, v), Bounded(live', thread'),
         NEW p \in Pages, page[p].mutex \in {Nobody, t}, NEW r \in PageRecord,
         page' = [page EXCEPT ![p] = r],
         live' \subseteq Pages \X Offsets, \A b : b[1] # p => (b \in live' <=> b \in live),
         Frees(thread[t]) => thread[t].page = p,
         Frees(v) => v.page = p /\ v.block \in Offsets /\ <<p, v.block>> \notin live',
         HasBlocks(r, HandedOf(live', thread', p))
  PROVE  BlockInv'
<1>1. /\ DOMAIN thread' = Threads /\ thread'[t] = v
      /\ \A u \in Threads : u # t => thread'[u] = thread[u]
  BY MovesIs
<1>2. /\ page' \in [Pages -> PageRecord] /\ page'[p] = r
      /\ \A q \in Pages : q # p => page'[q] = page[q]
  BY DEF BlockInv
<1>3. \A u \in Threads : u # t /\ Frees(thread[u]) => thread[u].page # p /\ thread[u].page \in Pages
  <2> SUFFICES ASSUME NEW u \in Threads, u # t, Frees(thread[u])
               PROVE  thread[u].page # p /\ thread[u].page \in Pages
    OBVIOUS
  <2>1. thread[u].page \in Pages /\ page[thread[u].page].mutex = u
    BY DEF HeapInv, Working, Works, WorkOn, Frees
  <2>2. u # Nobody
    BY HeapAssumption
  <2> QED BY <2>1, <2>2
<1>4. ASSUME NEW u \in Threads PROVE ThreadOK(thread'[u], live')
  <2>1. CASE u = t
    BY <1>1, <2>1 DEF ThreadOK, Moves
  <2>2. CASE u # t
    <3>1. thread'[u] = thread[u] /\ ThreadOK(thread[u], live)
      BY <1>1, <2>2 DEF BlockInv
    <3>2. ASSUME Frees(thread[u]) PROVE <<thread[u].page, thread[u].block>> \notin live'
      <4>1. thread[u].page # p
        BY <1>3, <2>2, <3>2
      <4>2. <<thread[u].page, thread[u].block>>[1] # p
        BY <4>1
      <4>3. <<thread[u].page, thread[u].block>> \notin live
        BY <3>1, <3>2 DEF ThreadOK
      <4> QED BY <4>2, <4>3
    <3> QED BY <3>1, <3>2 DEF ThreadOK
  <2> QED BY <2>1, <2>2
<1>5. ASSUME NEW q \in Pages, q # p PROVE HandedOf(live', thread', q) = HandedOf(live, thread, q)
  <2>1. {c \in live' : c[1] = q} = {c \in live : c[1] = q}
    BY <1>5
  <2>2. {u \in Threads : thread'[u].pc = "free" /\ thread'[u].page = q}
          = {u \in Threads : thread[u].pc = "free" /\ thread[u].page = q}
    BY <1>1, <1>5 DEF Frees
  <2>3. \A u \in Threads : thread[u].pc = "free" /\ thread[u].page = q => thread'[u] = thread[u]
    BY <1>1, <1>5 DEF Frees
  <2> QED BY <2>1, <2>2, <2>3 DEF HandedOf
<1>6. ASSUME NEW q \in Pages
      PROVE  HasBlocks(page'[q], HandedOf(live', thread', q)) \/ page'[q] = Unused
  <2>1. CASE q = p
    BY <1>2, <2>1
  <2>2. CASE q # p
    <3>1. HasBlocks(page[q], HandedOf(live, thread, q)) \/ page[q] = Unused
      BY DEF BlockInv
    <3> QED BY <1>2, <1>5, <2>2, <3>1
  <2> QED BY <2>1, <2>2
<1> QED BY <1>1, <1>2, <1>4, <1>6 DEF BlockInv, Moves
-----------------------------------------------------------------------------
(***************************************************************************)
(* BlockInv, action by action: the way to a page.                          *)
(***************************************************************************)
(* A thread in another place.                                              *)
LEMMA RecordIs ==
  ASSUME NEW v \in ThreadRecord, NEW pc \in Places
  PROVE  /\ [v EXCEPT !.pc = pc] \in ThreadRecord /\ [v EXCEPT !.pc = pc].pc = pc
         /\ [v EXCEPT !.pc = pc].units = v.units
BY DEF ThreadRecord

(* A thread in another place, with another page.                           *)
Turned(v, pc, q) == [v EXCEPT !.pc = pc, !.page = q]
LEMMA TurnedIs ==
  ASSUME NEW v \in ThreadRecord, NEW pc \in Places, NEW q \in Pages \cup {Nobody}
  PROVE  /\ Turned(v, pc, q) \in ThreadRecord /\ Turned(v, pc, q).pc = pc
         /\ Turned(v, pc, q).units = v.units /\ Turned(v, pc, q).page = q
BY DEF ThreadRecord, Turned

LEMMA SamePlace ==
  ASSUME NEW v \in ThreadRecord, NEW q \in Pages \cup {Nobody}
  PROVE  [v EXCEPT !.page = q] = Turned(v, v.pc, q)
BY DEF ThreadRecord, Turned

(* A thread that begins to allocate.                                       *)
Started(n, q) == [Idle EXCEPT !.pc = "scan", !.units = n, !.page = q]
LEMMA StartedIs ==
  ASSUME NEW n \in Requests, NEW q \in Pages \cup {Nobody}
  PROVE  Started(n, q) \in ThreadRecord /\ Started(n, q).pc = "scan" /\ Started(n, q).units = n
<1>1. PICK v \in ThreadRecord : v = Idle
  BY IdleIs
<1>2. Started(n, q) = [v EXCEPT !.pc = "scan", !.units = n, !.page = q]
  BY <1>1 DEF Started
<1>3. "scan" \in Places
  BY DEF Places
<1> QED BY <1>2, <1>3 DEF ThreadRecord

(* A thread's record.                                                      *)
LEMMA HasRecord ==
  ASSUME BlockInv, NEW t \in Threads
  PROVE  thread[t] \in ThreadRecord /\ (Allocates(thread[t]) => thread[t].units \in Requests)
BY DEF BlockInv, ThreadOK

(* A thread that goes from place to place.                                 *)
LEMMA Walks ==
  ASSUME BlockInv, NEW t \in Threads, Allocates(thread[t]), NEW v \in ThreadRecord,
         v.units = thread[t].units, ~Frees(v), thread' = [thread EXCEPT ![t] = v],
         mutex' \in Threads \cup {Nobody}, state' \in {"running", "aborted"} \cup Faults,
         UNCHANGED live
  PROVE  Quiet(t, v) /\ Bounded(live', thread')
<1>1. thread[t].pc # "idle" /\ ~Frees(thread[t])
  BY DEF Allocates, Frees
<1>2. Moves(t, v)
  BY HasRecord DEF Moves
<1> QED BY <1>1, <1>2, BoundedKept DEF Quiet

(* A step that changes only the heap's mutex or the state.                 *)
LEMMA Stays ==
  ASSUME BlockInv, UNCHANGED <<page, live, thread>>, mutex' \in Threads \cup {Nobody},
         state' \in {"running", "aborted"} \cup Faults
  PROVE  BlockInv'
<1>1. Bounded(live', thread') /\ \A p \in Pages : HandedOf(live', thread', p) = HandedOf(live, thread, p)
  BY DEF BlockInv
<1> QED BY <1>1 DEF BlockInv

(* What kind of values the variables have.                                 *)
LEMMA TypesKept ==
  ASSUME BlockInv
  PROVE  /\ UNCHANGED mutex => mutex' \in Threads \cup {Nobody}
         /\ UNCHANGED state => state' \in {"running", "aborted"} \cup Faults
         /\ page = [p \in Pages |-> page[p]] /\ DOMAIN page = Pages
         /\ \A p \in Pages : page[p] \in PageRecord
BY DEF BlockInv

(* A walk that leaves the pages alone, or locks or unlocks one.            *)
LEMMA WalkKeeps ==
  ASSUME BlockInv, NEW t \in Threads, NEW v, Quiet(t, v), Bounded(live', thread'),
         \/ UNCHANGED page
         \/ \E p \in Pages, m \in Threads \cup {Nobody} :
              page[p].used /\ page' = [page EXCEPT ![p].mutex = m]
  PROVE  BlockInv'
<1>1. CASE UNCHANGED page
  BY <1>1, TypesKept, QuietKeeps
<1>2. CASE \E p \in Pages, m \in Threads \cup {Nobody} :
             page[p].used /\ page' = [page EXCEPT ![p].mutex = m]
  <2>1. PICK p \in Pages, m \in Threads \cup {Nobody} :
          page[p].used /\ page' = [page EXCEPT ![p].mutex = m]
    BY <1>2
  <2>2. /\ page' = [q \in Pages |-> page'[q]] /\ DOMAIN page' = Pages
        /\ page'[p] = [page[p] EXCEPT !.mutex = m]
        /\ \A q \in Pages : q # p => page'[q] = page[q]
    BY <2>1, TypesKept
  <2>3. \A q \in Pages :
          \/ page'[q] = page[q]
          \/ page[q].used /\ \E k \in Threads \cup {Nobody} : page'[q] = [page[q] EXCEPT !.mutex = k]
    BY <2>1, <2>2
  <2> QED BY <2>2, <2>3, QuietKeeps
<1> QED BY <1>1, <1>2

(* A thread that goes on with its page, which it may lock.                 *)
LEMMA GoesOn ==
  ASSUME BlockInv, NEW t \in Threads, Allocates(thread[t]), NEW pc \in Places,
         pc \notin {"free"}, Goes(t, pc), mutex' \in Threads \cup {Nobody},
         state' \in {"running", "aborted"} \cup Faults, UNCHANGED live,
         \/ UNCHANGED page
         \/ \E p \in Pages, m \in Threads \cup {Nobody} :
              page[p].used /\ page' = [page EXCEPT ![p].mutex = m]
  PROVE  BlockInv'
<1>1. PICK v : v = [thread[t] EXCEPT !.pc = pc]
  OBVIOUS
<1>2. v \in ThreadRecord /\ v.pc = pc /\ v.units = thread[t].units
  BY <1>1, HasRecord, RecordIs
<1>3. thread' = [thread EXCEPT ![t] = v]
  BY <1>1 DEF Goes
<1>4. ~Frees(v)
  BY <1>2 DEF Frees
<1>5. Quiet(t, v) /\ Bounded(live', thread')
  BY <1>2, <1>3, <1>4, Walks
<1> QED BY <1>5, WalkKeeps

(* mp_heap_alloc begins.                                                   *)
LEMMA AllocBeginBlocks ==
  ASSUME HeapInv, BlockInv, NEW t \in Threads, AllocBegin(t)
  PROVE  BlockInv'
<1>1. PICK n \in Requests : thread' = [thread EXCEPT ![t] =
                 [Idle EXCEPT !.pc = "scan", !.units = n, !.page = Behind(Nobody)]]
  BY DEF AllocBegin
<1>2. /\ UNCHANGED <<page, mutex, live, state>> /\ thread[t].pc = "idle"
      /\ Cardinality(live) + Cardinality(Busy(thread)) < MaxLive
  BY DEF AllocBegin, At, Busy
<1>3. PICK q : q = Behind(Nobody)
  OBVIOUS
<1>4. q \in Pages \cup {Nobody}
  <2>1. list \in Seq(Pages)
    BY DEF HeapInv, Listed
  <2>2. list # <<>> => Head(list) \in Pages
    BY <2>1
  <2> QED BY <1>3, <2>2 DEF Behind
<1>5. PICK v : v = Started(n, q)
  OBVIOUS
<1>6. thread' = [thread EXCEPT ![t] = v]
  BY <1>1, <1>3, <1>5 DEF Started
<1>7. v \in ThreadRecord /\ v.pc = "scan" /\ v.units = n
  BY <1>4, <1>5, StartedIs
<1>8. Moves(t, v)
  BY <1>2, <1>6, <1>7, TypesKept DEF Moves
<1>9. Quiet(t, v)
  BY <1>2, <1>7, <1>8 DEF Quiet, Frees
<1>10. Bounded(live', thread')
  <2>1. PICK i \in Nat, j \in Nat : i = Cardinality(live) /\ j = Cardinality(Busy(thread))
    BY BoundedIs
  <2>2. Busy(thread') = Busy(thread) \cup {t} /\ t \notin Busy(thread)
    <3>1. Busy(thread') = Busy(thread) \cup {t}
      BY <1>7, <1>8, BusyIs
    <3> QED BY <1>2, <3>1 DEF Busy
  <2>3. IsFiniteSet(Busy(thread')) /\ Cardinality(Busy(thread')) = j + 1
    BY <2>1, <2>2, BoundedIs, FS_AddElement
  <2>4. i + (j + 1) <= MaxLive
    BY <1>2, <2>1, HeapAssumption
  <2> QED BY <1>2, <2>1, <2>3, <2>4, BoundedIs DEF Bounded
<1> QED BY <1>2, <1>9, <1>10, WalkKeeps

(* It tries the next page.                                                 *)
LEMMA ScanPageBlocks ==
  ASSUME HeapInv, BlockInv, NEW t \in Threads, ScanPage(t)
  PROVE  BlockInv'
<1> DEFINE p == thread[t].page
           q == list[After(p)]
<1>0. /\ UNCHANGED <<list, last, mutex, live>> /\ thread[t].pc = "scan" /\ Allocates(thread[t])
      /\ mutex' \in Threads \cup {Nobody}
  BY TypesKept DEF ScanPage, At, Allocates
<1>1. CASE UNCHANGED <<page, thread>> /\ state' = "freed page read"
  <2>1. state' \in {"running", "aborted"} \cup Faults
    BY <1>1 DEF Faults
  <2> QED BY <1>0, <1>1, <2>1, Stays
<1>2. CASE Goes(t, "add") /\ UNCHANGED <<page, state>>
  <2>1. "add" \in Places
    BY DEF Places
  <2> QED BY <1>0, <1>2, <2>1, GoesOn, TypesKept
<1>3. CASE /\ UNCHANGED state
           /\ ~(p # Nobody /\ ~(\E k \in DOMAIN list : list[k] = p))
           /\ ~(After(p) > Len(list))
           /\ \/ /\ page' = [page EXCEPT ![q].mutex = t]
                 /\ thread' = [thread EXCEPT ![t].pc = "take", ![t].page = q]
              \/ thread' = [thread EXCEPT ![t].page = q] /\ UNCHANGED page
  <2>1. list \in Seq(Pages) /\ Len(list) \in Nat /\ DOMAIN list = 1 .. Len(list)
    BY LenProperties DEF HeapInv, Listed
  <2>2. After(p) \in DOMAIN list
    <3>1. CASE p = Nobody
      BY <1>3, <2>1, <3>1 DEF After
    <3>2. CASE p # Nobody
      <4>1. PlaceOf(p) \in DOMAIN list
        BY <1>3, <3>2 DEF PlaceOf
      <4> QED BY <1>3, <2>1, <3>2, <4>1 DEF After
    <3> QED BY <3>1, <3>2
  <2>3. q \in Pages /\ page[q].used
    <3>1. q \in Pages
      BY <2>1, <2>2, ElementOfSeq
    <3> QED BY <2>2, <3>1 DEF HeapInv, Listed, Holds1
  <2>4. PICK w \in Pages : w = q /\ page[w].used
    BY <2>3
  <2>5. CASE /\ page' = [page EXCEPT ![q].mutex = t]
             /\ thread' = [thread EXCEPT ![t].pc = "take", ![t].page = q]
    <3>1. PICK v : v = [thread[t] EXCEPT !.pc = "take", !.page = w]
      OBVIOUS
    <3>2. thread' = [thread EXCEPT ![t] = v] /\ page' = [page EXCEPT ![w].mutex = t]
      BY <2>4, <2>5, <3>1
    <3>3. v \in ThreadRecord /\ v.pc = "take" /\ v.units = thread[t].units
      <4>1. "take" \in Places /\ w \in Pages \cup {Nobody} /\ thread[t] \in ThreadRecord
        BY HasRecord DEF Places
      <4>2. v = Turned(thread[t], "take", w)
        BY <3>1 DEF Turned
      <4> QED BY <4>1, <4>2, TurnedIs
    <3>4. ~Frees(v)
      BY <3>3 DEF Frees
    <3> HIDE DEF p, q
    <3>5. Quiet(t, v) /\ Bounded(live', thread')
      BY <1>0, <1>3, <3>2, <3>3, <3>4, TypesKept, Walks
    <3> QED BY <2>4, <3>2, <3>5, WalkKeeps
  <2>6. CASE thread' = [thread EXCEPT ![t].page = q] /\ UNCHANGED page
    <3>1. PICK v : v = [thread[t] EXCEPT !.page = w]
      OBVIOUS
    <3>2. thread' = [thread EXCEPT ![t] = v]
      BY <2>4, <2>6, <3>1
    <3>3. v \in ThreadRecord /\ v.pc = thread[t].pc /\ v.units = thread[t].units
      <4>1. /\ thread[t].pc \in Places /\ w \in Pages \cup {Nobody}
            /\ thread[t] \in ThreadRecord
        BY HasRecord DEF ThreadRecord
      <4>2. v = Turned(thread[t], thread[t].pc, w)
        BY <3>1, <4>1, SamePlace
      <4> QED BY <4>1, <4>2, TurnedIs
    <3>4. ~Frees(v)
      BY <1>0, <3>3 DEF Frees
    <3> HIDE DEF p, q
    <3>5. Quiet(t, v) /\ Bounded(live', thread')
      BY <1>0, <1>3, <3>2, <3>3, <3>4, TypesKept, Walks
    <3> QED BY <2>6, <3>5, WalkKeeps
  <2> QED BY <1>3, <2>5, <2>6
<1> QED BY <1>1, <1>2, <1>3 DEF ScanPage

(* It scans once more.                                                     *)
LEMMA ScanAgainBlocks ==
  ASSUME HeapInv, BlockInv, NEW t \in Threads, ScanAgain(t)
  PROVE  BlockInv'
BY GoesOn, TypesKept DEF ScanAgain, At, Allocates, Places

(* It finds that a page is to be added.                                    *)
LEMMA TryAddBlocks ==
  ASSUME HeapInv, BlockInv, NEW t \in Threads, TryAdd(t)
  PROVE  BlockInv'
<1>1. Allocates(thread[t]) /\ UNCHANGED <<page, live, state>>
  BY DEF TryAdd, At, Allocates
<1>2. CASE mutex' = t /\ Goes(t, "new")
  BY <1>1, <1>2, GoesOn, TypesKept DEF Places
<1>3. CASE UNCHANGED mutex /\ Goes(t, "await")
  BY <1>1, <1>3, GoesOn, TypesKept DEF Places
<1> QED BY <1>2, <1>3 DEF TryAdd

(* It waits for the thread that adds one.                                  *)
LEMMA AwaitPageBlocks ==
  ASSUME HeapInv, BlockInv, NEW t \in Threads, AwaitPage(t)
  PROVE  BlockInv'
<1>1. /\ Allocates(thread[t]) /\ UNCHANGED <<page, live, mutex, state>>
      /\ thread' = [thread EXCEPT ![t].pc = IF last = Nobody THEN "add" ELSE "lock",
                                  ![t].page = last]
  BY DEF AwaitPage, At, Allocates
<1>2. PICK pc : pc = IF last = Nobody THEN "add" ELSE "lock"
  OBVIOUS
<1>3. PICK v : v = [thread[t] EXCEPT !.pc = pc, !.page = last]
  OBVIOUS
<1>4. last \in Pages \cup {Nobody} /\ pc \in Places /\ pc # "free"
  BY <1>2 DEF HeapInv, Listed, Places
<1>5. v \in ThreadRecord /\ v.pc = pc /\ v.units = thread[t].units
  <2>1. thread[t] \in ThreadRecord
    BY HasRecord
  <2>2. v = Turned(thread[t], pc, last)
    BY <1>3 DEF Turned
  <2> QED BY <1>4, <2>1, <2>2, TurnedIs
<1>6. thread' = [thread EXCEPT ![t] = v]
  BY <1>1, <1>2, <1>3
<1>7. ~Frees(v)
  BY <1>4, <1>5 DEF Frees
<1>8. Quiet(t, v) /\ Bounded(live', thread')
  BY <1>1, <1>5, <1>6, <1>7, TypesKept, Walks
<1> QED BY <1>1, <1>8, WalkKeeps

(* It locks the page it has chosen.                                        *)
LEMMA LockPageBlocks ==
  ASSUME HeapInv, BlockInv, NEW t \in Threads, LockPage(t)
  PROVE  BlockInv'
<1>p. PICK p : p = thread[t].page
  OBVIOUS
<1>0. /\ UNCHANGED <<mutex, live>> /\ Allocates(thread[t]) /\ p \in Pages
      /\ mutex' \in Threads \cup {Nobody}
  BY <1>p, TypesKept DEF LockPage, At, Allocates, HeapInv, Working
<1>1. CASE UNCHANGED <<page, thread>> /\ state' = "freed page read"
  <2>1. state' \in {"running", "aborted"} \cup Faults
    BY <1>1 DEF Faults
  <2> QED BY <1>0, <1>1, <2>1, Stays
<1>2. CASE page[p].used /\ page' = [page EXCEPT ![p].mutex = t] /\ Goes(t, "take") /\ UNCHANGED state
  <2>1. "take" \in Places
    BY DEF Places
  <2> QED BY <1>0, <1>2, <2>1, GoesOn, TypesKept
<1> QED BY <1>1, <1>2, <1>p DEF LockPage
-----------------------------------------------------------------------------
(***************************************************************************)
(* BlockInv, action by action: blocks and pages.                           *)
(***************************************************************************)
(* What HandedOf gives for the page of a thread that works on it.          *)
LEMMA UsedBlocks ==
  ASSUME BlockInv, NEW p \in Pages, page[p].used
  PROVE  page[p] \in PageRecord /\ HasBlocks(page[p], HandedOf(live, thread, p))
BY UnusedIs DEF BlockInv

(* Nobody else frees on a page that a thread may lock.                     *)
LEMMA OneFrees ==
  ASSUME HeapInv, NEW t \in Threads, NEW p \in Pages, page[p].mutex \in {Nobody, t},
         NEW u \in Threads, Frees(thread[u]), thread[u].page = p
  PROVE  u = t
<1>1. page[p].mutex = u
  BY DEF HeapInv, Working, Works, WorkOn, Frees
<1> QED BY <1>1, HeapAssumption

(* mp_heap_page_alloc: a block leaves the tree and is handed out.          *)
LEMMA TakeBlocks ==
  ASSUME HeapInv, BlockInv, NEW t \in Threads, Take(t)
  PROVE  BlockInv'
<1>p. PICK p : p = thread[t].page
  OBVIOUS
<1>n. PICK n : n = thread[t].units
  OBVIOUS
<1>x. PICK x : x = BestFit(page[p].tree, n)
  OBVIOUS
<1>0. /\ UNCHANGED <<list, last, mutex>> /\ Allocates(thread[t]) /\ ~Frees(thread[t])
      /\ p \in Pages /\ page[p].used /\ page[p].mutex = t /\ mutex' \in Threads \cup {Nobody}
      /\ n \in Requests /\ thread[t].pc # "idle"
  <2>1. thread[t].pc = "take" /\ UNCHANGED <<list, last, mutex>>
    BY DEF Take, At
  <2>2. Allocates(thread[t]) /\ ~Frees(thread[t])
    BY <2>1 DEF Allocates, Frees
  <2>3. p \in Pages /\ page[p].used /\ page[p].mutex = t
    BY <1>p, <2>1 DEF HeapInv, Working, Works, WorkOn
  <2> QED BY <1>n, <2>1, <2>2, <2>3, TypesKept, HasRecord
<1>1. CASE page[p].tree.root = None
  <2>1. UNCHANGED <<page, live, thread>> /\ state' = "empty tree searched"
    BY <1>p, <1>1 DEF Take
  <2>2. state' \in {"running", "aborted"} \cup Faults
    BY <2>1 DEF Faults
  <2> QED BY <1>0, <2>1, <2>2, Stays
<1>2. CASE page[p].tree.root # None /\ x = None
  <2>1. page' = [page EXCEPT ![p].mutex = Nobody] /\ Goes(t, "again") /\ UNCHANGED <<live, state>>
    BY <1>p, <1>n, <1>x, <1>2 DEF Take
  <2>2. "again" \in Places /\ Nobody \in Threads \cup {Nobody}
    BY DEF Places
  <2> QED BY <1>0, <2>1, <2>2, GoesOn, TypesKept
<1>3. CASE page[p].tree.root # None /\ x # None
  <2>1. /\ page' = [page EXCEPT ![p] = [Allocated(page[p], x, n) EXCEPT !.mutex = Nobody]]
        /\ live' = live \cup {<<p, x>>} /\ thread' = [thread EXCEPT ![t] = Idle] /\ UNCHANGED state
    BY <1>p, <1>n, <1>x, <1>3 DEF Take
  <2>H. PICK H : H = HandedOf(live, thread, p)
    OBVIOUS
  <2>2. page[p] \in PageRecord /\ HasBlocks(page[p], H)
    BY <1>0, <2>H, UsedBlocks
  <2>a. PICK a : a = Allocated(page[p], x, n)
    OBVIOUS
  <2>3. x \in Offsets /\ x \notin H /\ a \in PageRecord /\ HasBlocks(a, H \cup {x})
    BY <1>0, <1>x, <1>3, <2>2, <2>a, AllocatedBlocks
  <2>r. PICK r : r = [a EXCEPT !.mutex = Nobody]
    OBVIOUS
  <2>4. r \in PageRecord /\ HasBlocks(r, H \cup {x}) /\ page' = [page EXCEPT ![p] = r]
    BY <2>1, <2>3, <2>a, <2>r, MutexIs
  <2>5. /\ Moves(t, Idle) /\ Idle.pc = "idle" /\ ~Frees(Idle)
    BY <1>0, <2>1, IdleIs, TypesKept DEF Moves, Allocates, Frees
  <2>6. /\ live' \subseteq Pages \X Offsets /\ live \subseteq Pages \X Offsets
        /\ \A b : b[1] # p => (b \in live' <=> b \in live)
    <3>1. live \subseteq Pages \X Offsets
      BY DEF BlockInv
    <3>2. <<p, x>> \in Pages \X Offsets /\ <<p, x>>[1] = p
      BY <1>0, <2>3
    <3> QED BY <2>1, <3>1, <3>2
  <2>7. <<p, x>> \notin live
    BY <1>0, <2>3, <2>6, <2>H, HandedOfIs DEF HandsOut
  <2>8. Bounded(live', thread')
    <3>1. PICK i \in Nat, j \in Nat :
            i = Cardinality(live) /\ j = Cardinality(Busy(thread)) /\ i + j <= MaxLive
      BY BoundedIs
    <3>2. IsFiniteSet(live') /\ Cardinality(live') = i + 1
      BY <2>1, <2>7, <3>1, BoundedIs, FS_AddElement
    <3>3. Busy(thread') = Busy(thread) \ {t} /\ t \in Busy(thread)
      <4>1. Busy(thread') = Busy(thread) \ {t}
        BY <2>5, BusyIs
      <4> QED BY <1>0, <4>1 DEF Busy
    <3>4. IsFiniteSet(Busy(thread')) /\ Cardinality(Busy(thread')) = j - 1
      BY <3>1, <3>3, BoundedIs, FS_RemoveElement
    <3>5. (i + 1) + (j - 1) <= MaxLive
      BY <3>1, HeapAssumption
    <3> QED BY <3>2, <3>4, <3>5 DEF Bounded
  <2>9. thread'[t] = Idle /\ \A u \in Threads : u # t => thread'[u] = thread[u]
    BY <2>5, MovesIs
  <2>10. HandedOf(live', thread', p) = H \cup {x}
    <3>1. ASSUME NEW y PROVE y \in HandedOf(live', thread', p) <=> y \in H \cup {x}
      <4>1. y \in HandedOf(live', thread', p) <=> HandsOut(live', thread', p, y)
        BY <1>0, <2>6, HandedOfIs
      <4>2. y \in H <=> HandsOut(live, thread, p, y)
        BY <1>0, <2>6, <2>H, HandedOfIs
      <4>3. \A u \in Threads : /\ Frees(thread'[u]) <=> Frees(thread[u])
                               /\ Frees(thread[u]) => thread'[u] = thread[u]
        BY <1>0, <2>5, <2>9
      <4>4. <<p, y>> \in live' <=> <<p, y>> \in live \/ y = x
        BY <2>1
      <4> QED BY <4>1, <4>2, <4>3, <4>4 DEF HandsOut
    <3> QED BY <3>1
  <2> QED BY <1>0, <2>4, <2>5, <2>6, <2>8, <2>10, OwnKeeps
<1> QED BY <1>1, <1>2, <1>3

(* A thread that begins to free.                                           *)
FreeStarted(p, x) == [Idle EXCEPT !.pc = "free", !.page = p, !.block = x]
LEMMA FreeStartedIs ==
  ASSUME NEW p \in Pages, NEW x \in Offsets
  PROVE  /\ FreeStarted(p, x) \in ThreadRecord /\ FreeStarted(p, x).pc = "free"
         /\ FreeStarted(p, x).page = p /\ FreeStarted(p, x).block = x
<1>1. PICK v \in ThreadRecord : v = Idle
  BY IdleIs
<1>2. FreeStarted(p, x) = [v EXCEPT !.pc = "free", !.page = p, !.block = x]
  BY <1>1 DEF FreeStarted
<1>3. "free" \in Places
  BY DEF Places
<1> QED BY <1>2, <1>3 DEF ThreadRecord

(* mp_heap_free begins: the block is no longer handed out.                 *)
LEMMA FreeBeginBlocks ==
  ASSUME HeapInv, BlockInv, NEW t \in Threads, FreeBegin(t)
  PROVE  BlockInv'
<1>1. PICK b \in live :
        /\ page[b[1]].mutex = Nobody
        /\ page' = [page EXCEPT ![b[1]].mutex = t]
        /\ live' = live \ {b}
        /\ thread' = [thread EXCEPT ![t] =
             [Idle EXCEPT !.pc = "free", !.page = b[1], !.block = b[2]]]
  BY DEF FreeBegin
<1>p. PICK p, x : p = b[1] /\ x = b[2]
  OBVIOUS
<1>2. /\ p \in Pages /\ x \in Offsets /\ b = <<p, x>> /\ live \subseteq Pages \X Offsets
      /\ page[p].used /\ page[p].mutex = Nobody
  <2>1. live \subseteq Pages \X Offsets
    BY DEF BlockInv
  <2> QED BY <1>1, <1>p, <2>1 DEF HeapInv, Counted
<1>3. /\ UNCHANGED <<mutex, state>> /\ thread[t].pc = "idle" /\ ~Frees(thread[t])
      /\ ~(t \in Busy(thread))
  BY DEF FreeBegin, At, Frees, Busy
<1>v. PICK v : v = FreeStarted(p, x)
  OBVIOUS
<1>4. v \in ThreadRecord /\ v.pc = "free" /\ v.page = p /\ v.block = x
  BY <1>2, <1>v, FreeStartedIs
<1>5. thread' = [thread EXCEPT ![t] = v]
  BY <1>1, <1>p, <1>v DEF FreeStarted
<1>6. Moves(t, v) /\ Frees(v)
  BY <1>3, <1>4, <1>5, TypesKept DEF Moves, Allocates, Frees
<1>7. thread'[t] = v /\ \A u \in Threads : u # t => thread'[u] = thread[u]
  BY <1>6, MovesIs
<1>H. PICK H : H = HandedOf(live, thread, p)
  OBVIOUS
<1>r. PICK r : r = [page[p] EXCEPT !.mutex = t]
  OBVIOUS
<1>8. r \in PageRecord /\ HasBlocks(r, H) /\ page' = [page EXCEPT ![p] = r]
  <2>1. page[p] \in PageRecord /\ HasBlocks(page[p], H)
    BY <1>2, <1>H, UsedBlocks
  <2>2. page' = [page EXCEPT ![p] = r]
    BY <1>1, <1>p, <1>r
  <2> QED BY <1>r, <2>1, <2>2, MutexIs
<1>9. /\ live' = live \ {<<p, x>>} /\ live' \subseteq Pages \X Offsets
      /\ \A c : c[1] # p => (c \in live' <=> c \in live)
  <2>1. live' = live \ {<<p, x>>} /\ <<p, x>>[1] = p
    BY <1>1, <1>2
  <2> QED BY <1>2, <2>1
<1>10. Bounded(live', thread')
  <2>1. PICK i \in Nat, j \in Nat :
          i = Cardinality(live) /\ j = Cardinality(Busy(thread)) /\ i + j <= MaxLive
    BY BoundedIs
  <2>2. IsFiniteSet(live') /\ Cardinality(live') = i - 1
    <3>1. live' = live \ {b}
      BY <1>1
    <3> QED BY <2>1, <3>1, BoundedIs, FS_RemoveElement
  <2>3. Busy(thread') = Busy(thread) \cup {t}
    BY <1>4, <1>6, BusyIs
  <2>4. IsFiniteSet(Busy(thread')) /\ Cardinality(Busy(thread')) = j + 1
    BY <1>3, <2>1, <2>3, BoundedIs, FS_AddElement
  <2>5. (i - 1) + (j + 1) <= MaxLive
    BY <2>1, HeapAssumption
  <2> QED BY <2>2, <2>4, <2>5 DEF Bounded
<1>11. HandedOf(live', thread', p) = H
  <2>1. ASSUME NEW y PROVE y \in HandedOf(live', thread', p) <=> y \in H
    <3>1. y \in HandedOf(live', thread', p) <=> HandsOut(live', thread', p, y)
      BY <1>2, <1>9, HandedOfIs
    <3>2. y \in H <=> HandsOut(live, thread, p, y)
      BY <1>2, <1>H, HandedOfIs
    <3>3. <<p, y>> \in live' <=> <<p, y>> \in live /\ y # x
      BY <1>9
    <3>4. (\E u \in Threads : Frees(thread'[u]) /\ thread'[u].page = p /\ thread'[u].block = y)
            <=> (\E u \in Threads : Frees(thread[u]) /\ thread[u].page = p /\ thread[u].block = y)
                \/ y = x
      BY <1>3, <1>4, <1>6, <1>7
    <3>5. <<p, x>> \in live
      BY <1>2
    <3> QED BY <3>1, <3>2, <3>3, <3>4, <3>5 DEF HandsOut
  <2> QED BY <2>1
<1>12. <<p, v.block>> \notin live'
  BY <1>4, <1>9
<1> QED BY <1>2, <1>3, <1>4, <1>6, <1>8, <1>9, <1>10, <1>11, <1>12, OwnKeeps

(* It goes back into the tree, which may be defragmented.                  *)
LEMMA FreeBlocks ==
  ASSUME HeapInv, BlockInv, NEW t \in Threads, Free(t)
  PROVE  BlockInv'
<1>p. PICK p : p = thread[t].page
  OBVIOUS
<1>x. PICK x : x = thread[t].block
  OBVIOUS
<1>h. PICK h : h = [page[p] EXCEPT !.tree = Insert(@, x), !.free_count = @ + 1,
                                   !.free = Freed(page[p], x), !.allocated = @ - 1]
  OBVIOUS
<1>H. PICK H : H = HandedOf(live, thread, p)
  OBVIOUS
<1>0. /\ UNCHANGED <<mutex, live, state>> /\ thread[t].pc = "free" /\ Frees(thread[t])
      /\ p \in Pages /\ page[p].used /\ page[p].mutex = t /\ live \subseteq Pages \X Offsets
      /\ <<p, x>> \notin live
  <2>1. UNCHANGED <<mutex, live, state>> /\ thread[t].pc = "free"
    BY DEF Free, At
  <2>2. Frees(thread[t])
    BY <2>1 DEF Frees
  <2>3. p \in Pages /\ page[p].used /\ page[p].mutex = t
    BY <1>p, <2>1 DEF HeapInv, Working, Works, WorkOn
  <2>4. <<p, x>> \notin live /\ live \subseteq Pages \X Offsets
    BY <1>p, <1>x, <2>2 DEF BlockInv, ThreadOK
  <2> QED BY <2>1, <2>2, <2>3, <2>4
<1>1. page[p] \in PageRecord /\ HasBlocks(page[p], H)
  BY <1>0, <1>H, UsedBlocks
<1>2. x \in H
  BY <1>0, <1>H, <1>p, <1>x, HandedOfIs DEF HandsOut
<1>3. h \in PageRecord /\ HasBlocks(h, H \ {x})
  <2>1. h = GivenBack(page[p], x)
    BY <1>h DEF GivenBack
  <2> QED BY <1>1, <1>2, <2>1, FreedBlocks
<1>4. \/ /\ page' = [page EXCEPT ![p] = h] /\ Goes(t, "drop")
      \/ /\ page' = [page EXCEPT ![p] = [IF h.allocated = 0 THEN h ELSE Defragmented(h)
                                         EXCEPT !.mutex = Nobody]]
         /\ thread' = [thread EXCEPT ![t] = Idle]
  BY <1>p, <1>x, <1>h DEF Free
<1>5. PICK v, r :
        /\ thread' = [thread EXCEPT ![t] = v] /\ page' = [page EXCEPT ![p] = r]
        /\ v \in ThreadRecord /\ ~Frees(v) /\ ~Allocates(v)
        /\ r \in PageRecord /\ HasBlocks(r, H \ {x})
  <2>1. CASE page' = [page EXCEPT ![p] = h] /\ Goes(t, "drop")
    <3>1. PICK v : v = [thread[t] EXCEPT !.pc = "drop"]
      OBVIOUS
    <3>2. v \in ThreadRecord /\ v.pc = "drop"
      <4>1. "drop" \in Places
        BY DEF Places
      <4> QED BY <3>1, <4>1, HasRecord, RecordIs
    <3>3. thread' = [thread EXCEPT ![t] = v] /\ ~Frees(v) /\ ~Allocates(v)
      BY <2>1, <3>1, <3>2 DEF Goes, Frees, Allocates
    <3> QED BY <1>3, <2>1, <3>2, <3>3
  <2>2. CASE /\ page' = [page EXCEPT ![p] = [IF h.allocated = 0 THEN h ELSE Defragmented(h)
                                             EXCEPT !.mutex = Nobody]]
             /\ thread' = [thread EXCEPT ![t] = Idle]
    <3>1. PICK g : g = IF h.allocated = 0 THEN h ELSE Defragmented(h)
      OBVIOUS
    <3>2. g \in PageRecord /\ HasBlocks(g, H \ {x})
      BY <1>3, <3>1, DefragmentedBlocks
    <3>3. PICK r : r = [g EXCEPT !.mutex = Nobody]
      OBVIOUS
    <3>4. r \in PageRecord /\ HasBlocks(r, H \ {x})
      BY <3>2, <3>3, MutexIs
    <3>5. page' = [page EXCEPT ![p] = r]
      BY <2>2, <3>1, <3>3
    <3>6. Idle \in ThreadRecord /\ ~Frees(Idle) /\ ~Allocates(Idle)
      BY IdleIs DEF Frees, Allocates
    <3> QED BY <2>2, <3>4, <3>5, <3>6
  <2> QED BY <1>4, <2>1, <2>2
<1>6. Moves(t, v)
  BY <1>0, <1>5, TypesKept DEF Moves
<1>7. thread'[t] = v /\ \A u \in Threads : u # t => thread'[u] = thread[u]
  BY <1>6, MovesIs
<1>8. Bounded(live', thread')
  BY <1>0, <1>6, BoundedKept
<1>9. HandedOf(live', thread', p) = H \ {x}
  <2>1. ASSUME NEW y PROVE y \in HandedOf(live', thread', p) <=> y \in H /\ y # x
    <3>1. y \in HandedOf(live', thread', p) <=> HandsOut(live', thread', p, y)
      BY <1>0, HandedOfIs
    <3>2. y \in H <=> HandsOut(live, thread, p, y)
      BY <1>0, <1>H, HandedOfIs
    <3>3. \A u \in Threads : Frees(thread[u]) /\ thread[u].page = p => u = t
      BY <1>0, OneFrees
    <3>4. \A u \in Threads : ~(Frees(thread'[u]) /\ thread'[u].page = p)
      BY <1>5, <1>7, <3>3
    <3>5. (\E u \in Threads : Frees(thread[u]) /\ thread[u].page = p /\ thread[u].block = y) <=> y = x
      BY <1>0, <1>p, <1>x, <3>3
    <3> QED BY <1>0, <3>1, <3>2, <3>4, <3>5 DEF HandsOut
  <2> QED BY <2>1
<1>10. /\ live' \subseteq Pages \X Offsets /\ \A b : b[1] # p => (b \in live' <=> b \in live)
  BY <1>0
<1> QED BY <1>0, <1>5, <1>6, <1>8, <1>9, <1>10, <1>p, OwnKeeps

(* The page is unlocked.                                                   *)
LEMMA UnlockFreedBlocks ==
  ASSUME HeapInv, BlockInv, NEW t \in Threads, UnlockFreed(t)
  PROVE  BlockInv'
<1>1. /\ UNCHANGED <<page, mutex, live>> /\ thread' = [thread EXCEPT ![t] = Idle]
      /\ thread[t].pc = "unlock" /\ (state' = "foreign mutex unlocked" \/ state' = state)
  BY DEF UnlockFreed, At
<1>2. state' \in {"running", "aborted"} \cup Faults
  BY <1>1, TypesKept DEF Faults
<1>3. Moves(t, Idle)
  BY <1>1, <1>2, IdleIs, TypesKept DEF Moves, Allocates
<1>4. Quiet(t, Idle)
  BY <1>1, <1>3, IdleIs DEF Quiet, Frees
<1>5. Bounded(live', thread')
  BY <1>1, <1>3, BoundedKept
<1> QED BY <1>1, <1>4, <1>5, WalkKeeps

(* No block of a page that is not used is handed out.                      *)
LEMMA NoneHanded ==
  ASSUME HeapInv, BlockInv, NEW p \in Pages, ~page[p].used
  PROVE  HandedOf(live, thread, p) = {}
<1>1. live \subseteq Pages \X Offsets
  BY DEF BlockInv
<1>2. \A x : <<p, x>> \notin live
  <2>1. ASSUME NEW x, <<p, x>> \in live PROVE FALSE
    <3>1. page[<<p, x>>[1]].used
      BY <2>1 DEF HeapInv, Counted
    <3> QED BY <3>1
  <2> QED BY <2>1
<1>3. \A u \in Threads : ~(Frees(thread[u]) /\ thread[u].page = p)
  BY DEF HeapInv, Working, Works, WorkOn, Frees
<1>4. \A x : x \in HandedOf(live, thread, p) <=> HandsOut(live, thread, p, x)
  BY <1>1, HandedOfIs
<1> QED BY <1>2, <1>3, <1>4 DEF HandsOut

(* A page is added: one free block.                                        *)
LEMMA NewPageBlocks ==
  ASSUME HeapInv, BlockInv, NEW t \in Threads, NewPage(t)
  PROVE  BlockInv'
<1>0. UNCHANGED live /\ thread[t].pc = "new" /\ Allocates(thread[t])
  BY DEF NewPage, At, Allocates
<1>1. CASE UNCHANGED <<page, mutex, thread>> /\ state' = "aborted"
  BY <1>0, <1>1, Stays, TypesKept
<1>2. ASSUME NEW p \in Pages, ~page[p].used, page' = [page EXCEPT ![p] = FreshPage],
             mutex' = Nobody, UNCHANGED state,
             thread' = [thread EXCEPT ![t].pc = "lock", ![t].page = p]
      PROVE  BlockInv'
  <2>1. PICK v : v = [thread[t] EXCEPT !.pc = "lock", !.page = p]
    OBVIOUS
  <2>2. thread' = [thread EXCEPT ![t] = v]
    BY <1>2, <2>1
  <2>3. v \in ThreadRecord /\ v.pc = "lock" /\ v.units = thread[t].units
    <3>1. "lock" \in Places /\ p \in Pages \cup {Nobody} /\ thread[t] \in ThreadRecord
      BY HasRecord DEF Places
    <3>2. v = Turned(thread[t], "lock", p)
      BY <2>1 DEF Turned
    <3> QED BY <3>1, <3>2, TurnedIs
  <2>4. ~Frees(v)
    BY <2>3 DEF Frees
  <2>5. Quiet(t, v) /\ Bounded(live', thread')
    <3>1. mutex' \in Threads \cup {Nobody} /\ state' \in {"running", "aborted"} \cup Faults
      BY <1>2, TypesKept
    <3> QED BY <1>0, <2>2, <2>3, <2>4, <3>1, Walks
  <2>6. HandedOf(live, thread, p) = {}
    BY <1>2, NoneHanded
  <2>7. /\ page' = [q \in Pages |-> page'[q]] /\ DOMAIN page' = Pages
        /\ page'[p] = FreshPage /\ \A q \in Pages : q # p => page'[q] = page[q]
    BY <1>2, TypesKept
  <2>8. page'[p] \in PageRecord /\ HasBlocks(page'[p], HandedOf(live, thread, p))
    BY <2>6, <2>7, FreshBlocks
  <2>9. \A q \in Pages : \/ page'[q] = page[q]
                         \/ page'[q] \in PageRecord /\ HasBlocks(page'[q], HandedOf(live, thread, q))
    BY <2>7, <2>8
  <2> QED BY <2>5, <2>7, <2>9, QuietKeeps
<1> QED BY <1>1, <1>2 DEF NewPage

(* A page without blocks in use is dropped.                                *)
LEMMA DropPageBlocks ==
  ASSUME HeapInv, BlockInv, NEW t \in Threads, DropPage(t)
  PROVE  BlockInv'
<1>p. PICK p : p = thread[t].page
  OBVIOUS
<1>1. /\ thread[t].pc = "drop" /\ UNCHANGED <<mutex, live, state>>
      /\ page' = [page EXCEPT ![p] = Unused] /\ Goes(t, "unlock")
  BY <1>p DEF DropPage, At
<1>2. p \in Pages
  BY <1>p, <1>1 DEF HeapInv, Working, Works
<1>3. PICK v : v = [thread[t] EXCEPT !.pc = "unlock"]
  OBVIOUS
<1>4. v \in ThreadRecord /\ v.pc = "unlock" /\ thread' = [thread EXCEPT ![t] = v]
  <2>1. "unlock" \in Places
    BY DEF Places
  <2>2. v \in ThreadRecord /\ v.pc = "unlock"
    BY <1>3, <2>1, HasRecord, RecordIs
  <2> QED BY <1>1, <1>3, <2>2 DEF Goes
<1>5. Moves(t, v)
  BY <1>1, <1>4, TypesKept DEF Moves, Allocates
<1>6. Quiet(t, v)
  BY <1>1, <1>4, <1>5 DEF Quiet, Frees
<1>7. Bounded(live', thread')
  BY <1>1, <1>5, BoundedKept
<1>8. /\ page' = [q \in Pages |-> page'[q]] /\ DOMAIN page' = Pages
      /\ \A q \in Pages : page'[q] = page[q] \/ page'[q] = Unused
  BY <1>1, <1>2, TypesKept
<1> QED BY <1>6, <1>7, <1>8, QuietKeeps

(* The heap begins without pages.                                          *)
LEMMA BlockInitInv == Init => BlockInv
<1> SUFFICES ASSUME Init PROVE BlockInv
  OBVIOUS
<1>1. /\ page = [p \in Pages |-> Unused] /\ mutex = Nobody
      /\ live = {} /\ thread = [t \in Threads |-> Idle] /\ state = "running"
  BY DEF Init
<1>2. Bounded(live, thread)
  <2>1. Busy(thread) = {}
    BY <1>1, IdleIs DEF Busy
  <2> QED BY <1>1, <2>1, FS_EmptySet, HeapAssumption DEF Bounded
<1>3. page \in [Pages -> PageRecord] /\ \A p \in Pages : page[p] = Unused
  BY <1>1, UnusedIs
<1>4. \A t \in Threads : ThreadOK(thread[t], live)
  BY <1>1, IdleIs
<1> QED BY <1>1, <1>2, <1>3, <1>4 DEF BlockInv

(* Every step keeps BlockInv.                                              *)
LEMMA BlockStepInv ==
  ASSUME HeapInv, BlockInv, [Next]_vars
  PROVE  BlockInv'
<1>1. ASSUME NEW t \in Threads, Step(t) PROVE BlockInv'
  BY <1>1, AllocBeginBlocks, ScanPageBlocks, ScanAgainBlocks, TryAddBlocks, AwaitPageBlocks,
     NewPageBlocks, LockPageBlocks, TakeBlocks, FreeBeginBlocks, FreeBlocks, DropPageBlocks,
     UnlockFreedBlocks DEF Step
<1>2. CASE UNCHANGED vars
  BY <1>2, Stays, TypesKept DEF vars
<1> QED BY <1>1, <1>2 DEF Next, Stopped
-----------------------------------------------------------------------------
(***************************************************************************)
(* What BlockInv says.                                                     *)
(***************************************************************************)
(* A set has at least as many members as its image.                        *)
LEMMA ImageFinite ==
  ASSUME NEW S, IsFiniteSet(S), NEW f
  PROVE  /\ IsFiniteSet({f[x] : x \in S}) /\ Cardinality({f[x] : x \in S}) <= Cardinality(S)
         /\ Cardinality({f[x] : x \in S}) \in Nat
<1>1. PICK T : T = {f[x] : x \in S}
  OBVIOUS
<1>2. PICK g : g = [x \in S |-> f[x]]
  OBVIOUS
<1>3. g \in Surjection(S, T)
  BY <1>1, <1>2 DEF Surjection
<1>4. IsFiniteSet(T) /\ Cardinality(T) <= Cardinality(S)
  BY <1>3, FS_Surjection
<1> QED BY <1>1, <1>4, FS_CardinalityType

(* At most MaxLive blocks of a page are in use.                            *)
LEMMA HandedBounded ==
  ASSUME BlockInv, NEW p \in Pages
  PROVE  Cardinality(HandedOf(live, thread, p)) <= MaxLive
<1>1. PICK A, B : /\ A = {c \in live : c[1] = p}
                  /\ B = {u \in Threads : thread[u].pc = "free" /\ thread[u].page = p}
  OBVIOUS
<1>2. PICK i \in Nat, j \in Nat :
        i = Cardinality(live) /\ j = Cardinality(Busy(thread)) /\ i + j <= MaxLive
  BY BoundedIs
<1>3. /\ IsFiniteSet(A) /\ Cardinality(A) <= i /\ IsFiniteSet(B) /\ Cardinality(B) <= j
      /\ Cardinality(A) \in Nat /\ Cardinality(B) \in Nat
  <2>1. A \in SUBSET live /\ B \in SUBSET Busy(thread)
    BY <1>1 DEF Busy
  <2> QED BY <1>2, <2>1, BoundedIs, FS_Subset, FS_CardinalityType
<1>4. PICK f, g : f = [b \in A |-> b[2]] /\ g = [u \in B |-> thread[u].block]
  OBVIOUS
<1>5. PICK X, Y : X = {f[b] : b \in A} /\ Y = {g[u] : u \in B}
  OBVIOUS
<1>6. HandedOf(live, thread, p) = X \cup Y
  <2>1. X = {b[2] : b \in A} /\ Y = {thread[u].block : u \in B}
    BY <1>4, <1>5
  <2> QED BY <1>1, <2>1 DEF HandedOf
<1>7. PICK k \in Nat, l \in Nat : k = Cardinality(X) /\ l = Cardinality(Y) /\ k <= i /\ l <= j
  <2>1. /\ Cardinality(X) <= Cardinality(A) /\ Cardinality(X) \in Nat
        /\ Cardinality(Y) <= Cardinality(B) /\ Cardinality(Y) \in Nat
    BY <1>3, <1>5, ImageFinite
  <2> QED BY <1>3, <2>1
<1>8. IsFiniteSet(X) /\ IsFiniteSet(Y)
  BY <1>3, <1>5, ImageFinite
<1>9. PICK m \in Nat : m = Cardinality(X \cap Y)
  <2>1. IsFiniteSet(X \cap Y)
    BY <1>8, FS_Subset
  <2> QED BY <2>1, FS_CardinalityType
<1>10. Cardinality(X \cup Y) = k + l - m
  BY <1>7, <1>8, <1>9, FS_Union
<1>11. k + l - m <= MaxLive
  BY <1>2, <1>7, HeapAssumption
<1> QED BY <1>6, <1>10, <1>11

(* HandedOf is the set that the property names.                            *)
LEMMA HandedIs == \A p : Handed(p) = HandedOf(live, thread, p)
BY DEF Handed, HandedOf

(* The nodes that mp_heap_btree_linearize lists are the blocks of the tree.*)
LEMMA InTreeIs ==
  ASSUME NEW p, NEW F, IsTree(page[p].tree, F)
  PROVE  InTree(p) = F /\ Len(Linear(page[p].tree)) = Cardinality(F)
<1>1. PICK par, sub : Tree(page[p].tree, F, par, sub)
  BY DEF IsTree
<1>2. Lists(Linear(page[p].tree), F)
  BY <1>1, LinearLists
<1> QED BY <1>2 DEF Lists, InTree

(* The invariants imply TypeOK,                                            *)
LEMMA BlockTypes == HeapInv /\ BlockInv => TypeOK
<1> SUFFICES ASSUME HeapInv, BlockInv PROVE TypeOK
  OBVIOUS
<1>1. ASSUME NEW p \in Pages
      PROVE  /\ page[p].tree.root \in Offsets \cup {None}
             /\ \A x \in Offsets : page[p].tree.node[x] \in Header
             /\ page[p].free \in 0 .. Units /\ page[p].allocated \in 0 .. MaxLive
             /\ page[p].free_count \in 0 .. Units
             /\ page[p].defrag_period \in 0 .. DefragPeriod
             /\ page[p].mutex \in Threads \cup {Nobody} /\ page[p].used \in BOOLEAN
  <2>1. page[p] \in PageRecord
    BY DEF BlockInv
  <2>2. /\ page[p].tree \in TreeType /\ page[p].defrag_period \in 0 .. DefragPeriod
        /\ page[p].mutex \in Threads \cup {Nobody} /\ page[p].used \in BOOLEAN
        /\ page[p].free \in Nat /\ page[p].allocated \in Nat /\ page[p].free_count \in Nat
    BY <2>1 DEF PageRecord
  <2>3. page[p].tree.root \in Offsets \cup {None} /\ \A x \in Offsets : page[p].tree.node[x] \in Header
    BY <2>2 DEF TreeType
  <2>4. page[p].free <= Units /\ page[p].allocated <= MaxLive /\ page[p].free_count <= Units
    <3>1. CASE page[p] = Unused
      <4>1. page[p].free = 0 /\ page[p].allocated = 0 /\ page[p].free_count = 0
        BY <3>1 DEF Unused
      <4> QED BY <4>1, HeapAssumption, TreeAssumption
    <3>2. CASE HasBlocks(page[p], HandedOf(live, thread, p))
      <4>1. PICK F : Blocks(page[p], F, HandedOf(live, thread, p))
        BY <3>2 DEF HasBlocks
      <4>2. page[p].allocated <= MaxLive
        BY <4>1, HandedBounded DEF Blocks
      <4>3. page[p].free \in 0 .. Units
        BY <4>1, PointsFinite DEF Blocks
      <4>4. Cardinality(F) <= Units
        <5>1. F \in SUBSET Offsets
          BY <4>1 DEF Blocks, Tiled
        <5> QED BY <5>1, OffsetsFinite, FS_Subset
      <4> QED BY <4>1, <4>2, <4>3, <4>4, TreeAssumption DEF Blocks
    <3> QED BY <3>1, <3>2 DEF BlockInv
  <2> QED BY <2>2, <2>3, <2>4, HeapAssumption, TreeAssumption
<1>2. \A k \in DOMAIN list : list[k] \in Pages
  <2>1. list \in Seq(Pages)
    BY DEF HeapInv, Listed
  <2> QED BY <2>1
<1>3. last \in Pages \cup {Nobody}
  BY DEF HeapInv, Listed
<1>4. \A t \in Threads : thread[t].page \in Pages \cup {Nobody}
  BY HasRecord DEF ThreadRecord
<1> QED BY <1>1, <1>2, <1>3, <1>4 DEF TypeOK, BlockInv

(* and BlocksTilePage,                                                     *)
LEMMA BlockInvTiles == HeapInv /\ BlockInv => BlocksTilePage
<1> SUFFICES ASSUME HeapInv, BlockInv PROVE BlocksTilePage
  OBVIOUS
<1> DEFINE Tiles(p) ==
      LET node == page[p].tree.node
          blocks == InTree(p) \cup Handed(p)
      IN /\ InTree(p) \cap Handed(p) = {}
         /\ {x + node[x].size : x \in blocks} \cup {0} = blocks \cup {Units}
         /\ \A x, y \in blocks : x < y => x + node[x].size <= y
         /\ Len(Linear(page[p].tree)) = Cardinality(InTree(p))
         /\ page[p].free_count = Cardinality(InTree(p))
         /\ page[p].allocated = Cardinality(Handed(p))
         /\ page[p].free = Cardinality(UNION {x .. x + node[x].size - 1 : x \in InTree(p)})
<1>1. ASSUME NEW p \in Pages, page[p].used PROVE Tiles(p)
  <2>H. PICK H : H = Handed(p)
    OBVIOUS
  <2>1. PICK F : Blocks(page[p], F, H)
    BY <1>1, <2>H, HandedIs, UsedBlocks DEF HasBlocks
  <2>t. PICK t : t = page[p].tree
    OBVIOUS
  <2>z. PICK z : z = Sz(t)
    OBVIOUS
  <2>2. /\ IsTree(t, F) /\ Tiled(z, F, H) /\ page[p].free = Cardinality(Points(z, F))
        /\ page[p].free_count = Cardinality(F) /\ page[p].allocated = Cardinality(H)
    BY <2>1, <2>t, <2>z DEF Blocks
  <2>3. InTree(p) = F /\ Len(Linear(t)) = Cardinality(F)
    BY <2>2, <2>t, InTreeIs
  <2>4. \A x \in F \cup H : t.node[x].size = z[x]
    BY <2>2, <2>z, TiledFacts DEF Sz, SizeAt
  <2>5. {x + t.node[x].size : x \in F \cup H} \cup {0} = F \cup H \cup {Units}
    <3>1. {x + t.node[x].size : x \in F \cup H} = {x + z[x] : x \in F \cup H}
      BY <2>4
    <3>2. 0 \in F \cup H /\ \A x \in F \cup H : x + z[x] \in F \cup H \cup {Units}
      BY <2>2 DEF Tiled
    <3>3. \A e \in F \cup H \cup {Units} : e = 0 \/ \E x \in F \cup H : x + z[x] = e
      BY <2>2 DEF Tiled
    <3>4. {x + z[x] : x \in F \cup H} \cup {0} = F \cup H \cup {Units}
      BY <3>2, <3>3
    <3> QED BY <3>1, <3>4
  <2>6. \A x, y \in F \cup H : x < y => x + t.node[x].size <= y
    BY <2>2, <2>4 DEF Tiled
  <2>7. F \cap H = {}
    BY <2>2 DEF Tiled
  <2>8. UNION {x .. x + t.node[x].size - 1 : x \in F} = Points(z, F)
    BY <2>4 DEF Points
  <2>9. /\ InTree(p) \cap Handed(p) = {}
        /\ {x + t.node[x].size : x \in F \cup H} \cup {0} = (InTree(p) \cup Handed(p)) \cup {Units}
        /\ InTree(p) \cup Handed(p) = F \cup H
    BY <2>3, <2>5, <2>7, <2>H
  <2>10. /\ Len(Linear(t)) = Cardinality(InTree(p)) /\ page[p].free_count = Cardinality(InTree(p))
         /\ page[p].allocated = Cardinality(Handed(p))
         /\ page[p].free = Cardinality(UNION {x .. x + t.node[x].size - 1 : x \in InTree(p)})
    BY <2>2, <2>3, <2>8, <2>H
  <2> QED BY <2>6, <2>9, <2>10, <2>t
<1>2. TypeOK
  BY BlockTypes
<1> QED BY <1>1, <1>2 DEF BlocksTilePage

(* Min, as the property uses it.                                           *)
LEMMA LeastIs ==
  ASSUME NEW T \in SUBSET Nat, NEW m \in T, \A k \in T : m <= k
  PROVE  Min(T) = m
<1>1. \A k \in T : (\A l \in T : k <= l) => k = m
  OBVIOUS
<1>2. Min(T) \in T /\ \A l \in T : Min(T) <= l
  BY DEF Min
<1> QED BY <1>1, <1>2

(* and SearchFindsBestFit.                                                 *)
LEMMA BlockInvFinds == BlockInv => SearchFindsBestFit
<1> SUFFICES ASSUME BlockInv, NEW p \in Pages, page[p].tree.root # None, NEW n \in 1 .. Units
             PROVE  LET sizes == {page[p].tree.node[x].size : x \in InTree(p)}
                        large == {s \in sizes : s >= n}
                        found == BestFit(page[p].tree, n)
                    IN IF large = {} THEN found = None
                       ELSE found # None /\ page[p].tree.node[found].size = Min(large)
  BY DEF SearchFindsBestFit
<1>t. PICK t : t = page[p].tree
  OBVIOUS
<1>1. PICK F, par, sub : Tree(t, F, par, sub)
  <2>1. page[p] # Unused
    BY UnusedIs DEF Unused
  <2>2. HasBlocks(page[p], HandedOf(live, thread, p))
    BY <2>1 DEF BlockInv
  <2> QED BY <1>t, <2>2 DEF HasBlocks, Blocks, IsTree
<1>2. InTree(p) = F
  BY <1>1, <1>t, InTreeIs DEF IsTree
<1>L. PICK L : L = {s \in {t.node[x].size : x \in F} : s >= n}
  OBVIOUS
<1>f. PICK f : f = BestFit(t, n)
  OBVIOUS
<1>3. n \in Nat /\ t.root # None /\ t \in TreeType /\ F \subseteq Offsets
  BY <1>1, <1>t DEF Tree
<1>4. \A x \in F : t.node[x].size = SizeAt(t, x) /\ SizeAt(t, x) \in Nat
  <2>1. \A x \in F : SizeAt(t, x) \in Nat
    BY <1>3, ChildType, TreeAssumption
  <2> QED BY <2>1 DEF SizeAt
<1>5. L \in SUBSET Nat /\ \A s : s \in L <=> \E x \in F : s = SizeAt(t, x) /\ SizeAt(t, x) >= n
  BY <1>4, <1>L
<1>6. CASE L = {}
  <2>1. \A x \in F : ~(SizeAt(t, x) >= n)
    BY <1>5, <1>6
  <2>2. f = None
    BY <1>1, <1>3, <1>f, <2>1, BestFitIs
  <2> QED BY <1>2, <1>6, <1>L, <1>f, <1>t, <2>2
<1>7. CASE L # {}
  <2>1. \E x \in F : SizeAt(t, x) >= n
    BY <1>5, <1>7
  <2>2. /\ f \in F /\ SizeAt(t, f) >= n
        /\ \A x \in F : SizeAt(t, x) >= n => SizeAt(t, f) <= SizeAt(t, x)
    BY <1>1, <1>3, <1>f, <2>1, BestFitIs
  <2>3. SizeAt(t, f) \in L /\ \A k \in L : SizeAt(t, f) <= k
    BY <1>5, <2>2
  <2>4. Min(L) = SizeAt(t, f)
    BY <1>5, <2>3, LeastIs
  <2>5. f # None
    BY <1>3, <2>2, NoneIs
  <2>6. t.node[f].size = Min(L)
    BY <1>4, <2>2, <2>4
  <2> QED BY <1>2, <1>7, <1>L, <1>f, <1>t, <2>5, <2>6
<1> QED BY <1>6, <1>7

(* mp_heap_alloc, mp_heap_free, mp_heap_page_defrag and mp_heap_page_free: *)
(* whatever the threads allocate and free, in any order, the blocks of a   *)
(* page, those in the tree and those handed out, tile its memory, and the  *)
(* page counts them; types included.                                       *)
THEOREM PagesTiled == Spec => []BlocksTilePage
<1>1. HeapInv /\ BlockInv /\ [Next]_vars => HeapInv' /\ BlockInv'
  BY HeapStepInv, BlockStepInv
<1>2. HeapInv /\ BlockInv => BlocksTilePage
  BY BlockInvTiles
<1> QED BY <1>1, <1>2, HeapInitInv, BlockInitInv, PTL DEF Spec

(* mp_heap_btree_find_delete (mempool.c:525, "best fit policy"): in any    *)
(* tree the insertions and deletions may have built, the search finds a    *)
(* smallest one of the blocks that are large enough, if there is one.      *)
THEOREM BestFitFound == Spec => []SearchFindsBestFit
<1>1. HeapInv /\ BlockInv /\ [Next]_vars => HeapInv' /\ BlockInv'
  BY HeapStepInv, BlockStepInv
<1> QED BY <1>1, HeapInitInv, BlockInitInv, BlockInvFinds, PTL DEF Spec
=============================================================================
