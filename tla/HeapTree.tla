------------------------------ MODULE HeapTree ------------------------------
(***************************************************************************)
(* The free tree of a heap page (libtscommon/src/mempool.c): a binary      *)
(* search tree by size, kept in the headers of the free blocks.  A header  *)
(* stands at the offset of its block; a child that is the node itself      *)
(* stands for no child (the code keeps the distance, 0).  Blocks of equal  *)
(* size go to the left.                                                    *)
(***************************************************************************)
EXTENDS Integers, Sequences

CONSTANT Units    \* units of a page

ASSUME TreeAssumption == Units \in Nat \ {0}

Offsets == 0 .. Units - 1
None == -1

(* A tree is [root, node]; node gives the header at each offset.           *)
Linked(t, parent, side, child) ==
  CASE side = "left" -> [t EXCEPT !.node[parent].left = child]
    [] side = "right" -> [t EXCEPT !.node[parent].right = child]
    [] side = "root" -> [t EXCEPT !.root = child]

Unlinked(t, x) == [t EXCEPT !.node[x].left = x, !.node[x].right = x]

Child(t, x, side) == IF side = "left" THEN t.node[x].left ELSE t.node[x].right
HasChild(t, x, side) == Child(t, x, side) # x

(* A slip the runs must notice: larger blocks that go to the left.         *)
SlipSide(size, other) == "left"

(* mp_heap_btree_insert                                                    *)
Moved(t, from, to) ==
  [t EXCEPT !.node[to].left = IF HasChild(t, from, "left") THEN t.node[from].left ELSE to]
Side(size, other) == IF size > other THEN "right" ELSE "left"

(* The tree with x put below a node.                                       *)
Below(t, x) ==
  LET size == t.node[x].size
      below[p \in Offsets] ==
        LET s == Side(size, t.node[p].size)
        IN IF size = t.node[p].size THEN Linked(Moved(t, p, x), p, "left", x)
           ELSE IF HasChild(t, p, s) THEN below[Child(t, p, s)]
           ELSE Linked(t, p, s, x)
  IN below

Insert(tree, x) ==
  LET t == Unlinked(tree, x)
  IN IF t.root = None THEN Linked(t, None, "root", x) ELSE Below(t, x)[t.root]

(* mp_heap_btree_delete: a node with one child is replaced by it, one with *)
(* two by the leftmost node of its right subtree.                          *)
DeleteOne(t, parent, x, side) ==
  LET tail == CASE HasChild(t, x, "left") -> t.node[x].left
                [] ~HasChild(t, x, "left") /\ HasChild(t, x, "right") -> t.node[x].right
                [] OTHER -> parent
  IN Unlinked(Linked(t, parent, side, tail), x)

(* The parent of the leftmost node below a node with a left child.         *)
Leftmost(t) ==
  LET leftmost[p \in Offsets] ==
        IF HasChild(t, t.node[p].left, "left") THEN leftmost[t.node[p].left] ELSE p
  IN leftmost

Delete(t, parent, x, side) ==
  LET direct == ~HasChild(t, t.node[x].right, "left")
      tparent == IF direct THEN x ELSE Leftmost(t)[t.node[x].right]
      tail == IF direct THEN t.node[x].right ELSE t.node[tparent].left
      rest == DeleteOne(t, tparent, tail, IF direct THEN "right" ELSE "left")
      replaced == [rest EXCEPT
        !.node[tail].left = rest.node[x].left,
        !.node[tail].right = IF HasChild(rest, x, "right") THEN rest.node[x].right ELSE tail]
  IN IF HasChild(t, x, "left") /\ HasChild(t, x, "right")
     THEN Unlinked(Linked(replaced, parent, side, tail), x)
     ELSE DeleteOne(t, parent, x, side)

(* mp_heap_btree_find_delete: the nodes it visits, and the best of them.   *)
Turn(t, p, units) ==
  IF t.node[p].size > units THEN "left" ELSE IF t.node[p].size < units THEN "right" ELSE "none"
Path(t, units) ==
  LET path[p \in Offsets] ==
        LET s == Turn(t, p, units)
        IN <<p>> \o (IF s # "none" /\ HasChild(t, p, s) THEN path[Child(t, p, s)] ELSE <<>>)
  IN path
Visited(t, units) == Path(t, units)[t.root]

Best(t, units) ==
  LET path == Visited(t, units)
      Large == {k \in DOMAIN path : t.node[path[k]].size >= units}
  IN IF Large = {} THEN None
     ELSE CHOOSE k \in Large : \A j \in Large :
            \/ t.node[path[k]].size < t.node[path[j]].size
            \/ t.node[path[k]].size = t.node[path[j]].size /\ k >= j

BestFit(t, units) ==
  IF Best(t, units) = None THEN None ELSE Visited(t, units)[Best(t, units)]

FindDelete(t, units) ==
  LET path == Visited(t, units)
      k == Best(t, units)
      parent == path[k - 1]
  IN IF k = 1 THEN Delete(t, None, path[1], "root")
     ELSE Delete(t, parent, path[k], IF t.node[parent].left = path[k] THEN "left" ELSE "right")

(* mp_heap_btree_linearize                                                 *)
Nodes(t) ==
  LET nodes[p \in Offsets] ==
        <<p>> \o (IF HasChild(t, p, "left") THEN nodes[t.node[p].left] ELSE <<>>)
              \o (IF HasChild(t, p, "right") THEN nodes[t.node[p].right] ELSE <<>>)
  IN nodes
Linear(t) == IF t.root = None THEN <<>> ELSE Nodes(t)[t.root]
=============================================================================
