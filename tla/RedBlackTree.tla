---------------------------- MODULE RedBlackTree ----------------------------
(***************************************************************************)
(* Tree-RB-tree/RBtree.h: the red-black tree.  Insert and Delete place or  *)
(* remove a node in one step; each round of the loops that balance the     *)
(* tree afterwards is another.                                             *)
(***************************************************************************)
EXTENDS SearchTree

VARIABLES color,    \* Color of the nodes
          pc,       \* "idle", or the loop that runs: "insert" or "delete"
          curr      \* its curr, or its child

rbVars == << treeVars, color, pc, curr >>

RBInit ==
  /\ TreeInit
  /\ color = [n \in Places |-> "BLACK"]
  /\ pc = "idle"
  /\ curr = Nil

IsRed(n) == color[n] = "RED"

(* Mutant of the rotations: the child that changes sides keeps its Parent. *)
Rotated_OldParent(t, n, side) ==
  LET up == t.child[Other(side)][n]
      x == t.child[side][up]
  IN [Relink(t, t.parent[n], n, up) EXCEPT
        !.parent[up] = t.parent[n], !.child[side][up] = n, !.parent[n] = up,
        !.child[Other(side)][n] = x]

(* RotateLeft or RotateRight at n: its other child comes up.  The Parent   *)
(* of Nil_ is not written.                                                 *)
Rotated(t, n, side) ==
  LET up == t.child[Other(side)][n]
      x == t.child[side][up]
  IN [Relink(t, t.parent[n], n, up) EXCEPT
        !.parent[up] = t.parent[n], !.child[side][up] = n, !.parent[n] = up,
        !.child[Other(side)][n] = x,
        !.parent[x] = IF x = Nil THEN @ ELSE n]

SideOf(n) ==
  IF tree.child["left"][tree.parent[n]] = n THEN "left" ELSE "right"

-----------------------------------------------------------------------------
(* Insert. *)

RBInsertAgain(key) ==
  /\ pc = "idle"
  /\ InsertAgain(key)
  /\ UNCHANGED << color, pc, curr >>

(* The first node is black, any other red; a red parent calls for the loop. *)
RBInsert(key) ==
  LET above == ParentOf(key) IN
  /\ pc = "idle"
  /\ NewNode(key)
  /\ color' = [color EXCEPT ![key] = IF above = Nil THEN "BLACK" ELSE "RED"]
  /\ \/ /\ IsRed(above)
        /\ pc' = "insert" /\ curr' = key
     \/ /\ ~IsRed(above)
        /\ UNCHANGED << pc, curr >>

Grand == tree.parent[tree.parent[curr]]
Uncle == tree.child[Other(SideOf(tree.parent[curr]))][Grand]
InsertRound == pc = "insert" /\ IsRed(tree.parent[curr])

(* Case 1: the uncle is red.                                               *)
InsertRecolor ==
  /\ InsertRound
  /\ IsRed(Uncle)
  /\ color' = [color EXCEPT ![tree.parent[curr]] = "BLACK",
                            ![Uncle] = "BLACK", ![Grand] = "RED"]
  /\ curr' = Grand
  /\ UNCHANGED << treeVars, pc >>

(* Case 2: curr is an inner child.                                         *)
InsertInner ==
  LET side == SideOf(tree.parent[curr]) IN
  /\ InsertRound
  /\ ~IsRed(Uncle)
  /\ SideOf(curr) # side
  /\ tree' = Rotated(tree, tree.parent[curr], side)
  /\ curr' = tree'.child[side][curr]
  /\ UNCHANGED << count, nodes, returned, color, pc >>

(* Case 3: curr is an outer child.                                         *)
InsertOuter ==
  LET side == SideOf(tree.parent[curr]) IN
  /\ InsertRound
  /\ ~IsRed(Uncle)
  /\ SideOf(curr) = side
  /\ color' = [color EXCEPT ![tree.parent[curr]] = "BLACK", ![Grand] = "RED"]
  /\ tree' = Rotated(tree, Grand, Other(side))
  /\ UNCHANGED << count, nodes, returned, pc, curr >>

(* The loop is over.                                                       *)
InsertEnds ==
  /\ pc = "insert"
  /\ ~IsRed(tree.parent[curr])
  /\ \/ /\ curr = tree.root
        /\ color' = [color EXCEPT ![curr] = "BLACK"]
        /\ UNCHANGED tree
     \/ /\ curr # tree.root
        /\ tree' = IF Grand = Nil THEN [tree EXCEPT !.root = tree.parent[curr]]
                                  ELSE tree
        /\ UNCHANGED color
  /\ pc' = "idle" /\ curr' = Nil
  /\ UNCHANGED << count, nodes, returned >>

-----------------------------------------------------------------------------
(* Delete. *)

RBDeleteMissing(key) ==
  /\ pc = "idle"
  /\ DeleteMissing(key)
  /\ UNCHANGED << color, pc, curr >>

(* The child that takes the place of a node, Nil_ too, gets its parent.    *)
Spliced(n, above) ==
  [Relink(tree, above, n, OnlyChild(n)) EXCEPT !.parent[OnlyChild(n)] = above]

(* RedBlackBalancing(gone, child) begins: a red node may just go.          *)
BeginBalancing(gone, child) ==
  \/ /\ IsRed(gone)
     /\ UNCHANGED << pc, curr >>
  \/ /\ ~IsRed(gone)
     /\ pc' = "delete" /\ curr' = child

RBDeleteOne(key) ==
  LET x == OnlyChild(key) IN
  /\ pc = "idle"
  /\ Find(key) /\ ~HasTwo(key)
  /\ tree' = Freed(Spliced(key, ParentOf(key)), key)
  /\ color' = [color EXCEPT ![x] = IF key = tree.root THEN "BLACK" ELSE @,
                            ![key] = "BLACK"]
  /\ CountDeleted(key)
  /\ BeginBalancing(key, x)

(* The successor's key is copied, and the successor goes.                  *)
RBDeleteTwo(key) ==
  LET s == Successor(key) IN
  /\ pc = "idle"
  /\ Find(key) /\ HasTwo(key)
  /\ tree' = Renamed(Spliced(s, SuccessorParent(key)), key, s)
  /\ color' = [color EXCEPT ![s] = color[key], ![key] = "BLACK"]
  /\ CountDeleted(key)
  /\ BeginBalancing(s, OnlyChild(s))

(* The rounds of RedBlackBalancing: one black node is missing below curr.  *)
Above == tree.parent[curr]
Side == SideOf(curr)
Sibling == tree.child[Other(Side)][Above]
Inner == tree.child[Side][Sibling]
Outer == tree.child[Other(Side)][Sibling]
DeleteRound == pc = "delete" /\ curr # tree.root /\ ~IsRed(curr)

(* The returns of the loop.  Mutant: they are missing.                     *)
Leaves_GoesOn == UNCHANGED << pc, curr >>
Leaves == pc' = "idle" /\ curr' = Nil

(* curr is the root, or red (case 2).                                      *)
BalancingEnds ==
  /\ pc = "delete"
  /\ curr = tree.root \/ IsRed(curr)
  /\ color' = IF curr = tree.root THEN color
              ELSE [color EXCEPT ![curr] = "BLACK"]
  /\ Leaves
  /\ UNCHANGED treeVars

(* Case 3: the sibling is red.                                             *)
SiblingRed ==
  /\ DeleteRound
  /\ IsRed(Sibling)
  /\ color' = [color EXCEPT ![Sibling] = "BLACK", ![Above] = "RED"]
  /\ tree' = Rotated(tree, Above, Side)
  /\ UNCHANGED << count, nodes, returned, pc, curr >>

(* Case 4: the sibling and its children are black; the parent is next.     *)
SiblingBlack ==
  /\ DeleteRound
  /\ ~IsRed(Sibling) /\ ~IsRed(Inner) /\ ~IsRed(Outer)
  /\ color' = [color EXCEPT ![Sibling] = "RED"]
  /\ curr' = Above
  /\ UNCHANGED << treeVars, pc >>

(* Case 5: the inner nephew alone is red.                                  *)
NephewInner ==
  /\ DeleteRound
  /\ ~IsRed(Sibling) /\ IsRed(Inner) /\ ~IsRed(Outer)
  /\ color' = [color EXCEPT ![Inner] = "BLACK", ![Sibling] = "RED"]
  /\ tree' = Rotated(tree, Sibling, Other(Side))
  /\ UNCHANGED << count, nodes, returned, pc, curr >>

(* Case 6: the outer nephew is red.  Mutant: it stays so.                  *)
OuterColors_KeepOuter ==
  [color EXCEPT ![Sibling] = color[Above], ![Above] = "BLACK"]
OuterColors ==
  [color EXCEPT ![Sibling] = color[Above], ![Above] = "BLACK",
                ![Outer] = "BLACK"]

NephewOuter ==
  /\ DeleteRound
  /\ ~IsRed(Sibling) /\ IsRed(Outer)
  /\ color' = OuterColors
  /\ tree' = Rotated(tree, Above, Side)
  /\ Leaves
  /\ UNCHANGED << count, nodes, returned >>

-----------------------------------------------------------------------------

Balancing ==
  \/ InsertRecolor \/ InsertInner \/ InsertOuter \/ InsertEnds
  \/ BalancingEnds \/ SiblingRed \/ SiblingBlack \/ NephewInner \/ NephewOuter

RBNext ==
  \/ \E key \in Keys :
       \/ RBInsertAgain(key) \/ RBInsert(key)
       \/ RBDeleteMissing(key) \/ RBDeleteOne(key) \/ RBDeleteTwo(key)
  \/ Balancing

RBSpec == RBInit /\ [][RBNext]_rbVars

-----------------------------------------------------------------------------
(* Properties. *)

RBTypeOK ==
  /\ TreeTypeOK
  /\ color \in [Places -> {"BLACK", "RED"}] /\ color[Nil] = "BLACK"
  /\ pc \in {"idle", "insert", "delete"}
  /\ curr \in Places

(* The black node that is missing below curr while a deletion is balanced. *)
Missing(n, above) ==
  IF pc = "delete" /\ n = curr /\ above = tree.parent[n] THEN 1 ELSE 0

(* The numbers of black nodes on the ways down from the root, as far down  *)
(* as there are keys.                                                      *)
BlackCounts ==
  LET ways[depth \in 0..Cardinality(Keys)] ==
        [n \in Places |->
           IF n = Nil \/ depth = 0 THEN {0}
           ELSE UNION { { b + Missing(tree.child[side][n], n)
                            + (IF color[n] = "BLACK" THEN 1 ELSE 0) :
                          b \in ways[depth - 1][tree.child[side][n]] } :
                        side \in Sides }]
  IN ways[Cardinality(Keys)][tree.root]

(* All ways down have as many black nodes, one more being counted where    *)
(* the balancing of a deletion is; no red node has a red parent and the    *)
(* root is black, except where a balancing is.  CheckRBtreeLogic of the    *)
(* tests looks at the colors after each call; the sums it compares are     *)
(* those of the leaves (RBtreeTest.cpp:96), so that it counts no black     *)
(* node.                                                                   *)
RedBlack ==
  /\ \A a, b \in BlackCounts : a = b
  /\ \A n \in Present :
       IsRed(n) => \/ pc = "insert" /\ n = curr
                   \/ n # tree.root /\ ~IsRed(tree.parent[n])
                   \/ pc = "delete" /\ curr # tree.root
                        /\ curr \in {n, tree.parent[n]}

(* The while (true) of RedBlackBalancing, and the loop of Insert, end.     *)
BalancingReturns == pc # "idle" ~> pc = "idle"

=============================================================================
