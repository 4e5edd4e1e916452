----------------------------- MODULE BinaryTree -----------------------------
(***************************************************************************)
(* Tree-binary-tree/BinaryTree.h: the search tree without balancing.  A    *)
(* call is one step.                                                       *)
(***************************************************************************)
EXTENDS SearchTree

BstInsert(key) == InsertAgain(key) \/ NewNode(key)

(* The child of the node that goes takes its place, and its parent, if     *)
(* there is a child.                                                       *)
BstSpliced(n, above) ==
  LET x == OnlyChild(n) IN
  [Relink(tree, above, n, x) EXCEPT !.parent[x] = IF x = Nil THEN @ ELSE above]

BstDeleteOne(key) ==
  /\ Find(key) /\ ~HasTwo(key)
  /\ tree' = Freed(BstSpliced(key, ParentOf(key)), key)
  /\ CountDeleted(key)

(* The successor goes, after its key is copied.                            *)
BstDeleteTwo(key) ==
  /\ Find(key) /\ HasTwo(key)
  /\ tree' = Renamed(BstSpliced(Successor(key), SuccessorParent(key)), key,
                     Successor(key))
  /\ CountDeleted(key)

BstDelete(key) == DeleteMissing(key) \/ BstDeleteOne(key) \/ BstDeleteTwo(key)

BstNext == \E key \in Keys : BstInsert(key) \/ BstDelete(key)

BstSpec == TreeInit /\ [][BstNext]_treeVars

=============================================================================
