------------------------------ MODULE MCTrees -------------------------------
(* A tree of either kind, or a window that shows one: in the first state   *)
(* one of these is chosen, and stays.                                      *)
EXTENDS TreeDemo

VARIABLE kind     \* the class of the tree, or the program

vars == << rbVars, demoVars, kind >>

(* The nodes of BinaryTree have no color, so that RedBlack speaks of the   *)
(* other tree only.                                                        *)
Init ==
  /\ kind \in {"RBtree", "BinaryTree", "Tree-RB-tree", "Tree-binary-tree"}
  /\ \/ kind \in {"RBtree", "Tree-RB-tree"} /\ RBInit
     \/ /\ kind \in {"BinaryTree", "Tree-binary-tree"} /\ TreeInit
        /\ color = [n \in Places |-> "NONE"] /\ pc = "idle" /\ curr = Nil
  /\ DemoInit
  /\ kind = "Tree-binary-tree" \/ centerX = Min(Centers)   \* not read

BinaryTreeNext ==
  /\ kind = "BinaryTree"
  /\ BstNext
  /\ UNCHANGED << color, pc, curr, demoVars, kind >>

RBtreeNext ==
  /\ kind = "RBtree"
  /\ RBNext
  /\ UNCHANGED << demoVars, kind >>

DemoNext ==
  /\ \/ kind = "Tree-RB-tree" /\ RBDemoNext
     \/ kind = "Tree-binary-tree" /\ BstDemoNext
  /\ UNCHANGED kind

Next == BinaryTreeNext \/ RBtreeNext \/ DemoNext

(* The thread that has called Insert or Delete goes on until it returns.   *)
Spec == Init /\ [][Next]_vars /\ WF_rbVars(Balancing)
=============================================================================
