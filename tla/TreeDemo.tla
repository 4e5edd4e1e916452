------------------------------ MODULE TreeDemo ------------------------------
(***************************************************************************)
(* The two programs that show a tree in a window: Tree-RB-tree.cpp and     *)
(* Tree-binary-tree.cpp.  The window's thread handles one message at a     *)
(* time, so that no other begins while the tree is being balanced.         *)
(*                                                                         *)
(* InvalidateRect erases the window; what it showed before does not count  *)
(* any more, and a paint message comes at some later time.                 *)
(***************************************************************************)
EXTENDS BinaryTree, RedBlackTree

CONSTANTS DemoKeys,    \* the keys a user types in, or rand() gives
          Centers,     \* half the widths the window may have
          Erased       \* what is seen of an invalid window

ASSUME DemoAssumption == DemoKeys \subseteq Keys /\ Centers \subseteq Nat

VARIABLES show_nil_nodes, is_dulicate_node,
          centerX,     \* of the window
          g_nodes, g_lines,   \* the figures and lines calculated last
          screen       \* the figures and lines seen, and whether the text
                       \* "duplicate node" is

listVars == << g_nodes, g_lines >>
demoVars == << show_nil_nodes, is_dulicate_node, centerX, listVars, screen >>

DemoInit ==
  /\ show_nil_nodes = FALSE /\ is_dulicate_node = FALSE
  /\ centerX \in Centers
  /\ g_nodes = {} /\ g_lines = {}
  /\ screen = Erased

Figure(x, y, key, c) == [x |-> x, y |-> y, key |-> key, color |-> c]
Point(f) == << f.x, f.y >>

-----------------------------------------------------------------------------
(* CalculateTree and DrawTree of the red-black tree: gNode_pos_x goes from *)
(* left to right, one figure at a time. *)

Nothing(x) == [nodes |-> {}, lines |-> {}, at |-> -1, next |-> x]
NilFigure(x, y) == [nodes |-> {Figure(x, y, Nil, "NIL")}, lines |-> {},
                    at |-> x, next |-> x + 25]

RECURSIVE CalculateTree(_, _, _)
CalculateTree(n, x, y) ==
  LET childY == y + 75
      Below(child, cx) ==
        IF child # Nil THEN CalculateTree(child, cx, childY)
        ELSE IF show_nil_nodes THEN NilFigure(cx, childY) ELSE Nothing(cx)
      left == Below(tree.child["left"][n], x)
      curr_x == left.next
      right == Below(tree.child["right"][n], curr_x + 25)
  IN [nodes |-> left.nodes \cup {Figure(curr_x, y, n, color[n])} \cup right.nodes,
      lines |-> left.lines \cup right.lines
                \cup { {<< below.at, childY >>, << curr_x, y >>} :
                         below \in { b \in {left, right} : b.at # -1 } },
      at |-> curr_x, next |-> right.next]

(* g_lines.clear() and g_nodes.clear().  Mutant: they keep what they have. *)
Cleared_Not(list) == list
Cleared(list) == {}

(* A paint message: the calculation fills the lists, and DrawTree draws    *)
(* what is in them.  Of an empty tree nothing is drawn, whatever they hold. *)
Paint(picture, duplicate) ==
  \/ /\ tree.root # Nil
     /\ g_nodes' = Cleared(g_nodes) \cup picture.nodes
     /\ g_lines' = Cleared(g_lines) \cup picture.lines
     /\ screen' = [nodes |-> g_nodes', lines |-> g_lines',
                   duplicate |-> duplicate]
  \/ /\ tree.root = Nil
     /\ screen' = [nodes |-> {}, lines |-> {}, duplicate |-> duplicate]
     /\ UNCHANGED listVars

RBPaint == Paint(CalculateTree(tree.root, 100, 120), is_dulicate_node)

(* The lists keep the figures of a picture that is seen no more.  What they *)
(* were is not told apart: one of them, in no tree, stands for all.        *)
OldFigure == Figure(0, 0, Erased, "old")
OldLine == {<< 0, 0 >>}
LeftOver(list, old) == IF list = {} THEN {} ELSE {old}

InvalidateRect ==
  /\ screen' = Erased
  /\ g_nodes' = LeftOver(g_nodes, OldFigure)
  /\ g_lines' = LeftOver(g_lines, OldLine)

(* The buttons; Enter in a text box clicks the one beside it.              *)
RBInsertButton(key) ==
  /\ RBInsertAgain(key) \/ RBInsert(key)
  /\ is_dulicate_node' = Find(key)
  /\ InvalidateRect
  /\ UNCHANGED << show_nil_nodes, centerX >>

(* The text about a duplicate stays as it is.                              *)
RBDeleteButton(key) ==
  /\ RBDeleteMissing(key) \/ RBDeleteOne(key) \/ RBDeleteTwo(key)
  /\ InvalidateRect
  /\ UNCHANGED << show_nil_nodes, is_dulicate_node, centerX >>

(* The space bar.  InsertRandomValue looks for a key that is not there,    *)
(* but not for ever: it may come to insert one that is.                    *)
RBInsertRandomValue(key) ==
  /\ RBInsertAgain(key) \/ RBInsert(key)
  /\ is_dulicate_node' = FALSE
  /\ InvalidateRect
  /\ UNCHANGED << show_nil_nodes, centerX >>

CheckShowNil ==
  /\ pc = "idle"
  /\ show_nil_nodes' = ~show_nil_nodes
  /\ InvalidateRect
  /\ UNCHANGED << rbVars, is_dulicate_node, centerX >>

RBDemoNext ==
  \/ \E key \in DemoKeys :
       RBInsertButton(key) \/ RBDeleteButton(key) \/ RBInsertRandomValue(key)
  \/ CheckShowNil
  \/ /\ pc = "idle" /\ RBPaint
     /\ UNCHANGED << rbVars, show_nil_nodes, is_dulicate_node, centerX >>
  \/ Balancing /\ UNCHANGED demoVars

-----------------------------------------------------------------------------
(* The same of the search tree, whose layout goes from the top down.       *)

BstFigure(x, y, n) == Figure(x, y, n, "none")

(* The distance of a child's figure from its parent's.                     *)
BstWidth(width) == width \div 2

RECURSIVE BstCalculateTree(_, _, _, _)
BstCalculateTree(n, x, y, width) ==
  LET X(side) == IF side = "left" THEN x - width ELSE x + width
      childY == y + 75
      sides == { side \in Sides : tree.child[side][n] # Nil }
      sub == [side \in sides |-> BstCalculateTree(tree.child[side][n], X(side),
                                                  childY, BstWidth(width))]
  IN [nodes |-> {BstFigure(x, y, n)} \cup UNION { sub[side].nodes : side \in sides },
      lines |-> { {<< x, y >>, << X(side), childY >>} : side \in sides }
                \cup UNION { sub[side].lines : side \in sides }]

BstPaint == Paint(BstCalculateTree(tree.root, centerX, 50, 330), FALSE)

(* The buttons and the space bar.                                          *)
BstCommand(key) ==
  /\ BstInsert(key) \/ BstDelete(key)
  /\ InvalidateRect
  /\ UNCHANGED centerX

(* The window is one that is painted anew when its size changes.           *)
Resize ==
  /\ centerX' \in Centers
  /\ InvalidateRect
  /\ UNCHANGED treeVars

BstDemoNext ==
  /\ \/ \E key \in DemoKeys : BstCommand(key)
     \/ BstPaint /\ UNCHANGED << treeVars, centerX >>
     \/ Resize
  /\ UNCHANGED << color, pc, curr, show_nil_nodes, is_dulicate_node >>

-----------------------------------------------------------------------------
(* Properties. *)

Shown == { f \in screen.nodes : f.key # Nil }
NilShown == { f \in screen.nodes : f.key = Nil }

(* Every figure but the root's hangs by a line under its parent, on the    *)
(* side where it is in the tree.                                           *)
HangsBy(f, above) ==
  /\ {Point(f), Point(above)} \in screen.lines
  /\ f.y = above.y + 75 /\ f.x # above.x
  /\ tree.child[IF f.x < above.x THEN "left" ELSE "right"][above.key] = f.key

node_radius == 20
Overlap(f, g) == f.y = g.y /\ f.x - g.x < 2 * node_radius
                           /\ g.x - f.x < 2 * node_radius

(* A window that is not to be painted shows the tree as it is: each key    *)
(* once, from the left to the right in their order, every figure linked to *)
(* its parent and to no other, Nil figures where children are missing if   *)
(* they are asked for and nowhere else, and no figure over another.        *)
PictureIsTree ==
  screen # Erased =>
    /\ { f.key : f \in Shown } = Present
    /\ Cardinality(Shown) = Cardinality(Present)
    /\ \A f, g \in Shown : f.key < g.key => f.x < g.x
    /\ Cardinality(NilShown) =
         IF show_nil_nodes /\ Present # {} THEN Cardinality(Present) + 1 ELSE 0
    /\ \A f \in screen.nodes :
         f.key # tree.root => \E above \in Shown : HangsBy(f, above)
    /\ screen.nodes # {} =>
         Cardinality(screen.lines) = Cardinality(screen.nodes) - 1
    /\ \A f, g \in screen.nodes : Overlap(f, g) => f = g
    /\ screen.duplicate = is_dulicate_node

=============================================================================
