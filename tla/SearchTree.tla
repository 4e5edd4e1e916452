----------------------------- MODULE SearchTree -----------------------------
(***************************************************************************)
(* The nodes and links that the trees of rb-tree-binary-tree have in       *)
(* common.  A node is named by the key it holds; when Delete copies the    *)
(* key of a successor into a node, that node takes the successor's name.   *)
(* Of what a node holds besides its key, Count stands for Value too: both  *)
(* are set by the first insertion and move with the key.                   *)
(*                                                                         *)
(* The code writes everything twice, for the left and the right; here a    *)
(* side is a parameter.                                                    *)
(***************************************************************************)
EXTENDS Integers, Sequences, FiniteSets, FiniteSetsExt

CONSTANTS Keys,
          Nil,          \* &Nil_ of RBtree, nullptr of BinaryTree
          MaxSpare,     \* bound: how many keys are inserted again
          MaxSame       \* bound: how often each of them is

ASSUME KeysAssumption ==
  /\ Keys \subseteq Int /\ IsFiniteSet(Keys) /\ Nil \notin Keys
  /\ MaxSpare \in Nat /\ MaxSame \in Nat \ {0}

Places == Keys \cup {Nil}
Sides == {"left", "right"}
Other(side) == IF side = "left" THEN "right" ELSE "left"

VARIABLES tree,       \* root_, and Left, Right and Parent of the nodes
          count,      \* Count of the nodes; 0 for a key without a node
          nodes,      \* count_
          returned    \* what the last Delete returned

treeVars == << tree, count, nodes, returned >>

EmptyTree == [root |-> Nil,
              child |-> [side \in Sides |-> [n \in Places |-> Nil]],
              parent |-> [n \in Places |-> Nil]]

TreeInit ==
  /\ tree = EmptyTree
  /\ count = [k \in Keys |-> 0]
  /\ nodes = 0
  /\ returned = 0

Toward(key, n) == IF key < n THEN "left" ELSE "right"

(* A walk down from first; no walk passes more nodes than there are keys,  *)
(* and it stays at its last one.                                           *)
Walk(first, next) ==
  LET at[i \in 0..Cardinality(Keys)] ==
        IF i = 0 THEN first ELSE next[at[i - 1]]
  IN at

Reached(walk) == walk[Cardinality(Keys)]

(* The node passed last, or above if the walk goes nowhere.                *)
Passed(walk, above) ==
  LET before == { i \in DOMAIN walk : walk[i] # Reached(walk) } IN
  IF before = {} THEN above ELSE walk[Max(before)]

(* The search ends at the key's node or at Nil.                            *)
Search(key) ==
  Walk(tree.root, [n \in Places |-> IF n \in {Nil, key} THEN n
                                     ELSE tree.child[Toward(key, n)][n]])

Find(key) == Reached(Search(key)) # Nil
ParentOf(key) == Passed(Search(key), Nil)

(* To the left as far as it goes.                                          *)
Leftmost(first) ==
  Walk(first, [n \in Places |-> IF tree.child["left"][n] = Nil THEN n
                                 ELSE tree.child["left"][n]])

(* The successor of a node that has two children, and the node above it.   *)
(* Mutant: the node above it is taken to be the one whose key goes.        *)
SuccessorParent_Self(key) == key
Successor(key) == Reached(Leftmost(tree.child["right"][key]))
SuccessorParent(key) == Passed(Leftmost(tree.child["right"][key]), key)

-----------------------------------------------------------------------------
(* Changes of the links. *)

(* What pointed down to old, from above or as the root, points to new.     *)
Relink(t, above, old, new) ==
  IF above = Nil THEN [t EXCEPT !.root = new]
  ELSE IF t.child["left"][above] = old
       THEN [t EXCEPT !.child["left"][above] = new]
       ELSE [t EXCEPT !.child["right"][above] = new]

(* The only child of a node that has not two.                              *)
OnlyChild(n) ==
  IF tree.child["left"][n] # Nil THEN tree.child["left"][n]
                                 ELSE tree.child["right"][n]

HasTwo(n) == \A side \in Sides : tree.child[side][n] # Nil

(* The node n is freed.                                                    *)
Freed(t, n) == [t EXCEPT !.child["left"][n] = Nil, !.child["right"][n] = Nil,
                         !.parent[n] = Nil]

(* The key of s, whose node is unlinked, is copied into the node of d.     *)
Renamed(t, d, s) ==
  LET Name(n) == IF n = d THEN s ELSE n
      Moved(f) == [n \in Places |-> IF n = d THEN Nil
                                    ELSE IF n = s THEN Name(f[d])
                                    ELSE Name(f[n])]
  IN [root |-> Name(t.root),
      child |-> [side \in Sides |-> Moved(t.child[side])],
      parent |-> Moved(t.parent)]

(* A new node below the last one passed, or as the root.                   *)
Attached(key) ==
  LET above == ParentOf(key) IN
  IF above = Nil THEN [tree EXCEPT !.root = key]
  ELSE [tree EXCEPT !.child[Toward(key, above)][above] = key,
                    !.parent[key] = above]

(* The key has a node: one more of it is counted.                          *)
Spare == { k \in Keys : count[k] > 1 }
InsertAgain(key) ==
  /\ Find(key)
  /\ Cardinality(Spare \cup {key}) <= MaxSpare /\ count[key] < MaxSame
  /\ count' = [count EXCEPT ![key] = @ + 1]
  /\ UNCHANGED << tree, nodes, returned >>

(* What an insertion of a new key does to the node and the counts.         *)
NewNode(key) ==
  /\ ~Find(key)
  /\ tree' = Attached(key)
  /\ count' = [count EXCEPT ![key] = 1]
  /\ nodes' = nodes + 1
  /\ UNCHANGED returned

DeleteMissing(key) ==
  /\ ~Find(key)
  /\ returned' = 0
  /\ UNCHANGED << tree, count, nodes >>

(* What Delete does to the counts.  It returns the Count of the node it    *)
(* found: for one with two children, after the successor's was copied over *)
(* it.                                                                     *)
(* Mutants: the successor's Count is not copied; count_ is not decremented *)
(* where the successor goes.                                               *)
Copied_Not(key) ==
  [count EXCEPT ![key] = 0, ![Successor(key)] = count[key]]
NodesLeft_OneCase(key) == IF HasTwo(key) THEN nodes ELSE nodes - 1

Copied(key) == [count EXCEPT ![key] = 0]
NodesLeft(key) == nodes - 1

CountDeleted(key) ==
  /\ count' = IF HasTwo(key) THEN Copied(key) ELSE [count EXCEPT ![key] = 0]
  /\ nodes' = NodesLeft(key)
  /\ returned' = count[IF HasTwo(key) THEN Successor(key) ELSE key]

-----------------------------------------------------------------------------
(* Properties of both trees. *)

TreeTypeOK ==
  /\ tree.root \in Places
  /\ tree.child \in [Sides -> [Places -> Places]]
  /\ tree.parent \in [Places -> Places]
  /\ count \in [Keys -> 0..MaxSame] /\ nodes \in 0..Cardinality(Keys)
  /\ returned \in 0..MaxSame

Present == { k \in Keys : count[k] > 0 }

(* Parent is the inverse of Left and Right, and only the root has none:    *)
(* no rotation and no removal leaves a link to a node that has moved.      *)
ParentsAgree ==
  /\ tree.root = Nil <=> Present = {}
  /\ \A n \in Present :
       LET above == tree.parent[n] IN
       /\ above = Nil <=> n = tree.root
       /\ above # Nil => \E side \in Sides : tree.child[side][above] = n
       /\ \A side \in Sides :
            tree.child[side][n] # Nil => tree.parent[tree.child[side][n]] = n

(* SearchForVector: what is below a node in the order it is passed, as far *)
(* down as there are keys.                                                 *)
InOrder ==
  LET below[depth \in 0..Cardinality(Keys)] ==
        [n \in Places |->
           IF n = Nil \/ depth = 0 THEN << >>
           ELSE below[depth - 1][tree.child["left"][n]] \o << n >>
                  \o below[depth - 1][tree.child["right"][n]]]
  IN below[Cardinality(Keys)][tree.root]

(* In the middle of every operation, too, the tree holds its keys in their *)
(* order, each once, and as many as count_ says.                           *)
Sorted ==
  LET keys == InOrder IN
  /\ Len(keys) = nodes
  /\ { keys[i] : i \in 1..Len(keys) } = Present
  /\ \A i \in 2..Len(keys) : keys[i - 1] < keys[i]

Counted == INSTANCE CountedSet WITH counts <- count

(* Whatever the shape of the tree, the calls are those of a set with       *)
(* counts: Delete takes the key with all of its insertions, touches the    *)
(* count of no other key, and says whether the key was there.              *)
ImplementsCountedSet == Counted!CountedSpec

=============================================================================
