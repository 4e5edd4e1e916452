-------------------------- MODULE SearchTreeProofs --------------------------
(***************************************************************************)
(* The search trees, for every finite set of keys: the links are those of  *)
(* a search tree, the keys are in their order, and the tree of BinaryTree  *)
(* implements a set of keys with counts.  RedBlackTreeProofs goes on from  *)
(* here.                                                                   *)
(*                                                                         *)
(* The invariant is Shape: to each node belongs the set of the keys below  *)
(* it, which its links and their order agree with.  A walk down the tree   *)
(* ends because those sets get smaller (SearchOnTheWay).  What the         *)
(* recursive functions Walk and InOrder give is shown by induction, which  *)
(* is taken in the form of LeastNumber: there is no least counterexample.  *)
(***************************************************************************)
EXTENDS BinaryTree, SequenceTheorems, FiniteSetTheorems,
        WellFoundedInduction, TLAPS

-----------------------------------------------------------------------------
(* The least of a set of numbers: what induction comes down to here.       *)
LessThan == OpToRel(<, Nat)

LEMMA LessThanWellFounded == IsWellFoundedOn(LessThan, Nat)
PROOF BY NatLessThanWellFounded, Zenon DEF LessThan

LEMMA LessThanHolds == \A x, y \in Nat : x < y => << x, y >> \in LessThan
PROOF BY DEF LessThan, OpToRel

LEMMA LeastNumber ==
  ASSUME NEW T \in SUBSET Nat, T # {}
  PROVE  \E x \in T : \A y \in T : x <= y
PROOF
  <1>1. PICK x \in T : \A y \in T : ~ (<< y, x >> \in LessThan)
    BY LessThanWellFounded, WFMin
  <1>2. \A y \in T : ~(y < x)
    BY <1>1, LessThanHolds
  <1>. QED
    BY <1>2

Depth == Cardinality(Keys)

LEMMA DepthType == Depth \in Nat /\ IsFiniteSet(Keys)
PROOF BY KeysAssumption, FS_CardinalityType DEF Depth

-----------------------------------------------------------------------------
(* A walk: each step goes to the next place. *)

Walks(f, m, S, first, next) ==
  /\ f \in [0..m -> S]
  /\ f[0] = first
  /\ \A i \in 1..m : f[i] = next[f[i - 1]]

LEMMA WalkExists ==
  ASSUME NEW S, NEW first \in S, NEW next \in [S -> S]
  PROVE  \A m \in Nat : \E f : Walks(f, m, S, first, next)
PROOF
  <1>. DEFINE T == { m \in Nat : ~ \E f : Walks(f, m, S, first, next) }
  <1>1. SUFFICES ASSUME T # {} PROVE FALSE
    OBVIOUS
  <1>2. PICK x \in T : \A y \in T : x <= y
    BY <1>1, LeastNumber
  <1>3. CASE x = 0
    <2>1. Walks([i \in 0..0 |-> first], 0, S, first, next)
      BY DEF Walks
    <2>. QED
      BY <1>2, <1>3, <2>1
  <1>4. CASE x # 0
    <2>1. x \in Nat /\ x - 1 \in Nat /\ x - 1 \notin T
      BY <1>2, <1>4
    <2>2. PICK f : Walks(f, x - 1, S, first, next)
      BY <2>1
    <2>. DEFINE g == [i \in 0..x |-> IF i = x THEN next[f[x - 1]] ELSE f[i]]
    <2>3. f \in [0..(x - 1) -> S] /\ f[x - 1] \in S
      BY <2>1, <2>2 DEF Walks
    <2>4. g \in [0..x -> S]
      BY <2>1, <2>3
    <2>5. g[0] = first
      BY <2>1, <2>2, <1>4 DEF Walks
    <2>6. \A i \in 1..x : g[i] = next[g[i - 1]]
      BY <2>1, <2>2, <1>4 DEF Walks
    <2>7. Walks(g, x, S, first, next)
      BY <2>4, <2>5, <2>6 DEF Walks
    <2>. QED
      BY <1>2, <2>7
  <1>. QED
    BY <1>3, <1>4

LEMMA WalkWalks ==
  ASSUME NEW first \in Places, NEW next \in [Places -> Places]
  PROVE  Walks(Walk(first, next), Depth, Places, first, next)
PROOF
  <1>. DEFINE Round(at) == [i \in 0..Depth |-> IF i = 0 THEN first
                                               ELSE next[at[i - 1]]]
              w == Walk(first, next)
  <1>1. Depth \in Nat
    BY DepthType
  <1>2. PICK f : Walks(f, Depth, Places, first, next)
    BY <1>1, WalkExists
  <1>3. f = Round(f)
    <2>1. f \in [0..Depth -> Places]
      BY <1>2 DEF Walks
    <2>2. \A i \in 0..Depth : f[i] = Round(f)[i]
      BY <1>1, <1>2 DEF Walks
    <2>. QED
      BY <2>1, <2>2
  <1>4. w = Round(w)
    <2>1. w = CHOOSE at : at = Round(at)
      BY DEF Walk, Depth
    <2>. HIDE DEF Round, w
    <2>. QED
      BY <1>3, <2>1
  <1>5. \A i \in 0..Depth : w[i] = f[i]
    <2>. DEFINE T == { i \in 0..Depth : w[i] # f[i] }
    <2>1. SUFFICES ASSUME T # {} PROVE FALSE
      OBVIOUS
    <2>2. T \in SUBSET Nat
      BY <1>1
    <2>3. PICK x \in T : \A y \in T : x <= y
      BY <2>1, <2>2, LeastNumber
    <2>4. CASE x = 0
      BY <1>2, <1>4, <2>3, <2>4 DEF Walks
    <2>5. CASE x # 0
      <3>1. x - 1 \in 0..Depth /\ ~(x <= x - 1) /\ x \in 1..Depth
        BY <1>1, <2>3, <2>5
      <3>2. w[x - 1] = f[x - 1]
        BY <2>3, <3>1
      <3>3. w[x] = next[w[x - 1]]
        BY <1>4, <2>3, <2>5
      <3>. QED
        BY <1>2, <2>3, <3>1, <3>2, <3>3 DEF Walks
    <2>. QED
      BY <2>4, <2>5
  <1>6. w = f
    <2>1. w = [i \in 0..Depth |-> w[i]]
      BY <1>4
    <2>2. f = [i \in 0..Depth |-> f[i]]
      BY <1>2 DEF Walks
    <2>. HIDE DEF w
    <2>. QED
      BY <1>5, <2>1, <2>2
  <1>. QED
    BY <1>2, <1>6

(* Where a walk has been before it came to its end.                        *)
LEMMA WalkPasses ==
  ASSUME NEW first \in Places, NEW next \in [Places -> Places], NEW above
  PROVE  LET w == Walk(first, next)
             end == Reached(w)
         IN \/ first = end /\ Passed(w, above) = above
            \/ \E m \in 0..(Depth - 1) :
                 /\ Passed(w, above) = w[m] /\ w[m] # end
                 /\ m + 1 \in 1..Depth /\ w[m + 1] = end
PROOF
  <1>. DEFINE w == Walk(first, next)
              end == Reached(w)
              before == { i \in DOMAIN w : w[i] # Reached(w) }
  <1>1. /\ Depth \in Nat /\ DOMAIN w = 0..Depth /\ w[0] = first
        /\ \A i \in 1..Depth : w[i] = next[w[i - 1]]
        /\ end = w[Depth]
    BY WalkWalks, DepthType DEF Walks, Reached, Depth
  <1>. HIDE DEF w
  <1>2. CASE before = {}
    <2>1. 0 \in DOMAIN w
      BY <1>1
    <2>2. first = end
      BY <1>1, <1>2, <2>1
    <2>3. Passed(w, above) = above
      BY <1>2 DEF Passed
    <2>. QED
      BY <2>2, <2>3 DEF w
  <1>3. CASE before # {}
    <2>. DEFINE rest == { i \in 0..Depth : Depth - i \in before }
    <2>1. before \in SUBSET (0..(Depth - 1))
      BY <1>1
    <2>2. rest \in SUBSET Nat /\ rest # {}
      <3>1. PICK i \in before : TRUE
        BY <1>3
      <3>2. Depth - i \in rest
        BY <1>1, <2>1, <3>1
      <3>. QED
        BY <1>1, <3>2
    <2>3. PICK x \in rest : \A y \in rest : x <= y
      <3>. HIDE DEF rest
      <3>. QED
        BY <2>2, LeastNumber
    <2>. DEFINE m == Depth - x
    <2>4. m \in before /\ \A i \in before : m >= i
      <3>1. ASSUME NEW i \in before PROVE m >= i
        <4>1. Depth - i \in rest /\ i \in Nat
          BY <1>1, <2>1
        <4>2. x <= Depth - i
          BY <2>3, <4>1
        <4>. QED
          BY <1>1, <2>3, <4>1, <4>2
      <3>. QED
        BY <2>3, <3>1
    <2>. HIDE DEF m, rest
    <2>5. Max(before) \in before /\ \A i \in before : Max(before) >= i
      <3>1. Max(before) = CHOOSE i \in before : \A j \in before : i >= j
        BY DEF Max
      <3>. HIDE DEF before
      <3>. QED
        BY <2>4, <3>1
    <2>6. Passed(w, above) = w[Max(before)]
      BY <1>3 DEF Passed
    <2>. DEFINE k == Max(before)
    <2>. HIDE DEF k
    <2>7. k \in before /\ \A i \in before : k >= i
      BY <2>5 DEF k
    <2>8. k \in 0..(Depth - 1) /\ k + 1 \in 1..Depth /\ k + 1 \in DOMAIN w
      BY <1>1, <2>1, <2>7
    <2>9. w[k + 1] = end
      <3>1. k + 1 \notin before
        BY <2>7, <2>8
      <3>. QED
        BY <2>8, <3>1
    <2>10. w[k] # end
      BY <2>7
    <2>. QED
      BY <2>6, <2>8, <2>9, <2>10 DEF k, w
  <1>. QED
    BY <1>2, <1>3

-----------------------------------------------------------------------------
(* The shape of a search tree.  below[n] is the set of the keys in the     *)
(* subtree of n, its own among them.                                       *)

Lies(side, k, n) == IF side = "left" THEN k < n ELSE n < k

Trees == [root : Places, child : [Sides -> [Places -> Places]],
          parent : [Places -> Places]]

Filled(t, P, below) ==
  /\ below[Nil] = {}
  /\ \A n \in P :
       below[n] = {n} \cup below[t.child["left"][n]] \cup below[t.child["right"][n]]

Ordered(t, P, below) ==
  \A n \in P : \A side \in Sides : \A k \in below[t.child[side][n]] :
    Lies(side, k, n)

AtTop(t, P, below) ==
  /\ t.root \in P \cup {Nil}
  /\ below[t.root] = P
  /\ t.root # Nil => t.parent[t.root] = Nil

Downward(t, P) ==
  \A n \in P : \A side \in Sides :
    t.child[side][n] # Nil => /\ t.child[side][n] \in P
                              /\ t.parent[t.child[side][n]] = n

Upward(t, P) ==
  \A n \in P :
    /\ t.parent[n] = Nil => n = t.root
    /\ t.parent[n] # Nil => /\ t.parent[n] \in P
                            /\ \E side \in Sides : t.child[side][t.parent[n]] = n

(* A subtree has all of the subtrees of its nodes, and with a node that is *)
(* not its topmost the parent.                                             *)
Nested(t, P, below) ==
  \A n \in P : \A m \in below[n] :
    /\ below[m] \subseteq below[n]
    /\ m # n => t.parent[m] \in below[n]

(* Keys that are not there have no links, nor has Nil downward.            *)
Cleared(t, P) ==
  /\ \A k \in Places \ P : \A side \in Sides : t.child[side][k] = Nil
  /\ \A k \in Keys \ P : t.parent[k] = Nil

Shape(t, P, below) ==
  /\ t \in Trees /\ P \subseteq Keys /\ below \in [Places -> SUBSET Keys]
  /\ Filled(t, P, below) /\ Ordered(t, P, below) /\ AtTop(t, P, below)
  /\ Downward(t, P) /\ Upward(t, P) /\ Nested(t, P, below) /\ Cleared(t, P)

LEMMA SideFacts ==
  /\ Sides = {"left", "right"} /\ "left" # "right"
  /\ Other("left") = "right" /\ Other("right") = "left"
  /\ \A side \in Sides : Other(side) \in Sides /\ Other(side) # side
                          /\ Other(Other(side)) = side
  /\ \A key, n : Toward(key, n) \in Sides
PROOF BY DEF Sides, Other, Toward

LEMMA KeysAreNumbers == \A k \in Keys : k \in Int /\ k # Nil
PROOF BY KeysAssumption

LEMMA LiesFacts ==
  \A side \in Sides : \A k, n \in Keys :
    /\ Lies(side, k, n) => k # n /\ ~Lies(Other(side), k, n)
    /\ k # n => Lies(Toward(k, n), k, n)
PROOF BY KeysAreNumbers DEF Lies, Sides, Other, Toward

LEMMA ShapeFacts ==
  ASSUME NEW t, NEW P, NEW below, Shape(t, P, below)
  PROVE  /\ P \subseteq Keys /\ Nil \notin P /\ IsFiniteSet(P)
         /\ t.root = Nil <=> P = {}
         /\ \A n \in P : n \in Keys /\ n \in Places /\ n \in below[n]
                         /\ below[n] \subseteq P
         /\ \A n \in Places : /\ IsFiniteSet(below[n])
                              /\ Cardinality(below[n]) \in Nat
                              /\ Cardinality(below[n]) <= Depth
         /\ \A n \in P : Cardinality(below[n]) > 0
PROOF
  <1>1. P \subseteq Keys /\ Nil \notin P /\ IsFiniteSet(P)
    BY KeysAssumption, FS_Subset DEF Shape
  <1>2. \A n \in P : n \in Keys /\ n \in Places /\ n \in below[n]
    BY <1>1 DEF Shape, Filled, Places
  <1>3. t.root = Nil <=> P = {}
    BY <1>2 DEF Shape, AtTop, Filled
  <1>4. ASSUME NEW n \in P PROVE below[n] \subseteq P
    <2>1. t.root \in P /\ below[t.root] = P
      BY <1>3 DEF Shape, AtTop
    <2>. QED
      BY <2>1 DEF Shape, Nested
  <1>5. ASSUME NEW n \in Places
        PROVE  /\ IsFiniteSet(below[n]) /\ Cardinality(below[n]) \in Nat
               /\ Cardinality(below[n]) <= Depth
    <2>1. below[n] \in SUBSET Keys
      BY DEF Shape
    <2>. QED
      BY <2>1, DepthType, FS_Subset, FS_CardinalityType DEF Depth
  <1>6. ASSUME NEW n \in P PROVE Cardinality(below[n]) > 0
    BY <1>2, <1>5, FS_EmptySet
  <1>. QED
    BY <1>1, <1>2, <1>3, <1>4, <1>5, <1>6

(* A child's subtree is a smaller part of its parent's.                    *)
LEMMA ChildFacts ==
  ASSUME NEW t, NEW P, NEW below, Shape(t, P, below), NEW n \in P,
         NEW side \in Sides, t.child[side][n] # Nil
  PROVE  LET c == t.child[side][n]
         IN /\ c \in P /\ c # n /\ t.parent[c] = n
            /\ c \in below[n] /\ Lies(side, c, n)
            /\ below[c] \subseteq below[n] \ {n}
            /\ Cardinality(below[c]) < Cardinality(below[n])
PROOF
  <1>. DEFINE c == t.child[side][n]
  <1>1. c \in P /\ t.parent[c] = n
    BY DEF Shape, Downward
  <1>2. /\ n \in Keys /\ n \in Places /\ c \in Keys /\ c \in Places
        /\ c \in below[c] /\ n \in below[n] /\ below[c] \subseteq P
    BY <1>1, ShapeFacts
  <1>3. below[c] \subseteq below[n]
    BY <1>2, SideFacts DEF Shape, Filled
  <1>4. \A k \in below[c] : Lies(side, k, n)
    BY DEF Shape, Ordered
  <1>. HIDE DEF c
  <1>5. n \notin below[c]
    BY <1>2, <1>4, LiesFacts
  <1>6. Lies(side, c, n) /\ c # n
    BY <1>2, <1>4, <1>5
  <1>7. below[c] \in SUBSET (below[n] \ {n})
    BY <1>3, <1>5
  <1>8. IsFiniteSet(below[n]) /\ Cardinality(below[n]) \in Nat
        /\ Cardinality(below[c]) \in Nat
    BY <1>2, ShapeFacts
  <1>9. /\ IsFiniteSet(below[n] \ {n})
        /\ Cardinality(below[n] \ {n}) = Cardinality(below[n]) - 1
    BY <1>2, <1>8, FS_RemoveElement
  <1>10. Cardinality(below[c]) <= Cardinality(below[n] \ {n})
    BY <1>7, <1>9, FS_Subset
  <1>. QED
    BY <1>1, <1>2, <1>3, <1>6, <1>7, <1>8, <1>9, <1>10 DEF c

(* What is below a node is the node or below one of its children.          *)
LEMMA BelowSplits ==
  ASSUME NEW t, NEW P, NEW below, Shape(t, P, below), NEW n \in P,
         NEW k \in below[n], k # n
  PROVE  \E side \in Sides : /\ t.child[side][n] # Nil
                             /\ t.child[side][n] \in P
                             /\ k \in below[t.child[side][n]]
                             /\ Lies(side, k, n)
PROOF
  <1>1. PICK side \in Sides : k \in below[t.child[side][n]]
    BY SideFacts DEF Shape, Filled
  <1>2. t.child[side][n] # Nil
    BY <1>1 DEF Shape, Filled
  <1>. QED
    BY <1>1, <1>2 DEF Shape, Downward, Ordered

(* Nothing outside a subtree lies between two of its keys.                 *)
LEMMA Convex ==
  ASSUME NEW t, NEW P, NEW below, Shape(t, P, below), NEW n \in P,
         NEW a \in below[n], NEW b \in below[n], NEW k \in P, a < k, k < b
  PROVE  k \in below[n]
PROOF
  <1>. DEFINE T == { Cardinality(below[m]) : m \in { q \in P : k \in below[q] /\ n \in below[q] } }
  <1>1. SUFFICES ASSUME k \notin below[n] PROVE FALSE
    OBVIOUS
  <1>2. /\ a \in P /\ b \in P /\ P \subseteq Keys /\ n \in below[n]
        /\ \A m \in P : m \in Places /\ Cardinality(below[m]) \in Nat
    BY ShapeFacts
  <1>3. T \in SUBSET Nat
    BY <1>2
  <1>4. T # {}
    <2>1. t.root \in P /\ below[t.root] = P
      BY ShapeFacts DEF Shape, AtTop
    <2>2. Cardinality(below[t.root]) \in T
      BY <2>1
    <2>. QED
      BY <2>2
  <1>5. PICK x \in T : \A y \in T : x <= y
    <2>. HIDE DEF T
    <2>. QED
      BY <1>3, <1>4, LeastNumber
  <1>6. PICK m \in P : /\ k \in below[m] /\ n \in below[m]
                       /\ x = Cardinality(below[m])
    BY <1>5
  <1>7. m # n
    BY <1>1, <1>6
  <1>8. PICK side \in Sides :
          /\ t.child[side][m] # Nil /\ t.child[side][m] \in P
          /\ n \in below[t.child[side][m]]
    BY <1>6, <1>7, BelowSplits
  <1>. DEFINE c == t.child[side][m]
  <1>9. a \in below[c] /\ b \in below[c]
    BY <1>8 DEF Shape, Nested
  <1>10. Lies(side, a, m) /\ Lies(side, b, m)
    BY <1>8, <1>9 DEF Shape, Ordered
  <1>11. k # m
    BY <1>2, <1>10, KeysAreNumbers DEF Lies
  <1>12. PICK other \in Sides :
           /\ t.child[other][m] # Nil /\ t.child[other][m] \in P
           /\ k \in below[t.child[other][m]] /\ Lies(other, k, m)
    BY <1>6, <1>11, BelowSplits
  <1>13. other = side
    BY <1>2, <1>10, <1>12, KeysAreNumbers, SideFacts DEF Lies
  <1>14. Cardinality(below[c]) \in T
    BY <1>8, <1>12, <1>13
  <1>15. Cardinality(below[c]) < Cardinality(below[m])
    BY <1>8, ChildFacts
  <1>16. x <= Cardinality(below[c])
    BY <1>5, <1>14
  <1>. QED
    BY <1>2, <1>6, <1>8, <1>15, <1>16

-----------------------------------------------------------------------------
(* The search. *)

NextToward(key) ==
  [n \in Places |-> IF n \in {Nil, key} THEN n ELSE tree.child[Toward(key, n)][n]]

(* Above n, key would go where n is.                                       *)
Fits(key, n, P, below) ==
  \A m \in P : n \in below[m] /\ m # n => (key < m <=> n < m)

(* What is true of the i-th place the search comes to.                     *)
OnTheWay(key, P, below, n, i) ==
  /\ n \in P \cup {Nil}
  /\ key \in P => n # Nil /\ key \in below[n]
  /\ n # Nil => Fits(key, n, P, below)
  /\ n \notin {Nil, key} => Cardinality(below[n]) <= Depth - i

LEMMA FitsDown ==
  ASSUME NEW t, NEW P, NEW below, Shape(t, P, below), NEW n \in P,
         NEW key \in Keys, key # n, Fits(key, n, P, below),
         t.child[Toward(key, n)][n] # Nil
  PROVE  Fits(key, t.child[Toward(key, n)][n], P, below)
PROOF
  <1>. DEFINE side == Toward(key, n)
              c == t.child[side][n]
  <1>1. /\ side \in Sides /\ c \in P /\ c # n /\ t.parent[c] = n /\ Lies(side, c, n)
        /\ c \in below[n]
    BY SideFacts, ChildFacts
  <1>2. P \subseteq Keys
    BY DEF Shape
  <1>3. Lies(side, key, n)
    BY <1>2, LiesFacts, SideFacts
  <1>. HIDE DEF c, side
  <1>4. ASSUME NEW m \in P, c \in below[m], m # c PROVE key < m <=> c < m
    <2>1. n \in below[m]
      BY <1>1, <1>4 DEF Shape, Nested
    <2>2. CASE m = n
      BY <1>1, <1>2, <1>3, <2>2, KeysAreNumbers DEF Lies
    <2>3. CASE m # n
      <3>1. PICK s \in Sides : /\ t.child[s][m] # Nil /\ t.child[s][m] \in P
                               /\ n \in below[t.child[s][m]] /\ Lies(s, n, m)
        BY <2>1, <2>3, BelowSplits
      <3>2. c \in below[t.child[s][m]]
        BY <1>1, <3>1 DEF Shape, Nested
      <3>3. Lies(s, c, m)
        BY <3>2 DEF Shape, Ordered
      <3>4. key < m <=> n < m
        BY <2>1, <2>3 DEF Fits
      <3>. QED
        BY <1>1, <1>2, <3>1, <3>3, <3>4, KeysAreNumbers DEF Lies
    <2>. QED
      BY <2>2, <2>3
  <1>. QED
    BY <1>4 DEF Fits, c, side

(* Down the side it lies on the key is found, if it is there.              *)
LEMMA KeyGoesDown ==
  ASSUME NEW t, NEW P, NEW below, Shape(t, P, below), NEW n \in P,
         NEW key \in below[n], key # n
  PROVE  /\ t.child[Toward(key, n)][n] # Nil
         /\ t.child[Toward(key, n)][n] \in P
         /\ key \in below[t.child[Toward(key, n)][n]]
PROOF
  <1>1. key \in Keys /\ n \in Keys
    BY ShapeFacts
  <1>2. PICK s \in Sides : /\ t.child[s][n] # Nil /\ t.child[s][n] \in P
                           /\ key \in below[t.child[s][n]] /\ Lies(s, key, n)
    BY BelowSplits
  <1>3. s = Toward(key, n)
    BY <1>1, <1>2, KeysAreNumbers, SideFacts DEF Lies, Toward
  <1>. QED
    BY <1>2, <1>3

LEMMA SearchOnTheWay ==
  ASSUME NEW P, NEW below, Shape(tree, P, below), NEW key \in Keys
  PROVE  /\ tree.root \in Places /\ NextToward(key) \in [Places -> Places]
         /\ Search(key) = Walk(tree.root, NextToward(key))
         /\ Walks(Search(key), Depth, Places, tree.root, NextToward(key))
         /\ \A i \in 0..Depth : OnTheWay(key, P, below, Search(key)[i], i)
PROOF
  <1>. DEFINE w == Search(key)
  <1>1. tree.root \in Places /\ tree.child \in [Sides -> [Places -> Places]]
    BY DEF Shape, Trees
  <1>2. NextToward(key) \in [Places -> Places]
    BY <1>1 DEF NextToward, Toward, Sides
  <1>3. w = Walk(tree.root, NextToward(key))
    BY DEF Search, NextToward
  <1>4. Walks(w, Depth, Places, tree.root, NextToward(key))
    BY <1>1, <1>2, <1>3, WalkWalks
  <1>. HIDE DEF w
  <1>5. Depth \in Nat /\ P \subseteq Keys /\ Nil \notin P
    BY DepthType, ShapeFacts
  <1>6. OnTheWay(key, P, below, w[0], 0)
    <2>1. w[0] = tree.root
      BY <1>4 DEF Walks
    <2>2. tree.root \in P \cup {Nil} /\ below[tree.root] = P
      BY DEF Shape, AtTop
    <2>3. key \in P => tree.root # Nil /\ key \in below[tree.root]
      BY <2>2, ShapeFacts
    <2>4. tree.root # Nil => Fits(key, tree.root, P, below)
      <3>1. ASSUME NEW m \in P, tree.root \in below[m], m # tree.root, tree.root # Nil
            PROVE  FALSE
        <4>1. tree.parent[tree.root] = Nil
          BY <3>1 DEF Shape, AtTop
        <4>2. Nil \in below[m]
          BY <3>1, <4>1 DEF Shape, Nested
        <4>. QED
          BY <1>5, <4>2, ShapeFacts
      <3>. QED
        BY <3>1 DEF Fits
    <2>5. Cardinality(below[tree.root]) <= Depth - 0
      BY <1>1, <1>5, ShapeFacts
    <2>. QED
      BY <2>1, <2>2, <2>3, <2>4, <2>5 DEF OnTheWay
  <1>7. ASSUME NEW i \in 1..Depth, OnTheWay(key, P, below, w[i - 1], i - 1)
        PROVE  OnTheWay(key, P, below, w[i], i)
    <2>. DEFINE n == w[i - 1]
    <2>1. w[i] = NextToward(key)[n] /\ n \in Places
      BY <1>4, <1>5, <1>7 DEF Walks, OnTheWay, Places
    <2>2. w[i] = IF n \in {Nil, key} THEN n ELSE tree.child[Toward(key, n)][n]
      BY <2>1 DEF NextToward
    <2>3. OnTheWay(key, P, below, n, i - 1)
      BY <1>7
    <2>. HIDE DEF n
    <2>4. CASE n \in {Nil, key}
      BY <2>2, <2>3, <2>4 DEF OnTheWay
    <2>5. CASE n \notin {Nil, key}
      <3>1. /\ n \in P /\ key # n /\ Fits(key, n, P, below)
            /\ key \in P => key \in below[n]
            /\ Cardinality(below[n]) <= Depth - (i - 1)
        BY <2>3, <2>5 DEF OnTheWay
      <3>. DEFINE c == tree.child[Toward(key, n)][n]
      <3>2. key \in P => c # Nil /\ key \in below[c]
        BY <3>1, KeyGoesDown
      <3>3. w[i] = c
        BY <2>2, <2>5
      <3>4. CASE c = Nil
        BY <3>2, <3>3, <3>4 DEF OnTheWay
      <3>5. CASE c # Nil
        <4>1. Toward(key, n) \in Sides
          BY SideFacts
        <4>2. c \in P /\ Cardinality(below[c]) < Cardinality(below[n])
          BY <3>1, <3>5, <4>1, ChildFacts
        <4>3. Fits(key, c, P, below)
          BY <3>1, <3>5, FitsDown
        <4>. HIDE DEF c
        <4>4. /\ Cardinality(below[c]) \in Nat
              /\ Cardinality(below[n]) \in Nat
          BY <3>1, <4>2, ShapeFacts
        <4>5. Cardinality(below[c]) <= Depth - i
          BY <1>5, <3>1, <4>2, <4>4
        <4>. QED
          BY <3>2, <3>3, <3>5, <4>2, <4>3, <4>5 DEF OnTheWay
      <3>. QED
        BY <3>4, <3>5
    <2>. QED
      BY <2>4, <2>5
  <1>8. \A i \in 0..Depth : OnTheWay(key, P, below, w[i], i)
    <2>. DEFINE T == { i \in 0..Depth : ~OnTheWay(key, P, below, w[i], i) }
    <2>1. SUFFICES ASSUME T # {} PROVE FALSE
      OBVIOUS
    <2>2. T \in SUBSET Nat
      BY <1>5
    <2>3. PICK x \in T : \A y \in T : x <= y
      <3>. HIDE DEF T
      <3>. QED
        BY <2>1, <2>2, LeastNumber
    <2>4. x # 0 /\ x \in 0..Depth
      BY <1>6, <2>3
    <2>5. x \in 1..Depth /\ x - 1 \in 0..Depth /\ ~(x <= x - 1)
      BY <1>5, <2>4
    <2>6. OnTheWay(key, P, below, w[x - 1], x - 1)
      BY <2>3, <2>5
    <2>7. ~OnTheWay(key, P, below, w[x], x)
      BY <2>3
    <2>. QED
      BY <1>7, <2>5, <2>6, <2>7
  <1>. QED
    BY <1>1, <1>2, <1>3, <1>4, <1>8 DEF w

(* The search comes to the key if the tree has it, else to Nil.            *)
LEMMA SearchFinds ==
  ASSUME NEW P, NEW below, Shape(tree, P, below), NEW key \in Keys
  PROVE  /\ Reached(Search(key)) = IF key \in P THEN key ELSE Nil
         /\ Find(key) <=> key \in P
PROOF
  <1>. DEFINE e == Search(key)[Depth]
  <1>1. OnTheWay(key, P, below, e, Depth) /\ Depth \in Nat
    BY SearchOnTheWay, DepthType
  <1>2. Reached(Search(key)) = e
    BY DEF Reached, Depth
  <1>. HIDE DEF e
  <1>3. e \in {Nil, key}
    <2>1. SUFFICES ASSUME e \notin {Nil, key} PROVE FALSE
      OBVIOUS
    <2>2. e \in P /\ Cardinality(below[e]) <= Depth - Depth
      BY <1>1, <2>1 DEF OnTheWay
    <2>3. Cardinality(below[e]) > 0 /\ Cardinality(below[e]) \in Nat
      BY <2>2, ShapeFacts
    <2>. QED
      BY <1>1, <2>2, <2>3
  <1>4. key # Nil
    BY KeysAssumption
  <1>5. e = IF key \in P THEN key ELSE Nil
    BY <1>1, <1>3, <1>4 DEF OnTheWay
  <1>. QED
    BY <1>2, <1>4, <1>5 DEF Find

(* The node passed last: the parent of a key that is there, and where one  *)
(* that is not there belongs.                                              *)
LEMMA SearchPasses ==
  ASSUME NEW P, NEW below, Shape(tree, P, below), NEW key \in Keys
  PROVE  /\ key \in P => ParentOf(key) = tree.parent[key]
         /\ key \notin P =>
              \/ P = {} /\ ParentOf(key) = Nil
              \/ /\ ParentOf(key) \in P /\ Fits(key, ParentOf(key), P, below)
                 /\ tree.child[Toward(key, ParentOf(key))][ParentOf(key)] = Nil
PROOF
  <1>. DEFINE w == Search(key)
              end == Reached(w)
  <1>1. /\ Walks(w, Depth, Places, tree.root, NextToward(key)) /\ Depth \in Nat
        /\ \A i \in 0..Depth : OnTheWay(key, P, below, w[i], i)
    BY SearchOnTheWay, DepthType
  <1>2. end = IF key \in P THEN key ELSE Nil
    BY SearchFinds
  <1>3. ParentOf(key) = Passed(w, Nil)
    BY DEF ParentOf
  <1>4. key # Nil /\ P \subseteq Keys /\ Nil \notin P
    BY KeysAssumption DEF Shape
  <1>5. \/ tree.root = end /\ Passed(w, Nil) = Nil
        \/ \E m \in 0..(Depth - 1) :
              /\ Passed(w, Nil) = w[m] /\ w[m] # end
              /\ m + 1 \in 1..Depth /\ w[m + 1] = end
    BY SearchOnTheWay, WalkPasses
  <1>. HIDE DEF w, end
  <1>6. CASE tree.root = end /\ Passed(w, Nil) = Nil
    BY <1>2, <1>3, <1>4, <1>6, ShapeFacts DEF Shape, AtTop
  <1>7. ASSUME NEW m \in 0..(Depth - 1), Passed(w, Nil) = w[m], w[m] # end,
               m + 1 \in 1..Depth, w[m + 1] = end
        PROVE  /\ key \in P => w[m] = tree.parent[key]
               /\ key \notin P => /\ w[m] \in P /\ Fits(key, w[m], P, below)
                                 /\ tree.child[Toward(key, w[m])][w[m]] = Nil
    <2>. DEFINE n == w[m]
    <2>1. m \in 0..Depth /\ (m + 1) - 1 = m
      BY <1>1
    <2>2. OnTheWay(key, P, below, n, m) /\ w[m + 1] = NextToward(key)[n]
      BY <1>1, <1>7, <2>1 DEF Walks
    <2>. HIDE DEF n
    <2>3. n \in Places
      BY <1>4, <2>2 DEF OnTheWay, Places
    <2>4. end = IF n \in {Nil, key} THEN n ELSE tree.child[Toward(key, n)][n]
      BY <1>7, <2>2, <2>3 DEF NextToward
    <2>5. n # end
      BY <1>7 DEF n
    <2>6. /\ n \in P /\ n # key /\ Fits(key, n, P, below)
          /\ end = tree.child[Toward(key, n)][n]
      BY <2>2, <2>4, <2>5 DEF OnTheWay
    <2>7. Toward(key, n) \in Sides
      BY SideFacts
    <2>8. CASE key \in P
      BY <1>2, <1>4, <2>6, <2>7, <2>8 DEF Shape, Downward, n
    <2>9. CASE key \notin P
      BY <1>2, <2>6, <2>9 DEF n
    <2>. QED
      BY <2>8, <2>9
  <1>. QED
    BY <1>3, <1>5, <1>6, <1>7

-----------------------------------------------------------------------------
(* The successor: to the left as far as it goes, from the right child. *)

NextLeft ==
  [n \in Places |-> IF tree.child["left"][n] = Nil THEN n
                     ELSE tree.child["left"][n]]

(* What is true of the i-th node on the way there: of the keys above key,  *)
(* those not below the node are above it too.                              *)
LeftOnTheWay(key, P, below, n, i) ==
  /\ n \in P /\ n \in below[tree.child["right"][key]]
  /\ \A k \in P : key < k /\ k \notin below[n] => n < k
  /\ tree.child["left"][n] # Nil => Cardinality(below[n]) <= Depth - i

LEMMA SuccessorFacts ==
  ASSUME NEW P, NEW below, Shape(tree, P, below), NEW key \in P,
         tree.child["right"][key] # Nil
  PROVE  LET s == Successor(key)
         IN /\ s \in P /\ s # key /\ s \in below[key] /\ key < s
            /\ tree.child["left"][s] = Nil
            /\ SuccessorParent(key) = tree.parent[s]
            /\ \A k \in P : ~(key < k /\ k < s)
PROOF
  <1>. DEFINE c == tree.child["right"][key]
              w == Leftmost(c)
              s == Reached(w)
  <1>1. /\ Depth \in Nat /\ P \subseteq Keys /\ Nil \notin P /\ key \in Keys
        /\ key \in below[key] /\ "left" \in Sides /\ "right" \in Sides
    BY DepthType, ShapeFacts, SideFacts
  <1>2. /\ c \in P /\ c # key /\ tree.parent[c] = key /\ c \in below[key]
        /\ Lies("right", c, key)
    BY <1>1, ChildFacts
  <1>3. c \in Places /\ NextLeft \in [Places -> Places]
    BY <1>1, <1>2 DEF Shape, Trees, NextLeft, Places
  <1>4. w = Walk(c, NextLeft)
    BY DEF Leftmost, NextLeft
  <1>5. Walks(w, Depth, Places, c, NextLeft)
    BY <1>3, <1>4, WalkWalks
  <1>6. \/ c = s /\ Passed(w, key) = key
        \/ \E m \in 0..(Depth - 1) :
              /\ Passed(w, key) = w[m] /\ w[m] # s
              /\ m + 1 \in 1..Depth /\ w[m + 1] = s
    BY <1>3, <1>4, WalkPasses
  <1>7. Successor(key) = s /\ SuccessorParent(key) = Passed(w, key)
    BY DEF Successor, SuccessorParent
  <1>. HIDE DEF w, s
  <1>8. LeftOnTheWay(key, P, below, w[0], 0)
    <2>1. w[0] = c
      BY <1>5 DEF Walks
    <2>2. c \in below[c] /\ key < c
      BY <1>2, ShapeFacts DEF Lies
    <2>3. ASSUME NEW k \in P, key < k, k \notin below[c] PROVE c < k
      <3>1. CASE k \in below[key]
        <4>1. PICK side \in Sides : /\ k \in below[tree.child[side][key]]
                                    /\ Lies(side, k, key)
          <5>1. k # key
            BY <1>1, <2>3, KeysAreNumbers
          <5>. QED
            BY <3>1, <5>1, BelowSplits
        <4>2. side = "right"
          BY <1>1, <2>3, <4>1, KeysAreNumbers, SideFacts DEF Lies
        <4>. QED
          BY <2>3, <4>1, <4>2
      <3>2. CASE k \notin below[key]
        <4>1. ~(k < c)
          BY <1>1, <1>2, <2>3, <3>2, Convex
        <4>2. k # c
          BY <1>2, <3>2
        <4>. QED
          BY <1>1, <1>2, <4>1, <4>2, KeysAreNumbers
      <3>. QED
        BY <3>1, <3>2
    <2>4. Cardinality(below[c]) <= Depth - 0
      BY <1>1, <1>3, ShapeFacts
    <2>. QED
      BY <1>2, <2>1, <2>2, <2>3, <2>4 DEF LeftOnTheWay
  <1>9. ASSUME NEW i \in 1..Depth, LeftOnTheWay(key, P, below, w[i - 1], i - 1)
        PROVE  LeftOnTheWay(key, P, below, w[i], i)
    <2>. DEFINE n == w[i - 1]
                l == tree.child["left"][n]
    <2>1. LeftOnTheWay(key, P, below, n, i - 1)
      BY <1>9
    <2>2. n \in P /\ n \in Places /\ w[i] = NextLeft[n]
      BY <1>1, <1>5, <2>1 DEF Walks, LeftOnTheWay, Places
    <2>3. w[i] = IF l = Nil THEN n ELSE l
      BY <2>2 DEF NextLeft
    <2>. HIDE DEF n
    <2>4. CASE l = Nil
      BY <2>1, <2>3, <2>4 DEF LeftOnTheWay
    <2>5. CASE l # Nil
      <3>1. /\ l \in P /\ l \in below[n] /\ Lies("left", l, n)
            /\ Cardinality(below[l]) < Cardinality(below[n])
        BY <1>1, <2>2, <2>5, ChildFacts
      <3>2. l \in below[tree.child["right"][key]]
        BY <1>2, <2>1, <3>1 DEF Shape, Nested, LeftOnTheWay
      <3>3. ASSUME NEW k \in P, key < k, k \notin below[l] PROVE l < k
        <4>1. CASE k \in below[n]
          <5>1. k = n \/ Lies("right", k, n)
            <6>1. SUFFICES ASSUME k # n PROVE Lies("right", k, n)
              OBVIOUS
            <6>2. PICK side \in Sides : /\ k \in below[tree.child[side][n]]
                                        /\ Lies(side, k, n)
              BY <2>2, <4>1, <6>1, BelowSplits
            <6>3. side # "left"
              BY <3>3, <6>2
            <6>. QED
              BY <6>2, <6>3, SideFacts
          <5>. QED
            BY <1>1, <2>2, <3>1, <5>1, KeysAreNumbers DEF Lies
        <4>2. CASE k \notin below[n]
          <5>1. n < k
            BY <2>1, <3>3, <4>2 DEF LeftOnTheWay
          <5>. QED
            BY <1>1, <2>2, <3>1, <5>1, KeysAreNumbers DEF Lies
        <4>. QED
          BY <4>1, <4>2
      <3>. HIDE DEF l
      <3>5. /\ Cardinality(below[l]) \in Nat /\ Cardinality(below[n]) \in Nat
            /\ Cardinality(below[n]) <= Depth - (i - 1)
        BY <2>1, <2>2, <2>5, <3>1, ShapeFacts DEF LeftOnTheWay, l
      <3>6. Cardinality(below[l]) <= Depth - i
        BY <1>1, <3>1, <3>5
      <3>. QED
        BY <2>3, <2>5, <3>1, <3>2, <3>3, <3>6 DEF LeftOnTheWay
    <2>. QED
      BY <2>4, <2>5
  <1>10. \A i \in 0..Depth : LeftOnTheWay(key, P, below, w[i], i)
    <2>. DEFINE T == { i \in 0..Depth : ~LeftOnTheWay(key, P, below, w[i], i) }
    <2>1. SUFFICES ASSUME T # {} PROVE FALSE
      OBVIOUS
    <2>2. T \in SUBSET Nat
      BY <1>1
    <2>3. PICK x \in T : \A y \in T : x <= y
      <3>. HIDE DEF T
      <3>. QED
        BY <2>1, <2>2, LeastNumber
    <2>4. x # 0 /\ x \in 0..Depth
      BY <1>8, <2>3
    <2>5. x \in 1..Depth /\ x - 1 \in 0..Depth /\ ~(x <= x - 1)
      BY <1>1, <2>4
    <2>6. LeftOnTheWay(key, P, below, w[x - 1], x - 1)
      BY <2>3, <2>5
    <2>7. ~LeftOnTheWay(key, P, below, w[x], x)
      BY <2>3
    <2>. QED
      BY <1>9, <2>5, <2>6, <2>7
  <1>11. LeftOnTheWay(key, P, below, s, Depth)
    BY <1>1, <1>10 DEF s, Reached, Depth
  <1>12. s \in P /\ s \in below[key] /\ key < s
    <2>1. s \in P /\ s \in below[c] /\ Lies("right", s, key)
      BY <1>1, <1>11 DEF LeftOnTheWay, Shape, Ordered
    <2>. QED
      BY <1>1, <1>2, <2>1, SideFacts DEF Lies, Shape, Nested
  <1>13. tree.child["left"][s] = Nil
    <2>1. Cardinality(below[s]) > 0 /\ Cardinality(below[s]) \in Nat
      BY <1>12, ShapeFacts
    <2>. QED
      BY <1>1, <1>11, <2>1 DEF LeftOnTheWay
  <1>14. Passed(w, key) = tree.parent[s]
    <2>1. CASE c = s /\ Passed(w, key) = key
      BY <1>2, <2>1
    <2>2. ASSUME NEW m \in 0..(Depth - 1), Passed(w, key) = w[m], w[m] # s,
                 m + 1 \in 1..Depth, w[m + 1] = s
          PROVE  Passed(w, key) = tree.parent[s]
      <3>1. w[m + 1] = NextLeft[w[m]]
        <4>1. w[m + 1] = NextLeft[w[(m + 1) - 1]]
          BY <1>5, <2>2 DEF Walks
        <4>2. (m + 1) - 1 = m
          BY <2>2
        <4>. QED
          BY <4>1, <4>2
      <3>2. w[m] \in P /\ w[m] \in Places
        <4>1. m \in 0..Depth
          BY <1>1
        <4>. QED
          BY <1>1, <1>10, <4>1 DEF LeftOnTheWay, Places
      <3>3. tree.child["left"][w[m]] = s /\ s # Nil
        BY <1>1, <1>12, <2>2, <3>1, <3>2 DEF NextLeft
      <3>4. tree.parent[s] = w[m]
        BY <1>1, <3>2, <3>3 DEF Shape, Downward
      <3>. QED
        BY <2>2, <3>4
    <2>. QED
      BY <1>6, <2>1, <2>2
  <1>15. ASSUME NEW k \in P, key < k, k < s PROVE FALSE
    <2>1. k \in below[s]
      BY <1>1, <1>11, <1>12, <1>15, KeysAreNumbers DEF LeftOnTheWay
    <2>2. k # s
      BY <1>1, <1>12, <1>15, KeysAreNumbers
    <2>3. PICK side \in Sides : /\ tree.child[side][s] # Nil
                                /\ Lies(side, k, s)
      BY <1>12, <2>1, <2>2, BelowSplits
    <2>4. side = "right"
      BY <1>13, <2>3, SideFacts
    <2>. QED
      BY <1>1, <1>12, <1>15, <2>3, <2>4, KeysAreNumbers DEF Lies
  <1>16. s # key
    BY <1>1, <1>12, KeysAreNumbers
  <1>. QED
    BY <1>7, <1>12, <1>13, <1>14, <1>15, <1>16

-----------------------------------------------------------------------------
(* What the changes of the links do to the shape. *)

(* A new key is hung below n, on its side, where there was no child.       *)
LEMMA HangKeepsShape ==
  ASSUME NEW t, NEW P, NEW below, Shape(t, P, below), NEW key \in Keys \ P,
         NEW n \in P, Fits(key, n, P, below), t.child[Toward(key, n)][n] = Nil
  PROVE  \E b : Shape([t EXCEPT !.child[Toward(key, n)][n] = key,
                                !.parent[key] = n], P \cup {key}, b)
PROOF
  <1>. DEFINE side == Toward(key, n)
              u == [t EXCEPT !.child[side][n] = key, !.parent[key] = n]
              Q == P \cup {key}
              b == [m \in Places |->
                      IF m = key THEN {key}
                      ELSE IF n \in below[m] THEN below[m] \cup {key}
                      ELSE below[m]]
  <1>1. /\ side \in Sides /\ P \subseteq Keys /\ Nil \notin P /\ n \in Keys
        /\ n \in Places /\ key \in Places /\ key # Nil /\ key # n
        /\ Nil \in Places /\ n \in below[n] /\ below[Nil] = {}
        /\ \A m \in P : below[m] \subseteq P /\ m \in Places /\ m \in below[m]
    <2>1. side \in Sides
      BY SideFacts
    <2>2. key \in Places /\ key # Nil /\ key # n /\ Nil \in Places
      BY KeysAssumption DEF Places
    <2>3. below[Nil] = {}
      BY DEF Shape, Filled
    <2>4. /\ P \subseteq Keys /\ Nil \notin P
          /\ \A m \in P : /\ m \in Keys /\ m \in Places /\ m \in below[m]
                          /\ below[m] \subseteq P
      BY ShapeFacts
    <2>. QED
      BY <2>1, <2>2, <2>3, <2>4
  <1>2. Lies(side, key, n)
    BY <1>1, LiesFacts
  <1>. HIDE DEF side
  <1>3. /\ u \in Trees /\ u.root = t.root
        /\ u.parent = [t.parent EXCEPT ![key] = n]
        /\ \A s \in Sides : \A m \in Places :
             u.child[s][m] = IF s = side /\ m = n THEN key ELSE t.child[s][m]
    BY ZenonT(60), <1>1 DEF Shape, Trees
  <1>4. /\ \A m \in Places : u.parent[m] = IF m = key THEN n ELSE t.parent[m]
    BY <1>1, <1>3 DEF Shape, Trees
  <1>. HIDE DEF u
  <1>5. b \in [Places -> SUBSET Keys]
    BY <1>1 DEF Shape
  <1>6. /\ b[key] = {key} /\ b[Nil] = {}
        /\ \A m \in Places : m # key =>
             b[m] = IF n \in below[m] THEN below[m] \cup {key} ELSE below[m]
    BY <1>1
  <1>. HIDE DEF b
  <1>7. \A s \in Sides : \A m \in P :
          /\ t.child[s][m] \in P \cup {Nil} /\ t.child[s][m] \in Places
          /\ t.child[s][m] # key
          /\ n \notin below[t.child[s][n]]
    <2>1. \A s \in Sides : \A m \in P : t.child[s][m] \in P \cup {Nil}
      BY DEF Shape, Downward
    <2>2. \A s \in Sides : n \notin below[t.child[s][n]]
      BY <1>1, LiesFacts DEF Shape, Ordered
    <2>. QED
      BY <1>1, <2>1, <2>2
  <1>8. \A s \in Sides : u.child[s][key] = Nil
    BY <1>1, <1>3 DEF Shape, Cleared
  <1>9. ASSUME NEW m \in P, NEW s \in Sides
        PROVE  b[u.child[s][m]] =
                 IF n \in below[t.child[s][m]] \/ (s = side /\ m = n)
                   THEN below[t.child[s][m]] \cup {key} ELSE below[t.child[s][m]]
    <2>1. CASE s = side /\ m = n
      BY <1>1, <1>3, <1>6, <2>1 DEF side
    <2>2. CASE ~(s = side /\ m = n)
      <3>1. u.child[s][m] = t.child[s][m]
        BY <1>1, <1>3, <2>2
      <3>. QED
        BY <1>6, <1>7, <2>2, <3>1
    <2>. QED
      BY <2>1, <2>2
  <1>10. Filled(u, Q, b)
    <2>1. b[key] = {key} \cup b[u.child["left"][key]] \cup b[u.child["right"][key]]
      BY <1>6, <1>8, SideFacts
    <2>2. ASSUME NEW m \in P
          PROVE  b[m] = {m} \cup b[u.child["left"][m]] \cup b[u.child["right"][m]]
      <3>1. below[m] = {m} \cup below[t.child["left"][m]] \cup below[t.child["right"][m]]
        BY DEF Shape, Filled
      <3>2. b[m] = IF n \in below[m] THEN below[m] \cup {key} ELSE below[m]
        BY <1>1, <1>6
      <3>. QED
        BY ZenonT(60), <1>1, <1>9, <3>1, <3>2, SideFacts
    <2>. QED
      BY <1>6, <2>1, <2>2 DEF Filled
  <1>11. Ordered(u, Q, b)
    <2>1. ASSUME NEW m \in P, NEW s \in Sides, NEW k \in b[u.child[s][m]]
          PROVE  Lies(s, k, m)
      <3>1. CASE k \in below[t.child[s][m]]
        BY <3>1 DEF Shape, Ordered
      <3>2. CASE s = side /\ m = n /\ k = key
        BY <1>2, <3>2
      <3>3. CASE n \in below[t.child[s][m]] /\ k = key
        <4>1. Lies(s, n, m)
          BY <3>3 DEF Shape, Ordered
        <4>2. n \in below[m]
          BY <3>3, SideFacts DEF Shape, Filled
        <4>3. m # n
          BY <1>7, <3>3
        <4>4. key < m <=> n < m
          BY <4>2, <4>3 DEF Fits
        <4>5. key \in Int /\ n \in Int /\ m \in Int /\ key # m
          <5>1. key \in Keys /\ n \in Keys /\ m \in Keys /\ key # m
            BY <1>1
          <5>. QED
            BY <5>1, KeysAreNumbers
        <4>. QED
          BY <3>3, <4>1, <4>4, <4>5 DEF Lies
      <3>. QED
        BY ZenonT(60), <1>9, <2>1, <3>1, <3>2, <3>3
    <2>2. \A s \in Sides : b[u.child[s][key]] = {}
      BY <1>6, <1>8
    <2>. QED
      BY <2>1, <2>2 DEF Ordered
  <1>12. AtTop(u, Q, b)
    <2>1. t.root \in P /\ below[t.root] = P /\ t.parent[t.root] = Nil
      BY SMTT(60), ShapeFacts DEF Shape, AtTop
    <2>2. t.root # key /\ t.root \in Places
      BY <1>1, <2>1
    <2>3. b[t.root] = Q
      BY <1>6, <2>1, <2>2
    <2>4. u.parent[t.root] = Nil
      BY <1>4, <2>1, <2>2
    <2>. QED
      BY <1>3, <2>1, <2>3, <2>4 DEF AtTop
  <1>13. Downward(u, Q)
    <2>1. ASSUME NEW m \in P, NEW s \in Sides, u.child[s][m] # Nil
          PROVE  u.child[s][m] \in Q /\ u.parent[u.child[s][m]] = m
      BY <1>1, <1>3, <1>4, <1>7, <2>1 DEF Shape, Downward
    <2>. QED
      BY <1>8, <2>1 DEF Downward
  <1>14. Upward(u, Q)
    <2>1. u.parent[key] = n /\ u.child[side][n] = key
      BY <1>1, <1>3, <1>4
    <2>2. ASSUME NEW m \in P
          PROVE  /\ u.parent[m] = Nil => m = u.root
                 /\ u.parent[m] # Nil =>
                      /\ u.parent[m] \in Q
                      /\ \E s \in Sides : u.child[s][u.parent[m]] = m
      <3>1. u.parent[m] = t.parent[m] /\ u.root = t.root /\ m # key
        BY <1>1, <1>3, <1>4
      <3>2. CASE t.parent[m] = Nil
        BY <3>1, <3>2 DEF Shape, Upward
      <3>3. CASE t.parent[m] # Nil
        <4>1. PICK s \in Sides : t.child[s][t.parent[m]] = m
          BY <3>3 DEF Shape, Upward
        <4>2. t.parent[m] \in P
          BY <3>3 DEF Shape, Upward
        <4>3. ~(s = side /\ t.parent[m] = n)
          BY <1>1, <4>1 DEF side
        <4>4. u.child[s][t.parent[m]] = m
          BY <1>1, <1>3, <4>1, <4>2, <4>3
        <4>. QED
          BY <3>1, <3>3, <4>2, <4>4
      <3>. QED
        BY <3>2, <3>3
    <2>. QED
      BY <1>1, <2>1, <2>2 DEF Upward
  <1>15. Nested(u, Q, b)
    <2>1. ASSUME NEW m \in P, NEW k \in b[m]
          PROVE  b[k] \subseteq b[m] /\ (k # m => u.parent[k] \in b[m])
      <3>1. b[m] = IF n \in below[m] THEN below[m] \cup {key} ELSE below[m]
        BY <1>1, <1>6
      <3>2. CASE k = key
        BY <1>1, <1>4, <1>6, <2>1, <3>1, <3>2
      <3>3. CASE k # key
        <4>1. k \in below[m] /\ k \in P /\ k \in Places
          BY <1>1, <2>1, <3>1, <3>3
        <4>2. below[k] \subseteq below[m] /\ (k # m => t.parent[k] \in below[m])
          BY <4>1 DEF Shape, Nested
        <4>3. b[k] = IF n \in below[k] THEN below[k] \cup {key} ELSE below[k]
          BY <1>6, <3>3, <4>1
        <4>4. u.parent[k] = t.parent[k]
          BY <1>4, <3>3, <4>1
        <4>. QED
          BY <3>1, <4>2, <4>3, <4>4
      <3>. QED
        BY <3>2, <3>3
    <2>. QED
      BY <1>6, <2>1 DEF Nested
  <1>16. Cleared(u, Q)
    BY <1>1, <1>3, <1>4 DEF Shape, Cleared, Places
  <1>17. Shape(u, Q, b)
    BY <1>1, <1>3, <1>5, <1>10, <1>11, <1>12, <1>13, <1>14, <1>15, <1>16 DEF Shape
  <1>. QED
    BY <1>17 DEF u, side

LEMMA AttachKeepsShape ==
  ASSUME NEW P, NEW below, Shape(tree, P, below), NEW key \in Keys \ P
  PROVE  \E b : Shape(Attached(key), P \cup {key}, b)
PROOF
  <1>1. \/ P = {} /\ ParentOf(key) = Nil
        \/ /\ ParentOf(key) \in P /\ Fits(key, ParentOf(key), P, below)
           /\ tree.child[Toward(key, ParentOf(key))][ParentOf(key)] = Nil
    BY SearchPasses
  <1>2. CASE P = {} /\ ParentOf(key) = Nil
    <2>. DEFINE u == [tree EXCEPT !.root = key]
                b == [below EXCEPT ![key] = {key}]
    <2>1. Attached(key) = u
      BY <1>2 DEF Attached
    <2>2. key # Nil /\ key \in Places /\ Nil \in Places
      BY KeysAssumption DEF Places
    <2>3. /\ u \in Trees /\ u.root = key /\ u.parent = tree.parent
          /\ u.child = tree.child
      BY <2>2 DEF Shape, Trees
    <2>4. /\ b \in [Places -> SUBSET Keys] /\ b[key] = {key} /\ b[Nil] = {}
      BY <2>2 DEF Shape, Filled
    <2>5. /\ \A s \in Sides : u.child[s][key] = Nil
          /\ u.parent[key] = Nil
      BY <1>2, <2>2, <2>3 DEF Shape, Cleared
    <2>. HIDE DEF u, b
    <2>6. Filled(u, {key}, b) /\ Ordered(u, {key}, b)
      BY <2>4, <2>5, SideFacts DEF Filled, Ordered
    <2>7. AtTop(u, {key}, b) /\ Downward(u, {key}) /\ Upward(u, {key})
      BY <2>3, <2>4, <2>5 DEF AtTop, Downward, Upward
    <2>8. Nested(u, {key}, b) /\ Cleared(u, {key})
      BY <1>2, <2>3, <2>4 DEF Nested, Cleared, Shape
    <2>9. Shape(u, {key}, b)
      BY <2>3, <2>4, <2>6, <2>7, <2>8 DEF Shape
    <2>. QED
      BY <1>2, <2>1, <2>9
  <1>3. CASE ParentOf(key) \in P /\ Fits(key, ParentOf(key), P, below)
             /\ tree.child[Toward(key, ParentOf(key))][ParentOf(key)] = Nil
    <2>1. ParentOf(key) # Nil
      BY <1>3, ShapeFacts
    <2>2. Attached(key) = [tree EXCEPT !.child[Toward(key, ParentOf(key))][ParentOf(key)] = key,
                                       !.parent[key] = ParentOf(key)]
      BY <2>1 DEF Attached
    <2>3. \E b : Shape([tree EXCEPT !.child[Toward(key, ParentOf(key))][ParentOf(key)] = key,
                                    !.parent[key] = ParentOf(key)], P \cup {key}, b)
      BY Zenon, <1>3, HangKeepsShape
    <2>. QED
      BY <2>2, <2>3
  <1>. QED
    BY <1>1, <1>2, <1>3

(* A node with at most one child goes, and the child takes its place.  The *)
(* two cases of Relink, and of a missing child, come to this:              *)
Without(t, n, x) ==
  [root   |-> IF t.root = n THEN x ELSE t.root,
   child  |-> [s \in Sides |->
                [m \in Places |-> IF m = n THEN Nil
                                  ELSE IF t.child[s][m] = n THEN x
                                  ELSE t.child[s][m]]],
   parent |-> [m \in Places |-> IF m = n THEN Nil
                                ELSE IF m = x /\ x # Nil THEN t.parent[n]
                                ELSE t.parent[m]]]

LEMMA WithoutKeepsShape ==
  ASSUME NEW t, NEW P, NEW below, Shape(t, P, below), NEW n \in P,
         NEW e \in Sides, t.child[e][n] = Nil
  PROVE  \E b : Shape(Without(t, n, t.child[Other(e)][n]), P \ {n}, b)
PROOF
  <1>. DEFINE o == Other(e)
              x == t.child[o][n]
              u == Without(t, n, x)
              Q == P \ {n}
              b == [m \in Places |-> below[m] \ {n}]
  <1>1. /\ o \in Sides /\ \A s \in Sides : s = e \/ s = o
        /\ P \subseteq Keys /\ Nil \notin P /\ n \in Keys /\ n \in Places
        /\ Nil \in Places /\ below[Nil] = {}
        /\ \A m \in P : /\ below[m] \subseteq P /\ m \in Places /\ m \in Keys
                        /\ m \in below[m]
    BY ZenonT(60), SideFacts, ShapeFacts DEF Places, Shape, Filled
  <1>2. below[n] = {n} \cup below[x]
    BY <1>1, SideFacts DEF Shape, Filled
  <1>3. /\ n \notin below[x] /\ x # n /\ x \in P \cup {Nil} /\ x \in Places
        /\ x # Nil => t.parent[x] = n /\ x \in below[n]
    <2>1. n \notin below[x]
      BY <1>1, LiesFacts DEF Shape, Ordered
    <2>2. x \in P \cup {Nil} /\ (x # Nil => t.parent[x] = n)
      BY <1>1 DEF Shape, Downward
    <2>. QED
      BY <1>1, <1>2, <2>1, <2>2
  <1>. HIDE DEF o, x
  <1>4. /\ u \in Trees
        /\ u.root = IF t.root = n THEN x ELSE t.root
        /\ \A s \in Sides : \A m \in Places :
             u.child[s][m] = IF m = n THEN Nil ELSE IF t.child[s][m] = n THEN x
                             ELSE t.child[s][m]
        /\ \A m \in Places :
             u.parent[m] = IF m = n THEN Nil ELSE IF m = x /\ x # Nil THEN t.parent[n]
                           ELSE t.parent[m]
    BY <1>1, <1>3 DEF Shape, Trees, Without
  <1>. HIDE DEF u
  <1>5. b \in [Places -> SUBSET Keys] /\ \A m \in Places : b[m] = below[m] \ {n}
    BY DEF Shape
  <1>. HIDE DEF b
  <1>6. \A s \in Sides : \A m \in P : t.child[s][m] \in P \cup {Nil}
                                      /\ t.child[s][m] \in Places
    BY <1>1 DEF Shape, Downward
  <1>7. ASSUME NEW m \in Q, NEW s \in Sides
        PROVE  b[u.child[s][m]] = below[t.child[s][m]] \ {n}
    <2>1. u.child[s][m] = IF t.child[s][m] = n THEN x ELSE t.child[s][m]
      BY <1>1, <1>4
    <2>. QED
      BY <1>2, <1>3, <1>5, <1>6, <2>1
  <1>8. Filled(u, Q, b)
    <2>1. b[Nil] = {}
      BY <1>1, <1>5
    <2>2. ASSUME NEW m \in Q
          PROVE  b[m] = {m} \cup b[u.child["left"][m]] \cup b[u.child["right"][m]]
      <3>1. below[m] = {m} \cup below[t.child["left"][m]] \cup below[t.child["right"][m]]
        BY DEF Shape, Filled
      <3>2. b[m] = below[m] \ {n}
        BY <1>1, <1>5
      <3>. QED
        BY <1>7, <3>1, <3>2, SideFacts
    <2>. QED
      BY <2>1, <2>2 DEF Filled
  <1>9. Ordered(u, Q, b)
    BY <1>7 DEF Shape, Ordered
  <1>10. AtTop(u, Q, b)
    <2>1. t.root \in P /\ below[t.root] = P /\ t.parent[t.root] = Nil
      BY ShapeFacts DEF Shape, AtTop
    <2>2. CASE t.root = n
      <3>1. u.root = x /\ b[x] = Q
        BY <1>2, <1>3, <1>4, <1>5, <2>1, <2>2
      <3>2. x # Nil => u.parent[x] = Nil
        BY <1>3, <1>4, <2>1, <2>2
      <3>. QED
        BY <1>3, <3>1, <3>2 DEF AtTop
    <2>3. CASE t.root # n
      <3>1. u.root = t.root /\ b[t.root] = Q
        BY <1>1, <1>4, <1>5, <2>1, <2>3
      <3>2. t.root # x
        BY <1>1, <1>3, <2>1
      <3>3. u.parent[t.root] = Nil
        BY <1>1, <1>4, <2>1, <2>3, <3>2
      <3>. QED
        BY <2>1, <2>3, <3>1, <3>3 DEF AtTop
    <2>. QED
      BY <2>2, <2>3
  <1>11. Downward(u, Q)
    <2>1. ASSUME NEW m \in Q, NEW s \in Sides, u.child[s][m] # Nil
          PROVE  u.child[s][m] \in Q /\ u.parent[u.child[s][m]] = m
      <3>1. u.child[s][m] = IF t.child[s][m] = n THEN x ELSE t.child[s][m]
        BY <1>1, <1>4
      <3>2. CASE t.child[s][m] = n
        <4>1. t.parent[n] = m
          BY <1>1, <3>2 DEF Shape, Downward
        <4>. QED
          BY <1>3, <1>4, <2>1, <3>1, <3>2, <4>1
      <3>3. CASE t.child[s][m] # n
        <4>1. /\ t.child[s][m] \in P /\ t.child[s][m] \in Places
              /\ t.parent[t.child[s][m]] = m /\ m # n
          BY <1>1, <1>6, <2>1, <3>1, <3>3 DEF Shape, Downward
        <4>2. t.child[s][m] # x
          BY <1>1, <1>3, <4>1
        <4>. QED
          BY <1>4, <3>1, <3>3, <4>1, <4>2
      <3>. QED
        BY <3>2, <3>3
    <2>. QED
      BY <2>1 DEF Downward
  <1>12. Upward(u, Q)
    <2>1. ASSUME NEW m \in Q
          PROVE  /\ u.parent[m] = Nil => m = u.root
                 /\ u.parent[m] # Nil =>
                      /\ u.parent[m] \in Q
                      /\ \E s \in Sides : u.child[s][u.parent[m]] = m
      <3>0. m \in P /\ m # n /\ m \in Places
        BY <1>1
      <3>1. CASE m = x
        <4>1. u.parent[m] = t.parent[n] /\ x # Nil
          BY <1>1, <1>4, <3>0, <3>1
        <4>2. CASE t.parent[n] = Nil
          <5>1. n = t.root
            BY <4>2 DEF Shape, Upward
          <5>. QED
            BY <1>4, <3>1, <4>1, <4>2, <5>1
        <4>3. CASE t.parent[n] # Nil
          <5>1. PICK s \in Sides : t.child[s][t.parent[n]] = n
            BY <4>3 DEF Shape, Upward
          <5>2. t.parent[n] \in P
            BY <4>3 DEF Shape, Upward
          <5>3. t.parent[n] # n
            BY <1>1, <5>1, ChildFacts
          <5>4. u.child[s][t.parent[n]] = x
            BY <1>1, <1>4, <5>1, <5>2, <5>3
          <5>. QED
            BY <3>1, <4>1, <4>3, <5>2, <5>3, <5>4
        <4>. QED
          BY <4>2, <4>3
      <3>2. CASE m # x
        <4>1. u.parent[m] = t.parent[m]
          BY <1>4, <3>0, <3>2
        <4>2. CASE t.parent[m] = Nil
          <5>1. m = t.root
            BY <3>0, <4>2 DEF Shape, Upward
          <5>. QED
            BY <1>4, <3>0, <4>1, <4>2, <5>1
        <4>3. CASE t.parent[m] # Nil
          <5>1. PICK s \in Sides : t.child[s][t.parent[m]] = m
            BY <3>0, <4>3 DEF Shape, Upward
          <5>2. t.parent[m] \in P
            BY <3>0, <4>3 DEF Shape, Upward
          <5>3. t.parent[m] # n
            <6>1. SUFFICES ASSUME t.parent[m] = n PROVE FALSE
              OBVIOUS
            <6>2. m = t.child[e][n] \/ m = t.child[o][n]
              BY <1>1, <5>1, <6>1
            <6>. QED
              BY <1>1, <3>0, <3>2, <6>2 DEF x
          <5>4. u.child[s][t.parent[m]] = m
            BY <1>1, <1>4, <3>0, <5>1, <5>2, <5>3
          <5>. QED
            BY <4>1, <4>3, <5>2, <5>3, <5>4
        <4>. QED
          BY <4>2, <4>3
      <3>. QED
        BY <3>1, <3>2
    <2>. QED
      BY <2>1 DEF Upward
  <1>13. Nested(u, Q, b)
    <2>1. ASSUME NEW m \in Q, NEW k \in b[m]
          PROVE  b[k] \subseteq b[m] /\ (k # m => u.parent[k] \in b[m])
      <3>1. /\ m \in P /\ m \in Places /\ m # n /\ b[m] = below[m] \ {n}
            /\ k \in below[m] /\ k # n /\ k \in P /\ k \in Places
            /\ b[k] = below[k] \ {n}
        BY <1>1, <1>5
      <3>2. below[k] \subseteq below[m] /\ (k # m => t.parent[k] \in below[m])
        BY <3>1 DEF Shape, Nested
      <3>3. ASSUME k # m PROVE u.parent[k] \in b[m]
        <4>1. CASE k = x
          <5>1. t.parent[k] = n /\ u.parent[k] = t.parent[n] /\ x # Nil
            BY <1>1, <1>3, <1>4, <3>1, <4>1
          <5>2. n \in below[m]
            BY <3>2, <3>3, <5>1
          <5>3. t.parent[n] \in below[m]
            BY <3>1, <5>2 DEF Shape, Nested
          <5>4. t.parent[n] # n
            <6>1. t.parent[n] \in P
              BY <1>1, <3>1, <5>3
            <6>2. t.parent[n] # Nil
              BY <1>1, <6>1
            <6>3. PICK s \in Sides : t.child[s][t.parent[n]] = n
              BY <6>2 DEF Shape, Upward
            <6>. QED
              BY <1>1, <6>1, <6>3, ChildFacts
          <5>. QED
            BY <3>1, <5>1, <5>3, <5>4
        <4>2. CASE k # x
          <5>1. u.parent[k] = t.parent[k]
            BY <1>4, <3>1, <4>2
          <5>2. t.parent[k] \in below[m]
            BY <3>2, <3>3
          <5>3. t.parent[k] # n
            <6>1. SUFFICES ASSUME t.parent[k] = n PROVE FALSE
              OBVIOUS
            <6>2. PICK s \in Sides : t.child[s][n] = k
              BY <1>1, <3>1, <6>1 DEF Shape, Upward
            <6>. QED
              BY <1>1, <3>1, <4>2, <6>2 DEF x
          <5>. QED
            BY <3>1, <5>1, <5>2, <5>3
        <4>. QED
          BY <4>1, <4>2
      <3>. QED
        BY <3>1, <3>2, <3>3
    <2>. QED
      BY <2>1 DEF Nested
  <1>14. Cleared(u, Q)
    <2>1. ASSUME NEW k \in Places \ Q, NEW s \in Sides
          PROVE  u.child[s][k] = Nil
      <3>1. CASE k = n
        BY <1>1, <1>4, <3>1
      <3>2. CASE k # n
        <4>1. t.child[s][k] = Nil
          BY <3>2 DEF Shape, Cleared
        <4>. QED
          BY <1>1, <1>4, <3>2, <4>1
      <3>. QED
        BY <3>1, <3>2
    <2>2. ASSUME NEW k \in Keys \ Q
          PROVE  u.parent[k] = Nil
      <3>1. k \in Places
        BY DEF Places
      <3>2. CASE k = n
        BY <1>4, <3>1, <3>2
      <3>3. CASE k # n
        <4>1. t.parent[k] = Nil /\ ~(k = x /\ x # Nil)
          BY <1>3, <3>3 DEF Shape, Cleared
        <4>. QED
          BY <1>4, <3>1, <3>3, <4>1
      <3>. QED
        BY <3>2, <3>3
    <2>. QED
      BY <2>1, <2>2 DEF Cleared
  <1>15. Shape(u, Q, b)
    BY <1>1, <1>4, <1>5, <1>8, <1>9, <1>10, <1>11, <1>12, <1>13, <1>14 DEF Shape
  <1>. QED
    BY <1>15 DEF u, x, o

(* What Relink does where n is: every link to n leads to x then.           *)
LEMMA RelinkLinks ==
  ASSUME NEW t, NEW P, NEW below, Shape(t, P, below), NEW n \in P, NEW x \in Places
  PROVE  LET r == Relink(t, t.parent[n], n, x)
         IN /\ r \in Trees /\ r.parent = t.parent
            /\ r.root = IF t.root = n THEN x ELSE t.root
            /\ \A s \in Sides : \A m \in Places :
                 r.child[s][m] = IF t.child[s][m] = n THEN x ELSE t.child[s][m]
PROOF
  <1>. DEFINE above == t.parent[n]
              r == Relink(t, above, n, x)
  <1>2. /\ t \in Trees /\ P \subseteq Keys /\ Nil \notin P /\ n \in Places
        /\ n # Nil /\ above \in Places
    <2>1. P \subseteq Keys /\ Nil \notin P /\ n \in Places /\ n # Nil
      BY ShapeFacts
    <2>2. t \in Trees /\ above \in Places
      BY <2>1 DEF Shape, Trees
    <2>. QED
      BY <2>1, <2>2
  <1>3. \A s \in Sides : \A m \in Places : t.child[s][m] = n => m = above
    <2>1. ASSUME NEW s \in Sides, NEW m \in Places, t.child[s][m] = n
          PROVE  m = above
      <3>1. m \in P
        BY <1>2, <2>1 DEF Shape, Cleared
      <3>. QED
        BY <1>2, <2>1, <3>1 DEF Shape, Downward
    <2>. QED
      BY <2>1
  <1>4. above = Nil <=> t.root = n
    <2>1. above = Nil => t.root = n
      BY DEF Shape, Upward
    <2>2. t.root = n => above = Nil
      BY <1>2 DEF Shape, AtTop
    <2>. QED
      BY <2>1, <2>2
  <1>5. above # Nil => /\ above \in P
                       /\ \E s \in Sides : t.child[s][above] = n
                       /\ ~\A s \in Sides : t.child[s][above] = n
    <2>1. above # Nil => above \in P /\ \E s \in Sides : t.child[s][above] = n
      BY DEF Shape, Upward
    <2>2. ASSUME above # Nil, \A s \in Sides : t.child[s][above] = n PROVE FALSE
      <3>1. above \in P
        BY <2>1, <2>2
      <3>2. Lies("left", n, above) /\ Lies("right", n, above)
        BY <1>2, <2>2, <3>1, SideFacts, ChildFacts
      <3>. QED
        BY <1>2, <3>1, <3>2, LiesFacts, SideFacts
    <2>. QED
      BY <2>1, <2>2
  <1>. HIDE DEF above
  <1>6. CASE above = Nil
    <2>1. r = [t EXCEPT !.root = x]
      BY <1>6 DEF Relink
    <2>2. r \in Trees /\ r.root = x /\ r.child = t.child /\ r.parent = t.parent
      BY <1>2, <2>1 DEF Trees
    <2>3. \A s \in Sides : \A m \in Places : t.child[s][m] # n
      BY <1>3, <1>6, <1>2 DEF Shape, Cleared
    <2>. QED
      BY <1>4, <1>6, <2>2, <2>3 DEF above
  <1>7. CASE above # Nil /\ t.child["left"][above] = n
    <2>1. r = [t EXCEPT !.child["left"][above] = x]
      BY <1>7 DEF Relink
    <2>2. /\ r \in Trees /\ r.root = t.root /\ r.parent = t.parent
          /\ \A s \in Sides : \A m \in Places :
               r.child[s][m] = IF s = "left" /\ m = above THEN x
                               ELSE t.child[s][m]
      BY <1>2, <2>1, SideFacts DEF Trees
    <2>3. \A s \in Sides : \A m \in Places :
            t.child[s][m] = n <=> s = "left" /\ m = above
      BY <1>3, <1>5, <1>7, SideFacts
    <2>. QED
      BY <1>4, <1>7, <2>2, <2>3 DEF above
  <1>8. CASE above # Nil /\ t.child["left"][above] # n
    <2>1. r = [t EXCEPT !.child["right"][above] = x]
      BY <1>8 DEF Relink
    <2>2. /\ r \in Trees /\ r.root = t.root /\ r.parent = t.parent
          /\ \A s \in Sides : \A m \in Places :
               r.child[s][m] = IF s = "right" /\ m = above THEN x
                               ELSE t.child[s][m]
      BY <1>2, <2>1, SideFacts DEF Trees
    <2>3. \A s \in Sides : \A m \in Places :
            t.child[s][m] = n <=> s = "right" /\ m = above
      BY <1>3, <1>5, <1>8, SideFacts
    <2>. QED
      BY <1>4, <1>8, <2>2, <2>3 DEF above
  <1>. QED
    BY <1>6, <1>7, <1>8

(* What Freed and BstSpliced do to a node with at most one child.          *)
LEMMA FreedIsWithout ==
  ASSUME NEW P, NEW below, Shape(tree, P, below), NEW n \in P, ~HasTwo(n)
  PROVE  /\ BstSpliced(n, tree.parent[n]) \in Trees
         /\ Freed(BstSpliced(n, tree.parent[n]), n) = Without(tree, n, OnlyChild(n))
         /\ \E e \in Sides : tree.child[e][n] = Nil
                             /\ OnlyChild(n) = tree.child[Other(e)][n]
PROOF
  <1>. DEFINE x == OnlyChild(n)
              above == tree.parent[n]
              r == Relink(tree, above, n, x)
  <1>1. \E e \in Sides : tree.child[e][n] = Nil /\ x = tree.child[Other(e)][n]
    BY SideFacts DEF HasTwo, OnlyChild
  <1>2. /\ tree \in Trees /\ P \subseteq Keys /\ Nil \notin P /\ n \in Places
        /\ n # Nil /\ above \in Places /\ x \in P \cup {Nil} /\ x \in Places
    <2>1. P \subseteq Keys /\ Nil \notin P /\ n \in Places /\ n # Nil
      BY ShapeFacts
    <2>2. tree \in Trees /\ above \in Places
      BY <2>1 DEF Shape, Trees
    <2>3. x \in P \cup {Nil}
      BY <1>1, SideFacts DEF Shape, Downward
    <2>. HIDE DEF x, above
    <2>. QED
      BY <2>1, <2>2, <2>3 DEF Places
  <1>. HIDE DEF x
  <1>6. /\ r \in Trees /\ r.parent = tree.parent
        /\ r.root = IF tree.root = n THEN x ELSE tree.root
        /\ \A s \in Sides : \A m \in Places :
             r.child[s][m] = IF tree.child[s][m] = n THEN x ELSE tree.child[s][m]
    BY <1>2, RelinkLinks
  <1>. HIDE DEF above
  <1>7. BstSpliced(n, above) = [r EXCEPT !.parent[x] = IF x = Nil THEN @ ELSE above]
    BY DEF BstSpliced, x
  <1>. HIDE DEF r
  <1>. DEFINE q == BstSpliced(n, above)
  <1>8. /\ q \in Trees /\ q.root = r.root /\ q.child = r.child
        /\ \A m \in Places : q.parent[m] = IF m = x /\ x # Nil THEN above
                                           ELSE tree.parent[m]
    <2>1. q.parent = [tree.parent EXCEPT ![x] = IF x = Nil THEN @ ELSE above]
      BY <1>6, <1>7 DEF Trees
    <2>2. /\ q.root = r.root /\ q.child = r.child
          /\ q = [root |-> q.root, child |-> q.child, parent |-> q.parent]
      BY <1>6, <1>7 DEF Trees
    <2>3. /\ r.child \in [Sides -> [Places -> Places]] /\ r.root \in Places
          /\ tree.parent \in [Places -> Places]
      BY <1>2, <1>6 DEF Trees
    <2>. HIDE DEF q
    <2>4. q.parent \in [Places -> Places]
      BY <1>2, <2>1, <2>3
    <2>5. \A m \in Places : q.parent[m] = IF m = x /\ x # Nil THEN above
                                           ELSE tree.parent[m]
      BY <1>2, <2>1, <2>3
    <2>6. q \in Trees
      BY <2>2, <2>3, <2>4 DEF Trees
    <2>. QED
      BY <2>2, <2>5, <2>6
  <1>. HIDE DEF q
  <1>. DEFINE f == Freed(q, n)
              w == Without(tree, n, x)
  <1>9. f = [q EXCEPT !.child["left"][n] = Nil, !.child["right"][n] = Nil,
                      !.parent[n] = Nil]
    BY DEF Freed
  <1>10. /\ f \in Trees /\ f.root = q.root
         /\ \A s \in Sides : \A m \in Places :
              f.child[s][m] = IF m = n THEN Nil ELSE q.child[s][m]
         /\ \A m \in Places : f.parent[m] = IF m = n THEN Nil ELSE q.parent[m]
    <2>1. f.child = [q.child EXCEPT !["left"] = [@ EXCEPT ![n] = Nil],
                                    !["right"] = [@ EXCEPT ![n] = Nil]]
      BY <1>2, <1>8, <1>9, SideFacts DEF Trees
    <2>2. f.parent = [q.parent EXCEPT ![n] = Nil] /\ f.root = q.root
      BY <1>8, <1>9 DEF Trees
    <2>3. f = [root |-> f.root, child |-> f.child, parent |-> f.parent]
      BY <1>8, <1>9 DEF Trees
    <2>4. Nil \in Places
      BY DEF Places
    <2>5. /\ q.child \in [Sides -> [Places -> Places]]
          /\ q.parent \in [Places -> Places] /\ q.root \in Places
      BY <1>8 DEF Trees
    <2>6. \A s \in Sides : \A m \in Places :
              f.child[s][m] = IF m = n THEN Nil ELSE q.child[s][m]
      BY <1>2, <2>1, <2>5, SideFacts
    <2>7. f.child \in [Sides -> [Places -> Places]]
      <3>1. \A s \in Sides : [q.child[s] EXCEPT ![n] = Nil] \in [Places -> Places]
        BY <1>2, <2>4, <2>5
      <3>2. f.child = [s \in Sides |-> [q.child[s] EXCEPT ![n] = Nil]]
        BY <2>1, <2>5, SideFacts
      <3>. HIDE DEF f
      <3>. QED
        BY <3>1, <3>2
    <2>8. f.parent \in [Places -> Places]
      BY <1>2, <2>2, <2>4, <2>5
    <2>. HIDE DEF f
    <2>9. f \in Trees
      BY <2>2, <2>3, <2>5, <2>7, <2>8 DEF Trees
    <2>. QED
      BY <1>2, <2>2, <2>5, <2>6, <2>9
  <1>11. /\ w \in Trees /\ w.root = f.root
         /\ \A s \in Sides : \A m \in Places : w.child[s][m] = f.child[s][m]
         /\ \A m \in Places : w.parent[m] = f.parent[m]
    <2>1. Nil \in Places
      BY DEF Places
    <2>2. w \in Trees
      BY <1>2, <2>1 DEF Without, Trees
    <2>3. w.root = f.root
      BY <1>6, <1>8, <1>10 DEF Without
    <2>4. \A s \in Sides : \A m \in Places : w.child[s][m] = f.child[s][m]
      BY <1>6, <1>8, <1>10 DEF Without
    <2>5. \A m \in Places : w.parent[m] = f.parent[m]
      BY <1>8, <1>10 DEF Without, above
    <2>. QED
      BY <2>2, <2>3, <2>4, <2>5
  <1>. HIDE DEF w, f
  <1>12. w = f
    <2>1. w.parent = f.parent
      BY <1>10, <1>11 DEF Trees
    <2>2. \A s \in Sides : w.child[s] = f.child[s]
      BY <1>10, <1>11 DEF Trees
    <2>3. w.child = f.child
      BY <1>10, <1>11, <2>2 DEF Trees
    <2>. QED
      BY <1>10, <1>11, <2>1, <2>3 DEF Trees
  <1>. QED
    BY <1>1, <1>8, <1>12 DEF w, f, q, x, above

(* The node of d takes the name s, which lies where d does among the other *)
(* keys.                                                                   *)
LEMMA RenameKeepsShape ==
  ASSUME NEW t, NEW P, NEW below, Shape(t, P, below), NEW d \in P,
         NEW s \in Keys \ P, \A k \in P \ {d} : k < d <=> k < s
  PROVE  \E b : Shape(Renamed(t, d, s), (P \ {d}) \cup {s}, b)
PROOF
  <1>. DEFINE Name(n) == IF n = d THEN s ELSE n
              From(n) == IF n = s THEN d ELSE n
              Names(B) == { Name(n) : n \in B }
              u == Renamed(t, d, s)
              Q == (P \ {d}) \cup {s}
              b == [n \in Places |-> IF n \in Q \cup {Nil} THEN Names(below[From(n)])
                                     ELSE {}]
  <1>1. /\ P \subseteq Keys /\ Nil \notin P /\ d \in Keys /\ d # s
        /\ d # Nil /\ s # Nil /\ d \in Places /\ s \in Places /\ Nil \in Places
        /\ below[Nil] = {} /\ Q \subseteq Keys /\ Nil \notin Q
        /\ \A n \in P : below[n] \subseteq P /\ n \in Places /\ n \in below[n]
    BY ZenonT(60), ShapeFacts, KeysAssumption DEF Places, Shape, Filled
  <1>2. /\ \A n \in Q : From(n) \in P /\ Name(From(n)) = n
        /\ \A n \in P : Name(n) \in Q /\ From(Name(n)) = n
        /\ From(Nil) = Nil /\ Name(Nil) = Nil
        /\ \A n \in Places : n # s => From(Name(n)) = n
        /\ \A n \in Places : Name(n) \in Places
    BY <1>1
  <1>3. \A s0 \in Sides : \A n \in P : t.child[s0][n] \in P \cup {Nil}
    BY DEF Shape, Downward
  <1>4. /\ u.root = Name(t.root)
        /\ u.child = [s0 \in Sides |->
             [n \in Places |-> IF n = d THEN Nil ELSE IF n = s THEN Name(t.child[s0][d])
                               ELSE Name(t.child[s0][n])]]
        /\ u.parent =
             [n \in Places |-> IF n = d THEN Nil ELSE IF n = s THEN Name(t.parent[d])
                               ELSE Name(t.parent[n])]
        /\ u = [root |-> u.root, child |-> u.child, parent |-> u.parent]
    BY DEF Renamed
  <1>. HIDE DEF u, Name, From
  <1>5. /\ \A s0 \in Sides : \A n \in Q : u.child[s0][n] = Name(t.child[s0][From(n)])
        /\ \A n \in Q : u.parent[n] = Name(t.parent[From(n)])
        /\ \A s0 \in Sides : u.child[s0][d] = Nil
        /\ u.parent[d] = Nil
        /\ \A n \in Places \ {s, d} : /\ u.parent[n] = Name(t.parent[n])
                                      /\ \A s0 \in Sides : u.child[s0][n] = Name(t.child[s0][n])
    BY <1>1, <1>4 DEF Places, From
  <1>6. u \in Trees
    <2>1. /\ t.root \in Places /\ t.child \in [Sides -> [Places -> Places]]
          /\ t.parent \in [Places -> Places]
      BY DEF Shape, Trees
    <2>2. u.root \in Places
      BY <1>2, <1>4, <2>1
    <2>3. u.child \in [Sides -> [Places -> Places]]
      BY <1>1, <1>2, <1>4, <2>1
    <2>4. u.parent \in [Places -> Places]
      BY <1>1, <1>2, <1>4, <2>1
    <2>. QED
      BY <1>4, <2>2, <2>3, <2>4 DEF Trees
  <1>7. /\ \A n \in Q : b[n] = Names(below[From(n)]) /\ b[n] \subseteq Q
        /\ b[Nil] = {}
        /\ b \in [Places -> SUBSET Keys]
    <2>1. \A n \in Q : Names(below[From(n)]) \subseteq Q
      BY <1>1, <1>2
    <2>2. \A n \in Q : n \in Places
      BY <1>1 DEF Places
    <2>3. Names(below[From(Nil)]) = {}
      BY <1>1, <1>2
    <2>. QED
      BY <1>1, <2>1, <2>2, <2>3
  <1>8. \A n \in P : b[Name(n)] = Names(below[n])
    BY <1>2, <1>7
  <1>. HIDE DEF b
  <1>9. \A k \in P : \A n \in P : \A s0 \in Sides :
          Lies(s0, k, n) => Lies(s0, Name(k), Name(n))
    BY <1>1, KeysAreNumbers DEF Lies, Name
  <1>10. \A n \in Q : \A s0 \in Sides : b[u.child[s0][n]] = Names(below[t.child[s0][From(n)]])
    <2>1. ASSUME NEW n \in Q, NEW s0 \in Sides
          PROVE  b[u.child[s0][n]] = Names(below[t.child[s0][From(n)]])
      <3>1. u.child[s0][n] = Name(t.child[s0][From(n)]) /\ From(n) \in P
        BY <1>2, <1>5
      <3>2. CASE t.child[s0][From(n)] \in P
        BY <1>8, <3>1, <3>2
      <3>3. CASE t.child[s0][From(n)] = Nil
        BY <1>1, <1>2, <1>7, <3>1, <3>3
      <3>. QED
        BY <1>3, <3>1, <3>2, <3>3
    <2>. QED
      BY <2>1
  <1>11. Filled(u, Q, b)
    <2>1. ASSUME NEW n \in Q
          PROVE  b[n] = {n} \cup b[u.child["left"][n]] \cup b[u.child["right"][n]]
      <3>1. below[From(n)] = {From(n)} \cup below[t.child["left"][From(n)]]
                                       \cup below[t.child["right"][From(n)]]
        BY <1>2 DEF Shape, Filled
      <3>2. Names(below[From(n)]) =
              {Name(From(n))} \cup Names(below[t.child["left"][From(n)]])
                              \cup Names(below[t.child["right"][From(n)]])
        BY <3>1
      <3>3. /\ b[u.child["left"][n]] = Names(below[t.child["left"][From(n)]])
            /\ b[u.child["right"][n]] = Names(below[t.child["right"][From(n)]])
            /\ b[n] = Names(below[From(n)])
        BY <1>7, <1>10, SideFacts
      <3>. HIDE DEF Names
      <3>. QED
        BY <1>2, <3>2, <3>3
    <2>. QED
      BY <1>7, <2>1 DEF Filled
  <1>12. Ordered(u, Q, b)
    <2>1. ASSUME NEW n \in Q, NEW s0 \in Sides, NEW k \in b[u.child[s0][n]]
          PROVE  Lies(s0, k, n)
      <3>1. PICK j \in below[t.child[s0][From(n)]] : k = Name(j)
        BY <1>10, <2>1
      <3>2. Lies(s0, j, From(n))
        BY <1>2, <3>1 DEF Shape, Ordered
      <3>3. t.child[s0][From(n)] \in P
        BY <1>1, <1>2, <1>3, <3>1
      <3>4. j \in P
        BY <1>1, <3>1, <3>3
      <3>. QED
        BY <1>2, <1>9, <3>1, <3>2, <3>4
    <2>. QED
      BY <2>1 DEF Ordered
  <1>13. AtTop(u, Q, b)
    <2>1. t.root \in P /\ below[t.root] = P /\ t.parent[t.root] = Nil
      BY ShapeFacts DEF Shape, AtTop
    <2>2. Names(P) = Q
      BY <1>1 DEF Name
    <2>3. u.root \in Q /\ b[u.root] = Q
      BY <1>2, <1>4, <1>8, <2>1, <2>2
    <2>4. u.parent[u.root] = Nil
      <3>1. From(u.root) = t.root
        BY <1>2, <1>4, <2>1
      <3>. QED
        BY <1>2, <1>5, <2>1, <2>3, <3>1
    <2>. HIDE DEF Q
    <2>. QED
      BY <2>3, <2>4 DEF AtTop
  <1>14. Downward(u, Q)
    <2>1. ASSUME NEW n \in Q, NEW s0 \in Sides, u.child[s0][n] # Nil
          PROVE  u.child[s0][n] \in Q /\ u.parent[u.child[s0][n]] = n
      <3>. DEFINE c == t.child[s0][From(n)]
      <3>1. u.child[s0][n] = Name(c) /\ From(n) \in P
        BY <1>2, <1>5
      <3>2. c # Nil
        BY <1>2, <2>1, <3>1
      <3>3. c \in P /\ t.parent[c] = From(n)
        BY <3>1, <3>2 DEF Shape, Downward
      <3>. HIDE DEF c
      <3>4. Name(c) \in Q /\ u.parent[Name(c)] = Name(t.parent[c])
        BY <1>2, <1>5, <3>3
      <3>. QED
        BY <1>2, <3>1, <3>3, <3>4
    <2>. QED
      BY <2>1 DEF Downward
  <1>15. Upward(u, Q)
    <2>1. ASSUME NEW n \in Q
          PROVE  /\ u.parent[n] = Nil => n = u.root
                 /\ u.parent[n] # Nil =>
                      /\ u.parent[n] \in Q
                      /\ \E s0 \in Sides : u.child[s0][u.parent[n]] = n
      <3>. DEFINE m == From(n)
      <3>1. m \in P /\ u.parent[n] = Name(t.parent[m]) /\ Name(m) = n
        BY <1>2, <1>5
      <3>. HIDE DEF m
      <3>2. CASE t.parent[m] = Nil
        BY <1>2, <1>4, <3>1, <3>2 DEF Shape, Upward
      <3>3. CASE t.parent[m] # Nil
        <4>1. t.parent[m] \in P
          BY <3>1, <3>3 DEF Shape, Upward
        <4>2. PICK s0 \in Sides : t.child[s0][t.parent[m]] = m
          BY <3>1, <3>3 DEF Shape, Upward
        <4>3. Name(t.parent[m]) \in Q /\ From(Name(t.parent[m])) = t.parent[m]
          BY <1>2, <4>1
        <4>4. u.child[s0][Name(t.parent[m])] = n
          BY <1>5, <3>1, <4>2, <4>3
        <4>. QED
          BY <1>1, <3>1, <4>3, <4>4
      <3>. QED
        BY <3>2, <3>3
    <2>. QED
      BY <2>1 DEF Upward
  <1>16. Nested(u, Q, b)
    <2>1. ASSUME NEW n \in Q, NEW k \in b[n]
          PROVE  b[k] \subseteq b[n] /\ (k # n => u.parent[k] \in b[n])
      <3>1. PICK j \in below[From(n)] : k = Name(j)
        BY <1>7
      <3>2. j \in P /\ From(n) \in P /\ k \in Q /\ From(k) = j
        BY <1>1, <1>2, <1>7, <3>1
      <3>3. /\ below[j] \subseteq below[From(n)]
            /\ j # From(n) => t.parent[j] \in below[From(n)]
        BY <3>2, <3>1 DEF Shape, Nested
      <3>4. b[k] = Names(below[j]) /\ b[n] = Names(below[From(n)])
        BY <1>7, <3>2
      <3>5. b[k] \subseteq b[n]
        BY <3>3, <3>4
      <3>6. u.parent[k] = Name(t.parent[j])
        BY <1>5, <3>2
      <3>7. k # n => j # From(n)
        BY <1>2, <3>1
      <3>8. k # n => u.parent[k] \in b[n]
        BY <3>3, <3>4, <3>6, <3>7
      <3>. QED
        BY <3>5, <3>8
    <2>. QED
      BY <2>1 DEF Nested
  <1>17. Cleared(u, Q)
    <2>1. ASSUME NEW k \in Places \ Q, NEW s0 \in Sides PROVE u.child[s0][k] = Nil
      <3>1. CASE k = d
        BY <1>5, <3>1
      <3>2. CASE k # d
        <4>1. t.child[s0][k] = Nil /\ k # s
          BY <3>2 DEF Shape, Cleared
        <4>. QED
          BY <1>2, <1>5, <3>2, <4>1
      <3>. QED
        BY <3>1, <3>2
    <2>2. ASSUME NEW k \in Keys \ Q PROVE u.parent[k] = Nil
      <3>1. CASE k = d
        BY <1>5, <3>1
      <3>2. CASE k # d
        <4>1. t.parent[k] = Nil /\ k # s /\ k \in Places
          BY <3>2 DEF Shape, Cleared, Places
        <4>. QED
          BY <1>2, <1>5, <3>2, <4>1
      <3>. QED
        BY <3>1, <3>2
    <2>. QED
      BY <2>1, <2>2 DEF Cleared
  <1>18. Shape(u, Q, b)
    BY <1>1, <1>6, <1>7, <1>11, <1>12, <1>13, <1>14, <1>15, <1>16, <1>17 DEF Shape
  <1>. QED
    BY <1>18 DEF u

-----------------------------------------------------------------------------
(* What is below a node, in the order of the keys. *)

Listed(s, S) ==
  /\ s \in Seq(Keys)
  /\ { s[i] : i \in 1..Len(s) } = S
  /\ Len(s) = Cardinality(S)
  /\ \A i \in 2..Len(s) : s[i - 1] < s[i]

LEMMA ListedNothing == Listed(<< >>, {})
PROOF
  <1>1. Cardinality({}) = 0
    BY FS_EmptySet
  <1>. QED
    BY <1>1 DEF Listed

LEMMA ListedJoin ==
  ASSUME NEW a, NEW A, Listed(a, A), NEW b, NEW B, Listed(b, B), NEW n \in Keys,
         \A k \in A : k < n, \A k \in B : n < k
  PROVE  Listed(a \o << n >> \o b, {n} \cup A \cup B)
PROOF
  <1>. DEFINE m == << n >>
              am == a \o m
              s == am \o b
  <1>1. /\ a \in Seq(Keys) /\ b \in Seq(Keys) /\ m \in Seq(Keys)
        /\ Len(m) = 1 /\ m[1] = n /\ Len(a) \in Nat /\ Len(b) \in Nat
    BY DEF Listed
  <1>. HIDE DEF m
  <1>2. /\ am \in Seq(Keys) /\ Len(am) = Len(a) + 1
        /\ \A i \in 1..(Len(a) + 1) : am[i] = IF i <= Len(a) THEN a[i] ELSE n
    <2>1. /\ am \in Seq(Keys) /\ Len(am) = Len(a) + Len(m)
          /\ \A i \in 1..(Len(a) + Len(m)) :
               am[i] = IF i <= Len(a) THEN a[i] ELSE m[i - Len(a)]
      BY <1>1, ConcatProperties
    <2>. HIDE DEF am
    <2>2. ASSUME NEW i \in 1..(Len(a) + 1), ~(i <= Len(a)) PROVE i - Len(a) = 1
      BY <1>1, <2>2
    <2>. QED
      BY <1>1, <2>1, <2>2
  <1>. HIDE DEF am
  <1>3. /\ s \in Seq(Keys) /\ Len(s) = Len(a) + 1 + Len(b)
        /\ \A i \in 1..(Len(a) + 1 + Len(b)) :
             s[i] = IF i <= Len(a) + 1 THEN am[i] ELSE b[i - (Len(a) + 1)]
    <2>1. /\ s \in Seq(Keys) /\ Len(s) = Len(am) + Len(b)
          /\ \A i \in 1..(Len(am) + Len(b)) :
               s[i] = IF i <= Len(am) THEN am[i] ELSE b[i - Len(am)]
      BY <1>1, <1>2, ConcatProperties
    <2>. QED
      BY <1>2, <2>1
  <1>. HIDE DEF s
  <1>4. \A i \in 1..(Len(a) + 1 + Len(b)) :
          s[i] = IF i <= Len(a) THEN a[i]
                 ELSE IF i = Len(a) + 1 THEN n ELSE b[i - (Len(a) + 1)]
    BY <1>1, <1>2, <1>3
  <1>5. /\ A = { a[i] : i \in 1..Len(a) } /\ B = { b[i] : i \in 1..Len(b) }
        /\ \A i \in 2..Len(a) : a[i - 1] < a[i]
        /\ \A i \in 2..Len(b) : b[i - 1] < b[i]
        /\ Len(a) = Cardinality(A) /\ Len(b) = Cardinality(B)
    BY DEF Listed
  <1>6. \A i \in 1..Len(a) : a[i] \in A /\ a[i] < n
    BY <1>5
  <1>7. \A i \in 1..Len(b) : b[i] \in B /\ n < b[i]
    BY <1>5
  <1>8. { s[i] : i \in 1..Len(s) } = {n} \cup A \cup B
    <2>1. ASSUME NEW i \in 1..Len(s) PROVE s[i] \in {n} \cup A \cup B
      <3>1. i \in 1..(Len(a) + 1 + Len(b))
        BY <1>3
      <3>2. CASE i <= Len(a)
        BY <1>1, <1>4, <1>6, <3>1, <3>2
      <3>3. CASE i = Len(a) + 1
        BY <1>1, <1>4, <3>1, <3>3
      <3>4. CASE i > Len(a) + 1
        <4>1. /\ i - (Len(a) + 1) \in 1..Len(b)
              /\ ~(i <= Len(a)) /\ i # Len(a) + 1
          BY <1>1, <3>1, <3>4
        <4>2. s[i] = b[i - (Len(a) + 1)]
          BY <1>4, <3>1, <4>1
        <4>. QED
          BY <1>7, <4>1, <4>2
      <3>. QED
        BY SMTT(60), <1>1, <3>1, <3>2, <3>3, <3>4
    <2>2. ASSUME NEW k \in A PROVE \E i \in 1..Len(s) : s[i] = k
      <3>1. PICK i \in 1..Len(a) : a[i] = k
        BY <1>5
      <3>2. i \in 1..(Len(a) + 1 + Len(b)) /\ i <= Len(a)
        BY <1>1
      <3>3. s[i] = k
        BY <1>4, <3>1, <3>2
      <3>. QED
        BY <1>3, <3>2, <3>3
    <2>3. \E i \in 1..Len(s) : s[i] = n
      <3>1. Len(a) + 1 \in 1..(Len(a) + 1 + Len(b)) /\ ~(Len(a) + 1 <= Len(a))
        BY <1>1
      <3>2. s[Len(a) + 1] = n
        BY <1>4, <3>1
      <3>. QED
        BY <1>3, <3>1, <3>2
    <2>4. ASSUME NEW k \in B PROVE \E i \in 1..Len(s) : s[i] = k
      <3>1. PICK i \in 1..Len(b) : b[i] = k
        BY <1>5
      <3>. DEFINE j == Len(a) + 1 + i
      <3>2. /\ j \in 1..(Len(a) + 1 + Len(b)) /\ ~(j <= Len(a)) /\ j # Len(a) + 1
            /\ j - (Len(a) + 1) = i
        BY <1>1
      <3>3. s[j] = k
        BY <1>4, <3>1, <3>2
      <3>. QED
        BY <1>3, <3>2, <3>3
    <2>. QED
      BY <2>1, <2>2, <2>3, <2>4
  <1>9. Len(s) = Cardinality({n} \cup A \cup B)
    <2>1. A \subseteq Keys /\ B \subseteq Keys
      <3>1. \A i \in 1..Len(a) : a[i] \in Keys
        BY <1>1
      <3>2. \A i \in 1..Len(b) : b[i] \in Keys
        BY <1>1
      <3>. QED
        BY <1>5, <3>1, <3>2
    <2>2. IsFiniteSet(A) /\ IsFiniteSet(B)
      BY <2>1, DepthType, FS_Subset
    <2>3. n \notin A \cup B /\ A \cap B = {}
      <3>1. n \notin A /\ n \notin B
        BY KeysAreNumbers
      <3>2. ASSUME NEW k \in A, k \in B PROVE FALSE
        <4>1. k \in Int /\ n \in Int /\ k < n /\ n < k
          BY <2>1, <3>2, KeysAreNumbers
        <4>. QED
          BY <4>1
      <3>. QED
        BY <3>1, <3>2
    <2>4. /\ IsFiniteSet(A \cup B)
          /\ Cardinality(A \cup B) = Cardinality(A) + Cardinality(B) - 0
      BY <2>2, <2>3, FS_Union, FS_EmptySet
    <2>5. Cardinality((A \cup B) \cup {n}) = Cardinality(A \cup B) + 1
      BY <2>3, <2>4, FS_AddElement
    <2>6. (A \cup B) \cup {n} = {n} \cup A \cup B
      OBVIOUS
    <2>7. Cardinality({n} \cup A \cup B) = Cardinality(A \cup B) + 1
      BY <2>5, <2>6, Zenon
    <2>8. Len(a) = Cardinality(A) /\ Len(b) = Cardinality(B)
      BY <1>5
    <2>. QED
      BY <1>1, <1>3, <2>4, <2>7, <2>8
  <1>10. ASSUME NEW i \in 2..Len(s) PROVE s[i - 1] < s[i]
    <2>1. /\ i \in 1..(Len(a) + 1 + Len(b)) /\ i - 1 \in 1..(Len(a) + 1 + Len(b))
      BY <1>1, <1>3
    <2>2. CASE i <= Len(a)
      <3>1. i \in 2..Len(a) /\ i - 1 <= Len(a)
        BY <1>1, <2>2
      <3>. QED
        BY SMTT(60), <1>4, <1>5, <2>1, <3>1
    <2>3. CASE i = Len(a) + 1
      <3>1. i - 1 \in 1..Len(a) /\ i - 1 <= Len(a) /\ ~(i <= Len(a))
        BY <1>1, <2>1, <2>3
      <3>2. s[i - 1] = a[i - 1] /\ s[i] = n
        BY <1>4, <2>1, <2>3, <3>1
      <3>. QED
        BY <1>6, <3>1, <3>2
    <2>4. CASE i = Len(a) + 2
      <3>1. /\ i - 1 = Len(a) + 1 /\ ~(i <= Len(a)) /\ ~(i - 1 <= Len(a))
            /\ i # Len(a) + 1 /\ i - (Len(a) + 1) = 1 /\ 1 \in 1..Len(b)
        BY <1>1, <2>1, <2>4
      <3>2. s[i - 1] = n /\ s[i] = b[1]
        BY <1>4, <2>1, <3>1
      <3>. QED
        BY <1>7, <3>1, <3>2
    <2>5. CASE i > Len(a) + 2
      <3>. DEFINE j == i - (Len(a) + 1)
      <3>1. /\ j \in 2..Len(b) /\ (i - 1) - (Len(a) + 1) = j - 1
            /\ ~(i <= Len(a)) /\ ~(i - 1 <= Len(a))
            /\ i # Len(a) + 1 /\ i - 1 # Len(a) + 1
        BY <1>1, <2>1, <2>5
      <3>2. s[i - 1] = b[j - 1] /\ s[i] = b[j]
        BY <1>4, <2>1, <3>1
      <3>. QED
        BY <1>5, <3>1, <3>2
    <2>. QED
      BY <1>1, <2>1, <2>2, <2>3, <2>4, <2>5
  <1>11. Listed(s, {n} \cup A \cup B)
    BY <1>3, <1>8, <1>9, <1>10 DEF Listed
  <1>. QED
    BY <1>11 DEF s, am, m

(* The lists of one depth from those of the depth before.                  *)
Lists == [Places -> Seq(Keys)]
Longer(before) ==
  [n \in Places |-> IF n = Nil THEN << >>
                    ELSE before[tree.child["left"][n]] \o << n >>
                           \o before[tree.child["right"][n]]]

LEMMA InOrderIsSorted ==
  ASSUME NEW P, NEW below, Shape(tree, P, below)
  PROVE  Listed(InOrder, P)
PROOF
  <1>. DEFINE Round(at) ==
                [depth \in 0..Depth |->
                   [n \in Places |->
                      IF n = Nil \/ depth = 0 THEN << >>
                      ELSE at[depth - 1][tree.child["left"][n]] \o << n >>
                             \o at[depth - 1][tree.child["right"][n]]]]
              w == CHOOSE at : at = Round(at)
              none == [n \in Places |-> << >>]
              longer == [before \in Lists |-> Longer(before)]
  <1>1. InOrder = w[Depth][tree.root]
    BY DEF InOrder, Depth
  <1>2. Depth \in Nat
    BY DepthType
  <1>3. /\ tree.root \in Places
        /\ \A s \in Sides : tree.child[s] \in [Places -> Places]
        /\ "left" \in Sides /\ "right" \in Sides
    BY SideFacts DEF Shape, Trees
  <1>4. none \in Lists /\ longer \in [Lists -> Lists]
    <2>1. none \in Lists
      BY DEF Lists
    <2>2. ASSUME NEW before \in Lists PROVE Longer(before) \in Lists
      <3>1. ASSUME NEW n \in Places, n # Nil
            PROVE  before[tree.child["left"][n]] \o << n >>
                     \o before[tree.child["right"][n]] \in Seq(Keys)
        <4>1. n \in Keys
          BY <3>1 DEF Places
        <4>2. << n >> \in Seq(Keys)
          BY <4>1
        <4>3. tree.child["left"][n] \in Places /\ tree.child["right"][n] \in Places
          BY <1>3
        <4>4. /\ before[tree.child["left"][n]] \in Seq(Keys)
              /\ before[tree.child["right"][n]] \in Seq(Keys)
          BY <4>3 DEF Lists
        <4>5. before[tree.child["left"][n]] \o << n >> \in Seq(Keys)
          BY <4>2, <4>4, ConcatProperties
        <4>. QED
          BY <4>4, <4>5, ConcatProperties
      <3>2. << >> \in Seq(Keys)
        OBVIOUS
      <3>. QED
        BY <3>1, <3>2 DEF Longer, Lists
    <2>. HIDE DEF none
    <2>. QED
      BY <2>1, <2>2
  <1>5. PICK f : Walks(f, Depth, Lists, none, longer)
    <2>. HIDE DEF none, longer
    <2>. QED
      BY <1>2, <1>4, WalkExists
  <1>6. f = Round(f)
    <2>1. f \in [0..Depth -> Lists] /\ f[0] = none
          /\ \A i \in 1..Depth : f[i] = longer[f[i - 1]]
      BY <1>5 DEF Walks
    <2>2. ASSUME NEW i \in 0..Depth PROVE f[i] = Round(f)[i]
      <3>1. CASE i = 0
        BY <2>1, <3>1
      <3>2. CASE i # 0
        <4>1. i \in 1..Depth /\ i - 1 \in 0..Depth
          BY <1>2, <3>2
        <4>2. f[i] = Longer(f[i - 1])
          BY <2>1, <4>1
        <4>. QED
          BY Zenon, <3>2, <4>2 DEF Longer
      <3>. QED
        BY Zenon, <3>1, <3>2
    <2>3. f = [i \in 0..Depth |-> f[i]]
      BY <2>1
    <2>4. Round(f) = [i \in 0..Depth |-> Round(f)[i]]
      OBVIOUS
    <2>. HIDE DEF Round
    <2>. QED
      BY Zenon, <2>2, <2>3, <2>4
  <1>7. w = Round(w)
    <2>. HIDE DEF Round
    <2>. QED
      BY <1>6
  <1>. HIDE DEF w
  <1>8. \A i \in 0..Depth : \A n \in P \cup {Nil} :
          Cardinality(below[n]) <= i => Listed(w[i][n], below[n])
    <2>. DEFINE Good(i) == \A n \in P \cup {Nil} :
                  Cardinality(below[n]) <= i => Listed(w[i][n], below[n])
                T == { i \in 0..Depth : ~Good(i) }
    <2>1. SUFFICES ASSUME T # {} PROVE FALSE
      OBVIOUS
    <2>2. T \in SUBSET Nat
      BY <1>2
    <2>3. PICK x \in T : \A y \in T : x <= y
      <3>. HIDE DEF T
      <3>. QED
        BY <2>1, <2>2, LeastNumber
    <2>4. x \in 0..Depth /\ x \in Nat /\ ~Good(x)
      BY <2>3
    <2>5. PICK n \in P \cup {Nil} :
            Cardinality(below[n]) <= x /\ ~Listed(w[x][n], below[n])
      BY <2>4
    <2>6. n \in Places /\ Cardinality(below[n]) \in Nat
      BY ShapeFacts DEF Places
    <2>7. w[x] = [m \in Places |->
                      IF m = Nil \/ x = 0 THEN << >>
                      ELSE w[x - 1][tree.child["left"][m]] \o << m >>
                             \o w[x - 1][tree.child["right"][m]]]
      BY Zenon, <1>7, <2>4
    <2>8. CASE n = Nil
      <3>1. w[x][n] = << >> /\ below[n] = {}
        BY Zenon, <2>6, <2>7, <2>8 DEF Shape, Filled
      <3>. QED
        BY <2>5, <3>1, ListedNothing
    <2>9. CASE n # Nil
      <3>1. n \in P /\ n \in Keys /\ Cardinality(below[n]) > 0
        BY <2>9, ShapeFacts
      <3>2. x # 0 /\ x - 1 \in 0..Depth /\ ~(x <= x - 1)
        BY <1>2, <2>4, <2>5, <2>6, <3>1
      <3>3. Good(x - 1)
        BY <2>3, <3>2
      <3>4. ASSUME NEW s \in Sides
            PROVE  Listed(w[x - 1][tree.child[s][n]], below[tree.child[s][n]])
        <4>1. tree.child[s][n] \in P \cup {Nil}
          BY <3>1 DEF Shape, Downward
        <4>2. Cardinality(below[tree.child[s][n]]) <= x - 1
          <5>1. CASE tree.child[s][n] = Nil
            <6>1. below[tree.child[s][n]] = {} /\ Cardinality({}) = 0
              BY <5>1, FS_EmptySet DEF Shape, Filled
            <6>. QED
              BY <2>4, <3>2, <6>1
          <5>2. CASE tree.child[s][n] # Nil
            <6>1. Cardinality(below[tree.child[s][n]]) < Cardinality(below[n])
              BY <3>1, <5>2, ChildFacts
            <6>2. tree.child[s][n] \in Places
              BY <4>1, ShapeFacts, <5>2
            <6>3. Cardinality(below[tree.child[s][n]]) \in Nat
              BY <6>2, ShapeFacts
            <6>. QED
              BY <2>4, <2>5, <2>6, <6>1, <6>3
          <5>. QED
            BY <5>1, <5>2
        <4>. QED
          BY <3>3, <4>1, <4>2
      <3>5. /\ below[n] = {n} \cup below[tree.child["left"][n]]
                              \cup below[tree.child["right"][n]]
            /\ \A k \in below[tree.child["left"][n]] : k < n
            /\ \A k \in below[tree.child["right"][n]] : n < k
        BY <1>3, <3>1, SideFacts DEF Shape, Filled, Ordered, Lies
      <3>6. w[x][n] = w[x - 1][tree.child["left"][n]] \o << n >>
                        \o w[x - 1][tree.child["right"][n]]
        BY Zenon, <2>6, <2>7, <2>9, <3>2
      <3>7. Listed(w[x][n], below[n])
        <4>1. /\ Listed(w[x - 1][tree.child["left"][n]], below[tree.child["left"][n]])
              /\ Listed(w[x - 1][tree.child["right"][n]], below[tree.child["right"][n]])
          BY <1>3, <3>4
        <4>2. Listed(w[x - 1][tree.child["left"][n]] \o << n >>
                        \o w[x - 1][tree.child["right"][n]],
                     {n} \cup below[tree.child["left"][n]]
                         \cup below[tree.child["right"][n]])
          BY <3>1, <3>5, <4>1, ListedJoin
        <4>. QED
          BY Zenon, <3>5, <3>6, <4>2
      <3>. QED
        BY <2>5, <3>7
    <2>. QED
      BY <2>8, <2>9
  <1>9. tree.root \in P \cup {Nil} /\ below[tree.root] = P
    BY DEF Shape, AtTop
  <1>10. Cardinality(below[tree.root]) <= Depth /\ Depth \in 0..Depth
    BY <1>2, <1>3, ShapeFacts
  <1>. QED
    BY <1>1, <1>8, <1>9, <1>10

-----------------------------------------------------------------------------
(* The calls. *)

(* The inductive invariant: the tree of the keys that are there is a       *)
(* search tree.                                                            *)
BstInv ==
  /\ TreeTypeOK
  /\ nodes = Cardinality(Present)
  /\ \E below : Shape(tree, Present, below)

LEMMA PresentFacts ==
  ASSUME TreeTypeOK
  PROVE  /\ Present \subseteq Keys /\ IsFiniteSet(Present)
         /\ \A k \in Keys : k \in Present <=> count[k] # 0
PROOF
  <1>1. \A k \in Keys : count[k] \in 0..MaxSame
    BY DEF TreeTypeOK
  <1>. QED
    BY <1>1, DepthType, FS_Subset DEF Present

(* The counts there may be.                                                *)
LEMMA SameBounds ==
  MaxSame \in Nat /\ MaxSame > 0 /\ 0 \in 0..MaxSame /\ 1 \in 0..MaxSame
PROOF BY KeysAssumption

LEMMA TreeTypeFromShape ==
  ASSUME NEW t, NEW P, NEW below, Shape(t, P, below)
  PROVE  /\ t.root \in Places
         /\ t.child \in [Sides -> [Places -> Places]]
         /\ t.parent \in [Places -> Places]
PROOF BY DEF Shape, Trees

LEMMA BstInvInit == TreeInit => BstInv
PROOF
  <1>. SUFFICES ASSUME TreeInit PROVE BstInv
    OBVIOUS
  <1>. DEFINE none == [n \in Places |-> {}]
  <1>1. Nil \in Places
    BY DEF Places
  <1>2. Present = {}
    BY DEF TreeInit, Present
  <1>3. Shape(tree, {}, none)
    <2>1. tree \in Trees
      BY <1>1 DEF TreeInit, EmptyTree, Trees
    <2>2. Filled(tree, {}, none) /\ Ordered(tree, {}, none) /\ AtTop(tree, {}, none)
      BY <1>1 DEF TreeInit, EmptyTree, Filled, Ordered, AtTop
    <2>3. Downward(tree, {}) /\ Upward(tree, {}) /\ Nested(tree, {}, none)
      BY DEF Downward, Upward, Nested
    <2>4. Cleared(tree, {})
      BY DEF TreeInit, EmptyTree, Cleared, Places
    <2>. QED
      BY <2>1, <2>2, <2>3, <2>4 DEF Shape
  <1>4. TreeTypeOK
    <2>1. Cardinality(Keys) \in Nat
      BY DepthType DEF Depth
    <2>2. count \in [Keys -> 0..MaxSame] /\ nodes \in 0..Cardinality(Keys) /\ returned \in 0..MaxSame
      BY SameBounds, <2>1 DEF TreeInit
    <2>. QED
      BY <1>3, <2>2, TreeTypeFromShape DEF TreeTypeOK
  <1>5. nodes = Cardinality(Present)
    BY <1>2, FS_EmptySet DEF TreeInit
  <1>. QED
    BY <1>2, <1>3, <1>4, <1>5 DEF BstInv

(* BstInv follows for the step, once the new set of keys is known.         *)
LEMMA BstInvStep ==
  ASSUME NEW P, NEW b, Shape(tree', P, b),
         count' \in [Keys -> 0..MaxSame], P = { k \in Keys : count'[k] > 0 },
         nodes' = Cardinality(P), returned' \in 0..MaxSame
  PROVE  BstInv'
PROOF
  <1>1. Present' = P
    BY DEF Present
  <1>2. nodes' \in 0..Cardinality(Keys)
    BY ShapeFacts, DepthType, FS_Subset, FS_CardinalityType DEF Shape
  <1>3. TreeTypeOK'
    BY <1>2, TreeTypeFromShape DEF TreeTypeOK
  <1>. QED
    BY <1>1, <1>3 DEF BstInv

LEMMA InsertAgainKeepsInv ==
  ASSUME BstInv, NEW key \in Keys, InsertAgain(key)
  PROVE  BstInv'
PROOF
  <1>1. PICK below : Shape(tree, Present, below)
    BY DEF BstInv
  <1>2. /\ count[key] < MaxSame /\ count' = [count EXCEPT ![key] = @ + 1]
        /\ UNCHANGED << tree, nodes, returned >>
    BY DEF InsertAgain
  <1>3. count \in [Keys -> 0..MaxSame] /\ returned \in 0..MaxSame /\ nodes = Cardinality(Present)
    BY DEF BstInv, TreeTypeOK
  <1>4. count' \in [Keys -> 0..MaxSame]
    BY SameBounds, <1>2, <1>3
  <1>5. Present = { k \in Keys : count'[k] > 0 }
    <2>1. count[key] \in Nat /\ count[key] > 0
      BY <1>1, <1>3, SameBounds, SearchFinds DEF InsertAgain, Present
    <2>2. ASSUME NEW k \in Keys PROVE count[k] > 0 <=> count'[k] > 0
      BY <1>2, <1>3, <2>1
    <2>. QED
      BY <2>2 DEF Present
  <1>. QED
    BY <1>1, <1>2, <1>3, <1>4, <1>5, BstInvStep

LEMMA DeleteMissingKeepsInv ==
  ASSUME BstInv, NEW key \in Keys, DeleteMissing(key)
  PROVE  BstInv'
PROOF
  <1>1. PICK below : Shape(tree, Present, below)
    BY DEF BstInv
  <1>2. returned' = 0 /\ UNCHANGED << tree, count, nodes >>
    BY DEF DeleteMissing
  <1>3. /\ count \in [Keys -> 0..MaxSame] /\ nodes = Cardinality(Present)
        /\ count' = count /\ nodes' = nodes /\ tree' = tree /\ returned' \in 0..MaxSame
    BY SameBounds, <1>2 DEF BstInv, TreeTypeOK
  <1>4. Present = { k \in Keys : count'[k] > 0 }
    BY <1>3 DEF Present
  <1>. QED
    BY <1>1, <1>3, <1>4, BstInvStep

LEMMA NewNodeKeepsInv ==
  ASSUME BstInv, NEW key \in Keys, NewNode(key)
  PROVE  BstInv'
PROOF
  <1>1. PICK below : Shape(tree, Present, below)
    BY DEF BstInv
  <1>2. /\ ~Find(key) /\ tree' = Attached(key)
        /\ count' = [count EXCEPT ![key] = 1] /\ nodes' = nodes + 1
        /\ returned' = returned
    BY DEF NewNode
  <1>3. count \in [Keys -> 0..MaxSame] /\ returned \in 0..MaxSame /\ nodes = Cardinality(Present)
    BY DEF BstInv, TreeTypeOK
  <1>4. key \notin Present /\ IsFiniteSet(Present)
    BY <1>1, <1>2, SearchFinds, ShapeFacts
  <1>5. PICK b : Shape(tree', Present \cup {key}, b)
    BY <1>1, <1>2, <1>4, AttachKeepsShape
  <1>6. count' \in [Keys -> 0..MaxSame]
    BY SameBounds, <1>2, <1>3
  <1>7. Present \cup {key} = { k \in Keys : count'[k] > 0 }
    BY <1>2, <1>3 DEF Present
  <1>8. nodes' = Cardinality(Present \cup {key})
    BY <1>2, <1>3, <1>4, FS_AddElement
  <1>. QED
    BY <1>2, <1>3, <1>5, <1>6, <1>7, <1>8, BstInvStep

(* What is left of the counts when the key is deleted.                     *)
LEMMA CountDeletedFacts ==
  ASSUME BstInv, NEW key \in Present, CountDeleted(key),
         HasTwo(key) => Successor(key) \in Keys
  PROVE  /\ count' = [count EXCEPT ![key] = 0]
         /\ count' \in [Keys -> 0..MaxSame] /\ returned' \in 0..MaxSame
         /\ Present \ {key} = { k \in Keys : count'[k] > 0 }
         /\ nodes' = Cardinality(Present \ {key})
PROOF
  <1>1. /\ count \in [Keys -> 0..MaxSame] /\ nodes = Cardinality(Present)
        /\ IsFiniteSet(Present) /\ key \in Keys
    BY PresentFacts DEF BstInv, TreeTypeOK
  <1>2. count' = [count EXCEPT ![key] = 0] /\ nodes' = nodes - 1
    BY DEF CountDeleted, Copied, NodesLeft
  <1>3. returned' \in 0..MaxSame
    BY <1>1 DEF CountDeleted
  <1>4. Present \ {key} = { k \in Keys : count'[k] > 0 }
    BY <1>1, <1>2 DEF Present
  <1>5. nodes' = Cardinality(Present \ {key})
    BY <1>1, <1>2, FS_RemoveElement
  <1>. QED
    BY SameBounds, <1>1, <1>2, <1>3, <1>4, <1>5

LEMMA DeleteOneKeepsInv ==
  ASSUME BstInv, NEW key \in Keys, BstDeleteOne(key)
  PROVE  BstInv'
PROOF
  <1>1. PICK below : Shape(tree, Present, below)
    BY DEF BstInv
  <1>2. /\ Find(key) /\ ~HasTwo(key) /\ CountDeleted(key)
        /\ tree' = Freed(BstSpliced(key, ParentOf(key)), key)
    BY DEF BstDeleteOne
  <1>3. key \in Present /\ ParentOf(key) = tree.parent[key]
    BY <1>1, <1>2, SearchFinds, SearchPasses
  <1>4. PICK e \in Sides : /\ tree.child[e][key] = Nil
                           /\ tree' = Without(tree, key, tree.child[Other(e)][key])
    BY <1>1, <1>2, <1>3, FreedIsWithout
  <1>5. PICK b : Shape(tree', Present \ {key}, b)
    BY <1>1, <1>3, <1>4, WithoutKeepsShape
  <1>. QED
    BY <1>2, <1>3, <1>5, CountDeletedFacts, BstInvStep

(* Renamed looks at no link of the node whose key it takes.                *)
LEMMA RenamedIgnoresFreed ==
  ASSUME NEW t \in Trees, NEW d \in Keys, NEW s \in Keys, d # s
  PROVE  Renamed(t, d, s) = Renamed(Freed(t, s), d, s)
PROOF
  <1>. DEFINE f == Freed(t, s)
  <1>1. s \in Places /\ d \in Places
    BY DEF Places
  <1>2. f.root = t.root /\ f.parent = [t.parent EXCEPT ![s] = Nil]
    BY DEF Freed, Trees
  <1>3. f.child = [t.child EXCEPT !["left"] = [@ EXCEPT ![s] = Nil],
                                  !["right"] = [@ EXCEPT ![s] = Nil]]
    BY DEF Freed, Trees, Sides
  <1>4. /\ \A n \in Places : n # s => f.parent[n] = t.parent[n]
        /\ \A side \in Sides : \A n \in Places : n # s => f.child[side][n] = t.child[side][n]
    BY <1>1, <1>2, <1>3, SideFacts DEF Trees
  <1>. HIDE DEF f
  <1>. DEFINE Name(n) == IF n = d THEN s ELSE n
              Moved(g) == [n \in Places |-> IF n = d THEN Nil
                                            ELSE IF n = s THEN Name(g[d])
                                            ELSE Name(g[n])]
  <1>5. Moved(f.parent) = Moved(t.parent)
    BY <1>1, <1>4
  <1>6. \A side \in Sides : Moved(f.child[side]) = Moved(t.child[side])
    BY <1>1, <1>4
  <1>. HIDE DEF Moved, Name
  <1>7. [side \in Sides |-> Moved(f.child[side])]
          = [side \in Sides |-> Moved(t.child[side])]
    BY <1>6
  <1>8. \A x : Renamed(x, d, s) =
          [root |-> Name(x.root), child |-> [side \in Sides |-> Moved(x.child[side])],
           parent |-> Moved(x.parent)]
    BY DEF Renamed, Moved, Name
  <1>. QED
    BY <1>2, <1>5, <1>7, <1>8 DEF f

LEMMA DeleteTwoKeepsInv ==
  ASSUME BstInv, NEW key \in Keys, BstDeleteTwo(key)
  PROVE  BstInv'
PROOF
  <1>. DEFINE s == Successor(key)
              v == BstSpliced(s, tree.parent[s])
  <1>1. PICK below : Shape(tree, Present, below)
    BY DEF BstInv
  <1>2. /\ Find(key) /\ HasTwo(key) /\ CountDeleted(key)
        /\ tree' = Renamed(BstSpliced(s, SuccessorParent(key)), key, s)
    BY DEF BstDeleteTwo
  <1>3. key \in Present
    BY <1>1, <1>2, SearchFinds
  <1>4. tree.child["right"][key] # Nil
    BY <1>2, SideFacts DEF HasTwo
  <1>5. /\ s \in Present /\ s # key /\ key < s /\ tree.child["left"][s] = Nil
        /\ SuccessorParent(key) = tree.parent[s]
        /\ \A k \in Present : ~(key < k /\ k < s)
    BY <1>1, <1>3, <1>4, SuccessorFacts
  <1>6. Present \subseteq Keys
    BY <1>1, ShapeFacts
  <1>. HIDE DEF s
  <1>7. ~HasTwo(s)
    BY <1>5, SideFacts DEF HasTwo
  <1>8. PICK e \in Sides : /\ tree.child[e][s] = Nil
                           /\ Freed(v, s) = Without(tree, s, tree.child[Other(e)][s])
    BY <1>1, <1>5, <1>7, FreedIsWithout
  <1>9. PICK b : Shape(Freed(v, s), Present \ {s}, b)
    BY <1>1, <1>5, <1>8, WithoutKeepsShape
  <1>10. v \in Trees
    BY <1>1, <1>5, <1>7, FreedIsWithout
  <1>11. tree' = Renamed(Freed(v, s), key, s)
    BY <1>2, <1>5, <1>6, <1>10, RenamedIgnoresFreed
  <1>12. \A k \in (Present \ {s}) \ {key} : k < key <=> k < s
    BY <1>5, <1>6, KeysAreNumbers
  <1>13. PICK c : Shape(tree', ((Present \ {s}) \ {key}) \cup {s}, c)
    BY <1>3, <1>5, <1>6, <1>9, <1>11, <1>12, RenameKeepsShape
  <1>14. ((Present \ {s}) \ {key}) \cup {s} = Present \ {key}
    BY <1>5
  <1>15. Shape(tree', Present \ {key}, c)
    BY <1>13, <1>14
  <1>16. s \in Keys
    BY <1>5, <1>6
  <1>. QED
    BY <1>2, <1>3, <1>15, <1>16, CountDeletedFacts, BstInvStep DEF s

-----------------------------------------------------------------------------
(* What follows from the invariant. *)

LEMMA InvGivesParentsAgree == BstInv => ParentsAgree
PROOF
  <1>. SUFFICES ASSUME BstInv PROVE ParentsAgree
    OBVIOUS
  <1>1. PICK below : Shape(tree, Present, below)
    BY DEF BstInv
  <1>2. tree.root = Nil <=> Present = {}
    BY <1>1, ShapeFacts
  <1>3. ASSUME NEW n \in Present
        PROVE  /\ tree.parent[n] = Nil <=> n = tree.root
               /\ tree.parent[n] # Nil =>
                    \E side \in Sides : tree.child[side][tree.parent[n]] = n
               /\ \A side \in Sides :
                    tree.child[side][n] # Nil => tree.parent[tree.child[side][n]] = n
    <2>1. n # Nil
      BY <1>1, ShapeFacts
    <2>. QED
      BY <1>1, <2>1 DEF Shape, AtTop, Upward, Downward
  <1>. QED
    BY <1>2, <1>3 DEF ParentsAgree

LEMMA InvGivesSorted == BstInv => Sorted
PROOF
  <1>. SUFFICES ASSUME BstInv PROVE Sorted
    OBVIOUS
  <1>1. PICK below : Shape(tree, Present, below)
    BY DEF BstInv
  <1>2. Listed(InOrder, Present)
    BY <1>1, InOrderIsSorted
  <1>. QED
    BY <1>2 DEF BstInv, Sorted, Listed

(* What the calls do to the counts is the same for both trees.             *)
LEMMA CountedSteps ==
  ASSUME BstInv, NEW key \in Keys
  PROVE  /\ InsertAgain(key) \/ NewNode(key) => Counted!Add(key)
         /\ DeleteMissing(key) => Counted!Remove(key)
         /\ Find(key) /\ CountDeleted(key) => Counted!Remove(key)
PROOF
  <1>1. /\ count \in [Keys -> 0..MaxSame]
        /\ \E below : Shape(tree, Present, below)
    BY DEF BstInv, TreeTypeOK
  <1>2. ~Find(key) => count[key] = 0
    <2>1. ~Find(key) => key \notin Present
      BY <1>1, SearchFinds
    <2>. QED
      BY <1>1, <2>1 DEF Present
  <1>3. ASSUME InsertAgain(key) PROVE Counted!Add(key)
    BY <1>3 DEF InsertAgain, Counted!Add
  <1>4. ASSUME NewNode(key) PROVE Counted!Add(key)
    BY <1>1, <1>2, <1>4 DEF NewNode, Counted!Add
  <1>5. ASSUME DeleteMissing(key) PROVE Counted!Remove(key)
    <2>1. ~Find(key)
      BY <1>5 DEF DeleteMissing
    <2>2. count[key] = 0 /\ count = [count EXCEPT ![key] = 0]
      BY <1>1, <1>2, <2>1
    <2>. QED
      BY <1>5, <2>2 DEF DeleteMissing, Counted!Remove
  <1>6. ASSUME Find(key), CountDeleted(key) PROVE Counted!Remove(key)
    <2>1. key \in Present
      BY <1>1, <1>6, SearchFinds
    <2>2. HasTwo(key) => Successor(key) \in Present
      <3>1. HasTwo(key) => tree.child["right"][key] # Nil
        BY SideFacts DEF HasTwo
      <3>. QED
        BY <1>1, <2>1, <3>1, SuccessorFacts
    <2>3. count' = [count EXCEPT ![key] = 0]
      BY <1>6 DEF CountDeleted, Copied
    <2>4. \A k \in Present : count[k] \in 0..MaxSame /\ count[k] > 0
      BY <1>1 DEF Present
    <2>5. returned' \in Nat /\ returned' > 0 /\ count[key] > 0
      BY <1>6, <2>1, <2>2, <2>4 DEF CountDeleted
    <2>. QED
      BY <2>3, <2>5 DEF Counted!Remove
  <1>. QED
    BY <1>3, <1>4, <1>5, <1>6

-----------------------------------------------------------------------------
(* The tree without balancing. *)

(* BstInv holds at first and after every call, whatever the keys.          *)
THEOREM BstInvariant == BstSpec => []BstInv
PROOF
  <1>1. TreeInit => BstInv
    BY BstInvInit
  <1>2. BstInv /\ [BstNext]_treeVars => BstInv'
    <2>. SUFFICES ASSUME BstInv, [BstNext]_treeVars PROVE BstInv'
      OBVIOUS
    <2>1. ASSUME NEW key \in Keys, BstInsert(key) PROVE BstInv'
      BY <2>1, InsertAgainKeepsInv, NewNodeKeepsInv DEF BstInsert
    <2>2. ASSUME NEW key \in Keys, BstDelete(key) PROVE BstInv'
      BY <2>2, DeleteMissingKeepsInv, DeleteOneKeepsInv, DeleteTwoKeepsInv DEF BstDelete
    <2>3. CASE UNCHANGED treeVars
      BY <2>3 DEF treeVars, BstInv, TreeTypeOK, Present
    <2>. QED
      BY <2>1, <2>2, <2>3 DEF BstNext
  <1>. QED
    BY <1>1, <1>2, PTL DEF BstSpec

(* Every link of a node leads to a node, and a count is of its key.        *)
THEOREM BstTypeCorrect == BstSpec => []TreeTypeOK
PROOF
  <1>1. BstInv => TreeTypeOK
    BY DEF BstInv
  <1>. QED
    BY <1>1, BstInvariant, PTL

(* Parent is the inverse of Left and Right after every insertion and       *)
(* deletion, with however many keys (BinaryTree.h: Insert, Delete).        *)
THEOREM BstParentsAgree == BstSpec => []ParentsAgree
PROOF BY InvGivesParentsAgree, BstInvariant, PTL

(* In order, the tree holds exactly the keys inserted and not deleted,     *)
(* ascending, and count_ says how many (BinaryTree.h: SearchForVector).    *)
THEOREM BstSorted == BstSpec => []Sorted
PROOF BY InvGivesSorted, BstInvariant, PTL

(* Whatever its shape, the tree behaves as a set of keys with counts: every *)
(* call is an Add or a Remove of its key, or changes nothing one can ask    *)
(* for (BinaryTree.h: Insert, Delete).                                      *)
THEOREM BstIsCountedSet == BstSpec => ImplementsCountedSet
PROOF
  <1>1. TreeInit => Counted!CountedInit
    BY DEF TreeInit, Counted!CountedInit
  <1>2. BstInv /\ [BstNext]_treeVars => [Counted!CountedNext]_(Counted!countedVars)
    <2>. SUFFICES ASSUME BstInv, [BstNext]_treeVars
                  PROVE  [Counted!CountedNext]_(Counted!countedVars)
      OBVIOUS
    <2>1. ASSUME NEW key \in Keys, BstInsert(key) \/ BstDelete(key)
          PROVE  Counted!CountedNext
      <3>1. Counted!Add(key) \/ Counted!Remove(key)
        BY <2>1, CountedSteps DEF BstInsert, BstDelete, BstDeleteOne, BstDeleteTwo
      <3>. QED
        BY <3>1 DEF Counted!CountedNext
    <2>2. CASE UNCHANGED treeVars
      BY <2>2 DEF treeVars, Counted!countedVars
    <2>. QED
      BY <2>1, <2>2 DEF BstNext
  <1>. QED
    BY <1>1, <1>2, BstInvariant, PTL
       DEF BstSpec, ImplementsCountedSet, Counted!CountedSpec

=============================================================================
