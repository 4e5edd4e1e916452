------------------------- MODULE RedBlackTreeProofs -------------------------
(***************************************************************************)
(* The red-black tree, for every finite set of keys: between any two       *)
(* rounds of the balancing its links are those of a search tree and its    *)
(* colors those of a red-black tree but where curr is, and it implements a *)
(* set of keys with counts.                                                *)
(*                                                                         *)
(* The links are treated as in SearchTreeProofs; what comes new is that a  *)
(* rotation keeps the Shape.  Of the colors the invariant says that there  *)
(* are Heights, numbers of black nodes on any way down from a node, one    *)
(* more being counted where a deletion has left a gap, and where a red     *)
(* node may have a red parent.  The heights are needed for the links too:  *)
(* that the sibling exists which a round rotates about follows from them.  *)
(***************************************************************************)
EXTENDS SearchTreeProofs, RedBlackTree

-----------------------------------------------------------------------------
(* What Rotated does to the links, at a node n that has the child up which *)
(* comes up; x changes sides.                                              *)
RotatedTo(r, t, n, side) ==
  LET up == t.child[Other(side)][n]
      x == t.child[side][up]
  IN /\ r \in Trees
     /\ r.root = IF t.root = n THEN up ELSE t.root
     /\ r.child[side][up] = n /\ r.child[Other(side)][up] = t.child[Other(side)][up]
     /\ r.child[side][n] = t.child[side][n] /\ r.child[Other(side)][n] = x
     /\ \A s \in Sides : \A m \in Places \ {n, up} :
          r.child[s][m] = IF t.child[s][m] = n THEN up ELSE t.child[s][m]
     /\ r.parent[up] = t.parent[n] /\ r.parent[n] = up
     /\ x # Nil => r.parent[x] = n
     /\ r.parent[Nil] = t.parent[Nil]
     /\ \A m \in Places \ {n, up, x} : r.parent[m] = t.parent[m]

(* The places that a rotation is about.                                    *)
Turn(t, P, below, n, side) ==
  LET o == Other(side)
      up == t.child[o][n]
      c == t.child[side][n]
      x == t.child[side][up]
      d == t.child[o][up]
  IN /\ o \in Sides /\ o # side /\ \A s \in Sides : s = side \/ s = o
     /\ n \in Places /\ n # Nil /\ t.parent[n] \in Places
     /\ up \in P /\ up \in Places /\ up # Nil /\ t.parent[up] = n
     /\ c \in P \cup {Nil} /\ x \in P \cup {Nil} /\ d \in P \cup {Nil}
     /\ c \in Places /\ x \in Places /\ d \in Places
     /\ c # Nil => t.parent[c] = n
     /\ x # Nil => t.parent[x] = up
     /\ d # Nil => t.parent[d] = up
     /\ n # up /\ c \notin {n, up} /\ x \notin {n, up} /\ d \notin {n, up}
     /\ x = c => x = Nil
     /\ x = d => x = Nil
     /\ t.parent[n] \notin {n, up}
     /\ n \notin below[up]

LEMMA TurnFacts ==
  ASSUME NEW t, NEW P, NEW below, Shape(t, P, below), NEW n \in P,
         NEW side \in Sides, t.child[Other(side)][n] # Nil
  PROVE  Turn(t, P, below, n, side)
PROOF
  <1>. DEFINE o == Other(side)
              up == t.child[o][n]
              c == t.child[side][n]
              x == t.child[side][up]
              d == t.child[o][up]
  <1>1. /\ o \in Sides /\ o # side /\ \A s \in Sides : s = side \/ s = o
        /\ P \subseteq Keys /\ Nil \notin P /\ n \in Places /\ n # Nil
        /\ P \subseteq Places /\ Nil \in Places
    BY SideFacts, ShapeFacts DEF Places
  <1>2. /\ up \in P /\ up # n /\ t.parent[up] = n /\ up \in below[n]
        /\ below[up] \subseteq below[n] \ {n} /\ up # Nil
    BY <1>1, ChildFacts
  <1>3. /\ x \in P \cup {Nil} /\ (x # Nil => t.parent[x] = up /\ x # up /\ x \in below[up])
        /\ d \in P \cup {Nil} /\ (d # Nil => t.parent[d] = up /\ d # up /\ d \in below[up])
        /\ c \in P \cup {Nil} /\ (c # Nil => t.parent[c] = n /\ c # n)
    BY <1>1, <1>2, ChildFacts
  <1>4. x = d => x = Nil
    <2>1. SUFFICES ASSUME x = d, x # Nil PROVE FALSE
      OBVIOUS
    <2>2. Lies(side, x, up) /\ Lies(o, x, up) /\ x \in Keys /\ up \in Keys
      BY <1>1, <1>2, <1>3, <2>1, ChildFacts
    <2>. QED
      BY <2>2, LiesFacts
  <1>5. c # up
    <2>1. SUFFICES ASSUME c = up PROVE FALSE
      OBVIOUS
    <2>2. Lies(side, up, n) /\ Lies(o, up, n) /\ n \in Keys /\ up \in Keys
      BY <1>1, <1>2, <2>1, ChildFacts
    <2>. QED
      BY <2>2, LiesFacts
  <1>6. t.parent[n] \in Places
    BY <1>1 DEF Shape, Trees
  <1>7. t.parent[n] # n
    <2>1. SUFFICES ASSUME t.parent[n] = n PROVE FALSE
      OBVIOUS
    <2>2. PICK s \in Sides : t.child[s][n] = n
      BY <1>1, <2>1 DEF Shape, Upward
    <2>. QED
      BY <1>1, <2>2, ChildFacts
  <1>8. t.parent[n] # up
    <2>1. SUFFICES ASSUME t.parent[n] = up PROVE FALSE
      OBVIOUS
    <2>2. PICK s \in Sides : t.child[s][up] = n
      BY <1>2, <2>1 DEF Shape, Upward
    <2>3. n \in below[up]
      BY <1>1, <1>2, <2>2, ChildFacts
    <2>. QED
      BY <1>2, <2>3
  <1>. HIDE DEF o, up, c, x, d
  <1>9. x # n /\ d # n /\ x # up /\ d # up /\ c # n
    BY <1>1, <1>2, <1>3
  <1>10. x = c => x = Nil
    BY <1>2, <1>3
  <1>11. /\ up \in Places /\ c \in Places /\ x \in Places /\ d \in Places
         /\ n \notin below[up]
    BY <1>1, <1>2, <1>3
  <1>. QED
    BY <1>1, <1>2, <1>3, <1>4, <1>5, <1>6, <1>7, <1>8, <1>9, <1>10, <1>11
       DEF Turn, o, up, c, x, d

LEMMA RotatedLinks ==
  ASSUME NEW t, NEW P, NEW below, Shape(t, P, below), NEW n \in P,
         NEW side \in Sides, t.child[Other(side)][n] # Nil
  PROVE  RotatedTo(Rotated(t, n, side), t, n, side)
PROOF
  <1>. DEFINE o == Other(side)
              up == t.child[o][n]
              c == t.child[side][n]
              x == t.child[side][up]
              d == t.child[o][up]
              q == Relink(t, t.parent[n], n, up)
              r == Rotated(t, n, side)
  <1>1. /\ o \in Sides /\ o # side /\ \A s \in Sides : s = side \/ s = o
        /\ n \in Places /\ n # Nil /\ t.parent[n] \in Places
        /\ up \in P /\ up \in Places /\ up # Nil
        /\ x \in Places /\ x \notin {n, up} /\ d \notin {n, up} /\ c \notin {n, up}
        /\ n # up
    <2>1. Turn(t, P, below, n, side)
      BY TurnFacts
    <2>. QED
      BY <2>1 DEF Turn
  <1>2. /\ q \in Trees /\ q.parent = t.parent
        /\ q.root = IF t.root = n THEN up ELSE t.root
        /\ \A s \in Sides : \A m \in Places :
             q.child[s][m] = IF t.child[s][m] = n THEN up ELSE t.child[s][m]
    BY <1>1, RelinkLinks
  <1>3. r = [q EXCEPT
        !.parent[up] = t.parent[n], !.child[side][up] = n, !.parent[n] = up,
        !.child[o][n] = x, !.parent[x] = IF x = Nil THEN @ ELSE n]
    BY DEF Rotated
  <1>. HIDE DEF q, r
  <1>4. /\ r.root = q.root
        /\ r.child = [q.child EXCEPT ![side] = [@ EXCEPT ![up] = n],
                                     ![o] = [@ EXCEPT ![n] = x]]
        /\ r.parent = [q.parent EXCEPT ![up] = t.parent[n], ![n] = up,
                                       ![x] = IF x = Nil THEN @ ELSE n]
        /\ r = [root |-> r.root, child |-> r.child, parent |-> r.parent]
    BY Zenon, <1>1, <1>2, <1>3 DEF Trees
  <1>. HIDE DEF o, up, x, c, d
  <1>5. /\ q.root \in Places /\ q.child \in [Sides -> [Places -> Places]]
        /\ q.parent \in [Places -> Places]
    BY <1>2 DEF Trees
  <1>6. /\ r.child[side] = [q.child[side] EXCEPT ![up] = n]
        /\ r.child[o] = [q.child[o] EXCEPT ![n] = x]
        /\ DOMAIN r.child = Sides
    BY <1>1, <1>4, <1>5
  <1>7. r.child = [s \in Sides |-> r.child[s]]
    BY <1>4, <1>5
  <1>8. r.child \in [Sides -> [Places -> Places]]
    <2>1. r.child[side] \in [Places -> Places] /\ r.child[o] \in [Places -> Places]
      BY <1>1, <1>5, <1>6
    <2>. QED
      BY <1>1, <1>7, <2>1
  <1>9. r.parent \in [Places -> Places]
    BY <1>1, <1>4, <1>5
  <1>10. r \in Trees
    BY <1>4, <1>5, <1>8, <1>9 DEF Trees
  <1>11. /\ \A m \in Places : r.child[side][m] = IF m = up THEN n ELSE q.child[side][m]
         /\ \A m \in Places : r.child[o][m] = IF m = n THEN x ELSE q.child[o][m]
    BY <1>1, <1>5, <1>6
  <1>12. \A m \in Places : r.parent[m] = IF m = x /\ x # Nil THEN n
                                         ELSE IF m = n THEN up
                                         ELSE IF m = up THEN t.parent[n]
                                         ELSE q.parent[m]
    BY <1>1, <1>4, <1>5
  <1>13. Nil \in Places
    BY DEF Places
  <1>14. \A s \in Sides : \A m \in Places \ {n, up} :
           r.child[s][m] = IF t.child[s][m] = n THEN up ELSE t.child[s][m]
    BY <1>1, <1>2, <1>11
  <1>15. q.child[side][n] = c /\ q.child[o][up] = d
    BY <1>1, <1>2 DEF c, d
  <1>16. /\ r.child[side][up] = n /\ r.child[o][up] = d
         /\ r.child[side][n] = c /\ r.child[o][n] = x
    BY <1>1, <1>11, <1>15
  <1>17. /\ r.parent[up] = t.parent[n] /\ r.parent[n] = up
         /\ x # Nil => r.parent[x] = n
         /\ r.parent[Nil] = t.parent[Nil]
         /\ \A m \in Places \ {n, up, x} : r.parent[m] = t.parent[m]
    BY <1>1, <1>2, <1>12, <1>13
  <1>. QED
    BY ZenonT(60), <1>2, <1>4, <1>10, <1>14, <1>16, <1>17 DEF RotatedTo, r, o, up, x, c, d

(* A rotation keeps the order of the keys and the links consistent.        *)
LEMMA RotatedKeepsShape ==
  ASSUME NEW t, NEW P, NEW below, Shape(t, P, below), NEW n \in P,
         NEW side \in Sides, t.child[Other(side)][n] # Nil
  PROVE  \E b : Shape(Rotated(t, n, side), P, b)
PROOF
  <1>. DEFINE o == Other(side)
              up == t.child[o][n]
              c == t.child[side][n]
              x == t.child[side][up]
              d == t.child[o][up]
              r == Rotated(t, n, side)
              b == [m \in Places |-> IF m = up THEN below[n]
                                     ELSE IF m = n THEN {n} \cup below[c] \cup below[x]
                                     ELSE below[m]]
  <1>1. /\ o \in Sides /\ o # side /\ \A s \in Sides : s = side \/ s = o
        /\ n \in Places /\ n # Nil /\ t.parent[n] \in Places
        /\ up \in P /\ up \in Places /\ up # Nil /\ t.parent[up] = n
        /\ c \in P \cup {Nil} /\ x \in P \cup {Nil} /\ d \in P \cup {Nil}
        /\ c \in Places /\ x \in Places /\ d \in Places
        /\ (c # Nil => t.parent[c] = n)
        /\ (x # Nil => t.parent[x] = up)
        /\ (d # Nil => t.parent[d] = up)
        /\ n # up /\ c \notin {n, up} /\ x \notin {n, up} /\ d \notin {n, up}
        /\ (x = c => x = Nil)
        /\ (x = d => x = Nil)
        /\ t.parent[n] \notin {n, up}
    <2>1. Turn(t, P, below, n, side)
      BY TurnFacts
    <2>. QED
      BY <2>1 DEF Turn
  <1>2. /\ r \in Trees
        /\ r.root = IF t.root = n THEN up ELSE t.root
        /\ r.child[side][up] = n /\ r.child[o][up] = d
        /\ r.child[side][n] = c /\ r.child[o][n] = x
        /\ \A s \in Sides : \A m \in Places \ {n, up} :
             r.child[s][m] = IF t.child[s][m] = n THEN up ELSE t.child[s][m]
        /\ r.parent[up] = t.parent[n] /\ r.parent[n] = up
        /\ (x # Nil => r.parent[x] = n)
        /\ \A m \in Places \ {n, up, x} : r.parent[m] = t.parent[m]
    BY RotatedLinks DEF RotatedTo
  <1>3. /\ P \subseteq Keys /\ Nil \notin P /\ Nil \in Places /\ below[Nil] = {}
        /\ \A m \in P : /\ below[m] \subseteq P /\ m \in below[m]
                        /\ m \in Places /\ m \in Keys
        /\ P \subseteq Places
    BY ZenonT(60), ShapeFacts DEF Shape, Filled, Places
  <1>4. /\ below[n] = {n} \cup below[c] \cup below[up]
        /\ below[up] = {up} \cup below[x] \cup below[d]
    BY Zenon, <1>1, SideFacts DEF Shape, Filled
  <1>5. /\ \A k \in below[c] : Lies(side, k, n)
        /\ \A k \in below[up] : Lies(o, k, n)
        /\ \A k \in below[x] : Lies(side, k, up)
        /\ \A k \in below[d] : Lies(o, k, up)
    BY <1>1 DEF Shape, Ordered
  <1>6. /\ below[c] \subseteq P /\ below[x] \subseteq P /\ below[d] \subseteq P
        /\ below[n] \subseteq P /\ below[up] \subseteq P
    BY <1>1, <1>3
  <1>7. /\ n \notin below[c] /\ n \notin below[x] /\ n \notin below[d]
        /\ up \notin below[c] /\ up \notin below[x] /\ up \notin below[d]
        /\ below[c] \cap below[x] = {} /\ n \notin below[up]
    <2>1. n \in Keys /\ up \in Keys /\ P \subseteq Keys
      BY <1>1, <1>3
    <2>2. \A s \in Sides : \A k, m \in Keys : Lies(s, k, m) => k # m /\ ~Lies(Other(s), k, m)
      BY LiesFacts
    <2>3. up \in below[up]
      BY SMTT(60), <1>1, <1>3
    <2>4. n \notin below[c] /\ n \notin below[up] /\ up \notin below[x] /\ up \notin below[d]
      BY SMTT(60), <1>1, <1>5, <2>1, <2>2
    <2>5. \A k \in below[c] : k \notin below[up]
      BY <1>1, <1>5, <1>6, <2>1, <2>2
    <2>. QED
      BY Zenon, <1>4, <2>3, <2>4, <2>5
  <1>8. \A s \in Sides : \A m \in P :
          /\ t.child[s][m] \in P \cup {Nil}
          /\ t.child[s][m] \in Places
          /\ t.child[s][m] # Nil => t.parent[t.child[s][m]] = m
    BY <1>3 DEF Shape, Downward
  <1>. HIDE DEF o, up, c, x, d, r
  <1>9. b \in [Places -> SUBSET Keys]
    <2>1. \A m \in Places : below[m] \subseteq Keys
      BY DEF Shape
    <2>. QED
      BY <1>1, <1>3, <2>1
  <1>10. /\ b[up] = below[n] /\ b[n] = {n} \cup below[c] \cup below[x]
         /\ \A m \in Places \ {n, up} : b[m] = below[m]
    BY <1>1
  <1>. HIDE DEF b
  <1>11. /\ b[c] = below[c] /\ b[x] = below[x] /\ b[d] = below[d] /\ b[Nil] = {}
    BY <1>1, <1>3, <1>10
  <1>12. ASSUME NEW m \in P \ {n, up}, NEW s \in Sides
         PROVE  /\ b[r.child[s][m]] = below[t.child[s][m]]
                /\ t.child[s][m] # up
                /\ r.child[s][m] = IF t.child[s][m] = n THEN up ELSE t.child[s][m]
    <2>1. t.child[s][m] # up
      BY <1>1, <1>8
    <2>2. r.child[s][m] = IF t.child[s][m] = n THEN up ELSE t.child[s][m]
      BY <1>2, <1>3
    <2>. QED
      BY <1>8, <1>10, <2>1, <2>2
  <1>13. Filled(r, P, b)
    <2>1. ASSUME NEW m \in P
          PROVE  b[m] = {m} \cup b[r.child[side][m]] \cup b[r.child[o][m]]
      <3>1. CASE m = n
        BY <1>2, <1>10, <1>11, <3>1
      <3>2. CASE m = up
        BY <1>2, <1>4, <1>10, <1>11, <3>2
      <3>3. CASE m \notin {n, up}
        <4>1. below[m] = {m} \cup below[t.child[side][m]] \cup below[t.child[o][m]]
          BY SideFacts DEF Shape, Filled, o
        <4>. QED
          BY <1>1, <1>3, <1>10, <1>12, <3>3, <4>1
      <3>. QED
        BY <3>1, <3>2, <3>3
    <2>. QED
      BY <1>11, <2>1, SideFacts DEF Filled, o
  <1>14. Ordered(r, P, b)
    <2>1. ASSUME NEW m \in P, NEW s \in Sides, NEW k \in b[r.child[s][m]]
          PROVE  Lies(s, k, m)
      <3>1. CASE m = n
        <4>1. s = side => k \in below[c]
          BY <1>2, <1>11, <2>1, <3>1
        <4>2. s = o => k \in below[up]
          BY <1>2, <1>4, <1>11, <2>1, <3>1
        <4>. QED
          BY <1>1, <1>5, <3>1, <4>1, <4>2
      <3>2. CASE m = up
        <4>1. CASE s = o
          BY <1>2, <1>5, <1>11, <2>1, <3>2, <4>1
        <4>2. CASE s = side
          <5>1. k \in {n} \cup below[c] \cup below[x]
            BY <1>2, <1>10, <2>1, <3>2, <4>2
          <5>2. Lies(side, n, up)
            <6>1. Lies(o, up, n) /\ n \in Int /\ up \in Int
              BY <1>1, <1>3, <1>5, KeysAreNumbers
            <6>. QED
              BY <6>1, SideFacts DEF Lies, o, Sides, Other
          <5>3. k \in below[c] => Lies(side, k, up)
            <6>1. k \in below[c] => Lies(side, k, n) /\ k \in Int
              BY <1>3, <1>5, <1>6, KeysAreNumbers
            <6>2. n \in Int /\ up \in Int
              BY <1>1, <1>3, KeysAreNumbers
            <6>. QED
              BY <5>2, <6>1, <6>2 DEF Lies
          <5>. QED
            BY <1>5, <3>2, <4>2, <5>1, <5>2, <5>3
        <4>. QED
          BY <1>1, <4>1, <4>2
      <3>3. CASE m \notin {n, up}
        <4>1. k \in below[t.child[s][m]]
          BY <1>12, <2>1, <3>3
        <4>. QED
          BY <4>1 DEF Shape, Ordered
      <3>. QED
        BY <3>1, <3>2, <3>3
    <2>. QED
      BY <2>1 DEF Ordered
  <1>15. AtTop(r, P, b)
    <2>1. t.root \in P /\ below[t.root] = P /\ t.parent[t.root] = Nil
      BY ShapeFacts DEF Shape, AtTop
    <2>2. CASE t.root = n
      BY <1>1, <1>2, <1>10, <2>1, <2>2 DEF AtTop
    <2>3. CASE t.root # n
      <3>1. t.root # up /\ t.root # x
        BY <1>1, <1>3, <2>1
      <3>2. r.root = t.root /\ b[t.root] = P /\ r.parent[t.root] = Nil
        BY <1>2, <1>3, <1>10, <2>1, <2>3, <3>1
      <3>. QED
        BY <2>1, <3>2 DEF AtTop
    <2>. QED
      BY <2>2, <2>3
  <1>16. Downward(r, P)
    <2>1. ASSUME NEW m \in P, NEW s \in Sides, r.child[s][m] # Nil
          PROVE  r.child[s][m] \in P /\ r.parent[r.child[s][m]] = m
      <3>1. CASE m = n /\ s = side
        <4>1. c # Nil /\ c # x /\ r.child[s][m] = c
          BY <1>1, <1>2, <2>1, <3>1
        <4>. QED
          BY <1>1, <1>2, <3>1, <4>1
      <3>2. CASE m = n /\ s = o
        BY <1>1, <1>2, <2>1, <3>2
      <3>3. CASE m = up /\ s = side
        BY <1>2, <3>3
      <3>4. CASE m = up /\ s = o
        <4>1. d # Nil /\ d # x /\ r.child[s][m] = d
          BY <1>1, <1>2, <2>1, <3>4
        <4>. QED
          BY <1>1, <1>2, <3>4, <4>1
      <3>5. CASE m \notin {n, up}
        <4>1. r.child[s][m] = IF t.child[s][m] = n THEN up ELSE t.child[s][m]
          BY <1>12, <3>5
        <4>2. CASE t.child[s][m] = n
          BY <1>1, <1>2, <1>8, <4>1, <4>2
        <4>3. CASE t.child[s][m] # n
          <5>1. /\ t.child[s][m] # Nil /\ t.child[s][m] \in P /\ t.child[s][m] \in Places
                /\ t.parent[t.child[s][m]] = m /\ t.child[s][m] # up
            BY <1>8, <1>12, <2>1, <3>5, <4>1, <4>3
          <5>2. t.child[s][m] # x
            BY <1>1, <3>5, <5>1
          <5>. QED
            BY <1>2, <4>1, <4>3, <5>1, <5>2
        <4>. QED
          BY <4>2, <4>3
      <3>. QED
        BY <1>1, <3>1, <3>2, <3>3, <3>4, <3>5
    <2>. QED
      BY <2>1 DEF Downward
  <1>17. Upward(r, P)
    <2>1. ASSUME NEW m \in P
          PROVE  /\ r.parent[m] = Nil => m = r.root
                 /\ r.parent[m] # Nil =>
                      /\ r.parent[m] \in P
                      /\ \E s \in Sides : r.child[s][r.parent[m]] = m
      <3>1. CASE m = n
        BY <1>1, <1>2, <3>1
      <3>2. CASE m = up
        <4>1. CASE t.parent[n] = Nil
          <5>1. n = t.root
            BY <4>1 DEF Shape, Upward
          <5>. QED
            BY <1>2, <3>2, <4>1, <5>1
        <4>2. CASE t.parent[n] # Nil
          <5>1. PICK s \in Sides : t.child[s][t.parent[n]] = n
            BY <4>2 DEF Shape, Upward
          <5>2. t.parent[n] \in P
            BY <4>2 DEF Shape, Upward
          <5>3. r.child[s][t.parent[n]] = up
            BY <1>1, <1>12, <5>1, <5>2
          <5>4. r.parent[m] = t.parent[n]
            BY <1>2, <3>2
          <5>5. r.child[s][r.parent[m]] = m
            BY <3>2, <5>3, <5>4
          <5>. QED
            BY <4>2, <5>2, <5>4, <5>5
        <4>. QED
          BY <4>1, <4>2
      <3>3. CASE m = x
        BY <1>1, <1>2, <1>3, <3>3
      <3>4. CASE m \notin {n, up, x}
        <4>1. r.parent[m] = t.parent[m]
          BY <1>2, <1>3, <3>4
        <4>2. CASE t.parent[m] = Nil
          <5>1. m = t.root
            BY <4>2 DEF Shape, Upward
          <5>. QED
            BY <1>2, <1>3, <3>4, <4>1, <4>2, <5>1
        <4>3. CASE t.parent[m] # Nil
          <5>1. PICK s \in Sides : t.child[s][t.parent[m]] = m
            BY <4>3 DEF Shape, Upward
          <5>2. t.parent[m] \in P
            BY <4>3 DEF Shape, Upward
          <5>3. CASE t.parent[m] = n
            <6>1. m = c
              BY <1>1, <3>4, <5>1, <5>3 DEF c, up
            <6>. QED
              BY <1>1, <1>2, <4>1, <5>2, <5>3, <6>1
          <5>4. CASE t.parent[m] = up
            <6>1. m = d
              BY <1>1, <3>4, <5>1, <5>4 DEF d, x
            <6>. QED
              BY <1>1, <1>2, <4>1, <5>2, <5>4, <6>1
          <5>5. CASE t.parent[m] \notin {n, up}
            <6>1. r.child[s][t.parent[m]] = m
              BY <1>12, <3>4, <5>1, <5>2, <5>5
            <6>2. r.child[s][r.parent[m]] = m
              BY <4>1, <6>1
            <6>. QED
              BY <4>1, <4>3, <5>2, <6>2
          <5>. QED
            BY <5>3, <5>4, <5>5
        <4>. QED
          BY <4>2, <4>3
      <3>. QED
        BY <3>1, <3>2, <3>3, <3>4
    <2>. QED
      BY <2>1 DEF Upward
  <1>18. Nested(r, P, b)
    <2>0. \A m \in P : \A k \in below[m] :
            below[k] \subseteq below[m] /\ (k # m => t.parent[k] \in below[m])
      BY DEF Shape, Nested
    <2>1. /\ \A k \in below[c] : /\ k \in P \ {n, up, x} /\ below[k] \subseteq below[c]
                                 /\ k # c => t.parent[k] \in below[c]
          /\ \A k \in below[x] : /\ k \in P \ {n, up} /\ below[k] \subseteq below[x]
                                 /\ k # x => t.parent[k] \in below[x]
      <3>1. x # Nil => x \in below[x]
        BY <1>1, <1>3
      <3>2. (below[c] # {} => c \in P) /\ (below[x] # {} => x \in P)
        BY <1>1, <1>3
      <3>. QED
        BY <1>3, <1>6, <1>7, <2>0, <3>1, <3>2
    <2>2. ASSUME NEW m \in P, NEW k \in b[m]
          PROVE  b[k] \subseteq b[m] /\ (k # m => r.parent[k] \in b[m])
      <3>1. CASE m = n
        <4>1. CASE k = n
          BY <3>1, <4>1
        <4>2. CASE k \in below[c]
          <5>1. b[k] = below[k] /\ r.parent[k] = t.parent[k]
            BY <1>2, <1>3, <1>10, <2>1, <4>2
          <5>2. k = c => r.parent[k] = n
            BY <1>1, <1>3, <2>1, <4>2, <5>1
          <5>. QED
            BY <1>10, <2>1, <3>1, <4>2, <5>1, <5>2
        <4>3. CASE k \in below[x]
          <5>1. b[k] = below[k] /\ (k # x => r.parent[k] = t.parent[k])
            BY <1>2, <1>3, <1>10, <2>1, <4>3
          <5>2. k = x => r.parent[k] = n
            BY <1>2, <1>3, <2>1, <4>3
          <5>. QED
            BY <1>10, <2>1, <3>1, <4>3, <5>1, <5>2
        <4>. QED
          BY <1>10, <2>2, <3>1, <4>1, <4>2, <4>3
      <3>2. CASE m = up
        <4>1. k \in below[n] /\ b[m] = below[n] /\ k \in P
          BY <1>6, <1>10, <2>2, <3>2
        <4>2. CASE k = up
          BY <3>2, <4>2
        <4>3. CASE k = n
          BY <1>2, <1>4, <1>3, <1>1, <1>10, <4>1, <4>3
        <4>4. CASE k \notin {n, up}
          <5>1. b[k] = below[k] /\ below[k] \subseteq below[n] /\ t.parent[k] \in below[n]
            BY <1>3, <1>10, <2>0, <4>1, <4>4
          <5>2. r.parent[k] = t.parent[k] \/ r.parent[k] = n
            BY <1>2, <1>3, <4>1, <4>4
          <5>. QED
            BY <1>3, <4>1, <5>1, <5>2
        <4>. QED
          BY <4>2, <4>3, <4>4
      <3>3. CASE m \notin {n, up}
        <4>1. /\ b[m] = below[m] /\ k \in below[m] /\ k \in P /\ k \in Places
              /\ below[k] \subseteq below[m] /\ (k # m => t.parent[k] \in below[m])
          BY <1>3, <1>10, <2>0, <2>2, <3>3
        <4>2. n \in below[m] => /\ below[n] \subseteq below[m] /\ up \in below[m]
                                /\ t.parent[n] \in below[m] /\ b[n] \subseteq below[m]
          <5>1. b[n] \subseteq below[n] /\ up \in below[n]
            BY <1>1, <1>3, <1>4, <1>10
          <5>. QED
            BY <2>0, <3>3, <5>1
        <4>3. up \in below[m] => n \in below[m]
          BY <1>1, <2>0, <3>3
        <4>4. CASE k = n
          BY <1>2, <4>1, <4>2, <4>4
        <4>5. CASE k = up
          BY <1>2, <1>10, <4>1, <4>2, <4>3, <4>5
        <4>6. CASE k \notin {n, up}
          <5>1. b[k] = below[k]
            BY <1>10, <4>1, <4>6
          <5>2. k = x /\ k # m => r.parent[k] \in below[m]
            BY <1>1, <1>2, <1>3, <4>1, <4>3
          <5>3. k # x => r.parent[k] = t.parent[k]
            BY <1>2, <4>1, <4>6
          <5>. QED
            BY <4>1, <5>1, <5>2, <5>3
        <4>. QED
          BY <4>4, <4>5, <4>6
      <3>. QED
        BY <3>1, <3>2, <3>3
    <2>. QED
      BY <2>2 DEF Nested
  <1>19. Cleared(r, P)
    <2>1. /\ \A k \in Places \ P : \A s \in Sides : t.child[s][k] = Nil
          /\ \A k \in Keys \ P : t.parent[k] = Nil
      BY DEF Shape, Cleared
    <2>2. ASSUME NEW k \in Places \ P, NEW s \in Sides PROVE r.child[s][k] = Nil
      BY <1>1, <1>2, <2>1
    <2>3. ASSUME NEW k \in Keys \ P PROVE r.parent[k] = Nil
      <3>1. k \in Places /\ k # Nil
        BY KeysAreNumbers DEF Places
      <3>. QED
        BY <1>1, <1>2, <2>1, <3>1
    <2>. QED
      BY <2>2, <2>3 DEF Cleared
  <1>20. Shape(r, P, b)
    BY <1>2, <1>3, <1>9, <1>13, <1>14, <1>15, <1>16, <1>17, <1>18, <1>19 DEF Shape
  <1>. QED
    BY SMTT(60), <1>20 DEF r

-----------------------------------------------------------------------------
(* The colors. *)

Red(col, n) == col[n] = "RED"
Blackness(col, n) == IF Red(col, n) THEN 0 ELSE 1

(* One black node is missing between n and its child c.                    *)
Gap(t, p, k, c, n) == IF p = "delete" /\ c = k /\ n = t.parent[c] THEN 1 ELSE 0

(* h[n]: how many black nodes there are on any way down from n.            *)
Heights(t, P, col, p, k, h) ==
  /\ h \in [Places -> Nat] /\ h[Nil] = 0
  /\ \A n \in P : \A s \in Sides :
       h[n] = h[t.child[s][n]] + Gap(t, p, k, t.child[s][n], n) + Blackness(col, n)

(* A rotation at n brings the red node up above it: the two change their   *)
(* colors, and a deletion is balanced elsewhere or at the other child.     *)
Recolored(t, P, n, up, side, col, col1, p, k) ==
  /\ Red(col, up) /\ Blackness(col1, n) = 0
  /\ Blackness(col1, up) = Blackness(col, n)
  /\ \A m \in P \ {n, up} : col1[m] = col[m]
  /\ (p = "delete" => k \notin {n, up})
  /\ (p = "delete" => \/ t.parent[k] \notin {n, up}
                      \/ t.parent[k] = n /\ k = t.child[side][n])

(* All that the rotation of a tree with heights asks for.                  *)
Turns(t, P, below, n, side, col, col1, p, k, h) ==
  /\ Shape(t, P, below) /\ Heights(t, P, col, p, k, h)
  /\ n \in P /\ side \in Sides /\ k \in Places
  /\ t.child[Other(side)][n] # Nil
  /\ Recolored(t, P, n, t.child[Other(side)][n], side, col, col1, p, k)

LEMMA RotatedKeepsHeights ==
  ASSUME NEW t, NEW P, NEW below, NEW n, NEW side, NEW col, NEW col1, NEW p,
         NEW k, NEW h, Turns(t, P, below, n, side, col, col1, p, k, h)
  PROVE  /\ \E g : Heights(Rotated(t, n, side), P, col1, p, k, g)
         /\ p = "delete" =>
              /\ Rotated(t, n, side).parent[k] = t.parent[k]
              /\ t.parent[k] = n => t.child[side][t.child[Other(side)][n]] # k
PROOF
  <1>. DEFINE o == Other(side)
              up == t.child[o][n]
              c == t.child[side][n]
              x == t.child[side][up]
              d == t.child[o][up]
              r == Rotated(t, n, side)
              g == [h EXCEPT ![up] = h[n], ![n] = h[up]]
  <1>0. /\ Shape(t, P, below) /\ Heights(t, P, col, p, k, h)
        /\ n \in P /\ side \in Sides /\ k \in Places /\ t.child[Other(side)][n] # Nil
        /\ Recolored(t, P, n, t.child[Other(side)][n], side, col, col1, p, k)
    BY DEF Turns
  <1>1. /\ o \in Sides /\ o # side /\ \A s \in Sides : s = side \/ s = o
        /\ n \in Places /\ n # Nil /\ t.parent[n] \in Places
        /\ up \in P /\ up \in Places /\ up # Nil /\ t.parent[up] = n
        /\ c \in P \cup {Nil} /\ x \in P \cup {Nil} /\ d \in P \cup {Nil}
        /\ c \in Places /\ x \in Places /\ d \in Places
        /\ (c # Nil => t.parent[c] = n)
        /\ (x # Nil => t.parent[x] = up)
        /\ (d # Nil => t.parent[d] = up)
        /\ n # up /\ c \notin {n, up} /\ x \notin {n, up} /\ d \notin {n, up}
        /\ (x = c => x = Nil)
        /\ (x = d => x = Nil)
        /\ t.parent[n] \notin {n, up}
    <2>1. Turn(t, P, below, n, side)
      BY <1>0, TurnFacts
    <2>. QED
      BY <2>1 DEF Turn
  <1>2. /\ r.child[side][up] = n /\ r.child[o][up] = d
        /\ r.child[side][n] = c /\ r.child[o][n] = x
        /\ \A s \in Sides : \A m \in Places \ {n, up} :
             r.child[s][m] = IF t.child[s][m] = n THEN up ELSE t.child[s][m]
        /\ r.parent[up] = t.parent[n] /\ r.parent[n] = up
        /\ (x # Nil => r.parent[x] = n)
        /\ r.parent[Nil] = t.parent[Nil]
        /\ \A m \in Places \ {n, up, x} : r.parent[m] = t.parent[m]
    BY <1>0, RotatedLinks DEF RotatedTo
  <1>3. /\ h \in [Places -> Nat] /\ h[Nil] = 0
        /\ \A m \in P : \A s \in Sides :
             h[m] = h[t.child[s][m]] + Gap(t, p, k, t.child[s][m], m) + Blackness(col, m)
    BY <1>0 DEF Heights
  <1>4. /\ Red(col, up) /\ Blackness(col1, n) = 0
        /\ Blackness(col1, up) = Blackness(col, n)
        /\ \A m \in P \ {n, up} : col1[m] = col[m]
        /\ (p = "delete" => k \notin {n, up})
        /\ (p = "delete" => t.parent[k] \notin {n, up} \/ (t.parent[k] = n /\ k = c))
    BY <1>0 DEF Recolored
  <1>5. \A s \in Sides : \A m \in P :
          /\ t.child[s][m] \in P \cup {Nil}
          /\ t.child[s][m] # Nil => t.parent[t.child[s][m]] = m
    BY <1>0 DEF Shape, Downward
  <1>6. P \subseteq Places /\ Nil \in Places /\ Nil \notin P
    BY <1>0, ShapeFacts DEF Places
  <1>. HIDE DEF o, up, c, x, d, r
  <1>7. /\ g \in [Places -> Nat] /\ g[up] = h[n] /\ g[n] = h[up]
        /\ \A m \in Places \ {n, up} : g[m] = h[m]
    BY <1>0, <1>1, <1>3
  <1>. HIDE DEF g
  <1>8. /\ h[up] = h[x] + Gap(t, p, k, x, up) /\ h[up] = h[d] + Gap(t, p, k, d, up)
        /\ h[n] = h[c] + Gap(t, p, k, c, n) + Blackness(col, n)
        /\ h[n] = h[up] + Gap(t, p, k, up, n) + Blackness(col, n)
        /\ \A m \in Places : h[m] \in Nat
        /\ Blackness(col, n) \in {0, 1}
    <2>1. /\ h[up] = h[x] + Gap(t, p, k, x, up) + Blackness(col, up)
          /\ h[up] = h[d] + Gap(t, p, k, d, up) + Blackness(col, up)
          /\ h[n] = h[c] + Gap(t, p, k, c, n) + Blackness(col, n)
          /\ h[n] = h[up] + Gap(t, p, k, up, n) + Blackness(col, n)
      BY <1>0, <1>1, <1>3 DEF x, d, c, up
    <2>2. Blackness(col, up) = 0
      BY <1>4 DEF Blackness
    <2>3. Gap(t, p, k, x, up) \in Nat /\ Gap(t, p, k, d, up) \in Nat
      BY DEF Gap
    <2>. QED
      BY SMTT(60), <1>1, <1>3, <2>1, <2>2, <2>3 DEF Blackness
  <1>9. /\ Gap(t, p, k, x, up) = 0 /\ Gap(t, p, k, d, up) = 0 /\ Gap(t, p, k, up, n) = 0
    <2>1. p = "delete" => /\ t.parent[k] # up
                          /\ ~(up = k /\ n = t.parent[k])
      BY <1>1, <1>4
    <2>. QED
      BY <2>1 DEF Gap
  <1>10. h[up] = h[x] /\ h[up] = h[d] /\ h[up] = h[c] + Gap(t, p, k, c, n)
    <2>1. Gap(t, p, k, c, n) \in {0, 1}
      BY DEF Gap
    <2>. QED
      BY <1>1, <1>8, <1>9, <2>1
  <1>11. p = "delete" /\ t.parent[k] = n => x # k
    <2>1. SUFFICES ASSUME p = "delete", t.parent[k] = n, x = k PROVE FALSE
      OBVIOUS
    <2>2. k = c
      BY <1>1, <1>4, <2>1
    <2>3. Gap(t, p, k, c, n) = 1
      BY <2>1, <2>2 DEF Gap
    <2>4. h[up] = h[k] /\ h[up] = h[k] + 1 /\ h[k] \in Nat
      BY <1>0, <1>8, <1>10, <2>1, <2>2, <2>3
    <2>. QED
      BY <2>4
  <1>12. p = "delete" => r.parent[k] = t.parent[k]
    <2>1. SUFFICES ASSUME p = "delete" PROVE r.parent[k] = t.parent[k]
      OBVIOUS
    <2>2. CASE k = Nil
      BY <1>2, <2>2
    <2>3. CASE k # Nil
      <3>1. k \notin {n, up} /\ k # x
        BY <1>1, <1>4, <2>1, <2>3
      <3>. QED
        BY <1>0, <1>2, <3>1
    <2>. QED
      BY <2>2, <2>3
  <1>13. ASSUME NEW m \in P, NEW s \in Sides
         PROVE  g[m] = g[r.child[s][m]] + Gap(r, p, k, r.child[s][m], m) + Blackness(col1, m)
    <2>1. CASE m = up /\ s = side
      <3>1. Gap(r, p, k, n, up) = 0
        BY <1>4 DEF Gap
      <3>. QED
        BY <1>1, <1>2, <1>4, <1>7, <1>8, <1>9, <2>1, <3>1
    <2>2. CASE m = up /\ s = o
      <3>1. Gap(r, p, k, d, up) = 0
        BY <1>1, <1>4, <1>12 DEF Gap
      <3>2. g[d] = h[d] /\ g[up] = h[n]
        BY <1>1, <1>7
      <3>. QED
        BY ZenonT(60), <1>1, <1>2, <1>4, <1>8, <1>9, <1>10, <2>2, <3>1, <3>2
    <2>3. CASE m = n /\ s = side
      <3>1. Gap(r, p, k, c, n) = Gap(t, p, k, c, n)
        <4>1. c = k => r.parent[c] = t.parent[c] \/ p # "delete"
          BY <1>12
        <4>. QED
          BY <4>1 DEF Gap
      <3>2. g[c] = h[c] /\ g[n] = h[up]
        BY <1>1, <1>7
      <3>3. Gap(t, p, k, c, n) \in {0, 1}
        BY DEF Gap
      <3>. QED
        BY <1>1, <1>2, <1>4, <1>8, <1>10, <2>3, <3>1, <3>2, <3>3
    <2>4. CASE m = n /\ s = o
      <3>1. Gap(r, p, k, x, n) = 0
        <4>1. SUFFICES ASSUME p = "delete", x = k, n = r.parent[k] PROVE FALSE
          BY DEF Gap
        <4>. QED
          BY <1>11, <1>12, <4>1
      <3>2. g[x] = h[x] /\ g[n] = h[up]
        BY <1>1, <1>7
      <3>. QED
        BY <1>1, <1>2, <1>4, <1>8, <1>10, <2>4, <3>1, <3>2
    <2>5. CASE m \notin {n, up}
      <3>. DEFINE e == t.child[s][m]
      <3>1. /\ r.child[s][m] = IF e = n THEN up ELSE e
            /\ e # up /\ g[m] = h[m] /\ Blackness(col1, m) = Blackness(col, m)
        BY <1>1, <1>2, <1>4, <1>5, <1>6, <1>7, <2>5 DEF Blackness, Red
      <3>2. h[m] = h[e] + Gap(t, p, k, e, m) + Blackness(col, m)
        BY <1>3
      <3>3. CASE e = n
        <4>1. Gap(t, p, k, e, m) = 0 /\ Gap(r, p, k, up, m) = 0
          BY <1>4, <3>3 DEF Gap
        <4>. QED
          BY <1>7, <3>1, <3>2, <3>3, <4>1
      <3>4. CASE e # n
        <4>1. e \in Places /\ g[e] = h[e]
          BY <1>5, <1>6, <1>7, <3>1, <3>4
        <4>2. Gap(r, p, k, e, m) = Gap(t, p, k, e, m)
          BY <1>12 DEF Gap
        <4>. QED
          BY <3>1, <3>2, <3>4, <4>1, <4>2
      <3>. QED
        BY <3>3, <3>4
    <2>. QED
      BY <1>1, <2>1, <2>2, <2>3, <2>4, <2>5
  <1>14. g[Nil] = 0
    BY <1>1, <1>3, <1>6, <1>7
  <1>15. Heights(r, P, col1, p, k, g)
    BY <1>7, <1>13, <1>14 DEF Heights
  <1>. QED
    BY SMTT(60), <1>11, <1>12, <1>15 DEF r, x, up, o

(* No red node has a red parent, but where a balancing is.                 *)
RedRule(t, P, col, p, k) ==
  \A m \in P : Red(col, m) /\ Red(col, t.parent[m]) =>
    \/ p = "insert" /\ m = k
    \/ p = "delete" /\ k # t.root /\ k \in {m, t.parent[m]}

RootRule(t, col, p, k) == Red(col, t.root) => p = "insert" /\ t.root = k

(* Where the balancing is: Insert is at a red node; RedBlackBalancing at   *)
(* the root or at one child of its parent, that of Nil_ included.          *)
CurrRule(t, P, col, p, k) ==
  /\ p = "insert" => k \in P /\ Red(col, k)
  /\ p = "delete" =>
       \/ k = t.root
       \/ /\ t.parent[k] \in P
          /\ \E s \in Sides : /\ t.child[s][t.parent[k]] = k
                              /\ t.child[Other(s)][t.parent[k]] # k

Colored(t, P, col, p, k) ==
  /\ col \in [Places -> {"BLACK", "RED"}] /\ col[Nil] = "BLACK"
  /\ p \in {"idle", "insert", "delete"} /\ k \in Places
  /\ \E h : Heights(t, P, col, p, k, h)
  /\ RedRule(t, P, col, p, k) /\ RootRule(t, col, p, k) /\ CurrRule(t, P, col, p, k)

RBInv == BstInv /\ Colored(tree, Present, color, pc, curr)

(* RBInv after a step that places and removes no node.                     *)
LEMMA BalancingStep ==
  ASSUME RBInv, UNCHANGED << count, nodes, returned >>,
         NEW b, Shape(tree', Present, b), Colored(tree', Present, color', pc', curr')
  PROVE  RBInv'
PROOF
  <1>1. count \in [Keys -> 0..MaxSame] /\ returned \in 0..MaxSame /\ nodes = Cardinality(Present)
    BY DEF RBInv, BstInv, TreeTypeOK
  <1>2. Present = { k \in Keys : count'[k] > 0 } /\ Present' = Present
    BY DEF Present
  <1>3. BstInv'
    BY <1>1, <1>2, BstInvStep
  <1>. QED
    BY <1>2, <1>3 DEF RBInv

LEMMA SideOfFacts ==
  ASSUME NEW P, NEW below, Shape(tree, P, below), NEW n \in P, tree.parent[n] # Nil
  PROVE  /\ SideOf(n) \in Sides /\ tree.parent[n] \in P
         /\ tree.child[SideOf(n)][tree.parent[n]] = n
         /\ tree.child[Other(SideOf(n))][tree.parent[n]] # n
         /\ tree.parent[n] # n /\ tree.parent[tree.parent[n]] # n
PROOF
  <1>. DEFINE a == tree.parent[n]
  <1>1. a \in P /\ \E s \in Sides : tree.child[s][a] = n
    BY DEF Shape, Upward
  <1>2. n \in Keys /\ a \in Keys /\ n # Nil
    BY <1>1, ShapeFacts
  <1>. HIDE DEF a
  <1>3. SideOf(n) \in Sides /\ tree.child[SideOf(n)][a] = n
    BY <1>1, SideFacts DEF SideOf, a
  <1>4. \A s \in Sides : tree.child[s][a] = n => Lies(s, n, a) /\ n # a /\ n \in below[a]
    BY <1>1, <1>2, ChildFacts
  <1>5. tree.child[Other(SideOf(n))][a] # n
    BY <1>2, <1>3, <1>4, LiesFacts, SideFacts
  <1>6. tree.parent[a] # n
    <2>1. SUFFICES ASSUME tree.parent[a] = n PROVE FALSE
      OBVIOUS
    <2>2. PICK s \in Sides : tree.child[s][n] = a
      BY <1>1, <1>2, <2>1 DEF Shape, Upward
    <2>3. a # Nil
      BY <1>1, ShapeFacts
    <2>4. below[a] \subseteq below[n] \ {n}
      BY <2>2, <2>3, ChildFacts
    <2>. QED
      BY <1>3, <1>4, <2>4
  <1>. QED
    BY <1>1, <1>3, <1>4, <1>5, <1>6 DEF a

-----------------------------------------------------------------------------
(* Insert: the loop. *)

(* Where a round of the loop finds itself.                                 *)
LEMMA InsertFacts ==
  ASSUME RBInv, InsertRound, NEW below, Shape(tree, Present, below)
  PROVE  LET a == tree.parent[curr]
             side == SideOf(a)
         IN /\ pc = "insert" /\ curr \in Present /\ a \in Present /\ Grand \in Present
            /\ Red(color, curr) /\ Red(color, a) /\ ~Red(color, Grand)
            /\ curr # a /\ a # Grand /\ curr # Grand
            /\ side \in Sides /\ tree.child[side][Grand] = a
            /\ Uncle = tree.child[Other(side)][Grand] /\ Uncle # a
            /\ SideOf(curr) \in Sides /\ tree.child[SideOf(curr)][a] = curr
            /\ tree.child[Other(SideOf(curr))][a] # curr
            /\ a # tree.root /\ curr # tree.root /\ ~Red(color, tree.root)
            /\ \A m \in Present : m # curr => ~(Red(color, m) /\ Red(color, tree.parent[m]))
PROOF
  <1>. DEFINE a == tree.parent[curr]
              side == SideOf(a)
  <1>1. /\ pc = "insert" /\ Red(color, a) /\ curr \in Present /\ Red(color, curr)
        /\ color[Nil] = "BLACK"
        /\ \A m \in Present : m # curr => ~(Red(color, m) /\ Red(color, tree.parent[m]))
    BY DEF InsertRound, IsRed, RBInv, Colored, CurrRule, Red, RedRule
  <1>2. a # Nil /\ Nil \notin Present
    BY <1>1, ShapeFacts DEF Red
  <1>3. /\ a \in Present /\ curr # a /\ tree.parent[a] # curr
        /\ SideOf(curr) \in Sides /\ tree.child[SideOf(curr)][a] = curr
        /\ tree.child[Other(SideOf(curr))][a] # curr
    BY <1>1, <1>2, SideOfFacts
  <1>4. tree.root # Nil => tree.parent[tree.root] = Nil
    BY DEF Shape, AtTop
  <1>5. curr # tree.root
    BY <1>1, <1>2, <1>4
  <1>6. ~Red(color, tree.root)
    BY <1>5 DEF RBInv, Colored, RootRule
  <1>7. a # tree.root
    BY <1>1, <1>6
  <1>8. tree.parent[a] # Nil
    BY <1>3, <1>7 DEF Shape, Upward
  <1>9. /\ Grand \in Present /\ side \in Sides /\ tree.child[side][Grand] = a
        /\ tree.child[Other(side)][Grand] # a /\ Grand # a
    BY <1>3, <1>8, SideOfFacts DEF Grand
  <1>10. ~Red(color, Grand)
    BY <1>1, <1>3 DEF Grand
  <1>11. Grand # curr
    BY <1>3 DEF Grand
  <1>. QED
    BY <1>1, <1>3, <1>5, <1>6, <1>7, <1>9, <1>10, <1>11 DEF Uncle

LEMMA InsertRecolorKeeps == RBInv /\ InsertRecolor => RBInv'
PROOF
  <1>. SUFFICES ASSUME RBInv, InsertRecolor PROVE RBInv'
    OBVIOUS
  <1>. DEFINE a == tree.parent[curr]
              side == SideOf(a)
              o == Other(side)
              g == Grand
              u == Uncle
              P == Present
  <1>1. PICK below : Shape(tree, P, below)
    BY DEF RBInv, BstInv
  <1>2. /\ InsertRound /\ Red(color, u)
        /\ color' = [color EXCEPT ![a] = "BLACK", ![u] = "BLACK", ![g] = "RED"]
        /\ curr' = g /\ pc' = pc /\ tree' = tree
        /\ UNCHANGED << count, nodes, returned >>
    BY DEF InsertRecolor, IsRed, Red, treeVars
  <1>3. /\ pc = "insert" /\ curr \in P /\ a \in P /\ g \in P
        /\ Red(color, curr) /\ Red(color, a) /\ ~Red(color, g)
        /\ curr # a /\ a # g /\ curr # g
        /\ side \in Sides /\ tree.child[side][g] = a
        /\ u = tree.child[o][g] /\ u # a
        /\ a # tree.root /\ curr # tree.root /\ ~Red(color, tree.root)
        /\ \A m \in P : m # curr => ~(Red(color, m) /\ Red(color, tree.parent[m]))
    BY <1>1, <1>2, InsertFacts
  <1>4. /\ color \in [Places -> {"BLACK", "RED"}] /\ color[Nil] = "BLACK"
    BY DEF RBInv, Colored
  <1>5. PICK h : Heights(tree, P, color, pc, curr, h)
    BY DEF RBInv, Colored
  <1>6. /\ P \subseteq Places /\ Nil \in Places /\ Nil \notin P
        /\ o \in Sides /\ \A s \in Sides : s = side \/ s = o
    BY SMTT(60), <1>1, <1>3, ShapeFacts, SideFacts DEF Places
  <1>7. /\ u \in P /\ tree.parent[u] = g /\ tree.parent[a] = g /\ u # g
    <2>1. u # Nil
      BY <1>2, <1>4 DEF Red
    <2>2. /\ g \in P /\ o \in Sides /\ side \in Sides /\ a # Nil
          /\ tree.child[o][g] = u /\ tree.child[side][g] = a
      BY <1>3, <1>6
    <2>. HIDE DEF a, side, o, g, u, P
    <2>. QED
      BY <1>1, <2>1, <2>2, ChildFacts
  <1>8. \A m \in P : \A s \in Sides : tree.child[s][m] # Nil =>
           tree.child[s][m] \in P /\ tree.parent[tree.child[s][m]] = m
    BY <1>1 DEF Shape, Downward
  <1>9. \A m \in P : tree.parent[m] = g => m \in {a, u}
    <2>1. ASSUME NEW m \in P, tree.parent[m] = g PROVE m \in {a, u}
      <3>1. PICK s \in Sides : tree.child[s][g] = m
        BY <1>1, <1>3, <1>6, <2>1 DEF Shape, Upward
      <3>. QED
        BY <1>3, <1>6, <3>1
    <2>. QED
      BY <2>1
  <1>10. PICK pa \in Places : pa = tree.parent[tree.root]
    BY <1>1 DEF Shape, Trees
  <1>. DEFINE h1 == [h EXCEPT ![a] = h[a] + 1, ![u] = h[u] + 1]
  <1>. HIDE DEF a, side, o, g, u, P
  <1>11. /\ color' \in [Places -> {"BLACK", "RED"}] /\ color'[Nil] = "BLACK"
         /\ \A m \in Places : color'[m] = IF m = g THEN "RED"
                                          ELSE IF m \in {a, u} THEN "BLACK" ELSE color[m]
    BY <1>2, <1>3, <1>4, <1>6, <1>7
  <1>12. /\ h \in [Places -> Nat] /\ h[Nil] = 0
         /\ \A n \in P : \A s \in Sides :
              h[n] = h[tree.child[s][n]] + Blackness(color, n)
    <2>1. \A c, n : Gap(tree, pc, curr, c, n) = 0
      BY <1>3 DEF Gap
    <2>2. /\ h \in [Places -> Nat] /\ h[Nil] = 0
          /\ \A n \in P : \A s \in Sides :
               h[n] = h[tree.child[s][n]] + 0 + Blackness(color, n)
      BY <1>5, <2>1 DEF Heights
    <2>3. \A m \in P : \A s \in Sides : tree.child[s][m] \in Places
      BY <1>6, <1>8
    <2>. QED
      BY <2>2, <2>3
  <1>13. /\ h1 \in [Places -> Nat] /\ h1[a] = h[a] + 1 /\ h1[u] = h[u] + 1
         /\ \A m \in Places \ {a, u} : h1[m] = h[m]
    BY <1>3, <1>6, <1>7, <1>12
  <1>. HIDE DEF h1
  <1>14. ASSUME NEW n \in P, NEW s \in Sides
         PROVE  h1[n] = h1[tree.child[s][n]] + Gap(tree, pc', curr', tree.child[s][n], n)
                          + Blackness(color', n)
    <2>. DEFINE e == tree.child[s][n]
    <2>1. Gap(tree, pc', curr', e, n) = 0
      BY <1>2, <1>3 DEF Gap
    <2>2. h[n] = h[e] + Blackness(color, n) /\ e \in P \cup {Nil} /\ e \in Places
      BY <1>6, <1>8, <1>12
    <2>3. CASE n = g
      <3>1. e \in {a, u}
        BY <1>3, <1>6, <2>3
      <3>2. Blackness(color, n) = 1 /\ Blackness(color', n) = 0
        BY <1>3, <1>6, <1>11, <2>3 DEF Blackness, Red
      <3>3. h1[n] = h[n] /\ h1[e] = h[e] + 1
        BY <1>3, <1>6, <1>7, <1>13, <2>3, <3>1
      <3>. QED
        BY <1>12, <2>1, <2>2, <3>2, <3>3
    <2>4. CASE n \in {a, u}
      <3>1. e \notin {a, u}
        <4>1. e # Nil => tree.parent[e] # g
          BY <1>3, <1>7, <1>8, <2>4
        <4>. QED
          BY <1>3, <1>6, <1>7, <4>1
      <3>2. Blackness(color, n) = 0 /\ Blackness(color', n) = 1
        BY <1>2, <1>3, <1>6, <1>7, <1>11, <2>4 DEF Blackness, Red
      <3>3. h1[n] = h[n] + 1 /\ h1[e] = h[e]
        BY <1>13, <2>2, <2>4, <3>1
      <3>. QED
        BY <1>12, <2>1, <2>2, <3>2, <3>3
    <2>5. CASE n \notin {a, u, g}
      <3>1. e \notin {a, u}
        <4>1. e # Nil => tree.parent[e] # g
          BY <1>8, <2>5
        <4>. QED
          BY <1>3, <1>6, <1>7, <4>1
      <3>2. Blackness(color, n) = Blackness(color', n) /\ Blackness(color, n) \in {0, 1}
        BY <1>6, <1>11, <2>5 DEF Blackness, Red
      <3>3. h1[n] = h[n] /\ h1[e] = h[e]
        BY <1>6, <1>13, <2>2, <2>5, <3>1
      <3>. QED
        BY <1>12, <2>1, <2>2, <3>2, <3>3
    <2>. QED
      BY <2>3, <2>4, <2>5
  <1>15. h1[Nil] = 0
    BY <1>3, <1>6, <1>7, <1>12, <1>13
  <1>16. Heights(tree, P, color', pc', curr', h1)
    BY <1>13, <1>14, <1>15 DEF Heights
  <1>17. RedRule(tree, P, color', pc', curr')
    <2>1. ASSUME NEW m \in P, Red(color', m), Red(color', tree.parent[m]), m # g PROVE FALSE
      <3>1. m \notin {a, u} /\ Red(color, m)
        BY <1>6, <1>11, <2>1 DEF Red
      <3>2. tree.parent[m] # g
        BY <1>9, <3>1
      <3>3. tree.parent[m] \in Places
        BY <1>1, <1>6 DEF Shape, Trees
      <3>4. tree.parent[m] \notin {a, u} /\ Red(color, tree.parent[m])
        BY <1>11, <2>1, <3>2, <3>3 DEF Red
      <3>5. m = curr
        BY <1>3, <3>1, <3>4
      <3>. QED
        BY <3>4, <3>5 DEF a
    <2>. QED
      BY <1>2, <1>3, <2>1 DEF RedRule
  <1>18. RootRule(tree, color', pc', curr')
    <2>1. tree.root \in Places
      BY <1>1 DEF Shape, Trees
    <2>. QED
      BY <1>2, <1>3, <1>11, <2>1 DEF RootRule, Red
  <1>19. CurrRule(tree, P, color', pc', curr') /\ curr' \in Places
    BY <1>2, <1>3, <1>6, <1>11 DEF CurrRule, Red
  <1>20. Colored(tree', P, color', pc', curr')
    BY <1>2, <1>3, <1>11, <1>16, <1>17, <1>18, <1>19 DEF Colored
  <1>. QED
    BY <1>1, <1>2, <1>20, BalancingStep DEF P

(* Without a missing node, curr does not count.                            *)
LEMMA HeightsOtherwise ==
  ASSUME NEW t, NEW P, NEW col, NEW p, NEW k, NEW q, NEW j,
         p # "delete", q # "delete", \E h : Heights(t, P, col, p, k, h)
  PROVE  \E h : Heights(t, P, col, q, j, h)
PROOF
  <1>1. PICK h : Heights(t, P, col, p, k, h)
    OBVIOUS
  <1>2. \A c, n : Gap(t, p, k, c, n) = Gap(t, q, j, c, n)
    BY DEF Gap
  <1>3. Heights(t, P, col, q, j, h)
    BY <1>1, <1>2 DEF Heights
  <1>. QED
    BY <1>3

LEMMA InsertInnerKeeps == RBInv /\ InsertInner => RBInv'
PROOF
  <1>. SUFFICES ASSUME RBInv, InsertInner PROVE RBInv'
    OBVIOUS
  <1>. DEFINE a == tree.parent[curr]
              side == SideOf(a)
              o == Other(side)
              g == Grand
              P == Present
              x == tree.child[side][curr]
  <1>1. PICK below : Shape(tree, P, below)
    BY DEF RBInv, BstInv
  <1>2. /\ InsertRound /\ SideOf(curr) # side
        /\ tree' = Rotated(tree, a, side) /\ curr' = tree'.child[side][curr]
        /\ pc' = pc /\ color' = color
        /\ UNCHANGED << count, nodes, returned >>
    BY DEF InsertInner
  <1>3. /\ pc = "insert" /\ curr \in P /\ a \in P /\ g \in P
        /\ Red(color, curr) /\ Red(color, a) /\ ~Red(color, g)
        /\ curr # a /\ side \in Sides
        /\ SideOf(curr) \in Sides /\ tree.child[SideOf(curr)][a] = curr
        /\ a # tree.root /\ ~Red(color, tree.root)
        /\ \A m \in P : m # curr => ~(Red(color, m) /\ Red(color, tree.parent[m]))
    BY <1>1, <1>2, InsertFacts
  <1>4. /\ color \in [Places -> {"BLACK", "RED"}] /\ color[Nil] = "BLACK"
    BY DEF RBInv, Colored
  <1>5. PICK h : Heights(tree, P, color, pc, curr, h)
    BY DEF RBInv, Colored
  <1>6. /\ P \subseteq Places /\ Nil \in Places /\ Nil \notin P /\ tree.parent[a] = g
    BY <1>1, ShapeFacts DEF Places, Grand
  <1>7. SideOf(curr) = o
    BY <1>2, <1>3, SideFacts
  <1>8. tree.child[o][a] = curr /\ curr # Nil
    BY <1>3, <1>6, <1>7
  <1>9. RotatedTo(tree', tree, a, side)
    BY <1>1, <1>2, <1>3, <1>8, RotatedLinks
  <1>10. /\ tree'.root = tree.root /\ curr' = a
         /\ tree'.parent[curr] = g /\ tree'.parent[a] = curr
         /\ x # Nil => tree'.parent[x] = a
         /\ \A m \in Places \ {a, curr, x} : tree'.parent[m] = tree.parent[m]
    BY Zenon, <1>2, <1>3, <1>6, <1>8, <1>9 DEF RotatedTo
  <1>11. x # Nil => tree.parent[x] = curr /\ x # curr
    BY <1>1, <1>3, ChildFacts
  <1>12. \E b : Shape(tree', P, b)
    BY <1>1, <1>2, <1>3, <1>8, RotatedKeepsShape
  <1>13. \E i : Heights(tree', P, color', pc', curr', i)
    <2>1. Blackness(color, a) = 0 /\ Blackness(color, curr) = 0
      BY <1>3 DEF Blackness
    <2>2. \E i : Heights(Rotated(tree, a, side), P, color, pc, curr, i)
      <3>1. /\ pc # "delete" /\ a \in P /\ side \in Sides /\ curr \in Places
            /\ Red(color, curr) /\ curr # Nil /\ tree.child[Other(side)][a] = curr
        BY <1>3, <1>6, <1>8
      <3>2. Recolored(tree, P, a, curr, side, color, color, pc, curr)
        BY <2>1, <3>1 DEF Recolored
      <3>. HIDE DEF a, side, P
      <3>. QED
        <4>1. Turns(tree, P, below, a, side, color, color, pc, curr, h)
          BY <1>1, <1>5, <3>1, <3>2 DEF Turns
        <4>. QED
          BY <4>1, RotatedKeepsHeights
    <2>3. \E i : Heights(tree', P, color', pc, curr, i)
      BY <1>2, <2>2
    <2>4. pc # "delete" /\ pc' # "delete"
      BY <1>2, <1>3
    <2>. QED
      BY <2>3, <2>4, HeightsOtherwise
  <1>. HIDE DEF a, side, o, g, P
  <1>14. RedRule(tree', P, color', pc', curr')
    <2>1. ASSUME NEW m \in P, Red(color, m), Red(color, tree'.parent[m]), m # a PROVE FALSE
      <3>1. m # curr
        BY <1>3, <1>10, <2>1
      <3>2. m # x
        BY <1>3, <1>6, <1>11, <2>1
      <3>. QED
        BY <1>3, <1>6, <1>10, <2>1, <3>1, <3>2
    <2>. QED
      BY <1>2, <1>3, <1>10, <2>1 DEF RedRule
  <1>15. RootRule(tree', color', pc', curr')
    BY <1>2, <1>3, <1>10 DEF RootRule
  <1>16. CurrRule(tree', P, color', pc', curr') /\ curr' \in Places
    BY <1>2, <1>3, <1>6, <1>10 DEF CurrRule
  <1>17. Colored(tree', P, color', pc', curr')
    BY <1>2, <1>3, <1>4, <1>13, <1>14, <1>15, <1>16 DEF Colored
  <1>. QED
    BY <1>2, <1>12, <1>17, BalancingStep DEF P

LEMMA InsertOuterKeeps == RBInv /\ InsertOuter => RBInv'
PROOF
  <1>. SUFFICES ASSUME RBInv, InsertOuter PROVE RBInv'
    OBVIOUS
  <1>. DEFINE a == tree.parent[curr]
              side == SideOf(a)
              o == Other(side)
              g == Grand
              P == Present
              x == tree.child[o][a]
              u == Uncle
  <1>1. PICK below : Shape(tree, P, below)
    BY DEF RBInv, BstInv
  <1>2. /\ InsertRound /\ ~Red(color, u) /\ SideOf(curr) = side
        /\ color' = [color EXCEPT ![a] = "BLACK", ![g] = "RED"]
        /\ tree' = Rotated(tree, g, o) /\ curr' = curr /\ pc' = pc
        /\ UNCHANGED << count, nodes, returned >>
    BY DEF InsertOuter, IsRed, Red
  <1>3. /\ pc = "insert" /\ curr \in P /\ a \in P /\ g \in P
        /\ Red(color, curr) /\ Red(color, a) /\ ~Red(color, g)
        /\ curr # a /\ a # g /\ curr # g
        /\ side \in Sides /\ tree.child[side][g] = a /\ u = tree.child[o][g]
        /\ tree.child[Other(SideOf(curr))][a] # curr
        /\ ~Red(color, tree.root)
        /\ \A m \in P : m # curr => ~(Red(color, m) /\ Red(color, tree.parent[m]))
    BY <1>1, <1>2, InsertFacts
  <1>4. /\ color \in [Places -> {"BLACK", "RED"}] /\ color[Nil] = "BLACK"
    BY DEF RBInv, Colored
  <1>5. PICK h : Heights(tree, P, color, pc, curr, h)
    BY DEF RBInv, Colored
  <1>6. /\ P \subseteq Places /\ Nil \in Places /\ Nil \notin P /\ tree.parent[a] = g
    BY <1>1, ShapeFacts DEF Places, Grand
  <1>7. o \in Sides /\ Other(o) = side /\ \A s \in Sides : s \in {side, o}
    BY <1>3, SideFacts
  <1>8. a # Nil /\ x # curr
    BY <1>2, <1>3, <1>6
  <1>9. RotatedTo(tree', tree, g, o)
    BY <1>1, <1>2, <1>3, <1>7, <1>8, RotatedLinks
  <1>10. /\ tree'.root = IF tree.root = g THEN a ELSE tree.root
         /\ tree'.parent[g] = a
         /\ x # Nil => tree'.parent[x] = g
         /\ \A m \in Places \ {a, g, x} : tree'.parent[m] = tree.parent[m]
    BY ZenonT(60), <1>2, <1>3, <1>7, <1>9 DEF RotatedTo
  <1>11. x # Nil => tree.parent[x] = a
    BY <1>1, <1>3, <1>7, ChildFacts
  <1>12. \E b : Shape(tree', P, b)
    BY <1>1, <1>2, <1>3, <1>7, <1>8, RotatedKeepsShape
  <1>13. \A m \in P : tree.parent[m] = g => m \in {a, u}
    <2>1. ASSUME NEW m \in P, tree.parent[m] = g PROVE m \in {a, u}
      <3>1. PICK s \in Sides : tree.child[s][g] = m
        BY <1>1, <1>3, <1>6, <2>1 DEF Shape, Upward
      <3>. QED
        BY <1>3, <1>7, <3>1
    <2>. QED
      BY <2>1
  <1>14. /\ color' \in [Places -> {"BLACK", "RED"}] /\ color'[Nil] = "BLACK"
         /\ \A m \in Places : color'[m] = IF m = g THEN "RED"
                                          ELSE IF m = a THEN "BLACK" ELSE color[m]
    BY <1>2, <1>3, <1>4, <1>6
  <1>15. \E i : Heights(tree', P, color', pc', curr', i)
    <2>1. /\ Blackness(color', g) = 0 /\ Blackness(color', a) = Blackness(color, g)
          /\ \A m \in P \ {g, a} : color'[m] = color[m]
      BY <1>3, <1>6, <1>14 DEF Blackness, Red
    <2>2. pc # "delete"
      BY <1>3
    <2>3. tree.child[Other(o)][g] = a
      BY <1>3, <1>7
    <2>4. curr \in Places
      BY <1>3, <1>6
    <2>. HIDE DEF a, side, o, g, P, u, x
    <2>5. \E i : Heights(Rotated(tree, g, o), P, color', pc, curr, i)
      <3>1. g \in P /\ o \in Sides /\ Red(color, a) /\ a # Nil
        BY <1>3, <1>7, <1>8
      <3>2. Recolored(tree, P, g, a, o, color, color', pc, curr)
        BY <2>1, <2>2, <3>1 DEF Recolored
      <3>. QED
        <4>1. Turns(tree, P, below, g, o, color, color', pc, curr, h)
          BY <1>1, <1>5, <2>3, <2>4, <3>1, <3>2 DEF Turns
        <4>. QED
          BY <4>1, RotatedKeepsHeights
    <2>. QED
      BY <1>2, <2>5
  <1>. HIDE DEF side, o, g, P, u, x
  <1>16. RedRule(tree', P, color', pc', curr')
    <2>1. ASSUME NEW m \in P, Red(color', m), Red(color', tree'.parent[m]) PROVE FALSE
      <3>1. m # a /\ m \in Places /\ a \in Places
        BY <1>3, <1>6, <1>14, <2>1 DEF Red
      <3>2. m # g
        BY <1>3, <1>10, <1>14, <2>1, <3>1 DEF Red
      <3>3. Red(color, m)
        BY <1>14, <2>1, <3>1, <3>2 DEF Red
      <3>4. m # x
        BY <1>3, <1>6, <1>8, <1>11, <3>3
      <3>5. tree'.parent[m] = tree.parent[m] /\ tree.parent[m] \in Places
        BY <1>1, <1>10, <3>1, <3>2, <3>4 DEF Shape, Trees
      <3>6. tree.parent[m] # g
        BY <1>2, <1>13, <3>1, <3>3
      <3>7. tree.parent[m] # a /\ Red(color, tree.parent[m])
        BY <1>3, <1>14, <2>1, <3>1, <3>5, <3>6 DEF Red
      <3>. QED
        BY <1>3, <3>3, <3>7
    <2>. QED
      BY <2>1 DEF RedRule
  <1>17. RootRule(tree', color', pc', curr')
    <2>1. tree.root \in Places /\ a \in Places
      BY <1>1, <1>3, <1>6 DEF Shape, Trees
    <2>. QED
      BY <1>3, <1>10, <1>14, <2>1 DEF RootRule, Red
  <1>18. CurrRule(tree', P, color', pc', curr') /\ curr' \in Places
    BY <1>2, <1>3, <1>6, <1>14 DEF CurrRule, Red
  <1>19. Colored(tree', P, color', pc', curr')
    BY <1>2, <1>3, <1>14, <1>15, <1>16, <1>17, <1>18 DEF Colored
  <1>. QED
    BY <1>2, <1>12, <1>19, BalancingStep DEF P

(* The loop is over: the parent is black, or the root turns black, which   *)
(* is on every way down.                                                   *)
LEMMA InsertEndsKeeps == RBInv /\ InsertEnds => RBInv'
PROOF
  <1>. SUFFICES ASSUME RBInv, InsertEnds PROVE RBInv'
    OBVIOUS
  <1>. DEFINE P == Present
  <1>1. PICK below : Shape(tree, P, below)
    BY DEF RBInv, BstInv
  <1>2. /\ pc = "insert" /\ ~Red(color, tree.parent[curr])
        /\ pc' = "idle" /\ curr' = Nil
        /\ UNCHANGED << count, nodes, returned >>
    BY DEF InsertEnds, IsRed, Red
  <1>3. /\ color \in [Places -> {"BLACK", "RED"}] /\ color[Nil] = "BLACK"
        /\ curr \in P
        /\ RedRule(tree, P, color, pc, curr) /\ RootRule(tree, color, pc, curr)
    BY <1>2 DEF RBInv, Colored, CurrRule
  <1>4. PICK h : Heights(tree, P, color, pc, curr, h)
    BY DEF RBInv, Colored
  <1>5. /\ P \subseteq Places /\ Nil \in Places /\ Nil \notin P
    BY <1>1, ShapeFacts DEF Places
  <1>6. \A m \in P : ~(Red(color, m) /\ Red(color, tree.parent[m]))
    BY <1>2, <1>3 DEF RedRule
  <1>7. CASE curr = tree.root /\ color' = [color EXCEPT ![curr] = "BLACK"] /\ tree' = tree
    <2>. DEFINE h1 == [h EXCEPT ![curr] = h[curr] + 1]
    <2>1. /\ h \in [Places -> Nat] /\ h[Nil] = 0
          /\ \A n \in P : \A s \in Sides :
               h[n] = h[tree.child[s][n]] + 0 + Blackness(color, n)
      <3>1. \A c, n : Gap(tree, pc, curr, c, n) = 0
        BY <1>2 DEF Gap
      <3>. QED
        BY <1>4, <3>1 DEF Heights
    <2>2. h1 \in [Places -> Nat] /\ \A m \in Places : h1[m] = IF m = curr THEN h[m] + 1 ELSE h[m]
      BY <1>3, <1>5, <2>1
    <2>. HIDE DEF h1, P
    <2>3. \A n \in P : \A s \in Sides : tree.child[s][n] \in Places /\ tree.child[s][n] # curr
      <3>1. tree.parent[tree.root] = Nil
        BY <1>1, <1>3, <1>5, <1>7 DEF Shape, AtTop
      <3>. QED
        BY <1>1, <1>3, <1>5, <1>7, <3>1 DEF Shape, Downward
    <2>4. /\ color' \in [Places -> {"BLACK", "RED"}] /\ color'[Nil] = "BLACK"
          /\ \A m \in Places : color'[m] = IF m = curr THEN "BLACK" ELSE color[m]
      BY <1>3, <1>5, <1>7
    <2>5. Red(color, curr)
      BY <1>2 DEF RBInv, Colored, CurrRule
    <2>6. ASSUME NEW n \in P, NEW s \in Sides
          PROVE  h1[n] = h1[tree.child[s][n]] + Gap(tree, pc', curr', tree.child[s][n], n)
                          + Blackness(color', n)
      <3>1. Gap(tree, pc', curr', tree.child[s][n], n) = 0
        BY <1>2 DEF Gap
      <3>2. Blackness(color', n) = IF n = curr THEN 1 ELSE Blackness(color, n)
        BY <1>5, <2>4 DEF Blackness, Red
      <3>3. Blackness(color, n) \in {0, 1} /\ Blackness(color, curr) = 0
        BY <2>5 DEF Blackness
      <3>4. h1[tree.child[s][n]] = h[tree.child[s][n]] /\ h[tree.child[s][n]] \in Nat
        BY <2>1, <2>2, <2>3
      <3>5. h[n] = h[tree.child[s][n]] + 0 + Blackness(color, n)
        BY <2>1
      <3>6. h1[n] = IF n = curr THEN h[n] + 1 ELSE h[n]
        BY <1>5, <2>2
      <3>. QED
        BY <3>1, <3>2, <3>3, <3>4, <3>5, <3>6
    <2>7. Heights(tree, P, color', pc', curr', h1)
      BY <1>3, <1>5, <2>1, <2>2, <2>6 DEF Heights
    <2>8. RedRule(tree, P, color', pc', curr')
      <3>1. \A m \in P : tree.parent[m] \in Places
        BY <1>1, <1>5 DEF Shape, Trees
      <3>. QED
        BY <1>5, <1>6, <2>4, <3>1 DEF RedRule, Red
    <2>9. RootRule(tree, color', pc', curr') /\ CurrRule(tree, P, color', pc', curr')
      BY <1>2, <1>3, <1>5, <1>7, <2>4 DEF RootRule, CurrRule, Red
    <2>10. Colored(tree', P, color', pc', curr')
      BY <1>2, <1>5, <1>7, <2>4, <2>7, <2>8, <2>9 DEF Colored
    <2>. QED
      BY <1>1, <1>2, <1>7, <2>10, BalancingStep DEF P
  <1>8. CASE /\ curr # tree.root /\ color' = color
             /\ tree' = IF Grand = Nil THEN [tree EXCEPT !.root = tree.parent[curr]] ELSE tree
    <2>1. tree.parent[curr] \in P
      BY <1>1, <1>3, <1>8 DEF Shape, Upward
    <2>2. Grand = Nil => tree.parent[curr] = tree.root
      BY <1>1, <2>1 DEF Shape, Upward, Grand
    <2>3. tree' = tree
      BY <1>1, <1>8, <2>2 DEF Shape, Trees
    <2>4. \E i : Heights(tree, P, color, pc', curr', i)
      BY <1>2, <1>4, HeightsOtherwise
    <2>5. RedRule(tree, P, color, pc', curr')
      BY <1>6 DEF RedRule
    <2>6. RootRule(tree, color, pc', curr') /\ CurrRule(tree, P, color, pc', curr')
      BY <1>2, <1>3, <1>8 DEF RootRule, CurrRule
    <2>7. Colored(tree', P, color', pc', curr')
      BY <1>2, <1>3, <1>5, <1>8, <2>3, <2>4, <2>5, <2>6 DEF Colored
    <2>. QED
      BY <1>1, <1>2, <2>3, <2>7, BalancingStep
  <1>. QED
    BY <1>7, <1>8 DEF InsertEnds

-----------------------------------------------------------------------------
(* Delete: RedBlackBalancing. *)

BalancingAt(below, h) ==
  /\ Shape(tree, Present, below) /\ Heights(tree, Present, color, pc, curr, h)
  /\ color \in [Places -> {"BLACK", "RED"}] /\ color[Nil] = "BLACK"
  /\ Present \subseteq Places /\ Nil \in Places /\ Nil \notin Present

LEMMA BalancingIsSomewhere ==
  ASSUME RBInv PROVE \E below, h : BalancingAt(below, h)
PROOF
  <1>1. PICK below : Shape(tree, Present, below)
    BY DEF RBInv, BstInv
  <1>2. PICK h : Heights(tree, Present, color, pc, curr, h)
    BY DEF RBInv, Colored
  <1>3. /\ color \in [Places -> {"BLACK", "RED"}] /\ color[Nil] = "BLACK"
    BY DEF RBInv, Colored
  <1>4. Present \subseteq Places /\ Nil \in Places /\ Nil \notin Present
    BY <1>1, ShapeFacts DEF Places
  <1>5. BalancingAt(below, h)
    BY <1>1, <1>2, <1>3, <1>4 DEF BalancingAt
  <1>. QED
    BY <1>5

(* Where a round finds itself.  The sibling of curr is there, because more *)
(* black nodes are below it than below curr.                               *)
LEMMA DeleteFacts ==
  ASSUME RBInv, DeleteRound, NEW below, NEW h, BalancingAt(below, h)
  PROVE  /\ pc = "delete" /\ curr \in Places /\ curr # tree.root /\ ~Red(color, curr)
         /\ Above \in Present /\ Above = tree.parent[curr]
         /\ Side \in Sides /\ Other(Side) \in Sides /\ Other(Other(Side)) = Side
         /\ \A s \in Sides : s \in {Side, Other(Side)}
         /\ tree.child[Side][Above] = curr
         /\ Sibling = tree.child[Other(Side)][Above]
         /\ Sibling \in Present /\ tree.parent[Sibling] = Above
         /\ Sibling # curr /\ Sibling # Above /\ curr # Above /\ Sibling # Nil
         /\ tree.parent[Above] \notin {Above, Sibling}
         /\ h[Above] = h[curr] + 1 + Blackness(color, Above)
         /\ h[Sibling] = h[curr] + 1
         /\ \A m \in Places : h[m] \in Nat
         /\ ~Red(color, tree.root)
         /\ \A m \in Present : ~(Red(color, m) /\ Red(color, tree.parent[m]))
PROOF
  <1>1. /\ pc = "delete" /\ curr \in Places /\ curr # tree.root /\ ~Red(color, curr)
        /\ RedRule(tree, Present, color, pc, curr) /\ RootRule(tree, color, pc, curr)
        /\ CurrRule(tree, Present, color, pc, curr)
    BY DEF DeleteRound, IsRed, Red, RBInv, Colored
  <1>2. PICK s \in Sides : /\ tree.child[s][Above] = curr
                           /\ tree.child[Other(s)][Above] # curr
    BY <1>1 DEF CurrRule, Above
  <1>3. Above \in Present /\ Above = tree.parent[curr]
    BY <1>1 DEF CurrRule, Above
  <1>4. Side = s
    BY <1>2, <1>3, SideFacts DEF Side, SideOf
  <1>5. /\ Side \in Sides /\ Other(Side) \in Sides /\ Other(Other(Side)) = Side
        /\ \A z \in Sides : z \in {Side, Other(Side)}
        /\ tree.child[Side][Above] = curr
        /\ Sibling = tree.child[Other(Side)][Above] /\ Sibling # curr
    BY <1>2, <1>4, SideFacts DEF Sibling
  <1>6. /\ Shape(tree, Present, below) /\ Heights(tree, Present, color, pc, curr, h)
        /\ Nil \notin Present /\ Present \subseteq Places /\ Nil \in Places
    BY DEF BalancingAt
  <1>7. /\ h \in [Places -> Nat] /\ h[Nil] = 0
        /\ h[Above] = h[curr] + Gap(tree, pc, curr, curr, Above) + Blackness(color, Above)
        /\ h[Above] = h[Sibling] + Gap(tree, pc, curr, Sibling, Above)
                        + Blackness(color, Above)
    BY <1>3, <1>5, <1>6 DEF Heights
  <1>8. /\ Gap(tree, pc, curr, curr, Above) = 1
        /\ Gap(tree, pc, curr, Sibling, Above) = 0
    BY <1>1, <1>3, <1>5 DEF Gap
  <1>9. Sibling \in Present \cup {Nil}
    BY <1>3, <1>5, <1>6 DEF Shape, Downward
  <1>10. /\ h[Above] = h[curr] + 1 + Blackness(color, Above)
         /\ h[Sibling] = h[curr] + 1 /\ \A m \in Places : h[m] \in Nat
    BY <1>1, <1>3, <1>6, <1>7, <1>8, <1>9 DEF Blackness
  <1>11. Sibling # Nil
    BY SMTT(60), <1>1, <1>7, <1>10
  <1>12. /\ Sibling \in Present /\ tree.parent[Sibling] = Above /\ Sibling # Above
         /\ tree.parent[Above] \notin {Above, Sibling}
    <2>1. Turn(tree, Present, below, Above, Side)
      <3>1. tree.child[Other(Side)][Above] # Nil
        BY <1>5, <1>11
      <3>. QED
        BY <1>3, <1>5, <1>6, <3>1, TurnFacts
    <2>. QED
      BY <1>5, <1>11, <2>1 DEF Turn
  <1>13. curr # Above
    <2>1. curr # Nil => curr # Above
      BY <1>3, <1>5, <1>6, ChildFacts
    <2>. QED
      BY <1>3, <1>6, <2>1
  <1>14. ~Red(color, tree.root)
    BY <1>1 DEF RootRule
  <1>15. \A m \in Present : ~(Red(color, m) /\ Red(color, tree.parent[m]))
    BY <1>1 DEF RedRule
  <1>. QED
    BY <1>1, <1>3, <1>5, <1>10, <1>11, <1>12, <1>13, <1>14, <1>15

LEMMA BalancingEndsKeeps == RBInv /\ BalancingEnds => RBInv'
PROOF
  <1>. SUFFICES ASSUME RBInv, BalancingEnds PROVE RBInv'
    OBVIOUS
  <1>. DEFINE P == Present
  <1>1. PICK below, h : BalancingAt(below, h)
    BY BalancingIsSomewhere
  <1>2. /\ pc = "delete" /\ pc' = "idle" /\ curr' = Nil
        /\ tree' = tree /\ UNCHANGED << count, nodes, returned >>
        /\ curr = tree.root \/ Red(color, curr)
        /\ color' = IF curr = tree.root THEN color ELSE [color EXCEPT ![curr] = "BLACK"]
    BY DEF BalancingEnds, Leaves, IsRed, Red, treeVars
  <1>3. /\ Shape(tree, P, below) /\ Heights(tree, P, color, pc, curr, h)
        /\ color \in [Places -> {"BLACK", "RED"}] /\ color[Nil] = "BLACK"
        /\ P \subseteq Places /\ Nil \in Places /\ Nil \notin P
    BY <1>1 DEF BalancingAt
  <1>4. /\ RedRule(tree, P, color, pc, curr) /\ RootRule(tree, color, pc, curr)
        /\ CurrRule(tree, P, color, pc, curr) /\ curr \in Places
    BY DEF RBInv, Colored
  <1>5. \A c, n : Gap(tree, pc', curr', c, n) = 0
    BY <1>2 DEF Gap
  <1>6. ~Red(color, tree.root)
    BY <1>2, <1>4 DEF RootRule
  <1>7. CASE curr = tree.root
    <2>1. \A n \in P : \A s \in Sides : Gap(tree, pc, curr, tree.child[s][n], n) = 0
      <3>1. ASSUME NEW n \in P PROVE n # tree.parent[curr]
        BY SMTT(60), <1>3, <1>7, ShapeFacts DEF Shape, AtTop
      <3>. QED
        BY <3>1 DEF Gap
    <2>2. Heights(tree, P, color, pc', curr', h)
      BY <1>3, <1>5, <2>1 DEF Heights
    <2>3. RedRule(tree, P, color, pc', curr')
      BY <1>2, <1>4, <1>7 DEF RedRule
    <2>4. Colored(tree', P, color', pc', curr')
      BY <1>2, <1>3, <1>6, <1>7, <2>2, <2>3 DEF Colored, RootRule, CurrRule
    <2>. QED
      BY <1>2, <1>3, <2>4, BalancingStep
  <1>8. CASE curr # tree.root
    <2>. DEFINE h1 == [h EXCEPT ![curr] = h[curr] + 1]
                a == tree.parent[curr]
    <2>1. Red(color, curr) /\ curr # Nil
      BY <1>2, <1>3, <1>8 DEF Red
    <2>2. a \in P /\ \E s \in Sides : tree.child[s][a] = curr
      BY <1>2, <1>4, <1>8 DEF CurrRule
    <2>3. curr \in P /\ curr # a
      BY <1>3, <2>1, <2>2, ChildFacts
    <2>4. /\ color' \in [Places -> {"BLACK", "RED"}] /\ color'[Nil] = "BLACK"
          /\ \A m \in Places : color'[m] = IF m = curr THEN "BLACK" ELSE color[m]
      BY <1>2, <1>3, <1>8
    <2>5. /\ h \in [Places -> Nat] /\ h[Nil] = 0
          /\ \A n \in P : \A s \in Sides :
               h[n] = h[tree.child[s][n]] + Gap(tree, pc, curr, tree.child[s][n], n)
                        + Blackness(color, n)
      BY <1>3 DEF Heights
    <2>6. h1 \in [Places -> Nat] /\ \A m \in Places : h1[m] = IF m = curr THEN h[m] + 1 ELSE h[m]
      BY <1>4, <2>5
    <2>7. \A n \in P : \A s \in Sides :
            /\ tree.child[s][n] \in Places
            /\ tree.child[s][n] = curr => n = a /\ n # curr
      BY <1>3, <2>1, <2>3 DEF Shape, Downward
    <2>. HIDE DEF h1, a, P
    <2>8. ASSUME NEW n \in P, NEW s \in Sides
          PROVE  h1[n] = h1[tree.child[s][n]] + Gap(tree, pc', curr', tree.child[s][n], n)
                          + Blackness(color', n)
      <3>. DEFINE e == tree.child[s][n]
      <3>1. Gap(tree, pc', curr', e, n) = 0
        BY <1>5
      <3>2. Gap(tree, pc, curr, e, n) = IF e = curr THEN 1 ELSE 0
        BY <1>2, <2>7 DEF Gap, a
      <3>3. Blackness(color', n) = IF n = curr THEN 1 ELSE Blackness(color, n)
        BY <1>3, <2>4 DEF Blackness, Red
      <3>4. Blackness(color, n) \in {0, 1} /\ Blackness(color, curr) = 0
        BY <2>1 DEF Blackness
      <3>5. h1[n] = IF n = curr THEN h[n] + 1 ELSE h[n]
        BY <1>3, <2>6
      <3>6. e \in Places /\ h[e] \in Nat /\ h1[e] = IF e = curr THEN h[e] + 1 ELSE h[e]
        BY <2>5, <2>6, <2>7
      <3>7. h[n] = h[e] + Gap(tree, pc, curr, e, n) + Blackness(color, n)
        BY <2>5
      <3>8. e = curr => n # curr
        BY <2>7
      <3>. HIDE DEF e
      <3>9. h1[n] = h1[e] + Gap(tree, pc', curr', e, n) + Blackness(color', n)
        BY <3>1, <3>2, <3>3, <3>4, <3>5, <3>6, <3>7, <3>8
      <3>. QED
        BY <3>9 DEF e
    <2>9. Heights(tree, P, color', pc', curr', h1)
      BY <1>3, <2>1, <2>5, <2>6, <2>8 DEF Heights
    <2>10. RedRule(tree, P, color', pc', curr')
      <3>1. \A m \in P : tree.parent[m] \in Places
        BY <1>3 DEF Shape, Trees
      <3>2. \A m \in P : ~(Red(color', m) /\ Red(color', tree.parent[m]))
        BY <1>2, <1>3, <1>4, <2>4, <3>1 DEF RedRule, Red
      <3>. QED
        BY <3>2 DEF RedRule
    <2>11. RootRule(tree, color', pc', curr') /\ CurrRule(tree, P, color', pc', curr')
      <3>1. tree.root \in Places
        BY <1>3 DEF Shape, Trees
      <3>. QED
        BY <1>2, <1>6, <1>8, <2>4, <3>1 DEF RootRule, CurrRule, Red
    <2>12. Colored(tree', P, color', pc', curr')
      BY <1>2, <1>3, <2>4, <2>9, <2>10, <2>11 DEF Colored
    <2>. QED
      BY <1>2, <1>3, <2>12, BalancingStep DEF P
  <1>. QED
    BY <1>7, <1>8

LEMMA SiblingRedKeeps == RBInv /\ SiblingRed => RBInv'
PROOF
  <1>. SUFFICES ASSUME RBInv, SiblingRed PROVE RBInv'
    OBVIOUS
  <1>. DEFINE k == curr
              a == Above
              s == Sibling
              o == Other(Side)
              x == tree.child[Side][s]
              P == Present
  <1>1. PICK below, h : BalancingAt(below, h)
    BY BalancingIsSomewhere
  <1>2. /\ DeleteRound /\ Red(color, s)
        /\ color' = [color EXCEPT ![s] = "BLACK", ![a] = "RED"]
        /\ tree' = Rotated(tree, a, Side)
        /\ pc' = pc /\ curr' = k /\ UNCHANGED << count, nodes, returned >>
    BY DEF SiblingRed, IsRed, Red
  <1>3. /\ Shape(tree, P, below) /\ Heights(tree, P, color, pc, k, h)
        /\ color \in [Places -> {"BLACK", "RED"}] /\ color[Nil] = "BLACK"
        /\ P \subseteq Places /\ Nil \in Places /\ Nil \notin P
    BY <1>1 DEF BalancingAt
  <1>4. /\ pc = "delete" /\ k \in Places /\ k # tree.root /\ ~Red(color, k)
        /\ a \in P /\ a = tree.parent[k]
        /\ Side \in Sides /\ o \in Sides /\ (\A z \in Sides : z \in {Side, o})
        /\ tree.child[Side][a] = k /\ s = tree.child[o][a]
        /\ s \in P /\ tree.parent[s] = a
        /\ s # k /\ s # a /\ k # a /\ s # Nil
        /\ tree.parent[a] \notin {a, s}
        /\ ~Red(color, tree.root)
        /\ \A m \in P : ~(Red(color, m) /\ Red(color, tree.parent[m]))
    BY <1>1, <1>2, DeleteFacts
  <1>5. ~Red(color, a)
    BY <1>2, <1>4
  <1>6. /\ color' \in [Places -> {"BLACK", "RED"}] /\ color'[Nil] = "BLACK"
        /\ \A m \in Places : color'[m] = IF m = a THEN "RED"
                                         ELSE IF m = s THEN "BLACK" ELSE color[m]
    BY ZenonT(60), <1>2, <1>3, <1>4
  <1>7. /\ RotatedTo(tree', tree, a, Side)
        /\ \E b : Shape(tree', P, b)
    BY <1>2, <1>3, <1>4, RotatedLinks, RotatedKeepsShape
  <1>8. /\ tree'.root = IF tree.root = a THEN s ELSE tree.root
        /\ tree'.child[Side][a] = k /\ tree'.child[o][a] = x
        /\ tree'.parent[a] = s
        /\ x # Nil => tree'.parent[x] = a
        /\ \A m \in Places \ {a, s, x} : tree'.parent[m] = tree.parent[m]
    BY Zenon, <1>4, <1>7 DEF RotatedTo
  <1>9. x # Nil => tree.parent[x] = s
    BY Zenon, <1>3, <1>4 DEF Shape, Downward
  <1>10. \A m \in P : tree.parent[m] = a => m \in {k, s}
    <2>1. ASSUME NEW m \in P, tree.parent[m] = a PROVE m \in {k, s}
      <3>1. PICK z \in Sides : tree.child[z][a] = m
        BY <1>3, <1>4, <2>1 DEF Shape, Upward
      <3>. QED
        BY <1>4, <3>1
    <2>. QED
      BY <2>1
  <1>11. /\ Blackness(color', a) = 0 /\ Blackness(color', s) = Blackness(color, a)
         /\ \A m \in P \ {a, s} : color'[m] = color[m]
    BY <1>3, <1>4, <1>5, <1>6 DEF Blackness, Red
  <1>. HIDE DEF k, a, s, o, x, P
  <1>12. /\ \E i : Heights(tree', P, color', pc', curr', i)
         /\ tree'.parent[k] = a /\ x # k
    <2>1. s = tree.child[Other(Side)][a] /\ x = tree.child[Side][tree.child[Other(Side)][a]]
      BY <1>4 DEF o, x
    <2>3. /\ tree.child[Other(Side)][a] # Nil
          /\ Red(color, tree.child[Other(Side)][a])
          /\ Blackness(color', tree.child[Other(Side)][a]) = Blackness(color, a)
          /\ \A m \in P \ {a, tree.child[Other(Side)][a]} : color'[m] = color[m]
          /\ k \notin {a, tree.child[Other(Side)][a]}
          /\ tree.parent[k] = a /\ k = tree.child[Side][a]
      BY ZenonT(60), <1>2, <1>4, <1>11, <2>1
    <2>2. /\ \E i : Heights(Rotated(tree, a, Side), P, color', pc, k, i)
          /\ Rotated(tree, a, Side).parent[k] = tree.parent[k]
          /\ tree.parent[k] = a => tree.child[Side][tree.child[Other(Side)][a]] # k
      <3>1. /\ Shape(tree, P, below) /\ Heights(tree, P, color, pc, k, h)
            /\ pc = "delete" /\ k \in Places /\ a \in P /\ Side \in Sides
            /\ Blackness(color', a) = 0
        BY <1>3, <1>4, <1>11
      <3>2. Recolored(tree, P, a, tree.child[Other(Side)][a], Side, color, color', pc, k)
        BY <2>3, <3>1 DEF Recolored
      <3>. QED
        <4>1. Turns(tree, P, below, a, Side, color, color', pc, k, h)
          BY <2>3, <3>1, <3>2 DEF Turns
        <4>. QED
          BY <3>1, <4>1, RotatedKeepsHeights
    <2>. QED
      BY Zenon, <1>2, <1>4, <2>1, <2>2
  <1>13. RedRule(tree', P, color', pc', curr')
    <2>1. ASSUME NEW m \in P, Red(color', m), Red(color', tree'.parent[m]) PROVE FALSE
      <3>1. m # s /\ m \in Places /\ a \in Places /\ s \in Places
        BY <1>3, <1>4, <1>6, <2>1 DEF Red
      <3>2. m # a
        BY <1>4, <1>6, <1>8, <2>1, <3>1 DEF Red
      <3>3. Red(color, m)
        BY <1>6, <2>1, <3>1, <3>2 DEF Red
      <3>4. m # x
        BY <1>2, <1>3, <1>4, <1>9, <3>3
      <3>5. tree'.parent[m] = tree.parent[m] /\ tree.parent[m] \in Places
        BY <1>3, <1>8, <3>1, <3>2, <3>4 DEF Shape, Trees
      <3>6. tree.parent[m] # a
        BY <1>4, <1>10, <3>1, <3>3
      <3>7. Red(color, tree.parent[m])
        BY <1>2, <1>6, <2>1, <3>5, <3>6 DEF Red
      <3>. QED
        BY <1>4, <3>3, <3>7
    <2>. QED
      BY <2>1 DEF RedRule
  <1>14. RootRule(tree', color', pc', curr')
    <2>1. tree.root \in Places /\ s \in Places
      BY <1>3, <1>4 DEF Shape, Trees
    <2>. QED
      BY <1>4, <1>6, <1>8, <2>1 DEF RootRule, Red
  <1>15. CurrRule(tree', P, color', pc', curr') /\ curr' \in Places
    <2>1. Other(Side) = o /\ pc' # "insert"
      BY <1>2, <1>4 DEF o
    <2>2. tree'.child[Side][tree'.parent[k]] = k /\ tree'.child[Other(Side)][tree'.parent[k]] # k
      BY <1>8, <1>12, <2>1
    <2>3. tree'.parent[k] \in P
      BY <1>4, <1>12
    <2>. QED
      BY ZenonT(60), <1>2, <1>4, <2>1, <2>2, <2>3 DEF CurrRule
  <1>16. Colored(tree', P, color', pc', curr')
    BY Zenon, <1>2, <1>4, <1>6, <1>12, <1>13, <1>14, <1>15 DEF Colored
  <1>. QED
    BY <1>2, <1>7, <1>16, BalancingStep DEF P

LEMMA SiblingBlackKeeps == RBInv /\ SiblingBlack => RBInv'
PROOF
  <1>. SUFFICES ASSUME RBInv, SiblingBlack PROVE RBInv'
    OBVIOUS
  <1>. DEFINE k == curr
              a == Above
              s == Sibling
              o == Other(Side)
              P == Present
              h1(h) == [h EXCEPT ![s] = h[k], ![a] = h[a] - 1]
  <1>1. PICK below, h : BalancingAt(below, h)
    BY BalancingIsSomewhere
  <1>2. /\ DeleteRound /\ ~Red(color, s)
        /\ ~Red(color, tree.child[Side][s]) /\ ~Red(color, tree.child[o][s])
        /\ color' = [color EXCEPT ![s] = "RED"]
        /\ tree' = tree /\ pc' = pc /\ curr' = a
        /\ UNCHANGED << count, nodes, returned >>
    BY DEF SiblingBlack, IsRed, Red, Inner, Outer, treeVars
  <1>3. /\ Shape(tree, P, below) /\ Heights(tree, P, color, pc, k, h)
        /\ color \in [Places -> {"BLACK", "RED"}] /\ color[Nil] = "BLACK"
        /\ P \subseteq Places /\ Nil \in Places /\ Nil \notin P
    BY <1>1 DEF BalancingAt
  <1>4. /\ pc = "delete" /\ k \in Places /\ k # tree.root /\ ~Red(color, k)
        /\ a \in P /\ a = tree.parent[k]
        /\ Side \in Sides /\ o \in Sides /\ (\A z \in Sides : z \in {Side, o})
        /\ tree.child[Side][a] = k /\ s = tree.child[o][a]
        /\ s \in P /\ tree.parent[s] = a
        /\ s # k /\ s # a /\ k # a /\ s # Nil
        /\ tree.parent[a] \notin {a, s}
        /\ h[a] = h[k] + 1 + Blackness(color, a) /\ h[s] = h[k] + 1
        /\ (\A m \in Places : h[m] \in Nat)
        /\ ~Red(color, tree.root)
        /\ \A m \in P : ~(Red(color, m) /\ Red(color, tree.parent[m]))
    BY <1>1, <1>2, DeleteFacts
  <1>5. /\ color' \in [Places -> {"BLACK", "RED"}] /\ color'[Nil] = "BLACK"
        /\ \A m \in Places : color'[m] = IF m = s THEN "RED" ELSE color[m]
    BY Zenon, <1>2, <1>3, <1>4
  <1>6. \A m \in P : \A z \in Sides :
          /\ tree.child[z][m] \in Places
          /\ tree.child[z][m] # Nil => tree.parent[tree.child[z][m]] = m
    BY <1>3 DEF Shape, Downward
  <1>7. \A m \in P : tree.parent[m] = s => ~Red(color, m)
    <2>1. ASSUME NEW m \in P, tree.parent[m] = s PROVE ~Red(color, m)
      <3>1. PICK z \in Sides : tree.child[z][s] = m
        BY ZenonT(60), <1>3, <1>4, <2>1 DEF Shape, Upward
      <3>. QED
        BY <1>2, <1>4, <3>1
    <2>. QED
      BY SMTT(60), <2>1
  <1>8. /\ h \in [Places -> Nat] /\ h[Nil] = 0
        /\ \A n \in P : \A z \in Sides :
             h[n] = h[tree.child[z][n]] + Gap(tree, pc, k, tree.child[z][n], n)
                      + Blackness(color, n)
    BY <1>3 DEF Heights
  <1>9. /\ a # tree.root => tree.parent[a] \in P
        /\ a # tree.root =>
             \E z \in Sides : /\ tree.child[z][tree.parent[a]] = a
                              /\ tree.child[Other(z)][tree.parent[a]] # a
    <2>1. a # tree.root => tree.parent[a] # Nil
      BY <1>3, <1>4 DEF Shape, Upward
    <2>. HIDE DEF a
    <2>. QED
      BY ZenonT(60), <1>3, <1>4, <2>1, SideOfFacts
  <1>. HIDE DEF k, a, s, o, P
  <1>10. /\ h1(h) \in [Places -> Nat] /\ h1(h)[s] = h[k] /\ h1(h)[a] = h[a] - 1
         /\ \A m \in Places \ {a, s} : h1(h)[m] = h[m]
    <2>1. a \in Places /\ s \in Places /\ h[a] - 1 \in Nat /\ h[k] \in Nat
      BY <1>3, <1>4 DEF Blackness
    <2>. QED
      BY ZenonT(60), <1>4, <1>8, <2>1
  <1>. DEFINE g == h1(h)
  <1>. HIDE DEF h1
  <1>11. ASSUME NEW n \in P, NEW z \in Sides
         PROVE  g[n] = g[tree.child[z][n]] + Gap(tree, pc', curr', tree.child[z][n], n)
                          + Blackness(color', n)
    <2>. DEFINE e == tree.child[z][n]
    <2>1. Gap(tree, pc', curr', e, n) = IF e = a /\ n = tree.parent[a] THEN 1 ELSE 0
      BY <1>2, <1>4 DEF Gap
    <2>2. Gap(tree, pc, k, e, n) = IF e = k /\ n = a THEN 1 ELSE 0
      BY <1>4 DEF Gap
    <2>3. /\ h[n] = h[e] + Gap(tree, pc, k, e, n) + Blackness(color, n)
          /\ e \in Places /\ (e # Nil => tree.parent[e] = n)
          /\ n \in Places /\ h[n] \in Nat /\ h[e] \in Nat
      BY <1>3, <1>4, <1>6, <1>8
    <2>4. Blackness(color', n) = IF n = s THEN 0 ELSE Blackness(color, n)
      BY <1>3, <1>5 DEF Blackness, Red
    <2>5. Blackness(color, n) \in {0, 1} /\ Blackness(color, s) = 1
      BY <1>2 DEF Blackness
    <2>6. a # Nil /\ s # Nil
      BY <1>3, <1>4
    <2>7. n = a => e \in {k, s}
      BY <1>4
    <2>. HIDE DEF e, g
    <2>8. CASE n = a
      <3>1. CASE e = k
        <4>1. g[e] = h[e] /\ g[n] = h[n] - 1
          BY <1>4, <1>10, <2>8, <3>1 DEF g
        <4>. QED
          BY SMTT(60), <1>4, <2>1, <2>2, <2>3, <2>4, <2>5, <2>8, <3>1, <4>1 DEF e
      <3>2. CASE e = s
        <4>1. g[e] = h[k] /\ g[n] = h[n] - 1
          BY <1>10, <2>8, <3>2 DEF g
        <4>. QED
          BY <1>4, <2>1, <2>2, <2>3, <2>4, <2>5, <2>8, <3>2, <4>1 DEF e
      <3>. QED
        BY <2>7, <2>8, <3>1, <3>2
    <2>9. CASE n = s
      <3>1. e # a /\ e # s
        BY <1>4, <2>3, <2>6, <2>9
      <3>2. g[e] = h[e] /\ g[n] = h[k]
        BY <1>10, <2>3, <2>9, <3>1 DEF g
      <3>3. h[s] = h[e] + 0 + 1 /\ h[k] \in Nat /\ h[s] = h[k] + 1
        BY <1>4, <2>2, <2>3, <2>5, <2>9
      <3>4. Gap(tree, pc', curr', e, n) = 0 /\ Blackness(color', n) = 0
        BY <2>1, <2>4, <2>9, <3>1
      <3>5. g[n] = h[k] /\ g[e] = h[k]
        BY <2>3, <3>2, <3>3
      <3>. QED
        BY <3>3, <3>4, <3>5 DEF e
    <2>10. CASE n \notin {a, s}
      <3>1. e # s
        BY <1>4, <2>3, <2>6, <2>10
      <3>2. e = a => n = tree.parent[a]
        BY <2>3, <2>6
      <3>3. g[n] = h[n] /\ (e # a => g[e] = h[e]) /\ (e = a => g[e] = h[e] - 1)
        BY SMTT(60), <1>10, <2>3, <2>10, <3>1 DEF g
      <3>. QED
        BY <1>4, <2>1, <2>2, <2>3, <2>4, <2>5, <2>10, <3>2, <3>3 DEF e
    <2>. QED
      BY <2>8, <2>9, <2>10
  <1>12. g[Nil] = 0
    BY <1>3, <1>4, <1>8, <1>10
  <1>13. Heights(tree, P, color', pc', curr', g)
    BY <1>10, <1>11, <1>12 DEF Heights
  <1>14. RedRule(tree, P, color', pc', curr')
    <2>1. ASSUME NEW m \in P, Red(color', m), Red(color', tree.parent[m])
          PROVE  a # tree.root /\ a \in {m, tree.parent[m]}
      <3>1. m \in Places /\ a \in Places /\ tree.parent[m] \in Places
        BY <1>3, <1>4 DEF Shape, Trees
      <3>2. CASE m = s
        <4>1. Red(color, a)
          BY <1>4, <1>5, <2>1, <3>1, <3>2 DEF Red
        <4>. QED
          BY <1>4, <3>2, <4>1
      <3>3. CASE m # s
        <4>1. Red(color, m)
          BY <1>5, <2>1, <3>1, <3>3 DEF Red
        <4>2. tree.parent[m] # s
          BY <1>7, <4>1
        <4>3. Red(color, tree.parent[m])
          BY <1>5, <2>1, <3>1, <4>2 DEF Red
        <4>. QED
          BY <1>4, <4>1, <4>3
      <3>. QED
        BY <3>2, <3>3
    <2>. QED
      BY Zenon, <1>2, <1>4, <2>1 DEF RedRule
  <1>15. RootRule(tree, color', pc', curr')
    <2>1. tree.root \in Places
      BY <1>3 DEF Shape, Trees
    <2>2. tree.root # s
      <3>1. tree.root # Nil => tree.parent[tree.root] = Nil
        BY <1>3 DEF Shape, AtTop
      <3>. QED
        BY <1>3, <1>4, <3>1
    <2>. QED
      BY <1>4, <1>5, <2>1, <2>2 DEF RootRule, Red
  <1>16. CurrRule(tree, P, color', pc', curr') /\ curr' \in Places
    BY Zenon, <1>2, <1>3, <1>4, <1>9 DEF CurrRule
  <1>17. Colored(tree', P, color', pc', curr')
    BY Zenon, <1>2, <1>4, <1>5, <1>13, <1>14, <1>15, <1>16 DEF Colored
  <1>. QED
    BY <1>2, <1>3, <1>17, BalancingStep DEF P

LEMMA NephewInnerKeeps == RBInv /\ NephewInner => RBInv'
PROOF
  <1>. SUFFICES ASSUME RBInv, NephewInner PROVE RBInv'
    OBVIOUS
  <1>. DEFINE k == curr
              a == Above
              s == Sibling
              o == Other(Side)
              i == tree.child[Side][s]
              x == tree.child[o][i]
              P == Present
  <1>1. PICK below, h : BalancingAt(below, h)
    BY BalancingIsSomewhere
  <1>2. /\ DeleteRound /\ ~Red(color, s) /\ Red(color, i) /\ ~Red(color, tree.child[o][s])
        /\ color' = [color EXCEPT ![i] = "BLACK", ![s] = "RED"]
        /\ tree' = Rotated(tree, s, o)
        /\ pc' = pc /\ curr' = k /\ UNCHANGED << count, nodes, returned >>
    BY DEF NephewInner, IsRed, Red, Inner, Outer
  <1>3. /\ Shape(tree, P, below) /\ Heights(tree, P, color, pc, k, h)
        /\ color \in [Places -> {"BLACK", "RED"}] /\ color[Nil] = "BLACK"
        /\ P \subseteq Places /\ Nil \in Places /\ Nil \notin P
    BY <1>1 DEF BalancingAt
  <1>4. /\ pc = "delete" /\ k \in Places /\ k # tree.root /\ ~Red(color, k)
        /\ a \in P /\ a = tree.parent[k]
        /\ Side \in Sides /\ o \in Sides /\ Other(o) = Side
        /\ (\A z \in Sides : z \in {Side, o})
        /\ tree.child[Side][a] = k /\ s = tree.child[o][a]
        /\ s \in P /\ tree.parent[s] = a
        /\ s # k /\ s # a /\ k # a /\ s # Nil
        /\ tree.parent[a] \notin {a, s}
        /\ ~Red(color, tree.root)
        /\ \A m \in P : ~(Red(color, m) /\ Red(color, tree.parent[m]))
    BY <1>1, <1>2, DeleteFacts
  <1>5. /\ i \in P /\ i # Nil /\ tree.parent[i] = s /\ i # s /\ i # a /\ i # k
    <2>1. i # Nil
      BY <1>2, <1>3 DEF Red
    <2>2. i \in P /\ tree.parent[i] = s /\ i # s
      <3>1. i # Nil /\ s \in P /\ Side \in Sides
        BY <1>4, <2>1
      <3>. HIDE DEF s
      <3>. QED
        BY <1>3, <3>1, ChildFacts
    <2>3. tree.parent[k] = a /\ tree.parent[a] # s /\ s # a
      BY <1>4
    <2>. HIDE DEF i, k, a, s, P
    <2>. QED
      BY <2>1, <2>2, <2>3
  <1>6. /\ color' \in [Places -> {"BLACK", "RED"}] /\ color'[Nil] = "BLACK"
        /\ \A m \in Places : color'[m] = IF m = s THEN "RED"
                                         ELSE IF m = i THEN "BLACK" ELSE color[m]
    BY Zenon, <1>2, <1>3, <1>4, <1>5
  <1>7. /\ RotatedTo(tree', tree, s, o)
        /\ \E b : Shape(tree', P, b)
    BY Zenon, <1>2, <1>3, <1>4, <1>5, RotatedLinks, RotatedKeepsShape
  <1>8. tree.child[Other(o)][s] = i
    BY <1>4
  <1>9. /\ tree'.root = IF tree.root = s THEN i ELSE tree.root
        /\ \A z \in Sides : \A m \in Places \ {s, i} :
             tree'.child[z][m] = IF tree.child[z][m] = s THEN i ELSE tree.child[z][m]
        /\ tree'.parent[s] = i
        /\ x # Nil => tree'.parent[x] = s
        /\ \A m \in Places \ {s, i, x} : tree'.parent[m] = tree.parent[m]
    <2>1. x = tree.child[o][i]
      OBVIOUS
    <2>. HIDE DEF x, i, s, o
    <2>. QED
      BY <1>7, <1>8, <2>1 DEF RotatedTo
  <1>10. x # Nil => tree.parent[x] = i
    BY ZenonT(60), <1>3, <1>4, <1>5 DEF Shape, Downward
  <1>11. \A m \in P : tree.parent[m] = s => m = i \/ ~Red(color, m)
    <2>1. ASSUME NEW m \in P, tree.parent[m] = s PROVE m = i \/ ~Red(color, m)
      <3>1. PICK z \in Sides : tree.child[z][s] = m
        BY SMTT(60), <1>3, <1>4, <2>1 DEF Shape, Upward
      <3>. QED
        BY Zenon, <1>2, <1>4, <3>1
    <2>. QED
      BY <2>1
  <1>12. /\ Blackness(color', s) = 0 /\ Blackness(color', i) = Blackness(color, s)
         /\ \A m \in P \ {s, i} : color'[m] = color[m]
    BY Zenon, <1>2, <1>3, <1>4, <1>5, <1>6 DEF Blackness, Red
  <1>. HIDE DEF k, a, s, o, x, i, P
  <1>13. /\ \E w : Heights(tree', P, color', pc', curr', w)
         /\ tree'.parent[k] = a
    <2>1. /\ tree.child[Other(o)][s] # Nil
          /\ Red(color, tree.child[Other(o)][s])
          /\ Blackness(color', tree.child[Other(o)][s]) = Blackness(color, s)
          /\ \A m \in P \ {s, tree.child[Other(o)][s]} : color'[m] = color[m]
          /\ k \notin {s, tree.child[Other(o)][s]}
          /\ tree.parent[k] \notin {s, tree.child[Other(o)][s]}
      BY ZenonT(60), <1>2, <1>4, <1>5, <1>8, <1>12
    <2>2. /\ \E w : Heights(Rotated(tree, s, o), P, color', pc, k, w)
          /\ Rotated(tree, s, o).parent[k] = tree.parent[k]
      <3>1. /\ s \in P /\ o \in Sides /\ k \in Places
            /\ Shape(tree, P, below) /\ Heights(tree, P, color, pc, k, h)
            /\ Blackness(color', s) = 0 /\ pc = "delete"
        BY <1>3, <1>4, <1>12
      <3>2. Recolored(tree, P, s, tree.child[Other(o)][s], o, color, color', pc, k)
        <4>. DEFINE u == tree.child[Other(o)][s]
        <4>1. /\ Red(color, u) /\ Blackness(color', s) = 0
              /\ Blackness(color', u) = Blackness(color, s)
              /\ \A m \in P \ {s, u} : color'[m] = color[m]
              /\ k \notin {s, u} /\ tree.parent[k] \notin {s, u}
          BY Zenon, <2>1, <3>1
        <4>. HIDE DEF u
        <4>2. Recolored(tree, P, s, u, o, color, color', pc, k)
          BY Zenon, <4>1 DEF Recolored
        <4>. QED
          BY <4>2 DEF u
      <3>. QED
        <4>1. Turns(tree, P, below, s, o, color, color', pc, k, h)
          BY <2>1, <3>1, <3>2 DEF Turns
        <4>. QED
          BY <3>1, <4>1, RotatedKeepsHeights
    <2>. QED
      BY Zenon, <1>2, <1>4, <2>2
  <1>14. RedRule(tree', P, color', pc', curr')
    <2>1. ASSUME NEW m \in P, Red(color', m), Red(color', tree'.parent[m]) PROVE FALSE
      <3>1. m # i /\ m \in Places /\ i \in Places /\ s \in Places
        BY <1>3, <1>4, <1>5, <1>6, <2>1 DEF Red
      <3>2. m # s
        BY <1>5, <1>6, <1>9, <2>1, <3>1 DEF Red
      <3>3. Red(color, m)
        BY <1>6, <2>1, <3>1, <3>2 DEF Red
      <3>4. m # x
        BY <1>2, <1>3, <1>4, <1>10, <3>3
      <3>5. tree'.parent[m] = tree.parent[m] /\ tree.parent[m] \in Places
        BY <1>3, <1>9, <3>1, <3>2, <3>4 DEF Shape, Trees
      <3>6. tree.parent[m] # s
        BY <1>11, <3>1, <3>3
      <3>7. Red(color, tree.parent[m])
        BY <1>2, <1>6, <2>1, <3>5, <3>6 DEF Red
      <3>. QED
        BY <1>4, <3>3, <3>7
    <2>. QED
      BY <2>1 DEF RedRule
  <1>15. tree.root \notin {s, i} /\ tree.root \in Places
    <2>1. tree.root # Nil => tree.parent[tree.root] = Nil
      BY <1>3 DEF Shape, AtTop
    <2>. QED
      BY SMTT(60), <1>3, <1>4, <1>5, <2>1 DEF Shape, Trees
  <1>16. RootRule(tree', color', pc', curr')
    BY <1>4, <1>6, <1>9, <1>15 DEF RootRule, Red
  <1>17. CurrRule(tree', P, color', pc', curr') /\ curr' \in Places
    <2>1. Other(Side) = o /\ pc' # "insert"
      BY SMTT(60), <1>2, <1>4 DEF o
    <2>2. tree'.child[Side][a] = k /\ tree'.child[o][a] = i
      BY <1>3, <1>4, <1>5, <1>9
    <2>3. tree'.child[Side][tree'.parent[k]] = k /\ tree'.child[Other(Side)][tree'.parent[k]] # k
      BY <1>5, <1>13, <2>1, <2>2
    <2>4. tree'.parent[k] \in P
      BY <1>4, <1>13
    <2>. QED
      BY ZenonT(60), <1>2, <1>4, <2>1, <2>3, <2>4 DEF CurrRule
  <1>18. Colored(tree', P, color', pc', curr')
    BY Zenon, <1>2, <1>4, <1>6, <1>13, <1>14, <1>16, <1>17 DEF Colored
  <1>. QED
    BY <1>2, <1>7, <1>18, BalancingStep DEF P

LEMMA NephewOuterKeeps == RBInv /\ NephewOuter => RBInv'
PROOF
  <1>. SUFFICES ASSUME RBInv, NephewOuter PROVE RBInv'
    OBVIOUS
  <1>. DEFINE k == curr
              a == Above
              s == Sibling
              o == Other(Side)
              x == tree.child[Side][s]
              d == tree.child[o][s]
              P == Present
  <1>1. PICK below, h : BalancingAt(below, h)
    BY BalancingIsSomewhere
  <1>2. /\ DeleteRound /\ ~Red(color, s) /\ Red(color, d)
        /\ color' = [color EXCEPT ![s] = color[a], ![a] = "BLACK", ![d] = "BLACK"]
        /\ tree' = Rotated(tree, a, Side)
        /\ pc' = "idle" /\ curr' = Nil /\ UNCHANGED << count, nodes, returned >>
    BY DEF NephewOuter, OuterColors, Leaves, IsRed, Red, Outer
  <1>3. /\ Shape(tree, P, below) /\ Heights(tree, P, color, pc, k, h)
        /\ color \in [Places -> {"BLACK", "RED"}] /\ color[Nil] = "BLACK"
        /\ P \subseteq Places /\ Nil \in Places /\ Nil \notin P
    BY <1>1 DEF BalancingAt
  <1>4. /\ pc = "delete" /\ k \in Places /\ k # tree.root /\ ~Red(color, k)
        /\ a \in P /\ a = tree.parent[k]
        /\ Side \in Sides /\ o \in Sides /\ (\A z \in Sides : z \in {Side, o})
        /\ Side # o
        /\ tree.child[Side][a] = k /\ s = tree.child[o][a]
        /\ s \in P /\ tree.parent[s] = a
        /\ s # k /\ s # a /\ k # a /\ s # Nil
        /\ tree.parent[a] \notin {a, s}
        /\ h[a] = h[k] + 1 + Blackness(color, a) /\ h[s] = h[k] + 1
        /\ (\A m \in Places : h[m] \in Nat)
        /\ ~Red(color, tree.root)
        /\ \A m \in P : ~(Red(color, m) /\ Red(color, tree.parent[m]))
    BY <1>1, <1>2, DeleteFacts, SideFacts
  <1>5. \A m \in P : \A z \in Sides :
          /\ tree.child[z][m] \in P \cup {Nil} /\ tree.child[z][m] \in Places
          /\ tree.child[z][m] # Nil => tree.parent[tree.child[z][m]] = m
    BY <1>3 DEF Shape, Downward
  <1>6. /\ \E b : Shape(tree', P, b)
        /\ RotatedTo(tree', tree, a, Side)
        /\ s \notin below[d] /\ a \notin below[d]
        /\ x \in P \cup {Nil} /\ x \notin {a, s} /\ d \notin {a, s}
    <2>1. tree.child[Other(Side)][a] = s /\ s # Nil
      BY <1>4
    <2>2. /\ \E b : Shape(tree', P, b)
          /\ RotatedTo(tree', tree, a, Side)
      BY ZenonT(60), <1>2, <1>3, <1>4, <2>1, RotatedLinks, RotatedKeepsShape
    <2>3. /\ x \in P \cup {Nil} /\ x \notin {a, s} /\ d \notin {a, s}
          /\ a \notin below[s]
      <3>1. a \in P /\ Side \in Sides /\ tree.child[Other(Side)][a] = s
        BY <1>4
      <3>. HIDE DEF a, s
      <3>. QED
        <4>1. Turn(tree, P, below, a, Side)
          BY <1>3, <2>1, <3>1, TurnFacts
        <4>. QED
          BY <3>1, <4>1 DEF Turn
    <2>4. d # Nil
      BY <1>2, <1>3 DEF Red
    <2>5. below[d] \subseteq below[s] \ {s}
      <3>1. s \in P /\ o \in Sides
        BY <1>4
      <3>. HIDE DEF s, o
      <3>. QED
        BY <1>3, <2>4, <3>1, ChildFacts
    <2>. QED
      BY <2>2, <2>3, <2>5
  <1>7. /\ d \in P /\ d # Nil /\ tree.parent[d] = s
        /\ (x # Nil => tree.parent[x] = s) /\ x # d /\ d # k
    <2>1. d # Nil
      BY <1>2, <1>3 DEF Red
    <2>2. d \in P /\ tree.parent[d] = s /\ (x # Nil => tree.parent[x] = s)
      BY Zenon, <1>4, <1>5, <2>1
    <2>3. x # d
      <3>1. s \in P /\ Side \in Sides /\ o \in Sides /\ o = Other(Side)
        BY <1>4
      <3>2. s \in Keys /\ d \in Keys /\ Lies(o, d, s) /\ (x = d => Lies(Side, d, s))
        BY <1>3, <2>1, <2>2, <3>1, ShapeFacts, ChildFacts
      <3>. QED
        BY <3>1, <3>2, LiesFacts
    <2>4. d # k
      BY Zenon, <1>4, <2>2
    <2>. QED
      BY <2>1, <2>2, <2>3, <2>4
  <1>8. /\ color' \in [Places -> {"BLACK", "RED"}] /\ color'[Nil] = "BLACK"
        /\ \A m \in Places : color'[m] = IF m \in {a, d} THEN "BLACK"
                                         ELSE IF m = s THEN color[a] ELSE color[m]
    <2>1. a \in Places /\ s \in Places /\ d \in Places /\ a # s /\ d \notin {a, s}
      BY Zenon, <1>3, <1>4, <1>6, <1>7
    <2>2. s # Nil /\ color[a] \in {"BLACK", "RED"}
      BY <1>3, <1>4
    <2>. HIDE DEF a, s, d
    <2>. QED
      BY <1>2, <1>3, <2>1, <2>2
  <1>9. /\ tree'.root = IF tree.root = a THEN s ELSE tree.root
        /\ tree'.child[Side][s] = a /\ tree'.child[o][s] = d
        /\ tree'.child[Side][a] = k /\ tree'.child[o][a] = x
        /\ \A z \in Sides : \A m \in Places \ {a, s} :
             tree'.child[z][m] = IF tree.child[z][m] = a THEN s ELSE tree.child[z][m]
        /\ tree'.parent[s] = tree.parent[a] /\ tree'.parent[a] = s
        /\ x # Nil => tree'.parent[x] = a
        /\ \A m \in Places \ {a, s, x} : tree'.parent[m] = tree.parent[m]
    <2>1. /\ tree.child[Other(Side)][a] = s /\ o = Other(Side)
          /\ x = tree.child[Side][s] /\ d = tree.child[o][s] /\ tree.child[Side][a] = k
      BY <1>4
    <2>. HIDE DEF x, d, s, o, k, a
    <2>. QED
      BY <1>6, <2>1 DEF RotatedTo
  <1>10. \A m \in P : tree.parent[m] = s => m \in {x, d}
    <2>1. ASSUME NEW m \in P, tree.parent[m] = s PROVE m \in {x, d}
      <3>1. PICK z \in Sides : tree.child[z][s] = m
        BY ZenonT(60), <1>3, <1>4, <2>1 DEF Shape, Upward
      <3>. QED
        BY SMTT(60), <1>4, <3>1
    <2>. QED
      BY <2>1
  <1>11. \A m \in P : tree.parent[m] = a => m \in {k, s}
    <2>1. ASSUME NEW m \in P, tree.parent[m] = a PROVE m \in {k, s}
      <3>1. PICK z \in Sides : tree.child[z][a] = m
        BY <1>3, <1>4, <2>1 DEF Shape, Upward
      <3>. QED
        BY <1>4, <3>1
    <2>. QED
      BY <2>1
  <1>12. \A z \in Sides : tree.child[z][d] \notin {a, s, d}
    <2>1. \A z \in Sides : tree.child[z][d] # Nil =>
            tree.child[z][d] # d /\ tree.child[z][d] \in below[d]
      <3>1. d \in P
        BY <1>7
      <3>. HIDE DEF d
      <3>2. \A z \in Sides : tree.child[z][d] # Nil =>
              /\ tree.child[z][d] # d /\ tree.child[z][d] \in P
              /\ tree.child[z][d] \in below[tree.child[z][d]]
              /\ below[tree.child[z][d]] \subseteq below[d] \ {d}
        BY <1>3, <3>1, ChildFacts, ShapeFacts
      <3>. QED
        BY <3>2
    <2>2. a # Nil /\ s # Nil /\ d # Nil
      BY Zenon, <1>3, <1>4, <1>7
    <2>. HIDE DEF a, s, d
    <2>. QED
      BY <1>6, <2>1, <2>2
  <1>13. /\ h \in [Places -> Nat] /\ h[Nil] = 0
         /\ \A n \in P : \A z \in Sides :
              h[n] = h[tree.child[z][n]] + Gap(tree, pc, k, tree.child[z][n], n)
                       + Blackness(color, n)
    BY <1>3 DEF Heights
  <1>. DEFINE g == [h EXCEPT ![a] = h[k] + 1, ![s] = h[a], ![d] = h[d] + 1]
  <1>14. /\ g \in [Places -> Nat] /\ g[a] = h[k] + 1 /\ g[s] = h[a] /\ g[d] = h[d] + 1
         /\ \A m \in Places \ {a, s, d} : g[m] = h[m]
    <2>1. a \in Places /\ s \in Places /\ d \in Places /\ a # s /\ d \notin {a, s} /\ k \in Places
      BY Zenon, <1>3, <1>4, <1>6, <1>7
    <2>. HIDE DEF a, s, d, k
    <2>. QED
      BY <1>13, <2>1
  <1>. HIDE DEF k, a, s, o, x, d, P, g
  <1>15. /\ h[x] = h[k] /\ h[d] = h[k] /\ h[k] \in Nat
         /\ \A n \in P : \A z \in Sides : n # a =>
              h[n] = h[tree.child[z][n]] + Blackness(color, n)
    <2>1. \A n \in P : \A z \in Sides : n # a =>
              h[n] = h[tree.child[z][n]] + Blackness(color, n)
      <3>1. ASSUME NEW n \in P, NEW z \in Sides, n # a
            PROVE  h[n] = h[tree.child[z][n]] + Blackness(color, n)
        <4>1. Gap(tree, pc, k, tree.child[z][n], n) = 0
          BY <1>4, <3>1 DEF Gap
        <4>2. h[tree.child[z][n]] \in Nat
          BY <1>4, <1>5
        <4>3. h[n] = h[tree.child[z][n]] + Gap(tree, pc, k, tree.child[z][n], n)
                       + Blackness(color, n)
          BY <1>13
        <4>. QED
          BY <4>1, <4>2, <4>3 DEF Blackness
      <3>. QED
        BY <3>1
    <2>2. Blackness(color, s) = 1
      BY <1>2 DEF Blackness
    <2>3. h[s] = h[x] + 1 /\ h[s] = h[d] + 1
      <3>1. h[s] = h[tree.child[Side][s]] + 1 /\ h[s] = h[tree.child[o][s]] + 1
        BY <1>4, <2>1, <2>2
      <3>. QED
        BY <3>1 DEF x, d
    <2>4. h[x] \in Nat /\ h[d] \in Nat /\ h[k] \in Nat
      BY <1>3, <1>4, <1>6, <1>7
    <2>. QED
      BY <1>4, <2>1, <2>3, <2>4
  <1>16. ASSUME NEW n \in P, NEW z \in Sides
         PROVE  g[n] = g[tree'.child[z][n]] + Gap(tree', pc', curr', tree'.child[z][n], n)
                          + Blackness(color', n)
    <2>1. Gap(tree', pc', curr', tree'.child[z][n], n) = 0
      BY <1>2 DEF Gap
    <2>2. /\ Blackness(color', a) = 1 /\ Blackness(color', d) = 1
          /\ Blackness(color', s) = Blackness(color, a)
          /\ \A m \in P \ {a, s, d} : Blackness(color', m) = Blackness(color, m)
      <3>1. a \in Places /\ d \in Places /\ s \in Places /\ s \notin {a, d}
        BY <1>3, <1>4, <1>6, <1>7
      <3>. QED
        BY <1>3, <1>8, <3>1 DEF Blackness, Red
    <2>3. CASE n = s
      <3>1. h[a] = h[k] + 1 + Blackness(color, a)
        BY <1>4
      <3>2. tree'.child[z][n] \in {a, d}
        BY Zenon, <1>4, <1>9, <2>3
      <3>3. g[tree'.child[z][n]] = h[k] + 1
        BY <1>14, <1>15, <3>2
      <3>. QED
        BY <1>14, <1>15, <2>1, <2>2, <2>3, <3>1, <3>3 DEF Blackness
    <2>4. CASE n = a
      <3>1. tree'.child[z][n] \in {k, x}
        BY Zenon, <1>4, <1>9, <2>4
      <3>2. k \in Places /\ x \in Places /\ k \notin {a, s, d} /\ x \notin {a, s, d}
        BY <1>3, <1>4, <1>6, <1>7
      <3>3. g[tree'.child[z][n]] = h[k]
        BY <1>14, <1>15, <3>1, <3>2
      <3>. QED
        BY SMTT(60), <1>14, <1>15, <2>1, <2>2, <2>4, <3>3
    <2>5. CASE n = d
      <3>1. tree'.child[z][n] = tree.child[z][d] /\ tree.child[z][d] \in Places
        BY SMTT(60), <1>3, <1>5, <1>6, <1>7, <1>9, <1>12, <2>5
      <3>2. g[tree'.child[z][n]] = h[tree.child[z][d]] /\ h[tree.child[z][d]] \in Nat
        BY ZenonT(60), <1>4, <1>12, <1>14, <3>1
      <3>3. h[d] = h[tree.child[z][d]] + Blackness(color, d)
        BY <1>6, <1>7, <1>15
      <3>4. Blackness(color, d) = 0
        BY <1>2 DEF Blackness
      <3>. QED
        BY <1>14, <2>1, <2>2, <2>5, <3>2, <3>3, <3>4
    <2>6. CASE n \notin {a, s, d}
      <3>. DEFINE e == tree.child[z][n]
      <3>1. /\ e \in Places /\ h[e] \in Nat /\ (e # Nil => tree.parent[e] = n)
            /\ n \in Places
        BY <1>3, <1>4, <1>5
      <3>2. e # s /\ e # d
        BY <1>4, <1>7, <2>6, <3>1
      <3>3. tree'.child[z][n] = IF e = a THEN s ELSE e
        BY <1>9, <2>6, <3>1
      <3>4. h[n] = h[e] + Blackness(color, n) /\ Blackness(color, n) \in {0, 1}
        BY <1>15, <2>6 DEF Blackness
      <3>. HIDE DEF e
      <3>5. g[tree'.child[z][n]] = h[e] /\ g[n] = h[n]
        BY SMTT(60), <1>14, <2>6, <3>1, <3>2, <3>3
      <3>. QED
        BY <2>1, <2>2, <2>6, <3>1, <3>4, <3>5
    <2>. QED
      BY <2>3, <2>4, <2>5, <2>6
  <1>17. g[Nil] = 0
    BY <1>3, <1>4, <1>7, <1>13, <1>14
  <1>18. Heights(tree', P, color', pc', curr', g)
    BY <1>14, <1>16, <1>17 DEF Heights
  <1>19. RedRule(tree', P, color', pc', curr')
    <2>1. ASSUME NEW m \in P, Red(color', m), Red(color', tree'.parent[m]) PROVE FALSE
      <3>1. m \notin {a, d} /\ m \in Places /\ a \in Places /\ s \in Places /\ d \in Places
        BY <1>3, <1>4, <1>7, <1>8, <2>1 DEF Red
      <3>2. tree.parent[m] \in Places /\ tree.parent[a] \in Places
        BY <1>3, <3>1 DEF Shape, Trees
      <3>3. CASE m = s
        <4>1. Red(color, a) /\ tree'.parent[m] = tree.parent[a]
          BY <1>8, <1>9, <2>1, <3>1, <3>3 DEF Red
        <4>2. Red(color, tree.parent[a])
          BY <1>4, <1>8, <2>1, <3>2, <4>1 DEF Red
        <4>. QED
          BY <1>4, <4>1, <4>2
      <3>4. CASE m # s
        <4>1. Red(color, m)
          BY <1>8, <2>1, <3>1, <3>4 DEF Red
        <4>2. m # x
          BY <1>3, <1>8, <1>9, <2>1, <3>1 DEF Red
        <4>3. tree'.parent[m] = tree.parent[m]
          BY <1>9, <3>1, <3>4, <4>2
        <4>4. tree.parent[m] # s
          BY <1>10, <3>1, <4>2
        <4>5. Red(color, tree.parent[m])
          BY SMTT(60), <1>8, <2>1, <3>2, <4>3, <4>4 DEF Red
        <4>. QED
          BY <1>4, <4>1, <4>5
      <3>. QED
        BY SMTT(60), <3>3, <3>4
    <2>. QED
      BY <2>1 DEF RedRule
  <1>20. RootRule(tree', color', pc', curr')
    <2>1. tree.root \in Places /\ a \in Places /\ s \in Places /\ s \notin {a, d}
      BY <1>3, <1>4, <1>6 DEF Shape, Trees
    <2>2. tree.root # s
      <3>1. tree.root # Nil => tree.parent[tree.root] = Nil
        BY <1>3 DEF Shape, AtTop
      <3>. QED
        BY <1>3, <1>4, <3>1
    <2>3. ~Red(color, tree.root)
      BY <1>4
    <2>4. CASE tree.root = a
      <3>1. tree'.root = s /\ color'[s] = color[tree.root]
        BY <1>8, <1>9, <2>1, <2>4
      <3>. QED
        BY <2>3, <3>1 DEF RootRule, Red
    <2>5. CASE tree.root # a
      <3>1. /\ tree'.root = tree.root
            /\ color'[tree.root] \in {"BLACK", color[tree.root]}
        BY <1>8, <1>9, <2>1, <2>2, <2>5
      <3>. QED
        BY <2>3, <3>1 DEF RootRule, Red
    <2>. QED
      BY <2>4, <2>5
  <1>21. CurrRule(tree', P, color', pc', curr')
    BY <1>2 DEF CurrRule
  <1>22. Colored(tree', P, color', pc', curr')
    BY <1>2, <1>3, <1>8, <1>18, <1>19, <1>20, <1>21 DEF Colored
  <1>. QED
    BY <1>2, <1>6, <1>22, BalancingStep DEF P

-----------------------------------------------------------------------------
(* Insert and Delete: a node comes or goes. *)

LEMMA RBInsertKeeps ==
  ASSUME RBInv, NEW key \in Keys, RBInsert(key)
  PROVE  RBInv'
PROOF
  <1>. DEFINE P == Present
              Q == P \cup {key}
              above == ParentOf(key)
              sd == Toward(key, above)
  <1>1. PICK below, h : BalancingAt(below, h)
    BY BalancingIsSomewhere
  <1>2. /\ Shape(tree, P, below) /\ Heights(tree, P, color, pc, curr, h)
        /\ color \in [Places -> {"BLACK", "RED"}] /\ color[Nil] = "BLACK"
        /\ P \subseteq Places /\ Nil \in Places /\ Nil \notin P
    BY <1>1 DEF BalancingAt
  <1>3. /\ pc = "idle" /\ NewNode(key) /\ ~Find(key) /\ tree' = Attached(key)
        /\ color' = [color EXCEPT ![key] = IF above = Nil THEN "BLACK" ELSE "RED"]
        /\ \/ Red(color, above) /\ pc' = "insert" /\ curr' = key
           \/ ~Red(color, above) /\ pc' = "idle" /\ curr' = curr
    BY DEF RBInsert, NewNode, IsRed, Red
  <1>4. BstInv'
    BY <1>3, NewNodeKeepsInv DEF RBInv
  <1>5. Present' = Q
    <2>1. count \in [Keys -> 0..MaxSame] /\ count' = [count EXCEPT ![key] = 1]
      BY <1>3 DEF RBInv, BstInv, TreeTypeOK, NewNode
    <2>. QED
      BY <2>1 DEF Present
  <1>6. /\ key \notin P /\ key \in Places /\ key # Nil
        /\ \/ P = {} /\ above = Nil
           \/ above \in P /\ tree.child[sd][above] = Nil
    BY <1>2, <1>3, SearchFinds, SearchPasses, KeysAreNumbers DEF Places
  <1>7. sd \in Sides
    BY SideFacts
  <1>8. tree' = IF above = Nil THEN [tree EXCEPT !.root = key]
                ELSE [tree EXCEPT !.child[sd][above] = key, !.parent[key] = above]
    BY <1>3 DEF Attached
  <1>9. /\ RedRule(tree, P, color, pc, curr) /\ RootRule(tree, color, pc, curr)
        /\ curr \in Places
    BY DEF RBInv, Colored
  <1>. HIDE DEF P, above, sd
  <1>10. /\ \A m \in P : \A s \in Sides : /\ tree.child[s][m] \in P \cup {Nil}
                                          /\ tree.parent[m] \in P \cup {Nil}
         /\ \A s \in Sides : tree.child[s][key] = Nil
         /\ P # {} => tree.root \in P
    <2>1. P # {} => tree.root # Nil
      BY <1>2, ShapeFacts
    <2>2. tree.root \in P \cup {Nil}
      BY <1>2 DEF Shape, AtTop
    <2>. QED
      BY <1>2, <1>6, <2>1, <2>2 DEF Shape, Downward, Upward, Cleared
  <1>11. tree.child \in [Sides -> [Places -> Places]] /\ tree.parent \in [Places -> Places]
    BY <1>2 DEF Shape, Trees
  <1>12. /\ tree'.root = IF above = Nil THEN key ELSE tree.root
         /\ \A s \in Sides : \A m \in Places :
              tree'.child[s][m] = IF above # Nil /\ s = sd /\ m = above THEN key
                                  ELSE tree.child[s][m]
         /\ \A m \in P : tree'.parent[m] = tree.parent[m]
         /\ above # Nil => tree'.parent[key] = above
    <2>1. CASE above = Nil
      <3>1. tree' = [tree EXCEPT !.root = key]
        BY <1>8, <2>1
      <3>. QED
        BY <1>2, <2>1, <3>1 DEF Shape, Trees
    <2>2. CASE above # Nil
      <3>1. tree' = [tree EXCEPT !.child[sd][above] = key, !.parent[key] = above]
        BY <1>8, <2>2
      <3>2. /\ tree'.root = tree.root
            /\ tree'.child = [tree.child EXCEPT ![sd] = [@ EXCEPT ![above] = key]]
            /\ tree'.parent = [tree.parent EXCEPT ![key] = above]
        BY <1>2, <3>1 DEF Shape, Trees
      <3>. QED
        BY <1>2, <1>6, <1>7, <1>11, <2>2, <3>2
    <2>. QED
      BY <2>1, <2>2
  <1>13. /\ color' \in [Places -> {"BLACK", "RED"}] /\ color'[Nil] = "BLACK"
         /\ \A m \in Places : color'[m] = IF m = key
                                          THEN (IF above = Nil THEN "BLACK" ELSE "RED")
                                          ELSE color[m]
    BY <1>2, <1>3, <1>6
  <1>. DEFINE g == [h EXCEPT ![key] = Blackness(color', key)]
  <1>14. /\ h \in [Places -> Nat] /\ h[Nil] = 0
         /\ \A n \in P : \A s \in Sides : h[n] = h[tree.child[s][n]] + Blackness(color, n)
    <2>1. /\ h \in [Places -> Nat] /\ h[Nil] = 0
          /\ \A n \in P : \A s \in Sides : h[n] = h[tree.child[s][n]] + 0 + Blackness(color, n)
      <3>1. \A c, n : Gap(tree, pc, curr, c, n) = 0
        BY <1>3 DEF Gap
      <3>. QED
        BY <1>2, <3>1 DEF Heights
    <2>2. \A n \in P : \A s \in Sides : h[tree.child[s][n]] \in Nat
      BY <1>2, <1>10, <2>1
    <2>. QED
      BY <2>1, <2>2
  <1>15. /\ g \in [Places -> Nat] /\ g[key] = Blackness(color', key)
         /\ \A m \in Places \ {key} : g[m] = h[m]
    BY <1>6, <1>14 DEF Blackness
  <1>. HIDE DEF g
  <1>16. ASSUME NEW n \in Q, NEW s \in Sides
         PROVE  g[n] = g[tree'.child[s][n]] + Gap(tree', pc', curr', tree'.child[s][n], n)
                          + Blackness(color', n)
    <2>1. Gap(tree', pc', curr', tree'.child[s][n], n) = 0
      BY <1>3 DEF Gap
    <2>2. n # key => Blackness(color', n) = Blackness(color, n)
      BY <1>2, <1>13 DEF Blackness, Red
    <2>3. g[Nil] = 0 /\ Blackness(color', n) \in {0, 1}
      BY <1>2, <1>6, <1>14, <1>15 DEF Blackness
    <2>4. CASE n = key
      <3>1. tree'.child[s][n] = Nil
        BY <1>6, <1>10, <1>12, <2>4
      <3>. QED
        BY <1>15, <2>1, <2>3, <2>4, <3>1
    <2>5. CASE n # key /\ s = sd /\ n = above
      <3>1. tree'.child[s][n] = key /\ h[n] = 0 + Blackness(color, n) /\ above # Nil
        BY <1>2, <1>6, <1>12, <1>14, <2>5
      <3>2. g[key] = 0 /\ g[n] = h[n]
        BY <1>2, <1>6, <1>13, <1>15, <2>5, <3>1 DEF Blackness, Red
      <3>. QED
        BY <2>1, <2>2, <2>3, <2>5, <3>1, <3>2
    <2>6. CASE n # key /\ ~(s = sd /\ n = above)
      <3>1. /\ tree'.child[s][n] = tree.child[s][n] /\ tree.child[s][n] \in Places
            /\ tree.child[s][n] # key
        BY <1>2, <1>6, <1>10, <1>12, <2>6
      <3>2. /\ g[n] = h[n] /\ g[tree.child[s][n]] = h[tree.child[s][n]]
            /\ h[tree.child[s][n]] \in Nat
        BY <1>2, <1>14, <1>15, <2>6, <3>1
      <3>3. h[n] = h[tree.child[s][n]] + Blackness(color, n)
        BY <1>14, <2>6
      <3>. QED
        BY <2>1, <2>2, <2>3, <2>6, <3>1, <3>2, <3>3
    <2>. QED
      BY <2>4, <2>5, <2>6
  <1>17. Heights(tree', Q, color', pc', curr', g)
    <2>1. g[Nil] = 0
      BY <1>2, <1>6, <1>14, <1>15
    <2>. QED
      BY <1>15, <1>16, <2>1 DEF Heights
  <1>18. RedRule(tree', Q, color', pc', curr')
    <2>1. ASSUME NEW m \in Q, Red(color', m), Red(color', tree'.parent[m])
          PROVE  pc' = "insert" /\ m = curr'
      <3>1. CASE m = key
        <4>1. above # Nil /\ tree'.parent[m] = above
          BY <1>6, <1>12, <1>13, <2>1, <3>1 DEF Red
        <4>2. above \in P /\ above # key
          BY <1>6, <4>1
        <4>3. Red(color, above)
          BY <1>2, <1>13, <2>1, <4>1, <4>2 DEF Red
        <4>. QED
          BY <1>3, <3>1, <4>3
      <3>2. CASE m # key
        <4>1. /\ m \in P /\ tree'.parent[m] = tree.parent[m] /\ tree.parent[m] # key
              /\ tree.parent[m] \in Places
          BY <1>2, <1>6, <1>10, <1>12, <3>2, SideFacts
        <4>2. Red(color, m) /\ Red(color, tree.parent[m])
          BY <1>2, <1>13, <2>1, <3>2, <4>1 DEF Red
        <4>. QED
          BY <1>3, <1>9, <4>1, <4>2 DEF RedRule
      <3>. QED
        BY <3>1, <3>2
    <2>. QED
      BY <2>1 DEF RedRule
  <1>19. RootRule(tree', color', pc', curr')
    <2>1. CASE above = Nil
      BY <1>6, <1>12, <1>13, <2>1 DEF RootRule, Red
    <2>2. CASE above # Nil
      <3>1. tree'.root = tree.root /\ tree.root \in P /\ tree.root # key
        BY <1>6, <1>10, <1>12, <2>2
      <3>. QED
        BY <1>2, <1>3, <1>9, <1>13, <3>1 DEF RootRule, Red
    <2>. QED
      BY <2>1, <2>2
  <1>20. CurrRule(tree', Q, color', pc', curr') /\ curr' \in Places
    <2>1. Red(color, above) => above # Nil
      BY <1>2 DEF Red
    <2>. QED
      BY <1>3, <1>6, <1>9, <1>13, <2>1 DEF CurrRule, Red
  <1>21. Colored(tree', Q, color', pc', curr')
    BY <1>3, <1>13, <1>17, <1>18, <1>19, <1>20 DEF Colored
  <1>. QED
    BY <1>4, <1>5, <1>21 DEF RBInv

(* What the Parent of Nil_ is makes no difference to the shape.            *)
LEMMA ShapeIgnoresNil ==
  ASSUME NEW t, NEW P, NEW b, Shape(t, P, b), NEW u \in Trees,
         u.root = t.root, u.child = t.child,
         \A n \in Keys : u.parent[n] = t.parent[n]
  PROVE  Shape(u, P, b)
PROOF
  <1>1. /\ P \subseteq Keys /\ Nil \notin P /\ b \in [Places -> SUBSET Keys]
        /\ \A n \in P : b[n] \subseteq P
    BY ShapeFacts DEF Shape
  <1>2. Filled(u, P, b) /\ Ordered(u, P, b)
    BY DEF Shape, Filled, Ordered
  <1>3. AtTop(u, P, b)
    <2>1. t.root \in P \cup {Nil} /\ b[t.root] = P /\ (t.root # Nil => t.parent[t.root] = Nil)
      BY DEF Shape, AtTop
    <2>. QED
      BY <1>1, <2>1 DEF AtTop
  <1>4. Downward(u, P)
    <2>1. \A n \in P : \A s \in Sides : t.child[s][n] # Nil =>
            t.child[s][n] \in P /\ t.parent[t.child[s][n]] = n
      BY DEF Shape, Downward
    <2>. QED
      BY <1>1, <2>1 DEF Downward
  <1>5. Upward(u, P)
    BY <1>1 DEF Shape, Upward
  <1>6. Nested(u, P, b)
    <2>1. \A n \in P : \A m \in b[n] : b[m] \subseteq b[n] /\ (m # n => t.parent[m] \in b[n])
      BY DEF Shape, Nested
    <2>. QED
      BY <1>1, <2>1 DEF Nested
  <1>7. Cleared(u, P)
    BY DEF Shape, Cleared
  <1>. QED
    BY <1>1, <1>2, <1>3, <1>4, <1>5, <1>6, <1>7 DEF Shape

(* What is left when Spliced and Freed have taken away a node that has at  *)
(* most one child, x.                                                      *)
RemovedFrom(r, t, n, x) ==
  /\ r \in Trees
  /\ r.root = IF t.root = n THEN x ELSE t.root
  /\ \A s \in Sides : \A m \in Places :
       r.child[s][m] = IF m = n THEN Nil ELSE IF t.child[s][m] = n THEN x
                       ELSE t.child[s][m]
  /\ r.parent[x] = t.parent[n]
  /\ \A m \in Places \ {n, x} : r.parent[m] = t.parent[m]

LEMMA FreedIsRemoved ==
  ASSUME NEW P, NEW below, Shape(tree, P, below), NEW n \in P, ~HasTwo(n)
  PROVE  /\ Spliced(n, tree.parent[n]) \in Trees
         /\ RemovedFrom(Freed(Spliced(n, tree.parent[n]), n), tree, n, OnlyChild(n))
         /\ \E b : Shape(Freed(Spliced(n, tree.parent[n]), n), P \ {n}, b)
PROOF
  <1>. DEFINE x == OnlyChild(n)
              a == tree.parent[n]
              r == Relink(tree, a, n, x)
              q == BstSpliced(n, a)
              v == Spliced(n, a)
              w == Without(tree, n, x)
              f == Freed(v, n)
  <1>1. /\ q \in Trees /\ Freed(q, n) = w
        /\ \E e \in Sides : tree.child[e][n] = Nil /\ x = tree.child[Other(e)][n]
    BY FreedIsWithout
  <1>2. /\ tree \in Trees /\ n \in Places /\ n # Nil /\ a \in Places
        /\ x \in Places /\ x # n /\ Nil \in Places /\ P \subseteq Keys
    <2>1. tree \in Trees /\ n \in Places /\ n # Nil /\ Nil \in Places /\ P \subseteq Keys
      BY ZenonT(60), ShapeFacts DEF Shape, Places
    <2>2. x \in P \cup {Nil} /\ (x # Nil => x # n)
      BY <1>1, SideFacts, ChildFacts
    <2>3. a \in Places
      BY <2>1 DEF Trees
    <2>. HIDE DEF x
    <2>. QED
      BY <2>1, <2>2, <2>3 DEF Places
  <1>3. \E b : Shape(w, P \ {n}, b)
    BY <1>1, WithoutKeepsShape
  <1>4. r \in Trees
    BY <1>2, RelinkLinks
  <1>5. /\ q = [r EXCEPT !.parent[x] = IF x = Nil THEN @ ELSE a]
        /\ v = [r EXCEPT !.parent[x] = a]
    BY DEF BstSpliced, Spliced
  <1>. HIDE DEF x, a, r, q, v
  <1>6. /\ q.root = r.root /\ q.child = r.child
        /\ v.root = r.root /\ v.child = r.child
        /\ q.parent = [r.parent EXCEPT ![x] = IF x = Nil THEN @ ELSE a]
        /\ v.parent = [r.parent EXCEPT ![x] = a]
        /\ v = [root |-> v.root, child |-> v.child, parent |-> v.parent]
    BY <1>4, <1>5 DEF Trees
  <1>7. /\ r.root \in Places /\ r.child \in [Sides -> [Places -> Places]]
        /\ r.parent \in [Places -> Places]
    BY <1>4 DEF Trees
  <1>8. v \in Trees
    <2>1. v.parent \in [Places -> Places]
      BY <1>2, <1>6, <1>7
    <2>. QED
      BY <1>6, <1>7, <2>1 DEF Trees
  <1>9. /\ v.parent[x] = a
        /\ \A m \in Places \ {x} : v.parent[m] = q.parent[m]
        /\ x # Nil => q.parent[x] = a
    BY <1>2, <1>6, <1>7
  <1>10. /\ f.root = v.root
         /\ f.child = [v.child EXCEPT !["left"] = [@ EXCEPT ![n] = Nil],
                                      !["right"] = [@ EXCEPT ![n] = Nil]]
         /\ f.parent = [v.parent EXCEPT ![n] = Nil]
         /\ f = [root |-> f.root, child |-> f.child, parent |-> f.parent]
    <2>1. f = [v EXCEPT !.child["left"][n] = Nil, !.child["right"][n] = Nil,
                        !.parent[n] = Nil]
      BY DEF Freed
    <2>2. f.child = [v.child EXCEPT !["left"] = [@ EXCEPT ![n] = Nil],
                                    !["right"] = [@ EXCEPT ![n] = Nil]]
      BY <1>2, <1>8, <2>1, SideFacts DEF Trees
    <2>3. f.parent = [v.parent EXCEPT ![n] = Nil] /\ f.root = v.root
      BY <1>8, <2>1 DEF Trees
    <2>4. f = [root |-> f.root, child |-> f.child, parent |-> f.parent]
      BY <1>8, <2>1 DEF Trees
    <2>. QED
      BY <2>2, <2>3, <2>4
  <1>11. /\ w.root = q.root
         /\ w.child = [q.child EXCEPT !["left"] = [@ EXCEPT ![n] = Nil],
                                      !["right"] = [@ EXCEPT ![n] = Nil]]
         /\ w.parent = [q.parent EXCEPT ![n] = Nil]
    BY <1>1, <1>2, SideFacts DEF Freed, Trees
  <1>12. /\ w \in Trees
         /\ w.root = IF tree.root = n THEN x ELSE tree.root
         /\ \A s \in Sides : \A m \in Places :
              w.child[s][m] = IF m = n THEN Nil ELSE IF tree.child[s][m] = n THEN x
                              ELSE tree.child[s][m]
         /\ \A m \in Places : w.parent[m] = IF m = n THEN Nil
                                            ELSE IF m = x /\ x # Nil THEN a
                                            ELSE tree.parent[m]
    BY <1>2 DEF Without, Trees, a
  <1>. HIDE DEF w, f
  <1>13. f.root = w.root /\ f.child = w.child
    BY <1>6, <1>10, <1>11
  <1>14. /\ f.parent \in [Places -> Places] /\ f.parent[x] = a
         /\ \A m \in Places \ {x} : f.parent[m] = w.parent[m]
    <2>1. v.parent \in [Places -> Places] /\ q.parent \in [Places -> Places]
      BY <1>1, <1>8 DEF Trees
    <2>. QED
      BY <1>2, <1>9, <1>10, <1>11, <2>1
  <1>15. f \in Trees
    <2>1. w.root \in Places /\ w.child \in [Sides -> [Places -> Places]]
      BY <1>12 DEF Trees
    <2>. QED
      BY <1>10, <1>13, <1>14, <2>1 DEF Trees
  <1>16. RemovedFrom(f, tree, n, x)
    BY <1>2, <1>12, <1>13, <1>14, <1>15 DEF RemovedFrom, a
  <1>17. \A m \in Keys : f.parent[m] = w.parent[m]
    <2>1. \A m \in Keys : m \in Places /\ m # Nil
      BY KeysAreNumbers DEF Places
    <2>. QED
      BY <1>2, <1>12, <1>14, <2>1
  <1>18. \E b : Shape(f, P \ {n}, b)
    BY <1>3, <1>13, <1>15, <1>17, ShapeIgnoresNil
  <1>. QED
    BY <1>8, <1>16, <1>18 DEF f, v, x, a

-----------------------------------------------------------------------------
(* A node that has at most one child is taken away: if it was black, that  *)
(* is where RedBlackBalancing begins.                                      *)
LEMMA RemovedColored ==
  ASSUME NEW t, NEW P, NEW below, Shape(t, P, below),
         NEW col, NEW k0, Colored(t, P, col, "idle", k0),
         NEW n \in P, NEW e \in Sides, t.child[e][n] = Nil,
         NEW r, RemovedFrom(r, t, n, t.child[Other(e)][n]),
         NEW col1 \in [Places -> {"BLACK", "RED"}], col1[Nil] = "BLACK",
         \A m \in P \ {n} : col1[m] = IF m = t.child[Other(e)][n] /\ n = t.root
                                      THEN "BLACK" ELSE col[m],
         NEW p, p = IF Red(col, n) THEN "idle" ELSE "delete",
         NEW k \in Places, p = "delete" => k = t.child[Other(e)][n]
  PROVE  Colored(r, P \ {n}, col1, p, k)
PROOF
  <1>. DEFINE o == Other(e)
              x == t.child[o][n]
              a == t.parent[n]
              Q == P \ {n}
  <1>1. /\ P \subseteq Places /\ Nil \in Places /\ Nil \notin P /\ n \in Places /\ n # Nil
        /\ o \in Sides /\ \A s \in Sides : s = e \/ s = o
    BY ShapeFacts, SideFacts DEF Places
  <1>2. /\ \A m \in P : \A s \in Sides :
             /\ t.child[s][m] \in P \cup {Nil} /\ t.child[s][m] # m
             /\ t.child[s][m] # Nil => t.parent[t.child[s][m]] = m
        /\ \A m \in P : t.parent[m] # Nil =>
             /\ t.parent[m] \in P /\ \E s \in Sides : t.child[s][t.parent[m]] = m
        /\ n = t.root <=> a = Nil
        /\ t.root \in P /\ t.parent[t.root] = Nil
    <2>1. t.root \in P /\ t.parent[t.root] = Nil
      BY <1>1, ShapeFacts DEF Shape, AtTop
    <2>2. \A m \in P : \A s \in Sides :
             /\ t.child[s][m] \in P \cup {Nil}
             /\ t.child[s][m] # Nil => t.parent[t.child[s][m]] = m
      BY DEF Shape, Downward
    <2>3. \A m \in P : \A s \in Sides : t.child[s][m] # m
      BY <1>1, ChildFacts
    <2>4. \A m \in P : t.parent[m] # Nil =>
             /\ t.parent[m] \in P /\ \E s \in Sides : t.child[s][t.parent[m]] = m
      BY DEF Shape, Upward
    <2>5. a = Nil => n = t.root
      BY DEF Shape, Upward
    <2>. QED
      BY <2>1, <2>2, <2>3, <2>4, <2>5
  <1>3. /\ x \in P \cup {Nil} /\ x # n /\ x \in Places
        /\ x # Nil => t.parent[x] = n /\ x # t.root
    BY <1>1, <1>2
  <1>4. /\ r.root = IF t.root = n THEN x ELSE t.root
        /\ \A s \in Sides : \A m \in Q : r.child[s][m] = IF t.child[s][m] = n THEN x
                                                         ELSE t.child[s][m]
        /\ r.parent[x] = a
        /\ \A m \in Q \ {x} : r.parent[m] = t.parent[m]
    BY <1>1 DEF RemovedFrom
  <1>5. /\ col \in [Places -> {"BLACK", "RED"}] /\ col[Nil] = "BLACK"
        /\ \A m \in P : ~(Red(col, m) /\ Red(col, t.parent[m]))
        /\ ~Red(col, t.root)
    BY DEF Colored, RedRule, RootRule
  <1>6. PICK h : Heights(t, P, col, "idle", k0, h)
    BY DEF Colored
  <1>7. /\ h \in [Places -> Nat] /\ h[Nil] = 0
        /\ \A m \in P : \A s \in Sides : h[m] = h[t.child[s][m]] + Blackness(col, m)
    <2>1. /\ h \in [Places -> Nat] /\ h[Nil] = 0
          /\ \A m \in P : \A s \in Sides : h[m] = h[t.child[s][m]] + 0 + Blackness(col, m)
      <3>1. \A c, m : Gap(t, "idle", k0, c, m) = 0
        BY DEF Gap
      <3>. QED
        BY <1>6, <3>1 DEF Heights
    <2>2. \A m \in P : \A s \in Sides : h[t.child[s][m]] \in Nat
      BY <1>1, <1>2, <2>1
    <2>. QED
      BY <2>1, <2>2
  <1>8. /\ \A m \in Q : col1[m] = IF m = x /\ n = t.root THEN "BLACK" ELSE col[m]
        /\ p = IF Red(col, n) THEN "idle" ELSE "delete"
        /\ p = "delete" => k = x
        /\ k \in Places
    OBVIOUS
  <1>9. \A m \in Places : h[m] \in Nat
    BY <1>7
  <1>. HIDE DEF o, x, a
  <1>10. a # Nil /\ p = "delete" => \A s \in Sides : t.child[s][a] # n => t.child[s][a] # x
    <2>1. SUFFICES ASSUME a # Nil, p = "delete", NEW s \in Sides,
                          t.child[s][a] # n, t.child[s][a] = x
                   PROVE  FALSE
      OBVIOUS
    <2>2. a \in P /\ a # n
      BY <1>1, <1>2, <2>1 DEF a
    <2>3. PICK z \in Sides : t.child[z][a] = n
      BY <1>2, <2>1 DEF a
    <2>4. x = Nil
      BY <1>2, <1>3, <2>1, <2>2
    <2>5. h[a] = 0 + Blackness(col, a)
      BY <1>7, <2>1, <2>2, <2>4
    <2>6. h[a] = h[n] + Blackness(col, a)
      BY <1>7, <2>2, <2>3
    <2>7. h[n] = h[x] + 1
      BY <1>1, <1>7, <1>8, <2>1 DEF Blackness, x
    <2>8. Blackness(col, a) \in {0, 1} /\ h[n] \in Nat /\ h[x] = 0
      BY <1>1, <1>7, <1>9, <2>4 DEF Blackness
    <2>. QED
      BY <2>5, <2>6, <2>7, <2>8
  <1>. DEFINE g == IF n = t.root /\ x # Nil /\ Red(col, x) THEN [h EXCEPT ![x] = h[x] + 1]
                   ELSE h
  <1>11. /\ g \in [Places -> Nat] /\ g[Nil] = 0
         /\ \A m \in Places : g[m] = IF m = x /\ n = t.root /\ x # Nil /\ Red(col, x)
                                     THEN h[x] + 1 ELSE h[m]
    BY <1>1, <1>3, <1>7, <1>9
  <1>. HIDE DEF g
  <1>12. ASSUME NEW m \in Q, NEW s \in Sides
         PROVE  g[m] = g[r.child[s][m]] + Gap(r, p, k, r.child[s][m], m) + Blackness(col1, m)
    <2>1. CASE t.child[s][m] = n
      <3>1. m = a /\ a # Nil /\ n # t.root
        BY <1>1, <1>2, <2>1 DEF a
      <3>2. r.child[s][m] = x
        BY <1>4, <2>1
      <3>3. g[m] = h[m] /\ g[x] = h[x] /\ Blackness(col1, m) = Blackness(col, m)
        BY <1>1, <1>3, <1>8, <1>11, <3>1 DEF Blackness, Red
      <3>4. h[m] = h[n] + Blackness(col, m) /\ h[n] = h[x] + Blackness(col, n)
        BY <1>1, <1>7, <2>1 DEF x
      <3>5. Gap(r, p, k, x, m) = Blackness(col, n)
        BY <1>4, <1>8, <3>1 DEF Gap, Blackness
      <3>6. h[x] \in Nat /\ Blackness(col, n) \in {0, 1} /\ Blackness(col, m) \in {0, 1}
        BY <1>3, <1>9 DEF Blackness
      <3>. QED
        BY <3>2, <3>3, <3>4, <3>5, <3>6
    <2>2. CASE t.child[s][m] # n
      <3>. DEFINE c == t.child[s][m]
      <3>1. r.child[s][m] = c
        BY <1>4, <2>2
      <3>2. Gap(r, p, k, c, m) = 0
        BY <1>1, <1>4, <1>8, <1>10, <2>2 DEF Gap
      <3>3. h[m] = h[c] + Blackness(col, m)
        BY <1>7
      <3>4. /\ c \in Places /\ c # m /\ m \in Places /\ m # n /\ m # Nil
            /\ c # Nil => t.parent[c] = m
        BY <1>1, <1>2
      <3>. HIDE DEF c
      <3>5. h[c] \in Nat /\ h[m] \in Nat /\ h[x] \in Nat /\ Blackness(col, m) \in {0, 1}
        BY <1>3, <1>9, <3>4 DEF Blackness
      <3>6. CASE m = x /\ n = t.root /\ Red(col, x)
        <4>1. g[m] = h[m] + 1 /\ g[c] = h[c]
          BY <1>11, <3>4, <3>6
        <4>2. Blackness(col, m) = 0 /\ Blackness(col1, m) = 1
          BY <1>8, <3>6 DEF Blackness, Red
        <4>. QED
          BY <3>1, <3>2, <3>3, <3>5, <4>1, <4>2
      <3>7. CASE ~(m = x /\ n = t.root /\ Red(col, x))
        <4>1. g[m] = h[m]
          BY <1>11, <3>4, <3>7
        <4>2. g[c] = h[c]
          <5>1. c = x /\ x # Nil => FALSE
            BY <1>3, <3>4
          <5>. QED
            BY <1>11, <3>4, <5>1
        <4>3. Blackness(col1, m) = Blackness(col, m)
          BY <1>8, <3>7 DEF Blackness, Red
        <4>. QED
          BY <3>1, <3>2, <3>3, <3>5, <4>1, <4>2, <4>3
      <3>. QED
        BY <3>6, <3>7
    <2>. QED
      BY <2>1, <2>2
  <1>13. Heights(r, Q, col1, p, k, g)
    BY <1>11, <1>12 DEF Heights
  <1>14. \A m \in Q : Red(col1, m) => Red(col, m)
    BY <1>8 DEF Red
  <1>15. RedRule(r, Q, col1, p, k)
    <2>1. SUFFICES ASSUME NEW m \in Q, Red(col1, m), Red(col1, r.parent[m])
                   PROVE  p = "delete" /\ k # r.root /\ k = m
      BY DEF RedRule
    <2>2. CASE m = x
      <3>1. r.parent[m] = a /\ a # Nil
        BY <1>4, <2>1, <2>2 DEF Red
      <3>2. a \in Q /\ n # t.root
        BY <1>1, <1>2, <3>1 DEF a
      <3>3. Red(col, a)
        BY <1>14, <2>1, <3>1, <3>2
      <3>4. ~Red(col, n)
        BY <1>5, <3>3 DEF a
      <3>5. x # t.root
        BY <1>1, <1>3, <2>2
      <3>. QED
        BY <1>4, <1>8, <2>2, <3>2, <3>4, <3>5
    <2>3. CASE m # x
      <3>1. r.parent[m] = t.parent[m] /\ t.parent[m] # Nil
        BY <1>4, <2>1, <2>3 DEF Red
      <3>2. t.parent[m] \in P /\ \E s \in Sides : t.child[s][t.parent[m]] = m
        BY <1>2, <3>1
      <3>3. t.parent[m] # n
        <4>1. t.child[e][n] = Nil /\ t.child[o][n] = x
          BY DEF x
        <4>. QED
          BY <1>1, <2>3, <3>2, <4>1
      <3>. QED
        BY <1>5, <1>14, <2>1, <3>1, <3>2, <3>3
    <2>. QED
      BY <2>2, <2>3
  <1>16. RootRule(r, col1, p, k)
    <2>1. CASE n = t.root
      BY <1>3, <1>4, <1>8, <2>1 DEF RootRule, Red
    <2>2. CASE n # t.root
      BY <1>2, <1>4, <1>5, <1>14, <2>2 DEF RootRule
    <2>. QED
      BY <2>1, <2>2
  <1>17. CurrRule(r, Q, col1, p, k)
    <2>1. SUFFICES ASSUME p = "delete", k # r.root
                   PROVE  /\ r.parent[k] \in Q
                          /\ \E s \in Sides : /\ r.child[s][r.parent[k]] = k
                                              /\ r.child[Other(s)][r.parent[k]] # k
      BY <1>8 DEF CurrRule
    <2>2. k = x /\ r.parent[k] = a /\ n # t.root
      BY <1>4, <1>8, <2>1
    <2>3. a \in Q /\ a \in P /\ a # Nil
      BY <1>1, <1>2, <2>2 DEF a
    <2>4. PICK s \in Sides : t.child[s][a] = n
      BY <1>2, <2>3 DEF a
    <2>5. Other(s) \in Sides /\ t.child[Other(s)][a] # n
      <3>1. Other(s) \in Sides /\ n \in Keys /\ a \in Keys
        BY <2>3, SideFacts, ShapeFacts
      <3>2. Lies(s, n, a)
        BY <1>1, <2>3, <2>4, ChildFacts
      <3>3. t.child[Other(s)][a] = n => Lies(Other(s), n, a)
        BY <1>1, <2>3, <3>1, ChildFacts
      <3>. QED
        BY <3>1, <3>2, <3>3, LiesFacts
    <2>6. r.child[s][a] = x /\ r.child[Other(s)][a] # x
      BY <1>4, <1>10, <2>1, <2>3, <2>4, <2>5
    <2>. QED
      BY <2>2, <2>3, <2>6
  <1>18. p \in {"idle", "insert", "delete"}
    BY <1>8
  <1>. QED
    BY <1>13, <1>15, <1>16, <1>17, <1>18 DEF Colored

-----------------------------------------------------------------------------
(* The node of d takes the name s, and keeps its color.                    *)
LEMMA RenamedColored ==
  ASSUME NEW t, NEW P, NEW below, Shape(t, P, below),
         NEW col, NEW p \in {"idle", "delete"}, NEW k, Colored(t, P, col, p, k),
         NEW d \in P, NEW s \in Keys \ P, p = "delete" => k \notin {d, s},
         NEW col1 \in [Places -> {"BLACK", "RED"}], col1[Nil] = "BLACK",
         col1[s] = col[d], \A m \in P \ {d} : col1[m] = col[m]
  PROVE  Colored(Renamed(t, d, s), (P \ {d}) \cup {s}, col1, p, k)
PROOF
  <1>. DEFINE Name(n) == IF n = d THEN s ELSE n
              From(n) == IF n = s THEN d ELSE n
              u == Renamed(t, d, s)
              Q == (P \ {d}) \cup {s}
  <1>1. /\ P \subseteq Places /\ Nil \in Places /\ Nil \notin P /\ d # s
        /\ d # Nil /\ s # Nil /\ d \in Places /\ s \in Places /\ Nil \notin Q
        /\ d \notin Q /\ s \in Q /\ Q \subseteq Places
    BY ShapeFacts, KeysAreNumbers DEF Places
  <1>2. /\ \A n \in Q : From(n) \in P /\ Name(From(n)) = n
        /\ \A n \in P : Name(n) \in Q /\ From(Name(n)) = n
        /\ From(Nil) = Nil /\ Name(Nil) = Nil
        /\ \A n \in Places \ {d, s} : From(n) = n /\ Name(n) = n
        /\ \A n \in P \cup {Nil} : n # d => Name(n) = n
        /\ \A n, m \in P \cup {Nil} : Name(n) = Name(m) => n = m
    BY <1>1
  <1>3. /\ \A z \in Sides : \A n \in P : t.child[z][n] \in P \cup {Nil}
        /\ \A n \in P : t.parent[n] \in P \cup {Nil}
        /\ t.root \in P /\ t.parent[t.root] = Nil
    <2>1. t.root \in P /\ t.parent[t.root] = Nil
      BY <1>1, ShapeFacts DEF Shape, AtTop
    <2>. QED
      BY <2>1 DEF Shape, Downward, Upward
  <1>4. /\ u.root = Name(t.root)
        /\ u.child = [z \in Sides |->
             [n \in Places |-> IF n = d THEN Nil ELSE IF n = s THEN Name(t.child[z][d])
                               ELSE Name(t.child[z][n])]]
        /\ u.parent =
             [n \in Places |-> IF n = d THEN Nil ELSE IF n = s THEN Name(t.parent[d])
                               ELSE Name(t.parent[n])]
    BY DEF Renamed
  <1>. HIDE DEF u, Name
  <1>5. /\ \A z \in Sides : \A n \in Q : u.child[z][n] = Name(t.child[z][From(n)])
        /\ \A n \in Q : u.parent[n] = Name(t.parent[From(n)])
        /\ \A n \in Places \ {s, d} : u.parent[n] = Name(t.parent[n])
    BY <1>1, <1>4
  <1>6. \A n \in Q : col1[n] = col[From(n)]
    BY <1>1
  <1>. HIDE DEF From, Q
  <1>7. /\ col[Nil] = "BLACK" /\ ~Red(col, t.root)
        /\ k \in Places /\ (p = "delete" => k # d /\ k # s)
    BY DEF Colored, RootRule
  <1>8. PICK h : Heights(t, P, col, p, k, h)
    BY DEF Colored
  <1>9. /\ h \in [Places -> Nat] /\ h[Nil] = 0
        /\ \A n \in P : \A z \in Sides :
             h[n] = h[t.child[z][n]] + Gap(t, p, k, t.child[z][n], n) + Blackness(col, n)
    BY <1>8 DEF Heights
  (* Where the balancing is keeps its name.                                *)
  <1>10. ASSUME p = "delete"
         PROVE  /\ u.parent[k] = Name(t.parent[k]) /\ t.parent[k] \in P \cup {Nil}
                /\ u.root = k <=> t.root = k
                /\ \A c \in P \cup {Nil} : Name(c) = k <=> c = k
                /\ k = t.root \/ t.parent[k] \in P
    <2>1. k \in Places \ {s, d}
      BY <1>7, <1>10
    <2>2. k = t.root \/ t.parent[k] \in P
      BY <1>10 DEF Colored, CurrRule
    <2>3. \A c \in P \cup {Nil} : Name(c) = k <=> c = k
      BY <2>1 DEF Name
    <2>. QED
      BY <1>3, <1>4, <1>5, <2>1, <2>2, <2>3
  <1>. DEFINE g == [n \in Places |-> IF n = s THEN h[d] ELSE h[n]]
  <1>11. /\ g \in [Places -> Nat] /\ g[Nil] = 0
         /\ \A n \in P \cup {Nil} : g[Name(n)] = h[n]
    <2>1. g \in [Places -> Nat] /\ g[Nil] = 0 /\ g[s] = h[d]
          /\ \A n \in Places \ {s} : g[n] = h[n]
      BY <1>1, <1>9
    <2>2. Name(d) = s /\ s \notin P \cup {Nil}
      BY <1>1 DEF Name
    <2>. HIDE DEF g
    <2>. QED
      BY <1>1, <1>2, <2>1, <2>2
  <1>. HIDE DEF g
  <1>12. ASSUME NEW n \in Q, NEW z \in Sides
         PROVE  g[n] = g[u.child[z][n]] + Gap(u, p, k, u.child[z][n], n) + Blackness(col1, n)
    <2>. DEFINE m == From(n)
                c == t.child[z][m]
    <2>1. m \in P /\ Name(m) = n /\ c \in P \cup {Nil} /\ u.child[z][n] = Name(c)
      BY <1>2, <1>3, <1>5
    <2>2. Blackness(col1, n) = Blackness(col, m)
      BY <1>6 DEF Blackness, Red
    <2>3. h[m] = h[c] + Gap(t, p, k, c, m) + Blackness(col, m)
      BY <1>9, <2>1
    <2>. HIDE DEF m, c
    <2>4. Gap(u, p, k, Name(c), n) = Gap(t, p, k, c, m)
      <3>1. CASE p # "delete" \/ c # k
        BY <1>10, <2>1, <3>1 DEF Gap
      <3>2. CASE p = "delete" /\ c = k
        <4>1. Name(c) = k /\ u.parent[k] = Name(t.parent[k]) /\ t.parent[k] \in P \cup {Nil}
          BY <1>10, <2>1, <3>2
        <4>2. n = u.parent[k] <=> m = t.parent[k]
          BY <1>2, <2>1, <4>1
        <4>. QED
          BY <3>2, <4>1, <4>2 DEF Gap
      <3>. QED
        BY <3>1, <3>2
    <2>5. g[n] = h[m] /\ g[Name(c)] = h[c]
      BY <1>11, <2>1
    <2>. QED
      BY <2>1, <2>2, <2>3, <2>4, <2>5
  <1>13. Heights(u, Q, col1, p, k, g)
    BY <1>11, <1>12 DEF Heights
  <1>14. RedRule(u, Q, col1, p, k)
    <2>1. SUFFICES ASSUME NEW n \in Q, Red(col1, n), Red(col1, u.parent[n])
                   PROVE  p = "delete" /\ k # u.root /\ k \in {n, u.parent[n]}
      BY DEF RedRule
    <2>. DEFINE m == From(n)
                y == t.parent[m]
    <2>2. m \in P /\ Name(m) = n /\ Red(col, m) /\ y \in P \cup {Nil} /\ u.parent[n] = Name(y)
      BY <1>2, <1>3, <1>5, <1>6, <2>1 DEF Red
    <2>. HIDE DEF y
    <2>3. y # Nil
      BY <1>2, <2>1, <2>2 DEF Red
    <2>4. Name(y) \in Q /\ From(Name(y)) = y
      BY <1>2, <2>2, <2>3
    <2>5. Red(col, y)
      BY <1>6, <2>1, <2>2, <2>4 DEF Red
    <2>. HIDE DEF m
    <2>6. p = "delete" /\ k # t.root /\ k \in {m, y}
      <3>1. RedRule(t, P, col, p, k) /\ y = t.parent[m]
        BY DEF Colored, y, m
      <3>. QED
        BY <2>2, <2>5, <3>1 DEF RedRule
    <2>. QED
      BY <1>10, <2>2, <2>6
  <1>15. RootRule(u, col1, p, k)
    <2>1. u.root \in Q /\ From(u.root) = t.root
      BY <1>2, <1>3, <1>4
    <2>. QED
      BY <1>6, <1>7, <2>1 DEF RootRule, Red
  <1>16. CurrRule(u, Q, col1, p, k)
    <2>1. SUFFICES ASSUME p = "delete", k # u.root
                   PROVE  /\ u.parent[k] \in Q
                          /\ \E z \in Sides : /\ u.child[z][u.parent[k]] = k
                                              /\ u.child[Other(z)][u.parent[k]] # k
      BY DEF CurrRule
    <2>2. k # t.root
      BY <1>10, <2>1
    <2>. DEFINE y == t.parent[k]
    <2>3. y \in P
      BY <1>10, <2>1, <2>2
    <2>4. PICK z \in Sides : t.child[z][y] = k /\ t.child[Other(z)][y] # k
      BY <2>1, <2>2 DEF Colored, CurrRule
    <2>5. u.parent[k] = Name(y) /\ Name(y) \in Q /\ From(Name(y)) = y
      BY <1>2, <1>10, <2>1, <2>3
    <2>. HIDE DEF y
    <2>6. \A v \in Sides : u.child[v][Name(y)] = Name(t.child[v][y])
      BY <1>5, <2>5
    <2>7. Other(z) \in Sides
      BY SideFacts
    <2>8. \A v \in Sides : Name(t.child[v][y]) = k <=> t.child[v][y] = k
      BY <1>3, <1>10, <2>1, <2>3
    <2>. QED
      BY <2>4, <2>5, <2>6, <2>7, <2>8
  <1>17. Colored(u, Q, col1, p, k)
    BY <1>7, <1>13, <1>14, <1>15, <1>16 DEF Colored
  <1>. QED
    BY <1>17 DEF u, Q

-----------------------------------------------------------------------------
LEMMA RBInsertAgainKeeps ==
  ASSUME RBInv, NEW key \in Keys, RBInsertAgain(key)
  PROVE  RBInv'
PROOF
  <1>1. InsertAgain(key) /\ UNCHANGED << color, pc, curr >>
    BY DEF RBInsertAgain
  <1>2. BstInv'
    BY <1>1, InsertAgainKeepsInv DEF RBInv
  <1>3. Present' = Present /\ tree' = tree
    <2>1. /\ BstInv /\ count \in [Keys -> 0..MaxSame] /\ tree' = tree
          /\ count' = [count EXCEPT ![key] = @ + 1]
      BY <1>1 DEF RBInv, BstInv, TreeTypeOK, InsertAgain
    <2>2. key \in Present
      <3>1. PICK below : Shape(tree, Present, below)
        BY <2>1 DEF BstInv
      <3>. QED
        BY <1>1, <3>1, SearchFinds DEF InsertAgain
    <2>3. ASSUME NEW k \in Keys PROVE (count'[k] > 0) <=> (count[k] > 0)
      BY <2>1, <2>2, SameBounds DEF Present
    <2>. QED
      BY <2>1, <2>3 DEF Present
  <1>4. Colored(tree, Present, color, pc, curr)
    BY DEF RBInv
  <1>5. Colored(tree', Present', color', pc', curr')
    BY <1>1, <1>3, <1>4
  <1>. QED
    BY <1>2, <1>5 DEF RBInv

LEMMA RBDeleteMissingKeeps ==
  ASSUME RBInv, NEW key \in Keys, RBDeleteMissing(key)
  PROVE  RBInv'
PROOF
  <1>1. DeleteMissing(key) /\ UNCHANGED << color, pc, curr >>
    BY DEF RBDeleteMissing
  <1>2. BstInv'
    BY <1>1, DeleteMissingKeepsInv DEF RBInv
  <1>3. Present' = Present /\ tree' = tree
    BY <1>1 DEF DeleteMissing, Present
  <1>4. Colored(tree, Present, color, pc, curr)
    BY DEF RBInv
  <1>5. Colored(tree', Present', color', pc', curr')
    BY <1>1, <1>3, <1>4
  <1>. QED
    BY <1>2, <1>5 DEF RBInv

LEMMA RBDeleteOneKeeps ==
  ASSUME RBInv, NEW key \in Keys, RBDeleteOne(key)
  PROVE  RBInv'
PROOF
  <1>. DEFINE x == OnlyChild(key)
              P == Present
              Q == P \ {key}
  <1>1. PICK below : Shape(tree, P, below)
    BY DEF RBInv, BstInv
  <1>2. /\ pc = "idle" /\ Find(key) /\ ~HasTwo(key) /\ CountDeleted(key)
        /\ tree' = Freed(Spliced(key, ParentOf(key)), key)
        /\ color' = [color EXCEPT ![x] = IF key = tree.root THEN "BLACK" ELSE @,
                                  ![key] = "BLACK"]
        /\ \/ Red(color, key) /\ pc' = pc /\ curr' = curr
           \/ ~Red(color, key) /\ pc' = "delete" /\ curr' = x
    BY DEF RBDeleteOne, BeginBalancing, IsRed, Red
  <1>3. key \in P /\ ParentOf(key) = tree.parent[key]
    BY <1>1, <1>2, SearchFinds, SearchPasses
  <1>4. PICK e \in Sides : tree.child[e][key] = Nil /\ x = tree.child[Other(e)][key]
    BY <1>2, SideFacts DEF HasTwo, OnlyChild
  <1>5. RemovedFrom(tree', tree, key, x) /\ \E b : Shape(tree', Q, b)
    BY <1>1, <1>2, <1>3, FreedIsRemoved
  <1>6. /\ Colored(tree, P, color, "idle", curr)
        /\ color \in [Places -> {"BLACK", "RED"}] /\ color[Nil] = "BLACK" /\ curr \in Places
    BY <1>2 DEF RBInv, Colored
  <1>7. x \in Places /\ key \in Places /\ Nil \in Places /\ P \subseteq Places /\ key # Nil
    <2>1. x \in P \cup {Nil}
      BY <1>1, <1>3, <1>4, SideFacts DEF Shape, Downward
    <2>. HIDE DEF x
    <2>. QED
      BY <1>1, <1>3, <2>1, ShapeFacts DEF Places
  <1>. HIDE DEF x, P
  <1>8. /\ color' \in [Places -> {"BLACK", "RED"}] /\ color'[Nil] = "BLACK"
        /\ \A m \in Q : color'[m] = IF m = x /\ key = tree.root THEN "BLACK" ELSE color[m]
    BY <1>2, <1>6, <1>7
  <1>9. /\ pc' = IF Red(color, key) THEN "idle" ELSE "delete"
        /\ curr' \in Places /\ (pc' = "delete" => curr' = x)
    BY <1>2, <1>6, <1>7
  <1>10. Colored(tree', Q, color', pc', curr')
    <2>. DEFINE y == tree.child[Other(e)][key]
    <2>1. RemovedFrom(tree', tree, key, y) /\ tree.child[e][key] = Nil
      BY <1>4, <1>5
    <2>2. \A m \in P \ {key} : color'[m] = IF m = y /\ key = tree.root THEN "BLACK"
                                            ELSE color[m]
      BY <1>4, <1>8
    <2>3. pc' = "delete" => curr' = y
      BY <1>4, <1>9
    <2>. QED
      BY SMTT(60), <1>1, <1>3, <1>6, <1>8, <1>9, <2>1, <2>2, <2>3, RemovedColored
  <1>11. BstInv /\ (HasTwo(key) => Successor(key) \in Keys)
    BY <1>2 DEF RBInv
  <1>12. /\ count' \in [Keys -> 0..MaxSame] /\ returned' \in 0..MaxSame
         /\ Q = { k \in Keys : count'[k] > 0 } /\ nodes' = Cardinality(Q)
    BY <1>2, <1>3, <1>11, CountDeletedFacts DEF P
  <1>13. BstInv'
    BY <1>5, <1>12, BstInvStep
  <1>14. Present' = Q
    BY <1>12 DEF Present
  <1>. QED
    BY <1>10, <1>13, <1>14 DEF RBInv

(* The successor's node goes, and its key is in the other's.               *)
LEMMA RBDeleteTwoKeeps ==
  ASSUME RBInv, NEW key \in Keys, RBDeleteTwo(key)
  PROVE  RBInv'
PROOF
  <1>. DEFINE s == Successor(key)
              x == OnlyChild(s)
              v == Spliced(s, tree.parent[s])
              P == Present
              Q == P \ {s}
  <1>1. PICK below : Shape(tree, P, below)
    BY DEF RBInv, BstInv
  <1>2. /\ pc = "idle" /\ Find(key) /\ HasTwo(key) /\ CountDeleted(key)
        /\ tree' = Renamed(Spliced(s, SuccessorParent(key)), key, s)
        /\ color' = [color EXCEPT ![s] = color[key], ![key] = "BLACK"]
        /\ \/ Red(color, s) /\ pc' = pc /\ curr' = curr
           \/ ~Red(color, s) /\ pc' = "delete" /\ curr' = x
    BY DEF RBDeleteTwo, BeginBalancing, IsRed, Red
  <1>3. key \in P
    BY <1>1, <1>2, SearchFinds
  <1>4. tree.child["right"][key] # Nil
    BY <1>2, SideFacts DEF HasTwo
  <1>5. /\ s \in P /\ s # key /\ key < s /\ tree.child["left"][s] = Nil
        /\ SuccessorParent(key) = tree.parent[s] /\ s \in below[key]
        /\ \A k \in P : ~(key < k /\ k < s)
    BY <1>1, <1>3, <1>4, SuccessorFacts
  <1>. HIDE DEF s
  <1>6. /\ ~HasTwo(s) /\ x = tree.child[Other("left")][s] /\ "left" \in Sides
    BY <1>5, SideFacts DEF HasTwo, OnlyChild
  <1>7. /\ P \subseteq Keys /\ P \subseteq Places /\ Nil \notin P /\ Nil \in Places
        /\ s \in Keys /\ s # Nil /\ key # Nil
    BY <1>1, <1>3, <1>5, ShapeFacts DEF Places
  <1>8. x \in Places /\ x # key /\ x # s
    <2>1. "right" \in Sides /\ x = tree.child["right"][s]
      BY <1>6, SideFacts
    <2>2. x # Nil => x \in P /\ Lies("right", x, s)
      BY <1>1, <1>5, <2>1, ChildFacts
    <2>. HIDE DEF x
    <2>. QED
      BY <1>5, <1>7, <2>2, KeysAreNumbers DEF Lies, Places
  <1>9. s # tree.root
    <2>1. SUFFICES ASSUME s = tree.root PROVE FALSE
      OBVIOUS
    <2>2. tree.parent[s] = Nil /\ tree.parent[s] \in below[key]
      BY <1>1, <1>3, <1>5, <1>7, <2>1 DEF Shape, AtTop, Nested
    <2>3. below[key] \subseteq P
      BY <1>1, <1>3, ShapeFacts
    <2>. QED
      BY <1>7, <2>2, <2>3
  <1>10. /\ v \in Trees /\ RemovedFrom(Freed(v, s), tree, s, x)
         /\ \E b : Shape(Freed(v, s), Q, b)
    BY <1>1, <1>5, <1>6, FreedIsRemoved
  <1>11. PICK b : Shape(Freed(v, s), Q, b)
    BY <1>10
  <1>12. tree' = Renamed(Freed(v, s), key, s)
    BY <1>2, <1>5, <1>7, <1>10, RenamedIgnoresFreed
  <1>13. /\ Colored(tree, P, color, "idle", curr)
         /\ color \in [Places -> {"BLACK", "RED"}] /\ color[Nil] = "BLACK" /\ curr \in Places
    BY <1>2 DEF RBInv, Colored
  <1>. HIDE DEF x, P, v
  <1>14. /\ pc' = IF Red(color, s) THEN "idle" ELSE "delete"
         /\ curr' \in Places /\ (pc' = "delete" => curr' = x)
    BY <1>2, <1>8, <1>13
  <1>15. \A m \in Q : color[m] = IF m = x /\ s = tree.root THEN "BLACK" ELSE color[m]
    BY <1>9
  <1>16. Colored(Freed(v, s), Q, color, pc', curr')
    <2>. DEFINE y == tree.child[Other("left")][s]
                f == Freed(v, s)
    <2>1. RemovedFrom(f, tree, s, y) /\ tree.child["left"][s] = Nil /\ s \in P
      BY <1>5, <1>6, <1>10
    <2>2. \A m \in P \ {s} : color[m] = IF m = y /\ s = tree.root THEN "BLACK"
                                          ELSE color[m]
      BY <1>9
    <2>3. pc' = "delete" => curr' = y
      BY <1>6, <1>14
    <2>. HIDE DEF f
    <2>4. Colored(f, P \ {s}, color, pc', curr')
      BY ZenonT(60), <1>1, <1>6, <1>13, <1>14, <2>1, <2>2, <2>3, RemovedColored
    <2>. QED
      BY <2>4 DEF f
  <1>17. /\ key \in Q /\ s \in Keys \ Q /\ pc' \in {"idle", "delete"}
         /\ (pc' = "delete" => curr' \notin {key, s})
    BY <1>3, <1>5, <1>7, <1>8, <1>14
  <1>18. /\ color' \in [Places -> {"BLACK", "RED"}] /\ color'[Nil] = "BLACK"
         /\ color'[s] = color[key] /\ \A m \in Q \ {key} : color'[m] = color[m]
    BY <1>2, <1>3, <1>5, <1>7, <1>13
  <1>19. Colored(tree', (Q \ {key}) \cup {s}, color', pc', curr')
    BY <1>11, <1>12, <1>16, <1>17, <1>18, RenamedColored
  <1>20. \A k \in Q \ {key} : k < key <=> k < s
    BY <1>5, <1>7, KeysAreNumbers
  <1>21. \E c : Shape(tree', (Q \ {key}) \cup {s}, c)
    BY <1>11, <1>12, <1>17, <1>20, RenameKeepsShape
  <1>22. (Q \ {key}) \cup {s} = P \ {key}
    BY <1>5
  <1>23. BstInv /\ (HasTwo(key) => Successor(key) \in Keys)
    BY <1>7 DEF RBInv, s
  <1>24. /\ count' \in [Keys -> 0..MaxSame] /\ returned' \in 0..MaxSame
         /\ P \ {key} = { k \in Keys : count'[k] > 0 } /\ nodes' = Cardinality(P \ {key})
    BY <1>2, <1>3, <1>23, CountDeletedFacts DEF P
  <1>25. BstInv'
    BY <1>21, <1>22, <1>24, BstInvStep
  <1>26. Present' = P \ {key}
    BY <1>24 DEF Present
  <1>. QED
    BY <1>19, <1>22, <1>25, <1>26 DEF RBInv

LEMMA RBInvInit == RBInit => RBInv
PROOF
  <1>. SUFFICES ASSUME RBInit PROVE RBInv
    OBVIOUS
  <1>1. BstInv
    BY BstInvInit DEF RBInit
  <1>2. Present = {} /\ tree.root = Nil /\ Nil \in Places
    BY DEF RBInit, TreeInit, EmptyTree, Present, Places
  <1>3. color = [n \in Places |-> "BLACK"] /\ pc = "idle" /\ curr = Nil
    BY DEF RBInit
  <1>4. Heights(tree, {}, color, pc, curr, [n \in Places |-> 0])
    BY <1>2 DEF Heights
  <1>5. /\ RedRule(tree, {}, color, pc, curr) /\ RootRule(tree, color, pc, curr)
        /\ CurrRule(tree, {}, color, pc, curr)
    BY <1>2, <1>3 DEF RedRule, RootRule, CurrRule, Red
  <1>6. Colored(tree, {}, color, pc, curr)
    BY <1>2, <1>3, <1>4, <1>5 DEF Colored
  <1>. QED
    BY <1>1, <1>2, <1>6 DEF RBInv

LEMMA RBNextKeepsInv == RBInv /\ [RBNext]_rbVars => RBInv'
PROOF
  <1>. SUFFICES ASSUME RBInv, [RBNext]_rbVars PROVE RBInv'
    OBVIOUS
  <1>1. ASSUME NEW key \in Keys,
               RBInsertAgain(key) \/ RBInsert(key) \/ RBDeleteMissing(key)
                 \/ RBDeleteOne(key) \/ RBDeleteTwo(key)
        PROVE  RBInv'
    BY <1>1, RBInsertAgainKeeps, RBInsertKeeps, RBDeleteMissingKeeps, RBDeleteOneKeeps,
       RBDeleteTwoKeeps
  <1>2. ASSUME Balancing PROVE RBInv'
    BY <1>2, InsertRecolorKeeps, InsertInnerKeeps, InsertOuterKeeps, InsertEndsKeeps,
       BalancingEndsKeeps, SiblingRedKeeps, SiblingBlackKeeps, NephewInnerKeeps,
       NephewOuterKeeps DEF Balancing
  <1>3. CASE UNCHANGED rbVars
    BY <1>3 DEF rbVars, treeVars, RBInv, BstInv, TreeTypeOK, Present
  <1>. QED
    BY <1>1, <1>2, <1>3 DEF RBNext

(* Before and after every call and every round of balancing.               *)
THEOREM RBInvariant == RBSpec => []RBInv
PROOF BY RBInvInit, RBNextKeepsInv, PTL DEF RBSpec

-----------------------------------------------------------------------------
(* Every link leads to a node, the colors are black or red and Nil_ is     *)
(* black (RBtree.h: Nil_).                                                 *)
THEOREM RBTypeCorrect == RBSpec => []RBTypeOK
PROOF
  <1>1. RBInv => RBTypeOK
    BY DEF RBInv, BstInv, Colored, RBTypeOK
  <1>. QED
    BY <1>1, RBInvariant, PTL

(* Parent is the inverse of Left and Right between any two rounds of the   *)
(* balancing, too (RBtree.h: RotateLeft, RotateRight, Delete).             *)
THEOREM RBParentsAgree == RBSpec => []ParentsAgree
PROOF
  <1>1. RBInv => ParentsAgree
    BY InvGivesParentsAgree DEF RBInv
  <1>. QED
    BY <1>1, RBInvariant, PTL

(* In order, the tree holds exactly the keys inserted and not deleted,     *)
(* ascending, and count_ says how many (RBtree.h: SearchForVector).        *)
THEOREM RBSorted == RBSpec => []Sorted
PROOF
  <1>1. RBInv => Sorted
    BY InvGivesSorted DEF RBInv
  <1>. QED
    BY <1>1, RBInvariant, PTL

(* The numbers of black nodes of one depth from those of the depth before. *)
CountSets == [Places -> SUBSET Nat]
Deeper(before) ==
  [n \in Places |-> IF n = Nil THEN {0}
                    ELSE UNION { { b + Missing(tree.child[side][n], n)
                                     + (IF color[n] = "BLACK" THEN 1 ELSE 0) :
                                   b \in before[tree.child[side][n]] } :
                                 side \in Sides }]

(* All that BlackCounts holds is the height of the root.                   *)
LEMMA BlackCountsAreHeights ==
  ASSUME NEW P, NEW below, Shape(tree, P, below),
         NEW h, Heights(tree, P, color, pc, curr, h),
         color \in [Places -> {"BLACK", "RED"}]
  PROVE  BlackCounts \subseteq {h[tree.root]}
PROOF
  <1>. DEFINE Round(at) ==
                [depth \in 0..Depth |->
                   [n \in Places |->
                      IF n = Nil \/ depth = 0 THEN {0}
                      ELSE UNION { { b + Missing(tree.child[side][n], n)
                                       + (IF color[n] = "BLACK" THEN 1 ELSE 0) :
                                     b \in at[depth - 1][tree.child[side][n]] } :
                                   side \in Sides }]]
              w == CHOOSE at : at = Round(at)
              none == [n \in Places |-> {0}]
              deeper == [before \in CountSets |-> Deeper(before)]
  <1>1. BlackCounts = w[Depth][tree.root]
    BY DEF BlackCounts, Depth
  <1>2. Depth \in Nat
    BY DepthType
  <1>3. /\ tree.root \in Places
        /\ \A s \in Sides : tree.child[s] \in [Places -> Places]
    BY DEF Shape, Trees
  <1>4. none \in CountSets /\ deeper \in [CountSets -> CountSets]
    <2>1. none \in CountSets
      BY DEF CountSets
    <2>2. ASSUME NEW before \in CountSets PROVE Deeper(before) \in CountSets
      <3>1. ASSUME NEW n \in Places, NEW side \in Sides,
                   NEW b \in before[tree.child[side][n]]
            PROVE  b + Missing(tree.child[side][n], n) + (IF color[n] = "BLACK" THEN 1 ELSE 0) \in Nat
        <4>1. b \in Nat
          BY <1>3 DEF CountSets
        <4>2. Missing(tree.child[side][n], n) \in {0, 1}
          BY DEF Missing
        <4>. QED
          BY <4>1, <4>2
      <3>. QED
        BY <3>1 DEF Deeper, CountSets
    <2>. HIDE DEF none
    <2>. QED
      BY <2>1, <2>2
  <1>5. PICK f : Walks(f, Depth, CountSets, none, deeper)
    <2>. HIDE DEF none, deeper
    <2>. QED
      BY <1>2, <1>4, WalkExists
  <1>6. f = Round(f)
    <2>1. f \in [0..Depth -> CountSets] /\ f[0] = none
          /\ \A i \in 1..Depth : f[i] = deeper[f[i - 1]]
      BY <1>5 DEF Walks
    <2>2. ASSUME NEW i \in 0..Depth PROVE f[i] = Round(f)[i]
      <3>1. CASE i = 0
        BY <2>1, <3>1
      <3>2. CASE i # 0
        <4>1. i \in 1..Depth /\ i - 1 \in 0..Depth
          BY <1>2, <3>2
        <4>2. f[i] = Deeper(f[i - 1])
          BY <2>1, <4>1
        <4>. QED
          BY <3>2, <4>2 DEF Deeper
      <3>. QED
        BY <3>1, <3>2
    <2>3. f = [i \in 0..Depth |-> f[i]]
      BY <2>1
    <2>4. Round(f) = [i \in 0..Depth |-> Round(f)[i]]
      OBVIOUS
    <2>. HIDE DEF Round
    <2>. QED
      BY <2>2, <2>3, <2>4
  <1>7. w = Round(w)
    <2>. HIDE DEF Round
    <2>. QED
      BY <1>6
  <1>. HIDE DEF w
  <1>8. \A i \in 0..Depth : \A n \in P \cup {Nil} :
          Cardinality(below[n]) <= i => w[i][n] \subseteq {h[n]}
    <2>. DEFINE Good(i) == \A n \in P \cup {Nil} :
                  Cardinality(below[n]) <= i => w[i][n] \subseteq {h[n]}
                T == { i \in 0..Depth : ~Good(i) }
    <2>1. SUFFICES ASSUME T # {} PROVE FALSE
      OBVIOUS
    <2>2. T \in SUBSET Nat
      BY <1>2
    <2>3. PICK x \in T : \A y \in T : x <= y
      <3>. HIDE DEF T
      <3>. QED
        BY <2>1, <2>2, LeastNumber
    <2>4. x \in 0..Depth /\ x \in Nat /\ ~Good(x)
      BY <2>3
    <2>5. PICK n \in P \cup {Nil} :
            Cardinality(below[n]) <= x /\ ~(w[x][n] \subseteq {h[n]})
      BY <2>4
    <2>6. n \in Places /\ Cardinality(below[n]) \in Nat
      BY ShapeFacts DEF Places
    <2>7. w[x][n] = IF n = Nil \/ x = 0 THEN {0}
                    ELSE UNION { { b + Missing(tree.child[side][n], n)
                                     + (IF color[n] = "BLACK" THEN 1 ELSE 0) :
                                   b \in w[x - 1][tree.child[side][n]] } :
                                 side \in Sides }
      <3>1. w[x] = [m \in Places |->
                      IF m = Nil \/ x = 0 THEN {0}
                      ELSE UNION { { b + Missing(tree.child[side][m], m)
                                       + (IF color[m] = "BLACK" THEN 1 ELSE 0) :
                                     b \in w[x - 1][tree.child[side][m]] } :
                                   side \in Sides }]
        BY <1>7, <2>4, Zenon
      <3>. QED
        BY <2>6, <3>1, Zenon
    <2>8. n # Nil
      <3>1. n = Nil => w[x][n] = {0} /\ h[n] = 0
        BY <2>7 DEF Heights
      <3>. QED
        BY <2>5, <3>1
    <2>9. n \in P /\ Cardinality(below[n]) > 0
      BY <2>8, ShapeFacts
    <2>10. x # 0 /\ x - 1 \in 0..Depth /\ ~(x <= x - 1)
      BY <1>2, <2>4, <2>5, <2>6, <2>9
    <2>11. Good(x - 1)
      BY <2>3, <2>10
    <2>12. ASSUME NEW s \in Sides
           PROVE  w[x - 1][tree.child[s][n]] \subseteq {h[tree.child[s][n]]}
      <3>1. tree.child[s][n] \in P \cup {Nil}
        BY <2>9 DEF Shape, Downward
      <3>2. Cardinality(below[tree.child[s][n]]) <= x - 1
        <4>1. CASE tree.child[s][n] = Nil
          <5>1. below[tree.child[s][n]] = {} /\ Cardinality({}) = 0
            BY <4>1, FS_EmptySet DEF Shape, Filled
          <5>. QED
            BY <2>4, <2>10, <5>1
        <4>2. CASE tree.child[s][n] # Nil
          <5>1. Cardinality(below[tree.child[s][n]]) < Cardinality(below[n])
            BY <2>9, <4>2, ChildFacts
          <5>2. Cardinality(below[tree.child[s][n]]) \in Nat
            BY <1>3, <2>6, ShapeFacts
          <5>. QED
            BY <2>4, <2>5, <2>6, <5>1, <5>2
        <4>. QED
          BY <4>1, <4>2
      <3>. QED
        BY <2>11, <3>1, <3>2
    <2>13. \A s \in Sides : Missing(tree.child[s][n], n)
                              = Gap(tree, pc, curr, tree.child[s][n], n)
      BY DEF Missing, Gap
    <2>14. (IF color[n] = "BLACK" THEN 1 ELSE 0) = Blackness(color, n)
      BY <2>6 DEF Blackness, Red
    <2>15. ASSUME NEW v \in w[x][n] PROVE v = h[n]
      <3>0. PICK s \in Sides : \E b \in w[x - 1][tree.child[s][n]] :
              v = b + Missing(tree.child[s][n], n) + (IF color[n] = "BLACK" THEN 1 ELSE 0)
        BY <2>7, <2>8, <2>10
      <3>1. PICK b \in w[x - 1][tree.child[s][n]] :
              v = b + Missing(tree.child[s][n], n) + (IF color[n] = "BLACK" THEN 1 ELSE 0)
        BY <3>0
      <3>2. b = h[tree.child[s][n]]
        BY <2>12
      <3>3. h[n] = h[tree.child[s][n]] + Gap(tree, pc, curr, tree.child[s][n], n)
                     + Blackness(color, n)
        BY <2>9 DEF Heights
      <3>. QED
        BY <2>13, <2>14, <3>1, <3>2, <3>3
    <2>. QED
      BY <2>5, <2>15
  <1>9. tree.root \in P \cup {Nil}
    BY DEF Shape, AtTop
  <1>10. Cardinality(below[tree.root]) <= Depth /\ Depth \in 0..Depth
    BY <1>2, <1>3, ShapeFacts
  <1>. QED
    BY <1>1, <1>8, <1>9, <1>10

(* All ways down have as many black nodes and no red node has a red parent *)
(* but where a balancing is; so the loops of Insert and RedBlackBalancing  *)
(* leave a red-black tree, whatever came before (RBtree.h: 115, 351).      *)
THEOREM RBKeepsRedBlack == RBSpec => []RedBlack
PROOF
  <1>1. RBInv => RedBlack
    <2>. SUFFICES ASSUME RBInv PROVE RedBlack
      OBVIOUS
    <2>1. PICK below, h : BalancingAt(below, h)
      BY BalancingIsSomewhere
    <2>2. BlackCounts \subseteq {h[tree.root]}
      BY <2>1, BlackCountsAreHeights DEF BalancingAt, RBInv, Colored
    <2>3. \A a, b \in BlackCounts : a = b
      BY <2>2
    <2>4. ASSUME NEW n \in Present, IsRed(n)
          PROVE  \/ pc = "insert" /\ n = curr
                 \/ n # tree.root /\ ~IsRed(tree.parent[n])
                 \/ pc = "delete" /\ curr # tree.root /\ curr \in {n, tree.parent[n]}
      <3>1. RedRule(tree, Present, color, pc, curr) /\ RootRule(tree, color, pc, curr)
        BY DEF RBInv, Colored
      <3>. QED
        BY <2>4, <3>1 DEF RedRule, RootRule, IsRed, Red
    <2>. QED
      BY <2>3, <2>4 DEF RedBlack
  <1>. QED
    BY <1>1, RBInvariant, PTL

(* The calls are those of a set of keys with counts, and the balancing     *)
(* changes nothing one can ask for (RBtree.h: Insert, Delete).             *)
THEOREM RBIsCountedSet == RBSpec => ImplementsCountedSet
PROOF
  <1>1. RBInit => Counted!CountedInit
    BY DEF RBInit, TreeInit, Counted!CountedInit
  <1>2. RBInv /\ [RBNext]_rbVars => [Counted!CountedNext]_(Counted!countedVars)
    <2>. SUFFICES ASSUME RBInv, [RBNext]_rbVars
                  PROVE  [Counted!CountedNext]_(Counted!countedVars)
      OBVIOUS
    <2>1. BstInv
      BY DEF RBInv
    <2>2. ASSUME NEW key \in Keys,
                 RBInsertAgain(key) \/ RBInsert(key) \/ RBDeleteMissing(key)
                   \/ RBDeleteOne(key) \/ RBDeleteTwo(key)
          PROVE  Counted!CountedNext
      <3>1. Counted!Add(key) \/ Counted!Remove(key)
        BY <2>1, <2>2, CountedSteps
           DEF RBInsertAgain, RBInsert, RBDeleteMissing, RBDeleteOne, RBDeleteTwo
      <3>. QED
        BY <3>1 DEF Counted!CountedNext
    <2>3. ASSUME Balancing PROVE UNCHANGED Counted!countedVars
      BY <2>3 DEF Balancing, InsertRecolor, InsertInner, InsertOuter, InsertEnds,
         BalancingEnds, SiblingRed, SiblingBlack, NephewInner, NephewOuter,
         treeVars, Counted!countedVars
    <2>4. CASE UNCHANGED rbVars
      BY <2>4 DEF rbVars, treeVars, Counted!countedVars
    <2>. QED
      BY <2>2, <2>3, <2>4 DEF RBNext
  <1>. QED
    BY <1>1, <1>2, RBInvariant, PTL
       DEF RBSpec, ImplementsCountedSet, Counted!CountedSpec

=============================================================================
