----------------------------- MODULE CountedSet -----------------------------
(***************************************************************************)
(* What RBtree and BinaryTree promise: a set of keys, each with the number *)
(* of its insertions.                                                      *)
(***************************************************************************)
EXTENDS Integers

CONSTANT Keys

VARIABLES counts,     \* how often each key was inserted since its deletion
          returned    \* what the last deletion returned

countedVars == << counts, returned >>

CountedInit == counts = [k \in Keys |-> 0] /\ returned = 0

Add(key) ==
  /\ counts' = [counts EXCEPT ![key] = @ + 1]
  /\ UNCHANGED returned

Remove(key) ==
  /\ counts' = [counts EXCEPT ![key] = 0]
  /\ returned' \in Nat
  /\ returned' > 0 <=> counts[key] > 0

CountedNext == \E key \in Keys : Add(key) \/ Remove(key)

CountedSpec == CountedInit /\ [][CountedNext]_countedVars

=============================================================================
