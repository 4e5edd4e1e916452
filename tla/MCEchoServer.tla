--------------------------- MODULE MCEchoServer -----------------------------
(***************************************************************************)
(* Instances of EchoServer for TLC.  Slots and clients are interchangeable *)
(* (every order of the id stack is initial), and so are the workers: the   *)
(* symmetry is sound for the runs that check safety only.                  *)
(***************************************************************************)
EXTENDS EchoServer, TLC

Symmetry ==
  Permutations(Sessions) \cup Permutations(Conns) \cup Permutations(Workers)

=============================================================================
