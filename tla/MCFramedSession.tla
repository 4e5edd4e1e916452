-------------------------- MODULE MCFramedSession ---------------------------
(***************************************************************************)
(* An instance of FramedSession for TLC.  The cells of a new buffer are    *)
(* not read before they are written (RingBuffer's own run has them         *)
(* arbitrary), so they start as zero here.                                 *)
(***************************************************************************)
EXTENDS FramedSession

MCBytes == 0..255

(* Messages that differ from each other in every byte.                     *)
MCMsgs == [i \in 1..MaxFrames |-> [j \in 1..MsgSize |-> 10 * i + j]]

MCFramedInit ==
  /\ recvBuffer = [k \in 0..RecvQSize |-> 0]
  /\ sendBuffer = [k \in 0..SendQSize |-> 0]
  /\ FramedInit

MCFramedSpec == MCFramedInit /\ [][FramedNext]_framedVars /\ FramedFairness

=============================================================================
