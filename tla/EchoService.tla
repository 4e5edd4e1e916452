----------------------------- MODULE EchoService ----------------------------
(***************************************************************************)
(* What the echo server promises its clients, without threads, locks,      *)
(* queues or slots: a client that is served gets its own frames back, in   *)
(* order and none twice; it is served once, by one of a bounded number of  *)
(* sessions; and after its release it gets nothing more.                   *)
(***************************************************************************)
EXTENDS Naturals, Sequences, FiniteSets

CONSTANTS Conns,          \* the clients
          Capacity,       \* how many can be served at the same time
          MaxMsgs         \* bound: how many frames a client sends

VARIABLES conn,           \* "idle", "accepted", "served" or "released"
          sent,           \* how many frames the client has sent
          answers         \* the numbers of the frames it has got back

serviceVars == << conn, sent, answers >>

ServiceInit ==
  /\ conn = [c \in Conns |-> "idle"]
  /\ sent = [c \in Conns |-> 0]
  /\ answers = [c \in Conns |-> << >>]

Served == { c \in Conns : conn[c] = "served" }

AcceptClient(c) ==
  /\ conn[c] = "idle"
  /\ conn' = [conn EXCEPT ![c] = "accepted"]
  /\ UNCHANGED << sent, answers >>

Serve(c) ==
  /\ conn[c] = "accepted"
  /\ Cardinality(Served) < Capacity
  /\ conn' = [conn EXCEPT ![c] = "served"]
  /\ UNCHANGED << sent, answers >>

SendFrame(c) ==
  /\ conn[c] \in {"accepted", "served"}
  /\ sent[c] < MaxMsgs
  /\ sent' = [sent EXCEPT ![c] = @ + 1]
  /\ UNCHANGED << conn, answers >>

Increasing(q) == \A i \in 2..Len(q) : q[i - 1] < q[i]

(* One completed send gives client c the answers to some of its frames.    *)
Answer(c) ==
  /\ conn[c] = "served"
  /\ \E n \in 1..MaxMsgs : \E q \in [1..n -> 1..sent[c]] :
       /\ Increasing(answers[c] \o q)
       /\ answers' = [answers EXCEPT ![c] = @ \o q]
  /\ UNCHANGED << conn, sent >>

Release(c) ==
  /\ conn[c] = "served"
  /\ conn' = [conn EXCEPT ![c] = "released"]
  /\ UNCHANGED << sent, answers >>

ServiceNext ==
  \E c \in Conns :
    AcceptClient(c) \/ Serve(c) \/ SendFrame(c) \/ Answer(c) \/ Release(c)

ServiceSpec == ServiceInit /\ [][ServiceNext]_serviceVars

=============================================================================
