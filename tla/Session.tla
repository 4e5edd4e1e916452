------------------------------ MODULE Session -------------------------------
(***************************************************************************)
(* NetLib/Session.cpp: what the sections under Session::mutex_ do to one   *)
(* session slot, and the overlapped operations the kernel holds for it.    *)
(*                                                                         *)
(* A frame is one whole packet, the pair of the connection that sent it    *)
(* and its number.  recvQ holds the frames received and not yet handled;   *)
(* sendQ the frames queued for the client, those of a send in flight       *)
(* included: they leave the queue when the completion of the send is       *)
(* handled.                                                                *)
(***************************************************************************)
EXTENDS Naturals, Integers, Sequences, SessionManager

CONSTANTS Conns,        \* the client connections of a behaviour
          NoConn,       \* the value of socket_ before the first Init
          MaxMsgs,      \* bound: how many frames a client sends
          SendCap       \* MaxSendQ, in frames

ASSUME ConnsAssumption == IsFiniteSet(Conns) /\ NoConn \notin Conns
ASSUME SizesAssumption == MaxMsgs \in Nat /\ SendCap \in Nat \ {0}

Frames == Conns \X (1..MaxMsgs)

VARIABLES state, refCount, disconnectRequested, isSending, socket, userId,
          recvQ, sendQ,
          recvs,        \* overlapped WSARecv calls not completed: how many
          sends         \* overlapped WSASend calls not completed: their frames

flags == << state, disconnectRequested, isSending, socket, userId >>
queues == << recvQ, sendQ >>
io == << recvs, sends >>
sessionVars == << flags, refCount, queues, io >>

SessionInit ==
  /\ state = [s \in Sessions |-> "INACTIVE"]
  /\ refCount = [s \in Sessions |-> 0]
  /\ disconnectRequested = [s \in Sessions |-> FALSE]
  /\ isSending = [s \in Sessions |-> FALSE]
  /\ socket = [s \in Sessions |-> NoConn]
  /\ userId = [s \in Sessions |-> 0]
  /\ recvQ = [s \in Sessions |-> << >>]
  /\ sendQ = [s \in Sessions |-> << >>]
  /\ recvs = [s \in Sessions |-> 0]
  /\ sends = [s \in Sessions |-> << >>]

IsActive(s) == state[s] = "ACTIVE"

(* Mutant of Init: the user id of the previous client stays.               *)
Init_KeepsUser(s, clientSocket) ==
  /\ state' = [state EXCEPT ![s] = "ACTIVE"]
  /\ socket' = [socket EXCEPT ![s] = clientSocket]
  /\ recvQ' = [recvQ EXCEPT ![s] = << >>]
  /\ sendQ' = [sendQ EXCEPT ![s] = << >>]
  /\ disconnectRequested' = [disconnectRequested EXCEPT ![s] = FALSE]
  /\ UNCHANGED << userId, isSending, refCount, io >>

(* Session::Init.  It leaves isSending_ and refCount as the previous        *)
(* connection of the slot left them.                                       *)
Init(s, clientSocket) ==
  /\ state' = [state EXCEPT ![s] = "ACTIVE"]
  /\ socket' = [socket EXCEPT ![s] = clientSocket]
  /\ recvQ' = [recvQ EXCEPT ![s] = << >>]
  /\ sendQ' = [sendQ EXCEPT ![s] = << >>]
  /\ disconnectRequested' = [disconnectRequested EXCEPT ![s] = FALSE]
  /\ userId' = [userId EXCEPT ![s] = 0]
  /\ UNCHANGED << isSending, refCount, io >>

(* Mutant of IncrementRefCount: nothing is counted.                        *)
IncrementRefCount_Lost(s) == UNCHANGED refCount

IncrementRefCount(s) == refCount' = [refCount EXCEPT ![s] = @ + 1]

(* --refCount; the owner of the lock looks at the result.                  *)
Decrement(s) == refCount' = [refCount EXCEPT ![s] = @ - 1]

(* Mutants of the test of the count: one too early, one too late.          *)
Unreferenced_Early(s) == refCount[s] - 1 < 2
Unreferenced_Late(s) == refCount[s] - 1 < 0
Unreferenced(s) == refCount[s] - 1 < 1

RequestDisconnect(s) ==
  disconnectRequested' = [disconnectRequested EXCEPT ![s] = TRUE]

(* Mutants of the test of DecrementRefCount: it looks at the flag only; it  *)
(* never releases.                                                         *)
ReleaseOnDecrement_AnyCount(s) == disconnectRequested[s]
ReleaseOnDecrement_Never(s) == FALSE

(* DecrementRefCount releases the session only when a disconnect was asked *)
(* for; DecrementRefCountAndRelease releases it whenever nothing is left.   *)
ReleaseOnDecrement(s) == disconnectRequested[s] /\ Unreferenced(s)

Clear(s) == state' = [state EXCEPT ![s] = "INACTIVE"]

(* The locked section of PostSend.                                         *)
(* Mutant of MaySend: isSending_ is not looked at.                         *)
MaySend_Always(s) == IsActive(s)
MaySend(s) == IsActive(s) /\ ~isSending[s]

(* Mutant of BeginSend: the reference for the send is forgotten.           *)
BeginSend_NoRef(s) ==
  /\ isSending' = [isSending EXCEPT ![s] = TRUE]
  /\ UNCHANGED refCount
BeginSend(s) ==
  /\ IncrementRefCount(s)
  /\ isSending' = [isSending EXCEPT ![s] = TRUE]

Enqueue(s, frame) == sendQ' = [sendQ EXCEPT ![s] = Append(@, frame)]
SendQFull(s) == Len(sendQ[s]) >= SendCap

(* Mutant of MoveFront: one frame too few leaves the queue.                *)
MoveFront_Short(q, n) == IF n <= Len(q) THEN SubSeq(q, n, Len(q)) ELSE q

(* sendQ_.MoveFront(n): does nothing when the queue holds less than n.     *)
MoveFront(q, n) == IF n <= Len(q) THEN SubSeq(q, n + 1, Len(q)) ELSE q

(* The locked section of OnSend, on an active session.                     *)
FinishSend(s, n) ==
  /\ sendQ' = [sendQ EXCEPT ![s] = MoveFront(@, n)]
  /\ isSending' = [isSending EXCEPT ![s] = FALSE]

(* sendQ_.GetUseSize() > 0, once the n frames sent have left the queue.    *)
(* Mutants of the test: off by one; what was queued meanwhile is forgotten. *)
QueuedAfter_OffByOne(s, n) == Len(MoveFront(sendQ[s], n)) >= 0
QueuedAfter_Never(s, n) == FALSE
QueuedAfter(s, n) == Len(MoveFront(sendQ[s], n)) > 0

=============================================================================
