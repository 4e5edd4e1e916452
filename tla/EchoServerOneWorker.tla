------------------------ MODULE EchoServerOneWorker -------------------------
(***************************************************************************)
(* The server with the one worker main.cpp starts, for every number of     *)
(* slots, clients and frames: one recv at a time on a session, no send     *)
(* without frames, the bytes in flight kept, frames echoed in order; and   *)
(* the server implements EchoService.                                      *)
(***************************************************************************)
EXTENDS EchoServerProofs

-----------------------------------------------------------------------------
(* Clients and slots, for any number of workers. *)

(* An active slot has an open socket, no other active slot has the same    *)
(* one, and nor has the client the accept thread is about to serve.        *)
OwnSocket ==
  /\ \A s \in Sessions : IsActive(s) =>
       /\ handle[socket[s]] = "open"
       /\ \A r \in Sessions : IsActive(r) /\ socket[r] = socket[s] => r = s
  /\ pc[Acceptor] = "init" =>
       /\ handle[client] = "open"
       /\ \A s \in Sessions : IsActive(s) => socket[s] # client
  /\ \A c \in Conns : peer[c] = "idle" => handle[c] = "none"

ReceivedWasSent == \A c \in Conns : consumed[c] <= sent[c]

ClientInv == OwnSocket /\ ReceivedWasSent

-----------------------------------------------------------------------------
(* One worker. *)

(* main.cpp starts the server with one worker.                             *)
OneWorker == \A u, w \in Workers : u = w

InMethods == {"postSend", "WSASend", "onSend", "sendDone", "postRecv",
              "WSARecv", "dropRef"}

(* The worker's session is not released while it holds no reference.       *)
Attached ==
  \A w \in Workers :
    pc[w] \in {"postSend", "sendDone", "postRecv"} => IsActive(this[w])

(* Until its first recv is posted only the accept thread uses a session.   *)
Alone ==
  pc[Acceptor] \in {"postRecv", "WSARecv", "dropRef"} =>
    /\ recvs[this[Acceptor]] = 0 /\ sends[this[Acceptor]] = << >>
    /\ \A w \in Workers :
         /\ onRecv[w] # this[Acceptor]
         /\ pc[w] \in InMethods => this[w] # this[Acceptor]

RecvOnce ==
  \A s \in Sessions :
    /\ recvs[s] <= 1
    /\ \A w \in Workers : recvs[s] > 0 =>
         /\ onRecv[w] # s
         /\ pc[w] \in {"postRecv", "WSARecv"} => this[w] # s

WorkInv == Attached /\ Alone /\ RecvOnce

Begins(p, q) == Len(p) <= Len(q) /\ \A i \in 1..Len(p) : p[i] = q[i]

(* isSending_ guards the frames in flight, until the worker has taken them *)
(* off the queue.                                                          *)
InFlight ==
  /\ \A s \in Sessions : sends[s] # << >> =>
       /\ Len(sends[s]) = 1 /\ isSending[s]
       /\ Begins(sends[s][1], sendQ[s])
  /\ \A w \in Workers : pc[w] \in {"WSASend", "onSend", "sendDone"} =>
       /\ sends[this[w]] = << >> /\ isSending[this[w]]
       /\ Begins(batch[w], sendQ[this[w]])

SomeFrames ==
  \A w \in Workers :
    /\ pc[w] = "postSend" => sendQ[this[w]] # << >>
    /\ pc[w] = "WSASend" => batch[w] # << >>

SendInv == InFlight /\ SomeFrames

-----------------------------------------------------------------------------
(* The order of frames, from the socket through recvQ, the frame being     *)
(* handled and sendQ to the client. *)

OwnFrames(q, c, n) == \A i \in 1..Len(q) : q[i][1] = c /\ q[i][2] <= n
Rising(q) == \A i \in 1..Len(q) : \A j \in 1..(i - 1) : q[j][2] < q[i][2]
Before(p, q) ==
  \A i \in 1..Len(p) : \A j \in 1..Len(q) : p[i][2] < q[j][2]

(* The client has got the i-th frame of sendQ: the completion of its send  *)
(* is being handled.                                                       *)
Got(s, i) ==
  \E w \in Workers :
    this[w] = s /\ pc[w] \in {"onSend", "sendDone"} /\ i <= Len(batch[w])

EchoedInv ==
  \A c \in Conns : OwnFrames(echoed[c], c, consumed[c]) /\ Rising(echoed[c])

QueuesInv ==
  \A s \in Sessions : IsActive(s) =>
    /\ OwnFrames(recvQ[s], socket[s], consumed[socket[s]])
    /\ OwnFrames(sendQ[s], socket[s], consumed[socket[s]])
    /\ Rising(recvQ[s]) /\ Rising(sendQ[s])
    /\ Before(sendQ[s], recvQ[s])
    /\ Before(echoed[socket[s]], recvQ[s])
    /\ \A j \in 1..Len(sendQ[s]) :
         Got(s, j) \/ Before(echoed[socket[s]], << sendQ[s][j] >>)

HandledInv ==
  \A w \in Workers : pc[w] \in ChatLabels =>
    LET s == onRecv[w] IN
    /\ OwnFrames(<< frame[w] >>, socket[s], consumed[socket[s]])
    /\ Before(sendQ[s], << frame[w] >>)
    /\ Before(echoed[socket[s]], << frame[w] >>)
    /\ Before(<< frame[w] >>, recvQ[s])

OrderInv == EchoedInv /\ QueuesInv /\ HandledInv

-----------------------------------------------------------------------------
(* Clients and slots. *)

LEMMA ClientUntouched ==
  ASSUME ClientInv,
         UNCHANGED << state, socket, handle, peer, client, sent, consumed >>,
         pc'[Acceptor] = "init" => pc[Acceptor] = "init"
  PROVE  ClientInv'
PROOF
  BY DEF ClientInv, OwnSocket, ReceivedWasSent, IsActive

(* A release closes the socket of one slot.                                *)
LEMMA ClientReleased ==
  ASSUME TypeInv, ClientInv, NEW s \in Sessions, IsActive(s),
         state' = [state EXCEPT ![s] = "INACTIVE"],
         handle' = [handle EXCEPT ![socket[s]] = "closed"],
         UNCHANGED << socket, peer, client, sent, consumed >>,
         pc'[Acceptor] = "init" => pc[Acceptor] = "init"
  PROVE  ClientInv'
PROOF
  <1>1. /\ SessionsTypeOK /\ NetTypeOK /\ socket[s] \in Conns
        /\ \A r \in Sessions : IsActive(r) => socket[r] \in Conns
        /\ pc[Acceptor] = "init" => client \in Conns
    BY DEF TypeInv, TypeOK, ControlOK, SocketKnown, AcceptorControl
  <1>2. /\ handle[socket[s]] = "open"
        /\ \A c \in Conns \ {socket[s]} : handle'[c] = handle[c]
        /\ \A r \in Sessions : IsActive(r)' => IsActive(r) /\ r # s
    BY <1>1 DEF ClientInv, OwnSocket, NetTypeOK, SessionsTypeOK, IsActive
  <1>3. \A r \in Sessions : IsActive(r)' =>
          socket[r] \in Conns \ {socket[s]}
    BY <1>1, <1>2 DEF ClientInv, OwnSocket
  <1>4. pc[Acceptor] = "init" => client \in Conns \ {socket[s]}
    BY <1>1 DEF ClientInv, OwnSocket
  <1>5. \A c \in Conns : peer[c] = "idle" => c # socket[s]
    BY <1>2 DEF ClientInv, OwnSocket
  <1>6. OwnSocket'
    BY <1>2, <1>3, <1>4, <1>5 DEF ClientInv, OwnSocket
  <1>. QED
    BY <1>6 DEF ClientInv, ReceivedWasSent

LEMMA ClientInit == ServerInit => ClientInv
PROOF
  BY ThreadsAssumption
  DEF ServerInit, SessionInit, ClientInv, OwnSocket, ReceivedWasSent, IsActive,
      Threads

LEMMA ClientStep ==
  TypeInv /\ RefInv /\ SlotInv /\ ClientInv /\ [Next]_vars => ClientInv'
PROOF
  <1>. SUFFICES ASSUME TypeInv, RefInv, SlotInv, ClientInv, [Next]_vars
                PROVE  ClientInv'
    OBVIOUS
  <1>. USE ThreadsAssumption
       DEF Threads, flags, queues, io, sessionVars, lobbyVars, lobbyAndPool,
           netVars, threadVars
  <1>a. /\ TypeInv /\ TypeOK /\ RefInv /\ SlotInv /\ ClientInv
        /\ SessionsTypeOK /\ ThreadsTypeOK /\ NetTypeOK
        /\ AcceptorControl /\ WorkerControl /\ ThisKnown /\ SocketKnown
    BY DEF TypeInv, TypeOK, ControlOK
  <1>1. ASSUME NEW w \in Workers, NEW s \in Sessions, RecvCompletes(w, s)
        PROVE ClientInv'
    <2>1. socket[s] \in Conns
      BY <1>a, <1>1 DEF SocketKnown, RecvCompletes
    <2>2. ReceivedWasSent'
      BY <1>a, <1>1, <2>1 DEF RecvCompletes, ClientInv, ReceivedWasSent,
         NetTypeOK
    <2>3. OwnSocket'
      BY <1>a, <1>1 DEF RecvCompletes, Goto, ClientInv, OwnSocket, IsActive,
         ThreadsTypeOK
    <2>. QED
      BY <2>2, <2>3 DEF ClientInv
  <1>1p. ASSUME NEW w \in Workers, NEW s \in Sessions, RecvPiece(w, s)
         PROVE ClientInv'
    BY <1>a, <1>1p, ClientUntouched DEF ThreadsTypeOK, RecvPiece, Goto
  <1>2. ASSUME NEW w \in Workers, NEW s \in Sessions, RecvFails(w, s)
        PROVE ClientInv'
    BY <1>a, <1>2, ClientUntouched DEF ThreadsTypeOK, RecvFails, Call,
       Goto
  <1>3. ASSUME NEW w \in Workers, NEW s \in Sessions, SendCompletes(w, s)
        PROVE ClientInv'
    BY <1>a, <1>3, ClientUntouched DEF ThreadsTypeOK, SendCompletes,
       Call, Goto
  <1>4. ASSUME NEW w \in Workers, NEW s \in Sessions, SendFails(w, s)
        PROVE ClientInv'
    BY <1>a, <1>4, ClientUntouched DEF ThreadsTypeOK, SendFails, Call,
       Goto
  <1>5. ASSUME NEW w \in Workers, OnMessage(w)  PROVE ClientInv'
    BY <1>a, <1>5, ClientUntouched DEF ThreadsTypeOK, OnMessage, Goto
  <1>6. ASSUME NEW w \in Workers, ChatUnicast(w)  PROVE ClientInv'
    BY <1>a, <1>6, ClientUntouched DEF ThreadsTypeOK, ChatUnicast, Call,
       Goto
  <1>7. ASSUME NEW w \in Workers, GetSessionPointer(w)  PROVE ClientInv'
    BY <1>a, <1>7, ClientUntouched DEF ThreadsTypeOK, GetSessionPointer,
       Goto
  <1>8. ASSUME NEW w \in Workers, SendPacket(w)  PROVE ClientInv'
    BY <1>a, <1>8, ClientUntouched DEF ThreadsTypeOK, SendPacket, Goto
  <1>9. ASSUME NEW w \in Workers, OnRecvEnd(w)  PROVE ClientInv'
    <2>1. onRecv[w] \in Sessions /\ IsActive(onRecv[w])
      BY <1>a, <1>9, CountedIsActive DEF OnRecvEnd, WorkerControl
    <2>2. pc'[Acceptor] = "init" => pc[Acceptor] = "init"
      BY <1>a, <1>9 DEF ThreadsTypeOK, OnRecvEnd, DecrementRefCount,
         DisconnectSession, Call, Goto, Resume
    <2>3. CASE DisconnectSession(w, onRecv[w])
      BY <1>a, <1>9, <2>1, <2>2, <2>3, ClientReleased
      DEF OnRecvEnd, DisconnectSession, Clear
    <2>4. CASE UNCHANGED << state, socket, handle >>
      BY <1>a, <1>9, <2>2, <2>4, ClientUntouched DEF OnRecvEnd
    <2>. QED
      BY <1>9, <2>3, <2>4 DEF OnRecvEnd, DecrementRefCount
  <1>10. ASSUME NEW w \in Workers, PostSend(w)  PROVE ClientInv'
    BY <1>a, <1>10, ClientUntouched DEF ThreadsTypeOK, PostSend, Goto,
       Resume
  <1>11. ASSUME NEW w \in Workers, WSASend(w)  PROVE ClientInv'
    BY <1>a, <1>11, ClientUntouched DEF ThreadsTypeOK, WSASend, Goto,
       Resume
  <1>12. ASSUME NEW w \in Workers, OnSend(w)  PROVE ClientInv'
    <2>1. this[w] \in Sessions /\ IsActive(this[w])
      BY <1>a, <1>12, CountedIsActive DEF OnSend, ThisKnown, HoldsRef
    <2>2. pc'[Acceptor] = "init" => pc[Acceptor] = "init"
      BY <1>a, <1>12 DEF ThreadsTypeOK, OnSend, DecrementRefCount,
         DisconnectSession, Call, Goto, Resume
    <2>3. CASE DisconnectSession(w, this[w])
      BY <1>a, <1>12, <2>1, <2>2, <2>3, ClientReleased
      DEF OnSend, DisconnectSession, Clear
    <2>4. CASE UNCHANGED << state, socket, handle >>
      BY <1>a, <1>12, <2>2, <2>4, ClientUntouched DEF OnSend
    <2>. QED
      BY <1>12, <2>3, <2>4 DEF OnSend, DecrementRefCount
  <1>13. ASSUME NEW w \in Workers, SendDone(w)  PROVE ClientInv'
    BY <1>a, <1>13, ClientUntouched DEF ThreadsTypeOK, SendDone, Goto
  <1>14. ASSUME NEW t \in Threads, PostRecv(t)  PROVE ClientInv'
    BY <1>a, <1>14, ClientUntouched DEF ThreadsTypeOK, PostRecv, Goto,
       Resume
  <1>15. ASSUME NEW t \in Threads, WSARecv(t)  PROVE ClientInv'
    BY <1>a, <1>15, ClientUntouched DEF ThreadsTypeOK, WSARecv, Goto
  <1>16. ASSUME NEW t \in Threads, DropRef(t)  PROVE ClientInv'
    <2>1. this[t] \in Sessions /\ IsActive(this[t])
      BY <1>a, <1>16, CountedIsActive DEF DropRef, ThisKnown, HoldsRef
    <2>2. pc'[Acceptor] = "init" => pc[Acceptor] = "init"
      BY <1>a, <1>16 DEF ThreadsTypeOK, DropRef, DecrementRefCount,
         DisconnectSession, Call, Goto, Resume
    <2>3. CASE DisconnectSession(t, this[t])
      BY <1>a, <1>16, <2>1, <2>2, <2>3, ClientReleased
      DEF DropRef, DisconnectSession, Clear
    <2>4. CASE UNCHANGED << state, socket, handle >>
      BY <1>a, <1>16, <2>2, <2>4, ClientUntouched DEF DropRef
    <2>. QED
      BY <1>16, <2>3, <2>4 DEF DropRef, DecrementRefCount
  <1>17. ASSUME NEW t \in Threads, FreeId(t)  PROVE ClientInv'
    BY <1>a, <1>17, ClientUntouched DEF ThreadsTypeOK, FreeId, Goto,
       Resume
  <1>18. ASSUME InitSession  PROVE ClientInv'
    <2>. DEFINE s == this[Acceptor]
    <2>1. s \in Sessions /\ ~IsActive(s) /\ client \in Conns
      BY <1>a, <1>18, AcceptorCarries
      DEF SlotInv, ThisKnown, AcceptorControl, InitSession
    <2>2. /\ pc'[Acceptor] # "init" /\ socket'[s] = client
          /\ \A r \in Sessions \ {s} :
               socket'[r] = socket[r] /\ (IsActive(r)' <=> IsActive(r))
          /\ UNCHANGED << handle, peer, sent, consumed >>
      BY <1>a, <1>18, <2>1
      DEF ThreadsTypeOK, SessionsTypeOK, InitSession, Init, Goto, IsActive
    <2>3. \A r \in Sessions \ {s} : IsActive(r)' =>
            handle[socket[r]] = "open" /\ socket[r] # client
      BY <1>a, <1>18, <2>2 DEF ClientInv, OwnSocket, InitSession
    <2>4. OwnSocket'
      BY <1>a, <1>18, <2>2, <2>3 DEF ClientInv, OwnSocket, InitSession
    <2>. QED
      BY <1>a, <2>2, <2>4 DEF ClientInv, ReceivedWasSent
  <1>19. ASSUME OnConnect  PROVE ClientInv'
    BY <1>a, <1>19, ClientUntouched DEF ThreadsTypeOK, OnConnect, Goto
  <1>20. ASSUME SetUserId  PROVE ClientInv'
    BY <1>a, <1>20, ClientUntouched DEF ThreadsTypeOK, SetUserId, Goto
  <1>21. ASSUME NEW c \in Conns, Accept(c)  PROVE ClientInv'
    <2>1. \A r \in Sessions : IsActive(r) =>
            socket[r] \in Conns /\ socket[r] # c
      BY <1>a, <1>21 DEF Accept, SocketKnown, ClientInv, OwnSocket
    <2>2. /\ handle'[c] = "open" /\ peer'[c] # "idle"
          /\ \A d \in Conns \ {c} : handle'[d] = handle[d] /\ peer'[d] = peer[d]
          /\ UNCHANGED << state, socket, sent, consumed >>
          /\ pc'[Acceptor] = "init" => client' = c
      BY <1>a, <1>21
      DEF NetTypeOK, ThreadsTypeOK, Accept, Call, Goto
    <2>3. OwnSocket'
      BY <1>a, <2>1, <2>2 DEF ClientInv, OwnSocket, IsActive
    <2>. QED
      BY <1>a, <2>2, <2>3 DEF ClientInv, ReceivedWasSent
  <1>22. ASSUME NEW c \in Conns, Say(c)  PROVE ClientInv'
    BY <1>a, <1>22
    DEF Say, ClientInv, OwnSocket, ReceivedWasSent, IsActive, NetTypeOK
  <1>23. ASSUME NEW c \in Conns, Close(c)  PROVE ClientInv'
    BY <1>a, <1>23
    DEF Close, ClientInv, OwnSocket, ReceivedWasSent, IsActive, NetTypeOK
  <1>24. CASE UNCHANGED vars
    BY <1>a, <1>24, ClientUntouched DEF vars
  <1>. QED
    BY <1>1, <1>1p, <1>2, <1>3, <1>4, <1>5, <1>6, <1>7, <1>8, <1>9, <1>10,
       <1>11, <1>12, <1>13, <1>14, <1>15, <1>16, <1>17, <1>18, <1>19, <1>20,
       <1>21, <1>22, <1>23, <1>24
    DEF Next, Completion, Handling, Shared, Accepting


-----------------------------------------------------------------------------
(* The worker and the accept thread. *)

(* A session that is not in use is nobody's.                               *)
LEMMA InactiveUnused ==
  ASSUME TypeInv, RefInv, Attached, NEW s \in Sessions, ~IsActive(s)
  PROVE  /\ recvs[s] = 0 /\ sends[s] = << >>
         /\ \A w \in Workers :
              onRecv[w] # s /\ (pc[w] \in InMethods => this[w] # s)
PROOF
  <1>1. TypeOK /\ recvs[s] \in Nat /\ sends[s] \in Seq(Seq(Frames))
    BY DEF TypeInv, TypeOK, SessionsTypeOK
  <1>2. recvs[s] = 0 /\ sends[s] = << >>
    BY <1>1, InUseFromCounts DEF InUseIsActive
  <1>3. ASSUME NEW w \in Workers  PROVE onRecv[w] # s
    BY <1>1, <1>3, CountedIsActive DEF Threads
  <1>4. ASSUME NEW w \in Workers, pc[w] \in InMethods, this[w] = s
        PROVE  FALSE
    <2>1. ~HoldsRef(w, s)
      BY <1>1, CountedIsActive DEF Threads
    <2>. QED
      BY <1>4, <2>1 DEF HoldsRef, InMethods, Attached
  <1>. QED
    BY <1>2, <1>3, <1>4

LEMMA WorkInit == ServerInit => WorkInv
PROOF
  BY ThreadsAssumption
  DEF ServerInit, SessionInit, WorkInv, Attached, Alone, RecvOnce, Threads

LEMMA WorkStep ==
  ASSUME OneWorker
  PROVE  TypeInv /\ RefInv /\ SlotInv /\ WorkInv /\ [Next]_vars => WorkInv'
PROOF
  <1>. SUFFICES ASSUME TypeInv, RefInv, SlotInv, WorkInv, [Next]_vars
                PROVE  WorkInv'
    OBVIOUS
  <1>. USE ThreadsAssumption, SessionsAssumption
       DEF Threads, flags, queues, io, sessionVars, lobbyVars, lobbyAndPool,
           netVars, threadVars
  <1>a. /\ TypeInv /\ TypeOK /\ RefInv /\ IdsConserved /\ ChatInv
        /\ Attached /\ Alone /\ RecvOnce
        /\ SessionsTypeOK /\ ThreadsTypeOK
        /\ AcceptorControl /\ WorkerControl /\ ThisKnown
    BY DEF TypeInv, TypeOK, ControlOK, SlotInv, WorkInv
  <1>1. ASSUME NEW w \in Workers, NEW s \in Sessions, RecvCompletes(w, s)
        PROVE WorkInv'
    <2>a. recvs[s] = 1
      BY <1>a, <1>1 DEF RecvCompletes, RecvOnce, SessionsTypeOK
    <2>1. Attached'
      BY <1>a, <1>1, <2>a DEF OneWorker, Attached, Alone, IsActive,
         SessionsTypeOK, ThreadsTypeOK, RecvCompletes, Goto
    <2>2. Alone'
      BY SMTT(60), <1>a, <1>1, <2>a DEF OneWorker, Alone, InMethods,
         SessionsTypeOK, ThreadsTypeOK, WorkerControl, AcceptorControl,
         AcceptLabels, RecvCompletes, Goto
    <2>3. RecvOnce'
      BY <1>a, <1>1, <2>a DEF OneWorker, RecvOnce, Alone, InMethods,
         SessionsTypeOK, ThreadsTypeOK, WorkerControl, RecvCompletes,
         Goto
    <2>. QED
      BY <2>1, <2>2, <2>3 DEF WorkInv
  <1>1p. ASSUME NEW w \in Workers, NEW s \in Sessions, RecvPiece(w, s)
         PROVE WorkInv'
    <2>a. recvs[s] = 1
      BY <1>a, <1>1p DEF RecvPiece, RecvOnce, SessionsTypeOK
    <2>1. Attached'
      BY <1>a, <1>1p, <2>a DEF OneWorker, Attached, Alone, IsActive,
         SessionsTypeOK, ThreadsTypeOK, RecvPiece, Goto
    <2>2. Alone'
      BY <1>a, <1>1p, <2>a DEF OneWorker, Alone, InMethods,
         SessionsTypeOK, ThreadsTypeOK, WorkerControl, AcceptorControl,
         AcceptLabels, RecvPiece, Goto
    <2>3. RecvOnce'
      BY <1>a, <1>1p, <2>a DEF OneWorker, RecvOnce, Alone, InMethods,
         SessionsTypeOK, ThreadsTypeOK, WorkerControl, RecvPiece, Goto
    <2>. QED
      BY <2>1, <2>2, <2>3 DEF WorkInv
  <1>2. ASSUME NEW w \in Workers, NEW s \in Sessions, RecvFails(w, s)
        PROVE WorkInv'
    <2>a. recvs[s] = 1
      BY <1>a, <1>2 DEF RecvFails, RecvOnce, SessionsTypeOK
    <2>1. Attached'
      BY <1>a, <1>2, <2>a DEF OneWorker, Attached, Alone, IsActive,
         SessionsTypeOK, ThreadsTypeOK, RecvFails, Call, Goto
    <2>2. Alone'
      BY SMTT(60), <1>a, <1>2, <2>a DEF OneWorker, Alone, InMethods,
         SessionsTypeOK, ThreadsTypeOK, WorkerControl, AcceptorControl,
         AcceptLabels, RecvFails, Call, Goto
    <2>3. RecvOnce'
      BY <1>a, <1>2, <2>a DEF OneWorker, RecvOnce, Alone, InMethods,
         SessionsTypeOK, ThreadsTypeOK, WorkerControl, RecvFails, Call,
         Goto
    <2>. QED
      BY <2>1, <2>2, <2>3 DEF WorkInv
  <1>3. ASSUME NEW w \in Workers, NEW s \in Sessions, SendCompletes(w, s)
        PROVE WorkInv'
    <2>1. Attached'
      BY <1>a, <1>3 DEF OneWorker, Attached, Alone, IsActive,
         SessionsTypeOK, ThreadsTypeOK, SendCompletes, Call, Goto
    <2>2. Alone'
      BY ZenonT(60), <1>a, <1>3 DEF OneWorker, Alone, InMethods, SessionsTypeOK,
         ThreadsTypeOK, WorkerControl, AcceptorControl, AcceptLabels,
         SendCompletes, Call, Goto
    <2>3. RecvOnce'
      BY <1>a, <1>3 DEF OneWorker, RecvOnce, Alone, InMethods,
         SessionsTypeOK, ThreadsTypeOK, WorkerControl, SendCompletes,
         Call, Goto
    <2>. QED
      BY <2>1, <2>2, <2>3 DEF WorkInv
  <1>4. ASSUME NEW w \in Workers, NEW s \in Sessions, SendFails(w, s)
        PROVE WorkInv'
    <2>1. Attached'
      BY <1>a, <1>4 DEF OneWorker, Attached, Alone, IsActive,
         SessionsTypeOK, ThreadsTypeOK, SendFails, Call, Goto
    <2>2. Alone'
      BY ZenonT(60), <1>a, <1>4 DEF OneWorker, Alone, InMethods, SessionsTypeOK,
         ThreadsTypeOK, WorkerControl, AcceptorControl, AcceptLabels,
         SendFails, Call, Goto
    <2>3. RecvOnce'
      BY <1>a, <1>4 DEF OneWorker, RecvOnce, Alone, InMethods,
         SessionsTypeOK, ThreadsTypeOK, WorkerControl, SendFails, Call,
         Goto
    <2>. QED
      BY <2>1, <2>2, <2>3 DEF WorkInv
  <1>5. ASSUME NEW w \in Workers, OnMessage(w)  PROVE WorkInv'
    <2>1. Attached'
      BY <1>a, <1>5 DEF OneWorker, Attached, Alone, IsActive,
         SessionsTypeOK, ThreadsTypeOK, OnMessage, Goto
    <2>2. Alone'
      BY <1>a, <1>5 DEF OneWorker, Alone, InMethods, SessionsTypeOK,
         ThreadsTypeOK, WorkerControl, AcceptorControl, AcceptLabels,
         OnMessage, Goto
    <2>3. RecvOnce'
      BY <1>a, <1>5 DEF OneWorker, RecvOnce, Alone, InMethods,
         SessionsTypeOK, ThreadsTypeOK, WorkerControl, OnMessage, Goto
    <2>. QED
      BY <2>1, <2>2, <2>3 DEF WorkInv
  <1>6. ASSUME NEW w \in Workers, ChatUnicast(w)  PROVE WorkInv'
    <2>1. Attached'
      BY <1>a, <1>6 DEF OneWorker, Attached, Alone, IsActive,
         SessionsTypeOK, ThreadsTypeOK, ChatUnicast, Call, Goto
    <2>2. Alone'
      <3>1. /\ pc'[Acceptor] = pc[Acceptor] /\ this'[Acceptor] = this[Acceptor]
            /\ pc'[w] \in {"getSession", "onMessage"}
            /\ UNCHANGED << recvs, sends, onRecv >>
        BY <1>a, <1>6 DEF ThreadsTypeOK, ChatUnicast, Call, Goto
      <3>. QED
        BY <1>a, <3>1 DEF OneWorker, WorkInv, Alone, InMethods
    <2>3. RecvOnce'
      BY SMTT(60), <1>a, <1>6 DEF OneWorker, RecvOnce, Alone, InMethods,
         SessionsTypeOK, ThreadsTypeOK, WorkerControl, ChatUnicast,
         Call, Goto
    <2>. QED
      BY <2>1, <2>2, <2>3 DEF WorkInv
  <1>7. ASSUME NEW w \in Workers, GetSessionPointer(w)  PROVE WorkInv'
    <2>1. Attached'
      BY <1>a, <1>7 DEF OneWorker, Attached, Alone, IsActive,
         SessionsTypeOK, ThreadsTypeOK, GetSessionPointer, Goto
    <2>2. Alone'
      BY <1>a, <1>7 DEF OneWorker, Alone, InMethods, SessionsTypeOK,
         ThreadsTypeOK, WorkerControl, AcceptorControl, AcceptLabels,
         GetSessionPointer, Goto
    <2>3. RecvOnce'
      BY <1>a, <1>7 DEF OneWorker, RecvOnce, Alone, InMethods,
         SessionsTypeOK, ThreadsTypeOK, WorkerControl,
         GetSessionPointer, Goto
    <2>. QED
      BY <2>1, <2>2, <2>3 DEF WorkInv
  <1>8. ASSUME NEW w \in Workers, SendPacket(w)  PROVE WorkInv'
    <2>a. this[w] = onRecv[w] /\ onRecv[w] \in Sessions
      BY <1>a, <1>8 DEF SendPacket, WorkerControl, ChatLabels, ChatInv, AnswersOwn
    <2>1. Attached'
      BY <1>a, <1>8, <2>a DEF OneWorker, Attached, Alone, IsActive,
         SessionsTypeOK, ThreadsTypeOK, SendPacket, Goto
    <2>2. Alone'
      BY <1>a, <1>8, <2>a DEF OneWorker, Alone, InMethods,
         SessionsTypeOK, ThreadsTypeOK, WorkerControl, AcceptorControl,
         AcceptLabels, SendPacket, Goto
    <2>3. RecvOnce'
      BY <1>a, <1>8, <2>a DEF OneWorker, RecvOnce, Alone, InMethods,
         SessionsTypeOK, ThreadsTypeOK, WorkerControl, SendPacket, Goto
    <2>. QED
      BY <2>1, <2>2, <2>3 DEF WorkInv
  <1>9. ASSUME NEW w \in Workers, OnRecvEnd(w)  PROVE WorkInv'
    <2>a. onRecv[w] \in Sessions /\ IsActive(onRecv[w])
      BY <1>a, <1>9, CountedIsActive DEF OnRecvEnd, WorkerControl
    <2>1. Attached'
      BY ZenonT(60), <1>a, <1>9, <2>a DEF OneWorker, Attached, Alone, IsActive,
         SessionsTypeOK, ThreadsTypeOK, OnRecvEnd, DecrementRefCount,
         DisconnectSession, Clear, Call, Goto
    <2>2. Alone'
      <3>1. /\ pc'[Acceptor] = pc[Acceptor] /\ this'[Acceptor] = this[Acceptor]
            /\ this'[w] = onRecv[w] /\ onRecv'[w] = NoSession
            /\ UNCHANGED << recvs, sends >>
        BY <1>a, <1>9 DEF ThreadsTypeOK, OnRecvEnd, DecrementRefCount,
           DisconnectSession, Call, Goto
      <3>. QED
        BY <1>a, <3>1 DEF OneWorker, Alone, ThisKnown
    <2>3. RecvOnce'
      BY SMTT(60), <1>a, <1>9, <2>a DEF OneWorker, RecvOnce, Alone, InMethods,
         SessionsTypeOK, ThreadsTypeOK, WorkerControl, OnRecvEnd,
         DecrementRefCount, DisconnectSession, Clear, Call, Goto
    <2>. QED
      BY <2>1, <2>2, <2>3 DEF WorkInv
  <1>10. ASSUME NEW w \in Workers, PostSend(w)  PROVE WorkInv'
    <2>1. Attached'
      BY <1>a, <1>10 DEF OneWorker, Attached, Alone, IsActive,
         SessionsTypeOK, ThreadsTypeOK, PostSend, Goto, Resume
    <2>2. Alone'
      BY <1>a, <1>10 DEF OneWorker, Alone, InMethods, SessionsTypeOK,
         ThreadsTypeOK, WorkerControl, AcceptorControl, AcceptLabels,
         PostSend, Goto, Resume
    <2>3. RecvOnce'
      BY <1>a, <1>10 DEF OneWorker, RecvOnce, Alone, InMethods,
         SessionsTypeOK, ThreadsTypeOK, WorkerControl, PostSend, Goto,
         Resume
    <2>. QED
      BY <2>1, <2>2, <2>3 DEF WorkInv
  <1>11. ASSUME NEW w \in Workers, WSASend(w)  PROVE WorkInv'
    <2>a. this[w] \in Sessions
      BY <1>a, <1>11 DEF WSASend, ThisKnown
    <2>1. Attached'
      BY ZenonT(60), <1>a, <1>11, <2>a DEF OneWorker, Attached, Alone, IsActive,
         SessionsTypeOK, ThreadsTypeOK, WSASend, Goto, Resume
    <2>2. Alone'
      <3>1. /\ pc'[Acceptor] = pc[Acceptor]
            /\ \A s \in Sessions : s # this[w] => sends'[s] = sends[s]
            /\ UNCHANGED << recvs, this, onRecv >>
        BY <1>a, <1>11, <2>a DEF ThreadsTypeOK, SessionsTypeOK, WSASend, Goto
      <3>. QED
        BY <1>a, <1>11, <3>1 DEF OneWorker, Alone, InMethods, ThisKnown, WSASend
    <2>3. RecvOnce'
      BY ZenonT(60), <1>a, <1>11, <2>a DEF OneWorker, RecvOnce, Alone, InMethods,
         SessionsTypeOK, ThreadsTypeOK, WorkerControl, WSASend, Goto,
         Resume
    <2>. QED
      BY <2>1, <2>2, <2>3 DEF WorkInv
  <1>12. ASSUME NEW w \in Workers, OnSend(w)  PROVE WorkInv'
    <2>a. this[w] \in Sessions /\ IsActive(this[w])
      BY <1>a, <1>12, CountedIsActive DEF OnSend, ThisKnown, HoldsRef
    <2>1. Attached'
      BY <1>a, <1>12, <2>a DEF OneWorker, Attached, Alone, IsActive,
         SessionsTypeOK, ThreadsTypeOK, OnSend, DecrementRefCount,
         DisconnectSession, Clear, Call, Goto
    <2>2. Alone'
      <3>1. /\ pc'[Acceptor] = pc[Acceptor] /\ this'[Acceptor] = this[Acceptor]
            /\ pc[w] = "onSend" /\ this'[w] = this[w]
            /\ UNCHANGED << recvs, sends, onRecv >>
        BY <1>a, <1>12, <2>a DEF ThreadsTypeOK, OnSend, DecrementRefCount,
           DisconnectSession, Call, Goto
      <3>. QED
        BY <1>a, <3>1 DEF OneWorker, WorkInv, Alone, InMethods
    <2>3. RecvOnce'
      BY ZenonT(60), <1>a, <1>12, <2>a DEF OneWorker, RecvOnce, Alone, InMethods,
         SessionsTypeOK, ThreadsTypeOK, WorkerControl, OnSend,
         DecrementRefCount, DisconnectSession, Clear, Call, Goto
    <2>. QED
      BY <2>1, <2>2, <2>3 DEF WorkInv
  <1>13. ASSUME NEW w \in Workers, SendDone(w)  PROVE WorkInv'
    <2>a. this[w] \in Sessions /\ IsActive(this[w])
      BY <1>a, <1>13 DEF SendDone, ThisKnown, Attached
    <2>1. Attached'
      BY <1>a, <1>13, <2>a DEF OneWorker, Attached, Alone, IsActive,
         SessionsTypeOK, ThreadsTypeOK, SendDone, Goto
    <2>2. Alone'
      BY SMTT(60), <1>a, <1>13, <2>a DEF OneWorker, Alone, InMethods,
         SessionsTypeOK, ThreadsTypeOK, WorkerControl, AcceptorControl,
         AcceptLabels, SendDone, Goto
    <2>3. RecvOnce'
      BY ZenonT(60), <1>a, <1>13, <2>a DEF OneWorker, RecvOnce, Alone, InMethods,
         SessionsTypeOK, ThreadsTypeOK, WorkerControl, SendDone, Goto
    <2>. QED
      BY <2>1, <2>2, <2>3 DEF WorkInv
  <1>14. ASSUME NEW t \in Threads, PostRecv(t)  PROVE WorkInv'
    <2>a. this[t] \in Sessions
      BY <1>a, <1>14 DEF PostRecv, ThisKnown
    <2>1. Attached'
      BY <1>a, <1>14, <2>a DEF OneWorker, Attached, Alone, IsActive,
         SessionsTypeOK, ThreadsTypeOK, PostRecv, Goto, Resume
    <2>2. Alone'
      BY SMTT(60), <1>a, <1>14, <2>a DEF OneWorker, Alone, InMethods,
         SessionsTypeOK, ThreadsTypeOK, WorkerControl, AcceptorControl,
         AcceptLabels, PostRecv, Goto, Resume
    <2>3. RecvOnce'
      BY SMTT(60), <1>a, <1>14, <2>a DEF OneWorker, RecvOnce, Alone, InMethods,
         SessionsTypeOK, ThreadsTypeOK, WorkerControl, PostRecv, Goto,
         Resume
    <2>. QED
      BY <2>1, <2>2, <2>3 DEF WorkInv
  <1>15. ASSUME NEW t \in Threads, WSARecv(t)  PROVE WorkInv'
    <2>a. this[t] \in Sessions
      BY <1>a, <1>15 DEF WSARecv, ThisKnown
    <2>1. Attached'
      BY ZenonT(60), <1>a, <1>15, <2>a DEF OneWorker, Attached, Alone, IsActive,
         SessionsTypeOK, ThreadsTypeOK, WSARecv, Goto
    <2>2. Alone'
      BY SMTT(60), <1>a, <1>15, <2>a DEF OneWorker, Alone, InMethods,
         SessionsTypeOK, ThreadsTypeOK, WorkerControl, AcceptorControl,
         AcceptLabels, WSARecv, Goto
    <2>3. RecvOnce'
      <3>1. recvs[this[t]] = 0
        BY <1>a, <1>15, <2>a DEF WSARecv, AcceptorControl, Alone, RecvOnce,
           SessionsTypeOK
      <3>2. \A w \in Workers :
              /\ onRecv[w] # this[t]
              /\ pc'[w] \in {"postRecv", "WSARecv"} => this[w] # this[t]
        <4>1. CASE t = Acceptor
          BY <1>a, <1>15, <4>1 DEF WSARecv, Goto, ThreadsTypeOK, Alone,
             InMethods
        <4>2. CASE t \in Workers
          BY <1>a, <1>15, <2>a, <4>2 DEF OneWorker, WSARecv, Goto,
             ThreadsTypeOK, WorkerControl
        <4>. QED
          BY <4>1, <4>2
      <3>3. /\ recvs'[this[t]] <= 1
            /\ \A s \in Sessions : s # this[t] => recvs'[s] = recvs[s]
            /\ \A u \in Threads \ {t} : pc'[u] = pc[u]
            /\ pc'[t] \notin {"postRecv", "WSARecv"}
            /\ UNCHANGED << this, onRecv >>
        BY <1>a, <1>15, <2>a, <3>1 DEF WSARecv, Goto, ThreadsTypeOK,
           SessionsTypeOK
      <3>. QED
        BY <1>a, <2>a, <3>1, <3>2, <3>3 DEF RecvOnce
    <2>. QED
      BY <2>1, <2>2, <2>3 DEF WorkInv
  <1>16. ASSUME NEW t \in Threads, DropRef(t)  PROVE WorkInv'
    <2>a. this[t] \in Sessions /\ IsActive(this[t])
      BY <1>a, <1>16, CountedIsActive DEF DropRef, ThisKnown, HoldsRef
    <2>1. Attached'
      <3>1. /\ pc'[t] \in {"freeId", "accept", "wait", "onMessage"}
            /\ this'[t] = this[t]
            /\ \A u \in Threads \ {t} : pc'[u] = pc[u] /\ this'[u] = this[u]
            /\ \A s \in Sessions : s # this[t] => (IsActive(s)' <=> IsActive(s))
        BY ZenonT(60), <1>a, <1>16, <2>a
        DEF ThreadsTypeOK, SessionsTypeOK, IsActive, DropRef,
            DisconnectSession, Clear, Call, Goto, Resume
      <3>2. CASE t \in Workers
        BY <3>1, <3>2 DEF OneWorker, Attached
      <3>3. CASE t = Acceptor
        <4>1. \A w \in Workers : pc[w] \in InMethods => this[w] # this[t]
          BY <1>a, <1>16, <3>3 DEF DropRef, Alone
        <4>. QED
          BY <1>a, <3>1, <3>3, <4>1 DEF Attached, InMethods, ThisKnown
      <3>. QED
        BY <3>2, <3>3
    <2>2. Alone'
      BY ZenonT(60), <1>a, <1>16, <2>a DEF OneWorker, Alone, InMethods,
         SessionsTypeOK, ThreadsTypeOK, WorkerControl, AcceptorControl,
         AcceptLabels, DropRef, DisconnectSession, Clear, Call, Goto,
         Resume
    <2>3. RecvOnce'
      BY SMTT(60), <1>a, <1>16, <2>a DEF OneWorker, RecvOnce, Alone, InMethods,
         SessionsTypeOK, ThreadsTypeOK, WorkerControl, DropRef,
         DisconnectSession, Clear, Call, Goto, Resume
    <2>. QED
      BY <2>1, <2>2, <2>3 DEF WorkInv
  <1>17. ASSUME NEW t \in Threads, FreeId(t)  PROVE WorkInv'
    <2>1. Attached'
      BY <1>a, <1>17 DEF OneWorker, Attached, Alone, IsActive,
         SessionsTypeOK, ThreadsTypeOK, FreeId, Goto, Resume
    <2>2. Alone'
      BY <1>a, <1>17 DEF OneWorker, Alone, InMethods, SessionsTypeOK,
         ThreadsTypeOK, WorkerControl, AcceptorControl, AcceptLabels,
         FreeId, Goto, Resume
    <2>3. RecvOnce'
      BY <1>a, <1>17 DEF OneWorker, RecvOnce, Alone, InMethods,
         SessionsTypeOK, ThreadsTypeOK, WorkerControl, FreeId, Goto,
         Resume
    <2>. QED
      BY <2>1, <2>2, <2>3 DEF WorkInv
  <1>18. ASSUME InitSession  PROVE WorkInv'
    <2>a. /\ this[Acceptor] \in Sessions /\ ~IsActive(this[Acceptor])
      BY <1>a, <1>18, AcceptorCarries DEF ThisKnown, InitSession
    <2>b. /\ recvs[this[Acceptor]] = 0 /\ sends[this[Acceptor]] = << >>
          /\ \A w \in Workers :
               /\ onRecv[w] # this[Acceptor]
               /\ pc[w] \in InMethods => this[w] # this[Acceptor]
      BY <1>a, <2>a, InactiveUnused
    <2>1. Attached'
      BY <1>a, <1>18, <2>a, <2>b DEF Attached, Alone, IsActive,
         SessionsTypeOK, ThreadsTypeOK, InitSession, Goto, Init
    <2>2. Alone'
      BY <1>a, <1>18, <2>a, <2>b DEF Alone, InMethods, SessionsTypeOK,
         ThreadsTypeOK, WorkerControl, AcceptorControl, AcceptLabels,
         InitSession, Goto, Init
    <2>3. RecvOnce'
      BY <1>a, <1>18, <2>a, <2>b DEF RecvOnce, Alone, InMethods,
         SessionsTypeOK, ThreadsTypeOK, WorkerControl, InitSession,
         Goto, Init
    <2>. QED
      BY <2>1, <2>2, <2>3 DEF WorkInv
  <1>19. ASSUME OnConnect  PROVE WorkInv'
    <2>1. Attached'
      BY <1>a, <1>19 DEF Attached, Alone, IsActive, SessionsTypeOK,
         ThreadsTypeOK, OnConnect, Goto
    <2>2. Alone'
      BY <1>a, <1>19 DEF Alone, InMethods, SessionsTypeOK,
         ThreadsTypeOK, WorkerControl, AcceptorControl, AcceptLabels,
         OnConnect, Goto
    <2>3. RecvOnce'
      BY <1>a, <1>19 DEF RecvOnce, Alone, InMethods, SessionsTypeOK,
         ThreadsTypeOK, WorkerControl, OnConnect, Goto
    <2>. QED
      BY <2>1, <2>2, <2>3 DEF WorkInv
  <1>20. ASSUME SetUserId  PROVE WorkInv'
    <2>1. Attached'
      BY <1>a, <1>20 DEF Attached, Alone, IsActive, SessionsTypeOK,
         ThreadsTypeOK, SetUserId, Goto
    <2>2. Alone'
      BY <1>a, <1>20 DEF Alone, InMethods, SessionsTypeOK,
         ThreadsTypeOK, WorkerControl, AcceptorControl, AcceptLabels,
         SetUserId, Goto
    <2>3. RecvOnce'
      BY <1>a, <1>20 DEF RecvOnce, Alone, InMethods, SessionsTypeOK,
         ThreadsTypeOK, WorkerControl, SetUserId, Goto
    <2>. QED
      BY <2>1, <2>2, <2>3 DEF WorkInv
  <1>21. ASSUME NEW c \in Conns, Accept(c)  PROVE WorkInv'
    <2>1. Attached'
      BY <1>a, <1>21 DEF Attached, Alone, IsActive, SessionsTypeOK,
         ThreadsTypeOK, Accept, Call, Goto
    <2>2. Alone'
      BY <1>a, <1>21 DEF Alone, InMethods, SessionsTypeOK,
         ThreadsTypeOK, WorkerControl, AcceptorControl, AcceptLabels,
         Accept, Call, Goto
    <2>3. RecvOnce'
      BY SMTT(60), <1>a, <1>21 DEF RecvOnce, Alone, InMethods, SessionsTypeOK,
         ThreadsTypeOK, WorkerControl, Accept, Call, Goto
    <2>. QED
      BY <2>1, <2>2, <2>3 DEF WorkInv
  <1>22. ASSUME NEW c \in Conns, Say(c)  PROVE WorkInv'
    <2>1. Attached'
      BY <1>a, <1>22 DEF Attached, Alone, IsActive, SessionsTypeOK,
         ThreadsTypeOK, Say
    <2>2. Alone'
      BY <1>a, <1>22 DEF Alone, InMethods, SessionsTypeOK,
         ThreadsTypeOK, WorkerControl, AcceptorControl, AcceptLabels,
         Say
    <2>3. RecvOnce'
      BY <1>a, <1>22 DEF RecvOnce, Alone, InMethods, SessionsTypeOK,
         ThreadsTypeOK, WorkerControl, Say
    <2>. QED
      BY <2>1, <2>2, <2>3 DEF WorkInv
  <1>23. ASSUME NEW c \in Conns, Close(c)  PROVE WorkInv'
    <2>1. Attached'
      BY <1>a, <1>23 DEF Attached, Alone, IsActive, SessionsTypeOK,
         ThreadsTypeOK, Close
    <2>2. Alone'
      BY <1>a, <1>23 DEF Alone, InMethods, SessionsTypeOK,
         ThreadsTypeOK, WorkerControl, AcceptorControl, AcceptLabels,
         Close
    <2>3. RecvOnce'
      BY <1>a, <1>23 DEF RecvOnce, Alone, InMethods, SessionsTypeOK,
         ThreadsTypeOK, WorkerControl, Close
    <2>. QED
      BY <2>1, <2>2, <2>3 DEF WorkInv
  <1>24. CASE UNCHANGED vars
    BY <1>a, <1>24
    DEF vars, WorkInv, Attached, Alone, RecvOnce, IsActive
  <1>. QED
    BY <1>1, <1>1p, <1>2, <1>3, <1>4, <1>5, <1>6, <1>7, <1>8, <1>9, <1>10,
       <1>11, <1>12, <1>13, <1>14, <1>15, <1>16, <1>17, <1>18, <1>19, <1>20,
       <1>21, <1>22, <1>23, <1>24
    DEF Next, Completion, Handling, Shared, Accepting


-----------------------------------------------------------------------------
(* The frames in flight. *)

LEMMA BeginsAppended ==
  ASSUME NEW p \in Seq(Frames), NEW q \in Seq(Frames), NEW x \in Frames,
         Begins(p, q)
  PROVE  Begins(p, Append(q, x))
PROOF
  BY AppendProperties DEF Begins

(* The one send outstanding, when its completion is taken.                 *)
LEMMA OneSend ==
  ASSUME TypeInv, SendInv, NEW s \in Sessions, sends[s] # << >>
  PROVE  /\ Tail(sends[s]) = << >> /\ isSending[s]
         /\ Head(sends[s]) \in Seq(Frames)
         /\ Begins(Head(sends[s]), sendQ[s])
PROOF
  <1>1. sends[s] \in Seq(Seq(Frames))
    BY DEF TypeInv, TypeOK, SessionsTypeOK
  <1>2. Len(sends[s]) = 1 /\ isSending[s] /\ Begins(sends[s][1], sendQ[s])
    BY DEF SendInv, InFlight
  <1>3. /\ Head(sends[s]) = sends[s][1] /\ Head(sends[s]) \in Seq(Frames)
        /\ Tail(sends[s]) \in Seq(Seq(Frames)) /\ Len(Tail(sends[s])) = 0
    BY <1>1, <1>2, HeadTailProperties
  <1>. QED
    BY <1>2, <1>3, EmptySeq

LEMMA SendInit == ServerInit => SendInv
PROOF
  BY ThreadsAssumption
  DEF ServerInit, SessionInit, SendInv, InFlight, SomeFrames, Threads

LEMMA SendStep ==
  ASSUME OneWorker
  PROVE  TypeInv /\ RefInv /\ SlotInv /\ WorkInv /\ SendInv /\ [Next]_vars
           => SendInv'
PROOF
  <1>. SUFFICES ASSUME TypeInv, RefInv, SlotInv, WorkInv, SendInv, [Next]_vars
                PROVE  SendInv'
    OBVIOUS
  <1>. USE ThreadsAssumption
       DEF Threads, flags, queues, io, sessionVars, lobbyVars, lobbyAndPool,
           netVars, threadVars
  <1>a. /\ TypeInv /\ TypeOK /\ RefInv /\ SlotInv /\ WorkInv /\ SendInv
        /\ SessionsTypeOK /\ ThreadsTypeOK
        /\ AcceptorControl /\ WorkerControl /\ ThisKnown
    BY DEF TypeInv, TypeOK, ControlOK
  <1>1. ASSUME NEW w \in Workers, NEW s \in Sessions, RecvCompletes(w, s)
        PROVE SendInv'
    BY <1>a, <1>1 DEF OneWorker, SendInv, InFlight, SomeFrames,
       ThreadsTypeOK, RecvCompletes, Goto
  <1>1p. ASSUME NEW w \in Workers, NEW s \in Sessions, RecvPiece(w, s)
         PROVE SendInv'
    BY <1>a, <1>1p DEF OneWorker, SendInv, InFlight, SomeFrames,
       ThreadsTypeOK, RecvPiece, Goto
  <1>2. ASSUME NEW w \in Workers, NEW s \in Sessions, RecvFails(w, s)
        PROVE SendInv'
    BY <1>a, <1>2 DEF OneWorker, SendInv, InFlight, SomeFrames,
       ThreadsTypeOK, RecvFails, Call, Goto
  <1>3. ASSUME NEW w \in Workers, NEW s \in Sessions, SendCompletes(w, s)
        PROVE SendInv'
    <2>1. /\ sends'[s] = << >> /\ isSending'[s] /\ this'[w] = s
          /\ batch'[w] \in Seq(Frames) /\ Begins(batch'[w], sendQ'[s])
          /\ pc'[w] = "onSend"
          /\ \A r \in Sessions \ {s} : sends'[r] = sends[r]
          /\ UNCHANGED << sendQ, isSending >>
      BY <1>a, <1>3, OneSend DEF SendCompletes, Call, Goto, SessionsTypeOK,
         ThreadsTypeOK
    <2>. QED
      BY <1>a, <2>1 DEF OneWorker, SendInv, InFlight, SomeFrames
  <1>4. ASSUME NEW w \in Workers, NEW s \in Sessions, SendFails(w, s)
        PROVE SendInv'
    <2>1. /\ sends'[s] = << >> /\ pc'[w] = "dropRef"
          /\ \A r \in Sessions \ {s} : sends'[r] = sends[r]
          /\ UNCHANGED << sendQ, isSending >>
      BY <1>a, <1>4, OneSend DEF SendFails, Call, Goto, SessionsTypeOK,
         ThreadsTypeOK
    <2>. QED
      BY <1>a, <2>1 DEF OneWorker, SendInv, InFlight, SomeFrames
  <1>5. ASSUME NEW w \in Workers, OnMessage(w)  PROVE SendInv'
    BY <1>a, <1>5 DEF OneWorker, SendInv, InFlight, SomeFrames,
       ThreadsTypeOK, OnMessage, Goto
  <1>6. ASSUME NEW w \in Workers, ChatUnicast(w)  PROVE SendInv'
    BY <1>a, <1>6 DEF OneWorker, SendInv, InFlight, SomeFrames,
       ThreadsTypeOK, ChatUnicast, Call, Goto
  <1>7. ASSUME NEW w \in Workers, GetSessionPointer(w)  PROVE SendInv'
    BY <1>a, <1>7 DEF OneWorker, SendInv, InFlight, SomeFrames,
       ThreadsTypeOK, GetSessionPointer, Goto
  <1>8. ASSUME NEW w \in Workers, SendPacket(w)  PROVE SendInv'
    <2>1. this[w] \in Sessions /\ frame[w] \in Frames
      BY <1>a, <1>8 DEF SendPacket, ThisKnown, WorkerControl, ChatLabels
    <2>2. /\ pc'[w] \in {"onMessage", "postSend"}
          /\ \/ sendQ' = sendQ /\ pc'[w] = "onMessage"
             \/ sendQ' = [sendQ EXCEPT ![this[w]] = Append(@, frame[w])]
          /\ UNCHANGED << isSending, sends, this >>
      BY <1>a, <1>8 DEF ThreadsTypeOK, SendPacket, Enqueue, Goto
    <2>3. \A s \in Sessions :
            \/ sendQ'[s] = sendQ[s]
            \/ s = this[w] /\ sendQ'[s] = Append(sendQ[s], frame[w])
      <3>1. DOMAIN sendQ = Sessions
        BY <1>a DEF SessionsTypeOK
      <3>. QED
        BY <2>1, <2>2, <3>1
    <2>4. ASSUME NEW s \in Sessions, sends[s] # << >>
          PROVE  Len(sends[s]) = 1 /\ isSending[s]
                 /\ Begins(sends[s][1], sendQ'[s])
      <3>1. /\ Len(sends[s]) = 1 /\ isSending[s]
            /\ Begins(sends[s][1], sendQ[s])
        BY <1>a, <2>4 DEF SendInv, InFlight
      <3>2. sends[s][1] \in Seq(Frames) /\ sendQ[s] \in Seq(Frames)
        <4>1. sends[s] \in Seq(Seq(Frames)) /\ sendQ[s] \in Seq(Frames)
          BY <1>a DEF SessionsTypeOK
        <4>. QED
          BY <3>1, <4>1, ElementOfSeq
      <3>. QED
        BY ZenonT(60), <2>1, <2>3, <3>1, <3>2, BeginsAppended
    <2>5. InFlight'
      BY <2>2, <2>4 DEF OneWorker, InFlight
    <2>6. pc'[w] = "postSend" => sendQ'[this[w]] # << >>
      BY <1>a, <2>1, <2>2, AppendProperties, EmptySeq DEF SessionsTypeOK
    <2>. QED
      BY <2>2, <2>5, <2>6 DEF OneWorker, SendInv, SomeFrames
  <1>9. ASSUME NEW w \in Workers, OnRecvEnd(w)  PROVE SendInv'
    BY <1>a, <1>9 DEF OneWorker, SendInv, InFlight, SomeFrames,
       ThreadsTypeOK, OnRecvEnd, DecrementRefCount, DisconnectSession,
       Call, Goto
  <1>10. ASSUME NEW w \in Workers, PostSend(w)  PROVE SendInv'
    <2>1. this[w] \in Sessions
      BY <1>a, <1>10 DEF PostSend, ThisKnown
    <2>2. CASE pc'[w] = "WSASend"
      <3>1. /\ MaySend(this[w]) /\ batch'[w] = sendQ[this[w]]
            /\ isSending'[this[w]]
            /\ \A s \in Sessions : isSending[s] => isSending'[s]
            /\ UNCHANGED << sendQ, sends, this >>
        BY ZenonT(60), <1>a, <1>10, <2>1, <2>2 DEF ThreadsTypeOK, WorkerControl,
           SessionsTypeOK, PostSend, BeginSend, IncrementRefCount, Goto, Resume
      <3>2. sends[this[w]] = << >> /\ sendQ[this[w]] # << >>
        BY <1>a, <1>10, <2>1, <3>1
        DEF MaySend, SendInv, InFlight, SomeFrames, PostSend
      <3>3. Begins(sendQ[this[w]], sendQ[this[w]])
        BY <1>a, <2>1 DEF Begins, SessionsTypeOK
      <3>. QED
        BY <1>a, <2>2, <3>1, <3>2, <3>3
        DEF OneWorker, SendInv, InFlight, SomeFrames
    <2>3. CASE pc'[w] # "WSASend"
      <3>1. pc'[w] \in {"wait", "onMessage"}
            /\ UNCHANGED << sendQ, sends, isSending >>
        BY <1>a, <1>10, <2>3 DEF ThreadsTypeOK, PostSend, Goto, Resume
      <3>. QED
        BY <1>a, <3>1 DEF OneWorker, SendInv, InFlight, SomeFrames
    <2>. QED
      BY <2>2, <2>3
  <1>11. ASSUME NEW w \in Workers, WSASend(w)  PROVE SendInv'
    <2>1. /\ this[w] \in Sessions /\ sends[this[w]] = << >>
          /\ isSending[this[w]] /\ Begins(batch[w], sendQ[this[w]])
          /\ batch[w] \in Seq(Frames)
      BY <1>a, <1>11 DEF WSASend, ThisKnown, SendInv, InFlight, ThreadsTypeOK
    <2>2. /\ pc'[w] \in {"wait", "onMessage", "dropRef"}
          /\ \/ sends' = sends
             \/ sends' = [sends EXCEPT ![this[w]] = Append(<< >>, batch[w])]
          /\ UNCHANGED << sendQ, isSending >>
      BY <1>a, <1>11, <2>1 DEF ThreadsTypeOK, SessionsTypeOK, WSASend, Goto,
         Resume
    <2>3. \A s \in Sessions :
            \/ sends'[s] = sends[s]
            \/ s = this[w] /\ sends'[s] = << batch[w] >>
      BY SMTT(60), <1>a, <2>1, <2>2 DEF SessionsTypeOK
    <2>4. Len(<< batch[w] >>) = 1 /\ << batch[w] >>[1] = batch[w]
      OBVIOUS
    <2>5. ASSUME NEW s \in Sessions, sends'[s] # << >>
          PROVE  /\ Len(sends'[s]) = 1 /\ isSending[s]
                 /\ Begins(sends'[s][1], sendQ[s])
      BY <1>a, <2>1, <2>3, <2>4, <2>5 DEF SendInv, InFlight
    <2>6. InFlight'
      BY <2>2, <2>5 DEF OneWorker, InFlight, Begins
    <2>. QED
      BY <2>2, <2>6 DEF OneWorker, SendInv, SomeFrames
  <1>12. ASSUME NEW w \in Workers, OnSend(w)  PROVE SendInv'
    BY <1>a, <1>12 DEF OneWorker, SendInv, InFlight, SomeFrames,
       ThreadsTypeOK, OnSend, DecrementRefCount, DisconnectSession, Call,
       Goto
  <1>13. ASSUME NEW w \in Workers, SendDone(w)  PROVE SendInv'
    <2>a. /\ this[w] \in Sessions /\ IsActive(this[w])
          /\ sends[this[w]] = << >>
      BY <1>a, <1>13 DEF SendDone, ThisKnown, WorkInv, Attached, SendInv,
         InFlight
    <2>b. sendQ[this[w]] \in Seq(Frames) /\ batch[w] \in Seq(Frames)
      BY <1>a, <2>a DEF ThreadsTypeOK, SessionsTypeOK
    <2>1. /\ this[w] \in Sessions /\ IsActive(this[w])
          /\ sends[this[w]] = << >> /\ sendQ[this[w]] \in Seq(Frames)
          /\ Len(batch[w]) \in Nat
      BY <2>a, <2>b, LenProperties
    <2>2. /\ pc'[w] \in {"wait", "postSend"} /\ UNCHANGED << sends, this >>
          /\ pc'[w] = "postSend" => Len(sendQ'[this[w]]) > 0
          /\ \A s \in Sessions \ {this[w]} :
               sendQ'[s] = sendQ[s] /\ isSending'[s] = isSending[s]
      BY <1>a, <1>13, <2>1 DEF ThreadsTypeOK, SessionsTypeOK, SendDone,
         FinishSend, QueuedAfter, Goto
    <2>3. pc'[w] = "postSend" => sendQ'[this[w]] # << >>
      BY <2>2, EmptySeq
    <2>. QED
      BY <1>a, <2>1, <2>2, <2>3 DEF OneWorker, SendInv, InFlight, SomeFrames
  <1>14. ASSUME NEW t \in Threads, PostRecv(t)  PROVE SendInv'
    BY <1>a, <1>14 DEF OneWorker, SendInv, InFlight, SomeFrames,
       ThreadsTypeOK, PostRecv, Goto, Resume
  <1>15. ASSUME NEW t \in Threads, WSARecv(t)  PROVE SendInv'
    BY <1>a, <1>15 DEF OneWorker, SendInv, InFlight, SomeFrames,
       ThreadsTypeOK, WSARecv, Goto
  <1>16. ASSUME NEW t \in Threads, DropRef(t)  PROVE SendInv'
    BY <1>a, <1>16 DEF OneWorker, SendInv, InFlight, SomeFrames,
       ThreadsTypeOK, DropRef, DisconnectSession, Call, Goto, Resume
  <1>17. ASSUME NEW t \in Threads, FreeId(t)  PROVE SendInv'
    BY <1>a, <1>17 DEF OneWorker, SendInv, InFlight, SomeFrames,
       ThreadsTypeOK, FreeId, Goto, Resume
  <1>18. ASSUME InitSession  PROVE SendInv'
    <2>1. /\ this[Acceptor] \in Sessions /\ ~IsActive(this[Acceptor])
      BY <1>a, <1>18, AcceptorCarries
      DEF SlotInv, ThisKnown, InitSession
    <2>2. /\ sends[this[Acceptor]] = << >>
          /\ \A w \in Workers : pc[w] \in InMethods => this[w] # this[Acceptor]
      BY <1>a, <2>1, InactiveUnused DEF WorkInv
    <2>3. /\ \A s \in Sessions \ {this[Acceptor]} : sendQ'[s] = sendQ[s]
          /\ \A w \in Workers : pc'[w] = pc[w]
          /\ UNCHANGED << sends, isSending, batch, this >>
      BY <1>a, <1>18, <2>1 DEF ThreadsTypeOK, SessionsTypeOK, InitSession, Init,
         Goto
    <2>4. \A w \in Workers : pc[w] \in InMethods => this[w] \in Sessions
      BY <1>a DEF ThisKnown, InMethods
    <2>. QED
      BY <1>a, <2>2, <2>3, <2>4 DEF SendInv, InFlight, SomeFrames, InMethods
  <1>19. ASSUME OnConnect  PROVE SendInv'
    BY <1>a, <1>19 DEF SendInv, InFlight, SomeFrames, ThreadsTypeOK,
       OnConnect, Goto
  <1>20. ASSUME SetUserId  PROVE SendInv'
    BY <1>a, <1>20 DEF SendInv, InFlight, SomeFrames, ThreadsTypeOK,
       SetUserId, Goto
  <1>21. ASSUME NEW c \in Conns, Accept(c)  PROVE SendInv'
    BY SMTT(60), <1>a, <1>21 DEF SendInv, InFlight, SomeFrames, ThreadsTypeOK,
       Accept, Call, Goto
  <1>22. ASSUME NEW c \in Conns, Say(c)  PROVE SendInv'
    BY <1>a, <1>22 DEF SendInv, InFlight, SomeFrames, ThreadsTypeOK, Say
  <1>23. ASSUME NEW c \in Conns, Close(c)  PROVE SendInv'
    BY <1>a, <1>23 DEF SendInv, InFlight, SomeFrames, ThreadsTypeOK,
       Close
  <1>24. CASE UNCHANGED vars
    BY <1>a, <1>24 DEF vars, SendInv, InFlight, SomeFrames
  <1>. QED
    BY <1>1, <1>1p, <1>2, <1>3, <1>4, <1>5, <1>6, <1>7, <1>8, <1>9, <1>10,
       <1>11, <1>12, <1>13, <1>14, <1>15, <1>16, <1>17, <1>18, <1>19, <1>20,
       <1>21, <1>22, <1>23, <1>24
    DEF Next, Completion, Handling, Shared, Accepting


-----------------------------------------------------------------------------
(* Queues of frames. *)

LEMMA EmptyOrdered ==
  /\ Rising(<< >>) /\ \A c, n : OwnFrames(<< >>, c, n)
  /\ \A x : Before(x, << >>) /\ Before(<< >>, x)
PROOF
  BY DEF Rising, OwnFrames, Before

LEMMA JoinedOrdered ==
  ASSUME NEW p \in Seq(Frames), NEW q \in Seq(Frames)
  PROVE  /\ Rising(p) /\ Rising(q) /\ Before(p, q) => Rising(p \o q)
         /\ \A c, n : OwnFrames(p, c, n) /\ OwnFrames(q, c, n)
                        => OwnFrames(p \o q, c, n)
         /\ \A x \in Seq(Frames) :
              /\ Before(x, p) /\ Before(x, q) => Before(x, p \o q)
              /\ Before(p, x) /\ Before(q, x) => Before(p \o q, x)
PROOF
  <1>1. /\ Len(p) \in Nat /\ Len(q) \in Nat /\ Len(p \o q) = Len(p) + Len(q)
        /\ \A i \in 1..Len(p \o q) :
             (p \o q)[i] = IF i <= Len(p) THEN p[i] ELSE q[i - Len(p)]
    BY ConcatProperties, LenProperties
  <1>2. ASSUME NEW i \in 1..Len(p \o q)
        PROVE  \/ i \in 1..Len(p) /\ (p \o q)[i] = p[i]
               \/ i - Len(p) \in 1..Len(q) /\ (p \o q)[i] = q[i - Len(p)]
    BY <1>1
  <1>3. Rising(p) /\ Rising(q) /\ Before(p, q) => Rising(p \o q)
    <2>. SUFFICES ASSUME Rising(p), Rising(q), Before(p, q),
                         NEW i \in 1..Len(p \o q), NEW j \in 1..(i - 1)
                  PROVE  (p \o q)[j][2] < (p \o q)[i][2]
      BY DEF Rising
    <2>1. j \in 1..Len(p \o q) /\ j < i
      BY <1>1
    <2>2. CASE i \in 1..Len(p) /\ (p \o q)[i] = p[i]
      BY <1>1, <2>1, <2>2 DEF Rising
    <2>3. CASE i - Len(p) \in 1..Len(q) /\ (p \o q)[i] = q[i - Len(p)]
      BY SMTT(60), <1>1, <1>2, <2>1, <2>3 DEF Rising, Before
    <2>. QED
      BY <1>2, <2>2, <2>3
  <1>4. ASSUME NEW c, NEW n, OwnFrames(p, c, n), OwnFrames(q, c, n)
        PROVE  OwnFrames(p \o q, c, n)
    BY <1>2, <1>4 DEF OwnFrames
  <1>5. ASSUME NEW x \in Seq(Frames)
        PROVE  /\ Before(x, p) /\ Before(x, q) => Before(x, p \o q)
               /\ Before(p, x) /\ Before(q, x) => Before(p \o q, x)
    BY <1>2 DEF Before
  <1>. QED
    BY <1>3, <1>4, <1>5

(* Frames leave a queue at its front.                                      *)
LEMMA CutOrdered ==
  ASSUME NEW q \in Seq(Frames), NEW n \in 0..Len(q)
  PROVE  LET p == SubSeq(q, n + 1, Len(q)) IN
         /\ p \in Seq(Frames) /\ Len(p) = Len(q) - n
         /\ \A i \in 1..Len(p) : p[i] = q[i + n]
         /\ Rising(q) => Rising(p)
         /\ \A c, m : OwnFrames(q, c, m) => OwnFrames(p, c, m)
         /\ \A x : /\ Before(x, q) => Before(x, p)
                   /\ Before(q, x) => Before(p, x)
PROOF
  <1>. DEFINE p == SubSeq(q, n + 1, Len(q))
  <1>1. Len(q) \in Nat /\ \A i \in (n + 1)..Len(q) : q[i] \in Frames
    BY LenProperties, ElementOfSeq
  <1>2. /\ p \in Seq(Frames) /\ Len(p) = Len(q) - n
        /\ \A i \in 1..Len(p) : p[i] = q[i + n]
    BY SMTT(60), <1>1, SubSeqProperties
  <1>3. \A i \in 1..Len(p) : i + n \in 1..Len(q)
    BY <1>1, <1>2
  <1>. HIDE DEF p
  <1>4. ASSUME Rising(q)  PROVE Rising(p)
    <2>. SUFFICES ASSUME NEW i \in 1..Len(p), NEW j \in 1..(i - 1)
                  PROVE  p[j][2] < p[i][2]
      BY DEF Rising
    <2>1. j \in 1..Len(p) /\ j + n \in 1..((i + n) - 1)
      BY <1>1, <1>2
    <2>. QED
      BY <1>2, <1>3, <1>4, <2>1 DEF Rising
  <1>5. \A c, m : OwnFrames(q, c, m) => OwnFrames(p, c, m)
    BY ZenonT(60), <1>2, <1>3 DEF OwnFrames
  <1>6. \A x : /\ Before(x, q) => Before(x, p)
               /\ Before(q, x) => Before(p, x)
    BY <1>2, <1>3 DEF Before
  <1>. QED
    BY <1>2, <1>4, <1>5, <1>6 DEF p

LEMMA HeadOrdered ==
  ASSUME NEW q \in Seq(Frames), q # << >>
  PROVE  /\ Head(q) \in Frames /\ << Head(q) >> \in Seq(Frames)
         /\ Tail(q) = SubSeq(q, 1 + 1, Len(q)) /\ 1 \in 0..Len(q)
         /\ \A c, n : OwnFrames(q, c, n) => OwnFrames(<< Head(q) >>, c, n)
         /\ \A x : Before(x, q) => Before(x, << Head(q) >>)
         /\ Rising(q) => Before(<< Head(q) >>, Tail(q))
PROOF
  <1>1. /\ Len(q) \in Nat /\ Len(q) >= 1 /\ Head(q) = q[1] /\ q[1] \in Frames
        /\ Tail(q) \in Seq(Frames) /\ Len(Tail(q)) = Len(q) - 1
        /\ \A i \in 1..Len(Tail(q)) : Tail(q)[i] = q[i + 1]
    BY LenProperties, EmptySeq, ElementOfSeq, HeadTailProperties
  <1>2. Len(<< Head(q) >>) = 1 /\ << Head(q) >>[1] = q[1]
    BY <1>1
  <1>3. Tail(q) = SubSeq(q, 1 + 1, Len(q))
    BY <1>1, CutOrdered, SeqEqual
  <1>4. Rising(q) => Before(<< Head(q) >>, Tail(q))
    BY <1>1, <1>2 DEF Rising, Before
  <1>. QED
    BY <1>1, <1>2, <1>3, <1>4 DEF OwnFrames, Before

LEMMA BeginsOrdered ==
  ASSUME NEW p \in Seq(Frames), NEW q \in Seq(Frames), Begins(p, q)
  PROVE  /\ Rising(q) => Rising(p)
         /\ \A c, n : OwnFrames(q, c, n) => OwnFrames(p, c, n)
         /\ \A x : /\ Before(x, q) => Before(x, p)
                   /\ Before(q, x) => Before(p, x)
         /\ \A j \in 1..Len(q) : Rising(q) /\ j > Len(p)
              => Before(p, << q[j] >>)
PROOF
  <1>1. /\ Len(p) \in Nat /\ Len(q) \in Nat
        /\ \A i \in 1..Len(p) : i \in 1..Len(q) /\ p[i] = q[i]
    BY LenProperties DEF Begins
  <1>2. Rising(q) => Rising(p)
    BY <1>1 DEF Rising
  <1>3. ASSUME NEW j \in 1..Len(q), Rising(q), j > Len(p)
        PROVE  Before(p, << q[j] >>)
    <2>1. \A i \in 1..Len(p) : i \in 1..(j - 1)
      BY <1>1, <1>3
    <2>2. \A i \in 1..Len(p) : p[i][2] < q[j][2]
      BY <1>1, <1>3, <2>1 DEF Rising
    <2>. QED
      BY <2>2 DEF Before
  <1>. QED
    BY <1>1, <1>2, <1>3 DEF OwnFrames, Before

(* The next k frames of a client.                                          *)
LEMMA NextFrames ==
  ASSUME NEW c \in Conns, NEW n \in Nat, NEW k \in Nat, n + k <= MaxMsgs
  PROVE  LET p == [i \in 1..k |-> << c, n + i >>] IN
         /\ p \in Seq(Frames) /\ Rising(p) /\ OwnFrames(p, c, n + k)
         /\ \A x \in Seq(Frames) : OwnFrames(x, c, n) => Before(x, p)
PROOF
  <1>. DEFINE p == [i \in 1..k |-> << c, n + i >>]
  <1>1. \A i \in 1..k : << c, n + i >> \in Frames
    BY SizesAssumption DEF Frames
  <1>2. /\ p \in Seq(Frames) /\ Len(p) = k
        /\ \A i \in 1..k : p[i] = << c, n + i >>
    BY <1>1
  <1>. HIDE DEF p
  <1>3. Rising(p) /\ OwnFrames(p, c, n + k)
    BY <1>2 DEF Rising, OwnFrames
  <1>4. ASSUME NEW x \in Seq(Frames), OwnFrames(x, c, n)  PROVE Before(x, p)
    <2>1. \A i \in 1..Len(x) : x[i][2] \in Nat /\ x[i][2] <= n
      BY <1>4, ElementOfSeq DEF Frames, OwnFrames
    <2>. QED
      BY <1>2, <2>1 DEF Before
  <1>. QED
    BY <1>2, <1>3, <1>4 DEF p

-----------------------------------------------------------------------------
(* The order is kept. *)

LEMMA OrderUntouched ==
  ASSUME OrderInv,
         UNCHANGED << echoed, consumed, recvQ, sendQ, socket, frame >>,
         \A s \in Sessions : IsActive(s)' =>
           IsActive(s) /\ \A j \in 1..Len(sendQ[s]) : Got(s, j) => Got(s, j)',
         \A w \in Workers : pc'[w] \in ChatLabels =>
           pc[w] \in ChatLabels /\ onRecv'[w] = onRecv[w]
  PROVE  OrderInv'
PROOF
  <1>1. EchoedInv'
    BY DEF OrderInv, EchoedInv
  <1>2. QueuesInv'
    BY DEF OrderInv, QueuesInv
  <1>3. HandledInv'
    BY DEF OrderInv, HandledInv
  <1>. QED
    BY <1>1, <1>2, <1>3 DEF OrderInv

(* What the invariant says of one session and its socket.                  *)
LEMMA OrderOf ==
  ASSUME TypeInv, OrderInv, NEW s \in Sessions, IsActive(s)
  PROVE  /\ socket[s] \in Conns /\ consumed[socket[s]] \in Nat
         /\ recvQ[s] \in Seq(Frames) /\ sendQ[s] \in Seq(Frames)
         /\ echoed[socket[s]] \in Seq(Frames)
         /\ OwnFrames(echoed[socket[s]], socket[s], consumed[socket[s]])
         /\ Rising(echoed[socket[s]])
         /\ OwnFrames(recvQ[s], socket[s], consumed[socket[s]])
         /\ OwnFrames(sendQ[s], socket[s], consumed[socket[s]])
         /\ Rising(recvQ[s]) /\ Rising(sendQ[s])
         /\ Before(sendQ[s], recvQ[s]) /\ Before(echoed[socket[s]], recvQ[s])
         /\ \A j \in 1..Len(sendQ[s]) :
              Got(s, j) \/ Before(echoed[socket[s]], << sendQ[s][j] >>)
PROOF
  <1>1. /\ socket[s] \in Conns /\ SessionsTypeOK /\ NetTypeOK
    BY DEF TypeInv, TypeOK, ControlOK, SocketKnown
  <1>. QED
    BY <1>1 DEF SessionsTypeOK, NetTypeOK, OrderInv, EchoedInv, QueuesInv

LEMMA OrderInit == ServerInit => OrderInv
PROOF
  <1>. SUFFICES ASSUME ServerInit  PROVE OrderInv
    OBVIOUS
  <1>1. EchoedInv
    BY EmptyOrdered DEF ServerInit, EchoedInv
  <1>2. QueuesInv /\ HandledInv
    BY ThreadsAssumption
    DEF ServerInit, SessionInit, QueuesInv, HandledInv, IsActive, ChatLabels,
        Threads
  <1>. QED
    BY <1>1, <1>2 DEF OrderInv

LEMMA OrderStep ==
  ASSUME OneWorker
  PROVE  (TypeInv /\ RefInv /\ SlotInv /\ ClientInv /\ WorkInv /\ SendInv)
           /\ OrderInv /\ [Next]_vars => OrderInv'
PROOF
  <1>. SUFFICES ASSUME TypeInv, RefInv, SlotInv, ClientInv, WorkInv, SendInv,
                       OrderInv, [Next]_vars
                PROVE  OrderInv'
    OBVIOUS
  <1>. USE ThreadsAssumption
       DEF Threads, flags, queues, io, sessionVars, lobbyVars, lobbyAndPool,
           netVars, threadVars
  <1>a. /\ TypeInv /\ TypeOK /\ RefInv /\ SlotInv /\ ClientInv /\ WorkInv
        /\ SendInv /\ OrderInv
        /\ SessionsTypeOK /\ ThreadsTypeOK /\ NetTypeOK
        /\ WorkerControl /\ ThisKnown /\ SocketKnown
    BY DEF TypeInv, TypeOK, ControlOK
  <1>1. ASSUME NEW w \in Workers, NEW s \in Sessions, RecvCompletes(w, s)
        PROVE OrderInv'
    <2>. DEFINE c == socket[s]
    <2>1. IsActive(s)
      BY <1>a, <1>1, InUseFromCounts DEF RecvCompletes, InUseIsActive
    <2>2. PICK k \in 1..(sent[c] - consumed[c]) :
            /\ recvQ' = [recvQ EXCEPT ![s] =
                           @ \o [i \in 1..k |-> << c, consumed[c] + i >>]]
            /\ consumed' = [consumed EXCEPT ![c] = @ + k]
      BY <1>1 DEF RecvCompletes
    <2>. DEFINE new == [i \in 1..k |-> << c, consumed[c] + i >>]
    <2>3. /\ c \in Conns /\ consumed[c] \in Nat /\ k \in Nat
          /\ consumed[c] + k <= MaxMsgs
      BY <1>a, <2>1, <2>2, SizesAssumption DEF SocketKnown, NetTypeOK
    <2>4. /\ new \in Seq(Frames) /\ Rising(new)
          /\ OwnFrames(new, c, consumed[c] + k)
          /\ \A x \in Seq(Frames) : OwnFrames(x, c, consumed[c]) => Before(x, new)
      BY <2>3, NextFrames
    <2>5. /\ recvQ'[s] = recvQ[s] \o new /\ consumed'[c] = consumed[c] + k
          /\ \A r \in Sessions \ {s} : recvQ'[r] = recvQ[r]
          /\ \A d \in Conns \ {c} : consumed'[d] = consumed[d]
          /\ pc'[w] = "onMessage"
          /\ UNCHANGED << state, socket, sendQ, echoed, batch, this >>
      BY ZenonT(60), <1>a, <1>1, <2>2, <2>3 DEF SessionsTypeOK, NetTypeOK, ThreadsTypeOK,
         RecvCompletes, Goto
    <2>. HIDE DEF new
    <2>6. \A x \in Seq(Frames) :
            OwnFrames(x, c, consumed[c]) => OwnFrames(x, c, consumed[c] + k)
      <3>. SUFFICES ASSUME NEW x \in Seq(Frames), OwnFrames(x, c, consumed[c]),
                           NEW i \in 1..Len(x)
                    PROVE  x[i][1] = c /\ x[i][2] <= consumed[c] + k
        BY DEF OwnFrames
      <3>1. x[i][1] = c /\ x[i][2] <= consumed[c] /\ x[i][2] \in Nat
        BY ElementOfSeq DEF OwnFrames, Frames
      <3>. QED
        BY <2>3, <3>1
    <2>7. EchoedInv'
      <3>1. ASSUME NEW d \in Conns
            PROVE  OwnFrames(echoed[d], d, consumed'[d]) /\ Rising(echoed[d])
        <4>1. /\ OwnFrames(echoed[d], d, consumed[d]) /\ Rising(echoed[d])
              /\ echoed[d] \in Seq(Frames)
          BY <1>a DEF OrderInv, EchoedInv, NetTypeOK
        <4>. QED
          BY <2>5, <2>6, <4>1
      <3>. QED
        BY <2>5, <3>1 DEF EchoedInv
    <2>8. ASSUME NEW r \in Sessions, NEW j, Got(r, j)  PROVE FALSE
      BY <1>1, <2>8 DEF RecvCompletes, OneWorker, Got
    <2>9. QueuesInv'
      <3>. SUFFICES ASSUME NEW r \in Sessions, IsActive(r)
                    PROVE  /\ OwnFrames(recvQ'[r], socket[r], consumed'[socket[r]])
                           /\ OwnFrames(sendQ[r], socket[r], consumed'[socket[r]])
                           /\ Rising(recvQ'[r]) /\ Rising(sendQ[r])
                           /\ Before(sendQ[r], recvQ'[r])
                           /\ Before(echoed[socket[r]], recvQ'[r])
                           /\ \A j \in 1..Len(sendQ[r]) :
                                Before(echoed[socket[r]], << sendQ[r][j] >>)
        BY <2>5 DEF QueuesInv, IsActive
      <3>1. CASE r = s
        <4>1. /\ recvQ[s] \in Seq(Frames) /\ sendQ[s] \in Seq(Frames)
              /\ echoed[c] \in Seq(Frames)
              /\ OwnFrames(recvQ[s], c, consumed[c] + k)
              /\ OwnFrames(sendQ[s], c, consumed[c] + k)
              /\ Rising(recvQ[s]) /\ Rising(sendQ[s])
              /\ Before(sendQ[s], recvQ[s]) /\ Before(echoed[c], recvQ[s])
              /\ Before(recvQ[s], new) /\ Before(sendQ[s], new)
              /\ Before(echoed[c], new)
          BY <1>a, <2>1, <2>4, <2>6, OrderOf
        <4>2. /\ Rising(recvQ[s] \o new)
              /\ OwnFrames(recvQ[s] \o new, c, consumed[c] + k)
              /\ Before(sendQ[s], recvQ[s] \o new)
              /\ Before(echoed[c], recvQ[s] \o new)
          BY <2>4, <4>1, JoinedOrdered
        <4>3. \A j \in 1..Len(sendQ[s]) : Before(echoed[c], << sendQ[s][j] >>)
          BY <1>a, <2>1, <2>8, OrderOf
        <4>. QED
          BY <2>5, <3>1, <4>1, <4>2, <4>3
      <3>2. CASE r # s
        <4>1. socket[r] # c
          BY <1>a, <2>1, <3>2 DEF ClientInv, OwnSocket
        <4>. QED
          BY <1>a, <2>5, <2>8, <3>2, <4>1, OrderOf
      <3>. QED
        BY <3>1, <3>2
    <2>10. HandledInv'
      BY <2>5 DEF HandledInv, OneWorker, ChatLabels
    <2>. QED
      BY <2>7, <2>9, <2>10 DEF OrderInv
  <1>1p. ASSUME NEW w \in Workers, NEW s \in Sessions, RecvPiece(w, s)
         PROVE OrderInv'
    <2>1. UNCHANGED << echoed, consumed, recvQ, sendQ, socket, frame >>
      BY <1>1p DEF RecvPiece, Goto
    <2>2. \A r \in Sessions : IsActive(r)' =>
            /\ IsActive(r)
            /\ \A j \in 1..Len(sendQ[r]) : Got(r, j) => Got(r, j)'
      BY <1>a, <1>1p DEF ThreadsTypeOK, SessionsTypeOK, OneWorker,
         IsActive, Got, RecvPiece, Goto
    <2>3. \A u \in Workers : pc'[u] \in ChatLabels =>
            pc[u] \in ChatLabels /\ onRecv'[u] = onRecv[u]
      BY <1>a, <1>1p DEF ThreadsTypeOK, WorkerControl, OneWorker,
         ChatLabels, RecvPiece, Goto
    <2>. QED
      BY <1>a, <2>1, <2>2, <2>3, OrderUntouched
  <1>2. ASSUME NEW w \in Workers, NEW s \in Sessions, RecvFails(w, s)
        PROVE OrderInv'
    <2>1. UNCHANGED << echoed, consumed, recvQ, sendQ, socket, frame >>
      BY <1>2 DEF RecvFails, Call, Goto
    <2>2. \A r \in Sessions : IsActive(r)' =>
            /\ IsActive(r)
            /\ \A j \in 1..Len(sendQ[r]) : Got(r, j) => Got(r, j)'
      BY <1>a, <1>2 DEF ThreadsTypeOK, SessionsTypeOK, OneWorker,
         IsActive, Got, RecvFails, Call, Goto
    <2>3. \A u \in Workers : pc'[u] \in ChatLabels =>
            pc[u] \in ChatLabels /\ onRecv'[u] = onRecv[u]
      BY <1>a, <1>2 DEF ThreadsTypeOK, WorkerControl, OneWorker,
         ChatLabels, RecvFails, Call, Goto
    <2>. QED
      BY <1>a, <2>1, <2>2, <2>3, OrderUntouched
  <1>3. ASSUME NEW w \in Workers, NEW s \in Sessions, SendCompletes(w, s)
        PROVE OrderInv'
    <2>. DEFINE c == socket[s]
                sentNow == Head(sends[s])
    <2>1. IsActive(s) /\ sends[s] # << >>
      BY <1>a, <1>3, InUseFromCounts DEF SendCompletes, InUseIsActive
    <2>2. sentNow \in Seq(Frames) /\ Begins(sentNow, sendQ[s])
      BY <1>a, <2>1, OneSend
    <2>3. /\ echoed'[c] = echoed[c] \o sentNow
          /\ \A d \in Conns \ {c} : echoed'[d] = echoed[d]
          /\ pc'[w] = "onSend" /\ this'[w] = s /\ batch'[w] = sentNow
          /\ UNCHANGED << state, socket, recvQ, sendQ, consumed >>
      BY <1>a, <1>3, <2>1 DEF SocketKnown, NetTypeOK, ThreadsTypeOK,
         SendCompletes, Call, Goto
    <2>. HIDE DEF sentNow
    <2>4. ASSUME NEW r \in Sessions, NEW j, Got(r, j)  PROVE FALSE
      BY <1>3, <2>4 DEF SendCompletes, OneWorker, Got
    <2>5. /\ OwnFrames(sentNow, c, consumed[c]) /\ Rising(sentNow)
          /\ Before(sentNow, recvQ[s])
          /\ \A j \in 1..Len(sendQ[s]) :
               j > Len(sentNow) => Before(sentNow, << sendQ[s][j] >>)
      BY <1>a, <2>1, <2>2, OrderOf, BeginsOrdered
    <2>6. Before(echoed[c], sentNow)
      <3>1. ASSUME NEW j \in 1..Len(sentNow)
            PROVE  \A i \in 1..Len(echoed[c]) :
                     echoed[c][i][2] < sentNow[j][2]
        <4>1. j \in 1..Len(sendQ[s]) /\ sentNow[j] = sendQ[s][j]
          BY <1>a, <2>1, <2>2, LenProperties, OrderOf DEF Begins
        <4>2. Before(echoed[c], << sendQ[s][j] >>)
          BY <1>a, <2>1, <2>4, <4>1, OrderOf
        <4>. QED
          BY <4>1, <4>2 DEF Before
      <3>. QED
        BY <3>1 DEF Before
    <2>7. EchoedInv'
      <3>1. OwnFrames(echoed'[c], c, consumed[c]) /\ Rising(echoed'[c])
        BY <1>a, <2>1, <2>2, <2>3, <2>5, <2>6, OrderOf, JoinedOrdered
      <3>. QED
        BY <1>a, <2>3, <3>1 DEF OrderInv, EchoedInv
    <2>8. QueuesInv'
      <3>1. ASSUME NEW r \in Sessions, IsActive(r)
            PROVE  /\ Before(echoed'[socket[r]], recvQ[r])
                   /\ \A j \in 1..Len(sendQ[r]) :
                        \/ Got(r, j)'
                        \/ Before(echoed'[socket[r]], << sendQ[r][j] >>)
        <4>1. CASE r = s
          <5>1. Before(echoed'[c], recvQ[s])
            BY <1>a, <2>1, <2>2, <2>3, <2>5, OrderOf, JoinedOrdered
          <5>2. ASSUME NEW j \in 1..Len(sendQ[s])
                PROVE  Got(s, j)' \/ Before(echoed'[c], << sendQ[s][j] >>)
            <6>1. CASE j <= Len(sentNow)
              BY <2>3, <6>1 DEF Got
            <6>2. CASE ~(j <= Len(sentNow))
              <7>1. /\ Before(echoed[c], << sendQ[s][j] >>)
                    /\ << sendQ[s][j] >> \in Seq(Frames)
                BY <1>a, <2>1, <2>4, OrderOf, ElementOfSeq
              <7>2. Before(sentNow, << sendQ[s][j] >>)
                <8>1. Len(sentNow) \in Nat
                  BY <2>2, LenProperties
                <8>. QED
                  BY <2>5, <6>2, <8>1
              <7>3. echoed[c] \in Seq(Frames)
                BY <1>a, <2>1, OrderOf
              <7>4. Before(echoed[c] \o sentNow, << sendQ[s][j] >>)
                BY <2>2, <7>1, <7>2, <7>3, JoinedOrdered
              <7>. QED
                BY <2>3, <7>4
            <6>. QED
              BY <6>1, <6>2
          <5>. QED
            BY <4>1, <5>1, <5>2
        <4>2. CASE r # s
          <5>1. socket[r] \in Conns \ {c}
            BY <1>a, <2>1, <3>1, <4>2 DEF ClientInv, OwnSocket, SocketKnown
          <5>. QED
            BY <1>a, <2>3, <2>4, <3>1, <5>1, OrderOf
        <4>. QED
          BY <4>1, <4>2
      <3>. QED
        BY <1>a, <2>3, <3>1 DEF OrderInv, QueuesInv, IsActive
    <2>9. HandledInv'
      BY <2>3 DEF HandledInv, OneWorker, ChatLabels
    <2>. QED
      BY <2>7, <2>8, <2>9 DEF OrderInv
  <1>4. ASSUME NEW w \in Workers, NEW s \in Sessions, SendFails(w, s)
        PROVE OrderInv'
    <2>1. UNCHANGED << echoed, consumed, recvQ, sendQ, socket, frame >>
      BY <1>4 DEF SendFails, Call, Goto
    <2>2. \A r \in Sessions : IsActive(r)' =>
            /\ IsActive(r)
            /\ \A j \in 1..Len(sendQ[r]) : Got(r, j) => Got(r, j)'
      BY <1>a, <1>4 DEF ThreadsTypeOK, SessionsTypeOK, OneWorker,
         IsActive, Got, SendFails, Call, Goto
    <2>3. \A u \in Workers : pc'[u] \in ChatLabels =>
            pc[u] \in ChatLabels /\ onRecv'[u] = onRecv[u]
      BY <1>a, <1>4 DEF ThreadsTypeOK, WorkerControl, OneWorker,
         ChatLabels, SendFails, Call, Goto
    <2>. QED
      BY <1>a, <2>1, <2>2, <2>3, OrderUntouched
  <1>5. ASSUME NEW w \in Workers, OnMessage(w)  PROVE OrderInv'
    <2>. DEFINE s == onRecv[w]
    <2>1. s \in Sessions /\ IsActive(s) /\ recvQ[s] # << >>
      BY <1>a, <1>5, CountedIsActive DEF OnMessage, WorkerControl
    <2>2. /\ recvQ'[s] = Tail(recvQ[s]) /\ frame'[w] = Head(recvQ[s])
          /\ \A r \in Sessions \ {s} : recvQ'[r] = recvQ[r]
          /\ UNCHANGED << state, socket, sendQ, consumed, echoed, batch, this,
                          onRecv >>
          /\ pc[w] = "onMessage" /\ pc'[w] = "chatUnicast"
      BY <1>a, <1>5, <2>1 DEF SessionsTypeOK, ThreadsTypeOK, OnMessage, Goto
    <2>3. /\ OwnFrames(recvQ'[s], socket[s], consumed[socket[s]])
          /\ Rising(recvQ'[s]) /\ Before(sendQ[s], recvQ'[s])
          /\ Before(echoed[socket[s]], recvQ'[s])
      <3>1. /\ recvQ[s] \in Seq(Frames) /\ Rising(recvQ[s])
            /\ OwnFrames(recvQ[s], socket[s], consumed[socket[s]])
            /\ Before(sendQ[s], recvQ[s]) /\ Before(echoed[socket[s]], recvQ[s])
        BY <1>a, <2>1, OrderOf
      <3>2. /\ recvQ'[s] = SubSeq(recvQ[s], 1 + 1, Len(recvQ[s]))
            /\ 1 \in 0..Len(recvQ[s])
        BY <2>1, <2>2, <3>1, HeadOrdered
      <3>. QED
        BY <3>1, <3>2, CutOrdered
    <2>4. /\ OwnFrames(<< frame'[w] >>, socket[s], consumed[socket[s]])
          /\ Before(sendQ[s], << frame'[w] >>)
          /\ Before(echoed[socket[s]], << frame'[w] >>)
          /\ Before(<< frame'[w] >>, recvQ'[s])
      BY <1>a, <2>1, <2>2, OrderOf, HeadOrdered
    <2>5. QueuesInv'
      <3>1. \A r \in Sessions, j \in Int : Got(r, j)' <=> Got(r, j)
        BY <2>2 DEF OneWorker, Got
      <3>2. ASSUME NEW r \in Sessions, IsActive(r)
            PROVE  /\ OwnFrames(recvQ'[r], socket[r], consumed[socket[r]])
                   /\ Rising(recvQ'[r]) /\ Before(sendQ[r], recvQ'[r])
                   /\ Before(echoed[socket[r]], recvQ'[r])
        BY <1>a, <2>2, <2>3, <3>2, OrderOf
      <3>. QED
        BY <1>a, <2>2, <3>1, <3>2 DEF OrderInv, QueuesInv, IsActive
    <2>6. HandledInv'
      BY <2>2, <2>4 DEF OneWorker, HandledInv
    <2>7. EchoedInv'
      BY <1>a, <2>2 DEF OrderInv, EchoedInv
    <2>. QED
      BY <2>5, <2>6, <2>7 DEF OrderInv
  <1>6. ASSUME NEW w \in Workers, ChatUnicast(w)  PROVE OrderInv'
    <2>1. UNCHANGED << echoed, consumed, recvQ, sendQ, socket, frame >>
      BY <1>6 DEF ChatUnicast, Call, Goto
    <2>2. \A r \in Sessions : IsActive(r)' =>
            /\ IsActive(r)
            /\ \A j \in 1..Len(sendQ[r]) : Got(r, j) => Got(r, j)'
      BY <1>a, <1>6 DEF ThreadsTypeOK, SessionsTypeOK, OneWorker,
         IsActive, Got, ChatUnicast, Call, Goto
    <2>3. \A u \in Workers : pc'[u] \in ChatLabels =>
            pc[u] \in ChatLabels /\ onRecv'[u] = onRecv[u]
      BY <1>a, <1>6 DEF ThreadsTypeOK, WorkerControl, OneWorker,
         ChatLabels, ChatUnicast, Call, Goto
    <2>. QED
      BY <1>a, <2>1, <2>2, <2>3, OrderUntouched
  <1>7. ASSUME NEW w \in Workers, GetSessionPointer(w)  PROVE OrderInv'
    <2>1. UNCHANGED << echoed, consumed, recvQ, sendQ, socket, frame >>
      BY <1>7 DEF GetSessionPointer, Goto
    <2>2. \A r \in Sessions : IsActive(r)' =>
            /\ IsActive(r)
            /\ \A j \in 1..Len(sendQ[r]) : Got(r, j) => Got(r, j)'
      BY <1>a, <1>7 DEF ThreadsTypeOK, SessionsTypeOK, OneWorker,
         IsActive, Got, GetSessionPointer, Goto
    <2>3. \A u \in Workers : pc'[u] \in ChatLabels =>
            pc[u] \in ChatLabels /\ onRecv'[u] = onRecv[u]
      BY <1>a, <1>7 DEF ThreadsTypeOK, WorkerControl, OneWorker,
         ChatLabels, GetSessionPointer, Goto
    <2>. QED
      BY <1>a, <2>1, <2>2, <2>3, OrderUntouched
  <1>8. ASSUME NEW w \in Workers, SendPacket(w)  PROVE OrderInv'
    <2>. DEFINE s == this[w]
    <2>1. /\ pc[w] = "sendPacket" /\ s \in Sessions /\ s = onRecv[w]
          /\ frame[w] \in Frames
      BY <1>a, <1>8 DEF SendPacket, ThisKnown, WorkerControl, ChatLabels,
         SlotInv, ChatInv, AnswersOwn
    <2>2. IsActive(s)
      BY <1>a, <2>1, CountedIsActive
    <2>3. /\ pc'[w] \in {"onMessage", "postSend"}
          /\ \/ sendQ' = sendQ
             \/ sendQ' = [sendQ EXCEPT ![s] = Append(@, frame[w])]
          /\ UNCHANGED << state, socket, recvQ, consumed, echoed, batch, this >>
      BY <1>a, <1>8, <2>1 DEF ThreadsTypeOK, SendPacket, Enqueue, Goto
    <2>4. HandledInv'
      BY <2>3 DEF OneWorker, HandledInv, ChatLabels
    <2>5. EchoedInv'
      BY <1>a, <2>3 DEF OrderInv, EchoedInv
    <2>6. QueuesInv'
      <3>1. \A r \in Sessions, j \in Int : ~Got(r, j)' /\ ~Got(r, j)
        BY <2>1, <2>3 DEF OneWorker, Got
      <3>2. CASE sendQ' = sendQ
        BY <1>a, <2>3, <3>1, <3>2 DEF OrderInv, QueuesInv, IsActive
      <3>3. CASE sendQ' = [sendQ EXCEPT ![s] = Append(@, frame[w])]
        <4>1. /\ sendQ[s] \in Seq(Frames)
              /\ sendQ'[s] = Append(sendQ[s], frame[w])
              /\ \A r \in Sessions \ {s} : sendQ'[r] = sendQ[r]
          BY <1>a, <2>1, <3>3 DEF SessionsTypeOK
        <4>2. /\ << frame[w] >> \in Seq(Frames)
              /\ sendQ'[s] = sendQ[s] \o << frame[w] >>
          <5>1. << frame[w] >> \in Seq(Frames)
            BY <2>1
          <5>2. Append(sendQ[s], frame[w]) = sendQ[s] \o << frame[w] >>
            BY <2>1, <4>1, AppendIsConcat
          <5>. QED
            BY <4>1, <5>1, <5>2
        <4>3. /\ OwnFrames(<< frame[w] >>, socket[s], consumed[socket[s]])
              /\ Before(sendQ[s], << frame[w] >>)
              /\ Before(echoed[socket[s]], << frame[w] >>)
              /\ Before(<< frame[w] >>, recvQ[s]) /\ Rising(<< frame[w] >>)
          BY <1>a, <2>1 DEF OrderInv, HandledInv, ChatLabels, Rising
        <4>4. /\ OwnFrames(sendQ'[s], socket[s], consumed[socket[s]])
              /\ Rising(sendQ'[s]) /\ Before(sendQ'[s], recvQ[s])
          <5>1. /\ sendQ[s] \in Seq(Frames) /\ recvQ[s] \in Seq(Frames)
                /\ OwnFrames(sendQ[s], socket[s], consumed[socket[s]])
                /\ Rising(sendQ[s]) /\ Before(sendQ[s], recvQ[s])
            BY <1>a, <2>1, <2>2, OrderOf
          <5>. QED
            BY ZenonT(60), <4>2, <4>3, <5>1, JoinedOrdered
        <4>5. ASSUME NEW j \in 1..Len(sendQ'[s])
              PROVE  Before(echoed[socket[s]], << sendQ'[s][j] >>)
          <5>1. \/ j = Len(sendQ[s]) + 1 /\ sendQ'[s][j] = frame[w]
                \/ j \in 1..Len(sendQ[s]) /\ sendQ'[s][j] = sendQ[s][j]
            BY <2>1, <4>1, AppendProperties, LenProperties
          <5>. QED
            BY <1>a, <2>1, <2>2, <3>1, <4>3, <5>1, OrderOf
        <4>6. ASSUME NEW r \in Sessions, IsActive(r)
              PROVE  /\ OwnFrames(sendQ'[r], socket[r], consumed[socket[r]])
                     /\ Rising(sendQ'[r]) /\ Before(sendQ'[r], recvQ[r])
                     /\ \A j \in 1..Len(sendQ'[r]) :
                          Before(echoed[socket[r]], << sendQ'[r][j] >>)
          <5>1. CASE r = s
            BY <4>4, <4>5, <5>1
          <5>2. CASE r # s
            BY SMTT(60), <1>a, <3>1, <4>1, <4>6, <5>2, OrderOf
          <5>. QED
            BY <5>1, <5>2
        <4>. QED
          BY <1>a, <2>3, <4>6 DEF OrderInv, QueuesInv, IsActive
      <3>. QED
        BY <2>3, <3>2, <3>3
    <2>. QED
      BY <2>4, <2>5, <2>6 DEF OrderInv
  <1>9. ASSUME NEW w \in Workers, OnRecvEnd(w)  PROVE OrderInv'
    <2>a. onRecv[w] \in Sessions
      BY <1>a, <1>9 DEF OnRecvEnd, WorkerControl
    <2>1. UNCHANGED << echoed, consumed, recvQ, sendQ, socket, frame >>
      BY <1>9 DEF OnRecvEnd, DecrementRefCount, DisconnectSession,
         Call, Goto
    <2>2. \A r \in Sessions : IsActive(r)' =>
            /\ IsActive(r)
            /\ \A j \in 1..Len(sendQ[r]) : Got(r, j) => Got(r, j)'
      BY <1>a, <1>9, <2>a DEF ThreadsTypeOK, SessionsTypeOK, OneWorker,
         IsActive, Got, OnRecvEnd, DecrementRefCount,
         DisconnectSession, Clear, Call, Goto
    <2>3. \A u \in Workers : pc'[u] \in ChatLabels =>
            pc[u] \in ChatLabels /\ onRecv'[u] = onRecv[u]
      BY <1>a, <1>9 DEF ThreadsTypeOK, WorkerControl, OneWorker,
         ChatLabels, OnRecvEnd, DecrementRefCount, DisconnectSession,
         Call, Goto
    <2>. QED
      BY <1>a, <2>1, <2>2, <2>3, OrderUntouched
  <1>10. ASSUME NEW w \in Workers, PostSend(w)  PROVE OrderInv'
    <2>1. UNCHANGED << echoed, consumed, recvQ, sendQ, socket, frame >>
      BY <1>10 DEF PostSend, Goto, Resume
    <2>2. \A r \in Sessions : IsActive(r)' =>
            /\ IsActive(r)
            /\ \A j \in 1..Len(sendQ[r]) : Got(r, j) => Got(r, j)'
      BY <1>a, <1>10 DEF ThreadsTypeOK, SessionsTypeOK, OneWorker,
         IsActive, Got, PostSend, Goto, Resume
    <2>3. \A u \in Workers : pc'[u] \in ChatLabels =>
            pc[u] \in ChatLabels /\ onRecv'[u] = onRecv[u]
      BY <1>a, <1>10 DEF ThreadsTypeOK, WorkerControl, OneWorker,
         ChatLabels, PostSend, Goto, Resume
    <2>. QED
      BY <1>a, <2>1, <2>2, <2>3, OrderUntouched
  <1>11. ASSUME NEW w \in Workers, WSASend(w)  PROVE OrderInv'
    <2>1. UNCHANGED << echoed, consumed, recvQ, sendQ, socket, frame >>
      BY <1>11 DEF WSASend, Goto, Resume
    <2>2. \A r \in Sessions : IsActive(r)' =>
            /\ IsActive(r)
            /\ \A j \in 1..Len(sendQ[r]) : Got(r, j) => Got(r, j)'
      BY <1>a, <1>11 DEF ThreadsTypeOK, SessionsTypeOK, OneWorker,
         IsActive, Got, WSASend, Goto, Resume
    <2>3. \A u \in Workers : pc'[u] \in ChatLabels =>
            pc[u] \in ChatLabels /\ onRecv'[u] = onRecv[u]
      BY <1>a, <1>11 DEF ThreadsTypeOK, WorkerControl, OneWorker,
         ChatLabels, WSASend, Goto, Resume
    <2>. QED
      BY <1>a, <2>1, <2>2, <2>3, OrderUntouched
  <1>12. ASSUME NEW w \in Workers, OnSend(w)  PROVE OrderInv'
    <2>1. this[w] \in Sessions /\ pc[w] = "onSend"
      BY <1>a, <1>12 DEF OnSend, ThisKnown
    <2>2. UNCHANGED << echoed, consumed, recvQ, sendQ, socket, frame, batch >>
      BY <1>12 DEF OnSend, DecrementRefCount, DisconnectSession
    <2>3. /\ this'[w] = this[w] /\ pc'[w] \in {"sendDone", "freeId"}
          /\ pc'[w] = "freeId" => ~IsActive(this[w])'
          /\ \A r \in Sessions : IsActive(r)' => IsActive(r)
      BY <1>a, <1>12, <2>1
      DEF ThreadsTypeOK, SessionsTypeOK, IsActive, OnSend, DecrementRefCount,
          DisconnectSession, Clear, Call, Goto
    <2>4. \A r \in Sessions : IsActive(r)' =>
            /\ IsActive(r)
            /\ \A j \in 1..Len(sendQ[r]) : Got(r, j) => Got(r, j)'
      BY <2>2, <2>3 DEF OneWorker, Got
    <2>5. \A u \in Workers : pc'[u] \notin ChatLabels
      BY <2>3 DEF OneWorker, ChatLabels
    <2>. QED
      BY <1>a, <2>2, <2>4, <2>5, OrderUntouched
  <1>13. ASSUME NEW w \in Workers, SendDone(w)  PROVE OrderInv'
    <2>. DEFINE s == this[w]
                n == Len(batch[w])
    <2>1. s \in Sessions /\ IsActive(s) /\ pc[w] = "sendDone"
      BY <1>a, <1>13 DEF SendDone, ThisKnown, WorkInv, Attached
    <2>2. n \in 0..Len(sendQ[s]) /\ sendQ[s] \in Seq(Frames)
      <3>1. sendQ[s] \in Seq(Frames) /\ batch[w] \in Seq(Frames)
        BY <1>a, <2>1 DEF SessionsTypeOK, ThreadsTypeOK
      <3>2. Begins(batch[w], sendQ[s])
        BY <1>a, <2>1 DEF SendInv, InFlight
      <3>. QED
        BY <3>1, <3>2, LenProperties DEF Begins
    <2>3. /\ sendQ'[s] = SubSeq(sendQ[s], n + 1, Len(sendQ[s]))
          /\ \A r \in Sessions \ {s} : sendQ'[r] = sendQ[r]
          /\ pc'[w] \in {"postSend", "wait"}
          /\ UNCHANGED << state, socket, recvQ, consumed, echoed, this >>
      BY SMTT(60), <1>a, <1>13, <2>1, <2>2 DEF SessionsTypeOK, ThreadsTypeOK, SendDone,
         FinishSend, MoveFront, Goto
    <2>4. HandledInv'
      BY <2>3 DEF OneWorker, HandledInv, ChatLabels
    <2>5. EchoedInv'
      BY <1>a, <2>3 DEF OrderInv, EchoedInv
    <2>6. /\ OwnFrames(sendQ'[s], socket[s], consumed[socket[s]])
          /\ Rising(sendQ'[s]) /\ Before(sendQ'[s], recvQ[s])
          /\ Len(sendQ'[s]) = Len(sendQ[s]) - n
          /\ \A j \in 1..Len(sendQ'[s]) : sendQ'[s][j] = sendQ[s][j + n]
      <3>1. /\ OwnFrames(sendQ[s], socket[s], consumed[socket[s]])
            /\ Rising(sendQ[s]) /\ Before(sendQ[s], recvQ[s])
        BY <1>a, <2>1, OrderOf
      <3>. HIDE DEF n
      <3>2. LET p == SubSeq(sendQ[s], n + 1, Len(sendQ[s])) IN
            /\ OwnFrames(p, socket[s], consumed[socket[s]])
            /\ Rising(p) /\ Before(p, recvQ[s])
            /\ Len(p) = Len(sendQ[s]) - n
            /\ \A j \in 1..Len(p) : p[j] = sendQ[s][j + n]
        BY ZenonT(60), <2>2, <3>1, CutOrdered
      <3>. QED
        BY <2>3, <3>2
    <2>7. ASSUME NEW j \in 1..Len(sendQ'[s])
          PROVE  Before(echoed[socket[s]], << sendQ'[s][j] >>)
      <3>1. j + n \in 1..Len(sendQ[s]) /\ ~(j + n <= n)
        BY <2>2, <2>6, LenProperties
      <3>2. ~Got(s, j + n)
        BY <3>1 DEF OneWorker, Got
      <3>. QED
        BY <1>a, <2>1, <2>6, <3>1, <3>2, OrderOf
    <2>8. ASSUME NEW r \in Sessions, IsActive(r)
          PROVE  /\ OwnFrames(sendQ'[r], socket[r], consumed[socket[r]])
                 /\ Rising(sendQ'[r]) /\ Before(sendQ'[r], recvQ[r])
                 /\ \A j \in 1..Len(sendQ'[r]) :
                      Before(echoed[socket[r]], << sendQ'[r][j] >>)
      <3>1. CASE r = s
        BY <2>6, <2>7, <3>1
      <3>2. CASE r # s
        <4>1. \A j \in 1..Len(sendQ[r]) : ~Got(r, j)
          BY <3>2 DEF OneWorker, Got
        <4>. QED
          BY <1>a, <2>3, <2>8, <3>2, <4>1, OrderOf
      <3>. QED
        BY <3>1, <3>2
    <2>9. QueuesInv'
      BY <1>a, <2>3, <2>8 DEF OrderInv, QueuesInv, IsActive
    <2>. QED
      BY <2>4, <2>5, <2>9 DEF OrderInv
  <1>14. ASSUME NEW t \in Threads, PostRecv(t)  PROVE OrderInv'
    <2>1. UNCHANGED << echoed, consumed, recvQ, sendQ, socket, frame >>
      BY <1>14 DEF PostRecv, Goto, Resume
    <2>2. \A r \in Sessions : IsActive(r)' =>
            /\ IsActive(r)
            /\ \A j \in 1..Len(sendQ[r]) : Got(r, j) => Got(r, j)'
      BY <1>a, <1>14 DEF ThreadsTypeOK, SessionsTypeOK, IsActive, Got,
         PostRecv, Goto, Resume
    <2>3. \A u \in Workers : pc'[u] \in ChatLabels =>
            pc[u] \in ChatLabels /\ onRecv'[u] = onRecv[u]
      BY <1>a, <1>14 DEF ThreadsTypeOK, WorkerControl, ChatLabels,
         PostRecv, Goto, Resume
    <2>. QED
      BY <1>a, <2>1, <2>2, <2>3, OrderUntouched
  <1>15. ASSUME NEW t \in Threads, WSARecv(t)  PROVE OrderInv'
    <2>1. UNCHANGED << echoed, consumed, recvQ, sendQ, socket, frame >>
      BY <1>15 DEF WSARecv, Goto
    <2>2. \A r \in Sessions : IsActive(r)' =>
            /\ IsActive(r)
            /\ \A j \in 1..Len(sendQ[r]) : Got(r, j) => Got(r, j)'
      BY <1>a, <1>15 DEF ThreadsTypeOK, SessionsTypeOK, IsActive, Got,
         WSARecv, Goto
    <2>3. \A u \in Workers : pc'[u] \in ChatLabels =>
            pc[u] \in ChatLabels /\ onRecv'[u] = onRecv[u]
      BY <1>a, <1>15 DEF ThreadsTypeOK, WorkerControl, ChatLabels,
         WSARecv, Goto
    <2>. QED
      BY <1>a, <2>1, <2>2, <2>3, OrderUntouched
  <1>16. ASSUME NEW t \in Threads, DropRef(t)  PROVE OrderInv'
    <2>a. this[t] \in Sessions
      BY <1>a, <1>16 DEF DropRef, ThisKnown
    <2>1. UNCHANGED << echoed, consumed, recvQ, sendQ, socket, frame >>
      BY <1>16 DEF DropRef, DisconnectSession, Call, Goto, Resume
    <2>2. \A r \in Sessions : IsActive(r)' =>
            /\ IsActive(r)
            /\ \A j \in 1..Len(sendQ[r]) : Got(r, j) => Got(r, j)'
      BY <1>a, <1>16, <2>a DEF ThreadsTypeOK, SessionsTypeOK, IsActive,
         Got, DropRef, DisconnectSession, Clear, Call, Goto, Resume
    <2>3. \A u \in Workers : pc'[u] \in ChatLabels =>
            pc[u] \in ChatLabels /\ onRecv'[u] = onRecv[u]
      BY <1>a, <1>16 DEF ThreadsTypeOK, WorkerControl, ChatLabels,
         DropRef, DisconnectSession, Call, Goto, Resume
    <2>. QED
      BY <1>a, <2>1, <2>2, <2>3, OrderUntouched
  <1>17. ASSUME NEW t \in Threads, FreeId(t)  PROVE OrderInv'
    <2>1. UNCHANGED << echoed, consumed, recvQ, sendQ, socket, frame >>
      BY <1>17 DEF FreeId, Goto, Resume
    <2>2. \A r \in Sessions : IsActive(r)' =>
            /\ IsActive(r)
            /\ \A j \in 1..Len(sendQ[r]) : Got(r, j) => Got(r, j)'
      BY <1>a, <1>17 DEF ThreadsTypeOK, SessionsTypeOK, IsActive, Got,
         FreeId, Goto, Resume
    <2>3. \A u \in Workers : pc'[u] \in ChatLabels =>
            pc[u] \in ChatLabels /\ onRecv'[u] = onRecv[u]
      BY <1>a, <1>17 DEF ThreadsTypeOK, WorkerControl, ChatLabels,
         FreeId, Goto, Resume
    <2>. QED
      BY <1>a, <2>1, <2>2, <2>3, OrderUntouched
  <1>18. ASSUME InitSession  PROVE OrderInv'
    <2>. DEFINE s == this[Acceptor]
    <2>1. s \in Sessions /\ ~IsActive(s)
      BY <1>a, <1>18, AcceptorCarries DEF SlotInv, ThisKnown, InitSession
    <2>2. /\ recvQ'[s] = << >> /\ sendQ'[s] = << >>
          /\ \A r \in Sessions \ {s} :
               /\ recvQ'[r] = recvQ[r] /\ sendQ'[r] = sendQ[r]
               /\ socket'[r] = socket[r] /\ (IsActive(r)' <=> IsActive(r))
          /\ \A w \in Workers : pc'[w] = pc[w]
          /\ UNCHANGED << consumed, echoed, batch, this, onRecv, frame >>
      BY <1>a, <1>18, <2>1
      DEF SessionsTypeOK, ThreadsTypeOK, InitSession, Init, Goto, IsActive
    <2>3. \A w \in Workers : onRecv[w] # s
      BY <1>a, <2>1, InactiveUnused DEF WorkInv
    <2>4. EchoedInv'
      BY <1>a, <2>2 DEF OrderInv, EchoedInv
    <2>5. QueuesInv'
      <3>1. \A r \in Sessions, j \in Int : Got(r, j)' <=> Got(r, j)
        BY <2>2 DEF Got
      <3>. QED
        BY <1>a, <2>2, <3>1, EmptyOrdered DEF OrderInv, QueuesInv
    <2>6. HandledInv'
      BY <1>a, <2>2, <2>3 DEF OrderInv, HandledInv, WorkerControl, ChatLabels
    <2>. QED
      BY <2>4, <2>5, <2>6 DEF OrderInv
  <1>19. ASSUME OnConnect  PROVE OrderInv'
    <2>1. UNCHANGED << echoed, consumed, recvQ, sendQ, socket, frame >>
      BY <1>19 DEF OnConnect, Goto
    <2>2. \A r \in Sessions : IsActive(r)' =>
            /\ IsActive(r)
            /\ \A j \in 1..Len(sendQ[r]) : Got(r, j) => Got(r, j)'
      BY <1>a, <1>19 DEF ThreadsTypeOK, SessionsTypeOK, IsActive, Got,
         OnConnect, Goto
    <2>3. \A u \in Workers : pc'[u] \in ChatLabels =>
            pc[u] \in ChatLabels /\ onRecv'[u] = onRecv[u]
      BY <1>a, <1>19 DEF ThreadsTypeOK, WorkerControl, ChatLabels,
         OnConnect, Goto
    <2>. QED
      BY <1>a, <2>1, <2>2, <2>3, OrderUntouched
  <1>20. ASSUME SetUserId  PROVE OrderInv'
    <2>1. UNCHANGED << echoed, consumed, recvQ, sendQ, socket, frame >>
      BY <1>20 DEF SetUserId, Goto
    <2>2. \A r \in Sessions : IsActive(r)' =>
            /\ IsActive(r)
            /\ \A j \in 1..Len(sendQ[r]) : Got(r, j) => Got(r, j)'
      BY <1>a, <1>20 DEF ThreadsTypeOK, SessionsTypeOK, IsActive, Got,
         SetUserId, Goto
    <2>3. \A u \in Workers : pc'[u] \in ChatLabels =>
            pc[u] \in ChatLabels /\ onRecv'[u] = onRecv[u]
      BY <1>a, <1>20 DEF ThreadsTypeOK, WorkerControl, ChatLabels,
         SetUserId, Goto
    <2>. QED
      BY <1>a, <2>1, <2>2, <2>3, OrderUntouched
  <1>21. ASSUME NEW c \in Conns, Accept(c)  PROVE OrderInv'
    <2>1. UNCHANGED << echoed, consumed, recvQ, sendQ, socket, frame >>
      BY <1>21 DEF Accept, Call, Goto
    <2>2. \A r \in Sessions : IsActive(r)' =>
            /\ IsActive(r)
            /\ \A j \in 1..Len(sendQ[r]) : Got(r, j) => Got(r, j)'
      BY <1>a, <1>21 DEF ThreadsTypeOK, SessionsTypeOK, IsActive, Got,
         Accept, Call, Goto
    <2>3. \A u \in Workers : pc'[u] \in ChatLabels =>
            pc[u] \in ChatLabels /\ onRecv'[u] = onRecv[u]
      BY <1>a, <1>21 DEF ThreadsTypeOK, WorkerControl, ChatLabels,
         Accept, Call, Goto
    <2>. QED
      BY <1>a, <2>1, <2>2, <2>3, OrderUntouched
  <1>22. ASSUME NEW c \in Conns, Say(c)  PROVE OrderInv'
    <2>1. UNCHANGED << echoed, consumed, recvQ, sendQ, socket, frame >>
      BY <1>22 DEF Say
    <2>2. \A r \in Sessions : IsActive(r)' =>
            /\ IsActive(r)
            /\ \A j \in 1..Len(sendQ[r]) : Got(r, j) => Got(r, j)'
      BY <1>a, <1>22 DEF ThreadsTypeOK, SessionsTypeOK, IsActive, Got,
         Say
    <2>3. \A u \in Workers : pc'[u] \in ChatLabels =>
            pc[u] \in ChatLabels /\ onRecv'[u] = onRecv[u]
      BY <1>a, <1>22 DEF ThreadsTypeOK, WorkerControl, ChatLabels, Say
    <2>. QED
      BY <1>a, <2>1, <2>2, <2>3, OrderUntouched
  <1>23. ASSUME NEW c \in Conns, Close(c)  PROVE OrderInv'
    <2>1. UNCHANGED << echoed, consumed, recvQ, sendQ, socket, frame >>
      BY <1>23 DEF Close
    <2>2. \A r \in Sessions : IsActive(r)' =>
            /\ IsActive(r)
            /\ \A j \in 1..Len(sendQ[r]) : Got(r, j) => Got(r, j)'
      BY <1>a, <1>23 DEF ThreadsTypeOK, SessionsTypeOK, IsActive, Got,
         Close
    <2>3. \A u \in Workers : pc'[u] \in ChatLabels =>
            pc[u] \in ChatLabels /\ onRecv'[u] = onRecv[u]
      BY <1>a, <1>23 DEF ThreadsTypeOK, WorkerControl, ChatLabels,
         Close
    <2>. QED
      BY <1>a, <2>1, <2>2, <2>3, OrderUntouched
  <1>24. CASE UNCHANGED vars
    BY <1>a, <1>24, OrderUntouched DEF vars, IsActive, Got
  <1>. QED
    BY <1>1, <1>1p, <1>2, <1>3, <1>4, <1>5, <1>6, <1>7, <1>8, <1>9, <1>10,
       <1>11, <1>12, <1>13, <1>14, <1>15, <1>16, <1>17, <1>18, <1>19, <1>20,
       <1>21, <1>22, <1>23, <1>24
    DEF Next, Completion, Handling, Shared, Accepting


-----------------------------------------------------------------------------
(* All of it together. *)

OneInv == ClientInv /\ WorkInv /\ SendInv /\ OrderInv

LEMMA OneStep ==
  ASSUME OneWorker
  PROVE  (TypeInv /\ RefInv /\ SlotInv) /\ (TypeInv /\ RefInv /\ SlotInv)'
           /\ OneInv /\ [Next]_vars => OneInv'
PROOF
  BY ClientStep, WorkStep, SendStep, OrderStep DEF OneInv

LEMMA OneInvariant ==
  ASSUME OneWorker
  PROVE  Spec => [](TypeInv /\ RefInv /\ SlotInv /\ OneInv)
PROOF
  <1>1. ServerInit => OneInv
    BY ClientInit, WorkInit, SendInit, OrderInit DEF OneInv
  <1>2. (TypeInv /\ RefInv /\ SlotInv) /\ (TypeInv /\ RefInv /\ SlotInv)'
          /\ OneInv /\ [Next]_vars => OneInv'
    BY OneStep
  <1>. QED
    BY SlotInvariant, <1>1, <1>2, PTL DEF Spec

LEMMA OneInChain ==
  ASSUME TypeInv, WorkInv, OneWorker, NEW s \in Sessions
  PROVE  recvs[s] + Cardinality(RecvChain(s)) <= 1
PROOF
  <1>1. recvs[s] \in Nat /\ recvs[s] <= 1
    BY DEF TypeInv, TypeOK, SessionsTypeOK, WorkInv, RecvOnce
  <1>2. CASE recvs[s] > 0
    <2>1. \A t \in Threads : t \notin RecvChain(s)
      BY <1>2
      DEF WorkInv, RecvOnce, Alone, RecvChain, Receivers, Threads
    <2>2. RecvChain(s) = {}
      BY <2>1 DEF RecvChain, Receivers, Threads
    <2>. QED
      BY <1>1, <2>2, FS_EmptySet
  <1>3. CASE recvs[s] = 0
    <2>1. \A t, u \in RecvChain(s) : t = u
      <3>1. \A w \in Workers : Acceptor \in RecvChain(s) => w \notin RecvChain(s)
        BY ThreadsAssumption
        DEF WorkInv, Alone, RecvChain, Receivers, Threads, InMethods
      <3>. QED
        BY <3>1 DEF OneWorker, RecvChain, Receivers, Threads
    <2>2. RecvChain(s) = {} \/ \E t : RecvChain(s) = {t}
      BY <2>1
    <2>3. Cardinality(RecvChain(s)) \in {0, 1}
      BY <2>2, FS_EmptySet, FS_Singleton
    <2>. QED
      BY <1>3, <2>3
  <1>. QED
    BY <1>1, <1>2, <1>3

(* One worker, one recv: recvQ_ and overlappedRecv_ of a session are used   *)
(* by one thread at a time, and by none while a recv is outstanding        *)
(* (Session.cpp:66-71 reads and passes them on without the lock).          *)
THEOREM OneRecvAtATime ==
  ASSUME OneWorker  PROVE Spec => []OneRecv
PROOF
  <1>1. TypeInv /\ WorkInv => OneRecv
    BY OneInChain DEF OneRecv
  <1>2. OneInv => WorkInv
    BY DEF OneInv
  <1>. QED
    BY OneInvariant, <1>1, <1>2, PTL

(* WSASend is never given an empty list of frames: its completion would    *)
(* look like the end of the connection to WorkerThread.                    *)
THEOREM EverySendCarries ==
  ASSUME OneWorker  PROVE Spec => []NoEmptySend
PROOF
  <1>1. OneInv => NoEmptySend
    BY DEF OneInv, SendInv, SomeFrames, NoEmptySend
  <1>. QED
    BY OneInvariant, <1>1, PTL

(* What a send in flight reads stays at the front of sendQ until its       *)
(* completion is handled, and there is one send in flight at most.         *)
THEOREM FramesInFlightKept ==
  ASSUME OneWorker  PROVE Spec => []InFlightIsKept
PROOF
  <1>1. TypeInv /\ OneInv => InFlightIsKept
    <2>. SUFFICES ASSUME TypeInv, OneInv, NEW s \in Sessions,
                         NEW i \in 1..Len(sends[s])
                  PROVE  i = 1 /\ IsPrefix(sends[s][i], sendQ[s])
      BY DEF InFlightIsKept
    <2>1. sends[s] \in Seq(Seq(Frames)) /\ sendQ[s] \in Seq(Frames)
      BY DEF TypeInv, TypeOK, SessionsTypeOK
    <2>2. sends[s] # << >>
      OBVIOUS
    <2>3. Len(sends[s]) = 1 /\ Begins(sends[s][1], sendQ[s])
      BY <2>2 DEF OneInv, SendInv, InFlight
    <2>4. i = 1 /\ sends[s][1] \in Seq(Frames)
      BY <2>1, <2>3, ElementOfSeq
    <2>. DEFINE p == sends[s][1]
                q == sendQ[s]
    <2>5. p \in Seq(Frames) /\ q \in Seq(Frames) /\ Begins(p, q)
      BY <2>1, <2>3, <2>4
    <2>. HIDE DEF p, q
    <2>6. Len(p) \in Nat /\ Len(q) \in Nat /\ Len(p) <= Len(q)
      BY <2>5, LenProperties DEF Begins
    <2>7. /\ SubSeq(p, 1, Len(p)) \in Seq(Frames)
          /\ SubSeq(q, 1, Len(p)) \in Seq(Frames)
          /\ Len(SubSeq(p, 1, Len(p))) = Len(p)
          /\ Len(SubSeq(q, 1, Len(p))) = Len(p)
          /\ \A k \in 1..Len(p) : /\ SubSeq(p, 1, Len(p))[k] = p[k]
                                  /\ SubSeq(q, 1, Len(p))[k] = q[k]
      <3>1. \A k \in 1..Len(p) : p[k] \in Frames /\ q[k] \in Frames
        BY <2>5, <2>6, ElementOfSeq
      <3>. QED
        BY <2>5, <2>6, <3>1, SubSeqProperties
    <2>8. SubSeq(p, 1, Len(p)) = SubSeq(q, 1, Len(p))
      BY <2>5, <2>7, SeqEqual DEF Begins
    <2>. QED
      BY <2>4, <2>6, <2>8 DEF IsPrefix, p, q
  <1>. QED
    BY OneInvariant, <1>1, PTL

(* A client gets frames of its own back, each once and in the order sent.  *)
THEOREM EchoedInOrder ==
  ASSUME OneWorker  PROVE Spec => []EchoInOrder
PROOF
  <1>1. OneInv => EchoInOrder
    BY DEF OneInv, OrderInv, EchoedInv, OwnFrames, Rising, EchoInOrder
  <1>. QED
    BY OneInvariant, <1>1, PTL

-----------------------------------------------------------------------------
(* The server implements the service. *)

Numbers(q) == [i \in 1..Len(q) |-> q[i][2]]

(* What the mapping shows of a client follows from these.                  *)
LEMMA ServiceUntouched ==
  ASSUME UNCHANGED << state, socket, handle, sent, echoed >>
  PROVE  UNCHANGED Service!serviceVars
PROOF
  <1>1. \A c \in Conns : ConnOf(c)' = ConnOf(c)
    BY DEF ConnOf, IsActive
  <1>. QED
    BY <1>1 DEF Service!serviceVars

LEMMA ServiceStarts == ServerInit => Service!ServiceInit
PROOF
  <1>. SUFFICES ASSUME ServerInit  PROVE Service!ServiceInit
    OBVIOUS
  <1>1. \A c \in Conns : ConnOf(c) = "idle" /\ sent[c] = 0
    BY DEF ServerInit, ConnOf
  <1>2. \A c \in Conns :
          [i \in 1..Len(echoed[c]) |-> echoed[c][i][2]] = << >>
    <2>1. \A c \in Conns : Len(echoed[c]) = 0
      BY DEF ServerInit
    <2>. QED
      BY <2>1
  <1>3. sent = [c \in Conns |-> 0]
    BY DEF ServerInit
  <1>. QED
    BY <1>1, <1>2, <1>3 DEF Service!ServiceInit

(* The slot of a client that is served.                                    *)
LEMMA ServedIsActive ==
  ASSUME ClientInv, NEW s \in Sessions, IsActive(s)
  PROVE  ConnOf(socket[s]) = "served"
PROOF
  BY DEF ClientInv, OwnSocket, ConnOf

(* A release closes the client of its slot and no other.                   *)
LEMMA ReleaseReleases ==
  ASSUME TypeInv, ClientInv, NEW s \in Sessions, IsActive(s),
         state' = [state EXCEPT ![s] = "INACTIVE"],
         handle' = [handle EXCEPT ![socket[s]] = "closed"],
         UNCHANGED << socket, sent, echoed >>
  PROVE  Service!ServiceNext
PROOF
  <1>. DEFINE c == socket[s]
  <1>1. SessionsTypeOK /\ NetTypeOK /\ c \in Conns
    BY DEF TypeInv, TypeOK, ControlOK, SocketKnown
  <1>2. ConnOf(c) = "served"
    BY ServedIsActive
  <1>3. ConnOf(c)' = "released"
    BY <1>1 DEF ConnOf, NetTypeOK
  <1>4. ASSUME NEW d \in Conns \ {c}  PROVE ConnOf(d)' = ConnOf(d)
    <2>1. handle'[d] = handle[d]
      BY <1>1 DEF NetTypeOK
    <2>2. \A r \in Sessions :
            (IsActive(r) /\ socket[r] = d)' <=> (IsActive(r) /\ socket[r] = d)
      BY <1>1 DEF SessionsTypeOK, IsActive
    <2>. QED
      BY <2>1, <2>2 DEF ConnOf
  <1>5. [d \in Conns |-> ConnOf(d)]'
          = [[d \in Conns |-> ConnOf(d)] EXCEPT ![c] = "released"]
    BY <1>1, <1>3, <1>4
  <1>. HIDE DEF c
  <1>6. Service!Release(c)
    BY <1>1, <1>2, <1>5 DEF Service!Release
  <1>. QED
    BY <1>1, <1>6 DEF Service!ServiceNext

(* OnAccept has a slot for the client it serves, which is not one of those  *)
(* in use: no more clients are served than there are slots.                *)
LEMMA SlotLeft ==
  ASSUME TypeInv, NEW s \in Sessions, ~IsActive(s)
  PROVE  Cardinality({ d \in Conns : ConnOf(d) = "served" })
           < Cardinality(Sessions)
PROOF
  <1>. DEFINE D == { d \in Conns : ConnOf(d) = "served" }
              T == Sessions \ {s}
              f == [d \in D |-> CHOOSE r \in Sessions :
                                  IsActive(r) /\ socket[r] = d]
  <1>1. \A d \in D : \E r \in Sessions : IsActive(r) /\ socket[r] = d
    BY DEF ConnOf
  <1>2. \A d \in D : f[d] \in T /\ socket[f[d]] = d
    BY <1>1
  <1>3. f \in Injection(D, T)
    BY <1>2 DEF Injection, IsInjective
  <1>4. /\ IsFiniteSet(T) /\ Cardinality(T) = Cardinality(Sessions) - 1
        /\ Cardinality(Sessions) \in Nat
    BY SessionsAssumption, FS_RemoveElement, FS_CardinalityType
  <1>5. IsFiniteSet(D) /\ Cardinality(D) <= Cardinality(T)
    BY <1>3, <1>4, FS_Injection
  <1>. QED
    BY <1>4, <1>5, FS_CardinalityType

LEMMA InitServes ==
  ASSUME TypeInv, SlotInv, ClientInv, InitSession
  PROVE  Service!ServiceNext
PROOF
  <1>0. PICK s \in Sessions, c \in Conns : s = this[Acceptor] /\ c = client
    BY DEF TypeInv, TypeOK, ControlOK, AcceptorControl, ThisKnown, InitSession,
       Threads
  <1>1. /\ SessionsTypeOK /\ NetTypeOK /\ pc[Acceptor] = "init"
    BY DEF TypeInv, TypeOK, InitSession
  <1>2. ~IsActive(s)
    BY <1>0, <1>1, AcceptorCarries DEF SlotInv
  <1>3. /\ IsActive(s)' /\ socket'[s] = c
        /\ \A r \in Sessions \ {s} :
             /\ IsActive(r)' <=> IsActive(r)
             /\ socket'[r] = socket[r]
        /\ UNCHANGED << handle, sent, echoed >>
    BY <1>0, <1>1 DEF SessionsTypeOK, InitSession, Init, IsActive, netVars
  <1>4. handle[c] = "open" /\ ConnOf(c) = "accepted"
    BY <1>0, <1>1 DEF ClientInv, OwnSocket, ConnOf
  <1>5. ConnOf(c)' = "served"
    BY <1>3, <1>4 DEF ConnOf
  <1>6. ASSUME NEW d \in Conns \ {c}  PROVE ConnOf(d)' = ConnOf(d)
    <2>1. \A r \in Sessions :
            (IsActive(r) /\ socket[r] = d)' <=> (IsActive(r) /\ socket[r] = d)
      BY <1>2, <1>3
    <2>. QED
      BY <1>3, <2>1 DEF ConnOf
  <1>7. [d \in Conns |-> ConnOf(d)]'
          = [[d \in Conns |-> ConnOf(d)] EXCEPT ![c] = "served"]
    BY <1>5, <1>6
  <1>8. Service!Cardinality(Service!Served) < Cardinality(Sessions)
    <2>1. Service!Served = { d \in Conns : ConnOf(d) = "served" }
      BY DEF Service!Served
    <2>2. Service!Cardinality(Service!Served) = Cardinality(Service!Served)
      BY DEF Service!Cardinality, Cardinality
    <2>. QED
      BY <1>2, <2>1, <2>2, SlotLeft
  <1>9. Service!Serve(c)
    BY <1>3, <1>4, <1>7, <1>8 DEF Service!Serve
  <1>. QED
    BY <1>9 DEF Service!ServiceNext

LEMMA AcceptAccepts ==
  ASSUME TypeInv, ClientInv, NEW c \in Conns, Accept(c)
  PROVE  Service!ServiceNext
PROOF
  <1>1. /\ NetTypeOK /\ handle[c] = "none"
        /\ handle' = [handle EXCEPT ![c] = "open"]
        /\ UNCHANGED << state, socket, sent, echoed >>
    BY DEF TypeInv, TypeOK, ClientInv, OwnSocket, Accept, sessionVars, flags
  <1>2. ConnOf(c) = "idle"
    BY <1>1 DEF ConnOf
  <1>3. ConnOf(c)' = "accepted"
    BY <1>1 DEF ClientInv, OwnSocket, NetTypeOK, ConnOf, IsActive
  <1>4. \A d \in Conns \ {c} : ConnOf(d)' = ConnOf(d)
    BY <1>1 DEF NetTypeOK, ConnOf, IsActive
  <1>5. [d \in Conns |-> ConnOf(d)]'
          = [[d \in Conns |-> ConnOf(d)] EXCEPT ![c] = "accepted"]
    BY <1>3, <1>4
  <1>6. Service!AcceptClient(c)
    BY <1>1, <1>2, <1>5 DEF Service!AcceptClient
  <1>. QED
    BY <1>6 DEF Service!ServiceNext

LEMMA SaySends ==
  ASSUME NEW c \in Conns, Say(c)
  PROVE  Service!ServiceNext
PROOF
  <1>1. /\ ConnOf(c) \in {"accepted", "served"} /\ sent[c] < MaxMsgs
        /\ sent' = [sent EXCEPT ![c] = @ + 1]
        /\ UNCHANGED << state, socket, handle, echoed >>
    BY DEF Say, ConnOf, sessionVars, flags
  <1>2. \A d \in Conns : ConnOf(d)' = ConnOf(d)
    BY <1>1 DEF ConnOf, IsActive
  <1>3. Service!SendFrame(c)
    BY <1>1, <1>2 DEF Service!SendFrame
  <1>. QED
    BY <1>3 DEF Service!ServiceNext

(* The numbers of a client's frames, in a rising list of them.             *)
LEMMA NumbersOf ==
  ASSUME NEW p \in Seq(Frames), Rising(p)
  PROVE  /\ Numbers(p) \in [1..Len(p) -> 1..MaxMsgs]
         /\ Len(p) \in Nat /\ Len(p) <= MaxMsgs
         /\ \A i \in 2..Len(p) : Numbers(p)[i - 1] < Numbers(p)[i]
PROOF
  <1>1. Len(p) \in Nat /\ \A i \in 1..Len(p) : p[i][2] \in 1..MaxMsgs
    BY LenProperties, ElementOfSeq DEF Frames
  <1>2. Numbers(p) \in [1..Len(p) -> 1..MaxMsgs]
    BY <1>1 DEF Numbers
  <1>3. \A i, j \in 1..Len(p) : j < i => Numbers(p)[j] < Numbers(p)[i]
    BY <1>1 DEF Rising, Numbers
  <1>4. \A i, j \in 1..Len(p) : Numbers(p)[i] = Numbers(p)[j] => i = j
    <2>. SUFFICES ASSUME NEW i \in 1..Len(p), NEW j \in 1..Len(p), j < i
                  PROVE  Numbers(p)[j] # Numbers(p)[i]
      BY <1>1
    <2>1. Numbers(p)[i] \in Int /\ Numbers(p)[j] \in Int
      BY <1>2
    <2>. QED
      BY <1>3, <2>1
  <1>5. Numbers(p) \in Injection(1..Len(p), 1..MaxMsgs)
    BY <1>2, <1>4 DEF Injection, IsInjective
  <1>6. /\ Cardinality(1..Len(p)) = Len(p) /\ Cardinality(1..MaxMsgs) = MaxMsgs
        /\ IsFiniteSet(1..MaxMsgs)
    <2>1. /\ MaxMsgs \in Int /\ Len(p) \in Int /\ 1 \in Int
          /\ MaxMsgs >= 0 /\ Len(p) >= 0
      BY <1>1, SizesAssumption
    <2>2. /\ Cardinality(1..Len(p))
               = (IF 1 > Len(p) THEN 0 ELSE Len(p) - 1 + 1)
          /\ Cardinality(1..MaxMsgs)
               = (IF 1 > MaxMsgs THEN 0 ELSE MaxMsgs - 1 + 1)
          /\ IsFiniteSet(1..MaxMsgs)
      BY <2>1, FS_Interval
    <2>. QED
      BY <2>1, <2>2
  <1>7. Len(p) <= MaxMsgs
    <2>. DEFINE D == 1..Len(p)
                T == 1..MaxMsgs
    <2>1. /\ Numbers(p) \in Injection(D, T) /\ IsFiniteSet(T)
          /\ Cardinality(D) = Len(p) /\ Cardinality(T) = MaxMsgs
      BY <1>5, <1>6
    <2>. HIDE DEF D, T
    <2>2. Cardinality(D) <= Cardinality(T)
      BY <2>1, FS_Injection
    <2>. QED
      BY <2>1, <2>2
  <1>8. \A i \in 2..Len(p) : Numbers(p)[i - 1] < Numbers(p)[i]
    BY <1>1, <1>3
  <1>. QED
    BY <1>1, <1>2, <1>7, <1>8

LEMMA NumbersJoined ==
  ASSUME NEW p \in Seq(Frames), NEW q \in Seq(Frames)
  PROVE  Numbers(p \o q) = Numbers(p) \o Numbers(q)
PROOF
  <1>1. /\ p \o q \in Seq(Frames)
        /\ Len(p) \in Nat /\ Len(q) \in Nat /\ Len(p \o q) = Len(p) + Len(q)
        /\ \A i \in 1..(Len(p) + Len(q)) :
             (p \o q)[i] = IF i <= Len(p) THEN p[i] ELSE q[i - Len(p)]
    BY ConcatProperties, LenProperties
  <1>2. /\ \A i \in 1..Len(p) : p[i][2] \in Nat
        /\ \A i \in 1..Len(q) : q[i][2] \in Nat
        /\ \A i \in 1..Len(p \o q) : (p \o q)[i][2] \in Nat
    BY SMTT(60), <1>1, ElementOfSeq DEF Frames
  <1>3. /\ Numbers(p) \in Seq(Nat) /\ Len(Numbers(p)) = Len(p)
        /\ Numbers(q) \in Seq(Nat) /\ Len(Numbers(q)) = Len(q)
        /\ Numbers(p \o q) \in Seq(Nat) /\ Len(Numbers(p \o q)) = Len(p \o q)
    BY <1>1, <1>2 DEF Numbers
  <1>4. /\ \A i \in 1..Len(p) : Numbers(p)[i] = p[i][2]
        /\ \A i \in 1..Len(q) : Numbers(q)[i] = q[i][2]
        /\ \A i \in 1..Len(p \o q) : Numbers(p \o q)[i] = (p \o q)[i][2]
    BY DEF Numbers
  <1>5. /\ Numbers(p) \o Numbers(q) \in Seq(Nat)
        /\ Len(Numbers(p) \o Numbers(q)) = Len(p) + Len(q)
        /\ \A i \in 1..(Len(p) + Len(q)) :
             (Numbers(p) \o Numbers(q))[i]
               = IF i <= Len(p) THEN Numbers(p)[i] ELSE Numbers(q)[i - Len(p)]
    BY SMTT(60), <1>3, ConcatProperties
  <1>6. \A i \in 1..(Len(p) + Len(q)) :
          Numbers(p \o q)[i] = (Numbers(p) \o Numbers(q))[i]
    BY SMTT(60), <1>1, <1>4, <1>5
  <1>. QED
    BY <1>1, <1>3, <1>5, <1>6, SeqEqual

LEMMA SendAnswers ==
  ASSUME TypeInv, SendInv, ClientInv, OrderInv, RefInv, OrderInv', TypeInv',
         NEW w \in Workers, NEW s \in Sessions, SendCompletes(w, s)
  PROVE  Service!ServiceNext
PROOF
  <1>. DEFINE p == Head(sends[s])
  <1>1. /\ TypeOK /\ NetTypeOK /\ IsActive(s) /\ sends[s] # << >> /\ p # << >>
        /\ socket[s] \in Conns
    BY InUseFromCounts DEF TypeInv, TypeOK, ControlOK, SocketKnown,
       SendCompletes, InUseIsActive
  <1>0. PICK c \in Conns : c = socket[s]
    BY <1>1
  <1>2. /\ echoed' = [echoed EXCEPT ![c] = @ \o p]
        /\ UNCHANGED << state, socket, handle, sent, consumed >>
    BY <1>0 DEF SendCompletes, flags
  <1>3. /\ p \in Seq(Frames) /\ Begins(p, sendQ[s])
        /\ echoed[c] \in Seq(Frames) /\ echoed'[c] = echoed[c] \o p
    BY <1>1, <1>2, OneSend DEF NetTypeOK
  <1>4. ConnOf(c) = "served" /\ \A d \in Conns : ConnOf(d)' = ConnOf(d)
    BY <1>0, <1>1, <1>2, ServedIsActive DEF ConnOf, IsActive
  <1>. HIDE DEF p
  <1>5. /\ OwnFrames(p, c, consumed[c]) /\ Rising(p)
        /\ consumed[c] \in Nat /\ sent[c] \in Nat /\ consumed[c] <= sent[c]
    <2>1. OwnFrames(p, c, consumed[c]) /\ Rising(p)
      BY <1>0, <1>1, <1>3, OrderOf, BeginsOrdered
    <2>. QED
      BY <1>1, <2>1, SizesAssumption DEF NetTypeOK, ClientInv, ReceivedWasSent
  <1>6. Len(p) \in 1..MaxMsgs
    <2>1. Len(p) # 0 /\ Len(p) \in Nat
      BY <1>1, <1>3, EmptySeq, LenProperties
    <2>. QED
      BY <1>3, <1>5, <2>1, NumbersOf, SizesAssumption
  <1>7. Numbers(p) \in [1..Len(p) -> 1..sent[c]]
    <2>1. \A i \in 1..Len(p) : p[i][2] \in 1..MaxMsgs /\ p[i][2] <= sent[c]
      BY SMTT(60), <1>3, <1>5, ElementOfSeq DEF OwnFrames, Frames
    <2>. QED
      BY <1>5, <2>1 DEF Numbers
  <1>8. \A i \in 2..Len(Numbers(echoed[c]) \o Numbers(p)) :
          (Numbers(echoed[c]) \o Numbers(p))[i - 1]
            < (Numbers(echoed[c]) \o Numbers(p))[i]
    <2>. DEFINE e == echoed[c] \o p
    <2>1. e \in Seq(Frames) /\ Rising(e)
      BY <1>1, <1>3 DEF OrderInv, EchoedInv, TypeInv, TypeOK, NetTypeOK
    <2>2. Numbers(e) = Numbers(echoed[c]) \o Numbers(p)
      BY <1>3, NumbersJoined
    <2>. HIDE DEF e
    <2>3. Len(Numbers(e)) = Len(e)
      BY <2>1, LenProperties DEF Numbers
    <2>. QED
      BY <2>1, <2>2, <2>3, NumbersOf
  <1>9. [d \in Conns |-> Numbers(echoed[d])]'
          = [[d \in Conns |-> Numbers(echoed[d])] EXCEPT ![c] =
               @ \o Numbers(p)]
    <2>1. Numbers(echoed'[c]) = Numbers(echoed[c]) \o Numbers(p)
      BY <1>3, NumbersJoined
    <2>2. \A d \in Conns \ {c} : echoed'[d] = echoed[d]
      BY <1>1, <1>2 DEF NetTypeOK
    <2>. QED
      BY <1>1, <2>1, <2>2
  <1>10. Service!Answer(c)
    BY <1>2, <1>4, <1>6, <1>7, <1>8, <1>9
    DEF Service!Answer, Service!Increasing, Numbers
  <1>. QED
    BY <1>10 DEF Service!ServiceNext

LEMMA ServiceStep ==
  ASSUME OneWorker
  PROVE  (TypeInv /\ RefInv /\ SlotInv /\ OneInv) /\ TypeInv' /\ [Next]_vars
           => [Service!ServiceNext]_(Service!serviceVars)
PROOF
  <1>. SUFFICES ASSUME TypeInv, RefInv, SlotInv, OneInv, TypeInv', [Next]_vars
                PROVE  Service!ServiceNext \/ UNCHANGED Service!serviceVars
    OBVIOUS
  <1>. DEFINE Mapped == Service!ServiceNext \/ UNCHANGED Service!serviceVars
  <1>. USE DEF flags, queues, io, sessionVars, lobbyVars, lobbyAndPool, netVars,
           threadVars
  <1>a. /\ TypeInv /\ TypeOK /\ RefInv /\ SlotInv /\ ClientInv /\ WorkInv
        /\ SendInv /\ OrderInv /\ SessionsTypeOK /\ ThreadsTypeOK
        /\ WorkerControl /\ ThisKnown
    BY DEF TypeInv, TypeOK, ControlOK, OneInv
  <1>b. OrderInv'
    BY <1>a, OrderStep
  <1>1. ASSUME NEW w \in Workers, NEW s \in Sessions, RecvCompletes(w, s)
        PROVE Mapped
    BY <1>1, ServiceUntouched DEF RecvCompletes
  <1>1p. ASSUME NEW w \in Workers, NEW s \in Sessions, RecvPiece(w, s)
         PROVE Mapped
    BY <1>1p, ServiceUntouched DEF RecvPiece
  <1>2. ASSUME NEW w \in Workers, NEW s \in Sessions, RecvFails(w, s)
        PROVE Mapped
    BY <1>2, ServiceUntouched DEF RecvFails
  <1>3. ASSUME NEW w \in Workers, NEW s \in Sessions, SendCompletes(w, s)
        PROVE Mapped
    BY <1>a, <1>b, <1>3, SendAnswers
  <1>4. ASSUME NEW w \in Workers, NEW s \in Sessions, SendFails(w, s)
        PROVE Mapped
    BY <1>4, ServiceUntouched DEF SendFails
  <1>5. ASSUME NEW w \in Workers, OnMessage(w)  PROVE Mapped
    BY <1>5, ServiceUntouched DEF OnMessage
  <1>6. ASSUME NEW w \in Workers, ChatUnicast(w)  PROVE Mapped
    BY <1>6, ServiceUntouched DEF ChatUnicast
  <1>7. ASSUME NEW w \in Workers, GetSessionPointer(w)  PROVE Mapped
    BY <1>7, ServiceUntouched DEF GetSessionPointer
  <1>8. ASSUME NEW w \in Workers, SendPacket(w)  PROVE Mapped
    BY <1>8, ServiceUntouched DEF SendPacket
  <1>9. ASSUME NEW w \in Workers, OnRecvEnd(w)  PROVE Mapped
    <2>1. onRecv[w] \in Sessions /\ IsActive(onRecv[w])
      BY <1>a, <1>9, CountedIsActive DEF OnRecvEnd, WorkerControl,
         Threads
    <2>2. \/ /\ state' = [state EXCEPT ![onRecv[w]] = "INACTIVE"]
             /\ handle' = [handle EXCEPT ![socket[onRecv[w]]] = "closed"]
             /\ UNCHANGED << socket, sent, echoed >>
          \/ UNCHANGED << state, socket, handle, sent, echoed >>
      BY <1>9 DEF OnRecvEnd, DecrementRefCount, DisconnectSession,
         Clear
    <2>. QED
      BY <1>a, <2>1, <2>2, ReleaseReleases, ServiceUntouched
  <1>10. ASSUME NEW w \in Workers, PostSend(w)  PROVE Mapped
    BY <1>10, ServiceUntouched DEF PostSend
  <1>11. ASSUME NEW w \in Workers, WSASend(w)  PROVE Mapped
    BY <1>11, ServiceUntouched DEF WSASend
  <1>12. ASSUME NEW w \in Workers, OnSend(w)  PROVE Mapped
    <2>1. this[w] \in Sessions /\ IsActive(this[w])
      BY <1>a, <1>12, CountedIsActive DEF OnSend, ThisKnown, HoldsRef,
         Threads
    <2>2. \/ /\ state' = [state EXCEPT ![this[w]] = "INACTIVE"]
             /\ handle' = [handle EXCEPT ![socket[this[w]]] = "closed"]
             /\ UNCHANGED << socket, sent, echoed >>
          \/ UNCHANGED << state, socket, handle, sent, echoed >>
      BY <1>12 DEF OnSend, DecrementRefCount, DisconnectSession, Clear
    <2>. QED
      BY <1>a, <2>1, <2>2, ReleaseReleases, ServiceUntouched
  <1>13. ASSUME NEW w \in Workers, SendDone(w)  PROVE Mapped
    BY <1>13, ServiceUntouched DEF SendDone
  <1>14. ASSUME NEW t \in Threads, PostRecv(t)  PROVE Mapped
    BY <1>14, ServiceUntouched DEF PostRecv
  <1>15. ASSUME NEW t \in Threads, WSARecv(t)  PROVE Mapped
    BY <1>15, ServiceUntouched DEF WSARecv
  <1>16. ASSUME NEW t \in Threads, DropRef(t)  PROVE Mapped
    <2>1. this[t] \in Sessions /\ IsActive(this[t])
      BY <1>a, <1>16, CountedIsActive DEF DropRef, ThisKnown, HoldsRef
    <2>2. \/ /\ state' = [state EXCEPT ![this[t]] = "INACTIVE"]
             /\ handle' = [handle EXCEPT ![socket[this[t]]] = "closed"]
             /\ UNCHANGED << socket, sent, echoed >>
          \/ UNCHANGED << state, socket, handle, sent, echoed >>
      BY <1>16 DEF DropRef, DisconnectSession, Clear
    <2>. QED
      BY <1>a, <2>1, <2>2, ReleaseReleases, ServiceUntouched
  <1>17. ASSUME NEW t \in Threads, FreeId(t)  PROVE Mapped
    BY <1>17, ServiceUntouched DEF FreeId
  <1>18. ASSUME InitSession  PROVE Mapped
    BY <1>a, <1>18, InitServes
  <1>19. ASSUME OnConnect  PROVE Mapped
    BY <1>19, ServiceUntouched DEF OnConnect
  <1>20. ASSUME SetUserId  PROVE Mapped
    BY <1>20, ServiceUntouched DEF SetUserId
  <1>21. ASSUME NEW c \in Conns, Accept(c)  PROVE Mapped
    BY <1>a, <1>21, AcceptAccepts
  <1>22. ASSUME NEW c \in Conns, Say(c)  PROVE Mapped
    BY <1>22, SaySends
  <1>23. ASSUME NEW c \in Conns, Close(c)  PROVE Mapped
    BY <1>23, ServiceUntouched DEF Close
  <1>24. ASSUME UNCHANGED vars  PROVE Mapped
    BY <1>24, ServiceUntouched DEF vars
  <1>. HIDE DEF Mapped
  <1>25. Mapped
    BY <1>1, <1>1p, <1>2, <1>3, <1>4, <1>5, <1>6, <1>7, <1>8, <1>9, <1>10,
       <1>11, <1>12, <1>13, <1>14, <1>15, <1>16, <1>17, <1>18, <1>19, <1>20,
       <1>21, <1>22, <1>23, <1>24
    DEF Next, Completion, Handling, Shared, Accepting
  <1>. QED
    BY <1>25 DEF Mapped

(* Whatever the threads do, what a client sees is a run of EchoService: an  *)
(* accept, a session, its own frames back in order and none twice, one     *)
(* release; and no more clients are served than there are slots.           *)
THEOREM ServerIsService ==
  ASSUME OneWorker  PROVE Spec => ImplementsService
PROOF
  <1>1. (TypeInv /\ RefInv /\ SlotInv /\ OneInv) /\ TypeInv' /\ [Next]_vars
          => [Service!ServiceNext]_(Service!serviceVars)
    BY ServiceStep
  <1>. QED
    BY OneInvariant, ServiceStarts, <1>1, PTL
    DEF Spec, ImplementsService, Service!ServiceSpec

=============================================================================
