----------------------------- MODULE EchoServer -----------------------------
(***************************************************************************)
(* The echo server: the accept thread, the IOCP worker threads and the     *)
(* clients, over the session slots (Session), the id stack                 *)
(* (SessionManager) and the user registry (Lobby).                         *)
(*                                                                         *)
(* One action is what a thread does in one critical section, or in one     *)
(* system call, or in one read of shared state made without a lock.  pc[t] *)
(* names what thread t does next.                                          *)
(*                                                                         *)
(* A completion packet is taken by any worker that waits: the order of the *)
(* completion port is left open, and a packet is taken in the step that    *)
(* completes its operation.  A completed operation transferred everything  *)
(* it could, or nothing: zero bytes, or an error of                        *)
(* GetQueuedCompletionStatus, for which the code sees zero bytes too.      *)
(***************************************************************************)
EXTENDS Session, Lobby

CONSTANTS Workers,      \* the worker threads
          Acceptor,     \* the accept thread
          NoFrame       \* the value of a frame variable not set

ASSUME ThreadsAssumption == IsFiniteSet(Workers) /\ Acceptor \notin Workers
ASSUME NoFrameAssumption == NoFrame \notin Frames

Threads == Workers \cup {Acceptor}

VARIABLES pc,
          onRecv,       \* the session whose OnRecv the worker is in
          this,         \* the session of the other method the thread is in
          uid,          \* the user id the thread has read
          frame,        \* the frame the worker handles
          batch,        \* the frames of the send the worker posts or completes
          client        \* clientSocket of the accept thread

threadVars == << pc, onRecv, this, uid, frame, batch, client >>

VARIABLES peer,         \* each client: "idle", "open" or "closed"
          handle,       \* the server's socket handle: "none", "open", "closed"
          sent,         \* how many frames the client has sent
          consumed,     \* how many of them the server has received
          echoed        \* the frames the client has got back

netVars == << peer, handle, sent, consumed, echoed >>
lobbyAndPool == << users, userIdCount, idStack >>
vars == << sessionVars, lobbyAndPool, threadVars, netVars >>

ServerInit ==
  /\ SessionInit
  /\ InitSessionIdQueue
  /\ LobbyInit
  /\ pc = [t \in Threads |-> IF t = Acceptor THEN "accept" ELSE "wait"]
  /\ onRecv = [w \in Workers |-> NoSession]
  /\ this = [t \in Threads |-> NoSession]
  /\ uid = [t \in Threads |-> NoUser]
  /\ frame = [w \in Workers |-> NoFrame]
  /\ batch = [w \in Workers |-> << >>]
  /\ client = NoConn
  /\ peer = [c \in Conns |-> "idle"]
  /\ handle = [c \in Conns |-> "none"]
  /\ sent = [c \in Conns |-> 0]
  /\ consumed = [c \in Conns |-> 0]
  /\ echoed = [c \in Conns |-> << >>]

-----------------------------------------------------------------------------
(* Control of a thread. *)

Goto(t, label) == pc' = [pc EXCEPT ![t] = label]

(* Where t goes on after PostSend, PostRecv or a release: OnAccept returns *)
(* to the accept loop; a PostSend nested in OnRecv returns to its loop.    *)
Resume(t) ==
  IF t = Acceptor THEN "accept"
  ELSE IF onRecv[t] = NoSession THEN "wait" ELSE "onMessage"

(* Thread t enters a method of session s.                                  *)
Call(t, s, label) ==
  /\ this' = [this EXCEPT ![t] = s]
  /\ Goto(t, label)

(* DisconnectSession, up to the unlock: the socket is closed, the lobby    *)
(* forgets the user, the slot turns inactive.  FreeIdLock comes next.      *)
DisconnectSession(t, s) ==
  /\ handle' = [handle EXCEPT ![socket[s]] = "closed"]
  /\ DeleteUser(userId[s])
  /\ Clear(s)
  /\ Call(t, s, "freeId")
  /\ UNCHANGED << disconnectRequested, isSending, socket, userId, idStack >>

FreeId(t) ==
  /\ pc[t] = "freeId"
  /\ FreeIdLock(this[t])
  /\ Goto(t, Resume(t))
  /\ UNCHANGED << sessionVars, lobbyVars, onRecv, this, uid, frame, batch,
                  client, netVars >>

(* DecrementRefCountAndRelease on this: the last reference releases the    *)
(* session, an earlier one asks for its disconnection.                     *)
DropRef(t) ==
  /\ pc[t] = "dropRef"
  /\ Decrement(this[t])
  /\ \/ /\ Unreferenced(this[t])
        /\ DisconnectSession(t, this[t])
     \/ /\ ~Unreferenced(this[t])
        /\ RequestDisconnect(this[t])
        /\ Goto(t, Resume(t))
        /\ UNCHANGED << state, isSending, socket, userId, lobbyAndPool, this,
                        handle >>
  /\ UNCHANGED << queues, io, onRecv, uid, frame, batch, client, peer,
                  sent, consumed, echoed >>

(* DecrementRefCount on s; when it does not release, go on at label.       *)
DecrementRefCount(t, s, label) ==
  /\ Decrement(s)
  /\ \/ /\ ReleaseOnDecrement(s)
        /\ DisconnectSession(t, s)
     \/ /\ ~ReleaseOnDecrement(s)
        /\ Call(t, s, label)
        /\ UNCHANGED << flags, lobbyAndPool, handle >>

-----------------------------------------------------------------------------
(* WorkerThread: GetQueuedCompletionStatus returns the completion of ...   *)

(* ... a recv that got the next k frames: OnRecv, MoveRear.  MoveRear      *)
(* cannot fail: WSARecv was given no more than the free space.             *)
RecvCompletes(w, s) ==
  LET c == socket[s] IN
  /\ pc[w] = "wait"
  /\ recvs[s] > 0
  /\ \E k \in 1..(sent[c] - consumed[c]) :
       /\ recvQ' = [recvQ EXCEPT ![s] =
                      @ \o [i \in 1..k |-> << c, consumed[c] + i >>]]
       /\ consumed' = [consumed EXCEPT ![c] = @ + k]
  /\ recvs' = [recvs EXCEPT ![s] = @ - 1]
  /\ onRecv' = [onRecv EXCEPT ![w] = s]
  /\ Goto(w, "onMessage")
  /\ UNCHANGED << flags, refCount, sendQ, sends, lobbyAndPool, this, uid,
                  frame, batch, client, peer, handle, sent, echoed >>

(* ... a recv that got a piece of the next frame: OnRecv finds no whole    *)
(* frame in it.                                                            *)
RecvPiece(w, s) ==
  LET c == socket[s] IN
  /\ pc[w] = "wait"
  /\ recvs[s] > 0
  /\ consumed[c] < sent[c]
  /\ recvs' = [recvs EXCEPT ![s] = @ - 1]
  /\ onRecv' = [onRecv EXCEPT ![w] = s]
  /\ Goto(w, "onMessage")
  /\ UNCHANGED << flags, refCount, queues, sends, lobbyAndPool, this, uid,
                  frame, batch, client, netVars >>

(* ... a recv with zero bytes: the client has closed or reset.             *)
RecvFails(w, s) ==
  /\ pc[w] = "wait"
  /\ recvs[s] > 0
  /\ peer[socket[s]] = "closed"
  /\ recvs' = [recvs EXCEPT ![s] = @ - 1]
  /\ Call(w, s, "dropRef")
  /\ UNCHANGED << flags, refCount, queues, sends, lobbyAndPool, onRecv, uid,
                  frame, batch, client, netVars >>

(* ... a send: the client gets the frames, OnSend begins.                  *)
SendCompletes(w, s) ==
  /\ pc[w] = "wait"
  /\ sends[s] # << >>
  /\ Head(sends[s]) # << >>
  /\ batch' = [batch EXCEPT ![w] = Head(sends[s])]
  /\ echoed' = [echoed EXCEPT ![socket[s]] = @ \o Head(sends[s])]
  /\ sends' = [sends EXCEPT ![s] = Tail(@)]
  /\ Call(w, s, "onSend")
  /\ UNCHANGED << flags, refCount, queues, recvs, lobbyAndPool, onRecv, uid,
                  frame, client, peer, handle, sent, consumed >>

(* ... a send with zero bytes: the client is gone, or nothing was sent.    *)
SendFails(w, s) ==
  /\ pc[w] = "wait"
  /\ sends[s] # << >>
  /\ Head(sends[s]) = << >> \/ peer[socket[s]] = "closed"
  /\ sends' = [sends EXCEPT ![s] = Tail(@)]
  /\ Call(w, s, "dropRef")
  /\ UNCHANGED << flags, refCount, queues, recvs, lobbyAndPool, onRecv, uid,
                  frame, batch, client, netVars >>

-----------------------------------------------------------------------------
(* OnRecv: the loop that takes frames, and the chat path of each frame.    *)

(* OnMessage on the next frame, down to OnEcho: is the session active, and *)
(* who is its user.                                                        *)
OnMessage(w) ==
  LET s == onRecv[w] IN
  /\ pc[w] = "onMessage"
  /\ recvQ[s] # << >>
  /\ recvQ' = [recvQ EXCEPT ![s] = Tail(@)]
  /\ \/ /\ IsActive(s)
        /\ frame' = [frame EXCEPT ![w] = Head(recvQ[s])]
        /\ uid' = [uid EXCEPT ![w] = userId[s]]
        /\ Goto(w, "chatUnicast")
     \/ /\ ~IsActive(s)
        /\ UNCHANGED << frame, uid, pc >>
  /\ UNCHANGED << flags, refCount, sendQ, io, lobbyAndPool, onRecv, this,
                  batch, client, netVars >>

(* ChatUnicast, under the lobby's lock: the session of the user.           *)
ChatUnicast(w) ==
  /\ pc[w] = "chatUnicast"
  /\ IF uid[w] \in DOMAIN users
       THEN Call(w, users[uid[w]], "getSession")
       ELSE Goto(w, "onMessage") /\ UNCHANGED this
  /\ uid' = [uid EXCEPT ![w] = NoUser]
  /\ UNCHANGED << sessionVars, lobbyAndPool, onRecv, frame, batch, client,
                  netVars >>

(* GetSessionPointer reads state_ without the session's lock.              *)
GetSessionPointer(w) ==
  /\ pc[w] = "getSession"
  /\ Goto(w, IF IsActive(this[w]) THEN "sendPacket" ELSE "onMessage")
  /\ UNCHANGED << sessionVars, lobbyAndPool, onRecv, this, uid, frame, batch,
                  client, netVars >>

(* The locked section of SendPacket.                                       *)
SendPacket(w) ==
  LET s == this[w] IN
  /\ pc[w] = "sendPacket"
  /\ \/ /\ ~IsActive(s)
        /\ Goto(w, "onMessage")
        /\ UNCHANGED << sendQ, disconnectRequested >>
     \/ /\ IsActive(s) /\ SendQFull(s)
        /\ RequestDisconnect(s)
        /\ Goto(w, "onMessage")
        /\ UNCHANGED sendQ
     \/ /\ IsActive(s) /\ ~SendQFull(s)
        /\ Enqueue(s, frame[w])
        /\ Goto(w, "postSend")
        /\ UNCHANGED disconnectRequested
  /\ frame' = [frame EXCEPT ![w] = NoFrame]
  /\ UNCHANGED << state, isSending, socket, userId, refCount, recvQ, io,
                  lobbyAndPool, onRecv, this, uid, batch, client, netVars >>

(* The loop is over: DecrementRefCount, then PostRecv unless it released.  *)
OnRecvEnd(w) ==
  LET s == onRecv[w] IN
  /\ pc[w] = "onMessage"
  /\ recvQ[s] = << >>
  /\ onRecv' = [onRecv EXCEPT ![w] = NoSession]
  /\ DecrementRefCount(w, s, "postRecv")
  /\ UNCHANGED << queues, io, uid, frame, batch, client, peer, sent,
                  consumed, echoed >>

-----------------------------------------------------------------------------
(* PostSend and PostRecv.                                                  *)

(* The locked section of PostSend: what it captures is the whole queue.    *)
PostSend(w) ==
  LET s == this[w] IN
  /\ pc[w] = "postSend"
  /\ \/ /\ MaySend(s)
        /\ BeginSend(s)
        /\ batch' = [batch EXCEPT ![w] = sendQ[s]]
        /\ Goto(w, "WSASend")
     \/ /\ ~MaySend(s)
        /\ Goto(w, Resume(w))
        /\ UNCHANGED << refCount, isSending, batch >>
  /\ UNCHANGED << state, disconnectRequested, socket, userId, queues, io,
                  lobbyAndPool, onRecv, this, uid, frame, client, netVars >>

(* WSASend, outside the lock.  It may fail at once on a reset connection.  *)
WSASend(w) ==
  LET s == this[w] IN
  /\ pc[w] = "WSASend"
  /\ \/ /\ sends' = [sends EXCEPT ![s] = Append(@, batch[w])]
        /\ Goto(w, Resume(w))
     \/ /\ peer[socket[s]] = "closed"
        /\ Goto(w, "dropRef")
        /\ UNCHANGED sends
  /\ batch' = [batch EXCEPT ![w] = << >>]
  /\ UNCHANGED << flags, refCount, queues, recvs, lobbyAndPool, onRecv, this,
                  uid, frame, client, netVars >>

(* OnSend: DecrementRefCount ...                                           *)
OnSend(w) ==
  /\ pc[w] = "onSend"
  /\ DecrementRefCount(w, this[w], "sendDone")
  /\ UNCHANGED << queues, io, onRecv, uid, frame, batch, client, peer, sent,
                  consumed, echoed >>

(* ... then, under the lock again, the frames sent leave the queue; what   *)
(* was queued meanwhile is posted.                                         *)
SendDone(w) ==
  LET s == this[w]
      n == Len(batch[w])
  IN
  /\ pc[w] = "sendDone"
  /\ \/ /\ IsActive(s)
        /\ FinishSend(s, n)
        /\ Goto(w, IF QueuedAfter(s, n) THEN "postSend" ELSE "wait")
     \/ /\ ~IsActive(s)
        /\ Goto(w, "wait")
        /\ UNCHANGED << sendQ, isSending >>
  /\ batch' = [batch EXCEPT ![w] = << >>]
  /\ UNCHANGED << state, disconnectRequested, socket, userId, refCount, recvQ,
                  io, lobbyAndPool, onRecv, this, uid, frame, client,
                  netVars >>

(* The locked section of PostRecv.                                         *)
PostRecv(t) ==
  /\ pc[t] = "postRecv"
  /\ \/ /\ IsActive(this[t])
        /\ IncrementRefCount(this[t])
        /\ Goto(t, "WSARecv")
     \/ /\ ~IsActive(this[t])
        /\ Goto(t, Resume(t))
        /\ UNCHANGED refCount
  /\ UNCHANGED << flags, queues, io, lobbyAndPool, onRecv, this, uid, frame,
                  batch, client, netVars >>

(* WSARecv, outside the lock.  OnAccept goes on to OnConnect.              *)
WSARecv(t) ==
  LET s == this[t] IN
  /\ pc[t] = "WSARecv"
  /\ \/ /\ recvs' = [recvs EXCEPT ![s] = @ + 1]
        /\ Goto(t, IF t = Acceptor THEN "onConnect" ELSE "wait")
     \/ /\ peer[socket[s]] = "closed"
        /\ Goto(t, "dropRef")
        /\ UNCHANGED recvs
  /\ UNCHANGED << flags, refCount, queues, sends, lobbyAndPool, onRecv, this,
                  uid, frame, batch, client, netVars >>

-----------------------------------------------------------------------------
(* AcceptThread and OnAccept.                                              *)

(* accept returns client c; CreateSession takes a slot id for it.  With no *)
(* id left OnAccept returns, and the new handle stays as it is.            *)
Accept(c) ==
  /\ pc[Acceptor] = "accept"
  /\ peer[c] = "idle"
  /\ peer' = [peer EXCEPT ![c] = "open"]
  /\ handle' = [handle EXCEPT ![c] = "open"]
  /\ \/ \E s \in Sessions :
          /\ GetIdLock(s)
          /\ client' = c
          /\ Call(Acceptor, s, "init")
     \/ /\ GetIdFails
        /\ UNCHANGED << client, this, pc >>
  /\ UNCHANGED << sessionVars, lobbyVars, onRecv, uid, frame, batch, sent,
                  consumed, echoed >>

(* Session::Init on the slot; the socket joins the completion port.        *)
InitSession ==
  /\ pc[Acceptor] = "init"
  /\ Init(this[Acceptor], client)
  /\ client' = NoConn
  /\ Goto(Acceptor, "postRecv")
  /\ UNCHANGED << lobbyAndPool, onRecv, this, uid, frame, batch, netVars >>

(* OnConnect: the lobby creates the user of the session.                   *)
OnConnect ==
  /\ pc[Acceptor] = "onConnect"
  /\ CreateUser(this[Acceptor])
  /\ uid' = [uid EXCEPT ![Acceptor] = userIdCount]
  /\ Goto(Acceptor, "setUserId")
  /\ UNCHANGED << sessionVars, idStack, onRecv, this, frame, batch, client,
                  netVars >>

(* SetUserId writes userId_ without the session's lock.                    *)
SetUserId ==
  /\ pc[Acceptor] = "setUserId"
  /\ userId' = [userId EXCEPT ![this[Acceptor]] = uid[Acceptor]]
  /\ uid' = [uid EXCEPT ![Acceptor] = NoUser]
  /\ Goto(Acceptor, "accept")
  /\ UNCHANGED << state, disconnectRequested, isSending, socket, refCount,
                  queues, io, lobbyAndPool, onRecv, this, frame, batch, client,
                  netVars >>

-----------------------------------------------------------------------------
(* The clients. *)

Say(c) ==
  /\ peer[c] = "open"
  /\ handle[c] = "open"
  /\ sent[c] < MaxMsgs
  /\ sent' = [sent EXCEPT ![c] = @ + 1]
  /\ UNCHANGED << sessionVars, lobbyAndPool, threadVars, peer, handle,
                  consumed, echoed >>

Close(c) ==
  /\ peer[c] = "open"
  /\ handle[c] = "open"
  /\ peer' = [peer EXCEPT ![c] = "closed"]
  /\ UNCHANGED << sessionVars, lobbyAndPool, threadVars, handle, sent,
                  consumed, echoed >>

-----------------------------------------------------------------------------

Completion(w) ==
  \E s \in Sessions : \/ RecvCompletes(w, s)
                      \/ RecvPiece(w, s)
                      \/ RecvFails(w, s)
                      \/ SendCompletes(w, s)
                      \/ SendFails(w, s)

Handling(w) ==
  \/ OnMessage(w) \/ ChatUnicast(w) \/ GetSessionPointer(w) \/ SendPacket(w)
  \/ OnRecvEnd(w) \/ PostSend(w) \/ WSASend(w) \/ OnSend(w) \/ SendDone(w)

Shared(t) == PostRecv(t) \/ WSARecv(t) \/ DropRef(t) \/ FreeId(t)

Accepting == InitSession \/ OnConnect \/ SetUserId

Next ==
  \/ \E w \in Workers : Completion(w) \/ Handling(w)
  \/ \E t \in Threads : Shared(t)
  \/ Accepting
  \/ \E c \in Conns : Accept(c) \/ Say(c) \/ Close(c)

Spec == ServerInit /\ [][Next]_vars

-----------------------------------------------------------------------------
(* Properties. *)

Labels == {"wait", "onMessage", "chatUnicast", "getSession", "sendPacket",
           "postSend", "WSASend", "onSend", "sendDone", "postRecv", "WSARecv",
           "dropRef", "freeId", "accept", "init", "onConnect", "setUserId"}

SessionsTypeOK ==
  /\ state \in [Sessions -> {"ACTIVE", "INACTIVE"}]
  /\ refCount \in [Sessions -> Int]
  /\ disconnectRequested \in [Sessions -> BOOLEAN]
  /\ isSending \in [Sessions -> BOOLEAN]
  /\ socket \in [Sessions -> Conns \cup {NoConn}]
  /\ userId \in [Sessions -> Nat]
  /\ recvQ \in [Sessions -> Seq(Frames)]
  /\ sendQ \in [Sessions -> Seq(Frames)]
  /\ recvs \in [Sessions -> Nat]
  /\ sends \in [Sessions -> Seq(Seq(Frames))]

RegistryTypeOK ==
  /\ idStack \in Seq(Sessions)
  /\ DOMAIN users \subseteq Nat \ {NoUser}
  /\ users \in [DOMAIN users -> Sessions]
  /\ userIdCount \in Nat \ {NoUser}

ThreadsTypeOK ==
  /\ pc \in [Threads -> Labels]
  /\ onRecv \in [Workers -> Sessions \cup {NoSession}]
  /\ this \in [Threads -> Sessions \cup {NoSession}]
  /\ uid \in [Threads -> Nat]
  /\ frame \in [Workers -> Frames \cup {NoFrame}]
  /\ batch \in [Workers -> Seq(Frames)]
  /\ client \in Conns \cup {NoConn}

NetTypeOK ==
  /\ peer \in [Conns -> {"idle", "open", "closed"}]
  /\ handle \in [Conns -> {"none", "open", "closed"}]
  /\ sent \in [Conns -> 0..MaxMsgs]
  /\ consumed \in [Conns -> 0..MaxMsgs]
  /\ echoed \in [Conns -> Seq(Frames)]

(* Every variable has the type its declaration in the code gives it.       *)
TypeOK == SessionsTypeOK /\ RegistryTypeOK /\ ThreadsTypeOK /\ NetTypeOK

(* Where a thread is agrees with what it holds: only the accept thread     *)
(* runs OnAccept, a method runs on a session, a frame is handled in OnRecv *)
(* only, and I/O is posted on, and outstanding for, sockets only.          *)
AcceptLabels == {"accept", "init", "postRecv", "WSARecv", "dropRef", "freeId",
                 "onConnect", "setUserId"}
WorkerLabels == Labels \ {"accept", "init", "onConnect", "setUserId"}
ChatLabels == {"chatUnicast", "getSession", "sendPacket"}
AcceptorControl ==
  /\ pc[Acceptor] \in AcceptLabels
  /\ pc[Acceptor] = "init" => client \in Conns
WorkerControl ==
  \A w \in Workers :
    /\ pc[w] \in WorkerLabels
    /\ pc[w] \in {"onMessage"} \cup ChatLabels => onRecv[w] \in Sessions
    /\ pc[w] \in {"wait", "onSend", "sendDone", "postRecv", "WSARecv"}
         => onRecv[w] = NoSession
    /\ pc[w] \in ChatLabels => frame[w] \in Frames
ThisKnown ==
  \A t \in Threads :
    /\ pc[t] \notin {"wait", "onMessage", "chatUnicast", "accept"}
         => this[t] \in Sessions
    /\ pc[t] \in {"WSARecv", "WSASend"} => socket[this[t]] \in Conns
SocketKnown ==
  \A s \in Sessions :
    IsActive(s) \/ recvs[s] > 0 \/ sends[s] # << >> => socket[s] \in Conns

ControlOK == AcceptorControl /\ WorkerControl /\ ThisKnown /\ SocketKnown

(* The threads that hold a reference to session s: those in OnRecv hold    *)
(* that of the completed recv; those that post an operation, or complete a *)
(* send, or give a reference up, hold one for it.                          *)
Receivers(s) == { w \in Workers : onRecv[w] = s }
HoldsRef(t, s) ==
  this[t] = s /\ pc[t] \in {"WSARecv", "WSASend", "dropRef", "onSend"}
Holders(s) == { t \in Threads : HoldsRef(t, s) }

(* refCount counts exactly the overlapped operations outstanding and the   *)
(* threads inside the session that hold a reference (Session.cpp:63, 95,    *)
(* 216, 227): no increment is lost and no decrement happens twice.         *)
RefCountExact ==
  \A s \in Sessions :
    refCount[s] = recvs[s] + Len(sends[s])
                  + Cardinality(Receivers(s)) + Cardinality(Holders(s))

(* Session.cpp:66 relies on it: between the unlock and WSARecv or WSASend  *)
(* the session is not released; and none is while an operation is          *)
(* outstanding or OnRecv handles its frames.                               *)
InUseIsActive ==
  \A s \in Sessions :
    (recvs[s] > 0 \/ sends[s] # << >> \/ Receivers(s) # {} \/ Holders(s) # {})
      => IsActive(s)

(* The threads that carry the id of slot s: taken from the stack and not   *)
(* yet initialised, or released and not yet pushed back.                   *)
Carriers(s) ==
  { t \in Threads : this[t] = s /\ pc[t] \in {"init", "freeId"} }

(* A slot id is in exactly one place: on the stack once, carried by one    *)
(* thread, or in use.  So no slot serves two clients, none is pushed twice *)
(* and none is lost, whatever the order of releases and accepts.           *)
IdsConserved ==
  /\ IsInjective(idStack)
  /\ \A s \in Sessions :
       \/ s \in Range(idStack) /\ Carriers(s) = {} /\ ~IsActive(s)
       \/ s \notin Range(idStack) /\ Carriers(s) = {} /\ IsActive(s)
       \/ /\ s \notin Range(idStack) /\ ~IsActive(s)
          /\ \E t \in Threads : Carriers(s) = {t}

(* An active session that nothing references is about to post its recv: no *)
(* interleaving of completions leaves a client connected whose session no  *)
(* completion will ever reach.                                             *)
NotForgotten ==
  \A s \in Sessions :
    (IsActive(s) /\ refCount[s] = 0) =>
      \E t \in Threads : this[t] = s /\ pc[t] = "postRecv"

(* The lobby routes a user to the session that bears the user's id: a      *)
(* slot that is reused never answers to the user of its previous client.   *)
RoutedToOwnSession ==
  \A s \in Sessions :
    (IsActive(s) /\ userId[s] # NoUser) =>
      userId[s] \in DOMAIN users /\ users[userId[s]] = s

(* A worker sends a frame through the session it has received it from,     *)
(* although it finds that session by a user id it has read before it took  *)
(* the lobby's lock (Lobby.cpp:24), and while other threads accept         *)
(* and release clients.                                                    *)
AnswersOwn ==
  \A w \in Workers :
    \/ pc[w] \in {"getSession", "sendPacket"}
    \/ pc[w] = "postSend" /\ onRecv[w] # NoSession
    => this[w] = onRecv[w]

(* What a client gets back are frames it sent, each once and in order, over *)
(* all batching, queueing and reuse of slots.                              *)
EchoInOrder ==
  \A c \in Conns : \A i \in 1..Len(echoed[c]) :
    /\ echoed[c][i][1] = c
    /\ \A j \in 1..(i - 1) : echoed[c][j][2] < echoed[c][i][2]

(* The frames of a send in flight stay at the front of sendQ until its     *)
(* completion is handled: the kernel reads the ring buffer's own memory.   *)
InFlightIsKept ==
  \A s \in Sessions : \A i \in 1..Len(sends[s]) :
    /\ i = 1
    /\ IsPrefix(sends[s][i], sendQ[s])

(* The threads in the recv chain of s: from the completion of a recv to    *)
(* the next WSARecv.                                                       *)
RecvChain(s) ==
  Receivers(s) \cup
  { t \in Threads : this[t] = s /\ pc[t] \in {"postRecv", "WSARecv"} }

(* Only one thread at a time uses recvQ_ and overlappedRecv_ of a session, *)
(* and only while no recv is outstanding: PostRecv reads recvQ_ and passes *)
(* overlappedRecv_ to the kernel without the lock (Session.cpp:66-71).     *)
OneRecv ==
  \A s \in Sessions :
    IsActive(s) => recvs[s] + Cardinality(RecvChain(s)) <= 1

(* A send that is posted carries frames.  One without would complete with  *)
(* zero bytes, which WorkerThread takes for the end of the connection.     *)
NoEmptySend ==
  \A w \in Workers : pc[w] = "WSASend" => batch[w] # << >>

(* isSending_ says that a send of this client is on its way: outstanding,  *)
(* or being posted or completed by a worker.  A client for which it were   *)
(* set otherwise would never be sent anything.                             *)
SendingIsReal ==
  \A s \in Sessions :
    (IsActive(s) /\ isSending[s] /\ peer[socket[s]] = "open") =>
      \/ sends[s] # << >>
      \/ \E w \in Workers :
           this[w] = s /\ pc[w] \in {"WSASend", "onSend", "sendDone", "dropRef"}

(* Every user in the lobby is that of an active session, or of the one     *)
(* OnAccept is about to tell its id.                                       *)
UsersAreConnected ==
  \A u \in DOMAIN users :
    \/ IsActive(users[u]) /\ userId[users[u]] = u
    \/ /\ pc[Acceptor] = "setUserId" /\ uid[Acceptor] = u
       /\ IsActive(users[u])

-----------------------------------------------------------------------------
(* The service the threads implement together (refinement mapping).        *)

ConnOf(c) ==
  IF handle[c] = "none" THEN "idle"
  ELSE IF handle[c] = "closed" THEN "released"
  ELSE IF \E s \in Sessions : IsActive(s) /\ socket[s] = c THEN "served"
  ELSE "accepted"

Service ==
  INSTANCE EchoService WITH
    Capacity <- Cardinality(Sessions),
    conn <- [c \in Conns |-> ConnOf(c)],
    answers <- [c \in Conns |->
                  [i \in 1..Len(echoed[c]) |-> echoed[c][i][2]]]

(* The server implements EchoService: whatever its threads do, each client *)
(* sees an accept, one session, its own frames in order, one release.      *)
ImplementsService == Service!ServiceSpec

-----------------------------------------------------------------------------
(* Fairness.  A thread that runs keeps running.  The completion port is a  *)
(* FIFO queue: an operation that has completed is taken by a worker        *)
(* sooner or later, although the worker is busy in between (strong         *)
(* fairness).  A recv completes when there is something to receive or the  *)
(* client is gone, and not for ever with pieces: a frame has few bytes.  A *)
(* send completes when the client is gone, and, if the clients read        *)
(* (ClientsRead), because of that.                                         *)
ClientGone(s) == socket[s] # NoConn /\ peer[socket[s]] = "closed"

Fairness ==
  /\ \A w \in Workers : WF_vars(Handling(w))
  /\ \A t \in Threads : WF_vars(Shared(t))
  /\ WF_vars(Accepting)
  /\ \A s \in Sessions :
       /\ SF_vars(\E w \in Workers : RecvCompletes(w, s) \/ RecvFails(w, s))
       /\ SF_vars(\E w \in Workers : /\ SendCompletes(w, s) \/ SendFails(w, s)
                                     /\ ClientGone(s))

ClientsRead ==
  \A s \in Sessions :
    SF_vars(\E w \in Workers : SendCompletes(w, s) \/ SendFails(w, s))

FairSpec == Spec /\ Fairness

(* When a client with a session closes, its session is released and its    *)
(* handle closed, whatever is queued, in flight or being handled then.     *)
PeerCloseReleases ==
  \A c \in Conns :
    (peer[c] = "closed" /\ \E s \in Sessions : IsActive(s) /\ socket[s] = c)
      ~> (handle[c] = "closed")

(* With clients that read, what is queued is sent: no wake-up is lost      *)
(* between the isSending_ test of PostSend and the GetUseSize test of      *)
(* OnSend, unless the client goes or its disconnection is requested.       *)
QueuedIsSent ==
  ClientsRead =>
    \A s \in Sessions :
      (IsActive(s) /\ sendQ[s] # << >>)
        ~> \/ sendQ[s] = << >> \/ ~IsActive(s)
           \/ disconnectRequested[s] \/ ClientGone(s)

=============================================================================
