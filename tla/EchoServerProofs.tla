-------------------------- MODULE EchoServerProofs --------------------------
(***************************************************************************)
(* EchoServer, for every number of workers, slots, clients and frames: the *)
(* types; the reference counts: every thread that reads a field of its     *)
(* session has one, and refCount counts what it is meant to count, so a    *)
(* session is not released while the kernel or a thread uses it; and what  *)
(* happens to the slots: a slot id is in one place only, the lobby routes  *)
(* a user to its own session, and no client is left in a session that no   *)
(* completion will reach.                                                  *)
(*                                                                         *)
(* TypeOK alone is not inductive: what a thread holds where the code uses  *)
(* it is ControlOK.  Nor is RefCountExact: a decrement is legal because    *)
(* the thread that makes it is counted, and then the session is active     *)
(* because a released one has count zero (ReleasedUnreferenced).  The      *)
(* slots rest on the counts: what a thread releases was active, because    *)
(* the thread was counted (CountedIsActive).                               *)
(***************************************************************************)
EXTENDS EchoServer, SequenceTheorems, FiniteSetTheorems, TLAPS

-----------------------------------------------------------------------------
(* Types. *)

TypeInv == TypeOK /\ ControlOK

(* Removing frames from the front of a queue leaves a queue of frames.     *)
LEMMA MoveFrontType ==
  ASSUME NEW q \in Seq(Frames), NEW n \in Nat
  PROVE  MoveFront(q, n) \in Seq(Frames)
PROOF
  <1>1. CASE n > Len(q)
    BY <1>1 DEF MoveFront
  <1>2. CASE n <= Len(q)
    <2>1. \A i \in (n + 1)..Len(q) : q[i] \in Frames
      BY <1>2, ElementOfSeq
    <2>. QED
      BY <1>2, <2>1, SubSeqProperties DEF MoveFront
  <1>. QED
    BY <1>1, <1>2

(* The server starts in a state of the right types.                        *)
LEMMA TypeInit == ServerInit => TypeInv
PROOF
  <1>. SUFFICES ASSUME ServerInit PROVE TypeInv
    OBVIOUS
  <1>. USE ThreadsAssumption, SessionsAssumption, ConnsAssumption,
           SizesAssumption
  <1>1. SessionsTypeOK
    BY DEF ServerInit, SessionInit, SessionsTypeOK
  <1>2. RegistryTypeOK
    BY SMTT(60), FS_CardinalityType DEF ServerInit, InitSessionIdQueue, LobbyInit, RegistryTypeOK, NoUser
  <1>3. ThreadsTypeOK
    BY DEF ServerInit, ThreadsTypeOK, Labels, Threads, NoUser
  <1>4. NetTypeOK
    BY DEF ServerInit, NetTypeOK
  <1>5. ControlOK
    BY DEF ServerInit, SessionInit, ControlOK, AcceptorControl, WorkerControl,
           ThisKnown, SocketKnown, Threads, AcceptLabels, WorkerLabels,
           ChatLabels, Labels, IsActive
  <1>. QED
    BY <1>1, <1>2, <1>3, <1>4, <1>5 DEF TypeInv, TypeOK

(* Each step of the server keeps the types and the control invariant.      *)
LEMMA TypeStep == TypeInv /\ [Next]_vars => TypeInv'
PROOF
  <1>. SUFFICES ASSUME TypeInv, [Next]_vars PROVE TypeInv'
    OBVIOUS
  <1>. USE ThreadsAssumption, SessionsAssumption, ConnsAssumption,
           SizesAssumption
       DEF Threads, NoUser, flags, queues, io, sessionVars, lobbyVars,
           lobbyAndPool, netVars, threadVars
  <1>a. /\ SessionsTypeOK /\ RegistryTypeOK /\ ThreadsTypeOK /\ NetTypeOK
        /\ AcceptorControl /\ WorkerControl /\ ThisKnown /\ SocketKnown
    BY DEF TypeInv, TypeOK, ControlOK
  <1>1. ASSUME NEW w \in Workers, NEW s \in Sessions, RecvCompletes(w, s)
         PROVE  TypeInv'
    <2>a1. socket[s] \in Conns
      BY <1>a, <1>1 DEF SocketKnown, RecvCompletes
    <2>a2. recvs[s] \in Nat /\ recvs[s] - 1 \in Nat
      BY <1>a, <1>1 DEF SessionsTypeOK, RecvCompletes
    <2>a3. PICK k \in 1..(sent[socket[s]] - consumed[socket[s]]) :
          /\ recvQ' = [recvQ EXCEPT ![s] =
                @ \o [i \in 1..k |-> << socket[s], consumed[socket[s]] + i >>]]
          /\ consumed' = [consumed EXCEPT ![socket[s]] = @ + k]
      BY <1>1 DEF RecvCompletes
    <2>a4. /\ sent[socket[s]] \in 0..MaxMsgs /\ consumed[socket[s]] \in 0..MaxMsgs
          /\ k \in Nat /\ consumed[socket[s]] + k \in 0..MaxMsgs
      BY <1>a, <2>a1, <2>a3 DEF NetTypeOK
    <2>a5. \A i \in 1..k : << socket[s], consumed[socket[s]] + i >> \in Frames
      BY <2>a1, <2>a4 DEF Frames
    <2>a6. [i \in 1..k |-> << socket[s], consumed[socket[s]] + i >>] \in Seq(Frames)
      BY <2>a4, <2>a5
    <2>a7. recvQ' \in [Sessions -> Seq(Frames)]
      BY <1>a, <2>a3, <2>a6, ConcatProperties DEF SessionsTypeOK
    <2>1. SessionsTypeOK'
      BY <1>a, <1>1, <2>a1, <2>a2, <2>a3, <2>a4, <2>a5, <2>a6, <2>a7 DEF
         SessionsTypeOK, RecvCompletes, Goto
    <2>2. RegistryTypeOK'
      BY <1>a, <1>1, <2>a1, <2>a2, <2>a3, <2>a4, <2>a5, <2>a6, <2>a7 DEF
         RegistryTypeOK, RecvCompletes, Goto
    <2>3. ThreadsTypeOK'
      BY <1>a, <1>1, <2>a1, <2>a2, <2>a3, <2>a4, <2>a5, <2>a6, <2>a7 DEF
         ThreadsTypeOK, Labels, RecvCompletes, Goto
    <2>4. NetTypeOK'
      BY <1>a, <1>1, <2>a1, <2>a2, <2>a3, <2>a4, <2>a5, <2>a6, <2>a7 DEF
         NetTypeOK, RecvCompletes, Goto
    <2>5. AcceptorControl'
      BY <1>a, <1>1, <2>a1, <2>a2, <2>a3, <2>a4, <2>a5, <2>a6, <2>a7 DEF
         AcceptorControl, AcceptLabels, ThreadsTypeOK, RecvCompletes, Goto
    <2>6. WorkerControl'
      BY <1>a, <1>1, <2>a1, <2>a2, <2>a3, <2>a4, <2>a5, <2>a6, <2>a7 DEF
         WorkerControl, WorkerLabels, Labels, ChatLabels, ThreadsTypeOK,
         RecvCompletes, Goto
    <2>7. ThisKnown'
      BY ZenonT(60), <1>a, <1>1, <2>a1, <2>a2, <2>a3, <2>a4, <2>a5, <2>a6, <2>a7 DEF
         ThisKnown, ThreadsTypeOK, SessionsTypeOK, SocketKnown, IsActive,
         MaySend, RecvCompletes, Goto
    <2>8. SocketKnown'
      BY <1>a, <1>1, <2>a1, <2>a2, <2>a3, <2>a4, <2>a5, <2>a6, <2>a7 DEF
         SocketKnown, ThisKnown, IsActive, SessionsTypeOK, RecvCompletes, Goto
    <2>. QED
      BY <2>1, <2>2, <2>3, <2>4, <2>5, <2>6, <2>7, <2>8
      DEF TypeInv, TypeOK, ControlOK
  <1>1p. ASSUME NEW w \in Workers, NEW s \in Sessions, RecvPiece(w, s)
         PROVE  TypeInv'
    <2>a1. recvs[s] \in Nat /\ recvs[s] - 1 \in Nat
      BY <1>a, <1>1p DEF SessionsTypeOK, RecvPiece
    <2>1. SessionsTypeOK'
      BY <1>a, <1>1p, <2>a1 DEF SessionsTypeOK, RecvPiece, Goto
    <2>2. RegistryTypeOK'
      BY <1>a, <1>1p, <2>a1 DEF RegistryTypeOK, RecvPiece, Goto
    <2>3. ThreadsTypeOK'
      BY <1>a, <1>1p, <2>a1 DEF ThreadsTypeOK, Labels, RecvPiece, Goto
    <2>4. NetTypeOK'
      BY <1>a, <1>1p, <2>a1 DEF NetTypeOK, RecvPiece, Goto
    <2>5. AcceptorControl'
      BY <1>a, <1>1p, <2>a1 DEF AcceptorControl, AcceptLabels,
         ThreadsTypeOK, RecvPiece, Goto
    <2>6. WorkerControl'
      BY <1>a, <1>1p, <2>a1 DEF WorkerControl, WorkerLabels, Labels,
         ChatLabels, ThreadsTypeOK, RecvPiece, Goto
    <2>7. ThisKnown'
      BY ZenonT(60), <1>a, <1>1p, <2>a1 DEF ThisKnown, ThreadsTypeOK, SessionsTypeOK,
         SocketKnown, IsActive, MaySend, RecvPiece, Goto
    <2>8. SocketKnown'
      BY <1>a, <1>1p, <2>a1 DEF SocketKnown, ThisKnown, IsActive,
         SessionsTypeOK, RecvPiece, Goto
    <2>. QED
      BY <2>1, <2>2, <2>3, <2>4, <2>5, <2>6, <2>7, <2>8
      DEF TypeInv, TypeOK, ControlOK
  <1>2. ASSUME NEW w \in Workers, NEW s \in Sessions, RecvFails(w, s)
         PROVE  TypeInv'
    <2>a1. recvs[s] \in Nat /\ recvs[s] - 1 \in Nat
      BY <1>a, <1>2 DEF SessionsTypeOK, RecvFails
    <2>1. SessionsTypeOK'
      BY <1>a, <1>2, <2>a1 DEF SessionsTypeOK, RecvFails, Call, Goto
    <2>2. RegistryTypeOK'
      BY <1>a, <1>2, <2>a1 DEF RegistryTypeOK, RecvFails, Call, Goto
    <2>3. ThreadsTypeOK'
      BY <1>a, <1>2, <2>a1 DEF ThreadsTypeOK, Labels, RecvFails, Call, Goto
    <2>4. NetTypeOK'
      BY <1>a, <1>2, <2>a1 DEF NetTypeOK, RecvFails, Call, Goto
    <2>5. AcceptorControl'
      BY <1>a, <1>2, <2>a1 DEF AcceptorControl, AcceptLabels,
         ThreadsTypeOK, RecvFails, Call, Goto
    <2>6. WorkerControl'
      BY <1>a, <1>2, <2>a1 DEF WorkerControl, WorkerLabels, Labels,
         ChatLabels, ThreadsTypeOK, RecvFails, Call, Goto
    <2>7. ThisKnown'
      BY ZenonT(60), <1>a, <1>2, <2>a1 DEF ThisKnown, ThreadsTypeOK, SessionsTypeOK,
         SocketKnown, IsActive, MaySend, RecvFails, Call, Goto
    <2>8. SocketKnown'
      BY <1>a, <1>2, <2>a1 DEF SocketKnown, ThisKnown, IsActive,
         SessionsTypeOK, RecvFails, Call, Goto
    <2>. QED
      BY <2>1, <2>2, <2>3, <2>4, <2>5, <2>6, <2>7, <2>8
      DEF TypeInv, TypeOK, ControlOK
  <1>3. ASSUME NEW w \in Workers, NEW s \in Sessions, SendCompletes(w, s)
         PROVE  TypeInv'
    <2>a1. /\ Head(sends[s]) \in Seq(Frames)
          /\ Tail(sends[s]) \in Seq(Seq(Frames))
      BY <1>a, <1>3, HeadTailProperties DEF SessionsTypeOK, SendCompletes
    <2>a2. echoed' \in [Conns -> Seq(Frames)]
      BY <1>a, <1>3, <2>a1, ConcatProperties DEF NetTypeOK, SendCompletes
    <2>1. SessionsTypeOK'
      BY <1>a, <1>3, <2>a1, <2>a2 DEF SessionsTypeOK, SendCompletes, Call,
         Goto
    <2>2. RegistryTypeOK'
      BY <1>a, <1>3, <2>a1, <2>a2 DEF RegistryTypeOK, SendCompletes, Call,
         Goto
    <2>3. ThreadsTypeOK'
      BY <1>a, <1>3, <2>a1, <2>a2 DEF ThreadsTypeOK, Labels, SendCompletes,
         Call, Goto
    <2>4. NetTypeOK'
      BY <1>a, <1>3, <2>a1, <2>a2 DEF NetTypeOK, SendCompletes, Call, Goto
    <2>5. AcceptorControl'
      BY <1>a, <1>3, <2>a1, <2>a2 DEF AcceptorControl, AcceptLabels,
         ThreadsTypeOK, SendCompletes, Call, Goto
    <2>6. WorkerControl'
      BY <1>a, <1>3, <2>a1, <2>a2 DEF WorkerControl, WorkerLabels, Labels,
         ChatLabels, ThreadsTypeOK, SendCompletes, Call, Goto
    <2>7. ThisKnown'
      BY ZenonT(60), <1>a, <1>3, <2>a1, <2>a2 DEF ThisKnown, ThreadsTypeOK,
         SessionsTypeOK, SocketKnown, IsActive, MaySend, SendCompletes, Call,
         Goto
    <2>8. SocketKnown'
      BY <1>a, <1>3, <2>a1, <2>a2 DEF SocketKnown, ThisKnown, IsActive,
         SessionsTypeOK, SendCompletes, Call, Goto
    <2>. QED
      BY <2>1, <2>2, <2>3, <2>4, <2>5, <2>6, <2>7, <2>8
      DEF TypeInv, TypeOK, ControlOK
  <1>4. ASSUME NEW w \in Workers, NEW s \in Sessions, SendFails(w, s)
         PROVE  TypeInv'
    <2>a1. Tail(sends[s]) \in Seq(Seq(Frames))
      BY <1>a, <1>4, HeadTailProperties DEF SessionsTypeOK, SendFails
    <2>1. SessionsTypeOK'
      BY <1>a, <1>4, <2>a1 DEF SessionsTypeOK, SendFails, Call, Goto
    <2>2. RegistryTypeOK'
      BY <1>a, <1>4, <2>a1 DEF RegistryTypeOK, SendFails, Call, Goto
    <2>3. ThreadsTypeOK'
      BY <1>a, <1>4, <2>a1 DEF ThreadsTypeOK, Labels, SendFails, Call, Goto
    <2>4. NetTypeOK'
      BY <1>a, <1>4, <2>a1 DEF NetTypeOK, SendFails, Call, Goto
    <2>5. AcceptorControl'
      BY <1>a, <1>4, <2>a1 DEF AcceptorControl, AcceptLabels,
         ThreadsTypeOK, SendFails, Call, Goto
    <2>6. WorkerControl'
      BY <1>a, <1>4, <2>a1 DEF WorkerControl, WorkerLabels, Labels,
         ChatLabels, ThreadsTypeOK, SendFails, Call, Goto
    <2>7. ThisKnown'
      BY ZenonT(60), <1>a, <1>4, <2>a1 DEF ThisKnown, ThreadsTypeOK, SessionsTypeOK,
         SocketKnown, IsActive, MaySend, SendFails, Call, Goto
    <2>8. SocketKnown'
      BY <1>a, <1>4, <2>a1 DEF SocketKnown, ThisKnown, IsActive,
         SessionsTypeOK, SendFails, Call, Goto
    <2>. QED
      BY <2>1, <2>2, <2>3, <2>4, <2>5, <2>6, <2>7, <2>8
      DEF TypeInv, TypeOK, ControlOK
  <1>5. ASSUME NEW w \in Workers, OnMessage(w)
         PROVE  TypeInv'
    <2>a1. onRecv[w] \in Sessions
      BY <1>a, <1>5 DEF WorkerControl, ChatLabels, OnMessage
    <2>a2. Head(recvQ[onRecv[w]]) \in Frames /\ Tail(recvQ[onRecv[w]]) \in Seq(Frames)
      BY <1>a, <1>5, <2>a1, HeadTailProperties DEF SessionsTypeOK,
         OnMessage
    <2>a3. userId[onRecv[w]] \in Nat
      BY <1>a, <2>a1 DEF SessionsTypeOK
    <2>1. SessionsTypeOK'
      BY <1>a, <1>5, <2>a1, <2>a2, <2>a3 DEF SessionsTypeOK, OnMessage,
         Goto
    <2>2. RegistryTypeOK'
      BY <1>a, <1>5, <2>a1, <2>a2, <2>a3 DEF RegistryTypeOK, OnMessage,
         Goto
    <2>3. ThreadsTypeOK'
      <3>1. pc' \in [Threads -> Labels]
        BY ZenonT(60), <1>a, <1>5 DEF ThreadsTypeOK, Labels, OnMessage, Goto
      <3>2. uid' \in [Threads -> Nat]
        BY <1>a, <1>5, <2>a3 DEF ThreadsTypeOK, OnMessage
      <3>3. frame' \in [Workers -> Frames \cup {NoFrame}]
        BY <1>a, <1>5, <2>a2 DEF ThreadsTypeOK, OnMessage
      <3>. QED
        BY <1>a, <1>5, <3>1, <3>2, <3>3 DEF ThreadsTypeOK, OnMessage
    <2>4. NetTypeOK'
      BY <1>a, <1>5, <2>a1, <2>a2, <2>a3 DEF NetTypeOK, OnMessage, Goto
    <2>5. AcceptorControl'
      BY <1>a, <1>5, <2>a1, <2>a2, <2>a3 DEF AcceptorControl, AcceptLabels,
         ThreadsTypeOK, OnMessage, Goto
    <2>6. WorkerControl'
      BY <1>a, <1>5, <2>a1, <2>a2, <2>a3 DEF WorkerControl, WorkerLabels,
         Labels, ChatLabels, ThreadsTypeOK, OnMessage, Goto
    <2>7. ThisKnown'
      BY ZenonT(60), <1>a, <1>5, <2>a1, <2>a2, <2>a3 DEF ThisKnown, ThreadsTypeOK,
         SessionsTypeOK, SocketKnown, IsActive, MaySend, OnMessage, Goto
    <2>8. SocketKnown'
      BY <1>a, <1>5, <2>a1, <2>a2, <2>a3 DEF SocketKnown, ThisKnown,
         IsActive, SessionsTypeOK, OnMessage, Goto
    <2>. QED
      BY <2>1, <2>2, <2>3, <2>4, <2>5, <2>6, <2>7, <2>8
      DEF TypeInv, TypeOK, ControlOK
  <1>6. ASSUME NEW w \in Workers, ChatUnicast(w)
         PROVE  TypeInv'
    <2>a1. onRecv[w] \in Sessions
      BY <1>a, <1>6 DEF WorkerControl, ChatLabels, ChatUnicast
    <2>a2. uid[w] \in DOMAIN users => users[uid[w]] \in Sessions
      BY <1>a DEF RegistryTypeOK
    <2>1. SessionsTypeOK'
      BY <1>a, <1>6, <2>a1, <2>a2 DEF SessionsTypeOK, ChatUnicast, Call,
         Goto
    <2>2. RegistryTypeOK'
      BY <1>a, <1>6, <2>a1, <2>a2 DEF RegistryTypeOK, ChatUnicast, Call,
         Goto
    <2>3. ThreadsTypeOK'
      BY ZenonT(60), <1>a, <1>6, <2>a1, <2>a2 DEF ThreadsTypeOK, Labels, ChatUnicast,
         Call, Goto
    <2>4. NetTypeOK'
      BY <1>a, <1>6, <2>a1, <2>a2 DEF NetTypeOK, ChatUnicast, Call, Goto
    <2>5. AcceptorControl'
      BY <1>a, <1>6, <2>a1, <2>a2 DEF AcceptorControl, AcceptLabels,
         ThreadsTypeOK, ChatUnicast, Call, Goto
    <2>6. WorkerControl'
      BY <1>a, <1>6, <2>a1, <2>a2 DEF WorkerControl, WorkerLabels, Labels,
         ChatLabels, ThreadsTypeOK, ChatUnicast, Call, Goto
    <2>7. ThisKnown'
      BY ZenonT(60), <1>a, <1>6, <2>a1, <2>a2 DEF ThisKnown, ThreadsTypeOK,
         SessionsTypeOK, SocketKnown, IsActive, MaySend, ChatUnicast, Call,
         Goto
    <2>8. SocketKnown'
      BY <1>a, <1>6, <2>a1, <2>a2 DEF SocketKnown, ThisKnown, IsActive,
         SessionsTypeOK, ChatUnicast, Call, Goto
    <2>. QED
      BY <2>1, <2>2, <2>3, <2>4, <2>5, <2>6, <2>7, <2>8
      DEF TypeInv, TypeOK, ControlOK
  <1>7. ASSUME NEW w \in Workers, GetSessionPointer(w)
         PROVE  TypeInv'
    <2>a1. onRecv[w] \in Sessions
      BY <1>a, <1>7 DEF WorkerControl, ChatLabels, GetSessionPointer
    <2>a2. this[w] \in Sessions
      BY <1>a, <1>7 DEF ThisKnown, GetSessionPointer
    <2>1. SessionsTypeOK'
      BY <1>a, <1>7, <2>a1, <2>a2 DEF SessionsTypeOK, GetSessionPointer,
         Goto
    <2>2. RegistryTypeOK'
      BY <1>a, <1>7, <2>a1, <2>a2 DEF RegistryTypeOK, GetSessionPointer,
         Goto
    <2>3. ThreadsTypeOK'
      BY <1>a, <1>7, <2>a1, <2>a2 DEF ThreadsTypeOK, Labels,
         GetSessionPointer, Goto
    <2>4. NetTypeOK'
      BY <1>a, <1>7, <2>a1, <2>a2 DEF NetTypeOK, GetSessionPointer, Goto
    <2>5. AcceptorControl'
      BY <1>a, <1>7, <2>a1, <2>a2 DEF AcceptorControl, AcceptLabels,
         ThreadsTypeOK, GetSessionPointer, Goto
    <2>6. WorkerControl'
      BY <1>a, <1>7, <2>a1, <2>a2 DEF WorkerControl, WorkerLabels, Labels,
         ChatLabels, ThreadsTypeOK, GetSessionPointer, Goto
    <2>7. ThisKnown'
      BY ZenonT(60), <1>a, <1>7, <2>a1, <2>a2 DEF ThisKnown, ThreadsTypeOK,
         SessionsTypeOK, SocketKnown, IsActive, MaySend, GetSessionPointer,
         Goto
    <2>8. SocketKnown'
      BY <1>a, <1>7, <2>a1, <2>a2 DEF SocketKnown, ThisKnown, IsActive,
         SessionsTypeOK, GetSessionPointer, Goto
    <2>. QED
      BY <2>1, <2>2, <2>3, <2>4, <2>5, <2>6, <2>7, <2>8
      DEF TypeInv, TypeOK, ControlOK
  <1>8. ASSUME NEW w \in Workers, SendPacket(w)
         PROVE  TypeInv'
    <2>a1. onRecv[w] \in Sessions
      BY <1>a, <1>8 DEF WorkerControl, ChatLabels, SendPacket
    <2>a2. this[w] \in Sessions
      BY <1>a, <1>8 DEF ThisKnown, SendPacket
    <2>a3. frame[w] \in Frames
      BY <1>a, <1>8 DEF WorkerControl, ChatLabels, SendPacket
    <2>a4. Append(sendQ[this[w]], frame[w]) \in Seq(Frames)
      BY <1>a, <2>a2, <2>a3 DEF SessionsTypeOK
    <2>1. SessionsTypeOK'
      <3>1. disconnectRequested' \in [Sessions -> BOOLEAN]
        BY <1>a, <1>8, <2>a1, <2>a2, <2>a3, <2>a4 DEF SessionsTypeOK, SendPacket, Goto, Enqueue, RequestDisconnect
      <3>2. sendQ' \in [Sessions -> Seq(Frames)]
        BY ZenonT(60), <1>a, <1>8, <2>a1, <2>a2, <2>a3, <2>a4 DEF SessionsTypeOK, SendPacket, Goto, Enqueue, RequestDisconnect
      <3>. QED
        BY <1>a, <1>8, <3>1, <3>2
        DEF SessionsTypeOK, SendPacket, Goto, Enqueue, RequestDisconnect
    <2>2. RegistryTypeOK'
      BY <1>a, <1>8, <2>a1, <2>a2, <2>a3, <2>a4 DEF RegistryTypeOK,
         SendPacket, Goto, Enqueue, RequestDisconnect
    <2>3. ThreadsTypeOK'
      BY ZenonT(60), <1>a, <1>8, <2>a1, <2>a2, <2>a3, <2>a4 DEF ThreadsTypeOK, Labels,
         SendPacket, Goto, Enqueue, RequestDisconnect
    <2>4. NetTypeOK'
      BY <1>a, <1>8, <2>a1, <2>a2, <2>a3, <2>a4 DEF NetTypeOK, SendPacket,
         Goto, Enqueue, RequestDisconnect
    <2>5. AcceptorControl'
      BY <1>a, <1>8, <2>a1, <2>a2, <2>a3, <2>a4 DEF AcceptorControl,
         AcceptLabels, ThreadsTypeOK, SendPacket, Goto, Enqueue,
         RequestDisconnect
    <2>6. WorkerControl'
      BY <1>a, <1>8, <2>a1, <2>a2, <2>a3, <2>a4 DEF WorkerControl,
         WorkerLabels, Labels, ChatLabels, ThreadsTypeOK, SendPacket, Goto,
         Enqueue, RequestDisconnect
    <2>7. ThisKnown'
      BY ZenonT(60), <1>a, <1>8, <2>a1, <2>a2, <2>a3, <2>a4 DEF ThisKnown,
         ThreadsTypeOK, SessionsTypeOK, SocketKnown, IsActive, MaySend,
         SendPacket, Goto, Enqueue, RequestDisconnect
    <2>8. SocketKnown'
      BY <1>a, <1>8, <2>a1, <2>a2, <2>a3, <2>a4 DEF SocketKnown, ThisKnown,
         IsActive, SessionsTypeOK, SendPacket, Goto, Enqueue,
         RequestDisconnect
    <2>. QED
      BY <2>1, <2>2, <2>3, <2>4, <2>5, <2>6, <2>7, <2>8
      DEF TypeInv, TypeOK, ControlOK
  <1>9. ASSUME NEW w \in Workers, OnRecvEnd(w)
         PROVE  TypeInv'
    <2>a1. onRecv[w] \in Sessions
      BY <1>a, <1>9 DEF WorkerControl, ChatLabels, OnRecvEnd
    <2>a2. refCount[onRecv[w]] - 1 \in Int
      BY <1>a, <2>a1 DEF SessionsTypeOK
    <2>1. SessionsTypeOK'
      <3>1. refCount' \in [Sessions -> Int]
        BY <1>a, <1>9, <2>a1, <2>a2 DEF SessionsTypeOK, OnRecvEnd, DecrementRefCount, DisconnectSession, Decrement, ReleaseOnDecrement, Unreferenced, Clear, DeleteUser, Call, Goto
      <3>2. state' \in [Sessions -> {"ACTIVE", "INACTIVE"}]
        BY <1>a, <1>9, <2>a1, <2>a2 DEF SessionsTypeOK, OnRecvEnd, DecrementRefCount, DisconnectSession, Decrement, ReleaseOnDecrement, Unreferenced, Clear, DeleteUser, Call, Goto
      <3>. QED
        BY <1>a, <1>9, <3>1, <3>2
        DEF SessionsTypeOK, OnRecvEnd, DecrementRefCount, DisconnectSession, Decrement, ReleaseOnDecrement, Unreferenced, Clear, DeleteUser, Call, Goto
    <2>2. RegistryTypeOK'
      BY <1>a, <1>9, <2>a1, <2>a2 DEF RegistryTypeOK, OnRecvEnd,
         DecrementRefCount, DisconnectSession, Decrement, ReleaseOnDecrement,
         Unreferenced, Clear, DeleteUser, Call, Goto
    <2>3. ThreadsTypeOK'
      BY ZenonT(60), <1>a, <1>9, <2>a1, <2>a2 DEF ThreadsTypeOK, Labels, OnRecvEnd,
         DecrementRefCount, DisconnectSession, Decrement, ReleaseOnDecrement,
         Unreferenced, Clear, DeleteUser, Call, Goto
    <2>4. NetTypeOK'
      BY <1>a, <1>9, <2>a1, <2>a2 DEF NetTypeOK, OnRecvEnd,
         DecrementRefCount, DisconnectSession, Decrement, ReleaseOnDecrement,
         Unreferenced, Clear, DeleteUser, Call, Goto
    <2>5. AcceptorControl'
      BY <1>a, <1>9, <2>a1, <2>a2 DEF AcceptorControl, AcceptLabels,
         ThreadsTypeOK, OnRecvEnd, DecrementRefCount, DisconnectSession,
         Decrement, ReleaseOnDecrement, Unreferenced, Clear, DeleteUser, Call,
         Goto
    <2>6. WorkerControl'
      BY <1>a, <1>9, <2>a1, <2>a2 DEF WorkerControl, WorkerLabels, Labels,
         ChatLabels, ThreadsTypeOK, OnRecvEnd, DecrementRefCount,
         DisconnectSession, Decrement, ReleaseOnDecrement, Unreferenced,
         Clear, DeleteUser, Call, Goto
    <2>7. ThisKnown'
      BY ZenonT(60), <1>a, <1>9, <2>a1, <2>a2 DEF ThisKnown, ThreadsTypeOK,
         SessionsTypeOK, SocketKnown, IsActive, MaySend, OnRecvEnd,
         DecrementRefCount, DisconnectSession, Decrement, ReleaseOnDecrement,
         Unreferenced, Clear, DeleteUser, Call, Goto
    <2>8. SocketKnown'
      BY ZenonT(60), <1>a, <1>9, <2>a1, <2>a2 DEF SocketKnown, ThisKnown, IsActive,
         SessionsTypeOK, OnRecvEnd, DecrementRefCount, DisconnectSession,
         Decrement, ReleaseOnDecrement, Unreferenced, Clear, DeleteUser, Call,
         Goto
    <2>. QED
      BY <2>1, <2>2, <2>3, <2>4, <2>5, <2>6, <2>7, <2>8
      DEF TypeInv, TypeOK, ControlOK
  <1>10. ASSUME NEW w \in Workers, PostSend(w)
         PROVE  TypeInv'
    <2>a1. this[w] \in Sessions
      BY <1>a, <1>10 DEF ThisKnown, PostSend
    <2>a2. refCount[this[w]] + 1 \in Int /\ sendQ[this[w]] \in Seq(Frames)
      BY <1>a, <2>a1 DEF SessionsTypeOK
    <2>1. SessionsTypeOK'
      <3>1. refCount' \in [Sessions -> Int]
        BY <1>a, <1>10, <2>a1, <2>a2 DEF SessionsTypeOK, PostSend, Goto, BeginSend, IncrementRefCount, Resume
      <3>2. isSending' \in [Sessions -> BOOLEAN]
        BY <1>a, <1>10, <2>a1, <2>a2 DEF SessionsTypeOK, PostSend, Goto, BeginSend, IncrementRefCount, Resume
      <3>. QED
        BY <1>a, <1>10, <3>1, <3>2
        DEF SessionsTypeOK, PostSend, Goto, BeginSend, IncrementRefCount, Resume
    <2>2. RegistryTypeOK'
      BY <1>a, <1>10, <2>a1, <2>a2 DEF RegistryTypeOK, PostSend, Goto,
         BeginSend, IncrementRefCount, Resume
    <2>3. ThreadsTypeOK'
      BY ZenonT(60), <1>a, <1>10, <2>a1, <2>a2 DEF ThreadsTypeOK, Labels, PostSend,
         Goto, BeginSend, IncrementRefCount, Resume
    <2>4. NetTypeOK'
      BY <1>a, <1>10, <2>a1, <2>a2 DEF NetTypeOK, PostSend, Goto,
         BeginSend, IncrementRefCount, Resume
    <2>5. AcceptorControl'
      BY <1>a, <1>10, <2>a1, <2>a2 DEF AcceptorControl, AcceptLabels,
         ThreadsTypeOK, PostSend, Goto, BeginSend, IncrementRefCount, Resume
    <2>6. WorkerControl'
      BY <1>a, <1>10, <2>a1, <2>a2 DEF WorkerControl, WorkerLabels, Labels,
         ChatLabels, ThreadsTypeOK, PostSend, Goto, BeginSend,
         IncrementRefCount, Resume
    <2>7. ThisKnown'
      BY ZenonT(60), <1>a, <1>10, <2>a1, <2>a2 DEF ThisKnown, ThreadsTypeOK,
         SessionsTypeOK, SocketKnown, IsActive, MaySend, PostSend, Goto,
         BeginSend, IncrementRefCount, Resume
    <2>8. SocketKnown'
      BY <1>a, <1>10, <2>a1, <2>a2 DEF SocketKnown, ThisKnown, IsActive,
         SessionsTypeOK, PostSend, Goto, BeginSend, IncrementRefCount, Resume
    <2>. QED
      BY <2>1, <2>2, <2>3, <2>4, <2>5, <2>6, <2>7, <2>8
      DEF TypeInv, TypeOK, ControlOK
  <1>11. ASSUME NEW w \in Workers, WSASend(w)
         PROVE  TypeInv'
    <2>a1. this[w] \in Sessions
      BY <1>a, <1>11 DEF ThisKnown, WSASend
    <2>a2. Append(sends[this[w]], batch[w]) \in Seq(Seq(Frames))
      BY <1>a, <2>a1 DEF SessionsTypeOK, ThreadsTypeOK
    <2>1. SessionsTypeOK'
      <3>1. sends' \in [Sessions -> Seq(Seq(Frames))]
        BY <1>a, <1>11, <2>a1, <2>a2 DEF SessionsTypeOK, WSASend, Goto, Resume
      <3>. QED
        BY <1>a, <1>11, <3>1
        DEF SessionsTypeOK, WSASend, Goto, Resume
    <2>2. RegistryTypeOK'
      BY <1>a, <1>11, <2>a1, <2>a2 DEF RegistryTypeOK, WSASend, Goto,
         Resume
    <2>3. ThreadsTypeOK'
      BY SMTT(60), <1>a, <1>11, <2>a1, <2>a2 DEF ThreadsTypeOK, Labels, WSASend,
         Goto, Resume
    <2>4. NetTypeOK'
      BY <1>a, <1>11, <2>a1, <2>a2 DEF NetTypeOK, WSASend, Goto, Resume
    <2>5. AcceptorControl'
      BY <1>a, <1>11, <2>a1, <2>a2 DEF AcceptorControl, AcceptLabels,
         ThreadsTypeOK, WSASend, Goto, Resume
    <2>6. WorkerControl'
      BY <1>a, <1>11, <2>a1, <2>a2 DEF WorkerControl, WorkerLabels, Labels,
         ChatLabels, ThreadsTypeOK, WSASend, Goto, Resume
    <2>7. ThisKnown'
      BY ZenonT(60), <1>a, <1>11, <2>a1, <2>a2 DEF ThisKnown, ThreadsTypeOK,
         SessionsTypeOK, SocketKnown, IsActive, MaySend, WSASend, Goto, Resume
    <2>8. SocketKnown'
      BY ZenonT(60), <1>a, <1>11, <2>a1, <2>a2 DEF SocketKnown, ThisKnown, IsActive,
         SessionsTypeOK, WSASend, Goto, Resume
    <2>. QED
      BY <2>1, <2>2, <2>3, <2>4, <2>5, <2>6, <2>7, <2>8
      DEF TypeInv, TypeOK, ControlOK
  <1>12. ASSUME NEW w \in Workers, OnSend(w)
         PROVE  TypeInv'
    <2>a1. this[w] \in Sessions
      BY <1>a, <1>12 DEF ThisKnown, OnSend
    <2>a2. refCount[this[w]] - 1 \in Int
      BY <1>a, <2>a1 DEF SessionsTypeOK
    <2>1. SessionsTypeOK'
      <3>1. refCount' \in [Sessions -> Int]
        BY <1>a, <1>12, <2>a1, <2>a2 DEF SessionsTypeOK, OnSend, DecrementRefCount, DisconnectSession, Decrement, ReleaseOnDecrement, Unreferenced, Clear, DeleteUser, Call, Goto
      <3>2. state' \in [Sessions -> {"ACTIVE", "INACTIVE"}]
        BY <1>a, <1>12, <2>a1, <2>a2 DEF SessionsTypeOK, OnSend, DecrementRefCount, DisconnectSession, Decrement, ReleaseOnDecrement, Unreferenced, Clear, DeleteUser, Call, Goto
      <3>. QED
        BY <1>a, <1>12, <3>1, <3>2
        DEF SessionsTypeOK, OnSend, DecrementRefCount, DisconnectSession, Decrement, ReleaseOnDecrement, Unreferenced, Clear, DeleteUser, Call, Goto
    <2>2. RegistryTypeOK'
      BY <1>a, <1>12, <2>a1, <2>a2 DEF RegistryTypeOK, OnSend,
         DecrementRefCount, DisconnectSession, Decrement, ReleaseOnDecrement,
         Unreferenced, Clear, DeleteUser, Call, Goto
    <2>3. ThreadsTypeOK'
      BY ZenonT(60), <1>a, <1>12, <2>a1, <2>a2 DEF ThreadsTypeOK, Labels, OnSend,
         DecrementRefCount, DisconnectSession, Decrement, ReleaseOnDecrement,
         Unreferenced, Clear, DeleteUser, Call, Goto
    <2>4. NetTypeOK'
      BY <1>a, <1>12, <2>a1, <2>a2 DEF NetTypeOK, OnSend,
         DecrementRefCount, DisconnectSession, Decrement, ReleaseOnDecrement,
         Unreferenced, Clear, DeleteUser, Call, Goto
    <2>5. AcceptorControl'
      BY <1>a, <1>12, <2>a1, <2>a2 DEF AcceptorControl, AcceptLabels,
         ThreadsTypeOK, OnSend, DecrementRefCount, DisconnectSession,
         Decrement, ReleaseOnDecrement, Unreferenced, Clear, DeleteUser, Call,
         Goto
    <2>6. WorkerControl'
      BY <1>a, <1>12, <2>a1, <2>a2 DEF WorkerControl, WorkerLabels, Labels,
         ChatLabels, ThreadsTypeOK, OnSend, DecrementRefCount,
         DisconnectSession, Decrement, ReleaseOnDecrement, Unreferenced,
         Clear, DeleteUser, Call, Goto
    <2>7. ThisKnown'
      BY ZenonT(60), <1>a, <1>12, <2>a1, <2>a2 DEF ThisKnown, ThreadsTypeOK,
         SessionsTypeOK, SocketKnown, IsActive, MaySend, OnSend,
         DecrementRefCount, DisconnectSession, Decrement, ReleaseOnDecrement,
         Unreferenced, Clear, DeleteUser, Call, Goto
    <2>8. SocketKnown'
      BY ZenonT(60), <1>a, <1>12, <2>a1, <2>a2 DEF SocketKnown, ThisKnown, IsActive,
         SessionsTypeOK, OnSend, DecrementRefCount, DisconnectSession,
         Decrement, ReleaseOnDecrement, Unreferenced, Clear, DeleteUser, Call,
         Goto
    <2>. QED
      BY <2>1, <2>2, <2>3, <2>4, <2>5, <2>6, <2>7, <2>8
      DEF TypeInv, TypeOK, ControlOK
  <1>13. ASSUME NEW w \in Workers, SendDone(w)
         PROVE  TypeInv'
    <2>a1. this[w] \in Sessions
      BY <1>a, <1>13 DEF ThisKnown, SendDone
    <2>a2. Len(batch[w]) \in Nat
      BY <1>a DEF ThreadsTypeOK
    <2>a3. MoveFront(sendQ[this[w]], Len(batch[w])) \in Seq(Frames)
      BY <1>a, <2>a1, <2>a2, MoveFrontType DEF SessionsTypeOK
    <2>1. SessionsTypeOK'
      <3>1. sendQ' \in [Sessions -> Seq(Frames)]
        BY <1>a, <1>13, <2>a1, <2>a2, <2>a3 DEF SessionsTypeOK, SendDone, Goto, FinishSend
      <3>2. isSending' \in [Sessions -> BOOLEAN]
        BY <1>a, <1>13, <2>a1, <2>a2, <2>a3 DEF SessionsTypeOK, SendDone, Goto, FinishSend
      <3>. QED
        BY <1>a, <1>13, <3>1, <3>2
        DEF SessionsTypeOK, SendDone, Goto, FinishSend
    <2>2. RegistryTypeOK'
      BY <1>a, <1>13, <2>a1, <2>a2, <2>a3 DEF RegistryTypeOK, SendDone,
         Goto, FinishSend
    <2>3. ThreadsTypeOK'
      <3>1. pc' \in [Threads -> Labels]
        BY ZenonT(60), <1>a, <1>13 DEF ThreadsTypeOK, Labels, SendDone, Goto, FinishSend
      <3>2. batch' \in [Workers -> Seq(Frames)]
        BY <1>a, <1>13 DEF ThreadsTypeOK, SendDone
      <3>. QED
        BY <1>a, <1>13, <3>1, <3>2 DEF ThreadsTypeOK, SendDone
    <2>4. NetTypeOK'
      BY <1>a, <1>13, <2>a1, <2>a2, <2>a3 DEF NetTypeOK, SendDone, Goto,
         FinishSend
    <2>5. AcceptorControl'
      BY <1>a, <1>13, <2>a1, <2>a2, <2>a3 DEF AcceptorControl,
         AcceptLabels, ThreadsTypeOK, SendDone, Goto, FinishSend
    <2>6. WorkerControl'
      BY <1>a, <1>13, <2>a1, <2>a2, <2>a3 DEF WorkerControl, WorkerLabels,
         Labels, ChatLabels, ThreadsTypeOK, SendDone, Goto, FinishSend
    <2>7. ThisKnown'
      BY ZenonT(60), <1>a, <1>13, <2>a1, <2>a2, <2>a3 DEF ThisKnown, ThreadsTypeOK,
         SessionsTypeOK, SocketKnown, IsActive, MaySend, SendDone, Goto,
         FinishSend
    <2>8. SocketKnown'
      BY <1>a, <1>13, <2>a1, <2>a2, <2>a3 DEF SocketKnown, ThisKnown,
         IsActive, SessionsTypeOK, SendDone, Goto, FinishSend
    <2>. QED
      BY <2>1, <2>2, <2>3, <2>4, <2>5, <2>6, <2>7, <2>8
      DEF TypeInv, TypeOK, ControlOK
  <1>14. ASSUME NEW t \in Threads, PostRecv(t)
         PROVE  TypeInv'
    <2>a1. this[t] \in Sessions
      BY <1>a, <1>14 DEF ThisKnown, PostRecv
    <2>a2. refCount[this[t]] + 1 \in Int
      BY <1>a, <2>a1 DEF SessionsTypeOK
    <2>1. SessionsTypeOK'
      <3>1. refCount' \in [Sessions -> Int]
        BY <1>a, <1>14, <2>a1, <2>a2 DEF SessionsTypeOK, PostRecv, Goto, IncrementRefCount, Resume
      <3>. QED
        BY <1>a, <1>14, <3>1
        DEF SessionsTypeOK, PostRecv, Goto, IncrementRefCount, Resume
    <2>2. RegistryTypeOK'
      BY <1>a, <1>14, <2>a1, <2>a2 DEF RegistryTypeOK, PostRecv, Goto,
         IncrementRefCount, Resume
    <2>3. ThreadsTypeOK'
      BY <1>a, <1>14, <2>a1, <2>a2 DEF ThreadsTypeOK, Labels, PostRecv,
         Goto, IncrementRefCount, Resume
    <2>4. NetTypeOK'
      BY <1>a, <1>14, <2>a1, <2>a2 DEF NetTypeOK, PostRecv, Goto,
         IncrementRefCount, Resume
    <2>5. AcceptorControl'
      BY <1>a, <1>14, <2>a1, <2>a2 DEF AcceptorControl, AcceptLabels,
         ThreadsTypeOK, PostRecv, Goto, IncrementRefCount, Resume
    <2>6. WorkerControl'
      BY <1>a, <1>14, <2>a1, <2>a2 DEF WorkerControl, WorkerLabels, Labels,
         ChatLabels, ThreadsTypeOK, PostRecv, Goto, IncrementRefCount, Resume
    <2>7. ThisKnown'
      BY ZenonT(60), <1>a, <1>14, <2>a1, <2>a2 DEF ThisKnown, ThreadsTypeOK,
         SessionsTypeOK, SocketKnown, IsActive, MaySend, PostRecv, Goto,
         IncrementRefCount, Resume
    <2>8. SocketKnown'
      BY <1>a, <1>14, <2>a1, <2>a2 DEF SocketKnown, ThisKnown, IsActive,
         SessionsTypeOK, PostRecv, Goto, IncrementRefCount, Resume
    <2>. QED
      BY <2>1, <2>2, <2>3, <2>4, <2>5, <2>6, <2>7, <2>8
      DEF TypeInv, TypeOK, ControlOK
  <1>15. ASSUME NEW t \in Threads, WSARecv(t)
         PROVE  TypeInv'
    <2>a1. this[t] \in Sessions
      BY <1>a, <1>15 DEF ThisKnown, WSARecv
    <2>a2. recvs[this[t]] + 1 \in Nat
      BY <1>a, <2>a1 DEF SessionsTypeOK
    <2>1. SessionsTypeOK'
      <3>1. recvs' \in [Sessions -> Nat]
        BY ZenonT(60), <1>a, <1>15, <2>a1, <2>a2 DEF SessionsTypeOK, WSARecv, Goto
      <3>. QED
        BY <1>a, <1>15, <3>1
        DEF SessionsTypeOK, WSARecv, Goto
    <2>2. RegistryTypeOK'
      BY <1>a, <1>15, <2>a1, <2>a2 DEF RegistryTypeOK, WSARecv, Goto
    <2>3. ThreadsTypeOK'
      BY <1>a, <1>15, <2>a1, <2>a2 DEF ThreadsTypeOK, Labels, WSARecv, Goto
    <2>4. NetTypeOK'
      BY <1>a, <1>15, <2>a1, <2>a2 DEF NetTypeOK, WSARecv, Goto
    <2>5. AcceptorControl'
      BY <1>a, <1>15, <2>a1, <2>a2 DEF AcceptorControl, AcceptLabels,
         ThreadsTypeOK, WSARecv, Goto
    <2>6. WorkerControl'
      BY <1>a, <1>15, <2>a1, <2>a2 DEF WorkerControl, WorkerLabels, Labels,
         ChatLabels, ThreadsTypeOK, WSARecv, Goto
    <2>7. ThisKnown'
      BY ZenonT(60), <1>a, <1>15, <2>a1, <2>a2 DEF ThisKnown, ThreadsTypeOK,
         SessionsTypeOK, SocketKnown, IsActive, MaySend, WSARecv, Goto
    <2>8. SocketKnown'
      BY <1>a, <1>15, <2>a1, <2>a2 DEF SocketKnown, ThisKnown, IsActive,
         SessionsTypeOK, WSARecv, Goto
    <2>. QED
      BY <2>1, <2>2, <2>3, <2>4, <2>5, <2>6, <2>7, <2>8
      DEF TypeInv, TypeOK, ControlOK
  <1>16. ASSUME NEW t \in Threads, DropRef(t)
         PROVE  TypeInv'
    <2>a1. this[t] \in Sessions
      BY <1>a, <1>16 DEF ThisKnown, DropRef
    <2>a2. refCount[this[t]] - 1 \in Int
      BY <1>a, <2>a1 DEF SessionsTypeOK
    <2>1. SessionsTypeOK'
      <3>1. refCount' \in [Sessions -> Int]
        BY <1>a, <1>16, <2>a1, <2>a2 DEF SessionsTypeOK, DropRef, DisconnectSession, Decrement, Unreferenced, RequestDisconnect, Clear, DeleteUser, Call, Goto, Resume
      <3>2. disconnectRequested' \in [Sessions -> BOOLEAN]
        BY <1>a, <1>16, <2>a1, <2>a2 DEF SessionsTypeOK, DropRef, DisconnectSession, Decrement, Unreferenced, RequestDisconnect, Clear, DeleteUser, Call, Goto, Resume
      <3>3. state' \in [Sessions -> {"ACTIVE", "INACTIVE"}]
        BY <1>a, <1>16, <2>a1, <2>a2 DEF SessionsTypeOK, DropRef, DisconnectSession, Decrement, Unreferenced, RequestDisconnect, Clear, DeleteUser, Call, Goto, Resume
      <3>. QED
        BY <1>a, <1>16, <3>1, <3>2, <3>3
        DEF SessionsTypeOK, DropRef, DisconnectSession, Decrement, Unreferenced, RequestDisconnect, Clear, DeleteUser, Call, Goto, Resume
    <2>2. RegistryTypeOK'
      BY <1>a, <1>16, <2>a1, <2>a2 DEF RegistryTypeOK, DropRef,
         DisconnectSession, Decrement, Unreferenced, RequestDisconnect, Clear,
         DeleteUser, Call, Goto, Resume
    <2>3. ThreadsTypeOK'
      BY <1>a, <1>16, <2>a1, <2>a2 DEF ThreadsTypeOK, Labels, DropRef,
         DisconnectSession, Decrement, Unreferenced, RequestDisconnect, Clear,
         DeleteUser, Call, Goto, Resume
    <2>4. NetTypeOK'
      BY <1>a, <1>16, <2>a1, <2>a2 DEF NetTypeOK, DropRef,
         DisconnectSession, Decrement, Unreferenced, RequestDisconnect, Clear,
         DeleteUser, Call, Goto, Resume
    <2>5. AcceptorControl'
      BY <1>a, <1>16, <2>a1, <2>a2 DEF AcceptorControl, AcceptLabels,
         ThreadsTypeOK, DropRef, DisconnectSession, Decrement, Unreferenced,
         RequestDisconnect, Clear, DeleteUser, Call, Goto, Resume
    <2>6. WorkerControl'
      BY <1>a, <1>16, <2>a1, <2>a2 DEF WorkerControl, WorkerLabels, Labels,
         ChatLabels, ThreadsTypeOK, DropRef, DisconnectSession, Decrement,
         Unreferenced, RequestDisconnect, Clear, DeleteUser, Call, Goto,
         Resume
    <2>7. ThisKnown'
      BY ZenonT(60), <1>a, <1>16, <2>a1, <2>a2 DEF ThisKnown, ThreadsTypeOK,
         SessionsTypeOK, SocketKnown, IsActive, MaySend, DropRef,
         DisconnectSession, Decrement, Unreferenced, RequestDisconnect, Clear,
         DeleteUser, Call, Goto, Resume
    <2>8. SocketKnown'
      BY <1>a, <1>16, <2>a1, <2>a2 DEF SocketKnown, ThisKnown, IsActive,
         SessionsTypeOK, DropRef, DisconnectSession, Decrement, Unreferenced,
         RequestDisconnect, Clear, DeleteUser, Call, Goto, Resume
    <2>. QED
      BY <2>1, <2>2, <2>3, <2>4, <2>5, <2>6, <2>7, <2>8
      DEF TypeInv, TypeOK, ControlOK
  <1>17. ASSUME NEW t \in Threads, FreeId(t)
         PROVE  TypeInv'
    <2>a1. this[t] \in Sessions
      BY <1>a, <1>17 DEF ThisKnown, FreeId
    <2>a2. << this[t] >> \o idStack \in Seq(Sessions)
      BY <1>a, <2>a1, ConcatProperties DEF RegistryTypeOK
    <2>1. SessionsTypeOK'
      BY <1>a, <1>17, <2>a1, <2>a2 DEF SessionsTypeOK, FreeId, FreeIdLock,
         Goto, Resume
    <2>2. RegistryTypeOK'
      BY <1>a, <1>17, <2>a1, <2>a2 DEF RegistryTypeOK, FreeId, FreeIdLock,
         Goto, Resume
    <2>3. ThreadsTypeOK'
      BY <1>a, <1>17, <2>a1, <2>a2 DEF ThreadsTypeOK, Labels, FreeId,
         FreeIdLock, Goto, Resume
    <2>4. NetTypeOK'
      BY <1>a, <1>17, <2>a1, <2>a2 DEF NetTypeOK, FreeId, FreeIdLock, Goto,
         Resume
    <2>5. AcceptorControl'
      BY <1>a, <1>17, <2>a1, <2>a2 DEF AcceptorControl, AcceptLabels,
         ThreadsTypeOK, FreeId, FreeIdLock, Goto, Resume
    <2>6. WorkerControl'
      BY <1>a, <1>17, <2>a1, <2>a2 DEF WorkerControl, WorkerLabels, Labels,
         ChatLabels, ThreadsTypeOK, FreeId, FreeIdLock, Goto, Resume
    <2>7. ThisKnown'
      BY ZenonT(60), <1>a, <1>17, <2>a1, <2>a2 DEF ThisKnown, ThreadsTypeOK,
         SessionsTypeOK, SocketKnown, IsActive, MaySend, FreeId, FreeIdLock,
         Goto, Resume
    <2>8. SocketKnown'
      BY <1>a, <1>17, <2>a1, <2>a2 DEF SocketKnown, ThisKnown, IsActive,
         SessionsTypeOK, FreeId, FreeIdLock, Goto, Resume
    <2>. QED
      BY <2>1, <2>2, <2>3, <2>4, <2>5, <2>6, <2>7, <2>8
      DEF TypeInv, TypeOK, ControlOK
  <1>18. ASSUME InitSession
         PROVE  TypeInv'
    <2>a1. this[Acceptor] \in Sessions /\ client \in Conns
      BY <1>a, <1>18 DEF ThisKnown, AcceptorControl, InitSession
    <2>1. SessionsTypeOK'
      BY <1>a, <1>18, <2>a1 DEF SessionsTypeOK, InitSession, Init, Goto
    <2>2. RegistryTypeOK'
      BY <1>a, <1>18, <2>a1 DEF RegistryTypeOK, InitSession, Init, Goto
    <2>3. ThreadsTypeOK'
      BY <1>a, <1>18, <2>a1 DEF ThreadsTypeOK, Labels, InitSession, Init,
         Goto
    <2>4. NetTypeOK'
      BY <1>a, <1>18, <2>a1 DEF NetTypeOK, InitSession, Init, Goto
    <2>5. AcceptorControl'
      BY <1>a, <1>18, <2>a1 DEF AcceptorControl, AcceptLabels,
         ThreadsTypeOK, InitSession, Init, Goto
    <2>6. WorkerControl'
      BY <1>a, <1>18, <2>a1 DEF WorkerControl, WorkerLabels, Labels,
         ChatLabels, ThreadsTypeOK, InitSession, Init, Goto
    <2>7. ThisKnown'
      BY ZenonT(60), <1>a, <1>18, <2>a1 DEF ThisKnown, ThreadsTypeOK, SessionsTypeOK,
         SocketKnown, IsActive, MaySend, InitSession, Init, Goto
    <2>8. SocketKnown'
      BY <1>a, <1>18, <2>a1 DEF SocketKnown, ThisKnown, IsActive,
         SessionsTypeOK, InitSession, Init, Goto
    <2>. QED
      BY <2>1, <2>2, <2>3, <2>4, <2>5, <2>6, <2>7, <2>8
      DEF TypeInv, TypeOK, ControlOK
  <1>19. ASSUME OnConnect
         PROVE  TypeInv'
    <2>a1. this[Acceptor] \in Sessions
      BY <1>a, <1>19 DEF ThisKnown, OnConnect
    <2>a2. userIdCount \in Nat
      BY <1>a DEF RegistryTypeOK
    <2>1. SessionsTypeOK'
      BY <1>a, <1>19, <2>a1, <2>a2 DEF SessionsTypeOK, OnConnect,
         CreateUser, Goto
    <2>2. RegistryTypeOK'
      BY <1>a, <1>19, <2>a1, <2>a2 DEF RegistryTypeOK, OnConnect,
         CreateUser, Goto
    <2>3. ThreadsTypeOK'
      BY <1>a, <1>19, <2>a1, <2>a2 DEF ThreadsTypeOK, Labels, OnConnect,
         CreateUser, Goto
    <2>4. NetTypeOK'
      BY <1>a, <1>19, <2>a1, <2>a2 DEF NetTypeOK, OnConnect, CreateUser,
         Goto
    <2>5. AcceptorControl'
      BY <1>a, <1>19, <2>a1, <2>a2 DEF AcceptorControl, AcceptLabels,
         ThreadsTypeOK, OnConnect, CreateUser, Goto
    <2>6. WorkerControl'
      BY <1>a, <1>19, <2>a1, <2>a2 DEF WorkerControl, WorkerLabels, Labels,
         ChatLabels, ThreadsTypeOK, OnConnect, CreateUser, Goto
    <2>7. ThisKnown'
      BY ZenonT(60), <1>a, <1>19, <2>a1, <2>a2 DEF ThisKnown, ThreadsTypeOK,
         SessionsTypeOK, SocketKnown, IsActive, MaySend, OnConnect,
         CreateUser, Goto
    <2>8. SocketKnown'
      BY <1>a, <1>19, <2>a1, <2>a2 DEF SocketKnown, ThisKnown, IsActive,
         SessionsTypeOK, OnConnect, CreateUser, Goto
    <2>. QED
      BY <2>1, <2>2, <2>3, <2>4, <2>5, <2>6, <2>7, <2>8
      DEF TypeInv, TypeOK, ControlOK
  <1>20. ASSUME SetUserId
         PROVE  TypeInv'
    <2>a1. this[Acceptor] \in Sessions
      BY <1>a, <1>20 DEF ThisKnown, SetUserId
    <2>a2. uid[Acceptor] \in Nat
      BY <1>a DEF ThreadsTypeOK
    <2>1. SessionsTypeOK'
      <3>1. userId' \in [Sessions -> Nat]
        BY <1>a, <1>20, <2>a1, <2>a2 DEF SessionsTypeOK, SetUserId, Goto
      <3>. QED
        BY <1>a, <1>20, <3>1
        DEF SessionsTypeOK, SetUserId, Goto
    <2>2. RegistryTypeOK'
      BY <1>a, <1>20, <2>a1, <2>a2 DEF RegistryTypeOK, SetUserId, Goto
    <2>3. ThreadsTypeOK'
      BY <1>a, <1>20, <2>a1, <2>a2 DEF ThreadsTypeOK, Labels, SetUserId,
         Goto
    <2>4. NetTypeOK'
      BY <1>a, <1>20, <2>a1, <2>a2 DEF NetTypeOK, SetUserId, Goto
    <2>5. AcceptorControl'
      BY <1>a, <1>20, <2>a1, <2>a2 DEF AcceptorControl, AcceptLabels,
         ThreadsTypeOK, SetUserId, Goto
    <2>6. WorkerControl'
      BY <1>a, <1>20, <2>a1, <2>a2 DEF WorkerControl, WorkerLabels, Labels,
         ChatLabels, ThreadsTypeOK, SetUserId, Goto
    <2>7. ThisKnown'
      BY ZenonT(60), <1>a, <1>20, <2>a1, <2>a2 DEF ThisKnown, ThreadsTypeOK,
         SessionsTypeOK, SocketKnown, IsActive, MaySend, SetUserId, Goto
    <2>8. SocketKnown'
      BY <1>a, <1>20, <2>a1, <2>a2 DEF SocketKnown, ThisKnown, IsActive,
         SessionsTypeOK, SetUserId, Goto
    <2>. QED
      BY <2>1, <2>2, <2>3, <2>4, <2>5, <2>6, <2>7, <2>8
      DEF TypeInv, TypeOK, ControlOK
  <1>21. ASSUME NEW c \in Conns, Accept(c)
         PROVE  TypeInv'
    <2>a1. idStack # << >> => Tail(idStack) \in Seq(Sessions)
      BY <1>a, HeadTailProperties DEF RegistryTypeOK
    <2>1. SessionsTypeOK'
      BY <1>a, <1>21, <2>a1 DEF SessionsTypeOK, Accept, GetIdLock,
         GetIdFails, Call, Goto
    <2>2. RegistryTypeOK'
      BY <1>a, <1>21, <2>a1 DEF RegistryTypeOK, Accept, GetIdLock,
         GetIdFails, Call, Goto
    <2>3. ThreadsTypeOK'
      BY <1>a, <1>21, <2>a1 DEF ThreadsTypeOK, Labels, Accept, GetIdLock,
         GetIdFails, Call, Goto
    <2>4. NetTypeOK'
      BY <1>a, <1>21, <2>a1 DEF NetTypeOK, Accept, GetIdLock, GetIdFails,
         Call, Goto
    <2>5. AcceptorControl'
      BY <1>a, <1>21, <2>a1 DEF AcceptorControl, AcceptLabels,
         ThreadsTypeOK, Accept, GetIdLock, GetIdFails, Call, Goto
    <2>6. WorkerControl'
      BY <1>a, <1>21, <2>a1 DEF WorkerControl, WorkerLabels, Labels,
         ChatLabels, ThreadsTypeOK, Accept, GetIdLock, GetIdFails, Call, Goto
    <2>7. ThisKnown'
      BY ZenonT(60), <1>a, <1>21, <2>a1 DEF ThisKnown, ThreadsTypeOK, SessionsTypeOK,
         SocketKnown, IsActive, MaySend, Accept, GetIdLock, GetIdFails, Call,
         Goto
    <2>8. SocketKnown'
      BY <1>a, <1>21, <2>a1 DEF SocketKnown, ThisKnown, IsActive,
         SessionsTypeOK, Accept, GetIdLock, GetIdFails, Call, Goto
    <2>. QED
      BY <2>1, <2>2, <2>3, <2>4, <2>5, <2>6, <2>7, <2>8
      DEF TypeInv, TypeOK, ControlOK
  <1>22. ASSUME NEW c \in Conns, Say(c)
         PROVE  TypeInv'
    <2>1. SessionsTypeOK'
      BY <1>a, <1>22 DEF SessionsTypeOK, Say
    <2>2. RegistryTypeOK'
      BY <1>a, <1>22 DEF RegistryTypeOK, Say
    <2>3. ThreadsTypeOK'
      BY <1>a, <1>22 DEF ThreadsTypeOK, Labels, Say
    <2>4. NetTypeOK'
      BY <1>a, <1>22 DEF NetTypeOK, Say
    <2>5. AcceptorControl'
      BY <1>a, <1>22 DEF AcceptorControl, AcceptLabels, ThreadsTypeOK, Say
    <2>6. WorkerControl'
      BY <1>a, <1>22 DEF WorkerControl, WorkerLabels, Labels, ChatLabels,
         ThreadsTypeOK, Say
    <2>7. ThisKnown'
      BY ZenonT(60), <1>a, <1>22 DEF ThisKnown, ThreadsTypeOK, SessionsTypeOK,
         SocketKnown, IsActive, MaySend, Say
    <2>8. SocketKnown'
      BY <1>a, <1>22 DEF SocketKnown, ThisKnown, IsActive, SessionsTypeOK,
         Say
    <2>. QED
      BY <2>1, <2>2, <2>3, <2>4, <2>5, <2>6, <2>7, <2>8
      DEF TypeInv, TypeOK, ControlOK
  <1>23. ASSUME NEW c \in Conns, Close(c)
         PROVE  TypeInv'
    <2>1. SessionsTypeOK'
      BY <1>a, <1>23 DEF SessionsTypeOK, Close
    <2>2. RegistryTypeOK'
      BY <1>a, <1>23 DEF RegistryTypeOK, Close
    <2>3. ThreadsTypeOK'
      BY <1>a, <1>23 DEF ThreadsTypeOK, Labels, Close
    <2>4. NetTypeOK'
      BY <1>a, <1>23 DEF NetTypeOK, Close
    <2>5. AcceptorControl'
      BY <1>a, <1>23 DEF AcceptorControl, AcceptLabels, ThreadsTypeOK,
         Close
    <2>6. WorkerControl'
      BY <1>a, <1>23 DEF WorkerControl, WorkerLabels, Labels, ChatLabels,
         ThreadsTypeOK, Close
    <2>7. ThisKnown'
      BY ZenonT(60), <1>a, <1>23 DEF ThisKnown, ThreadsTypeOK, SessionsTypeOK,
         SocketKnown, IsActive, MaySend, Close
    <2>8. SocketKnown'
      BY <1>a, <1>23 DEF SocketKnown, ThisKnown, IsActive, SessionsTypeOK,
         Close
    <2>. QED
      BY <2>1, <2>2, <2>3, <2>4, <2>5, <2>6, <2>7, <2>8
      DEF TypeInv, TypeOK, ControlOK
  <1>24. CASE UNCHANGED vars
    BY <1>a, <1>24
    DEF vars, TypeInv, TypeOK, SessionsTypeOK, RegistryTypeOK, ThreadsTypeOK,
        NetTypeOK, ControlOK, AcceptorControl, WorkerControl, ThisKnown,
        SocketKnown, IsActive
  <1>. QED
    BY <1>1, <1>1p, <1>2, <1>3, <1>4, <1>5, <1>6, <1>7, <1>8, <1>9, <1>10,
       <1>11,
       <1>12, <1>13, <1>14, <1>15, <1>16, <1>17, <1>18, <1>19, <1>20, <1>21,
       <1>22, <1>23, <1>24
    DEF Next, Completion, Handling, Shared, Accepting

(* TypeOK holds in every reachable state, for all values of the constants.  *)
THEOREM TypeCorrect == Spec => []TypeOK
PROOF
  <1>1. TypeInv => TypeOK
    BY DEF TypeInv
  <1>. QED
    BY TypeInit, TypeStep, <1>1, PTL DEF Spec

-----------------------------------------------------------------------------
(* Reference counts. *)

ReleasedUnreferenced ==
  \A s \in Sessions : ~IsActive(s) => refCount[s] = 0

RefInv == RefCountExact /\ ReleasedUnreferenced

-----------------------------------------------------------------------------
(* What thread t contributes to the count of s, in OnRecv and elsewhere.   *)
Received(t, s) == IF t \in Workers /\ onRecv[t] = s THEN 1 ELSE 0
Held(t, s) == IF HoldsRef(t, s) THEN 1 ELSE 0

(* A step of t leaves the control of the other threads alone.              *)
OnlyMoves(t) ==
  /\ \A u \in Threads \ {t} : pc'[u] = pc[u] /\ this'[u] = this[u]
  /\ \A u \in Workers \ {t} : onRecv'[u] = onRecv[u]

(* A step of t changes the count of s by what it changes of what counts.   *)
Balanced(t, s) ==
  refCount'[s] - refCount[s] =
    (recvs'[s] - recvs[s]) + (Len(sends'[s]) - Len(sends[s]))
    + (Received(t, s)' - Received(t, s)) + (Held(t, s)' - Held(t, s))

(* The sets of threads inside a session are finite.                        *)
LEMMA FiniteInside ==
  ASSUME NEW s \in Sessions
  PROVE  /\ IsFiniteSet(Threads)
         /\ IsFiniteSet(Receivers(s)) /\ Cardinality(Receivers(s)) \in Nat
         /\ IsFiniteSet(Holders(s)) /\ Cardinality(Holders(s)) \in Nat
PROOF
  <1>1. IsFiniteSet(Workers) /\ IsFiniteSet(Threads)
    BY ThreadsAssumption, FS_AddElement DEF Threads
  <1>2. IsFiniteSet(Receivers(s)) /\ IsFiniteSet(Holders(s))
    BY <1>1, FS_Subset DEF Receivers, Holders
  <1>. QED
    BY <1>1, <1>2, FS_CardinalityType

(* A thread in a set is counted by it.                                     *)
LEMMA CountedOnce ==
  ASSUME NEW S, IsFiniteSet(S), NEW t \in S
  PROVE  Cardinality(S) >= 1
PROOF
  <1>1. Cardinality(S) \in Nat /\ Cardinality(S) # 0
    BY FS_CardinalityType, FS_EmptySet
  <1>. QED
    BY <1>1

(* When membership changes for t at most, the cardinality changes by it.   *)
LEMMA OneMoves ==
  ASSUME NEW S, NEW T, IsFiniteSet(S), NEW t, S \ {t} = T \ {t}
  PROVE  /\ IsFiniteSet(T)
         /\ Cardinality(T) = Cardinality(S)
              + (IF t \in T THEN 1 ELSE 0) - (IF t \in S THEN 1 ELSE 0)
PROOF
  <1>1. Cardinality(S) \in Nat
    BY FS_CardinalityType
  <1>2. CASE t \in S /\ t \in T
    <2>1. S = T
      BY <1>2
    <2>. QED
      BY <1>1, <1>2, <2>1
  <1>3. CASE t \notin S /\ t \notin T
    <2>1. S = T
      BY <1>3
    <2>. QED
      BY <1>1, <1>3, <2>1
  <1>4. CASE t \in S /\ t \notin T
    <2>1. T = S \ {t}
      BY <1>4
    <2>. QED
      BY <1>1, <1>4, <2>1, FS_RemoveElement
  <1>5. CASE t \notin S /\ t \in T
    <2>1. T = S \cup {t}
      BY <1>5
    <2>. QED
      BY <1>1, <1>5, <2>1, FS_AddElement
  <1>. QED
    BY <1>2, <1>3, <1>4, <1>5

(* The parts of Balanced are integers.                                     *)
LEMMA Parts ==
  ASSUME TypeOK, NEW t \in Threads, NEW s \in Sessions
  PROVE  /\ refCount[s] \in Int /\ recvs[s] \in Int /\ Len(sends[s]) \in Int
         /\ Received(t, s) \in Int /\ Held(t, s) \in Int
PROOF
  BY DEF TypeOK, SessionsTypeOK, Received, Held

(* What a step of t changes of each part.                                  *)
Changes(t, s, r, v, l, x, y) ==
  /\ refCount'[s] = refCount[s] + r
  /\ recvs'[s] = recvs[s] + v
  /\ Len(sends'[s]) = Len(sends[s]) + l
  /\ Received(t, s)' = Received(t, s) + x
  /\ Held(t, s)' = Held(t, s) + y

LEMMA ChangesBalance ==
  ASSUME TypeOK, TypeOK', NEW t \in Threads, NEW s \in Sessions,
         NEW r \in Int, NEW v \in Int, NEW l \in Int, NEW x \in Int,
         NEW y \in Int, Changes(t, s, r, v, l, x, y), r = v + l + x + y
  PROVE  Balanced(t, s)
PROOF
  <1>1. /\ refCount[s] \in Int /\ recvs[s] \in Int /\ Len(sends[s]) \in Int
        /\ Received(t, s) \in Int /\ Held(t, s) \in Int
    BY Parts
  <1>2. PICK r0 \in Int, v0 \in Int, l0 \in Int, x0 \in Int, y0 \in Int :
          /\ r0 = refCount[s] /\ v0 = recvs[s] /\ l0 = Len(sends[s])
          /\ x0 = Received(t, s) /\ y0 = Held(t, s)
    BY <1>1
  <1>3. (r0 + r) - r0 = ((v0 + v) - v0) + ((l0 + l) - l0)
                        + ((x0 + x) - x0) + ((y0 + y) - y0)
    OBVIOUS
  <1>. QED
    BY <1>2, <1>3 DEF Changes, Balanced

(* A step of t that changes none of them.                                  *)
Untouched(t, s) ==
  /\ refCount'[s] = refCount[s]
  /\ recvs'[s] = recvs[s] /\ sends'[s] = sends[s]
  /\ Received(t, s)' = Received(t, s) /\ Held(t, s)' = Held(t, s)

LEMMA UntouchedBalance ==
  ASSUME TypeOK, TypeOK', NEW t \in Threads, NEW s \in Sessions,
         Untouched(t, s)
  PROVE  Balanced(t, s)
PROOF
  <1>1. /\ refCount[s] \in Int /\ recvs[s] \in Int /\ Len(sends[s]) \in Int
        /\ Received(t, s) \in Int /\ Held(t, s) \in Int
    BY Parts
  <1>2. Changes(t, s, 0, 0, 0, 0, 0)
    BY <1>1 DEF Untouched, Changes
  <1>. QED
    BY <1>2, ChangesBalance

(* A balanced step of one thread keeps the count of s exact.               *)
LEMMA BalancedStep ==
  ASSUME TypeOK, TypeOK', RefCountExact,
         NEW t \in Threads, OnlyMoves(t),
         \A s \in Sessions : Balanced(t, s)
  PROVE  RefCountExact'
PROOF
  <1>. SUFFICES ASSUME NEW s \in Sessions
                PROVE  refCount'[s] = recvs'[s] + Len(sends'[s])
                         + Cardinality(Receivers(s)') + Cardinality(Holders(s)')
    BY DEF RefCountExact
  <1>1. Cardinality(Receivers(s)')
          = Cardinality(Receivers(s)) + Received(t, s)' - Received(t, s)
    <2>1. Receivers(s) \ {t} = Receivers(s)' \ {t}
      BY DEF Receivers, OnlyMoves
    <2>2. /\ t \in Receivers(s) <=> t \in Workers /\ onRecv[t] = s
          /\ t \in Receivers(s)' <=> t \in Workers /\ onRecv'[t] = s
      BY DEF Receivers
    <2>. QED
      BY ZenonT(60), <2>1, <2>2, FiniteInside, OneMoves DEF Received
  <1>2. Cardinality(Holders(s)')
          = Cardinality(Holders(s)) + Held(t, s)' - Held(t, s)
    <2>1. Holders(s) \ {t} = Holders(s)' \ {t}
      BY DEF Holders, HoldsRef, OnlyMoves
    <2>2. /\ t \in Holders(s) <=> HoldsRef(t, s)
          /\ t \in Holders(s)' <=> HoldsRef(t, s)'
      BY DEF Holders
    <2>. QED
      BY ZenonT(60), <2>1, <2>2, FiniteInside, OneMoves DEF Held
  <1>3. /\ refCount[s] \in Int /\ refCount'[s] \in Int
        /\ recvs[s] \in Int /\ recvs'[s] \in Int
        /\ Len(sends[s]) \in Int /\ Len(sends'[s]) \in Int
    BY DEF TypeOK, SessionsTypeOK
  <1>4. /\ Received(t, s) \in Int /\ Received(t, s)' \in Int
        /\ Held(t, s) \in Int /\ Held(t, s)' \in Int
    BY DEF Received, Held
  <1>5. Cardinality(Receivers(s)) \in Int /\ Cardinality(Holders(s)) \in Int
    BY FiniteInside
  <1>6. PICK r0 \in Int, r1 \in Int, v0 \in Int, v1 \in Int, l0 \in Int,
             l1 \in Int, c \in Int, h \in Int,
             x0 \in Int, x1 \in Int, y0 \in Int, y1 \in Int :
          /\ r0 = refCount[s] /\ r1 = refCount'[s]
          /\ v0 = recvs[s] /\ v1 = recvs'[s]
          /\ l0 = Len(sends[s]) /\ l1 = Len(sends'[s])
          /\ c = Cardinality(Receivers(s)) /\ h = Cardinality(Holders(s))
          /\ x0 = Received(t, s) /\ x1 = Received(t, s)'
          /\ y0 = Held(t, s) /\ y1 = Held(t, s)'
    BY <1>3, <1>4, <1>5
  <1>7. r0 = v0 + l0 + c + h
    BY <1>6 DEF RefCountExact
  <1>8. r1 - r0 = (v1 - v0) + (l1 - l0) + (x1 - x0) + (y1 - y0)
    BY <1>6 DEF Balanced
  <1>9. r1 = v1 + l1 + (c + x1 - x0) + (h + y1 - y0)
    BY <1>7, <1>8
  <1>. QED
    BY <1>1, <1>2, <1>6, <1>9

(* A thread that gives a reference up has one, so the session is active.   *)
LEMMA CountedIsActive ==
  ASSUME TypeOK, RefInv, NEW s \in Sessions, NEW t \in Threads,
         HoldsRef(t, s) \/ (t \in Workers /\ onRecv[t] = s)
  PROVE  refCount[s] >= 1 /\ IsActive(s)
PROOF
  <1>1. Cardinality(Holders(s)) >= 1 \/ Cardinality(Receivers(s)) >= 1
    BY FiniteInside, CountedOnce DEF Holders, Receivers
  <1>2. recvs[s] \in Nat /\ Len(sends[s]) \in Nat
    BY DEF TypeOK, SessionsTypeOK
  <1>3. refCount[s] >= 1
    BY SMTT(60), <1>1, <1>2, FiniteInside DEF RefInv, RefCountExact
  <1>. QED
    BY <1>3 DEF RefInv, ReleasedUnreferenced

-----------------------------------------------------------------------------
(* No reference is held, and no slot is in use, in the initial state.      *)
LEMMA RefInit == ServerInit => RefInv
PROOF
  <1>. SUFFICES ASSUME ServerInit, NEW s \in Sessions
                PROVE  /\ refCount[s] = 0 /\ recvs[s] = 0 /\ Len(sends[s]) = 0
                       /\ Cardinality(Receivers(s)) = 0
                       /\ Cardinality(Holders(s)) = 0
    BY DEF RefInv, RefCountExact, ReleasedUnreferenced
  <1>1. Receivers(s) = {}
    BY SessionsAssumption DEF ServerInit, Receivers
  <1>2. Holders(s) = {}
    BY SessionsAssumption DEF ServerInit, Holders, HoldsRef, Threads
  <1>. QED
    BY <1>1, <1>2, FS_EmptySet DEF ServerInit, SessionInit

(* Each step of the server keeps the counts exact, and a released session  *)
(* unreferenced.                                                           *)
LEMMA RefStep == TypeInv /\ TypeInv' /\ RefInv /\ [Next]_vars => RefInv'
PROOF
  <1>. SUFFICES ASSUME TypeInv, TypeInv', RefInv, [Next]_vars PROVE RefInv'
    OBVIOUS
  <1>. USE ThreadsAssumption, SessionsAssumption
       DEF Threads, flags, queues, io, sessionVars, lobbyVars, lobbyAndPool,
           netVars, threadVars
  <1>a. /\ TypeOK /\ TypeOK'
        /\ SessionsTypeOK /\ ThreadsTypeOK /\ SessionsTypeOK' /\ ThreadsTypeOK'
        /\ AcceptorControl /\ WorkerControl /\ ThisKnown
        /\ RefCountExact /\ ReleasedUnreferenced
    BY DEF TypeInv, TypeOK, ControlOK, RefInv
  <1>1. ASSUME NEW w \in Workers, NEW s \in Sessions, RecvCompletes(w, s)
         PROVE  RefInv'
    <2>1. OnlyMoves(w)
      BY <1>a, <1>1 DEF OnlyMoves, ThreadsTypeOK, RecvCompletes, Goto
    <2>3. ASSUME NEW x \in Sessions PROVE Balanced(w, x)
      <3>1. CASE x = s
        <4>1. /\ refCount'[x] = refCount[x]
              /\ recvs'[x] = recvs[x] - 1
              /\ Len(sends'[x]) = Len(sends[x])
          BY <1>a, <1>1, <3>1 DEF SessionsTypeOK, ThreadsTypeOK,
             ThisKnown, WorkerControl, ChatLabels, RecvCompletes, Goto
        <4>2. Received(w, x)' = Received(w, x) + 1
          BY <1>a, <1>1, <3>1 DEF Received, WorkerControl, ChatLabels,
             SessionsTypeOK, ThreadsTypeOK, RecvCompletes, Goto
        <4>3. Held(w, x)' = Held(w, x)
          BY <1>a, <1>1, <3>1 DEF Held, HoldsRef, WorkerControl,
             AcceptorControl, ThisKnown, ChatLabels, SessionsTypeOK,
             ThreadsTypeOK, RecvCompletes, Goto
        <4>4. Changes(w, x, 0, -1, 0, 1, 0)
          BY SMTT(60), <1>a, <4>1, <4>2, <4>3, Parts DEF Changes
        <4>. QED
          BY <1>a, <4>4, ChangesBalance
      <3>2. CASE x # s
        <4>1. refCount'[x] = refCount[x] /\ recvs'[x] = recvs[x] /\ sends'[x] = sends[x]
          BY <1>a, <1>1, <3>2 DEF SessionsTypeOK, ThreadsTypeOK,
             RecvCompletes, Goto
        <4>2. Received(w, x)' = Received(w, x)
          BY <1>a, <1>1, <3>2 DEF Received, WorkerControl, ChatLabels,
             SessionsTypeOK, ThreadsTypeOK, RecvCompletes, Goto
        <4>3. Held(w, x)' = Held(w, x)
          BY <1>a, <1>1, <3>2 DEF Held, HoldsRef, WorkerControl,
             AcceptorControl, ThisKnown, ChatLabels, SessionsTypeOK,
             ThreadsTypeOK, RecvCompletes, Goto
        <4>. QED
          BY <1>a, <4>1, <4>2, <4>3, UntouchedBalance DEF Untouched
      <3>. QED
        BY <1>1, <3>1, <3>2 DEF RecvCompletes
    <2>4. RefCountExact'
      BY <1>a, <2>1, <2>3, BalancedStep
    <2>5. ReleasedUnreferenced'
      BY <1>a, <1>1 DEF ReleasedUnreferenced, IsActive, SessionsTypeOK,
         ThreadsTypeOK, MaySend, RecvCompletes, Goto
    <2>. QED
      BY <2>4, <2>5 DEF RefInv
  <1>1p. ASSUME NEW w \in Workers, NEW s \in Sessions, RecvPiece(w, s)
         PROVE  RefInv'
    <2>1. OnlyMoves(w)
      BY <1>a, <1>1p DEF OnlyMoves, ThreadsTypeOK, RecvPiece, Goto
    <2>3. ASSUME NEW x \in Sessions PROVE Balanced(w, x)
      <3>1. CASE x = s
        <4>1. /\ refCount'[x] = refCount[x]
              /\ recvs'[x] = recvs[x] - 1
              /\ Len(sends'[x]) = Len(sends[x])
          BY <1>a, <1>1p, <3>1 DEF SessionsTypeOK, ThreadsTypeOK,
             ThisKnown, WorkerControl, ChatLabels, RecvPiece, Goto
        <4>2. Received(w, x)' = Received(w, x) + 1
          BY <1>a, <1>1p, <3>1 DEF Received, WorkerControl, ChatLabels,
             SessionsTypeOK, ThreadsTypeOK, RecvPiece, Goto
        <4>3. Held(w, x)' = Held(w, x)
          BY <1>a, <1>1p, <3>1 DEF Held, HoldsRef, WorkerControl,
             AcceptorControl, ThisKnown, ChatLabels, SessionsTypeOK,
             ThreadsTypeOK, RecvPiece, Goto
        <4>4. Changes(w, x, 0, -1, 0, 1, 0)
          BY <1>a, <4>1, <4>2, <4>3, Parts DEF Changes
        <4>. QED
          BY <1>a, <4>4, ChangesBalance
      <3>2. CASE x # s
        <4>1. refCount'[x] = refCount[x] /\ recvs'[x] = recvs[x] /\ sends'[x] = sends[x]
          BY <1>a, <1>1p, <3>2 DEF SessionsTypeOK, ThreadsTypeOK,
             RecvPiece, Goto
        <4>2. Received(w, x)' = Received(w, x)
          BY <1>a, <1>1p, <3>2 DEF Received, WorkerControl, ChatLabels,
             SessionsTypeOK, ThreadsTypeOK, RecvPiece, Goto
        <4>3. Held(w, x)' = Held(w, x)
          BY <1>a, <1>1p, <3>2 DEF Held, HoldsRef, WorkerControl,
             AcceptorControl, ThisKnown, ChatLabels, SessionsTypeOK,
             ThreadsTypeOK, RecvPiece, Goto
        <4>. QED
          BY <1>a, <4>1, <4>2, <4>3, UntouchedBalance DEF Untouched
      <3>. QED
        BY <1>1p, <3>1, <3>2 DEF RecvPiece
    <2>4. RefCountExact'
      BY <1>a, <2>1, <2>3, BalancedStep
    <2>5. ReleasedUnreferenced'
      BY <1>a, <1>1p DEF ReleasedUnreferenced, IsActive, SessionsTypeOK,
         ThreadsTypeOK, MaySend, RecvPiece, Goto
    <2>. QED
      BY <2>4, <2>5 DEF RefInv
  <1>2. ASSUME NEW w \in Workers, NEW s \in Sessions, RecvFails(w, s)
         PROVE  RefInv'
    <2>1. OnlyMoves(w)
      BY <1>a, <1>2 DEF OnlyMoves, ThreadsTypeOK, RecvFails, Call, Goto
    <2>3. ASSUME NEW x \in Sessions PROVE Balanced(w, x)
      BY SMTT(60), <1>a, <1>2 DEF Balanced, Received, Held, HoldsRef, SessionsTypeOK,
         ThreadsTypeOK, ThisKnown, WorkerControl, AcceptorControl, ChatLabels,
         RecvFails, Call, Goto
    <2>4. RefCountExact'
      BY <1>a, <2>1, <2>3, BalancedStep
    <2>5. ReleasedUnreferenced'
      BY <1>a, <1>2 DEF ReleasedUnreferenced, IsActive, SessionsTypeOK,
         ThreadsTypeOK, MaySend, RecvFails, Call, Goto
    <2>. QED
      BY <2>4, <2>5 DEF RefInv
  <1>3. ASSUME NEW w \in Workers, NEW s \in Sessions, SendCompletes(w, s)
         PROVE  RefInv'
    <2>1. OnlyMoves(w)
      BY <1>a, <1>3 DEF OnlyMoves, ThreadsTypeOK, SendCompletes, Call, Goto
    <2>3. ASSUME NEW x \in Sessions PROVE Balanced(w, x)
      BY SMTT(60), <1>a, <1>3 DEF Balanced, Received, Held, HoldsRef, SessionsTypeOK,
         ThreadsTypeOK, ThisKnown, WorkerControl, AcceptorControl, ChatLabels,
         SendCompletes, Call, Goto
    <2>4. RefCountExact'
      BY <1>a, <2>1, <2>3, BalancedStep
    <2>5. ReleasedUnreferenced'
      BY <1>a, <1>3 DEF ReleasedUnreferenced, IsActive, SessionsTypeOK,
         ThreadsTypeOK, MaySend, SendCompletes, Call, Goto
    <2>. QED
      BY <2>4, <2>5 DEF RefInv
  <1>4. ASSUME NEW w \in Workers, NEW s \in Sessions, SendFails(w, s)
         PROVE  RefInv'
    <2>1. OnlyMoves(w)
      BY <1>a, <1>4 DEF OnlyMoves, ThreadsTypeOK, SendFails, Call, Goto
    <2>3. ASSUME NEW x \in Sessions PROVE Balanced(w, x)
      <3>1. CASE x = s
        <4>1. /\ refCount'[x] = refCount[x]
              /\ recvs'[x] = recvs[x]
              /\ Len(sends'[x]) = Len(sends[x]) - 1
          BY <1>a, <1>4, <3>1 DEF SessionsTypeOK, ThreadsTypeOK,
             ThisKnown, WorkerControl, ChatLabels, SendFails, Call, Goto
        <4>2. Received(w, x)' = Received(w, x)
          BY <1>a, <1>4, <3>1 DEF Received, WorkerControl, ChatLabels,
             SessionsTypeOK, ThreadsTypeOK, SendFails, Call, Goto
        <4>3. Held(w, x)' = Held(w, x) + 1
          BY <1>a, <1>4, <3>1 DEF Held, HoldsRef, WorkerControl,
             AcceptorControl, ThisKnown, ChatLabels, SessionsTypeOK,
             ThreadsTypeOK, SendFails, Call, Goto
        <4>4. Changes(w, x, 0, 0, -1, 0, 1)
          BY SMTT(60), <1>a, <4>1, <4>2, <4>3, Parts DEF Changes
        <4>. QED
          BY <1>a, <4>4, ChangesBalance
      <3>2. CASE x # s
        <4>1. refCount'[x] = refCount[x] /\ recvs'[x] = recvs[x] /\ sends'[x] = sends[x]
          BY <1>a, <1>4, <3>2 DEF SessionsTypeOK, ThreadsTypeOK, SendFails,
             Call, Goto
        <4>2. Received(w, x)' = Received(w, x)
          BY <1>a, <1>4, <3>2 DEF Received, WorkerControl, ChatLabels,
             SessionsTypeOK, ThreadsTypeOK, SendFails, Call, Goto
        <4>3. Held(w, x)' = Held(w, x)
          BY <1>a, <1>4, <3>2 DEF Held, HoldsRef, WorkerControl,
             AcceptorControl, ThisKnown, ChatLabels, SessionsTypeOK,
             ThreadsTypeOK, SendFails, Call, Goto
        <4>. QED
          BY <1>a, <4>1, <4>2, <4>3, UntouchedBalance DEF Untouched
      <3>. QED
        BY <1>4, <3>1, <3>2 DEF SendFails
    <2>4. RefCountExact'
      BY <1>a, <2>1, <2>3, BalancedStep
    <2>5. ReleasedUnreferenced'
      BY <1>a, <1>4 DEF ReleasedUnreferenced, IsActive, SessionsTypeOK,
         ThreadsTypeOK, MaySend, SendFails, Call, Goto
    <2>. QED
      BY <2>4, <2>5 DEF RefInv
  <1>5. ASSUME NEW w \in Workers, OnMessage(w)
         PROVE  RefInv'
    <2>1. OnlyMoves(w)
      BY <1>a, <1>5 DEF OnlyMoves, ThreadsTypeOK, OnMessage, Goto
    <2>3. ASSUME NEW x \in Sessions PROVE Balanced(w, x)
      BY SMTT(60), <1>a, <1>5 DEF Balanced, Received, Held, HoldsRef, SessionsTypeOK,
         ThreadsTypeOK, ThisKnown, WorkerControl, AcceptorControl, ChatLabels,
         OnMessage, Goto
    <2>4. RefCountExact'
      BY <1>a, <2>1, <2>3, BalancedStep
    <2>5. ReleasedUnreferenced'
      BY <1>a, <1>5 DEF ReleasedUnreferenced, IsActive, SessionsTypeOK,
         ThreadsTypeOK, MaySend, OnMessage, Goto
    <2>. QED
      BY <2>4, <2>5 DEF RefInv
  <1>6. ASSUME NEW w \in Workers, ChatUnicast(w)
         PROVE  RefInv'
    <2>1. OnlyMoves(w)
      BY <1>a, <1>6 DEF OnlyMoves, ThreadsTypeOK, ChatUnicast, Call, Goto
    <2>3. ASSUME NEW x \in Sessions PROVE Balanced(w, x)
      BY SMTT(60), <1>a, <1>6 DEF Balanced, Received, Held, HoldsRef, SessionsTypeOK,
         ThreadsTypeOK, ThisKnown, WorkerControl, AcceptorControl, ChatLabels,
         ChatUnicast, Call, Goto
    <2>4. RefCountExact'
      BY <1>a, <2>1, <2>3, BalancedStep
    <2>5. ReleasedUnreferenced'
      BY <1>a, <1>6 DEF ReleasedUnreferenced, IsActive, SessionsTypeOK,
         ThreadsTypeOK, MaySend, ChatUnicast, Call, Goto
    <2>. QED
      BY <2>4, <2>5 DEF RefInv
  <1>7. ASSUME NEW w \in Workers, GetSessionPointer(w)
         PROVE  RefInv'
    <2>1. OnlyMoves(w)
      BY <1>a, <1>7 DEF OnlyMoves, ThreadsTypeOK, GetSessionPointer, Goto
    <2>3. ASSUME NEW x \in Sessions PROVE Balanced(w, x)
      BY SMTT(40), <1>a, <1>7 DEF Balanced, Received, Held, HoldsRef, SessionsTypeOK,
         ThreadsTypeOK, ThisKnown, WorkerControl, AcceptorControl, ChatLabels,
         GetSessionPointer, Goto
    <2>4. RefCountExact'
      BY <1>a, <2>1, <2>3, BalancedStep
    <2>5. ReleasedUnreferenced'
      BY <1>a, <1>7 DEF ReleasedUnreferenced, IsActive, SessionsTypeOK,
         ThreadsTypeOK, MaySend, GetSessionPointer, Goto
    <2>. QED
      BY <2>4, <2>5 DEF RefInv
  <1>8. ASSUME NEW w \in Workers, SendPacket(w)
         PROVE  RefInv'
    <2>1. OnlyMoves(w)
      BY <1>a, <1>8 DEF OnlyMoves, ThreadsTypeOK, SendPacket, Goto,
         Enqueue, RequestDisconnect
    <2>3. ASSUME NEW x \in Sessions PROVE Balanced(w, x)
      <3>1. refCount'[x] = refCount[x] /\ recvs'[x] = recvs[x] /\ sends'[x] = sends[x]
        BY <1>a, <1>8 DEF SessionsTypeOK, ThreadsTypeOK, SendPacket, Goto,
           Enqueue, RequestDisconnect
      <3>2. Received(w, x)' = Received(w, x)
        BY <1>a, <1>8 DEF Received, WorkerControl, ChatLabels,
           SessionsTypeOK, ThreadsTypeOK, SendPacket, Goto, Enqueue,
           RequestDisconnect
      <3>3. Held(w, x)' = Held(w, x)
        BY ZenonT(60), <1>a, <1>8 DEF Held, HoldsRef, WorkerControl, AcceptorControl,
           ThisKnown, ChatLabels, SessionsTypeOK, ThreadsTypeOK, SendPacket,
           Goto, Enqueue, RequestDisconnect
      <3>. QED
        BY <1>a, <3>1, <3>2, <3>3, UntouchedBalance DEF Untouched
    <2>4. RefCountExact'
      BY <1>a, <2>1, <2>3, BalancedStep
    <2>5. ReleasedUnreferenced'
      BY <1>a, <1>8 DEF ReleasedUnreferenced, IsActive, SessionsTypeOK,
         ThreadsTypeOK, MaySend, SendPacket, Goto, Enqueue, RequestDisconnect
    <2>. QED
      BY <2>4, <2>5 DEF RefInv
  <1>9. ASSUME NEW w \in Workers, OnRecvEnd(w)
         PROVE  RefInv'
    <2>1. OnlyMoves(w)
      BY <1>a, <1>9 DEF OnlyMoves, ThreadsTypeOK, OnRecvEnd,
         DecrementRefCount, DisconnectSession, Decrement, ReleaseOnDecrement,
         Unreferenced, Clear, DeleteUser, Call, Goto
    <2>2. onRecv[w] \in Sessions /\ refCount[onRecv[w]] >= 1 /\ IsActive(onRecv[w])
      BY <1>a, <1>9, CountedIsActive DEF HoldsRef, ThisKnown,
         WorkerControl, ChatLabels, OnRecvEnd
    <2>3. ASSUME NEW x \in Sessions PROVE Balanced(w, x)
      <3>1. CASE x = onRecv[w]
        <4>1. /\ refCount'[x] = refCount[x] - 1 /\ recvs'[x] = recvs[x]
              /\ Len(sends'[x]) = Len(sends[x])
          BY <1>a, <1>9, <2>2, <3>1 DEF SessionsTypeOK, ThreadsTypeOK,
             ThisKnown, WorkerControl, ChatLabels, OnRecvEnd,
             DecrementRefCount, DisconnectSession, Decrement,
             ReleaseOnDecrement, Unreferenced, Clear, DeleteUser, Call,
             Goto
        <4>2. Received(w, x)' = Received(w, x) - 1
          BY <1>a, <1>9, <2>2, <3>1 DEF Received, WorkerControl,
             ChatLabels, SessionsTypeOK, ThreadsTypeOK, OnRecvEnd,
             DecrementRefCount, DisconnectSession, Decrement,
             ReleaseOnDecrement, Unreferenced, Clear, DeleteUser, Call,
             Goto
        <4>3. Held(w, x)' = Held(w, x)
          BY <1>a, <1>9, <2>2, <3>1 DEF Held, HoldsRef, WorkerControl,
             AcceptorControl, ThisKnown, ChatLabels, SessionsTypeOK,
             ThreadsTypeOK, OnRecvEnd, DecrementRefCount,
             DisconnectSession, Decrement, ReleaseOnDecrement,
             Unreferenced, Clear, DeleteUser, Call, Goto
        <4>4. Changes(w, x, -1, 0, 0, -1, 0)
          BY <1>a, <4>1, <4>2, <4>3, Parts DEF Changes
        <4>. QED
          BY <1>a, <4>4, ChangesBalance
      <3>2. CASE x # onRecv[w]
        <4>1. refCount'[x] = refCount[x] /\ recvs'[x] = recvs[x] /\ sends'[x] = sends[x]
          BY <1>a, <1>9, <2>2, <3>2 DEF SessionsTypeOK, ThreadsTypeOK,
             OnRecvEnd, DecrementRefCount, DisconnectSession, Decrement,
             ReleaseOnDecrement, Unreferenced, Clear, DeleteUser, Call, Goto
        <4>2. Received(w, x)' = Received(w, x)
          BY <1>a, <1>9, <2>2, <3>2 DEF Received, WorkerControl, ChatLabels,
             SessionsTypeOK, ThreadsTypeOK, OnRecvEnd, DecrementRefCount,
             DisconnectSession, Decrement, ReleaseOnDecrement, Unreferenced,
             Clear, DeleteUser, Call, Goto
        <4>3. Held(w, x)' = Held(w, x)
          BY <1>a, <1>9, <2>2, <3>2 DEF Held, HoldsRef, WorkerControl,
             AcceptorControl, ThisKnown, ChatLabels, SessionsTypeOK,
             ThreadsTypeOK, OnRecvEnd, DecrementRefCount, DisconnectSession,
             Decrement, ReleaseOnDecrement, Unreferenced, Clear, DeleteUser,
             Call, Goto
        <4>. QED
          BY <1>a, <4>1, <4>2, <4>3, UntouchedBalance DEF Untouched
      <3>. QED
        BY <1>9, <3>1, <3>2 DEF OnRecvEnd
    <2>4. RefCountExact'
      BY <1>a, <2>1, <2>3, BalancedStep
    <2>5. ReleasedUnreferenced'
      BY SMTT(60), <1>a, <1>9, <2>2 DEF ReleasedUnreferenced, IsActive,
         SessionsTypeOK, ThreadsTypeOK, MaySend, OnRecvEnd, DecrementRefCount,
         DisconnectSession, Decrement, ReleaseOnDecrement, Unreferenced,
         Clear, DeleteUser, Call, Goto
    <2>. QED
      BY <2>4, <2>5 DEF RefInv
  <1>10. ASSUME NEW w \in Workers, PostSend(w)
         PROVE  RefInv'
    <2>1. OnlyMoves(w)
      BY <1>a, <1>10 DEF OnlyMoves, ThreadsTypeOK, PostSend, Goto,
         BeginSend, IncrementRefCount, Resume
    <2>3. ASSUME NEW x \in Sessions PROVE Balanced(w, x)
      BY SMTT(60), <1>a, <1>10 DEF Balanced, Received, Held, HoldsRef,
         SessionsTypeOK, ThreadsTypeOK, ThisKnown, WorkerControl,
         AcceptorControl, ChatLabels, PostSend, Goto, BeginSend,
         IncrementRefCount, Resume
    <2>4. RefCountExact'
      BY <1>a, <2>1, <2>3, BalancedStep
    <2>5. ReleasedUnreferenced'
      BY <1>a, <1>10 DEF ReleasedUnreferenced, IsActive, SessionsTypeOK,
         ThreadsTypeOK, MaySend, PostSend, Goto, BeginSend, IncrementRefCount,
         Resume
    <2>. QED
      BY <2>4, <2>5 DEF RefInv
  <1>11. ASSUME NEW w \in Workers, WSASend(w)
         PROVE  RefInv'
    <2>1. OnlyMoves(w)
      BY <1>a, <1>11 DEF OnlyMoves, ThreadsTypeOK, WSASend, Goto, Resume
    <2>3. ASSUME NEW x \in Sessions PROVE Balanced(w, x)
      <3>1. CASE pc'[w] # "dropRef" /\ x = this[w]
        <4>1. /\ refCount'[x] = refCount[x]
              /\ recvs'[x] = recvs[x]
              /\ Len(sends'[x]) = Len(sends[x]) + 1
          BY <1>a, <1>11, <3>1 DEF SessionsTypeOK, ThreadsTypeOK,
             ThisKnown, WorkerControl, ChatLabels, WSASend, Goto, Resume
        <4>2. Received(w, x)' = Received(w, x)
          BY <1>a, <1>11, <3>1 DEF Received, WorkerControl, ChatLabels,
             SessionsTypeOK, ThreadsTypeOK, WSASend, Goto, Resume
        <4>3. Held(w, x)' = Held(w, x) - 1
          BY SMTT(60), <1>a, <1>11, <3>1 DEF Held, HoldsRef, WorkerControl,
             AcceptorControl, ThisKnown, ChatLabels, SessionsTypeOK,
             ThreadsTypeOK, WSASend, Goto, Resume
        <4>4. Changes(w, x, 0, 0, 1, 0, -1)
          BY <1>a, <4>1, <4>2, <4>3, Parts DEF Changes
        <4>. QED
          BY <1>a, <4>4, ChangesBalance
      <3>2. CASE pc'[w] = "dropRef" \/ x # this[w]
        <4>1. refCount'[x] = refCount[x] /\ recvs'[x] = recvs[x] /\ sends'[x] = sends[x]
          BY <1>a, <1>11, <3>2 DEF SessionsTypeOK, ThreadsTypeOK, WSASend,
             Goto, Resume
        <4>2. Received(w, x)' = Received(w, x)
          BY <1>a, <1>11, <3>2 DEF Received, WorkerControl, ChatLabels,
             SessionsTypeOK, ThreadsTypeOK, WSASend, Goto, Resume
        <4>3. Held(w, x)' = Held(w, x)
          BY <1>a, <1>11, <3>2 DEF Held, HoldsRef, WorkerControl,
             AcceptorControl, ThisKnown, ChatLabels, SessionsTypeOK,
             ThreadsTypeOK, WSASend, Goto, Resume
        <4>. QED
          BY <1>a, <4>1, <4>2, <4>3, UntouchedBalance DEF Untouched
      <3>. QED
        BY <1>11, <3>1, <3>2 DEF WSASend
    <2>4. RefCountExact'
      BY <1>a, <2>1, <2>3, BalancedStep
    <2>5. ReleasedUnreferenced'
      BY <1>a, <1>11 DEF ReleasedUnreferenced, IsActive, SessionsTypeOK,
         ThreadsTypeOK, MaySend, WSASend, Goto, Resume
    <2>. QED
      BY <2>4, <2>5 DEF RefInv
  <1>12. ASSUME NEW w \in Workers, OnSend(w)
         PROVE  RefInv'
    <2>1. OnlyMoves(w)
      BY <1>a, <1>12 DEF OnlyMoves, ThreadsTypeOK, OnSend,
         DecrementRefCount, DisconnectSession, Decrement, ReleaseOnDecrement,
         Unreferenced, Clear, DeleteUser, Call, Goto
    <2>2. this[w] \in Sessions /\ refCount[this[w]] >= 1 /\ IsActive(this[w])
      BY <1>a, <1>12, CountedIsActive DEF HoldsRef, ThisKnown,
         WorkerControl, ChatLabels, OnSend
    <2>3. ASSUME NEW x \in Sessions PROVE Balanced(w, x)
      <3>1. CASE x = this[w]
        <4>1. /\ refCount'[x] = refCount[x] - 1 /\ recvs'[x] = recvs[x]
              /\ Len(sends'[x]) = Len(sends[x])
          BY <1>a, <1>12, <2>2, <3>1 DEF SessionsTypeOK, ThreadsTypeOK,
             ThisKnown, WorkerControl, ChatLabels, OnSend,
             DecrementRefCount, DisconnectSession, Decrement,
             ReleaseOnDecrement, Unreferenced, Clear, DeleteUser, Call,
             Goto
        <4>2. Received(w, x)' = Received(w, x)
          BY <1>a, <1>12, <2>2, <3>1 DEF Received, WorkerControl,
             ChatLabels, SessionsTypeOK, ThreadsTypeOK, OnSend,
             DecrementRefCount, DisconnectSession, Decrement,
             ReleaseOnDecrement, Unreferenced, Clear, DeleteUser, Call,
             Goto
        <4>3. Held(w, x)' = Held(w, x) - 1
          BY <1>a, <1>12, <2>2, <3>1 DEF Held, HoldsRef, WorkerControl,
             AcceptorControl, ThisKnown, ChatLabels, SessionsTypeOK,
             ThreadsTypeOK, OnSend, DecrementRefCount, DisconnectSession,
             Decrement, ReleaseOnDecrement, Unreferenced, Clear,
             DeleteUser, Call, Goto
        <4>4. Changes(w, x, -1, 0, 0, 0, -1)
          BY SMTT(60), <1>a, <4>1, <4>2, <4>3, Parts DEF Changes
        <4>. QED
          BY <1>a, <4>4, ChangesBalance
      <3>2. CASE x # this[w]
        <4>1. refCount'[x] = refCount[x] /\ recvs'[x] = recvs[x] /\ sends'[x] = sends[x]
          BY <1>a, <1>12, <2>2, <3>2 DEF SessionsTypeOK, ThreadsTypeOK,
             OnSend, DecrementRefCount, DisconnectSession, Decrement,
             ReleaseOnDecrement, Unreferenced, Clear, DeleteUser, Call, Goto
        <4>2. Received(w, x)' = Received(w, x)
          BY <1>a, <1>12, <2>2, <3>2 DEF Received, WorkerControl, ChatLabels,
             SessionsTypeOK, ThreadsTypeOK, OnSend, DecrementRefCount,
             DisconnectSession, Decrement, ReleaseOnDecrement, Unreferenced,
             Clear, DeleteUser, Call, Goto
        <4>3. Held(w, x)' = Held(w, x)
          BY <1>a, <1>12, <2>2, <3>2 DEF Held, HoldsRef, WorkerControl,
             AcceptorControl, ThisKnown, ChatLabels, SessionsTypeOK,
             ThreadsTypeOK, OnSend, DecrementRefCount, DisconnectSession,
             Decrement, ReleaseOnDecrement, Unreferenced, Clear, DeleteUser,
             Call, Goto
        <4>. QED
          BY <1>a, <4>1, <4>2, <4>3, UntouchedBalance DEF Untouched
      <3>. QED
        BY <1>12, <3>1, <3>2 DEF OnSend
    <2>4. RefCountExact'
      BY <1>a, <2>1, <2>3, BalancedStep
    <2>5. ReleasedUnreferenced'
      BY SMTT(60), <1>a, <1>12, <2>2 DEF ReleasedUnreferenced, IsActive,
         SessionsTypeOK, ThreadsTypeOK, MaySend, OnSend, DecrementRefCount,
         DisconnectSession, Decrement, ReleaseOnDecrement, Unreferenced,
         Clear, DeleteUser, Call, Goto
    <2>. QED
      BY <2>4, <2>5 DEF RefInv
  <1>13. ASSUME NEW w \in Workers, SendDone(w)
         PROVE  RefInv'
    <2>1. OnlyMoves(w)
      BY <1>a, <1>13 DEF OnlyMoves, ThreadsTypeOK, SendDone, Goto,
         FinishSend
    <2>3. ASSUME NEW x \in Sessions PROVE Balanced(w, x)
      BY SMTT(60), <1>a, <1>13 DEF Balanced, Received, Held, HoldsRef,
         SessionsTypeOK, ThreadsTypeOK, ThisKnown, WorkerControl,
         AcceptorControl, ChatLabels, SendDone, Goto, FinishSend
    <2>4. RefCountExact'
      BY <1>a, <2>1, <2>3, BalancedStep
    <2>5. ReleasedUnreferenced'
      BY <1>a, <1>13 DEF ReleasedUnreferenced, IsActive, SessionsTypeOK,
         ThreadsTypeOK, MaySend, SendDone, Goto, FinishSend
    <2>. QED
      BY <2>4, <2>5 DEF RefInv
  <1>14. ASSUME NEW t \in Threads, PostRecv(t)
         PROVE  RefInv'
    <2>1. OnlyMoves(t)
      BY <1>a, <1>14 DEF OnlyMoves, ThreadsTypeOK, PostRecv, Goto,
         IncrementRefCount, Resume
    <2>3. ASSUME NEW x \in Sessions PROVE Balanced(t, x)
      BY SMTT(60), <1>a, <1>14 DEF Balanced, Received, Held, HoldsRef,
         SessionsTypeOK, ThreadsTypeOK, ThisKnown, WorkerControl,
         AcceptorControl, ChatLabels, PostRecv, Goto, IncrementRefCount,
         Resume
    <2>4. RefCountExact'
      BY <1>a, <2>1, <2>3, BalancedStep
    <2>5. ReleasedUnreferenced'
      BY <1>a, <1>14 DEF ReleasedUnreferenced, IsActive, SessionsTypeOK,
         ThreadsTypeOK, MaySend, PostRecv, Goto, IncrementRefCount, Resume
    <2>. QED
      BY <2>4, <2>5 DEF RefInv
  <1>15. ASSUME NEW t \in Threads, WSARecv(t)
         PROVE  RefInv'
    <2>1. OnlyMoves(t)
      BY <1>a, <1>15 DEF OnlyMoves, ThreadsTypeOK, WSARecv, Goto
    <2>3. ASSUME NEW x \in Sessions PROVE Balanced(t, x)
      <3>1. CASE pc'[t] # "dropRef" /\ x = this[t]
        <4>1. /\ refCount'[x] = refCount[x]
              /\ recvs'[x] = recvs[x] + 1
              /\ Len(sends'[x]) = Len(sends[x])
          BY <1>a, <1>15, <3>1 DEF SessionsTypeOK, ThreadsTypeOK,
             ThisKnown, WorkerControl, ChatLabels, WSARecv, Goto
        <4>2. Received(t, x)' = Received(t, x)
          BY <1>a, <1>15, <3>1 DEF Received, WorkerControl, ChatLabels,
             SessionsTypeOK, ThreadsTypeOK, WSARecv, Goto
        <4>3. Held(t, x)' = Held(t, x) - 1
          BY SMTT(60), <1>a, <1>15, <3>1 DEF Held, HoldsRef, WorkerControl,
             AcceptorControl, ThisKnown, ChatLabels, SessionsTypeOK,
             ThreadsTypeOK, WSARecv, Goto
        <4>4. Changes(t, x, 0, 1, 0, 0, -1)
          BY <1>a, <4>1, <4>2, <4>3, Parts DEF Changes
        <4>. QED
          BY <1>a, <4>4, ChangesBalance
      <3>2. CASE pc'[t] = "dropRef" \/ x # this[t]
        <4>1. refCount'[x] = refCount[x] /\ recvs'[x] = recvs[x] /\ sends'[x] = sends[x]
          BY <1>a, <1>15, <3>2 DEF SessionsTypeOK, ThreadsTypeOK, WSARecv,
             Goto
        <4>2. Received(t, x)' = Received(t, x)
          BY <1>a, <1>15, <3>2 DEF Received, WorkerControl, ChatLabels,
             SessionsTypeOK, ThreadsTypeOK, WSARecv, Goto
        <4>3. Held(t, x)' = Held(t, x)
          BY <1>a, <1>15, <3>2 DEF Held, HoldsRef, WorkerControl,
             AcceptorControl, ThisKnown, ChatLabels, SessionsTypeOK,
             ThreadsTypeOK, WSARecv, Goto
        <4>. QED
          BY <1>a, <4>1, <4>2, <4>3, UntouchedBalance DEF Untouched
      <3>. QED
        BY <1>15, <3>1, <3>2 DEF WSARecv
    <2>4. RefCountExact'
      BY <1>a, <2>1, <2>3, BalancedStep
    <2>5. ReleasedUnreferenced'
      BY <1>a, <1>15 DEF ReleasedUnreferenced, IsActive, SessionsTypeOK,
         ThreadsTypeOK, MaySend, WSARecv, Goto
    <2>. QED
      BY <2>4, <2>5 DEF RefInv
  <1>16. ASSUME NEW t \in Threads, DropRef(t)
         PROVE  RefInv'
    <2>1. OnlyMoves(t)
      BY <1>a, <1>16 DEF OnlyMoves, ThreadsTypeOK, DropRef,
         DisconnectSession, Decrement, Unreferenced, RequestDisconnect, Clear,
         DeleteUser, Call, Goto, Resume
    <2>2. this[t] \in Sessions /\ refCount[this[t]] >= 1 /\ IsActive(this[t])
      BY <1>a, <1>16, CountedIsActive DEF HoldsRef, ThisKnown,
         WorkerControl, ChatLabels, DropRef
    <2>3. ASSUME NEW x \in Sessions PROVE Balanced(t, x)
      <3>1. CASE x = this[t]
        <4>1. /\ refCount'[x] = refCount[x] - 1 /\ recvs'[x] = recvs[x]
              /\ Len(sends'[x]) = Len(sends[x])
          BY <1>a, <1>16, <2>2, <3>1 DEF SessionsTypeOK, ThreadsTypeOK,
             ThisKnown, WorkerControl, ChatLabels, DropRef,
             DisconnectSession, Decrement, Unreferenced, RequestDisconnect,
             Clear, DeleteUser, Call, Goto, Resume
        <4>2. Received(t, x)' = Received(t, x)
          BY <1>a, <1>16, <2>2, <3>1 DEF Received, WorkerControl,
             ChatLabels, SessionsTypeOK, ThreadsTypeOK, DropRef,
             DisconnectSession, Decrement, Unreferenced, RequestDisconnect,
             Clear, DeleteUser, Call, Goto, Resume
        <4>3. Held(t, x)' = Held(t, x) - 1
          BY SMTT(60), <1>a, <1>16, <2>2, <3>1 DEF Held, HoldsRef, WorkerControl,
             AcceptorControl, ThisKnown, ChatLabels, SessionsTypeOK,
             ThreadsTypeOK, DropRef, DisconnectSession, Decrement,
             Unreferenced, RequestDisconnect, Clear, DeleteUser, Call,
             Goto, Resume
        <4>4. Changes(t, x, -1, 0, 0, 0, -1)
          BY SMTT(60), <1>a, <4>1, <4>2, <4>3, Parts DEF Changes
        <4>. QED
          BY <1>a, <4>4, ChangesBalance
      <3>2. CASE x # this[t]
        <4>1. refCount'[x] = refCount[x] /\ recvs'[x] = recvs[x] /\ sends'[x] = sends[x]
          BY <1>a, <1>16, <2>2, <3>2 DEF SessionsTypeOK, ThreadsTypeOK,
             DropRef, DisconnectSession, Decrement, Unreferenced,
             RequestDisconnect, Clear, DeleteUser, Call, Goto, Resume
        <4>2. Received(t, x)' = Received(t, x)
          BY <1>a, <1>16, <2>2, <3>2 DEF Received, WorkerControl, ChatLabels,
             SessionsTypeOK, ThreadsTypeOK, DropRef, DisconnectSession,
             Decrement, Unreferenced, RequestDisconnect, Clear, DeleteUser,
             Call, Goto, Resume
        <4>3. Held(t, x)' = Held(t, x)
          BY <1>a, <1>16, <2>2, <3>2 DEF Held, HoldsRef, WorkerControl,
             AcceptorControl, ThisKnown, ChatLabels, SessionsTypeOK,
             ThreadsTypeOK, DropRef, DisconnectSession, Decrement, Unreferenced,
             RequestDisconnect, Clear, DeleteUser, Call, Goto, Resume
        <4>. QED
          BY <1>a, <4>1, <4>2, <4>3, UntouchedBalance DEF Untouched
      <3>. QED
        BY <1>16, <3>1, <3>2 DEF DropRef
    <2>4. RefCountExact'
      BY <1>a, <2>1, <2>3, BalancedStep
    <2>5. ReleasedUnreferenced'
      BY SMTT(60), <1>a, <1>16, <2>2 DEF ReleasedUnreferenced, IsActive,
         SessionsTypeOK, ThreadsTypeOK, MaySend, DropRef, DisconnectSession,
         Decrement, Unreferenced, RequestDisconnect, Clear, DeleteUser, Call,
         Goto, Resume
    <2>. QED
      BY <2>4, <2>5 DEF RefInv
  <1>17. ASSUME NEW t \in Threads, FreeId(t)
         PROVE  RefInv'
    <2>1. OnlyMoves(t)
      BY <1>a, <1>17 DEF OnlyMoves, ThreadsTypeOK, FreeId, FreeIdLock,
         Goto, Resume
    <2>3. ASSUME NEW x \in Sessions PROVE Balanced(t, x)
      BY SMTT(40), <1>a, <1>17 DEF Balanced, Received, Held, HoldsRef,
         SessionsTypeOK, ThreadsTypeOK, ThisKnown, WorkerControl,
         AcceptorControl, ChatLabels, FreeId, FreeIdLock, Goto, Resume
    <2>4. RefCountExact'
      BY <1>a, <2>1, <2>3, BalancedStep
    <2>5. ReleasedUnreferenced'
      BY <1>a, <1>17 DEF ReleasedUnreferenced, IsActive, SessionsTypeOK,
         ThreadsTypeOK, MaySend, FreeId, FreeIdLock, Goto, Resume
    <2>. QED
      BY <2>4, <2>5 DEF RefInv
  <1>18. ASSUME InitSession
         PROVE  RefInv'
    <2>1. OnlyMoves(Acceptor)
      BY <1>a, <1>18 DEF OnlyMoves, ThreadsTypeOK, InitSession, Init, Goto
    <2>3. ASSUME NEW x \in Sessions PROVE Balanced(Acceptor, x)
      BY <1>a, <1>18 DEF Balanced, Received, Held, HoldsRef,
         SessionsTypeOK, ThreadsTypeOK, ThisKnown, WorkerControl,
         AcceptorControl, ChatLabels, InitSession, Init, Goto
    <2>4. RefCountExact'
      BY <1>a, <2>1, <2>3, BalancedStep
    <2>5. ReleasedUnreferenced'
      BY <1>a, <1>18 DEF ReleasedUnreferenced, IsActive, SessionsTypeOK,
         ThreadsTypeOK, MaySend, InitSession, Init, Goto
    <2>. QED
      BY <2>4, <2>5 DEF RefInv
  <1>19. ASSUME OnConnect
         PROVE  RefInv'
    <2>1. OnlyMoves(Acceptor)
      BY <1>a, <1>19 DEF OnlyMoves, ThreadsTypeOK, OnConnect, CreateUser,
         Goto
    <2>3. ASSUME NEW x \in Sessions PROVE Balanced(Acceptor, x)
      BY <1>a, <1>19 DEF Balanced, Received, Held, HoldsRef,
         SessionsTypeOK, ThreadsTypeOK, ThisKnown, WorkerControl,
         AcceptorControl, ChatLabels, OnConnect, CreateUser, Goto
    <2>4. RefCountExact'
      BY <1>a, <2>1, <2>3, BalancedStep
    <2>5. ReleasedUnreferenced'
      BY <1>a, <1>19 DEF ReleasedUnreferenced, IsActive, SessionsTypeOK,
         ThreadsTypeOK, MaySend, OnConnect, CreateUser, Goto
    <2>. QED
      BY <2>4, <2>5 DEF RefInv
  <1>20. ASSUME SetUserId
         PROVE  RefInv'
    <2>1. OnlyMoves(Acceptor)
      BY <1>a, <1>20 DEF OnlyMoves, ThreadsTypeOK, SetUserId, Goto
    <2>3. ASSUME NEW x \in Sessions PROVE Balanced(Acceptor, x)
      BY SMTT(60), <1>a, <1>20 DEF Balanced, Received, Held, HoldsRef,
         SessionsTypeOK, ThreadsTypeOK, ThisKnown, WorkerControl,
         AcceptorControl, ChatLabels, SetUserId, Goto
    <2>4. RefCountExact'
      BY <1>a, <2>1, <2>3, BalancedStep
    <2>5. ReleasedUnreferenced'
      BY <1>a, <1>20 DEF ReleasedUnreferenced, IsActive, SessionsTypeOK,
         ThreadsTypeOK, MaySend, SetUserId, Goto
    <2>. QED
      BY <2>4, <2>5 DEF RefInv
  <1>21. ASSUME NEW c \in Conns, Accept(c)
         PROVE  RefInv'
    <2>1. OnlyMoves(Acceptor)
      BY <1>a, <1>21 DEF OnlyMoves, ThreadsTypeOK, Accept, GetIdLock,
         GetIdFails, Call, Goto
    <2>3. ASSUME NEW x \in Sessions PROVE Balanced(Acceptor, x)
      BY <1>a, <1>21 DEF Balanced, Received, Held, HoldsRef,
         SessionsTypeOK, ThreadsTypeOK, ThisKnown, WorkerControl,
         AcceptorControl, ChatLabels, Accept, GetIdLock, GetIdFails, Call,
         Goto
    <2>4. RefCountExact'
      BY <1>a, <2>1, <2>3, BalancedStep
    <2>5. ReleasedUnreferenced'
      BY <1>a, <1>21 DEF ReleasedUnreferenced, IsActive, SessionsTypeOK,
         ThreadsTypeOK, MaySend, Accept, GetIdLock, GetIdFails, Call, Goto
    <2>. QED
      BY <2>4, <2>5 DEF RefInv
  <1>22. ASSUME NEW c \in Conns, Say(c)
         PROVE  RefInv'
    <2>1. OnlyMoves(Acceptor)
      BY <1>a, <1>22 DEF OnlyMoves, ThreadsTypeOK, Say
    <2>3. ASSUME NEW x \in Sessions PROVE Balanced(Acceptor, x)
      BY <1>a, <1>22 DEF Balanced, Received, Held, HoldsRef,
         SessionsTypeOK, ThreadsTypeOK, ThisKnown, WorkerControl,
         AcceptorControl, ChatLabels, Say
    <2>4. RefCountExact'
      BY <1>a, <2>1, <2>3, BalancedStep
    <2>5. ReleasedUnreferenced'
      BY <1>a, <1>22 DEF ReleasedUnreferenced, IsActive, SessionsTypeOK,
         ThreadsTypeOK, MaySend, Say
    <2>. QED
      BY <2>4, <2>5 DEF RefInv
  <1>23. ASSUME NEW c \in Conns, Close(c)
         PROVE  RefInv'
    <2>1. OnlyMoves(Acceptor)
      BY <1>a, <1>23 DEF OnlyMoves, ThreadsTypeOK, Close
    <2>3. ASSUME NEW x \in Sessions PROVE Balanced(Acceptor, x)
      BY <1>a, <1>23 DEF Balanced, Received, Held, HoldsRef,
         SessionsTypeOK, ThreadsTypeOK, ThisKnown, WorkerControl,
         AcceptorControl, ChatLabels, Close
    <2>4. RefCountExact'
      BY <1>a, <2>1, <2>3, BalancedStep
    <2>5. ReleasedUnreferenced'
      BY <1>a, <1>23 DEF ReleasedUnreferenced, IsActive, SessionsTypeOK,
         ThreadsTypeOK, MaySend, Close
    <2>. QED
      BY <2>4, <2>5 DEF RefInv
  <1>24. CASE UNCHANGED vars
    BY <1>a, <1>24 DEF vars, RefInv, RefCountExact, ReleasedUnreferenced,
       Receivers, Holders, HoldsRef, IsActive
  <1>. QED
    BY <1>1, <1>1p, <1>2, <1>3, <1>4, <1>5, <1>6, <1>7, <1>8, <1>9, <1>10,
       <1>11,
       <1>12, <1>13, <1>14, <1>15, <1>16, <1>17, <1>18, <1>19, <1>20, <1>21,
       <1>22, <1>23, <1>24
    DEF Next, Completion, Handling, Shared, Accepting

-----------------------------------------------------------------------------
(* An exact count and a released session without references leave no room  *)
(* for anyone inside a released session.                                   *)
LEMMA InUseFromCounts == TypeOK /\ RefInv => InUseIsActive
PROOF
  <1>. SUFFICES ASSUME TypeOK, RefInv, NEW s \in Sessions, ~IsActive(s)
                PROVE  /\ ~(recvs[s] > 0) /\ sends[s] = << >>
                       /\ Receivers(s) = {} /\ Holders(s) = {}
    BY DEF InUseIsActive
  <1>1. recvs[s] \in Nat /\ sends[s] \in Seq(Seq(Frames))
    BY DEF TypeOK, SessionsTypeOK
  <1>2. Len(sends[s]) \in Nat
    BY <1>1
  <1>3. recvs[s] + Len(sends[s])
          + Cardinality(Receivers(s)) + Cardinality(Holders(s)) = 0
    BY DEF RefInv, RefCountExact, ReleasedUnreferenced
  <1>4. /\ recvs[s] = 0 /\ Len(sends[s]) = 0
        /\ Cardinality(Receivers(s)) = 0 /\ Cardinality(Holders(s)) = 0
    BY <1>1, <1>2, <1>3, FiniteInside
  <1>. QED
    BY <1>1, <1>4, FiniteInside, FS_EmptySet, EmptySeq

LEMMA RefInvariant == Spec => [](TypeInv /\ RefInv)
PROOF
  <1>1. ServerInit => TypeInv /\ RefInv
    BY TypeInit, RefInit
  <1>2. (TypeInv /\ RefInv) /\ [Next]_vars => (TypeInv /\ RefInv)'
    BY TypeStep, RefStep
  <1>. QED
    BY <1>1, <1>2, PTL DEF Spec

(* The reference count of every slot is exact in every reachable state.    *)
THEOREM RefCounts == Spec => []RefCountExact
PROOF
  <1>1. TypeInv /\ RefInv => RefCountExact
    BY DEF RefInv
  <1>. QED
    BY RefInvariant, <1>1, PTL

(* No session is released while an operation on it is outstanding, while a *)
(* thread posts or completes one, or while OnRecv handles its frames.      *)
THEOREM NoReleaseInUse == Spec => []InUseIsActive
PROOF
  <1>1. TypeInv /\ RefInv => InUseIsActive
    BY InUseFromCounts DEF TypeInv
  <1>. QED
    BY RefInvariant, <1>1, PTL

-----------------------------------------------------------------------------
(* The slot ids.  IdsConserved is inductive with the reference counts.     *)

(* The stack without its top: injective, and without that id.              *)
LEMMA PopInjective ==
  ASSUME NEW q \in Seq(Sessions), q # << >>, IsInjective(q)
  PROVE  /\ IsInjective(Tail(q)) /\ Head(q) \in Range(q)
         /\ Range(Tail(q)) = Range(q) \ {Head(q)}
PROOF
  <1>1. /\ Len(q) \in Nat /\ Len(q) > 0 /\ Head(q) = q[1]
        /\ Len(Tail(q)) = Len(q) - 1
        /\ \A i \in 1..(Len(q) - 1) : Tail(q)[i] = q[i + 1]
        /\ DOMAIN q = 1..Len(q) /\ DOMAIN Tail(q) = 1..(Len(q) - 1)
    BY HeadTailProperties, EmptySeq
  <1>2. IsInjective(Tail(q))
    BY <1>1 DEF IsInjective
  <1>3. Head(q) \in Range(q)
    BY <1>1 DEF Range
  <1>4. ASSUME NEW x \in Range(Tail(q)) PROVE x \in Range(q) \ {Head(q)}
    <2>1. PICK i \in 1..(Len(q) - 1) : x = q[i + 1]
      BY <1>1, <1>4 DEF Range
    <2>. QED
      BY <1>1, <2>1 DEF Range, IsInjective
  <1>5. ASSUME NEW x \in Range(q) \ {Head(q)} PROVE x \in Range(Tail(q))
    <2>1. PICK i \in 1..Len(q) : x = q[i] /\ i # 1
      BY <1>1, <1>5 DEF Range
    <2>2. i - 1 \in 1..(Len(q) - 1) /\ Tail(q)[i - 1] = x
      BY <1>1, <2>1
    <2>. QED
      BY <1>1, <2>2 DEF Range
  <1>. QED
    BY <1>2, <1>3, <1>4, <1>5

(* The stack under an id that was not on it.                               *)
LEMMA PushInjective ==
  ASSUME NEW q \in Seq(Sessions), NEW s \in Sessions, IsInjective(q),
         s \notin Range(q)
  PROVE  /\ IsInjective(<< s >> \o q)
         /\ Range(<< s >> \o q) = Range(q) \cup {s}
PROOF
  <1>. DEFINE p == << s >> \o q
  <1>1. /\ Len(q) \in Nat /\ DOMAIN q = 1..Len(q)
        /\ DOMAIN p = 1..(Len(q) + 1) /\ p[1] = s
        /\ \A i \in 2..(Len(q) + 1) : p[i] = q[i - 1]
    BY ConcatProperties
  <1>2. \A i \in 2..(Len(q) + 1) : p[i] \in Range(q)
    BY <1>1 DEF Range
  <1>3. IsInjective(p)
    <2>1. SUFFICES ASSUME NEW i \in 1..(Len(q) + 1), NEW j \in 1..(Len(q) + 1),
                          p[i] = p[j]
                   PROVE  i = j
      BY <1>1 DEF IsInjective
    <2>2. i = 1 <=> j = 1
      BY <1>1, <1>2, <2>1
    <2>3. CASE i # 1 /\ j # 1
      BY SMTT(60), <1>1, <2>1, <2>3 DEF IsInjective
    <2>. QED
      BY <2>2, <2>3
  <1>4. \A x \in Range(q) : x \in Range(p)
    <2>1. SUFFICES ASSUME NEW i \in 1..Len(q) PROVE q[i] \in Range(p)
      BY <1>1 DEF Range
    <2>2. i + 1 \in DOMAIN p /\ p[i + 1] = q[i]
      BY <1>1
    <2>. QED
      BY <2>2 DEF Range
  <1>5. s \in Range(p)
    BY <1>1 DEF Range
  <1>6. \A x \in Range(p) : x = s \/ x \in Range(q)
    <2>1. SUFFICES ASSUME NEW i \in 1..(Len(q) + 1)
                   PROVE  p[i] = s \/ p[i] \in Range(q)
      BY <1>1 DEF Range
    <2>. QED
      BY <1>1, <1>2
  <1>. QED
    BY <1>3, <1>4, <1>5, <1>6

(* A step that moves no id and no session keeps the ids conserved.         *)
LEMMA IdsUntouched ==
  ASSUME IdsConserved, UNCHANGED << state, idStack >>,
         \A s \in Sessions : Carriers(s)' = Carriers(s)
  PROVE  IdsConserved'
PROOF
  BY DEF IdsConserved, IsActive

(* The thread that releases an active session carries its id from then on. *)
LEMMA IdReleased ==
  ASSUME TypeOK, IdsConserved, NEW t \in Threads, NEW s \in Sessions,
         IsActive(s), pc[t] \notin {"init", "freeId"}, DisconnectSession(t, s)
  PROVE  IdsConserved'
PROOF
  <1>1. /\ pc'[t] = "freeId" /\ this'[t] = s /\ idStack' = idStack
        /\ \A u \in Threads \ {t} : pc'[u] = pc[u] /\ this'[u] = this[u]
        /\ ~IsActive(s)' /\ \A x \in Sessions \ {s} : state'[x] = state[x]
    BY DEF TypeOK, ThreadsTypeOK, SessionsTypeOK, DisconnectSession, Clear,
       IsActive, Call, Goto
  <1>2. Carriers(s)' = Carriers(s) \cup {t}
    BY <1>1 DEF Carriers
  <1>3. \A x \in Sessions \ {s} : Carriers(x)' = Carriers(x)
    BY <1>1 DEF Carriers
  <1>4. s \notin Range(idStack) /\ Carriers(s) = {}
    BY DEF IdsConserved
  <1>. QED
    BY <1>1, <1>2, <1>3, <1>4 DEF IdsConserved, IsActive

(* All ids are on the stack at first, each once.                           *)
LEMMA IdsInit == ServerInit => IdsConserved
PROOF
  <1>. SUFFICES ASSUME ServerInit PROVE IdsConserved
    OBVIOUS
  <1>1. IsInjective(idStack) /\ Range(idStack) = Sessions
    BY DEF ServerInit, InitSessionIdQueue
  <1>2. \A s \in Sessions : Carriers(s) = {} /\ ~IsActive(s)
    BY DEF ServerInit, SessionInit, Carriers, IsActive
  <1>. QED
    BY <1>1, <1>2 DEF IdsConserved

(* Each step of the server moves an id from one place to one other, or     *)
(* none: a pop, an Init, a release or a push.                              *)
LEMMA IdsStep ==
  TypeInv /\ RefInv /\ IdsConserved /\ [Next]_vars => IdsConserved'
PROOF
  <1>. SUFFICES ASSUME TypeInv, RefInv, IdsConserved, [Next]_vars
                PROVE  IdsConserved'
    OBVIOUS
  <1>. USE ThreadsAssumption, SessionsAssumption
       DEF Threads, flags, queues, io, sessionVars, lobbyVars, lobbyAndPool,
           netVars, threadVars
  <1>a. /\ TypeOK /\ RefInv /\ IdsConserved
        /\ SessionsTypeOK /\ RegistryTypeOK /\ ThreadsTypeOK
        /\ AcceptorControl /\ WorkerControl /\ ThisKnown
    BY DEF TypeInv, TypeOK, ControlOK
  <1>1. ASSUME NEW w \in Workers, NEW s \in Sessions, RecvCompletes(w, s)
        PROVE  IdsConserved'
    <2>1. \A x \in Sessions : Carriers(x)' = Carriers(x)
      BY <1>a, <1>1 DEF Carriers, ThreadsTypeOK, RecvCompletes, Goto
    <2>2. UNCHANGED << state, idStack >>
      BY <1>1 DEF RecvCompletes
    <2>. QED
      BY <1>a, <2>1, <2>2, IdsUntouched
  <1>1p. ASSUME NEW w \in Workers, NEW s \in Sessions, RecvPiece(w, s)
        PROVE  IdsConserved'
    <2>1. \A x \in Sessions : Carriers(x)' = Carriers(x)
      BY <1>a, <1>1p DEF Carriers, ThreadsTypeOK, RecvPiece, Goto
    <2>2. UNCHANGED << state, idStack >>
      BY <1>1p DEF RecvPiece
    <2>. QED
      BY <1>a, <2>1, <2>2, IdsUntouched
  <1>2. ASSUME NEW w \in Workers, NEW s \in Sessions, RecvFails(w, s)
        PROVE  IdsConserved'
    <2>1. \A x \in Sessions : Carriers(x)' = Carriers(x)
      BY <1>a, <1>2 DEF Carriers, ThreadsTypeOK, RecvFails, Call, Goto
    <2>2. UNCHANGED << state, idStack >>
      BY <1>2 DEF RecvFails
    <2>. QED
      BY <1>a, <2>1, <2>2, IdsUntouched
  <1>3. ASSUME NEW w \in Workers, NEW s \in Sessions, SendCompletes(w, s)
        PROVE  IdsConserved'
    <2>1. \A x \in Sessions : Carriers(x)' = Carriers(x)
      BY <1>a, <1>3 DEF Carriers, ThreadsTypeOK, SendCompletes, Call,
         Goto
    <2>2. UNCHANGED << state, idStack >>
      BY <1>3 DEF SendCompletes
    <2>. QED
      BY <1>a, <2>1, <2>2, IdsUntouched
  <1>4. ASSUME NEW w \in Workers, NEW s \in Sessions, SendFails(w, s)
        PROVE  IdsConserved'
    <2>1. \A x \in Sessions : Carriers(x)' = Carriers(x)
      BY <1>a, <1>4 DEF Carriers, ThreadsTypeOK, SendFails, Call, Goto
    <2>2. UNCHANGED << state, idStack >>
      BY <1>4 DEF SendFails
    <2>. QED
      BY <1>a, <2>1, <2>2, IdsUntouched
  <1>5. ASSUME NEW w \in Workers, OnMessage(w)
        PROVE  IdsConserved'
    <2>1. \A x \in Sessions : Carriers(x)' = Carriers(x)
      BY <1>a, <1>5 DEF Carriers, ThreadsTypeOK, OnMessage, Goto
    <2>2. UNCHANGED << state, idStack >>
      BY <1>5 DEF OnMessage
    <2>. QED
      BY <1>a, <2>1, <2>2, IdsUntouched
  <1>6. ASSUME NEW w \in Workers, ChatUnicast(w)
        PROVE  IdsConserved'
    <2>1. \A x \in Sessions : Carriers(x)' = Carriers(x)
      BY <1>a, <1>6 DEF Carriers, ThreadsTypeOK, ChatUnicast, Call,
         Goto
    <2>2. UNCHANGED << state, idStack >>
      BY <1>6 DEF ChatUnicast
    <2>. QED
      BY <1>a, <2>1, <2>2, IdsUntouched
  <1>7. ASSUME NEW w \in Workers, GetSessionPointer(w)
        PROVE  IdsConserved'
    <2>1. \A x \in Sessions : Carriers(x)' = Carriers(x)
      BY <1>a, <1>7 DEF Carriers, ThreadsTypeOK, GetSessionPointer,
         Goto
    <2>2. UNCHANGED << state, idStack >>
      BY <1>7 DEF GetSessionPointer
    <2>. QED
      BY <1>a, <2>1, <2>2, IdsUntouched
  <1>8. ASSUME NEW w \in Workers, SendPacket(w)
        PROVE  IdsConserved'
    <2>1. \A x \in Sessions : Carriers(x)' = Carriers(x)
      BY <1>a, <1>8 DEF Carriers, ThreadsTypeOK, SendPacket, Enqueue,
         RequestDisconnect, Goto
    <2>2. UNCHANGED << state, idStack >>
      BY <1>8 DEF SendPacket
    <2>. QED
      BY <1>a, <2>1, <2>2, IdsUntouched
  <1>9. ASSUME NEW w \in Workers, OnRecvEnd(w)
        PROVE  IdsConserved'
    <2>1. /\ onRecv[w] \in Sessions /\ IsActive(onRecv[w])
          /\ pc[w] \notin {"init", "freeId"}
      BY <1>a, <1>9, CountedIsActive DEF HoldsRef, ThisKnown,
         WorkerControl, ChatLabels, OnRecvEnd
    <2>2. CASE ReleaseOnDecrement(onRecv[w])
      <3>1. DisconnectSession(w, onRecv[w])
        BY <1>9, <2>2 DEF OnRecvEnd, DecrementRefCount
      <3>. QED
        BY <1>a, <2>1, <3>1, IdReleased
    <2>3. CASE ~ReleaseOnDecrement(onRecv[w])
      <3>1. \A x \in Sessions : Carriers(x)' = Carriers(x)
        BY <1>a, <1>9, <2>1, <2>3 DEF Carriers, ThreadsTypeOK,
           OnRecvEnd, DecrementRefCount, Call, Goto
      <3>2. UNCHANGED << state, idStack >>
        BY <1>9, <2>3 DEF OnRecvEnd, DecrementRefCount, Call, Goto
      <3>. QED
        BY <1>a, <3>1, <3>2, IdsUntouched
    <2>. QED
      BY <2>2, <2>3
  <1>10. ASSUME NEW w \in Workers, PostSend(w)
        PROVE  IdsConserved'
    <2>1. \A x \in Sessions : Carriers(x)' = Carriers(x)
      BY <1>a, <1>10 DEF Carriers, ThreadsTypeOK, PostSend, BeginSend,
         IncrementRefCount, Goto, Resume
    <2>2. UNCHANGED << state, idStack >>
      BY <1>10 DEF PostSend
    <2>. QED
      BY <1>a, <2>1, <2>2, IdsUntouched
  <1>11. ASSUME NEW w \in Workers, WSASend(w)
        PROVE  IdsConserved'
    <2>1. \A x \in Sessions : Carriers(x)' = Carriers(x)
      BY <1>a, <1>11 DEF Carriers, ThreadsTypeOK, WSASend, Goto, Resume
    <2>2. UNCHANGED << state, idStack >>
      BY <1>11 DEF WSASend
    <2>. QED
      BY <1>a, <2>1, <2>2, IdsUntouched
  <1>12. ASSUME NEW w \in Workers, OnSend(w)
        PROVE  IdsConserved'
    <2>1. /\ this[w] \in Sessions /\ IsActive(this[w])
          /\ pc[w] \notin {"init", "freeId"}
      BY <1>a, <1>12, CountedIsActive DEF HoldsRef, ThisKnown,
         WorkerControl, ChatLabels, OnSend
    <2>2. CASE ReleaseOnDecrement(this[w])
      <3>1. DisconnectSession(w, this[w])
        BY <1>12, <2>2 DEF OnSend, DecrementRefCount
      <3>. QED
        BY <1>a, <2>1, <3>1, IdReleased
    <2>3. CASE ~ReleaseOnDecrement(this[w])
      <3>1. \A x \in Sessions : Carriers(x)' = Carriers(x)
        BY <1>a, <1>12, <2>1, <2>3 DEF Carriers, ThreadsTypeOK,
           OnSend, DecrementRefCount, Call, Goto
      <3>2. UNCHANGED << state, idStack >>
        BY <1>12, <2>3 DEF OnSend, DecrementRefCount, Call, Goto
      <3>. QED
        BY <1>a, <3>1, <3>2, IdsUntouched
    <2>. QED
      BY <2>2, <2>3
  <1>13. ASSUME NEW w \in Workers, SendDone(w)
        PROVE  IdsConserved'
    <2>1. \A x \in Sessions : Carriers(x)' = Carriers(x)
      BY <1>a, <1>13 DEF Carriers, ThreadsTypeOK, SendDone, FinishSend,
         Goto
    <2>2. UNCHANGED << state, idStack >>
      BY <1>13 DEF SendDone
    <2>. QED
      BY <1>a, <2>1, <2>2, IdsUntouched
  <1>14. ASSUME NEW t \in Threads, PostRecv(t)
        PROVE  IdsConserved'
    <2>1. \A x \in Sessions : Carriers(x)' = Carriers(x)
      BY <1>a, <1>14 DEF Carriers, ThreadsTypeOK, PostRecv,
         IncrementRefCount, Goto, Resume
    <2>2. UNCHANGED << state, idStack >>
      BY <1>14 DEF PostRecv
    <2>. QED
      BY <1>a, <2>1, <2>2, IdsUntouched
  <1>15. ASSUME NEW t \in Threads, WSARecv(t)
        PROVE  IdsConserved'
    <2>1. \A x \in Sessions : Carriers(x)' = Carriers(x)
      BY <1>a, <1>15 DEF Carriers, ThreadsTypeOK, WSARecv, Goto
    <2>2. UNCHANGED << state, idStack >>
      BY <1>15 DEF WSARecv
    <2>. QED
      BY <1>a, <2>1, <2>2, IdsUntouched
  <1>16. ASSUME NEW t \in Threads, DropRef(t)
        PROVE  IdsConserved'
    <2>1. /\ this[t] \in Sessions /\ IsActive(this[t])
          /\ pc[t] \notin {"init", "freeId"}
      BY <1>a, <1>16, CountedIsActive DEF HoldsRef, ThisKnown,
         WorkerControl, ChatLabels, DropRef
    <2>2. CASE Unreferenced(this[t])
      <3>1. DisconnectSession(t, this[t])
        BY <1>16, <2>2 DEF DropRef
      <3>. QED
        BY <1>a, <2>1, <3>1, IdReleased
    <2>3. CASE ~Unreferenced(this[t])
      <3>1. \A x \in Sessions : Carriers(x)' = Carriers(x)
        BY <1>a, <1>16, <2>1, <2>3 DEF Carriers, ThreadsTypeOK,
           DropRef, RequestDisconnect, Call, Goto, Resume
      <3>2. UNCHANGED << state, idStack >>
        BY <1>16, <2>3 DEF DropRef, RequestDisconnect, Call, Goto,
           Resume
      <3>. QED
        BY <1>a, <3>1, <3>2, IdsUntouched
    <2>. QED
      BY <2>2, <2>3
  <1>17. ASSUME NEW t \in Threads, FreeId(t)
        PROVE  IdsConserved'
    <2>. DEFINE s == this[t]
    <2>1. /\ s \in Sessions /\ pc[t] = "freeId" /\ state' = state
          /\ idStack' = << s >> \o idStack
          /\ pc'[t] \notin {"init", "freeId"} /\ this' = this
          /\ \A u \in Threads \ {t} : pc'[u] = pc[u]
      BY <1>a, <1>17 DEF ThisKnown, ThreadsTypeOK, FreeId, FreeIdLock, Goto,
         Resume
    <2>2. t \in Carriers(s) /\ Carriers(s)' = Carriers(s) \ {t}
      BY <2>1 DEF Carriers
    <2>3. \A x \in Sessions \ {s} : Carriers(x)' = Carriers(x)
      BY <2>1 DEF Carriers
    <2>4. s \notin Range(idStack) /\ ~IsActive(s) /\ Carriers(s) = {t}
      BY <1>a, <2>1, <2>2 DEF IdsConserved
    <2>5. IsInjective(idStack') /\ Range(idStack') = Range(idStack) \cup {s}
      BY <1>a, <2>1, <2>4, PushInjective DEF IdsConserved, RegistryTypeOK
    <2>. QED
      BY SMTT(60), <1>a, <2>1, <2>2, <2>3, <2>4, <2>5 DEF IdsConserved, IsActive
  <1>18. ASSUME InitSession
        PROVE  IdsConserved'
    <2>. DEFINE s == this[Acceptor]
    <2>1. /\ s \in Sessions /\ pc[Acceptor] = "init" /\ idStack' = idStack
          /\ pc'[Acceptor] = "postRecv" /\ this' = this
          /\ \A u \in Threads \ {Acceptor} : pc'[u] = pc[u]
          /\ IsActive(s)' /\ \A x \in Sessions \ {s} : state'[x] = state[x]
      BY <1>a, <1>18 DEF ThisKnown, ThreadsTypeOK, SessionsTypeOK, IsActive,
         InitSession, Init, Goto
    <2>2. Acceptor \in Carriers(s) /\ Carriers(s)' = Carriers(s) \ {Acceptor}
      BY <2>1 DEF Carriers
    <2>3. \A x \in Sessions \ {s} : Carriers(x)' = Carriers(x)
      BY <2>1 DEF Carriers
    <2>4. s \notin Range(idStack) /\ Carriers(s) = {Acceptor}
      BY <1>a, <2>1, <2>2 DEF IdsConserved
    <2>. QED
      BY <1>a, <2>1, <2>2, <2>3, <2>4 DEF IdsConserved, IsActive
  <1>19. ASSUME OnConnect
        PROVE  IdsConserved'
    <2>1. \A x \in Sessions : Carriers(x)' = Carriers(x)
      BY <1>a, <1>19 DEF Carriers, ThreadsTypeOK, OnConnect,
         CreateUser, Goto
    <2>2. UNCHANGED << state, idStack >>
      BY <1>19 DEF OnConnect
    <2>. QED
      BY <1>a, <2>1, <2>2, IdsUntouched
  <1>20. ASSUME SetUserId
        PROVE  IdsConserved'
    <2>1. \A x \in Sessions : Carriers(x)' = Carriers(x)
      BY <1>a, <1>20 DEF Carriers, ThreadsTypeOK, SetUserId, Goto
    <2>2. UNCHANGED << state, idStack >>
      BY <1>20 DEF SetUserId
    <2>. QED
      BY <1>a, <2>1, <2>2, IdsUntouched
  <1>21. ASSUME NEW c \in Conns, Accept(c)
        PROVE  IdsConserved'
    <2>1. CASE idStack = << >>
      <3>1. \A x \in Sessions : Carriers(x)' = Carriers(x)
        BY <1>a, <1>21, <2>1 DEF Carriers, ThreadsTypeOK, Accept, GetIdLock,
           GetIdFails, Call, Goto
      <3>. QED
        BY <1>21, <2>1, <3>1, IdsUntouched DEF Accept, GetIdLock, GetIdFails
    <2>2. CASE idStack # << >>
      <3>1. PICK s \in Sessions : GetIdLock(s) /\ Call(Acceptor, s, "init")
        BY <1>21, <2>2 DEF Accept, GetIdFails
      <3>2. /\ pc[Acceptor] = "accept" /\ state' = state
            /\ pc'[Acceptor] = "init" /\ this'[Acceptor] = s
            /\ \A u \in Threads \ {Acceptor} :
                 pc'[u] = pc[u] /\ this'[u] = this[u]
        BY <1>a, <1>21, <3>1 DEF ThreadsTypeOK, Accept, Call, Goto
      <3>3. /\ IsInjective(idStack') /\ s \in Range(idStack)
            /\ Range(idStack') = Range(idStack) \ {s}
        BY <1>a, <3>1, PopInjective DEF IdsConserved, RegistryTypeOK, GetIdLock
      <3>4. Carriers(s)' = Carriers(s) \cup {Acceptor}
        BY <3>2 DEF Carriers
      <3>5. \A x \in Sessions \ {s} : Carriers(x)' = Carriers(x)
        BY <3>2 DEF Carriers
      <3>. QED
        BY <1>a, <3>2, <3>3, <3>4, <3>5 DEF IdsConserved, IsActive
    <2>. QED
      BY <2>1, <2>2
  <1>22. ASSUME NEW c \in Conns, Say(c)
        PROVE  IdsConserved'
    <2>1. \A x \in Sessions : Carriers(x)' = Carriers(x)
      BY <1>a, <1>22 DEF Carriers, ThreadsTypeOK, Say
    <2>2. UNCHANGED << state, idStack >>
      BY <1>22 DEF Say
    <2>. QED
      BY <1>a, <2>1, <2>2, IdsUntouched
  <1>23. ASSUME NEW c \in Conns, Close(c)
        PROVE  IdsConserved'
    <2>1. \A x \in Sessions : Carriers(x)' = Carriers(x)
      BY <1>a, <1>23 DEF Carriers, ThreadsTypeOK, Close
    <2>2. UNCHANGED << state, idStack >>
      BY <1>23 DEF Close
    <2>. QED
      BY <1>a, <2>1, <2>2, IdsUntouched
  <1>24. CASE UNCHANGED vars
    BY <1>a, <1>24 DEF vars, IdsConserved, Carriers, IsActive
  <1>. QED
    BY <1>1, <1>1p, <1>2, <1>3, <1>4, <1>5, <1>6, <1>7, <1>8, <1>9, <1>10,
       <1>11, <1>12, <1>13, <1>14, <1>15, <1>16, <1>17, <1>18, <1>19, <1>20,
       <1>21, <1>22, <1>23, <1>24
    DEF Next, Completion, Handling, Shared, Accepting

(* The slot Session::Init is called on is not in use.                      *)
LEMMA AcceptorCarries ==
  ASSUME IdsConserved, pc[Acceptor] = "init", this[Acceptor] \in Sessions
  PROVE  ~IsActive(this[Acceptor])
PROOF
  <1>1. Acceptor \in Carriers(this[Acceptor])
    BY DEF Carriers, Threads
  <1>. QED
    BY <1>1 DEF IdsConserved

-----------------------------------------------------------------------------
(* The users.  An id is given once, and until the accept thread writes it  *)
(* into the session the lobby routes it there, unless the session has been *)
(* released.                                                               *)

FreshIds == \A u \in DOMAIN users : u < userIdCount

PendingUser ==
  pc[Acceptor] = "setUserId" /\ IsActive(this[Acceptor]) =>
    /\ uid[Acceptor] \in DOMAIN users
    /\ users[uid[Acceptor]] = this[Acceptor]

RouteInv == RoutedToOwnSession /\ FreshIds /\ PendingUser

(* A step that changes neither the registry nor a session's user.          *)
LEMMA RouteUntouched ==
  ASSUME RouteInv, UNCHANGED << state, userId, users, userIdCount >>,
         uid'[Acceptor] = uid[Acceptor],
         \/ pc'[Acceptor] # "setUserId"
         \/ /\ pc'[Acceptor] = pc[Acceptor]
            /\ this'[Acceptor] = this[Acceptor]
  PROVE  RouteInv'
PROOF
  BY DEF RouteInv, RoutedToOwnSession, FreshIds, PendingUser, IsActive

(* A release erases the user of the released session and no other.         *)
LEMMA RouteReleased ==
  ASSUME TypeInv, RouteInv, NEW t \in Threads, NEW s \in Sessions,
         IsActive(s), DisconnectSession(t, s), uid' = uid
  PROVE  RouteInv'
PROOF
  <1>. USE DEF TypeInv, ControlOK
  <1>1. /\ userId' = userId /\ userIdCount' = userIdCount
        /\ DOMAIN users' = DOMAIN users \ {userId[s]}
        /\ \A u \in DOMAIN users' : users'[u] = users[u]
        /\ ~IsActive(s)' /\ \A x \in Sessions \ {s} : state'[x] = state[x]
    BY DEF TypeOK, SessionsTypeOK, DisconnectSession, DeleteUser, Clear,
       IsActive
  <1>2. /\ pc'[t] = "freeId"
        /\ \A u \in Threads \ {t} : pc'[u] = pc[u] /\ this'[u] = this[u]
    BY DEF TypeOK, ThreadsTypeOK, DisconnectSession, Call, Goto
  <1>3. NoUser \notin DOMAIN users
    BY DEF TypeOK, RegistryTypeOK
  <1>4. \A u \in DOMAIN users : users[u] # s => u \in DOMAIN users'
    BY <1>1, <1>3 DEF RouteInv, RoutedToOwnSession
  <1>5. RoutedToOwnSession'
    BY <1>1, <1>4 DEF RouteInv, RoutedToOwnSession, IsActive
  <1>6. FreshIds'
    BY <1>1 DEF RouteInv, FreshIds
  <1>7. PendingUser'
    <2>1. SUFFICES ASSUME pc'[Acceptor] = "setUserId",
                          IsActive(this[Acceptor])'
                   PROVE  /\ uid'[Acceptor] \in DOMAIN users'
                          /\ users'[uid'[Acceptor]] = this'[Acceptor]
      BY DEF PendingUser
    <2>2. /\ pc[Acceptor] = "setUserId" /\ this'[Acceptor] = this[Acceptor]
          /\ Acceptor # t
      BY <1>2, <2>1 DEF Threads
    <2>3. this[Acceptor] # s
      BY <1>1, <2>1, <2>2
    <2>4. IsActive(this[Acceptor])
      BY <1>1, <2>1, <2>2, <2>3 DEF ThisKnown, Threads, IsActive
    <2>. QED
      BY <1>1, <1>4, <2>2, <2>3, <2>4 DEF RouteInv, PendingUser
  <1>. QED
    BY <1>5, <1>6, <1>7 DEF RouteInv

(* Nobody is registered at first.                                          *)
LEMMA RouteInit == ServerInit => RouteInv
PROOF
  BY ThreadsAssumption
  DEF ServerInit, SessionInit, LobbyInit, RouteInv, RoutedToOwnSession,
      FreshIds, PendingUser, IsActive, Threads

(* Each step of the server keeps the routes: those that matter are         *)
(* OnConnect, SetUserId, Init and the releases.                            *)
LEMMA RouteStep ==
  TypeInv /\ RefInv /\ RouteInv /\ [Next]_vars => RouteInv'
PROOF
  <1>. SUFFICES ASSUME TypeInv, RefInv, RouteInv, [Next]_vars
                PROVE  RouteInv'
    OBVIOUS
  <1>. USE ThreadsAssumption, SessionsAssumption
       DEF Threads, flags, queues, io, sessionVars, lobbyVars, lobbyAndPool,
           netVars, threadVars
  <1>a. /\ TypeOK /\ RefInv /\ RouteInv
        /\ RoutedToOwnSession /\ FreshIds /\ PendingUser
        /\ SessionsTypeOK /\ RegistryTypeOK /\ ThreadsTypeOK
        /\ AcceptorControl /\ WorkerControl /\ ThisKnown
    BY DEF TypeInv, TypeOK, ControlOK, RouteInv
  <1>1. ASSUME NEW w \in Workers, NEW s \in Sessions, RecvCompletes(w, s)
        PROVE  RouteInv'
    <2>1. /\ UNCHANGED << state, userId, users, userIdCount >>
          /\ uid'[Acceptor] = uid[Acceptor]
      BY <1>a, <1>1 DEF ThreadsTypeOK, RecvCompletes, Goto
    <2>2. \/ pc'[Acceptor] # "setUserId"
          \/ /\ pc'[Acceptor] = pc[Acceptor]
             /\ this'[Acceptor] = this[Acceptor]
      BY <1>a, <1>1 DEF ThreadsTypeOK, AcceptorControl, AcceptLabels,
         RecvCompletes, Goto
    <2>. QED
      BY <1>a, <2>1, <2>2, RouteUntouched
  <1>1p. ASSUME NEW w \in Workers, NEW s \in Sessions, RecvPiece(w, s)
        PROVE  RouteInv'
    <2>1. /\ UNCHANGED << state, userId, users, userIdCount >>
          /\ uid'[Acceptor] = uid[Acceptor]
      BY <1>a, <1>1p DEF ThreadsTypeOK, RecvPiece, Goto
    <2>2. \/ pc'[Acceptor] # "setUserId"
          \/ /\ pc'[Acceptor] = pc[Acceptor]
             /\ this'[Acceptor] = this[Acceptor]
      BY <1>a, <1>1p DEF ThreadsTypeOK, AcceptorControl, AcceptLabels,
         RecvPiece, Goto
    <2>. QED
      BY <1>a, <2>1, <2>2, RouteUntouched
  <1>2. ASSUME NEW w \in Workers, NEW s \in Sessions, RecvFails(w, s)
        PROVE  RouteInv'
    <2>1. /\ UNCHANGED << state, userId, users, userIdCount >>
          /\ uid'[Acceptor] = uid[Acceptor]
      BY <1>a, <1>2 DEF ThreadsTypeOK, RecvFails, Call, Goto
    <2>2. \/ pc'[Acceptor] # "setUserId"
          \/ /\ pc'[Acceptor] = pc[Acceptor]
             /\ this'[Acceptor] = this[Acceptor]
      BY <1>a, <1>2 DEF ThreadsTypeOK, AcceptorControl, AcceptLabels,
         RecvFails, Call, Goto
    <2>. QED
      BY <1>a, <2>1, <2>2, RouteUntouched
  <1>3. ASSUME NEW w \in Workers, NEW s \in Sessions, SendCompletes(w, s)
        PROVE  RouteInv'
    <2>1. /\ UNCHANGED << state, userId, users, userIdCount >>
          /\ uid'[Acceptor] = uid[Acceptor]
      BY <1>a, <1>3 DEF ThreadsTypeOK, SendCompletes, Call, Goto
    <2>2. \/ pc'[Acceptor] # "setUserId"
          \/ /\ pc'[Acceptor] = pc[Acceptor]
             /\ this'[Acceptor] = this[Acceptor]
      BY <1>a, <1>3 DEF ThreadsTypeOK, AcceptorControl, AcceptLabels,
         SendCompletes, Call, Goto
    <2>. QED
      BY <1>a, <2>1, <2>2, RouteUntouched
  <1>4. ASSUME NEW w \in Workers, NEW s \in Sessions, SendFails(w, s)
        PROVE  RouteInv'
    <2>1. /\ UNCHANGED << state, userId, users, userIdCount >>
          /\ uid'[Acceptor] = uid[Acceptor]
      BY <1>a, <1>4 DEF ThreadsTypeOK, SendFails, Call, Goto
    <2>2. \/ pc'[Acceptor] # "setUserId"
          \/ /\ pc'[Acceptor] = pc[Acceptor]
             /\ this'[Acceptor] = this[Acceptor]
      BY <1>a, <1>4 DEF ThreadsTypeOK, AcceptorControl, AcceptLabels,
         SendFails, Call, Goto
    <2>. QED
      BY <1>a, <2>1, <2>2, RouteUntouched
  <1>5. ASSUME NEW w \in Workers, OnMessage(w)
        PROVE  RouteInv'
    <2>1. /\ UNCHANGED << state, userId, users, userIdCount >>
          /\ uid'[Acceptor] = uid[Acceptor]
      BY <1>a, <1>5 DEF ThreadsTypeOK, OnMessage, Goto
    <2>2. \/ pc'[Acceptor] # "setUserId"
          \/ /\ pc'[Acceptor] = pc[Acceptor]
             /\ this'[Acceptor] = this[Acceptor]
      BY <1>a, <1>5 DEF ThreadsTypeOK, AcceptorControl, AcceptLabels,
         OnMessage, Goto
    <2>. QED
      BY <1>a, <2>1, <2>2, RouteUntouched
  <1>6. ASSUME NEW w \in Workers, ChatUnicast(w)
        PROVE  RouteInv'
    <2>1. /\ UNCHANGED << state, userId, users, userIdCount >>
          /\ uid'[Acceptor] = uid[Acceptor]
      BY <1>a, <1>6 DEF ThreadsTypeOK, ChatUnicast, Call, Goto
    <2>2. \/ pc'[Acceptor] # "setUserId"
          \/ /\ pc'[Acceptor] = pc[Acceptor]
             /\ this'[Acceptor] = this[Acceptor]
      BY <1>a, <1>6 DEF ThreadsTypeOK, AcceptorControl, AcceptLabels,
         ChatUnicast, Call, Goto
    <2>. QED
      BY <1>a, <2>1, <2>2, RouteUntouched
  <1>7. ASSUME NEW w \in Workers, GetSessionPointer(w)
        PROVE  RouteInv'
    <2>1. /\ UNCHANGED << state, userId, users, userIdCount >>
          /\ uid'[Acceptor] = uid[Acceptor]
      BY <1>a, <1>7 DEF ThreadsTypeOK, GetSessionPointer, Goto
    <2>2. \/ pc'[Acceptor] # "setUserId"
          \/ /\ pc'[Acceptor] = pc[Acceptor]
             /\ this'[Acceptor] = this[Acceptor]
      BY <1>a, <1>7 DEF ThreadsTypeOK, AcceptorControl, AcceptLabels,
         GetSessionPointer, Goto
    <2>. QED
      BY <1>a, <2>1, <2>2, RouteUntouched
  <1>8. ASSUME NEW w \in Workers, SendPacket(w)
        PROVE  RouteInv'
    <2>1. /\ UNCHANGED << state, userId, users, userIdCount >>
          /\ uid'[Acceptor] = uid[Acceptor]
      BY <1>a, <1>8 DEF ThreadsTypeOK, SendPacket, Enqueue,
         RequestDisconnect, Goto
    <2>2. \/ pc'[Acceptor] # "setUserId"
          \/ /\ pc'[Acceptor] = pc[Acceptor]
             /\ this'[Acceptor] = this[Acceptor]
      BY <1>a, <1>8 DEF ThreadsTypeOK, AcceptorControl, AcceptLabels,
         SendPacket, Enqueue, RequestDisconnect, Goto
    <2>. QED
      BY <1>a, <2>1, <2>2, RouteUntouched
  <1>9. ASSUME NEW w \in Workers, OnRecvEnd(w)
        PROVE  RouteInv'
    <2>1. onRecv[w] \in Sessions /\ IsActive(onRecv[w])
      BY <1>a, <1>9, CountedIsActive DEF HoldsRef, ThisKnown,
         WorkerControl, ChatLabels, OnRecvEnd
    <2>2. CASE ReleaseOnDecrement(onRecv[w])
      <3>1. DisconnectSession(w, onRecv[w]) /\ uid' = uid
        BY <1>9, <2>2 DEF OnRecvEnd, DecrementRefCount
      <3>. QED
        BY <1>a, <2>1, <3>1, RouteReleased
    <2>3. CASE ~ReleaseOnDecrement(onRecv[w])
      <3>1. UNCHANGED << state, userId, users, userIdCount, uid >>
        BY <1>9, <2>3 DEF OnRecvEnd, DecrementRefCount, Call, Goto
      <3>2. \/ pc'[Acceptor] # "setUserId"
            \/ /\ pc'[Acceptor] = pc[Acceptor]
               /\ this'[Acceptor] = this[Acceptor]
        BY <1>a, <1>9, <2>1, <2>3 DEF ThreadsTypeOK, AcceptorControl,
           AcceptLabels, OnRecvEnd, DecrementRefCount, Call, Goto
      <3>. QED
        BY <1>a, <3>1, <3>2, RouteUntouched
    <2>. QED
      BY <2>2, <2>3
  <1>10. ASSUME NEW w \in Workers, PostSend(w)
        PROVE  RouteInv'
    <2>1. /\ UNCHANGED << state, userId, users, userIdCount >>
          /\ uid'[Acceptor] = uid[Acceptor]
      BY <1>a, <1>10 DEF ThreadsTypeOK, PostSend, BeginSend,
         IncrementRefCount, Goto, Resume
    <2>2. \/ pc'[Acceptor] # "setUserId"
          \/ /\ pc'[Acceptor] = pc[Acceptor]
             /\ this'[Acceptor] = this[Acceptor]
      BY <1>a, <1>10 DEF ThreadsTypeOK, AcceptorControl, AcceptLabels,
         PostSend, BeginSend, IncrementRefCount, Goto, Resume
    <2>. QED
      BY <1>a, <2>1, <2>2, RouteUntouched
  <1>11. ASSUME NEW w \in Workers, WSASend(w)
        PROVE  RouteInv'
    <2>1. /\ UNCHANGED << state, userId, users, userIdCount >>
          /\ uid'[Acceptor] = uid[Acceptor]
      BY <1>a, <1>11 DEF ThreadsTypeOK, WSASend, Goto, Resume
    <2>2. \/ pc'[Acceptor] # "setUserId"
          \/ /\ pc'[Acceptor] = pc[Acceptor]
             /\ this'[Acceptor] = this[Acceptor]
      BY <1>a, <1>11 DEF ThreadsTypeOK, AcceptorControl, AcceptLabels,
         WSASend, Goto, Resume
    <2>. QED
      BY <1>a, <2>1, <2>2, RouteUntouched
  <1>12. ASSUME NEW w \in Workers, OnSend(w)
        PROVE  RouteInv'
    <2>1. this[w] \in Sessions /\ IsActive(this[w])
      BY <1>a, <1>12, CountedIsActive DEF HoldsRef, ThisKnown,
         WorkerControl, ChatLabels, OnSend
    <2>2. CASE ReleaseOnDecrement(this[w])
      <3>1. DisconnectSession(w, this[w]) /\ uid' = uid
        BY <1>12, <2>2 DEF OnSend, DecrementRefCount
      <3>. QED
        BY <1>a, <2>1, <3>1, RouteReleased
    <2>3. CASE ~ReleaseOnDecrement(this[w])
      <3>1. UNCHANGED << state, userId, users, userIdCount, uid >>
        BY <1>12, <2>3 DEF OnSend, DecrementRefCount, Call, Goto
      <3>2. \/ pc'[Acceptor] # "setUserId"
            \/ /\ pc'[Acceptor] = pc[Acceptor]
               /\ this'[Acceptor] = this[Acceptor]
        BY <1>a, <1>12, <2>1, <2>3 DEF ThreadsTypeOK,
           AcceptorControl, AcceptLabels, OnSend, DecrementRefCount,
           Call, Goto
      <3>. QED
        BY <1>a, <3>1, <3>2, RouteUntouched
    <2>. QED
      BY <2>2, <2>3
  <1>13. ASSUME NEW w \in Workers, SendDone(w)
        PROVE  RouteInv'
    <2>1. /\ UNCHANGED << state, userId, users, userIdCount >>
          /\ uid'[Acceptor] = uid[Acceptor]
      BY <1>a, <1>13 DEF ThreadsTypeOK, SendDone, FinishSend, Goto
    <2>2. \/ pc'[Acceptor] # "setUserId"
          \/ /\ pc'[Acceptor] = pc[Acceptor]
             /\ this'[Acceptor] = this[Acceptor]
      BY <1>a, <1>13 DEF ThreadsTypeOK, AcceptorControl, AcceptLabels,
         SendDone, FinishSend, Goto
    <2>. QED
      BY <1>a, <2>1, <2>2, RouteUntouched
  <1>14. ASSUME NEW t \in Threads, PostRecv(t)
        PROVE  RouteInv'
    <2>1. /\ UNCHANGED << state, userId, users, userIdCount >>
          /\ uid'[Acceptor] = uid[Acceptor]
      BY <1>a, <1>14 DEF ThreadsTypeOK, PostRecv, IncrementRefCount,
         Goto, Resume
    <2>2. \/ pc'[Acceptor] # "setUserId"
          \/ /\ pc'[Acceptor] = pc[Acceptor]
             /\ this'[Acceptor] = this[Acceptor]
      BY <1>a, <1>14 DEF ThreadsTypeOK, AcceptorControl, AcceptLabels,
         PostRecv, IncrementRefCount, Goto, Resume
    <2>. QED
      BY <1>a, <2>1, <2>2, RouteUntouched
  <1>15. ASSUME NEW t \in Threads, WSARecv(t)
        PROVE  RouteInv'
    <2>1. /\ UNCHANGED << state, userId, users, userIdCount >>
          /\ uid'[Acceptor] = uid[Acceptor]
      BY <1>a, <1>15 DEF ThreadsTypeOK, WSARecv, Goto
    <2>2. \/ pc'[Acceptor] # "setUserId"
          \/ /\ pc'[Acceptor] = pc[Acceptor]
             /\ this'[Acceptor] = this[Acceptor]
      BY <1>a, <1>15 DEF ThreadsTypeOK, AcceptorControl, AcceptLabels,
         WSARecv, Goto
    <2>. QED
      BY <1>a, <2>1, <2>2, RouteUntouched
  <1>16. ASSUME NEW t \in Threads, DropRef(t)
        PROVE  RouteInv'
    <2>1. this[t] \in Sessions /\ IsActive(this[t])
      BY <1>a, <1>16, CountedIsActive DEF HoldsRef, ThisKnown,
         WorkerControl, ChatLabels, DropRef
    <2>2. CASE Unreferenced(this[t])
      <3>1. DisconnectSession(t, this[t]) /\ uid' = uid
        BY <1>16, <2>2 DEF DropRef
      <3>. QED
        BY <1>a, <2>1, <3>1, RouteReleased
    <2>3. CASE ~Unreferenced(this[t])
      <3>1. UNCHANGED << state, userId, users, userIdCount, uid >>
        BY <1>16, <2>3 DEF DropRef, RequestDisconnect, Call, Goto,
           Resume
      <3>2. \/ pc'[Acceptor] # "setUserId"
            \/ /\ pc'[Acceptor] = pc[Acceptor]
               /\ this'[Acceptor] = this[Acceptor]
        BY <1>a, <1>16, <2>1, <2>3 DEF ThreadsTypeOK,
           AcceptorControl, AcceptLabels, DropRef, RequestDisconnect,
           Call, Goto, Resume
      <3>. QED
        BY <1>a, <3>1, <3>2, RouteUntouched
    <2>. QED
      BY <2>2, <2>3
  <1>17. ASSUME NEW t \in Threads, FreeId(t)
        PROVE  RouteInv'
    <2>1. /\ UNCHANGED << state, userId, users, userIdCount >>
          /\ uid'[Acceptor] = uid[Acceptor]
      BY <1>a, <1>17 DEF ThreadsTypeOK, FreeId, FreeIdLock, Goto,
         Resume
    <2>2. \/ pc'[Acceptor] # "setUserId"
          \/ /\ pc'[Acceptor] = pc[Acceptor]
             /\ this'[Acceptor] = this[Acceptor]
      BY <1>a, <1>17 DEF ThreadsTypeOK, AcceptorControl, AcceptLabels,
         FreeId, FreeIdLock, Goto, Resume
    <2>. QED
      BY <1>a, <2>1, <2>2, RouteUntouched
  <1>18. ASSUME InitSession
        PROVE  RouteInv'
    <2>. DEFINE s == this[Acceptor]
    <2>1. /\ s \in Sessions /\ userId'[s] = NoUser
          /\ pc'[Acceptor] = "postRecv"
          /\ UNCHANGED << users, userIdCount >>
          /\ \A x \in Sessions \ {s} :
               userId'[x] = userId[x] /\ state'[x] = state[x]
      BY <1>a, <1>18 DEF ThisKnown, ThreadsTypeOK, SessionsTypeOK,
         InitSession, Init, Goto, NoUser
    <2>2. RoutedToOwnSession'
      BY <1>a, <2>1 DEF RoutedToOwnSession, IsActive
    <2>. QED
      BY <1>a, <2>1, <2>2 DEF RouteInv, FreshIds, PendingUser
  <1>19. ASSUME OnConnect
        PROVE  RouteInv'
    <2>. DEFINE s == this[Acceptor]
    <2>1. /\ userIdCount \in Nat /\ DOMAIN users \subseteq Nat
          /\ userIdCount \notin DOMAIN users
      BY <1>a DEF RegistryTypeOK, FreshIds
    <2>2. /\ DOMAIN users' = DOMAIN users \cup {userIdCount}
          /\ \A u \in DOMAIN users : users'[u] = users[u]
          /\ users'[userIdCount] = s /\ userIdCount' = userIdCount + 1
          /\ uid'[Acceptor] = userIdCount /\ this' = this
          /\ UNCHANGED << state, userId >>
      BY <1>a, <1>19, <2>1 DEF ThreadsTypeOK, OnConnect, CreateUser, Goto
    <2>3. RoutedToOwnSession'
      BY <1>a, <2>2 DEF RoutedToOwnSession, IsActive
    <2>4. FreshIds'
      BY <1>a, <2>1, <2>2 DEF FreshIds
    <2>5. PendingUser'
      BY <2>2 DEF PendingUser
    <2>. QED
      BY <2>3, <2>4, <2>5 DEF RouteInv
  <1>20. ASSUME SetUserId
        PROVE  RouteInv'
    <2>. DEFINE s == this[Acceptor]
    <2>1. /\ s \in Sessions /\ userId'[s] = uid[Acceptor]
          /\ pc[Acceptor] = "setUserId" /\ pc'[Acceptor] = "accept"
          /\ \A x \in Sessions \ {s} : userId'[x] = userId[x]
          /\ UNCHANGED << state, users, userIdCount >>
      BY <1>a, <1>20 DEF ThisKnown, ThreadsTypeOK, SessionsTypeOK, SetUserId,
         Goto
    <2>2. RoutedToOwnSession'
      BY <1>a, <2>1 DEF RoutedToOwnSession, PendingUser, IsActive
    <2>. QED
      BY <1>a, <2>1, <2>2 DEF RouteInv, FreshIds, PendingUser
  <1>21. ASSUME NEW c \in Conns, Accept(c)
        PROVE  RouteInv'
    <2>1. /\ UNCHANGED << state, userId, users, userIdCount >>
          /\ uid'[Acceptor] = uid[Acceptor]
      BY <1>a, <1>21 DEF ThreadsTypeOK, Accept, GetIdLock, GetIdFails,
         Call, Goto
    <2>2. \/ pc'[Acceptor] # "setUserId"
          \/ /\ pc'[Acceptor] = pc[Acceptor]
             /\ this'[Acceptor] = this[Acceptor]
      BY <1>a, <1>21 DEF ThreadsTypeOK, AcceptorControl, AcceptLabels,
         Accept, GetIdLock, GetIdFails, Call, Goto
    <2>. QED
      BY <1>a, <2>1, <2>2, RouteUntouched
  <1>22. ASSUME NEW c \in Conns, Say(c)
        PROVE  RouteInv'
    <2>1. /\ UNCHANGED << state, userId, users, userIdCount >>
          /\ uid'[Acceptor] = uid[Acceptor]
      BY <1>a, <1>22 DEF ThreadsTypeOK, Say
    <2>2. \/ pc'[Acceptor] # "setUserId"
          \/ /\ pc'[Acceptor] = pc[Acceptor]
             /\ this'[Acceptor] = this[Acceptor]
      BY <1>a, <1>22 DEF ThreadsTypeOK, AcceptorControl, AcceptLabels,
         Say
    <2>. QED
      BY <1>a, <2>1, <2>2, RouteUntouched
  <1>23. ASSUME NEW c \in Conns, Close(c)
        PROVE  RouteInv'
    <2>1. /\ UNCHANGED << state, userId, users, userIdCount >>
          /\ uid'[Acceptor] = uid[Acceptor]
      BY <1>a, <1>23 DEF ThreadsTypeOK, Close
    <2>2. \/ pc'[Acceptor] # "setUserId"
          \/ /\ pc'[Acceptor] = pc[Acceptor]
             /\ this'[Acceptor] = this[Acceptor]
      BY <1>a, <1>23 DEF ThreadsTypeOK, AcceptorControl, AcceptLabels,
         Close
    <2>. QED
      BY <1>a, <2>1, <2>2, RouteUntouched
  <1>24. CASE UNCHANGED vars
    BY <1>a, <1>24, RouteUntouched DEF vars
  <1>. QED
    BY <1>1, <1>1p, <1>2, <1>3, <1>4, <1>5, <1>6, <1>7, <1>8, <1>9, <1>10,
       <1>11, <1>12, <1>13, <1>14, <1>15, <1>16, <1>17, <1>18, <1>19, <1>20,
       <1>21, <1>22, <1>23, <1>24
    DEF Next, Completion, Handling, Shared, Accepting

-----------------------------------------------------------------------------
(* The chat path.  A worker answers a frame through the session it has     *)
(* received it from: the reference it holds keeps that session active, so  *)
(* neither Init nor a release changes its user between OnMessage and       *)
(* ChatUnicast, and SetUserId writes where there was none.                 *)

NotYetNamed ==
  /\ pc[Acceptor] \in {"postRecv", "WSARecv", "onConnect", "setUserId"}
  /\ IsActive(this[Acceptor])
  => userId[this[Acceptor]] = NoUser

ReadsOwn ==
  \A w \in Workers :
    pc[w] = "chatUnicast" => uid[w] \in {NoUser, userId[onRecv[w]]}

ChatInv == NotYetNamed /\ ReadsOwn /\ AnswersOwn

(* A step that changes no user and no session, of a thread that keeps the  *)
(* two facts about itself.                                                 *)
LEMMA ChatUntouched ==
  ASSUME ChatInv, NEW t \in Threads, OnlyMoves(t), userId' = userId,
         \A s \in Sessions : IsActive(s)' => IsActive(s),
         ThisKnown,
         \A w \in Workers \ {t} : uid'[w] = uid[w],
         t = Acceptor => NotYetNamed',
         t \in Workers =>
           /\ pc'[t] = "chatUnicast" => uid'[t] \in {NoUser, userId'[onRecv'[t]]}
           /\ \/ pc'[t] \in {"getSession", "sendPacket"}
              \/ pc'[t] = "postSend" /\ onRecv'[t] # NoSession
              => this'[t] = onRecv'[t]
  PROVE  ChatInv'
PROOF
  <1>1. NotYetNamed'
    <2>1. CASE t = Acceptor
      BY <2>1
    <2>2. CASE t # Acceptor
      BY <2>2 DEF ChatInv, NotYetNamed, OnlyMoves, ThisKnown, Threads
    <2>. QED
      BY <2>1, <2>2
  <1>2. ReadsOwn' /\ AnswersOwn'
    <2>1. SUFFICES ASSUME NEW w \in Workers
                   PROVE  /\ pc'[w] = "chatUnicast"
                               => uid'[w] \in {NoUser, userId'[onRecv'[w]]}
                          /\ \/ pc'[w] \in {"getSession", "sendPacket"}
                             \/ pc'[w] = "postSend" /\ onRecv'[w] # NoSession
                             => this'[w] = onRecv'[w]
      BY DEF ReadsOwn, AnswersOwn
    <2>2. CASE w = t
      BY <2>2
    <2>3. CASE w # t
      BY <2>3 DEF ChatInv, ReadsOwn, AnswersOwn, OnlyMoves, Threads
    <2>. QED
      BY <2>2, <2>3
  <1>. QED
    BY <1>1, <1>2 DEF ChatInv

LEMMA ChatInit == ServerInit => ChatInv
PROOF
  BY ThreadsAssumption
  DEF ServerInit, ChatInv, NotYetNamed, ReadsOwn, AnswersOwn,
      Threads

(* Each step of the server keeps a worker on its session.                  *)
LEMMA ChatStep ==
  TypeInv /\ RefInv /\ IdsConserved /\ RouteInv /\ ChatInv /\ [Next]_vars
    => ChatInv'
PROOF
  <1>. SUFFICES ASSUME TypeInv, RefInv, IdsConserved, RouteInv, ChatInv,
                       [Next]_vars
                PROVE  ChatInv'
    OBVIOUS
  <1>. USE ThreadsAssumption, SessionsAssumption
       DEF Threads, flags, queues, io, sessionVars, lobbyVars, lobbyAndPool,
           netVars, threadVars
  <1>a. /\ TypeOK /\ RefInv /\ RouteInv /\ ChatInv
        /\ SessionsTypeOK /\ RegistryTypeOK /\ ThreadsTypeOK
        /\ AcceptorControl /\ WorkerControl /\ ThisKnown
    BY DEF TypeInv, TypeOK, ControlOK
  <1>1. ASSUME NEW w \in Workers, NEW s \in Sessions, RecvCompletes(w, s)
        PROVE  ChatInv'
    <2>1. OnlyMoves(w) /\ \A u \in Workers \ {w} : uid'[u] = uid[u]
      BY <1>a, <1>1 DEF OnlyMoves, ThreadsTypeOK, RecvCompletes, Goto
    <2>2. /\ userId' = userId
          /\ \A x \in Sessions : IsActive(x)' => IsActive(x)
      BY <1>a, <1>1 DEF SessionsTypeOK, IsActive, RecvCompletes, Goto
    <2>3. /\ pc'[w] = "chatUnicast"
               => uid'[w] \in {NoUser, userId'[onRecv'[w]]}
          /\ \/ pc'[w] \in {"getSession", "sendPacket"}
             \/ pc'[w] = "postSend" /\ onRecv'[w] # NoSession
             => this'[w] = onRecv'[w]
      BY <1>a, <1>1 DEF ThreadsTypeOK, WorkerControl, ChatLabels,
         ChatInv, ReadsOwn, AnswersOwn, RecvCompletes, Goto
    <2>. QED
      BY <1>a, <2>1, <2>2, <2>3, ChatUntouched
  <1>1p. ASSUME NEW w \in Workers, NEW s \in Sessions, RecvPiece(w, s)
        PROVE  ChatInv'
    <2>1. OnlyMoves(w) /\ \A u \in Workers \ {w} : uid'[u] = uid[u]
      BY <1>a, <1>1p DEF OnlyMoves, ThreadsTypeOK, RecvPiece, Goto
    <2>2. /\ userId' = userId
          /\ \A x \in Sessions : IsActive(x)' => IsActive(x)
      BY <1>a, <1>1p DEF SessionsTypeOK, IsActive, RecvPiece, Goto
    <2>3. /\ pc'[w] = "chatUnicast"
               => uid'[w] \in {NoUser, userId'[onRecv'[w]]}
          /\ \/ pc'[w] \in {"getSession", "sendPacket"}
             \/ pc'[w] = "postSend" /\ onRecv'[w] # NoSession
             => this'[w] = onRecv'[w]
      BY <1>a, <1>1p DEF ThreadsTypeOK, WorkerControl, ChatLabels,
         ChatInv, ReadsOwn, AnswersOwn, RecvPiece, Goto
    <2>. QED
      BY <1>a, <2>1, <2>2, <2>3, ChatUntouched
  <1>2. ASSUME NEW w \in Workers, NEW s \in Sessions, RecvFails(w, s)
        PROVE  ChatInv'
    <2>1. OnlyMoves(w) /\ \A u \in Workers \ {w} : uid'[u] = uid[u]
      BY <1>a, <1>2 DEF OnlyMoves, ThreadsTypeOK, RecvFails, Call, Goto
    <2>2. /\ userId' = userId
          /\ \A x \in Sessions : IsActive(x)' => IsActive(x)
      BY <1>a, <1>2 DEF SessionsTypeOK, IsActive, RecvFails, Call, Goto
    <2>3. /\ pc'[w] = "chatUnicast"
               => uid'[w] \in {NoUser, userId'[onRecv'[w]]}
          /\ \/ pc'[w] \in {"getSession", "sendPacket"}
             \/ pc'[w] = "postSend" /\ onRecv'[w] # NoSession
             => this'[w] = onRecv'[w]
      BY <1>a, <1>2 DEF ThreadsTypeOK, WorkerControl, ChatLabels,
         ChatInv, ReadsOwn, AnswersOwn, RecvFails, Call, Goto
    <2>. QED
      BY <1>a, <2>1, <2>2, <2>3, ChatUntouched
  <1>3. ASSUME NEW w \in Workers, NEW s \in Sessions, SendCompletes(w, s)
        PROVE  ChatInv'
    <2>1. OnlyMoves(w) /\ \A u \in Workers \ {w} : uid'[u] = uid[u]
      BY <1>a, <1>3 DEF OnlyMoves, ThreadsTypeOK, SendCompletes, Call,
         Goto
    <2>2. /\ userId' = userId
          /\ \A x \in Sessions : IsActive(x)' => IsActive(x)
      BY <1>a, <1>3 DEF SessionsTypeOK, IsActive, SendCompletes, Call,
         Goto
    <2>3. /\ pc'[w] = "chatUnicast"
               => uid'[w] \in {NoUser, userId'[onRecv'[w]]}
          /\ \/ pc'[w] \in {"getSession", "sendPacket"}
             \/ pc'[w] = "postSend" /\ onRecv'[w] # NoSession
             => this'[w] = onRecv'[w]
      BY <1>a, <1>3 DEF ThreadsTypeOK, WorkerControl, ChatLabels,
         ChatInv, ReadsOwn, AnswersOwn, SendCompletes, Call, Goto
    <2>. QED
      BY <1>a, <2>1, <2>2, <2>3, ChatUntouched
  <1>4. ASSUME NEW w \in Workers, NEW s \in Sessions, SendFails(w, s)
        PROVE  ChatInv'
    <2>1. OnlyMoves(w) /\ \A u \in Workers \ {w} : uid'[u] = uid[u]
      BY <1>a, <1>4 DEF OnlyMoves, ThreadsTypeOK, SendFails, Call, Goto
    <2>2. /\ userId' = userId
          /\ \A x \in Sessions : IsActive(x)' => IsActive(x)
      BY <1>a, <1>4 DEF SessionsTypeOK, IsActive, SendFails, Call, Goto
    <2>3. /\ pc'[w] = "chatUnicast"
               => uid'[w] \in {NoUser, userId'[onRecv'[w]]}
          /\ \/ pc'[w] \in {"getSession", "sendPacket"}
             \/ pc'[w] = "postSend" /\ onRecv'[w] # NoSession
             => this'[w] = onRecv'[w]
      BY <1>a, <1>4 DEF ThreadsTypeOK, WorkerControl, ChatLabels,
         ChatInv, ReadsOwn, AnswersOwn, SendFails, Call, Goto
    <2>. QED
      BY <1>a, <2>1, <2>2, <2>3, ChatUntouched
  <1>5. ASSUME NEW w \in Workers, OnMessage(w)
        PROVE  ChatInv'
    <2>1. OnlyMoves(w) /\ \A u \in Workers \ {w} : uid'[u] = uid[u]
      BY <1>a, <1>5 DEF OnlyMoves, ThreadsTypeOK, OnMessage, Goto
    <2>2. /\ userId' = userId
          /\ \A s \in Sessions : IsActive(s)' => IsActive(s)
      BY <1>a, <1>5 DEF SessionsTypeOK, IsActive, OnMessage, Goto
    <2>3. /\ pc'[w] = "chatUnicast"
               => uid'[w] \in {NoUser, userId'[onRecv'[w]]}
          /\ \/ pc'[w] \in {"getSession", "sendPacket"}
             \/ pc'[w] = "postSend" /\ onRecv'[w] # NoSession
             => this'[w] = onRecv'[w]
      BY <1>a, <1>5 DEF ThreadsTypeOK, WorkerControl, ChatLabels,
         ChatInv, ReadsOwn, AnswersOwn, OnMessage, Goto
    <2>. QED
      BY <1>a, <2>1, <2>2, <2>3, ChatUntouched
  <1>6. ASSUME NEW w \in Workers, ChatUnicast(w)
        PROVE  ChatInv'
    <2>1. /\ onRecv[w] \in Sessions /\ IsActive(onRecv[w])
          /\ uid[w] \in {NoUser, userId[onRecv[w]]}
          /\ NoUser \notin DOMAIN users
      BY <1>a, <1>6, CountedIsActive DEF WorkerControl, ChatLabels,
         RegistryTypeOK, ChatInv, ReadsOwn, ChatUnicast
    <2>2. uid[w] \in DOMAIN users => users[uid[w]] = onRecv[w]
      BY <1>a, <2>1 DEF RouteInv, RoutedToOwnSession
    <2>3. OnlyMoves(w)
      BY <1>a, <1>6 DEF OnlyMoves, ThreadsTypeOK, ChatUnicast, Call, Goto
    <2>4. /\ pc'[w] # "chatUnicast"
          /\ pc'[w] = "getSession" => this'[w] = onRecv'[w]
          /\ pc'[w] \in {"getSession", "onMessage"}
          /\ UNCHANGED << userId, state >>
          /\ \A u \in Workers \ {w} : uid'[u] = uid[u]
      BY <1>a, <1>6, <2>2 DEF ThreadsTypeOK, ChatUnicast, Call, Goto
    <2>. QED
      BY <1>a, <2>3, <2>4, ChatUntouched DEF IsActive
  <1>7. ASSUME NEW w \in Workers, GetSessionPointer(w)
        PROVE  ChatInv'
    <2>1. OnlyMoves(w) /\ \A u \in Workers \ {w} : uid'[u] = uid[u]
      BY <1>a, <1>7 DEF OnlyMoves, ThreadsTypeOK, GetSessionPointer,
         Goto
    <2>2. /\ userId' = userId
          /\ \A s \in Sessions : IsActive(s)' => IsActive(s)
      BY <1>a, <1>7 DEF SessionsTypeOK, IsActive, GetSessionPointer,
         Goto
    <2>3. /\ pc'[w] = "chatUnicast"
               => uid'[w] \in {NoUser, userId'[onRecv'[w]]}
          /\ \/ pc'[w] \in {"getSession", "sendPacket"}
             \/ pc'[w] = "postSend" /\ onRecv'[w] # NoSession
             => this'[w] = onRecv'[w]
      BY <1>a, <1>7 DEF ThreadsTypeOK, WorkerControl, ChatLabels,
         ChatInv, ReadsOwn, AnswersOwn, GetSessionPointer, Goto
    <2>. QED
      BY <1>a, <2>1, <2>2, <2>3, ChatUntouched
  <1>8. ASSUME NEW w \in Workers, SendPacket(w)
        PROVE  ChatInv'
    <2>1. OnlyMoves(w) /\ \A u \in Workers \ {w} : uid'[u] = uid[u]
      BY <1>a, <1>8 DEF OnlyMoves, ThreadsTypeOK, SendPacket, Enqueue,
         RequestDisconnect, Goto
    <2>2. /\ userId' = userId
          /\ \A s \in Sessions : IsActive(s)' => IsActive(s)
      BY <1>a, <1>8 DEF SessionsTypeOK, IsActive, SendPacket, Enqueue,
         RequestDisconnect, Goto
    <2>3. /\ pc'[w] = "chatUnicast"
               => uid'[w] \in {NoUser, userId'[onRecv'[w]]}
          /\ \/ pc'[w] \in {"getSession", "sendPacket"}
             \/ pc'[w] = "postSend" /\ onRecv'[w] # NoSession
             => this'[w] = onRecv'[w]
      BY <1>a, <1>8 DEF ThreadsTypeOK, WorkerControl, ChatLabels,
         ChatInv, ReadsOwn, AnswersOwn, SendPacket, Enqueue,
         RequestDisconnect, Goto
    <2>. QED
      BY <1>a, <2>1, <2>2, <2>3, ChatUntouched
  <1>9. ASSUME NEW w \in Workers, OnRecvEnd(w)
        PROVE  ChatInv'
    <2>1. OnlyMoves(w) /\ \A u \in Workers \ {w} : uid'[u] = uid[u]
      BY <1>a, <1>9 DEF OnlyMoves, ThreadsTypeOK, OnRecvEnd,
         DecrementRefCount, DisconnectSession, Decrement,
         ReleaseOnDecrement, Unreferenced, Clear, DeleteUser, Call,
         Goto
    <2>2. /\ userId' = userId
          /\ \A s \in Sessions : IsActive(s)' => IsActive(s)
      BY <1>a, <1>9 DEF SessionsTypeOK, IsActive, OnRecvEnd,
         DecrementRefCount, DisconnectSession, Decrement,
         ReleaseOnDecrement, Unreferenced, Clear, DeleteUser, Call,
         Goto
    <2>3. /\ pc'[w] = "chatUnicast"
               => uid'[w] \in {NoUser, userId'[onRecv'[w]]}
          /\ \/ pc'[w] \in {"getSession", "sendPacket"}
             \/ pc'[w] = "postSend" /\ onRecv'[w] # NoSession
             => this'[w] = onRecv'[w]
      BY <1>a, <1>9 DEF ThreadsTypeOK, WorkerControl, ChatLabels,
         ChatInv, ReadsOwn, AnswersOwn, OnRecvEnd, DecrementRefCount,
         DisconnectSession, Decrement, ReleaseOnDecrement,
         Unreferenced, Clear, DeleteUser, Call, Goto
    <2>. QED
      BY <1>a, <2>1, <2>2, <2>3, ChatUntouched
  <1>10. ASSUME NEW w \in Workers, PostSend(w)
        PROVE  ChatInv'
    <2>1. OnlyMoves(w) /\ \A u \in Workers \ {w} : uid'[u] = uid[u]
      BY <1>a, <1>10 DEF OnlyMoves, ThreadsTypeOK, PostSend, BeginSend,
         IncrementRefCount, Goto, Resume
    <2>2. /\ userId' = userId
          /\ \A s \in Sessions : IsActive(s)' => IsActive(s)
      BY <1>a, <1>10 DEF SessionsTypeOK, IsActive, PostSend, BeginSend,
         IncrementRefCount, Goto, Resume
    <2>3. /\ pc'[w] = "chatUnicast"
               => uid'[w] \in {NoUser, userId'[onRecv'[w]]}
          /\ \/ pc'[w] \in {"getSession", "sendPacket"}
             \/ pc'[w] = "postSend" /\ onRecv'[w] # NoSession
             => this'[w] = onRecv'[w]
      BY <1>a, <1>10 DEF ThreadsTypeOK, WorkerControl, ChatLabels,
         ChatInv, ReadsOwn, AnswersOwn, PostSend, BeginSend,
         IncrementRefCount, Goto, Resume
    <2>. QED
      BY <1>a, <2>1, <2>2, <2>3, ChatUntouched
  <1>11. ASSUME NEW w \in Workers, WSASend(w)
        PROVE  ChatInv'
    <2>1. OnlyMoves(w) /\ \A u \in Workers \ {w} : uid'[u] = uid[u]
      BY <1>a, <1>11 DEF OnlyMoves, ThreadsTypeOK, WSASend, Goto,
         Resume
    <2>2. /\ userId' = userId
          /\ \A s \in Sessions : IsActive(s)' => IsActive(s)
      BY <1>a, <1>11 DEF SessionsTypeOK, IsActive, WSASend, Goto,
         Resume
    <2>3. /\ pc'[w] = "chatUnicast"
               => uid'[w] \in {NoUser, userId'[onRecv'[w]]}
          /\ \/ pc'[w] \in {"getSession", "sendPacket"}
             \/ pc'[w] = "postSend" /\ onRecv'[w] # NoSession
             => this'[w] = onRecv'[w]
      BY <1>a, <1>11 DEF ThreadsTypeOK, WorkerControl, ChatLabels,
         ChatInv, ReadsOwn, AnswersOwn, WSASend, Goto, Resume
    <2>. QED
      BY <1>a, <2>1, <2>2, <2>3, ChatUntouched
  <1>12. ASSUME NEW w \in Workers, OnSend(w)
        PROVE  ChatInv'
    <2>1. OnlyMoves(w) /\ \A u \in Workers \ {w} : uid'[u] = uid[u]
      BY <1>a, <1>12 DEF OnlyMoves, ThreadsTypeOK, OnSend,
         DecrementRefCount, DisconnectSession, Decrement,
         ReleaseOnDecrement, Unreferenced, Clear, DeleteUser, Call,
         Goto
    <2>2. /\ userId' = userId
          /\ \A s \in Sessions : IsActive(s)' => IsActive(s)
      BY <1>a, <1>12 DEF SessionsTypeOK, IsActive, OnSend,
         DecrementRefCount, DisconnectSession, Decrement,
         ReleaseOnDecrement, Unreferenced, Clear, DeleteUser, Call,
         Goto
    <2>3. /\ pc'[w] = "chatUnicast"
               => uid'[w] \in {NoUser, userId'[onRecv'[w]]}
          /\ \/ pc'[w] \in {"getSession", "sendPacket"}
             \/ pc'[w] = "postSend" /\ onRecv'[w] # NoSession
             => this'[w] = onRecv'[w]
      BY <1>a, <1>12 DEF ThreadsTypeOK, WorkerControl, ChatLabels,
         ChatInv, ReadsOwn, AnswersOwn, OnSend, DecrementRefCount,
         DisconnectSession, Decrement, ReleaseOnDecrement,
         Unreferenced, Clear, DeleteUser, Call, Goto
    <2>. QED
      BY <1>a, <2>1, <2>2, <2>3, ChatUntouched
  <1>13. ASSUME NEW w \in Workers, SendDone(w)
        PROVE  ChatInv'
    <2>1. OnlyMoves(w) /\ \A u \in Workers \ {w} : uid'[u] = uid[u]
      BY <1>a, <1>13 DEF OnlyMoves, ThreadsTypeOK, SendDone,
         FinishSend, Goto
    <2>2. /\ userId' = userId
          /\ \A s \in Sessions : IsActive(s)' => IsActive(s)
      BY <1>a, <1>13 DEF SessionsTypeOK, IsActive, SendDone,
         FinishSend, Goto
    <2>3. /\ pc'[w] = "chatUnicast"
               => uid'[w] \in {NoUser, userId'[onRecv'[w]]}
          /\ \/ pc'[w] \in {"getSession", "sendPacket"}
             \/ pc'[w] = "postSend" /\ onRecv'[w] # NoSession
             => this'[w] = onRecv'[w]
      BY <1>a, <1>13 DEF ThreadsTypeOK, WorkerControl, ChatLabels,
         ChatInv, ReadsOwn, AnswersOwn, SendDone, FinishSend, Goto
    <2>. QED
      BY <1>a, <2>1, <2>2, <2>3, ChatUntouched
  <1>14. ASSUME NEW t \in Threads, PostRecv(t)
        PROVE  ChatInv'
    <2>1. OnlyMoves(t) /\ \A u \in Workers \ {t} : uid'[u] = uid[u]
      BY <1>a, <1>14 DEF OnlyMoves, ThreadsTypeOK, PostRecv,
         IncrementRefCount, Goto, Resume
    <2>2. /\ userId' = userId
          /\ \A s \in Sessions : IsActive(s)' => IsActive(s)
      BY <1>a, <1>14 DEF SessionsTypeOK, IsActive, PostRecv,
         IncrementRefCount, Goto, Resume
    <2>3. t = Acceptor => NotYetNamed'
      BY <1>a, <1>14, <2>2 DEF ThreadsTypeOK, ThisKnown,
         AcceptorControl, AcceptLabels, ChatInv, NotYetNamed, PostRecv,
         IncrementRefCount, Goto, Resume
    <2>4. t \in Workers =>
            pc'[t] \notin {"chatUnicast", "getSession", "sendPacket",
                          "postSend"}
      BY <1>a, <1>14 DEF ThreadsTypeOK, WorkerControl, ChatLabels,
         ChatInv, ReadsOwn, AnswersOwn, PostRecv, IncrementRefCount,
         Goto, Resume
    <2>. QED
      BY <1>a, <2>1, <2>2, <2>3, <2>4, ChatUntouched
  <1>15. ASSUME NEW t \in Threads, WSARecv(t)
        PROVE  ChatInv'
    <2>1. OnlyMoves(t) /\ \A u \in Workers \ {t} : uid'[u] = uid[u]
      BY <1>a, <1>15 DEF OnlyMoves, ThreadsTypeOK, WSARecv, Goto
    <2>2. /\ userId' = userId
          /\ \A s \in Sessions : IsActive(s)' => IsActive(s)
      BY <1>a, <1>15 DEF SessionsTypeOK, IsActive, WSARecv, Goto
    <2>3. t = Acceptor => NotYetNamed'
      BY <1>a, <1>15, <2>2 DEF ThreadsTypeOK, ThisKnown,
         AcceptorControl, AcceptLabels, ChatInv, NotYetNamed, WSARecv,
         Goto
    <2>4. t \in Workers =>
            pc'[t] \notin {"chatUnicast", "getSession", "sendPacket",
                          "postSend"}
      BY <1>a, <1>15 DEF ThreadsTypeOK, WorkerControl, ChatLabels,
         ChatInv, ReadsOwn, AnswersOwn, WSARecv, Goto
    <2>. QED
      BY <1>a, <2>1, <2>2, <2>3, <2>4, ChatUntouched
  <1>16. ASSUME NEW t \in Threads, DropRef(t)
        PROVE  ChatInv'
    <2>1. OnlyMoves(t) /\ \A u \in Workers \ {t} : uid'[u] = uid[u]
      BY <1>a, <1>16 DEF OnlyMoves, ThreadsTypeOK, DropRef,
         DisconnectSession, Decrement, Unreferenced, RequestDisconnect,
         Clear, DeleteUser, Call, Goto, Resume
    <2>2. /\ userId' = userId
          /\ \A s \in Sessions : IsActive(s)' => IsActive(s)
      BY <1>a, <1>16 DEF SessionsTypeOK, IsActive, DropRef,
         DisconnectSession, Decrement, Unreferenced, RequestDisconnect,
         Clear, DeleteUser, Call, Goto, Resume
    <2>3. t = Acceptor => NotYetNamed'
      BY <1>a, <1>16, <2>2 DEF ThreadsTypeOK, ThisKnown,
         AcceptorControl, AcceptLabels, ChatInv, NotYetNamed, DropRef,
         DisconnectSession, Decrement, Unreferenced, RequestDisconnect,
         Clear, DeleteUser, Call, Goto, Resume
    <2>4. t \in Workers =>
            pc'[t] \notin {"chatUnicast", "getSession", "sendPacket",
                          "postSend"}
      BY <1>a, <1>16 DEF ThreadsTypeOK, WorkerControl, ChatLabels,
         ChatInv, ReadsOwn, AnswersOwn, DropRef, DisconnectSession,
         Decrement, Unreferenced, RequestDisconnect, Clear, DeleteUser,
         Call, Goto, Resume
    <2>. QED
      BY <1>a, <2>1, <2>2, <2>3, <2>4, ChatUntouched
  <1>17. ASSUME NEW t \in Threads, FreeId(t)
        PROVE  ChatInv'
    <2>1. OnlyMoves(t) /\ \A u \in Workers \ {t} : uid'[u] = uid[u]
      BY <1>a, <1>17 DEF OnlyMoves, ThreadsTypeOK, FreeId, FreeIdLock,
         Goto, Resume
    <2>2. /\ userId' = userId
          /\ \A s \in Sessions : IsActive(s)' => IsActive(s)
      BY <1>a, <1>17 DEF SessionsTypeOK, IsActive, FreeId, FreeIdLock,
         Goto, Resume
    <2>3. t = Acceptor => NotYetNamed'
      BY <1>a, <1>17, <2>2 DEF ThreadsTypeOK, ThisKnown,
         AcceptorControl, AcceptLabels, ChatInv, NotYetNamed, FreeId,
         FreeIdLock, Goto, Resume
    <2>4. t \in Workers =>
            pc'[t] \notin {"chatUnicast", "getSession", "sendPacket",
                          "postSend"}
      BY <1>a, <1>17 DEF ThreadsTypeOK, WorkerControl, ChatLabels,
         ChatInv, ReadsOwn, AnswersOwn, FreeId, FreeIdLock, Goto,
         Resume
    <2>. QED
      BY <1>a, <2>1, <2>2, <2>3, <2>4, ChatUntouched
  <1>18. ASSUME InitSession
        PROVE  ChatInv'
    <2>. DEFINE s == this[Acceptor]
    <2>1. /\ s \in Sessions /\ ~IsActive(s)
      BY <1>a, <1>18, AcceptorCarries DEF ThisKnown, InitSession
    <2>2. /\ userId'[s] = NoUser /\ this' = this
          /\ \A x \in Sessions \ {s} : userId'[x] = userId[x]
          /\ \A w \in Workers : pc'[w] = pc[w]
          /\ UNCHANGED << onRecv, uid >>
      BY <1>a, <1>18, <2>1 DEF ThreadsTypeOK, SessionsTypeOK, InitSession,
         Init, Goto, NoUser
    <2>3. NotYetNamed'
      BY <2>2 DEF NotYetNamed
    <2>4. \A w \in Workers : pc[w] = "chatUnicast" =>
            onRecv[w] \in Sessions \ {s}
      BY <1>a, <2>1, CountedIsActive DEF WorkerControl, ChatLabels
    <2>5. ReadsOwn' /\ AnswersOwn'
      BY <1>a, <2>2, <2>4 DEF ChatInv, ReadsOwn, AnswersOwn
    <2>. QED
      BY <2>3, <2>5 DEF ChatInv
  <1>19. ASSUME OnConnect
        PROVE  ChatInv'
    <2>1. OnlyMoves(Acceptor) /\ \A u \in Workers \ {Acceptor} : uid'[u] = uid[u]
      BY <1>a, <1>19 DEF OnlyMoves, ThreadsTypeOK, OnConnect,
         CreateUser, Goto
    <2>2. /\ userId' = userId
          /\ \A s \in Sessions : IsActive(s)' => IsActive(s)
      BY <1>a, <1>19 DEF SessionsTypeOK, IsActive, OnConnect,
         CreateUser, Goto
    <2>3. NotYetNamed'
      BY <1>a, <1>19, <2>2 DEF ThreadsTypeOK, ThisKnown,
         AcceptorControl, AcceptLabels, ChatInv, NotYetNamed,
         OnConnect, CreateUser, Goto
    <2>. QED
      BY <1>a, <2>1, <2>2, <2>3, ChatUntouched
  <1>20. ASSUME SetUserId
        PROVE  ChatInv'
    <2>. DEFINE s == this[Acceptor]
    <2>1. /\ s \in Sessions /\ (IsActive(s) => userId[s] = NoUser)
      BY <1>a, <1>20 DEF ThisKnown, ChatInv, NotYetNamed, SetUserId
    <2>2. /\ pc'[Acceptor] = "accept" /\ this' = this
          /\ \A x \in Sessions \ {s} : userId'[x] = userId[x]
          /\ \A w \in Workers : pc'[w] = pc[w] /\ uid'[w] = uid[w]
          /\ onRecv' = onRecv
      BY <1>a, <1>20, <2>1 DEF ThreadsTypeOK, SessionsTypeOK, SetUserId, Goto
    <2>3. NotYetNamed'
      BY <2>2 DEF NotYetNamed
    <2>4. \A w \in Workers : pc[w] = "chatUnicast" =>
            onRecv[w] \in Sessions /\ IsActive(onRecv[w])
      BY <1>a, CountedIsActive DEF WorkerControl, ChatLabels
    <2>5. ReadsOwn' /\ AnswersOwn'
      BY <1>a, <2>1, <2>2, <2>4 DEF ChatInv, ReadsOwn, AnswersOwn
    <2>. QED
      BY <2>3, <2>5 DEF ChatInv
  <1>21. ASSUME NEW c \in Conns, Accept(c)
        PROVE  ChatInv'
    <2>1. OnlyMoves(Acceptor) /\ \A u \in Workers \ {Acceptor} : uid'[u] = uid[u]
      BY <1>a, <1>21 DEF OnlyMoves, ThreadsTypeOK, Accept, GetIdLock,
         GetIdFails, Call, Goto
    <2>2. /\ userId' = userId
          /\ \A s \in Sessions : IsActive(s)' => IsActive(s)
      BY <1>a, <1>21 DEF SessionsTypeOK, IsActive, Accept, GetIdLock,
         GetIdFails, Call, Goto
    <2>3. NotYetNamed'
      BY <1>a, <1>21, <2>2 DEF ThreadsTypeOK, ThisKnown,
         AcceptorControl, AcceptLabels, ChatInv, NotYetNamed, Accept,
         GetIdLock, GetIdFails, Call, Goto
    <2>. QED
      BY <1>a, <2>1, <2>2, <2>3, ChatUntouched
  <1>22. ASSUME NEW c \in Conns, Say(c)
        PROVE  ChatInv'
    <2>1. OnlyMoves(Acceptor) /\ \A u \in Workers \ {Acceptor} : uid'[u] = uid[u]
      BY <1>a, <1>22 DEF OnlyMoves, ThreadsTypeOK, Say
    <2>2. /\ userId' = userId
          /\ \A s \in Sessions : IsActive(s)' => IsActive(s)
      BY <1>a, <1>22 DEF SessionsTypeOK, IsActive, Say
    <2>3. NotYetNamed'
      BY <1>a, <1>22, <2>2 DEF ThreadsTypeOK, ThisKnown,
         AcceptorControl, AcceptLabels, ChatInv, NotYetNamed, Say
    <2>. QED
      BY <1>a, <2>1, <2>2, <2>3, ChatUntouched
  <1>23. ASSUME NEW c \in Conns, Close(c)
        PROVE  ChatInv'
    <2>1. OnlyMoves(Acceptor) /\ \A u \in Workers \ {Acceptor} : uid'[u] = uid[u]
      BY <1>a, <1>23 DEF OnlyMoves, ThreadsTypeOK, Close
    <2>2. /\ userId' = userId
          /\ \A s \in Sessions : IsActive(s)' => IsActive(s)
      BY <1>a, <1>23 DEF SessionsTypeOK, IsActive, Close
    <2>3. NotYetNamed'
      BY <1>a, <1>23, <2>2 DEF ThreadsTypeOK, ThisKnown,
         AcceptorControl, AcceptLabels, ChatInv, NotYetNamed, Close
    <2>. QED
      BY <1>a, <2>1, <2>2, <2>3, ChatUntouched
  <1>24. CASE UNCHANGED vars
    BY <1>a, <1>24
    DEF vars, ChatInv, NotYetNamed, ReadsOwn, AnswersOwn, IsActive
  <1>. QED
    BY <1>1, <1>1p, <1>2, <1>3, <1>4, <1>5, <1>6, <1>7, <1>8, <1>9, <1>10,
       <1>11, <1>12, <1>13, <1>14, <1>15, <1>16, <1>17, <1>18, <1>19, <1>20,
       <1>21, <1>22, <1>23, <1>24
    DEF Next, Completion, Handling, Shared, Accepting

-----------------------------------------------------------------------------
(* The recv chain.  An active session has its next recv outstanding, or a  *)
(* thread on the way to it, or one that will ask for its disconnection, or *)
(* its disconnection has been asked for; and in that last case a reference *)
(* is left, whose decrement releases the session.                          *)

InChain(t, s) ==
  \/ t \in Workers /\ onRecv[t] = s
  \/ this[t] = s /\ pc[t] \in {"postRecv", "WSARecv", "dropRef"}

ChainKept ==
  \A s \in Sessions : IsActive(s) =>
    disconnectRequested[s] \/ recvs[s] > 0 \/ \E t \in Threads : InChain(t, s)

WillRelease ==
  \A s \in Sessions :
    IsActive(s) /\ disconnectRequested[s] => refCount[s] >= 1

ChainInv == ChainKept /\ WillRelease

(* A step of t keeps the chain of every session that t leaves active.      *)
LEMMA ChainMoves ==
  ASSUME ChainKept, NEW t \in Threads, OnlyMoves(t),
         \A s \in Sessions : IsActive(s)' =>
           \/ disconnectRequested'[s] \/ recvs'[s] > 0 \/ InChain(t, s)'
           \/ /\ IsActive(s)
              /\ ~disconnectRequested[s] /\ ~(recvs[s] > 0) /\ ~InChain(t, s)
  PROVE  ChainKept'
PROOF
  <1>. SUFFICES ASSUME NEW s \in Sessions, IsActive(s)',
                       ~disconnectRequested'[s], ~(recvs'[s] > 0)
                PROVE  \E u \in Threads : InChain(u, s)'
    BY DEF ChainKept
  <1>1. CASE InChain(t, s)'
    BY <1>1
  <1>2. CASE ~InChain(t, s)'
    <2>1. PICK u \in Threads \ {t} : InChain(u, s)
      BY <1>2 DEF ChainKept
    <2>2. InChain(u, s)'
      BY <2>1 DEF InChain, OnlyMoves, Threads
    <2>. QED
      BY <2>2
  <1>. QED
    BY <1>1, <1>2

(* A step that raises no flag without a reference, and takes the last      *)
(* reference from no session that is to be disconnected.                   *)
LEMMA WillReleaseKept ==
  ASSUME WillRelease,
         \A s \in Sessions : IsActive(s)' =>
           \/ ~disconnectRequested'[s] \/ refCount'[s] >= 1
           \/ /\ IsActive(s) /\ disconnectRequested[s]
              /\ refCount'[s] = refCount[s]
  PROVE  WillRelease'
PROOF
  BY DEF WillRelease

LEMMA ChainInit == ServerInit => ChainInv
PROOF
  BY DEF ServerInit, SessionInit, ChainInv, ChainKept, WillRelease, IsActive

(* Each step of the server keeps the chain.                                *)
LEMMA ChainStep ==
  TypeInv /\ RefInv /\ ChatInv /\ ChainInv /\ [Next]_vars => ChainInv'
PROOF
  <1>. SUFFICES ASSUME TypeInv, RefInv, ChatInv, ChainInv, [Next]_vars
                PROVE  ChainInv'
    OBVIOUS
  <1>. USE ThreadsAssumption, SessionsAssumption
       DEF Threads, flags, queues, io, sessionVars, lobbyVars, lobbyAndPool,
           netVars, threadVars
  <1>a. /\ TypeOK /\ RefInv /\ ChatInv /\ ChainKept /\ WillRelease
        /\ SessionsTypeOK /\ ThreadsTypeOK
        /\ AcceptorControl /\ WorkerControl /\ ThisKnown
    BY DEF TypeInv, TypeOK, ControlOK, ChainInv
  <1>1. ASSUME NEW w \in Workers, NEW s \in Sessions, RecvCompletes(w, s)
        PROVE  ChainInv'
    <2>1. OnlyMoves(w)
      BY <1>a, <1>1 DEF OnlyMoves, ThreadsTypeOK, RecvCompletes, Goto
    <2>2. ASSUME NEW x \in Sessions, IsActive(x)'
          PROVE  \/ disconnectRequested'[x] \/ recvs'[x] > 0 \/ InChain(w, x)'
                 \/ /\ IsActive(x) /\ ~disconnectRequested[x]
                    /\ ~(recvs[x] > 0) /\ ~InChain(w, x)
      BY <1>a, <1>1, <2>2 DEF InChain, IsActive, SessionsTypeOK,
         ThreadsTypeOK, WorkerControl, AcceptorControl, AcceptLabels,
         ThisKnown, ChatLabels, RecvCompletes, Goto
    <2>3. ASSUME NEW x \in Sessions, IsActive(x)'
          PROVE  \/ ~disconnectRequested'[x] \/ refCount'[x] >= 1
                 \/ /\ IsActive(x) /\ disconnectRequested[x]
                    /\ refCount'[x] = refCount[x]
      BY <1>a, <1>1, <2>3 DEF IsActive, SessionsTypeOK, ThreadsTypeOK,
         ThisKnown, WillRelease, RecvCompletes, Goto
    <2>. QED
      BY <1>a, <2>1, <2>2, <2>3, ChainMoves, WillReleaseKept DEF
         ChainInv
  <1>1p. ASSUME NEW w \in Workers, NEW s \in Sessions, RecvPiece(w, s)
        PROVE  ChainInv'
    <2>1. OnlyMoves(w)
      BY <1>a, <1>1p DEF OnlyMoves, ThreadsTypeOK, RecvPiece, Goto
    <2>2. ASSUME NEW x \in Sessions, IsActive(x)'
          PROVE  \/ disconnectRequested'[x] \/ recvs'[x] > 0 \/ InChain(w, x)'
                 \/ /\ IsActive(x) /\ ~disconnectRequested[x]
                    /\ ~(recvs[x] > 0) /\ ~InChain(w, x)
      BY <1>a, <1>1p, <2>2 DEF InChain, IsActive, SessionsTypeOK,
         ThreadsTypeOK, WorkerControl, AcceptorControl, AcceptLabels,
         ThisKnown, ChatLabels, RecvPiece, Goto
    <2>3. ASSUME NEW x \in Sessions, IsActive(x)'
          PROVE  \/ ~disconnectRequested'[x] \/ refCount'[x] >= 1
                 \/ /\ IsActive(x) /\ disconnectRequested[x]
                    /\ refCount'[x] = refCount[x]
      BY <1>a, <1>1p, <2>3 DEF IsActive, SessionsTypeOK, ThreadsTypeOK,
         ThisKnown, WillRelease, RecvPiece, Goto
    <2>. QED
      BY <1>a, <2>1, <2>2, <2>3, ChainMoves, WillReleaseKept DEF
         ChainInv
  <1>2. ASSUME NEW w \in Workers, NEW s \in Sessions, RecvFails(w, s)
        PROVE  ChainInv'
    <2>1. OnlyMoves(w)
      BY <1>a, <1>2 DEF OnlyMoves, ThreadsTypeOK, RecvFails, Call, Goto
    <2>2. ASSUME NEW x \in Sessions, IsActive(x)'
          PROVE  \/ disconnectRequested'[x] \/ recvs'[x] > 0 \/ InChain(w, x)'
                 \/ /\ IsActive(x) /\ ~disconnectRequested[x]
                    /\ ~(recvs[x] > 0) /\ ~InChain(w, x)
      BY <1>a, <1>2, <2>2 DEF InChain, IsActive, SessionsTypeOK,
         ThreadsTypeOK, WorkerControl, AcceptorControl, AcceptLabels,
         ThisKnown, ChatLabels, RecvFails, Call, Goto
    <2>3. ASSUME NEW x \in Sessions, IsActive(x)'
          PROVE  \/ ~disconnectRequested'[x] \/ refCount'[x] >= 1
                 \/ /\ IsActive(x) /\ disconnectRequested[x]
                    /\ refCount'[x] = refCount[x]
      BY <1>a, <1>2, <2>3 DEF IsActive, SessionsTypeOK, ThreadsTypeOK,
         ThisKnown, WillRelease, RecvFails, Call, Goto
    <2>. QED
      BY <1>a, <2>1, <2>2, <2>3, ChainMoves, WillReleaseKept DEF
         ChainInv
  <1>3. ASSUME NEW w \in Workers, NEW s \in Sessions, SendCompletes(w, s)
        PROVE  ChainInv'
    <2>1. OnlyMoves(w)
      BY <1>a, <1>3 DEF OnlyMoves, ThreadsTypeOK, SendCompletes, Call,
         Goto
    <2>2. ASSUME NEW x \in Sessions, IsActive(x)'
          PROVE  \/ disconnectRequested'[x] \/ recvs'[x] > 0 \/ InChain(w, x)'
                 \/ /\ IsActive(x) /\ ~disconnectRequested[x]
                    /\ ~(recvs[x] > 0) /\ ~InChain(w, x)
      BY <1>a, <1>3, <2>2 DEF InChain, IsActive, SessionsTypeOK,
         ThreadsTypeOK, WorkerControl, AcceptorControl, AcceptLabels,
         ThisKnown, ChatLabels, SendCompletes, Call, Goto
    <2>3. ASSUME NEW x \in Sessions, IsActive(x)'
          PROVE  \/ ~disconnectRequested'[x] \/ refCount'[x] >= 1
                 \/ /\ IsActive(x) /\ disconnectRequested[x]
                    /\ refCount'[x] = refCount[x]
      BY <1>a, <1>3, <2>3 DEF IsActive, SessionsTypeOK, ThreadsTypeOK,
         ThisKnown, WillRelease, SendCompletes, Call, Goto
    <2>. QED
      BY <1>a, <2>1, <2>2, <2>3, ChainMoves, WillReleaseKept DEF
         ChainInv
  <1>4. ASSUME NEW w \in Workers, NEW s \in Sessions, SendFails(w, s)
        PROVE  ChainInv'
    <2>1. OnlyMoves(w)
      BY <1>a, <1>4 DEF OnlyMoves, ThreadsTypeOK, SendFails, Call, Goto
    <2>2. ASSUME NEW x \in Sessions, IsActive(x)'
          PROVE  \/ disconnectRequested'[x] \/ recvs'[x] > 0 \/ InChain(w, x)'
                 \/ /\ IsActive(x) /\ ~disconnectRequested[x]
                    /\ ~(recvs[x] > 0) /\ ~InChain(w, x)
      BY <1>a, <1>4, <2>2 DEF InChain, IsActive, SessionsTypeOK,
         ThreadsTypeOK, WorkerControl, AcceptorControl, AcceptLabels,
         ThisKnown, ChatLabels, SendFails, Call, Goto
    <2>3. ASSUME NEW x \in Sessions, IsActive(x)'
          PROVE  \/ ~disconnectRequested'[x] \/ refCount'[x] >= 1
                 \/ /\ IsActive(x) /\ disconnectRequested[x]
                    /\ refCount'[x] = refCount[x]
      BY <1>a, <1>4, <2>3 DEF IsActive, SessionsTypeOK, ThreadsTypeOK,
         ThisKnown, WillRelease, SendFails, Call, Goto
    <2>. QED
      BY <1>a, <2>1, <2>2, <2>3, ChainMoves, WillReleaseKept DEF
         ChainInv
  <1>5. ASSUME NEW w \in Workers, OnMessage(w)
        PROVE  ChainInv'
    <2>1. OnlyMoves(w)
      BY <1>a, <1>5 DEF OnlyMoves, ThreadsTypeOK, OnMessage, Goto
    <2>2. ASSUME NEW s \in Sessions, IsActive(s)'
          PROVE  \/ disconnectRequested'[s] \/ recvs'[s] > 0 \/ InChain(w, s)'
                 \/ /\ IsActive(s) /\ ~disconnectRequested[s]
                    /\ ~(recvs[s] > 0) /\ ~InChain(w, s)
      BY <1>a, <1>5, <2>2 DEF InChain, IsActive, SessionsTypeOK,
         ThreadsTypeOK, WorkerControl, AcceptorControl, AcceptLabels,
         ThisKnown, ChatLabels, OnMessage, Goto
    <2>3. ASSUME NEW s \in Sessions, IsActive(s)'
          PROVE  \/ ~disconnectRequested'[s] \/ refCount'[s] >= 1
                 \/ /\ IsActive(s) /\ disconnectRequested[s]
                    /\ refCount'[s] = refCount[s]
      BY <1>a, <1>5, <2>3 DEF IsActive, SessionsTypeOK, ThreadsTypeOK,
         ThisKnown, WillRelease, OnMessage, Goto
    <2>. QED
      BY <1>a, <2>1, <2>2, <2>3, ChainMoves, WillReleaseKept DEF
         ChainInv
  <1>6. ASSUME NEW w \in Workers, ChatUnicast(w)
        PROVE  ChainInv'
    <2>1. OnlyMoves(w)
      BY <1>a, <1>6 DEF OnlyMoves, ThreadsTypeOK, ChatUnicast, Call,
         Goto
    <2>2. ASSUME NEW s \in Sessions, IsActive(s)'
          PROVE  \/ disconnectRequested'[s] \/ recvs'[s] > 0 \/ InChain(w, s)'
                 \/ /\ IsActive(s) /\ ~disconnectRequested[s]
                    /\ ~(recvs[s] > 0) /\ ~InChain(w, s)
      BY <1>a, <1>6, <2>2 DEF InChain, IsActive, SessionsTypeOK,
         ThreadsTypeOK, WorkerControl, AcceptorControl, AcceptLabels,
         ThisKnown, ChatLabels, ChatUnicast, Call, Goto
    <2>3. ASSUME NEW s \in Sessions, IsActive(s)'
          PROVE  \/ ~disconnectRequested'[s] \/ refCount'[s] >= 1
                 \/ /\ IsActive(s) /\ disconnectRequested[s]
                    /\ refCount'[s] = refCount[s]
      BY <1>a, <1>6, <2>3 DEF IsActive, SessionsTypeOK, ThreadsTypeOK,
         ThisKnown, WillRelease, ChatUnicast, Call, Goto
    <2>. QED
      BY <1>a, <2>1, <2>2, <2>3, ChainMoves, WillReleaseKept DEF
         ChainInv
  <1>7. ASSUME NEW w \in Workers, GetSessionPointer(w)
        PROVE  ChainInv'
    <2>1. OnlyMoves(w)
      BY <1>a, <1>7 DEF OnlyMoves, ThreadsTypeOK, GetSessionPointer,
         Goto
    <2>2. ASSUME NEW s \in Sessions, IsActive(s)'
          PROVE  \/ disconnectRequested'[s] \/ recvs'[s] > 0 \/ InChain(w, s)'
                 \/ /\ IsActive(s) /\ ~disconnectRequested[s]
                    /\ ~(recvs[s] > 0) /\ ~InChain(w, s)
      BY <1>a, <1>7, <2>2 DEF InChain, IsActive, SessionsTypeOK,
         ThreadsTypeOK, WorkerControl, AcceptorControl, AcceptLabels,
         ThisKnown, ChatLabels, GetSessionPointer, Goto
    <2>3. ASSUME NEW s \in Sessions, IsActive(s)'
          PROVE  \/ ~disconnectRequested'[s] \/ refCount'[s] >= 1
                 \/ /\ IsActive(s) /\ disconnectRequested[s]
                    /\ refCount'[s] = refCount[s]
      BY <1>a, <1>7, <2>3 DEF IsActive, SessionsTypeOK, ThreadsTypeOK,
         ThisKnown, WillRelease, GetSessionPointer, Goto
    <2>. QED
      BY <1>a, <2>1, <2>2, <2>3, ChainMoves, WillReleaseKept DEF
         ChainInv
  <1>8. ASSUME NEW w \in Workers, SendPacket(w)
        PROVE  ChainInv'
    <2>1. this[w] \in Sessions /\ refCount[this[w]] >= 1
      BY <1>a, <1>8, CountedIsActive DEF HoldsRef, ThisKnown,
         WorkerControl, ChatLabels, ChatInv, AnswersOwn, SendPacket
    <2>2. OnlyMoves(w)
      BY <1>a, <1>8 DEF OnlyMoves, ThreadsTypeOK, SendPacket, Enqueue,
         RequestDisconnect, Goto
    <2>3. ASSUME NEW s \in Sessions, IsActive(s)'
          PROVE  \/ disconnectRequested'[s] \/ recvs'[s] > 0 \/ InChain(w, s)'
                 \/ /\ IsActive(s) /\ ~disconnectRequested[s]
                    /\ ~(recvs[s] > 0) /\ ~InChain(w, s)
      BY ZenonT(60), <1>a, <1>8, <2>1, <2>3 DEF InChain, IsActive, SessionsTypeOK,
         ThreadsTypeOK, WorkerControl, AcceptorControl, AcceptLabels,
         ThisKnown, ChatLabels, SendPacket, Enqueue, RequestDisconnect,
         Goto
    <2>4. ASSUME NEW s \in Sessions, IsActive(s)'
          PROVE  \/ ~disconnectRequested'[s] \/ refCount'[s] >= 1
                 \/ /\ IsActive(s) /\ disconnectRequested[s]
                    /\ refCount'[s] = refCount[s]
      BY <1>a, <1>8, <2>1, <2>4 DEF IsActive, SessionsTypeOK,
         ThreadsTypeOK, ThisKnown, WillRelease, SendPacket, Enqueue,
         RequestDisconnect, Goto
    <2>. QED
      BY <1>a, <2>2, <2>3, <2>4, ChainMoves, WillReleaseKept DEF
         ChainInv
  <1>9. ASSUME NEW w \in Workers, OnRecvEnd(w)
        PROVE  ChainInv'
    <2>1. onRecv[w] \in Sessions /\ refCount[onRecv[w]] >= 1
      BY <1>a, <1>9, CountedIsActive DEF HoldsRef, ThisKnown,
         WorkerControl, ChatLabels, OnRecvEnd
    <2>2. OnlyMoves(w)
      BY <1>a, <1>9 DEF OnlyMoves, ThreadsTypeOK, OnRecvEnd,
         DecrementRefCount, DisconnectSession, Decrement,
         ReleaseOnDecrement, Unreferenced, Clear, DeleteUser, Call,
         Goto
    <2>3. ASSUME NEW s \in Sessions, IsActive(s)'
          PROVE  \/ disconnectRequested'[s] \/ recvs'[s] > 0 \/ InChain(w, s)'
                 \/ /\ IsActive(s) /\ ~disconnectRequested[s]
                    /\ ~(recvs[s] > 0) /\ ~InChain(w, s)
      BY SMTT(60), <1>a, <1>9, <2>1, <2>3 DEF InChain, IsActive, SessionsTypeOK,
         ThreadsTypeOK, WorkerControl, AcceptorControl, AcceptLabels,
         ThisKnown, ChatLabels, OnRecvEnd, DecrementRefCount,
         DisconnectSession, Decrement, ReleaseOnDecrement,
         Unreferenced, Clear, DeleteUser, Call, Goto
    <2>4. ASSUME NEW s \in Sessions, IsActive(s)'
          PROVE  \/ ~disconnectRequested'[s] \/ refCount'[s] >= 1
                 \/ /\ IsActive(s) /\ disconnectRequested[s]
                    /\ refCount'[s] = refCount[s]
      BY SMTT(60), <1>a, <1>9, <2>1, <2>4 DEF IsActive, SessionsTypeOK,
         ThreadsTypeOK, ThisKnown, WillRelease, OnRecvEnd,
         DecrementRefCount, DisconnectSession, Decrement,
         ReleaseOnDecrement, Unreferenced, Clear, DeleteUser, Call,
         Goto
    <2>. QED
      BY <1>a, <2>2, <2>3, <2>4, ChainMoves, WillReleaseKept DEF
         ChainInv
  <1>10. ASSUME NEW w \in Workers, PostSend(w)
        PROVE  ChainInv'
    <2>1. OnlyMoves(w)
      BY <1>a, <1>10 DEF OnlyMoves, ThreadsTypeOK, PostSend, BeginSend,
         IncrementRefCount, Goto, Resume
    <2>2. ASSUME NEW s \in Sessions, IsActive(s)'
          PROVE  \/ disconnectRequested'[s] \/ recvs'[s] > 0 \/ InChain(w, s)'
                 \/ /\ IsActive(s) /\ ~disconnectRequested[s]
                    /\ ~(recvs[s] > 0) /\ ~InChain(w, s)
      BY <1>a, <1>10, <2>2 DEF InChain, IsActive, SessionsTypeOK,
         ThreadsTypeOK, WorkerControl, AcceptorControl, AcceptLabels,
         ThisKnown, ChatLabels, PostSend, BeginSend, IncrementRefCount,
         Goto, Resume
    <2>3. ASSUME NEW s \in Sessions, IsActive(s)'
          PROVE  \/ ~disconnectRequested'[s] \/ refCount'[s] >= 1
                 \/ /\ IsActive(s) /\ disconnectRequested[s]
                    /\ refCount'[s] = refCount[s]
      BY <1>a, <1>10, <2>3 DEF IsActive, SessionsTypeOK, ThreadsTypeOK,
         ThisKnown, WillRelease, PostSend, BeginSend,
         IncrementRefCount, Goto, Resume
    <2>. QED
      BY <1>a, <2>1, <2>2, <2>3, ChainMoves, WillReleaseKept DEF
         ChainInv
  <1>11. ASSUME NEW w \in Workers, WSASend(w)
        PROVE  ChainInv'
    <2>1. OnlyMoves(w)
      BY <1>a, <1>11 DEF OnlyMoves, ThreadsTypeOK, WSASend, Goto,
         Resume
    <2>2. ASSUME NEW s \in Sessions, IsActive(s)'
          PROVE  \/ disconnectRequested'[s] \/ recvs'[s] > 0 \/ InChain(w, s)'
                 \/ /\ IsActive(s) /\ ~disconnectRequested[s]
                    /\ ~(recvs[s] > 0) /\ ~InChain(w, s)
      BY <1>a, <1>11, <2>2 DEF InChain, IsActive, SessionsTypeOK,
         ThreadsTypeOK, WorkerControl, AcceptorControl, AcceptLabels,
         ThisKnown, ChatLabels, WSASend, Goto, Resume
    <2>3. ASSUME NEW s \in Sessions, IsActive(s)'
          PROVE  \/ ~disconnectRequested'[s] \/ refCount'[s] >= 1
                 \/ /\ IsActive(s) /\ disconnectRequested[s]
                    /\ refCount'[s] = refCount[s]
      BY <1>a, <1>11, <2>3 DEF IsActive, SessionsTypeOK, ThreadsTypeOK,
         ThisKnown, WillRelease, WSASend, Goto, Resume
    <2>. QED
      BY <1>a, <2>1, <2>2, <2>3, ChainMoves, WillReleaseKept DEF
         ChainInv
  <1>12. ASSUME NEW w \in Workers, OnSend(w)
        PROVE  ChainInv'
    <2>1. this[w] \in Sessions /\ refCount[this[w]] >= 1
      BY <1>a, <1>12, CountedIsActive DEF HoldsRef, ThisKnown,
         WorkerControl, ChatLabels, OnSend
    <2>2. OnlyMoves(w)
      BY <1>a, <1>12 DEF OnlyMoves, ThreadsTypeOK, OnSend,
         DecrementRefCount, DisconnectSession, Decrement,
         ReleaseOnDecrement, Unreferenced, Clear, DeleteUser, Call,
         Goto
    <2>3. ASSUME NEW s \in Sessions, IsActive(s)'
          PROVE  \/ disconnectRequested'[s] \/ recvs'[s] > 0 \/ InChain(w, s)'
                 \/ /\ IsActive(s) /\ ~disconnectRequested[s]
                    /\ ~(recvs[s] > 0) /\ ~InChain(w, s)
      BY ZenonT(60), <1>a, <1>12, <2>1, <2>3 DEF InChain, IsActive, SessionsTypeOK,
         ThreadsTypeOK, WorkerControl, AcceptorControl, AcceptLabels,
         ThisKnown, ChatLabels, OnSend, DecrementRefCount,
         DisconnectSession, Decrement, ReleaseOnDecrement,
         Unreferenced, Clear, DeleteUser, Call, Goto
    <2>4. ASSUME NEW s \in Sessions, IsActive(s)'
          PROVE  \/ ~disconnectRequested'[s] \/ refCount'[s] >= 1
                 \/ /\ IsActive(s) /\ disconnectRequested[s]
                    /\ refCount'[s] = refCount[s]
      BY SMTT(60), <1>a, <1>12, <2>1, <2>4 DEF IsActive, SessionsTypeOK,
         ThreadsTypeOK, ThisKnown, WillRelease, OnSend,
         DecrementRefCount, DisconnectSession, Decrement,
         ReleaseOnDecrement, Unreferenced, Clear, DeleteUser, Call,
         Goto
    <2>. QED
      BY <1>a, <2>2, <2>3, <2>4, ChainMoves, WillReleaseKept DEF
         ChainInv
  <1>13. ASSUME NEW w \in Workers, SendDone(w)
        PROVE  ChainInv'
    <2>1. OnlyMoves(w)
      BY <1>a, <1>13 DEF OnlyMoves, ThreadsTypeOK, SendDone,
         FinishSend, Goto
    <2>2. ASSUME NEW s \in Sessions, IsActive(s)'
          PROVE  \/ disconnectRequested'[s] \/ recvs'[s] > 0 \/ InChain(w, s)'
                 \/ /\ IsActive(s) /\ ~disconnectRequested[s]
                    /\ ~(recvs[s] > 0) /\ ~InChain(w, s)
      BY <1>a, <1>13, <2>2 DEF InChain, IsActive, SessionsTypeOK,
         ThreadsTypeOK, WorkerControl, AcceptorControl, AcceptLabels,
         ThisKnown, ChatLabels, SendDone, FinishSend, Goto
    <2>3. ASSUME NEW s \in Sessions, IsActive(s)'
          PROVE  \/ ~disconnectRequested'[s] \/ refCount'[s] >= 1
                 \/ /\ IsActive(s) /\ disconnectRequested[s]
                    /\ refCount'[s] = refCount[s]
      BY <1>a, <1>13, <2>3 DEF IsActive, SessionsTypeOK, ThreadsTypeOK,
         ThisKnown, WillRelease, SendDone, FinishSend, Goto
    <2>. QED
      BY <1>a, <2>1, <2>2, <2>3, ChainMoves, WillReleaseKept DEF
         ChainInv
  <1>14. ASSUME NEW t \in Threads, PostRecv(t)
        PROVE  ChainInv'
    <2>1. OnlyMoves(t)
      BY <1>a, <1>14 DEF OnlyMoves, ThreadsTypeOK, PostRecv,
         IncrementRefCount, Goto, Resume
    <2>2. ASSUME NEW s \in Sessions, IsActive(s)'
          PROVE  \/ disconnectRequested'[s] \/ recvs'[s] > 0 \/ InChain(t, s)'
                 \/ /\ IsActive(s) /\ ~disconnectRequested[s]
                    /\ ~(recvs[s] > 0) /\ ~InChain(t, s)
      BY <1>a, <1>14, <2>2 DEF InChain, IsActive, SessionsTypeOK,
         ThreadsTypeOK, WorkerControl, AcceptorControl, AcceptLabels,
         ThisKnown, ChatLabels, PostRecv, IncrementRefCount, Goto,
         Resume
    <2>3. ASSUME NEW s \in Sessions, IsActive(s)'
          PROVE  \/ ~disconnectRequested'[s] \/ refCount'[s] >= 1
                 \/ /\ IsActive(s) /\ disconnectRequested[s]
                    /\ refCount'[s] = refCount[s]
      BY <1>a, <1>14, <2>3 DEF IsActive, SessionsTypeOK, ThreadsTypeOK,
         ThisKnown, WillRelease, PostRecv, IncrementRefCount, Goto,
         Resume
    <2>. QED
      BY <1>a, <2>1, <2>2, <2>3, ChainMoves, WillReleaseKept DEF
         ChainInv
  <1>15. ASSUME NEW t \in Threads, WSARecv(t)
        PROVE  ChainInv'
    <2>1. OnlyMoves(t)
      BY <1>a, <1>15 DEF OnlyMoves, ThreadsTypeOK, WSARecv, Goto
    <2>2. ASSUME NEW s \in Sessions, IsActive(s)'
          PROVE  \/ disconnectRequested'[s] \/ recvs'[s] > 0 \/ InChain(t, s)'
                 \/ /\ IsActive(s) /\ ~disconnectRequested[s]
                    /\ ~(recvs[s] > 0) /\ ~InChain(t, s)
      BY SMTT(60), <1>a, <1>15, <2>2 DEF InChain, IsActive, SessionsTypeOK,
         ThreadsTypeOK, WorkerControl, AcceptorControl, AcceptLabels,
         ThisKnown, ChatLabels, WSARecv, Goto
    <2>3. ASSUME NEW s \in Sessions, IsActive(s)'
          PROVE  \/ ~disconnectRequested'[s] \/ refCount'[s] >= 1
                 \/ /\ IsActive(s) /\ disconnectRequested[s]
                    /\ refCount'[s] = refCount[s]
      BY <1>a, <1>15, <2>3 DEF IsActive, SessionsTypeOK, ThreadsTypeOK,
         ThisKnown, WillRelease, WSARecv, Goto
    <2>. QED
      BY <1>a, <2>1, <2>2, <2>3, ChainMoves, WillReleaseKept DEF
         ChainInv
  <1>16. ASSUME NEW t \in Threads, DropRef(t)
        PROVE  ChainInv'
    <2>1. this[t] \in Sessions /\ refCount[this[t]] >= 1
      BY <1>a, <1>16, CountedIsActive DEF HoldsRef, ThisKnown,
         WorkerControl, ChatLabels, DropRef
    <2>2. OnlyMoves(t)
      BY <1>a, <1>16 DEF OnlyMoves, ThreadsTypeOK, DropRef,
         DisconnectSession, Decrement, Unreferenced, RequestDisconnect,
         Clear, DeleteUser, Call, Goto, Resume
    <2>3. ASSUME NEW s \in Sessions, IsActive(s)'
          PROVE  \/ disconnectRequested'[s] \/ recvs'[s] > 0 \/ InChain(t, s)'
                 \/ /\ IsActive(s) /\ ~disconnectRequested[s]
                    /\ ~(recvs[s] > 0) /\ ~InChain(t, s)
      BY ZenonT(60), <1>a, <1>16, <2>1, <2>3 DEF InChain, IsActive, SessionsTypeOK,
         ThreadsTypeOK, WorkerControl, AcceptorControl, AcceptLabels,
         ThisKnown, ChatLabels, DropRef, DisconnectSession, Decrement,
         Unreferenced, RequestDisconnect, Clear, DeleteUser, Call,
         Goto, Resume
    <2>4. ASSUME NEW s \in Sessions, IsActive(s)'
          PROVE  \/ ~disconnectRequested'[s] \/ refCount'[s] >= 1
                 \/ /\ IsActive(s) /\ disconnectRequested[s]
                    /\ refCount'[s] = refCount[s]
      BY SMTT(60), <1>a, <1>16, <2>1, <2>4 DEF IsActive, SessionsTypeOK,
         ThreadsTypeOK, ThisKnown, WillRelease, DropRef,
         DisconnectSession, Decrement, Unreferenced, RequestDisconnect,
         Clear, DeleteUser, Call, Goto, Resume
    <2>. QED
      BY <1>a, <2>2, <2>3, <2>4, ChainMoves, WillReleaseKept DEF
         ChainInv
  <1>17. ASSUME NEW t \in Threads, FreeId(t)
        PROVE  ChainInv'
    <2>1. OnlyMoves(t)
      BY <1>a, <1>17 DEF OnlyMoves, ThreadsTypeOK, FreeId, FreeIdLock,
         Goto, Resume
    <2>2. ASSUME NEW s \in Sessions, IsActive(s)'
          PROVE  \/ disconnectRequested'[s] \/ recvs'[s] > 0 \/ InChain(t, s)'
                 \/ /\ IsActive(s) /\ ~disconnectRequested[s]
                    /\ ~(recvs[s] > 0) /\ ~InChain(t, s)
      BY <1>a, <1>17, <2>2 DEF InChain, IsActive, SessionsTypeOK,
         ThreadsTypeOK, WorkerControl, AcceptorControl, AcceptLabels,
         ThisKnown, ChatLabels, FreeId, FreeIdLock, Goto, Resume
    <2>3. ASSUME NEW s \in Sessions, IsActive(s)'
          PROVE  \/ ~disconnectRequested'[s] \/ refCount'[s] >= 1
                 \/ /\ IsActive(s) /\ disconnectRequested[s]
                    /\ refCount'[s] = refCount[s]
      BY <1>a, <1>17, <2>3 DEF IsActive, SessionsTypeOK, ThreadsTypeOK,
         ThisKnown, WillRelease, FreeId, FreeIdLock, Goto, Resume
    <2>. QED
      BY <1>a, <2>1, <2>2, <2>3, ChainMoves, WillReleaseKept DEF
         ChainInv
  <1>18. ASSUME InitSession
        PROVE  ChainInv'
    <2>1. OnlyMoves(Acceptor)
      BY <1>a, <1>18 DEF OnlyMoves, ThreadsTypeOK, InitSession, Init,
         Goto
    <2>2. ASSUME NEW s \in Sessions, IsActive(s)'
          PROVE  \/ disconnectRequested'[s] \/ recvs'[s] > 0 \/ InChain(Acceptor, s)'
                 \/ /\ IsActive(s) /\ ~disconnectRequested[s]
                    /\ ~(recvs[s] > 0) /\ ~InChain(Acceptor, s)
      BY <1>a, <1>18, <2>2 DEF InChain, IsActive, SessionsTypeOK,
         ThreadsTypeOK, WorkerControl, AcceptorControl, AcceptLabels,
         ThisKnown, ChatLabels, InitSession, Init, Goto
    <2>3. ASSUME NEW s \in Sessions, IsActive(s)'
          PROVE  \/ ~disconnectRequested'[s] \/ refCount'[s] >= 1
                 \/ /\ IsActive(s) /\ disconnectRequested[s]
                    /\ refCount'[s] = refCount[s]
      BY <1>a, <1>18, <2>3 DEF IsActive, SessionsTypeOK, ThreadsTypeOK,
         ThisKnown, WillRelease, InitSession, Init, Goto
    <2>. QED
      BY <1>a, <2>1, <2>2, <2>3, ChainMoves, WillReleaseKept DEF
         ChainInv
  <1>19. ASSUME OnConnect
        PROVE  ChainInv'
    <2>1. OnlyMoves(Acceptor)
      BY <1>a, <1>19 DEF OnlyMoves, ThreadsTypeOK, OnConnect,
         CreateUser, Goto
    <2>2. ASSUME NEW s \in Sessions, IsActive(s)'
          PROVE  \/ disconnectRequested'[s] \/ recvs'[s] > 0 \/ InChain(Acceptor, s)'
                 \/ /\ IsActive(s) /\ ~disconnectRequested[s]
                    /\ ~(recvs[s] > 0) /\ ~InChain(Acceptor, s)
      BY <1>a, <1>19, <2>2 DEF InChain, IsActive, SessionsTypeOK,
         ThreadsTypeOK, WorkerControl, AcceptorControl, AcceptLabels,
         ThisKnown, ChatLabels, OnConnect, CreateUser, Goto
    <2>3. ASSUME NEW s \in Sessions, IsActive(s)'
          PROVE  \/ ~disconnectRequested'[s] \/ refCount'[s] >= 1
                 \/ /\ IsActive(s) /\ disconnectRequested[s]
                    /\ refCount'[s] = refCount[s]
      BY <1>a, <1>19, <2>3 DEF IsActive, SessionsTypeOK, ThreadsTypeOK,
         ThisKnown, WillRelease, OnConnect, CreateUser, Goto
    <2>. QED
      BY <1>a, <2>1, <2>2, <2>3, ChainMoves, WillReleaseKept DEF
         ChainInv
  <1>20. ASSUME SetUserId
        PROVE  ChainInv'
    <2>1. OnlyMoves(Acceptor)
      BY <1>a, <1>20 DEF OnlyMoves, ThreadsTypeOK, SetUserId, Goto
    <2>2. ASSUME NEW s \in Sessions, IsActive(s)'
          PROVE  \/ disconnectRequested'[s] \/ recvs'[s] > 0 \/ InChain(Acceptor, s)'
                 \/ /\ IsActive(s) /\ ~disconnectRequested[s]
                    /\ ~(recvs[s] > 0) /\ ~InChain(Acceptor, s)
      BY <1>a, <1>20, <2>2 DEF InChain, IsActive, SessionsTypeOK,
         ThreadsTypeOK, WorkerControl, AcceptorControl, AcceptLabels,
         ThisKnown, ChatLabels, SetUserId, Goto
    <2>3. ASSUME NEW s \in Sessions, IsActive(s)'
          PROVE  \/ ~disconnectRequested'[s] \/ refCount'[s] >= 1
                 \/ /\ IsActive(s) /\ disconnectRequested[s]
                    /\ refCount'[s] = refCount[s]
      BY <1>a, <1>20, <2>3 DEF IsActive, SessionsTypeOK, ThreadsTypeOK,
         ThisKnown, WillRelease, SetUserId, Goto
    <2>. QED
      BY <1>a, <2>1, <2>2, <2>3, ChainMoves, WillReleaseKept DEF
         ChainInv
  <1>21. ASSUME NEW c \in Conns, Accept(c)
        PROVE  ChainInv'
    <2>1. OnlyMoves(Acceptor)
      BY <1>a, <1>21 DEF OnlyMoves, ThreadsTypeOK, Accept, GetIdLock,
         GetIdFails, Call, Goto
    <2>2. ASSUME NEW s \in Sessions, IsActive(s)'
          PROVE  \/ disconnectRequested'[s] \/ recvs'[s] > 0 \/ InChain(Acceptor, s)'
                 \/ /\ IsActive(s) /\ ~disconnectRequested[s]
                    /\ ~(recvs[s] > 0) /\ ~InChain(Acceptor, s)
      BY <1>a, <1>21, <2>2 DEF InChain, IsActive, SessionsTypeOK,
         ThreadsTypeOK, WorkerControl, AcceptorControl, AcceptLabels,
         ThisKnown, ChatLabels, Accept, GetIdLock, GetIdFails, Call,
         Goto
    <2>3. ASSUME NEW s \in Sessions, IsActive(s)'
          PROVE  \/ ~disconnectRequested'[s] \/ refCount'[s] >= 1
                 \/ /\ IsActive(s) /\ disconnectRequested[s]
                    /\ refCount'[s] = refCount[s]
      BY <1>a, <1>21, <2>3 DEF IsActive, SessionsTypeOK, ThreadsTypeOK,
         ThisKnown, WillRelease, Accept, GetIdLock, GetIdFails, Call,
         Goto
    <2>. QED
      BY <1>a, <2>1, <2>2, <2>3, ChainMoves, WillReleaseKept DEF
         ChainInv
  <1>22. ASSUME NEW c \in Conns, Say(c)
        PROVE  ChainInv'
    <2>1. OnlyMoves(Acceptor)
      BY <1>a, <1>22 DEF OnlyMoves, ThreadsTypeOK, Say
    <2>2. ASSUME NEW s \in Sessions, IsActive(s)'
          PROVE  \/ disconnectRequested'[s] \/ recvs'[s] > 0 \/ InChain(Acceptor, s)'
                 \/ /\ IsActive(s) /\ ~disconnectRequested[s]
                    /\ ~(recvs[s] > 0) /\ ~InChain(Acceptor, s)
      BY <1>a, <1>22, <2>2 DEF InChain, IsActive, SessionsTypeOK,
         ThreadsTypeOK, WorkerControl, AcceptorControl, AcceptLabels,
         ThisKnown, ChatLabels, Say
    <2>3. ASSUME NEW s \in Sessions, IsActive(s)'
          PROVE  \/ ~disconnectRequested'[s] \/ refCount'[s] >= 1
                 \/ /\ IsActive(s) /\ disconnectRequested[s]
                    /\ refCount'[s] = refCount[s]
      BY <1>a, <1>22, <2>3 DEF IsActive, SessionsTypeOK, ThreadsTypeOK,
         ThisKnown, WillRelease, Say
    <2>. QED
      BY <1>a, <2>1, <2>2, <2>3, ChainMoves, WillReleaseKept DEF
         ChainInv
  <1>23. ASSUME NEW c \in Conns, Close(c)
        PROVE  ChainInv'
    <2>1. OnlyMoves(Acceptor)
      BY <1>a, <1>23 DEF OnlyMoves, ThreadsTypeOK, Close
    <2>2. ASSUME NEW s \in Sessions, IsActive(s)'
          PROVE  \/ disconnectRequested'[s] \/ recvs'[s] > 0 \/ InChain(Acceptor, s)'
                 \/ /\ IsActive(s) /\ ~disconnectRequested[s]
                    /\ ~(recvs[s] > 0) /\ ~InChain(Acceptor, s)
      BY <1>a, <1>23, <2>2 DEF InChain, IsActive, SessionsTypeOK,
         ThreadsTypeOK, WorkerControl, AcceptorControl, AcceptLabels,
         ThisKnown, ChatLabels, Close
    <2>3. ASSUME NEW s \in Sessions, IsActive(s)'
          PROVE  \/ ~disconnectRequested'[s] \/ refCount'[s] >= 1
                 \/ /\ IsActive(s) /\ disconnectRequested[s]
                    /\ refCount'[s] = refCount[s]
      BY <1>a, <1>23, <2>3 DEF IsActive, SessionsTypeOK, ThreadsTypeOK,
         ThisKnown, WillRelease, Close
    <2>. QED
      BY <1>a, <2>1, <2>2, <2>3, ChainMoves, WillReleaseKept DEF
         ChainInv
  <1>24. CASE UNCHANGED vars
    BY <1>a, <1>24
    DEF vars, ChainInv, ChainKept, WillRelease, InChain, IsActive
  <1>. QED
    BY <1>1, <1>1p, <1>2, <1>3, <1>4, <1>5, <1>6, <1>7, <1>8, <1>9, <1>10,
       <1>11, <1>12, <1>13, <1>14, <1>15, <1>16, <1>17, <1>18, <1>19, <1>20,
       <1>21, <1>22, <1>23, <1>24
    DEF Next, Completion, Handling, Shared, Accepting

(* With no reference left, only the thread that is about to post the recv  *)
(* can be the one that keeps the chain.                                    *)
LEMMA NotForgottenFromChain ==
  TypeInv /\ RefInv /\ ChainInv => NotForgotten
PROOF
  <1>. SUFFICES ASSUME TypeInv, RefInv, ChainInv, NEW s \in Sessions,
                       IsActive(s), refCount[s] = 0
                PROVE  \E t \in Threads : this[t] = s /\ pc[t] = "postRecv"
    BY DEF NotForgotten
  <1>1. TypeOK /\ recvs[s] \in Nat /\ Len(sends[s]) \in Nat
    BY DEF TypeInv, TypeOK, SessionsTypeOK
  <1>2. recvs[s] = 0
    BY <1>1, FiniteInside DEF RefInv, RefCountExact
  <1>3. PICK t \in Threads : InChain(t, s)
    BY <1>2 DEF ChainInv, ChainKept, WillRelease
  <1>4. ~(t \in Workers /\ onRecv[t] = s) /\ ~HoldsRef(t, s)
    BY <1>1, CountedIsActive
  <1>. QED
    BY <1>3, <1>4 DEF InChain, HoldsRef

-----------------------------------------------------------------------------
(* All of it together. *)

SlotInv == IdsConserved /\ RouteInv /\ ChatInv /\ ChainInv

LEMMA SlotInvariant == Spec => [](TypeInv /\ RefInv /\ SlotInv)
PROOF
  <1>1. ServerInit => SlotInv
    BY IdsInit, RouteInit, ChatInit, ChainInit DEF SlotInv
  <1>2. (TypeInv /\ RefInv /\ SlotInv) /\ [Next]_vars => SlotInv'
    BY IdsStep, RouteStep, ChatStep, ChainStep DEF SlotInv
  <1>. QED
    BY RefInvariant, <1>1, <1>2, PTL DEF Spec

(* The id of a slot is on the stack once, or carried by one thread, or the *)
(* slot is in use: no slot serves two clients and none is lost, for any    *)
(* number of slots and threads.                                            *)
THEOREM SlotIdsConserved == Spec => []IdsConserved
PROOF
  <1>1. SlotInv => IdsConserved
    BY DEF SlotInv
  <1>. QED
    BY SlotInvariant, <1>1, PTL

(* The lobby routes the user of a session to that session, whichever       *)
(* clients have used the slot before.                                      *)
THEOREM UsersRouted == Spec => []RoutedToOwnSession
PROOF
  <1>1. SlotInv => RoutedToOwnSession
    BY DEF SlotInv, RouteInv
  <1>. QED
    BY SlotInvariant, <1>1, PTL

(* A worker sends a frame through the session it has received it from,     *)
(* although it looks that session up again in the lobby, by an id it has   *)
(* read before it took the lobby's lock (Lobby.cpp:24).                   *)
THEOREM AnsweredThroughOwnSession == Spec => []AnswersOwn
PROOF
  <1>1. SlotInv => AnswersOwn
    BY DEF SlotInv, ChatInv
  <1>. QED
    BY SlotInvariant, <1>1, PTL

(* No client stays connected in a session that no completion will reach.   *)
THEOREM NoSessionForgotten == Spec => []NotForgotten
PROOF
  <1>1. TypeInv /\ RefInv /\ SlotInv => NotForgotten
    BY NotForgottenFromChain DEF SlotInv
  <1>. QED
    BY SlotInvariant, <1>1, PTL

==============================================================================
