--------------------------- MODULE FramedSession ----------------------------
(***************************************************************************)
(* One session of NetLib/Session.cpp byte by byte: the stream of a client  *)
(* cut anywhere into recvs, the frames OnRecv takes off recvQ_, and the    *)
(* echo packets that leave through sendQ_, whose memory the kernel reads   *)
(* while SendPacket goes on queueing.  EchoServer has whole frames instead *)
(* and any number of threads; here one worker serves the session.          *)
(*                                                                         *)
(* Every frame is an echo packet: a PktHeader whose Len is sizeof(int64_t) *)
(* (MsgSize), then the message.                                            *)
(***************************************************************************)
EXTENDS Integers, Sequences

CONSTANTS Bytes,          \* the values of a byte
          MsgSize,        \* sizeof(int64_t)
          Msgs,           \* Msgs[i]: the bytes of the i-th message
          MaxFrames,      \* bound: how many frames the client sends
          RecvQSize,      \* MaxRecvQsize
          SendQSize       \* MaxSendQsize

HeaderSize == 2
FrameSize == HeaderSize + MsgSize

(* eBUFFER_DEFAULT, the size of a packet constructed without one.          *)
PacketSize == 1400

ASSUME FramesAssumption ==
  /\ MsgSize \in 1..(PacketSize - HeaderSize) /\ 0..255 \subseteq Bytes
  /\ MaxFrames \in Nat /\ Msgs \in [1..MaxFrames -> [1..MsgSize -> Bytes]]
  /\ RecvQSize \in Nat /\ SendQSize \in Nat
  /\ RecvQSize >= FrameSize /\ SendQSize >= FrameSize

VARIABLES recvFront, recvRear, recvBuffer, recvMoved,      \* recvQ_
          sendFront, sendRear, sendBuffer, sendMoved,      \* sendQ_
          isSending, disconnectRequested,
          parts,        \* the cells of sendQ_ given to WSASend
          pc,           \* what the worker does next
          sent,         \* how many frames the client has sent
          received,     \* how many bytes of them recvQ_ has been given
          handled,      \* the messages handed to OnMessage
          queued,       \* those whose echo sendQ_ has taken
          echoed        \* the bytes the client has got back

recvVars == << recvFront, recvRear, recvBuffer, recvMoved >>
sendVars == << sendFront, sendRear, sendBuffer, sendMoved >>
flagVars == << isSending, disconnectRequested, parts >>
streamVars == << sent, received, echoed >>
framedVars == << recvVars, sendVars, flagVars, streamVars, pc, handled, queued >>

RecvQ == INSTANCE RingBuffer WITH
           BufferSize <- RecvQSize, front <- recvFront, rear <- recvRear,
           buffer <- recvBuffer, moved <- recvMoved
SendQ == INSTANCE RingBuffer WITH
           BufferSize <- SendQSize, front <- sendFront, rear <- sendRear,
           buffer <- sendBuffer, moved <- sendMoved

(* PktHeader is one short, in the byte order of the machine.               *)
Header == << MsgSize % 256, MsgSize \div 256 >>
LenOf(header) == header[1] + 256 * header[2]

(* mp_Echo: the header is put into the packet, then the message.           *)
Packet(msg) == Header \o msg

(* The p-th byte of what the client sends.                                 *)
StreamByte(p) == Packet(Msgs[((p - 1) \div FrameSize) + 1])
                       [((p - 1) % FrameSize) + 1]

FramedInit ==
  /\ RecvQ!RingInit /\ SendQ!RingInit
  /\ isSending = FALSE /\ disconnectRequested = FALSE
  /\ parts = << >>
  /\ pc = "wait"
  /\ sent = 0 /\ received = 0
  /\ handled = << >> /\ queued = << >> /\ echoed = << >>

-----------------------------------------------------------------------------

ClientSends ==
  /\ sent < MaxFrames
  /\ sent' = sent + 1
  /\ UNCHANGED << recvVars, sendVars, flagVars, received, echoed, pc, handled,
                  queued >>

(* A recv completes with some of the bytes on their way, no more than the  *)
(* parts of PostRecv hold: OnRecv begins with MoveRear.                    *)
RecvCompletes ==
  /\ pc = "wait"
  /\ \E n \in 1..(sent * FrameSize - received) :
       /\ RecvQ!DirectEnqueue([i \in 1..n |-> StreamByte(received + i)])
       /\ received' = received + n
  /\ pc' = "loop"
  /\ UNCHANGED << sendVars, flagVars, sent, echoed, handled, queued >>

(* Mutants of the two tests of OnRecv's loop.                              *)
WholeFrame_HeaderOnly == RecvQ!UseSize > HeaderSize
WholeFrame_More ==
  /\ RecvQ!UseSize > HeaderSize
  /\ RecvQ!UseSize > HeaderSize + LenOf(RecvQ!Peeked(HeaderSize))

(* recvQ_ holds a header, and all that the header announces.               *)
WholeFrame ==
  /\ RecvQ!UseSize > HeaderSize
  /\ RecvQ!UseSize >= HeaderSize + LenOf(RecvQ!Peeked(HeaderSize))

TakeHeader ==
  /\ pc = "loop"
  /\ WholeFrame
  /\ recvMoved' = RecvQ!Peeked(HeaderSize)
  /\ RecvQ!MoveFront(HeaderSize)
  /\ pc' = "payload"
  /\ UNCHANGED << recvRear, recvBuffer, sendVars, flagVars, streamVars,
                  handled, queued >>

(* The payload goes into a packet and the packet to OnMessage.             *)
TakePayload ==
  /\ pc = "payload"
  /\ RecvQ!Dequeue(LenOf(recvMoved))
  /\ handled' = Append(handled, recvMoved')
  /\ pc' = "sendPacket"
  /\ UNCHANGED << sendVars, flagVars, streamVars, queued >>

(* Nothing whole is left: DecrementRefCount releases the session when its  *)
(* disconnection is requested and no send is outstanding; else PostRecv.   *)
LoopEnds ==
  /\ pc = "loop"
  /\ ~WholeFrame
  /\ pc' = IF disconnectRequested /\ ~isSending THEN "released" ELSE "wait"
  /\ UNCHANGED << recvVars, sendVars, flagVars, streamVars, handled, queued >>

(* SendPacket: the whole echo packet enters sendQ_, or none of it and the  *)
(* disconnection is requested.                                             *)
SendPacket ==
  LET msg == handled[Len(handled)] IN
  /\ pc = "sendPacket"
  /\ SendQ!Enqueue(Packet(msg))
  /\ \/ /\ FrameSize <= SendQ!FreeSize
        /\ queued' = Append(queued, msg)
        /\ pc' = "postSend"
        /\ UNCHANGED disconnectRequested
     \/ /\ FrameSize > SendQ!FreeSize
        /\ disconnectRequested' = TRUE
        /\ pc' = "loop"
        /\ UNCHANGED queued
  /\ UNCHANGED << recvVars, isSending, parts, streamVars, handled >>

(* The cells of the two parts of PostSend, in the order of their bytes.    *)
(* Mutant: the second part begins where the first one ends.                *)
Parts_NotWrapped ==
  [i \in 1..SendQ!UseSize |->
     IF i <= SendQ!SendLens[1] THEN sendFront + i - 1
                               ELSE (sendFront + i) % (SendQSize + 1)]
Parts == [i \in 1..SendQ!UseSize |->
            IF i <= SendQ!SendLens[1] THEN sendFront + i - 1
                                      ELSE i - SendQ!SendLens[1] - 1]

(* PostSend, from OnRecv and from OnSend.                                  *)
PostSend ==
  /\ pc \in {"postSend", "postRest"}
  /\ pc' = IF pc = "postSend" THEN "loop" ELSE "wait"
  /\ \/ /\ ~isSending
        /\ isSending' = TRUE
        /\ parts' = Parts
     \/ /\ isSending
        /\ UNCHANGED << isSending, parts >>
  /\ UNCHANGED << recvVars, sendVars, disconnectRequested, streamVars, handled,
                  queued >>

(* What the kernel reads in the cells it was given.                        *)
Gathered == [i \in DOMAIN parts |-> sendBuffer[parts[i]]]

(* Mutants of what OnSend does: the bytes that were sent stay in the       *)
(* queue; the front does not wrap.                                         *)
FinishSend_Kept == UNCHANGED sendFront
FinishSend_Beyond == sendFront' = sendFront + Len(parts)
FinishSend == SendQ!MoveFront(Len(parts))

(* Mutant of the last test of OnSend: nothing is posted.                   *)
QueuedAfter_Never == FALSE
QueuedAfter == SendQ!UseSize > Len(parts)

(* A send completes: the client gets its bytes, OnSend removes them and    *)
(* posts what was queued meanwhile.                                        *)
SendCompletes ==
  /\ pc = "wait"
  /\ isSending
  /\ echoed' = echoed \o Gathered
  /\ FinishSend
  /\ isSending' = FALSE
  /\ parts' = << >>
  /\ pc' = IF QueuedAfter THEN "postRest" ELSE "wait"
  /\ UNCHANGED << recvVars, sendRear, sendBuffer, sendMoved,
                  disconnectRequested, sent, received, handled, queued >>

Worker == \/ TakeHeader \/ TakePayload \/ LoopEnds \/ SendPacket \/ PostSend

FramedNext == ClientSends \/ RecvCompletes \/ Worker \/ SendCompletes

(* The worker goes on, and takes a completion that has arrived: one of the *)
(* two kinds cannot keep the other waiting in a FIFO completion port.  A   *)
(* recv completes when bytes are there, a send because the client reads.   *)
FramedFairness ==
  /\ WF_framedVars(Worker)
  /\ SF_framedVars(RecvCompletes)
  /\ SF_framedVars(SendCompletes)

FramedSpec == FramedInit /\ [][FramedNext]_framedVars /\ FramedFairness

-----------------------------------------------------------------------------
(* Properties. *)

FramedTypeOK ==
  /\ RecvQ!RingTypeOK /\ SendQ!RingTypeOK
  /\ isSending \in BOOLEAN /\ disconnectRequested \in BOOLEAN
  /\ parts \in Seq(0..SendQSize)
  /\ pc \in {"wait", "loop", "payload", "sendPacket", "postSend", "postRest",
            "released"}
  /\ sent \in 0..MaxFrames /\ received \in 0..(sent * FrameSize)
  /\ handled \in Seq(Seq(Bytes)) /\ queued \in Seq(Seq(Bytes))
  /\ echoed \in Seq(Bytes)

(* However the stream is cut, the messages handed to OnMessage are those   *)
(* the client sent, in order, none lost, doubled or shifted by a byte.     *)
HandledAsSent ==
  /\ Len(handled) <= sent
  /\ \A i \in 1..Len(handled) : handled[i] = Msgs[i]

(* Whenever a recv is outstanding, no whole frame waits in recvQ_ for a    *)
(* byte that may never come, and the recv has room for at least one byte:  *)
(* one without would complete with zero bytes, as if the client had gone.  *)
NothingWholeWaits ==
  pc = "wait" => ~(RecvQ!UseSize >= FrameSize) /\ RecvQ!FreeSize > 0

(* The frames of a sequence of messages, one after the other.              *)
StreamOf(msgs) ==
  [p \in 1..(Len(msgs) * FrameSize) |->
     Packet(msgs[((p - 1) \div FrameSize) + 1])[((p - 1) % FrameSize) + 1]]

(* The client gets the frames queued for it, whole and in order, over all  *)
(* wraps of the ring: what it has got and what sendQ_ holds are exactly    *)
(* the packets that were queued.                                           *)
EchoedAsQueued == echoed \o SendQ!Contents = StreamOf(queued)

(* While a send is outstanding its cells keep the oldest bytes of sendQ_:  *)
(* no packet queued meanwhile is written over what the kernel reads.       *)
PartsAreKept ==
  isSending => /\ Len(parts) \in 1..SendQ!UseSize
               /\ Gathered = SubSeq(SendQ!Contents, 1, Len(parts))

(* Every frame that is sent is handled, unless the session is released     *)
(* because sendQ_ was full; and what is queued is sent, in every case.     *)
AllServed ==
  /\ \A k \in 1..MaxFrames :
       (sent >= k) ~> (Len(handled) >= k \/ pc = "released")
  /\ []<>(Len(echoed) = Len(queued) * FrameSize)

=============================================================================
