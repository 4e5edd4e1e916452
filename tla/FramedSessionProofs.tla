------------------------- MODULE FramedSessionProofs -------------------------
(***************************************************************************)
(* One session byte by byte, for every message size, every sequence of     *)
(* messages and every size of the two rings: the frames are found in the   *)
(* stream however it is cut, and echoed whole and in order over the wraps  *)
(* of sendQ_, whose cells the kernel reads meanwhile.                      *)
(***************************************************************************)
EXTENDS FramedSession, SequenceTheorems, TLAPS

(* What is proved of every ring, for each of the two.                      *)
RecvP == INSTANCE RingBufferProofs WITH
           BufferSize <- RecvQSize, front <- recvFront, rear <- recvRear,
           buffer <- recvBuffer, moved <- recvMoved
SendP == INSTANCE RingBufferProofs WITH
           BufferSize <- SendQSize, front <- sendFront, rear <- sendRear,
           buffer <- sendBuffer, moved <- sendMoved

-----------------------------------------------------------------------------
(* The two rings as queues. *)

LEMMA RingSizes ==
  /\ FrameSize \in Nat /\ FrameSize = MsgSize + 2 /\ MsgSize \in 1..1398
  /\ RecvQSize \in Nat \ {0} /\ SendQSize \in Nat \ {0}
  /\ RecvQSize >= FrameSize /\ SendQSize >= FrameSize
  /\ 0 \in Bytes /\ Bytes # {}
PROOF
  <1>1. MsgSize \in 1..1398
    BY FramesAssumption DEF PacketSize, HeaderSize
  <1>2. 0 \in Bytes
    <2>1. 0..255 \subseteq Bytes /\ 0 \in 0..255
      BY FramesAssumption
    <2>. QED
      BY <2>1
  <1>3. RecvQSize \in Nat /\ SendQSize \in Nat
        /\ RecvQSize >= FrameSize /\ SendQSize >= FrameSize
    BY FramesAssumption
  <1>4. FrameSize = MsgSize + 2
    BY <1>1 DEF FrameSize, HeaderSize
  <1>. QED
    BY <1>1, <1>2, <1>3, <1>4

LEMMA HeaderBytes ==
  /\ MsgSize % 256 \in Bytes /\ MsgSize \div 256 \in Bytes
  /\ (MsgSize % 256) + 256 * (MsgSize \div 256) = MsgSize
PROOF
  <1>1. /\ MsgSize % 256 \in 0..255 /\ MsgSize \div 256 \in 0..255
        /\ (MsgSize % 256) + 256 * (MsgSize \div 256) = MsgSize
    BY RingSizes
  <1>2. 0..255 \subseteq Bytes
    BY FramesAssumption
  <1>. QED
    BY <1>1, <1>2

RecvAgree ==
  /\ RecvP!RingTypeOK <=> RecvQ!RingTypeOK
  /\ RecvP!Contents = RecvQ!Contents
  /\ RecvP!UseSize = RecvQ!UseSize /\ RecvP!FreeSize = RecvQ!FreeSize
  /\ \A n : RecvP!Peeked(n) = RecvQ!Peeked(n)
LEMMA RecvSame == RecvAgree
PROOF
  BY DEF RecvAgree, RecvP!RingTypeOK, RecvQ!RingTypeOK,
     RecvP!Cells, RecvQ!Cells,
     RecvP!size, RecvQ!size, RecvP!Contents, RecvQ!Contents, RecvP!UseSize,
     RecvQ!UseSize, RecvP!FreeSize, RecvQ!FreeSize, RecvP!Peeked,
     RecvQ!Peeked, RecvP!At, RecvQ!At, RecvP!Turned, RecvQ!Turned

SendAgree ==
  /\ SendP!RingTypeOK <=> SendQ!RingTypeOK
  /\ SendP!Contents = SendQ!Contents
  /\ SendP!UseSize = SendQ!UseSize /\ SendP!FreeSize = SendQ!FreeSize
  /\ \A n : SendP!Peeked(n) = SendQ!Peeked(n)
LEMMA SendSame == SendAgree
PROOF
  BY DEF SendAgree, SendP!RingTypeOK, SendQ!RingTypeOK,
     SendP!Cells, SendQ!Cells,
     SendP!size, SendQ!size, SendP!Contents, SendQ!Contents, SendP!UseSize,
     SendQ!UseSize, SendP!FreeSize, SendQ!FreeSize, SendP!Peeked,
     SendQ!Peeked, SendP!At, SendQ!At, SendP!Turned, SendQ!Turned

(* recvQ_ holds a sequence of bytes, and what is peeked is its beginning.  *)
LEMMA RecvContents ==
  ASSUME RecvQ!RingTypeOK
  PROVE  /\ RecvQ!Contents \in Seq(Bytes)
         /\ Len(RecvQ!Contents) = RecvQ!UseSize
         /\ RecvQ!UseSize \in 0..RecvQSize
         /\ RecvQ!FreeSize = RecvQSize - RecvQ!UseSize
         /\ \A n \in 0..RecvQ!UseSize :
              RecvQ!Peeked(n) = SubSeq(RecvQ!Contents, 1, n)
PROOF
  <1>1. RecvP!RingTypeOK
    BY RecvSame DEF RecvAgree
  <1>2. \A n \in 0..RecvP!UseSize :
          RecvP!Peeked(n) = SubSeq(RecvP!Contents, 1, n)
    BY <1>1, RingSizes, RecvP!PeekedIsPrefix
  <1>3. /\ RecvP!Contents \in Seq(Bytes)
        /\ Len(RecvP!Contents) = RecvP!UseSize
        /\ RecvP!UseSize \in 0..RecvQSize
        /\ RecvP!FreeSize = RecvQSize - RecvP!UseSize
    BY <1>1, RingSizes, RecvP!ContentsType, RecvP!SizesFit
  <1>. QED
    BY <1>2, <1>3, RecvSame DEF RecvAgree

LEMMA SendContents ==
  ASSUME SendQ!RingTypeOK
  PROVE  /\ SendQ!Contents \in Seq(Bytes)
         /\ Len(SendQ!Contents) = SendQ!UseSize
         /\ SendQ!UseSize \in 0..SendQSize
         /\ SendQ!FreeSize = SendQSize - SendQ!UseSize
PROOF
  <1>1. SendP!RingTypeOK
    BY SendSame DEF SendAgree
  <1>2. /\ SendP!Contents \in Seq(Bytes)
        /\ Len(SendP!Contents) = SendP!UseSize
        /\ SendP!UseSize \in 0..SendQSize
        /\ SendP!FreeSize = SendQSize - SendP!UseSize
    BY <1>1, RingSizes, SendP!ContentsType, SendP!SizesFit
  <1>. QED
    BY <1>2, SendSame DEF SendAgree

(* A recv that completes adds its bytes at the end.                        *)
LEMMA RecvEnters ==
  ASSUME RecvQ!RingTypeOK, NEW data \in Seq(Bytes), RecvQ!DirectEnqueue(data)
  PROVE  /\ RecvQ!RingTypeOK'
         /\ RecvQ!Contents' = RecvQ!Contents \o data
         /\ RecvQ!UseSize' = RecvQ!UseSize + Len(data)
PROOF
  <1>1. RecvP!RingTypeOK
    BY RecvSame DEF RecvAgree
  <1>2. RecvP!DirectEnqueue(data)
    BY DEF RecvQ!DirectEnqueue, RecvP!DirectEnqueue, RecvQ!RecvLens,
       RecvP!RecvLens, RecvQ!DirectEnqueueSize, RecvP!DirectEnqueueSize,
       RecvQ!FreeSize, RecvP!FreeSize, RecvQ!size, RecvP!size, RecvQ!Cells,
       RecvP!Cells, RecvQ!Lesser, RecvP!Lesser, RecvQ!MoveRear,
       RecvP!MoveRear, RecvQ!Turned, RecvP!Turned
  <1>3. RecvP!Enqueue(data) /\ Len(data) <= RecvP!FreeSize
    BY <1>1, <1>2, RingSizes, RecvP!DirectEnqueueIsEnqueue
  <1>4. RecvP!RingTypeOK'
    BY <1>1, <1>3, RingSizes, RecvP!EnqueueType
  <1>5. /\ RecvP!Contents' = RecvP!Contents \o data
        /\ RecvP!UseSize' = RecvP!UseSize + Len(data)
    BY <1>1, <1>3, RingSizes, RecvP!EnqueueAdds
  <1>6. /\ RecvP!RingTypeOK' <=> RecvQ!RingTypeOK'
        /\ RecvP!Contents' = RecvQ!Contents'
        /\ RecvP!UseSize' = RecvQ!UseSize'
    <2>1. RecvAgree'
      BY RecvSame, PTL
    <2>. QED
      BY <2>1 DEF RecvAgree
  <1>. QED
    BY <1>4, <1>5, <1>6, RecvSame DEF RecvAgree

(* Bytes taken off recvQ_ are its oldest.                                  *)
LEMMA RecvLeaves ==
  ASSUME RecvQ!RingTypeOK, NEW n \in 0..RecvQ!UseSize,
         RecvQ!MoveFront(n), UNCHANGED << recvRear, recvBuffer >>,
         recvMoved' \in Seq(Bytes)
  PROVE  /\ RecvQ!RingTypeOK'
         /\ RecvQ!Contents'
              = SubSeq(RecvQ!Contents, n + 1, Len(RecvQ!Contents))
         /\ RecvQ!UseSize' = RecvQ!UseSize - n
PROOF
  <1>1. RecvP!RingTypeOK /\ n \in 0..RecvP!UseSize
    BY RecvSame DEF RecvAgree
  <1>2. RecvP!MoveFront(n)
    BY DEF RecvQ!MoveFront, RecvP!MoveFront, RecvQ!Turned, RecvP!Turned,
       RecvQ!size, RecvP!size
  <1>3. /\ recvFront' \in RecvP!Cells
        /\ RecvP!Contents' = SubSeq(RecvP!Contents, n + 1, Len(RecvP!Contents))
        /\ RecvP!UseSize' = RecvP!UseSize - n
    BY <1>1, <1>2, RingSizes, RecvP!FrontMoves
  <1>4. RecvP!RingTypeOK'
    BY <1>1, <1>3 DEF RecvP!RingTypeOK
  <1>5. /\ RecvP!RingTypeOK' <=> RecvQ!RingTypeOK'
        /\ RecvP!Contents' = RecvQ!Contents'
        /\ RecvP!UseSize' = RecvQ!UseSize'
    <2>1. RecvAgree'
      BY RecvSame, PTL
    <2>. QED
      BY <2>1 DEF RecvAgree
  <1>. QED
    BY <1>3, <1>4, <1>5, RecvSame DEF RecvAgree

(* A packet that fits enters sendQ_ whole; one that does not, not at all.  *)
LEMMA SendEnters ==
  ASSUME SendQ!RingTypeOK, NEW data \in Seq(Bytes), SendQ!Enqueue(data),
         Len(data) <= SendQ!FreeSize
  PROVE  /\ SendQ!RingTypeOK' /\ sendFront' = sendFront
         /\ SendQ!Contents' = SendQ!Contents \o data
         /\ SendQ!UseSize' = SendQ!UseSize + Len(data)
PROOF
  <1>1. SendP!RingTypeOK
    BY SendSame DEF SendAgree
  <1>2. SendP!Enqueue(data)
    BY DEF SendQ!Enqueue, SendP!Enqueue, SendQ!FreeSize, SendP!FreeSize,
       SendQ!size, SendP!size, SendQ!Cells, SendP!Cells, SendQ!MoveRear,
       SendP!MoveRear, SendQ!Turned, SendP!Turned, SendQ!FromRear,
       SendP!FromRear, SendQ!Refused, SendP!Refused
  <1>3. Len(data) <= SendP!FreeSize
    BY SendSame DEF SendAgree
  <1>4. SendP!RingTypeOK'
    BY <1>1, <1>2, RingSizes, SendP!EnqueueType
  <1>5. /\ SendP!Contents' = SendP!Contents \o data
        /\ SendP!UseSize' = SendP!UseSize + Len(data)
    BY <1>1, <1>2, <1>3, RingSizes, SendP!EnqueueAdds
  <1>6. /\ SendP!RingTypeOK' <=> SendQ!RingTypeOK'
        /\ SendP!Contents' = SendQ!Contents'
        /\ SendP!UseSize' = SendQ!UseSize'
    <2>1. SendAgree'
      BY SendSame, PTL
    <2>. QED
      BY <2>1 DEF SendAgree
  <1>7. sendFront' = sendFront
    BY DEF SendQ!Enqueue, SendQ!Refused
  <1>. QED
    BY <1>4, <1>5, <1>6, <1>7, SendSame DEF SendAgree

LEMMA SendRefused ==
  ASSUME SendQ!RingTypeOK, NEW data \in Seq(Bytes), SendQ!Enqueue(data),
         Len(data) > SendQ!FreeSize
  PROVE  /\ SendQ!RingTypeOK'
         /\ UNCHANGED << sendFront, sendRear, sendBuffer >>
PROOF
  <1>1. SendQ!FreeSize \in Int /\ Len(data) \in Nat
    BY SendContents, RingSizes
  <1>2. SendQ!Refused
    BY <1>1 DEF SendQ!Enqueue
  <1>. QED
    BY <1>2 DEF SendQ!RingTypeOK, SendQ!Refused, SendQ!Cells, SendQ!size

LEMMA SendLeaves ==
  ASSUME SendQ!RingTypeOK, NEW n \in 0..SendQ!UseSize, SendQ!MoveFront(n),
         UNCHANGED << sendRear, sendBuffer, sendMoved >>
  PROVE  /\ SendQ!RingTypeOK'
         /\ SendQ!Contents'
              = SubSeq(SendQ!Contents, n + 1, Len(SendQ!Contents))
         /\ SendQ!UseSize' = SendQ!UseSize - n
PROOF
  <1>1. SendP!RingTypeOK /\ n \in 0..SendP!UseSize
    BY SendSame DEF SendAgree
  <1>2. SendP!MoveFront(n)
    BY DEF SendQ!MoveFront, SendP!MoveFront, SendQ!Turned, SendP!Turned,
       SendQ!size, SendP!size
  <1>3. /\ sendFront' \in SendP!Cells
        /\ SendP!Contents' = SubSeq(SendP!Contents, n + 1, Len(SendP!Contents))
        /\ SendP!UseSize' = SendP!UseSize - n
    BY <1>1, <1>2, RingSizes, SendP!FrontMoves
  <1>4. SendP!RingTypeOK'
    BY <1>1, <1>3 DEF SendP!RingTypeOK
  <1>5. /\ SendP!RingTypeOK' <=> SendQ!RingTypeOK'
        /\ SendP!Contents' = SendQ!Contents'
        /\ SendP!UseSize' = SendQ!UseSize'
    <2>1. SendAgree'
      BY SendSame, PTL
    <2>. QED
      BY <2>1 DEF SendAgree
  <1>. QED
    BY <1>3, <1>4, <1>5, SendSame DEF SendAgree

-----------------------------------------------------------------------------
(* Frames in a stream. *)

(* Division, also by a divisor that is not a number.                       *)
LEMMA Division ==
  ASSUME NEW a \in Nat, NEW d \in Nat, d > 0
  PROVE  \E q \in Int, r \in 0..(d - 1) :
           q = a \div d /\ r = a % d /\ a = d * q + r
PROOF
  <1>1. a \div d \in Int /\ a % d \in 0..(d - 1)
    OBVIOUS
  <1>2. a = d * (a \div d) + (a % d)
    OBVIOUS
  <1>. QED
    BY <1>1, <1>2

LEMMA DivisionUnique ==
  ASSUME NEW a \in Nat, NEW d \in Nat, d > 0,
         NEW q \in Int, NEW r \in 0..(d - 1), a = d * q + r
  PROVE  a \div d = q /\ a % d = r
PROOF
  OBVIOUS

(* A position is in one of the first n frames.                             *)
LEMMA FrameOf ==
  ASSUME NEW a \in Nat, NEW n \in Nat, a < n * FrameSize
  PROVE  /\ a \div FrameSize \in 0..(n - 1)
         /\ a % FrameSize \in 0..(FrameSize - 1)
PROOF
  <1>1. PICK F \in Nat : F = FrameSize /\ F > 0
    BY RingSizes
  <1>2. PICK q \in Int, r \in 0..(F - 1) :
          q = a \div F /\ r = a % F /\ a = F * q + r
    BY <1>1, Division
  <1>3. q >= 0
    <2>1. CASE q <= -1
      <3>1. F * q <= -F
        BY <1>1, <1>2, <2>1
      <3>. QED
        BY <1>1, <1>2, <3>1
    <2>. QED
      BY <1>2, <2>1
  <1>4. q < n
    <2>1. CASE q >= n
      <3>1. F * q >= n * F
        BY <1>1, <1>2, <2>1
      <3>. QED
        BY <1>1, <1>2, <3>1
    <2>. QED
      BY <1>2, <2>1
  <1>. QED
    BY <1>1, <1>2, <1>3, <1>4

(* The j-th byte of the frame after h frames is in that frame, at j.       *)
LEMMA InFrame ==
  ASSUME NEW h \in Nat, NEW j \in 1..FrameSize
  PROVE  /\ (h * FrameSize + j - 1) \div FrameSize = h
         /\ (h * FrameSize + j - 1) % FrameSize = j - 1
PROOF
  <1>1. PICK F \in Nat : F = FrameSize /\ F > 0
    BY RingSizes
  <1>2. PICK a \in Nat : a = h * F + j - 1 /\ a = F * h + (j - 1)
    BY <1>1
  <1>3. j - 1 \in 0..(F - 1)
    BY <1>1
  <1>4. a \div F = h /\ a % F = j - 1
    BY <1>1, <1>2, <1>3, DivisionUnique
  <1>. QED
    BY <1>1, <1>2, <1>4

LEMMA FrameSteps ==
  ASSUME NEW h \in Nat
  PROVE  /\ h * FrameSize \in Nat
         /\ (h + 1) * FrameSize = h * FrameSize + FrameSize
PROOF
  BY RingSizes

(* Bytes of a further frame have come only if it was sent.                 *)
LEMMA FurtherFrame ==
  ASSUME NEW h \in Nat, NEW s \in Nat, NEW k \in Nat \ {0},
         h * FrameSize + k <= s * FrameSize
  PROVE  h + 1 <= s
PROOF
  <1>1. PICK F \in Nat : F = FrameSize /\ F > 0
    BY RingSizes
  <1>2. SUFFICES ASSUME s <= h PROVE FALSE
    OBVIOUS
  <1>3. s * F <= h * F
    BY <1>1, <1>2
  <1>. QED
    BY <1>1, <1>3

(* A packet is a frame of bytes whose header announces its payload.        *)
LEMMA PacketBytes ==
  ASSUME NEW msg \in [1..MsgSize -> Bytes]
  PROVE  /\ Packet(msg) \in Seq(Bytes) /\ Len(Packet(msg)) = FrameSize
         /\ SubSeq(Packet(msg), 1, HeaderSize) = Header
         /\ SubSeq(Packet(msg), HeaderSize + 1, FrameSize) = msg
PROOF
  <1>1. Header \in Seq(Bytes) /\ Len(Header) = 2
    BY HeaderBytes DEF Header
  <1>2. msg \in Seq(Bytes) /\ Len(msg) = MsgSize
    BY RingSizes
  <1>3. Packet(msg) \in Seq(Bytes) /\ Len(Packet(msg)) = FrameSize
    <2>1. 2 + MsgSize = FrameSize
      BY RingSizes
    <2>2. /\ Header \o msg \in Seq(Bytes)
          /\ Len(Header \o msg) = Len(Header) + Len(msg)
      BY <1>1, <1>2, ConcatProperties
    <2>. QED
      BY <1>1, <1>2, <2>1, <2>2 DEF Packet
  <1>4. SubSeq(Packet(msg), 1, HeaderSize) = Header
    BY <1>1, <1>2, <1>3, RingSizes DEF Packet, HeaderSize
  <1>5. SubSeq(Packet(msg), HeaderSize + 1, FrameSize) = msg
    BY <1>1, <1>2, <1>3, RingSizes DEF Packet, HeaderSize
  <1>. QED
    BY <1>3, <1>4, <1>5

LEMMA HeaderAnnounces ==
  Header \in Seq(Bytes) /\ Len(Header) = HeaderSize /\ LenOf(Header) = MsgSize
PROOF
  <1>1. Header = << MsgSize % 256, MsgSize \div 256 >>
    BY DEF Header
  <1>. QED
    BY <1>1, HeaderBytes DEF HeaderSize, LenOf

LEMMA MessageType ==
  ASSUME NEW h \in 0..(MaxFrames - 1)
  PROVE  h + 1 \in 1..MaxFrames /\ Msgs[h + 1] \in [1..MsgSize -> Bytes]
PROOF
  <1>1. h + 1 \in 1..MaxFrames
    <2>1. MaxFrames \in Nat
      BY FramesAssumption
    <2>. QED
      BY <2>1
  <1>. QED
    BY <1>1, FramesAssumption

(* The bytes of the frame after h frames.                                  *)
LEMMA StreamFrame ==
  ASSUME NEW h \in 0..(MaxFrames - 1), NEW j \in 1..FrameSize
  PROVE  StreamByte(h * FrameSize + j) = Packet(Msgs[h + 1])[j]
PROOF
  <1>1. PICK b \in Nat : b = h * FrameSize
    <2>1. h \in Nat
      BY FramesAssumption
    <2>. QED
      BY <2>1, FrameSteps
  <1>2. (b + j) - 1 = b + j - 1 /\ h \in Nat
    BY <1>1, RingSizes, FramesAssumption
  <1>3. (b + j - 1) \div FrameSize = h /\ (b + j - 1) % FrameSize = j - 1
    BY <1>1, <1>2, InFrame
  <1>4. StreamByte(b + j) = Packet(Msgs[h + 1])[j - 1 + 1]
    BY <1>2, <1>3 DEF StreamByte
  <1>5. j - 1 + 1 = j
    BY RingSizes
  <1>. QED
    BY <1>1, <1>4, <1>5

LEMMA StreamBytes ==
  ASSUME NEW p \in Nat \ {0}, p <= MaxFrames * FrameSize
  PROVE  StreamByte(p) \in Bytes
PROOF
  <1>1. PICK a \in Nat : a = p - 1 /\ a < MaxFrames * FrameSize
    BY SMTT(60), RingSizes, FramesAssumption
  <1>2. PICK q \in 0..(MaxFrames - 1), r \in 0..(FrameSize - 1) :
          q = a \div FrameSize /\ r = a % FrameSize
    BY <1>1, FrameOf, FramesAssumption
  <1>3. q + 1 \in 1..MaxFrames /\ r + 1 \in 1..FrameSize
    <2>1. MaxFrames \in Nat
      BY FramesAssumption
    <2>. QED
      BY <1>2, <2>1, RingSizes
  <1>4. Msgs[q + 1] \in [1..MsgSize -> Bytes]
    BY <1>3, FramesAssumption
  <1>5. Packet(Msgs[q + 1])[r + 1] \in Bytes
    BY <1>3, <1>4, PacketBytes
  <1>. QED
    BY <1>1, <1>2, <1>5 DEF StreamByte

(* One more message, one more frame.                                       *)
LEMMA StreamGrows ==
  ASSUME NEW S, NEW msgs \in Seq(S),
         NEW msg \in [1..MsgSize -> Bytes], msg \in S
  PROVE  StreamOf(Append(msgs, msg)) = StreamOf(msgs) \o Packet(msg)
PROOF
  <1>. DEFINE n == Len(msgs)
              more == Append(msgs, msg)
              Byte(ms, p) == Packet(ms[((p - 1) \div FrameSize) + 1])
                                   [((p - 1) % FrameSize) + 1]
  <1>1. PICK F \in Nat : F = FrameSize /\ F > 0
    BY RingSizes
  <1>2. n \in Nat /\ Len(more) = n + 1
    OBVIOUS
  <1>3. PICK b \in Nat : /\ b = n * F /\ b = n * FrameSize
                         /\ (n + 1) * FrameSize = b + F
    BY <1>1, <1>2, FrameSteps
  <1>4. StreamOf(msgs) = [p \in 1..b |-> Byte(msgs, p)]
    BY <1>3 DEF StreamOf
  <1>5. StreamOf(more) = [p \in 1..(b + F) |-> Byte(more, p)]
    BY <1>2, <1>3 DEF StreamOf
  <1>6. ASSUME NEW p \in 1..b PROVE Byte(more, p) = Byte(msgs, p)
    <2>1. PICK a \in Nat : a = p - 1 /\ a < n * FrameSize
      BY <1>3
    <2>2. (a \div FrameSize) + 1 \in 1..n
      BY <1>2, <2>1, FrameOf
    <2>3. more[(a \div FrameSize) + 1] = msgs[(a \div FrameSize) + 1]
      BY <2>2
    <2>. QED
      BY <2>1, <2>3
  <1>7. ASSUME NEW p \in 1..(b + F), ~(p <= b)
        PROVE  Byte(more, p) = Packet(msg)[p - b]
    <2>1. PICK j \in 1..F : j = p - b
      BY <1>1, <1>3, <1>7
    <2>2. p - 1 = b + j - 1
      BY SMTT(60), <1>3, <2>1
    <2>3. (b + j - 1) \div F = n /\ (b + j - 1) % F = j - 1
      BY SMTT(60), <1>1, <1>2, <1>3, <2>1, InFrame
    <2>4. more[n + 1] = msg /\ j - 1 + 1 = j
      BY <1>2, <2>1
    <2>. QED
      BY <1>1, <2>1, <2>2, <2>3, <2>4
  <1>8. StreamOf(msgs) \o Packet(msg) =
          [p \in 1..(b + F) |->
             IF p <= b THEN Byte(msgs, p) ELSE Packet(msg)[p - b]]
    <2>1. Len(StreamOf(msgs)) = b
      BY <1>4, <1>3
    <2>2. Len(Packet(msg)) = F
      BY <1>1, PacketBytes
    <2>3. \A p \in 1..b : StreamOf(msgs)[p] = Byte(msgs, p)
      BY <1>4
    <2>. DEFINE T == Bytes \cup { Byte(msgs, p) : p \in 1..b }
                both == StreamOf(msgs) \o Packet(msg)
    <2>. HIDE DEF Byte
    <2>4. StreamOf(msgs) \in Seq(T)
      <3>1. StreamOf(msgs) \in [1..b -> T]
        BY <1>4
      <3>. QED
        BY SMTT(60), <1>3, <3>1
    <2>5. Packet(msg) \in Seq(T)
      BY PacketBytes
    <2>6. /\ both \in Seq(T) /\ Len(both) = b + F
          /\ \A p \in 1..(b + F) : both[p] = IF p <= b THEN StreamOf(msgs)[p]
                                                    ELSE Packet(msg)[p - b]
      BY ZenonT(60), <2>1, <2>2, <2>4, <2>5, ConcatProperties
    <2>7. \A p \in 1..(b + F) : both[p] = IF p <= b THEN Byte(msgs, p)
                                                    ELSE Packet(msg)[p - b]
      BY <1>1, <1>3, <2>3, <2>6
    <2>. HIDE DEF both
    <2>8. both = [p \in 1..(b + F) |-> both[p]]
      <3>1. both \in [1..(b + F) -> T]
        BY <1>1, <1>3, <2>6
      <3>. QED
        BY <3>1
    <2>9. both = [p \in 1..(b + F) |->
                    IF p <= b THEN Byte(msgs, p) ELSE Packet(msg)[p - b]]
      BY <2>7, <2>8
    <2>. QED
      BY <2>9 DEF both
  <1>9. \A p \in 1..(b + F) :
          Byte(more, p) = IF p <= b THEN Byte(msgs, p) ELSE Packet(msg)[p - b]
    <2>. HIDE DEF Byte, more
    <2>1. ASSUME NEW p \in 1..(b + F), p <= b PROVE p \in 1..b
      BY <1>1, <1>3, <2>1
    <2>. QED
      BY <1>6, <1>7, <2>1
  <1>. HIDE DEF Byte, more
  <1>. QED
    BY <1>5, <1>8, <1>9 DEF more

-----------------------------------------------------------------------------
(* The inductive invariant. *)

(* How much of the stream has been taken off recvQ_.                       *)
Consumed ==
  Len(handled) * FrameSize + (IF pc = "payload" THEN HeaderSize ELSE 0)

(* recvQ_ holds what has come and not been taken.                          *)
StreamKept ==
  /\ received = Consumed + Len(RecvQ!Contents)
  /\ \A i \in 1..Len(RecvQ!Contents) :
       RecvQ!Contents[i] = StreamByte(Consumed + i)

(* Behind a header that was taken its whole payload waits.                 *)
HeaderTaken ==
  pc = "payload" => recvMoved = Header /\ RecvQ!UseSize >= MsgSize

InHand == pc = "sendPacket" => Len(handled) > 0

(* No whole frame waits while the worker is away.                          *)
NoneWhole == pc \in {"wait", "postRest"} => RecvQ!UseSize < FrameSize

RecvSide == /\ HandledAsSent /\ StreamKept /\ HeaderTaken /\ InHand
            /\ NoneWhole

(* The cells given to the kernel are those of the oldest bytes.            *)
CellsGiven ==
  isSending => /\ Len(parts) \in 1..SendQ!UseSize
               /\ \A i \in 1..Len(parts) :
                    parts[i] = SendQ!Turned(sendFront + i - 1)

(* PostSend is called with something to send.                              *)
SomethingToSend == pc \in {"postSend", "postRest"} => SendQ!UseSize > 0

SendSide == EchoedAsQueued /\ CellsGiven /\ SomethingToSend

FramedInv == FramedTypeOK /\ RecvSide /\ SendSide

(* What the invariant says of the messages handled.                        *)
LEMMA HandledBytes ==
  ASSUME FramedTypeOK, HandledAsSent, NEW i \in 1..Len(handled)
  PROVE  /\ handled[i] = Msgs[i] /\ i \in 1..MaxFrames
         /\ handled[i] \in [1..MsgSize -> Bytes]
PROOF
  <1>1. i \in 1..MaxFrames /\ handled[i] = Msgs[i]
    <2>1. /\ Len(handled) \in Nat /\ Len(handled) <= sent
          /\ sent \in 0..MaxFrames
          /\ MaxFrames \in Nat
      BY SMTT(60), FramesAssumption DEF FramedTypeOK, HandledAsSent
    <2>. QED
      BY <2>1 DEF HandledAsSent
  <1>. QED
    BY <1>1, FramesAssumption

(* How much has been sent.                                                 *)
LEMMA SentTypes ==
  ASSUME FramedTypeOK
  PROVE  /\ sent \in Nat /\ sent \in 0..MaxFrames /\ MaxFrames \in Nat
         /\ Len(handled) \in Nat /\ received \in Nat
         /\ sent * FrameSize \in Nat /\ received <= sent * FrameSize
PROOF
  <1>1. sent \in Nat /\ sent \in 0..MaxFrames /\ MaxFrames \in Nat
    BY FramesAssumption DEF FramedTypeOK
  <1>2. PICK n \in Nat : n = sent * FrameSize
    BY <1>1, FrameSteps
  <1>3. received \in 0..n
    BY <1>2 DEF FramedTypeOK
  <1>4. Len(handled) \in Nat
    BY DEF FramedTypeOK
  <1>. QED
    BY <1>1, <1>2, <1>3, <1>4

(* The next frame has been sent when some of it has come.                  *)
LEMMA NextFrame ==
  ASSUME FramedTypeOK, received > Len(handled) * FrameSize
  PROVE  Len(handled) + 1 <= sent /\ Len(handled) \in 0..(MaxFrames - 1)
PROOF
  <1>1. PICK h \in Nat, b \in Nat : h = Len(handled) /\ b = h * FrameSize
    BY FrameSteps DEF FramedTypeOK
  <1>2. /\ sent \in 0..MaxFrames /\ MaxFrames \in Nat
        /\ received \in Nat /\ received <= sent * FrameSize
    BY SentTypes
  <1>3. PICK k \in Nat \ {0} : received = b + k
    <2>1. received > b
      BY <1>1
    <2>2. received - b \in Nat \ {0} /\ received = b + (received - b)
      BY <1>1, <1>2, <2>1
    <2>. QED
      BY <2>2
  <1>4. h + 1 <= sent
    BY <1>1, <1>2, <1>3, FurtherFrame
  <1>. QED
    BY <1>1, <1>2, <1>4

(* The bytes at the front of recvQ_ are those of the next frame.           *)
LEMMA FrontIsFrame ==
  ASSUME FramedTypeOK, StreamKept, NEW n \in 1..Len(RecvQ!Contents),
         NEW k \in 0..(FrameSize - 1), k + n <= FrameSize,
         Consumed = Len(handled) * FrameSize + k
  PROVE  /\ Len(handled) + 1 <= sent /\ Len(handled) \in 0..(MaxFrames - 1)
         /\ SubSeq(RecvQ!Contents, 1, n)
              = SubSeq(Packet(Msgs[Len(handled) + 1]), k + 1, k + n)
PROOF
  <1>1. PICK h \in Nat, b \in Nat :
          h = Len(handled) /\ b = h * FrameSize /\ b = Len(handled) * FrameSize
    BY SentTypes, FrameSteps
  <1>2. RecvQ!Contents \in Seq(Bytes) /\ Len(RecvQ!Contents) \in Nat
    BY RecvContents DEF FramedTypeOK
  <1>3. received > Len(handled) * FrameSize
    BY <1>1, <1>2 DEF StreamKept
  <1>4. h + 1 <= sent /\ h \in 0..(MaxFrames - 1)
    BY <1>1, <1>3, NextFrame
  <1>5. /\ Packet(Msgs[h + 1]) \in Seq(Bytes)
        /\ Len(Packet(Msgs[h + 1])) = FrameSize
    <2>1. Msgs[h + 1] \in [1..MsgSize -> Bytes]
      BY <1>4, MessageType
    <2>. QED
      BY <2>1, PacketBytes
  <1>6. ASSUME NEW i \in 1..n
        PROVE  RecvQ!Contents[i] = Packet(Msgs[h + 1])[k + i]
    <2>1. k + i \in 1..FrameSize
      BY <1>2, RingSizes
    <2>2. Consumed + i = h * FrameSize + (k + i)
      BY <1>1
    <2>3. StreamByte(h * FrameSize + (k + i)) = Packet(Msgs[h + 1])[k + i]
      BY <1>4, <2>1, StreamFrame
    <2>4. i \in 1..Len(RecvQ!Contents)
      BY <1>2
    <2>. QED
      BY <2>2, <2>3, <2>4 DEF StreamKept
  <1>7. SubSeq(RecvQ!Contents, 1, n) = [i \in 1..n |-> RecvQ!Contents[i]]
    BY <1>2
  <1>8. SubSeq(Packet(Msgs[h + 1]), k + 1, k + n)
          = [i \in 1..n |-> Packet(Msgs[h + 1])[k + i]]
    <2>1. k + n - (k + 1) + 1 = n /\ \A i \in 1..n : i + (k + 1) - 1 = k + i
      OBVIOUS
    <2>. QED
      BY <1>5, <2>1, RingSizes
  <1>. QED
    BY <1>1, <1>4, <1>6, <1>7, <1>8

(* The test of OnRecv's loop is whether a whole frame is there.            *)
LEMMA WholeIsFrame ==
  ASSUME FramedTypeOK, StreamKept, pc # "payload"
  PROVE  WholeFrame <=> RecvQ!UseSize >= FrameSize
PROOF
  <1>1. /\ RecvQ!UseSize \in Nat /\ Len(RecvQ!Contents) = RecvQ!UseSize
        /\ MsgSize \in 1..1398 /\ FrameSize = MsgSize + 2
    BY RecvContents, RingSizes DEF FramedTypeOK
  <1>2. CASE RecvQ!UseSize > 2
    <2>1. /\ Len(handled) \in 0..(MaxFrames - 1)
          /\ SubSeq(RecvQ!Contents, 1, 2)
               = SubSeq(Packet(Msgs[Len(handled) + 1]), 1, 2)
      <3>1. Consumed = Len(handled) * FrameSize + 0
        BY FrameSteps DEF Consumed, FramedTypeOK
      <3>2. /\ 2 \in 1..Len(RecvQ!Contents) /\ 0 \in 0..(FrameSize - 1)
            /\ 0 + 2 <= FrameSize
        BY <1>1, <1>2
      <3>. QED
        BY <3>1, <3>2, FrontIsFrame
    <2>2. Msgs[Len(handled) + 1] \in [1..MsgSize -> Bytes]
      BY <2>1, MessageType
    <2>3. RecvQ!Peeked(HeaderSize) = Header
      <3>1. 2 \in 0..RecvQ!UseSize
        BY <1>1, <1>2
      <3>2. RecvQ!Peeked(2) = SubSeq(RecvQ!Contents, 1, 2)
        BY <3>1, RecvContents DEF FramedTypeOK
      <3>. QED
        BY <2>1, <2>2, <3>2, PacketBytes DEF HeaderSize
    <2>. QED
      BY <1>1, <1>2, <2>3, HeaderAnnounces DEF WholeFrame, HeaderSize
  <1>3. CASE ~(RecvQ!UseSize > 2)
    BY <1>1, <1>3 DEF WholeFrame, HeaderSize
  <1>. QED
    BY <1>2, <1>3

(* The two parts of PostSend are the cells of the queued bytes, in order.  *)
LEMMA PartsInOrder ==
  ASSUME SendQ!RingTypeOK
  PROVE  /\ Parts \in Seq(0..SendQSize) /\ Len(Parts) = SendQ!UseSize
         /\ \A i \in 1..SendQ!UseSize :
              Parts[i] = SendQ!Turned(sendFront + i - 1)
PROOF
  <1>1. /\ SendQ!size = SendQSize + 1 /\ SendQSize \in Nat
        /\ sendFront \in 0..SendQSize /\ sendRear \in 0..SendQSize
        /\ SendQ!UseSize \in 0..SendQSize
    BY SendContents, RingSizes DEF SendQ!RingTypeOK, SendQ!Cells, SendQ!size
  <1>2. SendQ!SendLens[1] = SendQ!DirectDequeueSize
    BY DEF SendQ!SendLens
  <1>3. ASSUME NEW i \in 1..SendQ!UseSize
        PROVE  /\ (IF i <= SendQ!SendLens[1] THEN sendFront + i - 1
                      ELSE i - SendQ!SendLens[1] - 1)
                 = SendQ!Turned(sendFront + i - 1)
               /\ SendQ!Turned(sendFront + i - 1) \in 0..SendQSize
    <2>1. PICK a \in Nat : /\ a = sendFront + i - 1
                           /\ a < (SendQSize + 1) + (SendQSize + 1)
      BY <1>1
    <2>2. a % (SendQSize + 1)
            = IF a < SendQSize + 1 THEN a ELSE a - (SendQSize + 1)
      BY <1>1, <2>1
    <2>3. SendQ!Turned(a) = a % (SendQSize + 1)
      BY <1>1 DEF SendQ!Turned
    <2>. QED
      BY <1>1, <1>2, <2>1, <2>2, <2>3
      DEF SendQ!DirectDequeueSize, SendQ!UseSize, SendQ!size
  <1>. QED
    BY <1>1, <1>3 DEF Parts

(* What the kernel reads is the front of sendQ_.                           *)
LEMMA GatheredIsFront ==
  ASSUME FramedTypeOK, CellsGiven, isSending
  PROVE  /\ Gathered = SubSeq(SendQ!Contents, 1, Len(parts))
         /\ Gathered \in Seq(Bytes) /\ Len(parts) \in 1..SendQ!UseSize
PROOF
  <1>1. /\ SendQ!Contents \in Seq(Bytes) /\ Len(SendQ!Contents) = SendQ!UseSize
        /\ SendQ!UseSize \in Nat
    BY SendContents DEF FramedTypeOK
  <1>2. PICK n \in 1..SendQ!UseSize : n = Len(parts)
    BY DEF CellsGiven
  <1>3. SendQ!Contents = [i \in 1..SendQ!UseSize |->
                            sendBuffer[SendQ!Turned(sendFront + i - 1)]]
    BY DEF SendQ!Contents, SendQ!Peeked, SendQ!At
  <1>4. Gathered = [i \in 1..n |-> sendBuffer[SendQ!Turned(sendFront + i - 1)]]
    <2>1. DOMAIN parts = 1..n
      BY <1>2 DEF FramedTypeOK
    <2>. QED
      BY <1>2, <2>1 DEF Gathered, CellsGiven
  <1>5. SubSeq(SendQ!Contents, 1, n) = [i \in 1..n |-> SendQ!Contents[i]]
    BY <1>1
  <1>6. \A i \in 1..n :
          SendQ!Contents[i] = sendBuffer[SendQ!Turned(sendFront + i - 1)]
    BY <1>1, <1>3
  <1>7. Gathered = SubSeq(SendQ!Contents, 1, n)
    BY <1>4, <1>5, <1>6
  <1>8. SubSeq(SendQ!Contents, 1, n) \in Seq(Bytes)
    BY <1>1
  <1>. QED
    BY <1>2, <1>7, <1>8

-----------------------------------------------------------------------------
(* What a step leaves alone. *)

LEMMA RecvQSame ==
  ASSUME UNCHANGED recvVars
  PROVE  /\ RecvQ!Contents' = RecvQ!Contents /\ RecvQ!UseSize' = RecvQ!UseSize
         /\ RecvQ!RingTypeOK' = RecvQ!RingTypeOK
PROOF
  BY DEF recvVars, RecvQ!Contents, RecvQ!Peeked, RecvQ!At, RecvQ!UseSize,
     RecvQ!RingTypeOK

LEMMA SendQSame ==
  ASSUME UNCHANGED << sendFront, sendRear, sendBuffer >>
  PROVE  SendQ!Contents' = SendQ!Contents /\ SendQ!UseSize' = SendQ!UseSize
PROOF
  BY DEF SendQ!Contents, SendQ!Peeked, SendQ!At, SendQ!UseSize

LEMMA SendTypeSame ==
  ASSUME UNCHANGED sendVars
  PROVE  SendQ!RingTypeOK' = SendQ!RingTypeOK
PROOF
  BY DEF sendVars, SendQ!RingTypeOK

LEMMA RecvIdle ==
  ASSUME RecvSide, UNCHANGED << recvVars, received, handled >>,
         \/ sent' = sent
         \/ sent \in Nat /\ sent' = sent + 1 /\ Len(handled) \in Nat,
         \/ pc' = pc
         \/ /\ pc # "payload" /\ pc' \notin {"payload", "sendPacket"}
            /\ pc' \in {"wait", "postRest"} => RecvQ!UseSize < FrameSize
  PROVE  RecvSide'
PROOF
  <1>1. /\ RecvQ!Contents' = RecvQ!Contents /\ RecvQ!UseSize' = RecvQ!UseSize
        /\ recvMoved' = recvMoved /\ handled' = handled /\ received' = received
    BY RecvQSame DEF recvVars
  <1>2. HandledAsSent'
    BY <1>1 DEF RecvSide, HandledAsSent
  <1>3. Consumed' = Consumed
    BY <1>1 DEF Consumed
  <1>4. StreamKept'
    <2>1. ASSUME NEW i \in Int
          PROVE  StreamByte(Consumed + i)' = StreamByte(Consumed + i)
      BY <1>3 DEF StreamByte, Packet, Header
    <2>2. StreamKept
      BY DEF RecvSide
    <2>3. received' = Consumed' + Len(RecvQ!Contents')
      BY <1>1, <1>3, <2>2 DEF StreamKept
    <2>4. ASSUME NEW i \in 1..Len(RecvQ!Contents')
          PROVE  RecvQ!Contents'[i] = StreamByte(Consumed' + i)
      BY <1>1, <1>3, <2>2 DEF StreamKept
    <2>. QED
      BY <2>3, <2>4 DEF StreamKept, StreamByte
  <1>5. HeaderTaken' /\ InHand' /\ NoneWhole'
    BY <1>1 DEF RecvSide, HeaderTaken, InHand, NoneWhole, Header
  <1>. QED
    BY <1>2, <1>4, <1>5 DEF RecvSide

LEMMA SendIdle ==
  ASSUME SendSide, UNCHANGED << sendVars, isSending, parts, queued, echoed >>,
         pc' \in {"postSend", "postRest"} => pc' = pc
  PROVE  SendSide'
PROOF
  <1>1. /\ SendQ!Contents' = SendQ!Contents /\ SendQ!UseSize' = SendQ!UseSize
        /\ sendFront' = sendFront
    BY SendQSame DEF sendVars
  <1>2. EchoedAsQueued'
    BY ZenonT(60), <1>1 DEF SendSide, EchoedAsQueued, StreamOf, Packet, Header
  <1>3. CellsGiven' /\ SomethingToSend'
    BY <1>1 DEF SendSide, CellsGiven, SomethingToSend, SendQ!Turned, SendQ!size
  <1>. QED
    BY <1>2, <1>3 DEF SendSide

(* A sequence cut in two.                                                  *)
LEMMA CutAnywhere ==
  ASSUME NEW S, NEW seq \in Seq(S), NEW n \in 1..Len(seq)
  PROVE  SubSeq(seq, 1, n) \o SubSeq(seq, n + 1, Len(seq)) = seq
PROOF
  <1>1. /\ 1 \in 1..Len(seq) + 1 /\ n \in (1 - 1)..Len(seq)
        /\ Len(seq) \in n..Len(seq)
    OBVIOUS
  <1>2. SubSeq(seq, 1, n) \o SubSeq(seq, n + 1, Len(seq))
          = SubSeq(seq, 1, Len(seq))
    BY <1>1, ConcatAdjacentSubSeq
  <1>3. SubSeq(seq, 1, Len(seq)) = seq
    OBVIOUS
  <1>. QED
    BY Zenon, <1>2, <1>3

(* Taking n bytes off recvQ_ and counting them as taken keeps the rest.    *)
LEMMA StreamLeaves ==
  ASSUME FramedTypeOK, StreamKept, NEW n \in 0..RecvQ!UseSize,
         Consumed \in Nat,
         Consumed' = Consumed + n, received' = received,
         RecvQ!Contents' = SubSeq(RecvQ!Contents, n + 1, Len(RecvQ!Contents))
  PROVE  StreamKept'
PROOF
  <1>1. RecvQ!Contents \in Seq(Bytes)
    BY RecvContents DEF FramedTypeOK
  <1>2. PICK m \in Nat : /\ m = Len(RecvQ!Contents) /\ m = RecvQ!UseSize
                         /\ received = Consumed + m
    BY <1>1, RecvContents DEF FramedTypeOK, StreamKept
  <1>3. /\ Len(RecvQ!Contents') = m - n
        /\ \A i \in 1..(m - n) : RecvQ!Contents'[i] = RecvQ!Contents[n + i]
    <2>1. /\ m - (n + 1) + 1 = m - n
          /\ \A i \in 1..(m - n) : i + (n + 1) - 1 = n + i
      BY <1>2
    <2>. QED
      BY <1>1, <1>2, <2>1
  <1>4. received' = Consumed' + Len(RecvQ!Contents')
    BY <1>2, <1>3
  <1>5. ASSUME NEW i \in 1..(m - n)
        PROVE  RecvQ!Contents'[i] = StreamByte(Consumed' + i)
    <2>1. n + i \in 1..m /\ Consumed + (n + i) = Consumed' + i
      BY <1>2
    <2>2. RecvQ!Contents[n + i] = StreamByte(Consumed + (n + i))
      BY <1>2, <2>1 DEF StreamKept
    <2>. QED
      BY <1>3, <2>1, <2>2
  <1>. QED
    BY <1>3, <1>4, <1>5 DEF StreamKept, StreamByte

LEMMA FramedInitInv == FramedInit => FramedInv
PROOF
  <1>. SUFFICES ASSUME FramedInit PROVE FramedInv
    OBVIOUS
  <1>1. RecvP!RingTypeOK
    BY RingSizes, RecvP!RingTypeInit
    DEF FramedInit, RecvQ!RingInit, RecvP!RingInit, RecvQ!Cells, RecvP!Cells,
        RecvQ!size, RecvP!size
  <1>2. SendP!RingTypeOK
    BY RingSizes, SendP!RingTypeInit
    DEF FramedInit, SendQ!RingInit, SendP!RingInit, SendQ!Cells, SendP!Cells,
        SendQ!size, SendP!size
  <1>3. RecvQ!RingTypeOK /\ SendQ!RingTypeOK
    BY <1>1, <1>2, RecvSame, SendSame DEF RecvAgree, SendAgree
  <1>4. MaxFrames \in Nat /\ 0 * FrameSize = 0 /\ FrameSize > 0
    BY SMTT(60), FramesAssumption, RingSizes
  <1>5. FramedTypeOK
    <2>1. sent \in 0..MaxFrames /\ received \in 0..(sent * FrameSize)
      BY <1>4 DEF FramedInit
    <2>2. /\ isSending \in BOOLEAN /\ disconnectRequested \in BOOLEAN
          /\ pc \in {"wait", "loop", "payload", "sendPacket", "postSend",
                     "postRest", "released"}
      BY DEF FramedInit
    <2>3. \A S : << >> \in Seq(S)
      OBVIOUS
    <2>4. /\ parts \in Seq(0..SendQSize) /\ handled \in Seq(Seq(Bytes))
          /\ queued \in Seq(Seq(Bytes)) /\ echoed \in Seq(Bytes)
      BY <2>3 DEF FramedInit
    <2>. QED
      BY <1>3, <2>1, <2>2, <2>4 DEF FramedTypeOK
  <1>6. RecvQ!UseSize = 0 /\ SendQ!UseSize = 0
    BY DEF FramedInit, RecvQ!RingInit, SendQ!RingInit, RecvQ!UseSize,
       SendQ!UseSize
  <1>7. RecvQ!Contents = << >> /\ SendQ!Contents = << >>
    BY <1>6 DEF RecvQ!Contents, RecvQ!Peeked, SendQ!Contents, SendQ!Peeked
  <1>8. RecvSide
    BY <1>4, <1>6, <1>7
    DEF RecvSide, FramedInit, HandledAsSent, StreamKept, Consumed, HeaderTaken,
        InHand, NoneWhole
  <1>9. SendSide
    <2>1. StreamOf(<< >>) = << >>
      BY <1>4 DEF StreamOf
    <2>. QED
      BY <1>6, <1>7, <2>1
      DEF SendSide, FramedInit, EchoedAsQueued, CellsGiven, SomethingToSend
  <1>. QED
    BY <1>5, <1>8, <1>9 DEF FramedInv

-----------------------------------------------------------------------------
(* The steps. *)

LEMMA ClientSendsKeeps == FramedInv /\ ClientSends => FramedInv'
PROOF
  <1>. SUFFICES ASSUME FramedInv, ClientSends PROVE FramedInv'
    OBVIOUS
  <1>1. /\ sent \in 0..MaxFrames /\ MaxFrames \in Nat /\ Len(handled) \in Nat
        /\ sent' = sent + 1 /\ sent' \in 0..MaxFrames
    BY SentTypes DEF FramedInv, ClientSends
  <1>2. received \in 0..(sent' * FrameSize)
    <2>1. PICK n \in Nat : /\ n = sent * FrameSize
                           /\ (sent + 1) * FrameSize = n + FrameSize
                           /\ received \in 0..n
      BY SentTypes, FrameSteps DEF FramedInv
    <2>2. received \in 0..(n + FrameSize)
      BY <2>1, RingSizes
    <2>. QED
      BY <1>1, <2>1, <2>2
  <1>3. FramedTypeOK'
    BY <1>1, <1>2, RecvQSame, SendTypeSame
    DEF FramedInv, FramedTypeOK, ClientSends, flagVars
  <1>4. RecvSide'
    BY <1>1, RecvIdle DEF FramedInv, ClientSends
  <1>5. SendSide'
    BY SendIdle DEF FramedInv, ClientSends, flagVars
  <1>. QED
    BY <1>3, <1>4, <1>5 DEF FramedInv

LEMMA RecvCompletesKeeps == FramedInv /\ RecvCompletes => FramedInv'
PROOF
  <1>. SUFFICES ASSUME FramedInv, RecvCompletes PROVE FramedInv'
    OBVIOUS
  <1>1. FramedTypeOK /\ RecvSide /\ SendSide /\ StreamKept /\ HandledAsSent
    BY DEF FramedInv, RecvSide
  <1>2. PICK n \in 1..(sent * FrameSize - received) :
          /\ RecvQ!DirectEnqueue([i \in 1..n |-> StreamByte(received + i)])
          /\ received' = received + n
    BY DEF RecvCompletes
  <1>3. /\ n \in Nat \ {0} /\ received \in Nat
        /\ received + n <= sent * FrameSize
        /\ received + n <= MaxFrames * FrameSize
    <2>1. sent \in 0..MaxFrames /\ MaxFrames \in Nat
      BY <1>1, SentTypes
    <2>2. PICK a \in Nat, b \in Nat :
            a = sent * FrameSize /\ b = MaxFrames * FrameSize
      BY <2>1, FrameSteps
    <2>3. a <= b
      <3>1. PICK F \in Nat : F = FrameSize
        BY RingSizes
      <3>2. sent * F <= MaxFrames * F
        BY <2>1
      <3>. QED
        BY <2>2, <3>1, <3>2
    <2>4. received \in 0..a
      BY <1>1, <2>2, SentTypes
    <2>5. n \in 1..(a - received)
      BY <2>2
    <2>. QED
      BY <2>2, <2>3, <2>4, <2>5
  <1>. DEFINE data == [i \in 1..n |-> StreamByte(received + i)]
  <1>4. data \in Seq(Bytes) /\ Len(data) = n
    <2>1. ASSUME NEW i \in 1..n PROVE StreamByte(received + i) \in Bytes
      <3>1. received + i \in Nat \ {0} /\ received + i <= MaxFrames * FrameSize
        <4>1. PICK b \in Nat : b = MaxFrames * FrameSize
          BY FramesAssumption, FrameSteps
        <4>. QED
          BY <1>3, <4>1
      <3>. QED
        BY <3>1, StreamBytes
    <2>2. data \in [1..n -> Bytes]
      BY <2>1
    <2>. QED
      BY <1>3, <2>2
  <1>5. /\ RecvQ!RingTypeOK' /\ RecvQ!Contents' = RecvQ!Contents \o data
        /\ RecvQ!UseSize' = RecvQ!UseSize + n
    BY <1>1, <1>2, <1>4, RecvEnters DEF FramedTypeOK
  <1>6. /\ pc = "wait" /\ pc' = "loop"
        /\ UNCHANGED << sendVars, flagVars, sent, echoed, handled, queued >>
    BY DEF RecvCompletes
  <1>7. FramedTypeOK'
    <2>1. received' \in 0..(sent' * FrameSize)
      <3>1. PICK a \in Int : a = sent * FrameSize
        BY <1>1, FrameSteps DEF FramedTypeOK
      <3>. QED
        BY <1>2, <1>3, <1>6, <3>1
    <2>. QED
      BY <1>1, <1>5, <1>6, <2>1, SendTypeSame DEF FramedTypeOK, flagVars
  <1>8. StreamKept'
    <2>1. Consumed' = Consumed /\ Consumed \in Nat
      <3>1. Len(handled) * FrameSize \in Nat
        BY <1>1, FrameSteps DEF FramedTypeOK
      <3>. QED
        BY <1>6, <3>1 DEF Consumed, HeaderSize
    <2>2. RecvQ!Contents \in Seq(Bytes)
      BY <1>1, RecvContents DEF FramedTypeOK
    <2>3. PICK m \in Nat : m = Len(RecvQ!Contents) /\ received = Consumed + m
      BY <1>1, <2>2 DEF StreamKept
    <2>0. n \in Nat
      OBVIOUS
    <2>4. /\ Len(RecvQ!Contents') = m + n
          /\ \A i \in 1..(m + n) : RecvQ!Contents'[i] =
               IF i <= m THEN RecvQ!Contents[i] ELSE data[i - m]
      BY <1>3, <1>4, <1>5, <2>2, <2>3, ConcatProperties
    <2>5. received' = Consumed' + Len(RecvQ!Contents')
      BY <1>2, <2>0, <2>1, <2>3, <2>4
    <2>6. ASSUME NEW i \in 1..(m + n)
          PROVE  RecvQ!Contents'[i] = StreamByte(Consumed + i)
      <3>1. CASE i <= m
        <4>1. i \in 1..m
          BY <2>0, <2>3, <3>1
        <4>2. RecvQ!Contents[i] = StreamByte(Consumed + i)
          BY <1>1, <2>3, <4>1 DEF StreamKept
        <4>. QED
          BY <2>4, <3>1, <4>2
      <3>2. CASE ~(i <= m)
        <4>1. PICK j \in 1..n : j = i - m
          BY <2>0, <2>3, <3>2
        <4>2. received + j = Consumed + i
          BY <2>1, <2>3, <4>1
        <4>. QED
          BY <2>4, <3>2, <4>1, <4>2
      <3>. QED
        BY <3>1, <3>2
    <2>. QED
      BY <2>1, <2>4, <2>5, <2>6 DEF StreamKept, StreamByte
  <1>9. RecvSide'
    BY <1>1, <1>6, <1>8
    DEF RecvSide, HandledAsSent, HeaderTaken, InHand, NoneWhole
  <1>10. SendSide'
    BY <1>1, <1>6, SendIdle DEF flagVars
  <1>. QED
    BY <1>7, <1>9, <1>10 DEF FramedInv

LEMMA TakeHeaderKeeps == FramedInv /\ TakeHeader => FramedInv'
PROOF
  <1>. SUFFICES ASSUME FramedInv, TakeHeader PROVE FramedInv'
    OBVIOUS
  <1>1. FramedTypeOK /\ RecvSide /\ SendSide /\ StreamKept /\ HandledAsSent
    BY DEF FramedInv, RecvSide
  <1>2. /\ pc = "loop" /\ WholeFrame /\ recvMoved' = RecvQ!Peeked(2)
        /\ RecvQ!MoveFront(2) /\ pc' = "payload"
        /\ UNCHANGED << recvRear, recvBuffer, sendVars, flagVars, streamVars,
                        handled, queued >>
    BY DEF TakeHeader, HeaderSize
  <1>3. /\ RecvQ!UseSize \in Nat /\ RecvQ!UseSize >= MsgSize + 2
        /\ RecvQ!Contents \in Seq(Bytes) /\ Len(RecvQ!Contents) = RecvQ!UseSize
        /\ 2 \in 0..RecvQ!UseSize
        /\ MsgSize \in 1..1398 /\ FrameSize = MsgSize + 2
    <2>1. RecvQ!UseSize >= FrameSize
      BY <1>1, <1>2, WholeIsFrame
    <2>. QED
      BY <1>1, <2>1, RecvContents, RingSizes DEF FramedTypeOK
  <1>4. PICK b \in Nat : b = Len(handled) * FrameSize
    BY <1>1, SentTypes, FrameSteps
  <1>5. Consumed = b /\ Consumed' = b + 2
    BY <1>2, <1>4 DEF Consumed, HeaderSize, streamVars
  <1>6. recvMoved' = Header /\ Header \in Seq(Bytes)
    <2>1. /\ Len(handled) \in 0..(MaxFrames - 1)
          /\ SubSeq(RecvQ!Contents, 1, 2)
               = SubSeq(Packet(Msgs[Len(handled) + 1]), 1, 2)
      <3>1. Consumed = Len(handled) * FrameSize + 0
        BY <1>4, <1>5
      <3>2. /\ 2 \in 1..Len(RecvQ!Contents) /\ 0 \in 0..(FrameSize - 1)
            /\ 0 + 2 <= FrameSize
        BY <1>3
      <3>. QED
        BY <1>1, <3>1, <3>2, FrontIsFrame
    <2>2. Msgs[Len(handled) + 1] \in [1..MsgSize -> Bytes]
      BY <2>1, MessageType
    <2>3. RecvQ!Peeked(2) = SubSeq(RecvQ!Contents, 1, 2)
      BY ZenonT(60), <1>1, <1>3, RecvContents DEF FramedTypeOK
    <2>. QED
      BY <1>2, <2>1, <2>2, <2>3, PacketBytes, HeaderAnnounces DEF HeaderSize
  <1>7. /\ RecvQ!RingTypeOK' /\ RecvQ!UseSize' = RecvQ!UseSize - 2
        /\ RecvQ!Contents' = SubSeq(RecvQ!Contents, 3, Len(RecvQ!Contents))
    <2>1. 2 + 1 = 3
      OBVIOUS
    <2>. QED
      BY <1>1, <1>2, <1>3, <1>6, <2>1, RecvLeaves DEF FramedTypeOK
  <1>8. FramedTypeOK'
    BY <1>1, <1>2, <1>7, SendTypeSame DEF FramedTypeOK, flagVars, streamVars
  <1>9. StreamKept'
    BY <1>1, <1>2, <1>3, <1>5, <1>7, StreamLeaves DEF streamVars
  <1>10. HeaderTaken'
    BY <1>3, <1>6, <1>7 DEF HeaderTaken, Header
  <1>11. RecvSide'
    BY <1>1, <1>2, <1>9, <1>10
    DEF RecvSide, HandledAsSent, InHand, NoneWhole, streamVars
  <1>12. SendSide'
    BY <1>1, <1>2, SendIdle DEF flagVars, streamVars
  <1>. QED
    BY <1>8, <1>11, <1>12 DEF FramedInv

LEMMA TakePayloadKeeps == FramedInv /\ TakePayload => FramedInv'
PROOF
  <1>. SUFFICES ASSUME FramedInv, TakePayload PROVE FramedInv'
    OBVIOUS
  <1>1. FramedTypeOK /\ RecvSide /\ SendSide /\ StreamKept /\ HandledAsSent
    BY DEF FramedInv, RecvSide
  <1>2. /\ pc = "payload" /\ pc' = "sendPacket"
        /\ RecvQ!Dequeue(LenOf(recvMoved))
        /\ handled' = Append(handled, recvMoved')
        /\ UNCHANGED << sendVars, flagVars, streamVars, queued >>
    BY DEF TakePayload
  <1>3. /\ recvMoved = Header /\ LenOf(recvMoved) = MsgSize
        /\ RecvQ!UseSize >= MsgSize /\ RecvQ!UseSize \in Nat
        /\ RecvQ!Contents \in Seq(Bytes) /\ Len(RecvQ!Contents) = RecvQ!UseSize
        /\ MsgSize \in 0..RecvQ!UseSize
        /\ MsgSize \in 1..1398 /\ FrameSize = MsgSize + 2
    BY <1>1, <1>2, RecvContents, HeaderAnnounces, RingSizes
    DEF FramedTypeOK, RecvSide, HeaderTaken
  <1>4. /\ recvMoved' = RecvQ!Peeked(MsgSize) /\ RecvQ!MoveFront(MsgSize)
        /\ UNCHANGED << recvRear, recvBuffer >>
    <2>1. RecvQ!Lesser(MsgSize, RecvQ!UseSize) = MsgSize
      BY <1>3 DEF RecvQ!Lesser
    <2>. QED
      BY <1>2, <1>3, <2>1 DEF RecvQ!Dequeue
  <1>5. PICK h \in Nat, b \in Nat :
          /\ h = Len(handled)
          /\ b = h * FrameSize /\ b = Len(handled) * FrameSize
          /\ (h + 1) * FrameSize = b + FrameSize
    BY <1>1, SentTypes, FrameSteps
  <1>6. Len(handled') = h + 1
    BY <1>1, <1>2, <1>5 DEF FramedTypeOK
  <1>7. Consumed = b + 2 /\ Consumed' = Consumed + MsgSize
    <2>1. Consumed = b + 2
      BY <1>2, <1>5 DEF Consumed, HeaderSize
    <2>2. Consumed' = b + FrameSize
      BY <1>2, <1>3, <1>5, <1>6 DEF Consumed
    <2>. QED
      BY <1>3, <2>1, <2>2
  <1>8. /\ h + 1 <= sent /\ h \in 0..(MaxFrames - 1)
        /\ recvMoved' = Msgs[h + 1] /\ recvMoved' \in [1..MsgSize -> Bytes]
    <2>1. /\ h + 1 <= sent /\ h \in 0..(MaxFrames - 1)
          /\ SubSeq(RecvQ!Contents, 1, MsgSize)
               = SubSeq(Packet(Msgs[h + 1]), 2 + 1, 2 + MsgSize)
      <3>1. /\ MsgSize \in 1..Len(RecvQ!Contents) /\ 2 \in 0..(FrameSize - 1)
            /\ 2 + MsgSize <= FrameSize
        BY <1>3
      <3>2. Consumed = Len(handled) * FrameSize + 2
        BY <1>5, <1>7
      <3>. QED
        BY <1>1, <1>5, <3>1, <3>2, FrontIsFrame
    <2>2. Msgs[h + 1] \in [1..MsgSize -> Bytes]
      BY <2>1, MessageType
    <2>3. SubSeq(Packet(Msgs[h + 1]), 2 + 1, 2 + MsgSize) = Msgs[h + 1]
      <3>1. 2 + MsgSize = FrameSize
        BY <1>3
      <3>. QED
        BY <2>2, <3>1, PacketBytes DEF HeaderSize
    <2>4. RecvQ!Peeked(MsgSize) = SubSeq(RecvQ!Contents, 1, MsgSize)
      BY <1>1, <1>3, RecvContents DEF FramedTypeOK
    <2>. QED
      BY <1>4, <2>1, <2>2, <2>3, <2>4
  <1>9. recvMoved' \in Seq(Bytes)
    BY <1>3, <1>8
  <1>10. /\ RecvQ!RingTypeOK' /\ RecvQ!UseSize' = RecvQ!UseSize - MsgSize
         /\ RecvQ!Contents'
              = SubSeq(RecvQ!Contents, MsgSize + 1, Len(RecvQ!Contents))
    BY <1>1, <1>3, <1>4, <1>9, RecvLeaves DEF FramedTypeOK
  <1>11. FramedTypeOK'
    <2>1. handled' \in Seq(Seq(Bytes))
      BY <1>1, <1>2, <1>9 DEF FramedTypeOK
    <2>. QED
      BY <1>1, <1>2, <1>10, <2>1, SendTypeSame
      DEF FramedTypeOK, flagVars, streamVars
  <1>12. StreamKept'
    BY <1>1, <1>2, <1>3, <1>7, <1>10, StreamLeaves DEF streamVars
  <1>13. HandledAsSent'
    <2>1. sent' = sent
      BY <1>2 DEF streamVars
    <2>2. ASSUME NEW i \in 1..(h + 1) PROVE handled'[i] = Msgs[i]
      <3>1. CASE i = h + 1
        BY <1>1, <1>2, <1>5, <1>8, <3>1 DEF FramedTypeOK
      <3>2. CASE i # h + 1
        <4>1. i \in 1..h
          BY <3>2
        <4>2. handled'[i] = handled[i]
          BY <1>1, <1>2, <1>5, <4>1 DEF FramedTypeOK
        <4>. QED
          BY <1>1, <1>5, <4>1, <4>2 DEF HandledAsSent
      <3>. QED
        BY <3>1, <3>2
    <2>. QED
      BY <1>6, <1>8, <2>1, <2>2 DEF HandledAsSent
  <1>14. RecvSide'
    BY <1>2, <1>6, <1>12, <1>13 DEF RecvSide, HeaderTaken, InHand, NoneWhole
  <1>15. SendSide'
    BY <1>1, <1>2, SendIdle DEF flagVars, streamVars
  <1>. QED
    BY <1>11, <1>14, <1>15 DEF FramedInv

LEMMA LoopEndsKeeps == FramedInv /\ LoopEnds => FramedInv'
PROOF
  <1>. SUFFICES ASSUME FramedInv, LoopEnds PROVE FramedInv'
    OBVIOUS
  <1>1. FramedTypeOK /\ RecvSide /\ SendSide /\ StreamKept
    BY DEF FramedInv, RecvSide
  <1>2. /\ pc = "loop" /\ ~WholeFrame /\ pc' \in {"released", "wait"}
        /\ UNCHANGED << recvVars, sendVars, flagVars, streamVars, handled,
                        queued >>
    BY DEF LoopEnds
  <1>3. RecvQ!UseSize < FrameSize
    <2>1. ~(RecvQ!UseSize >= FrameSize)
      BY <1>1, <1>2, WholeIsFrame
    <2>. QED
      BY <1>1, <2>1, RecvContents, RingSizes DEF FramedTypeOK
  <1>4. FramedTypeOK'
    BY <1>1, <1>2, RecvQSame, SendTypeSame
    DEF FramedTypeOK, flagVars, streamVars
  <1>5. RecvSide'
    BY <1>1, <1>2, <1>3, RecvIdle DEF streamVars
  <1>6. SendSide'
    BY <1>1, <1>2, SendIdle DEF flagVars, streamVars
  <1>. QED
    BY <1>4, <1>5, <1>6 DEF FramedInv

LEMMA SendPacketKeeps == FramedInv /\ SendPacket => FramedInv'
PROOF
  <1>. SUFFICES ASSUME FramedInv, SendPacket PROVE FramedInv'
    OBVIOUS
  <1>. DEFINE msg == handled[Len(handled)]
  <1>1. /\ FramedTypeOK /\ RecvSide /\ SendSide /\ HandledAsSent
        /\ SendQ!RingTypeOK /\ EchoedAsQueued /\ CellsGiven
    BY DEF FramedInv, RecvSide, SendSide, FramedTypeOK
  <1>2. /\ pc = "sendPacket" /\ SendQ!Enqueue(Packet(msg))
        /\ UNCHANGED << recvVars, isSending, parts, streamVars, handled >>
    BY DEF SendPacket
  <1>3. msg \in [1..MsgSize -> Bytes] /\ msg \in Seq(Bytes)
    <2>1. Len(handled) \in 1..Len(handled)
      BY <1>1, <1>2, SentTypes DEF RecvSide, InHand
    <2>. QED
      BY SMTT(60), <1>1, <2>1, HandledBytes DEF FramedTypeOK
  <1>4. Packet(msg) \in Seq(Bytes) /\ Len(Packet(msg)) = FrameSize
    BY <1>3, PacketBytes
  <1>5. /\ SendQ!Contents \in Seq(Bytes) /\ Len(SendQ!Contents) = SendQ!UseSize
        /\ SendQ!UseSize \in Nat /\ SendQ!FreeSize \in Int
    BY <1>1, SendContents, RingSizes
  <1>6. CASE FrameSize <= SendQ!FreeSize
    <2>1. /\ queued' = Append(queued, msg) /\ pc' = "postSend"
          /\ UNCHANGED disconnectRequested
      BY <1>5, <1>6, RingSizes DEF SendPacket
    <2>2. /\ SendQ!RingTypeOK' /\ sendFront' = sendFront
          /\ SendQ!Contents' = SendQ!Contents \o Packet(msg)
          /\ SendQ!UseSize' = SendQ!UseSize + FrameSize
      BY <1>1, <1>2, <1>4, <1>6, SendEnters
    <2>3. FramedTypeOK'
      <3>1. queued' \in Seq(Seq(Bytes))
        BY <1>1, <1>3, <2>1 DEF FramedTypeOK
      <3>. QED
        BY <1>1, <1>2, <2>1, <2>2, <3>1, RecvQSame DEF FramedTypeOK, streamVars
    <2>4. RecvSide'
      BY <1>1, <1>2, <2>1, RecvIdle DEF streamVars
    <2>5. EchoedAsQueued'
      <3>1. StreamOf(Append(queued, msg)) = StreamOf(queued) \o Packet(msg)
        BY ZenonT(60), <1>1, <1>3, StreamGrows DEF FramedTypeOK
      <3>2. echoed \o SendQ!Contents = StreamOf(queued)
        BY <1>1 DEF EchoedAsQueued
      <3>3. (echoed \o SendQ!Contents) \o Packet(msg)
              = echoed \o (SendQ!Contents \o Packet(msg))
        <4>1. echoed \in Seq(Bytes)
          BY <1>1 DEF FramedTypeOK
        <4>. QED
          BY SMTT(60), <1>4, <1>5, <4>1, ConcatAssociative
      <3>4. echoed \o (SendQ!Contents \o Packet(msg))
              = StreamOf(Append(queued, msg))
        BY <3>1, <3>2, <3>3
      <3>. QED
        BY ZenonT(60), <1>2, <2>1, <2>2, <3>4
        DEF EchoedAsQueued, streamVars, StreamOf, Packet, Header
    <2>6. CellsGiven'
      BY <1>1, <1>2, <1>5, <2>2, RingSizes
      DEF CellsGiven, SendQ!Turned, SendQ!size
    <2>7. SomethingToSend'
      BY <1>5, <2>2, RingSizes DEF SomethingToSend
    <2>. QED
      BY <2>3, <2>4, <2>5, <2>6, <2>7 DEF FramedInv, SendSide
  <1>7. CASE FrameSize > SendQ!FreeSize
    <2>1. queued' = queued /\ disconnectRequested' = TRUE /\ pc' = "loop"
      BY <1>5, <1>7, RingSizes DEF SendPacket
    <2>2. /\ SendQ!RingTypeOK'
          /\ UNCHANGED << sendFront, sendRear, sendBuffer >>
      BY <1>1, <1>2, <1>4, <1>7, SendRefused
    <2>3. SendQ!Contents' = SendQ!Contents /\ SendQ!UseSize' = SendQ!UseSize
      BY <2>2, SendQSame
    <2>4. FramedTypeOK'
      BY <1>1, <1>2, <2>1, <2>2, RecvQSame DEF FramedTypeOK, streamVars
    <2>5. RecvSide'
      BY <1>1, <1>2, <2>1, RecvIdle DEF streamVars
    <2>6. EchoedAsQueued'
      BY ZenonT(60), <1>1, <1>2, <2>1, <2>3
      DEF EchoedAsQueued, streamVars, StreamOf, Packet, Header
    <2>7. CellsGiven' /\ SomethingToSend'
      BY <1>1, <1>2, <2>1, <2>2, <2>3
      DEF CellsGiven, SomethingToSend, SendQ!Turned, SendQ!size
    <2>. QED
      BY <2>4, <2>5, <2>6, <2>7 DEF FramedInv, SendSide
  <1>. QED
    BY <1>5, <1>6, <1>7, RingSizes

LEMMA PostSendKeeps == FramedInv /\ PostSend => FramedInv'
PROOF
  <1>. SUFFICES ASSUME FramedInv, PostSend PROVE FramedInv'
    OBVIOUS
  <1>1. /\ FramedTypeOK /\ RecvSide /\ SendSide /\ NoneWhole
        /\ SendQ!RingTypeOK /\ CellsGiven /\ SomethingToSend
    BY DEF FramedInv, RecvSide, SendSide, FramedTypeOK
  <1>2. /\ pc \in {"postSend", "postRest"}
        /\ pc' = IF pc = "postSend" THEN "loop" ELSE "wait"
        /\ UNCHANGED << recvVars, sendVars, disconnectRequested, streamVars,
                        handled, queued >>
    BY DEF PostSend
  <1>3. RecvSide'
    BY <1>1, <1>2, RecvIdle DEF streamVars, NoneWhole
  <1>4. /\ SendQ!Contents' = SendQ!Contents /\ SendQ!UseSize' = SendQ!UseSize
        /\ sendFront' = sendFront /\ SendQ!RingTypeOK'
    BY <1>1, <1>2, SendQSame, SendTypeSame DEF sendVars
  <1>5. EchoedAsQueued'
    BY ZenonT(60), <1>1, <1>2, <1>4
    DEF SendSide, EchoedAsQueued, streamVars, StreamOf, Packet, Header
  <1>6. SomethingToSend'
    BY <1>2 DEF SomethingToSend
  <1>7. CASE isSending' = TRUE /\ parts' = Parts
    <2>1. /\ Parts \in Seq(0..SendQSize) /\ Len(Parts) = SendQ!UseSize
          /\ \A i \in 1..SendQ!UseSize :
               Parts[i] = SendQ!Turned(sendFront + i - 1)
      BY <1>1, PartsInOrder
    <2>2. SendQ!UseSize \in Nat /\ SendQ!UseSize > 0
      BY <1>1, <1>2, SendContents, RingSizes DEF SomethingToSend
    <2>3. CellsGiven'
      BY <1>4, <1>7, <2>1, <2>2 DEF CellsGiven, SendQ!Turned, SendQ!size
    <2>4. FramedTypeOK'
      BY <1>1, <1>2, <1>4, <1>7, <2>1, RecvQSame DEF FramedTypeOK, streamVars
    <2>. QED
      BY <1>3, <1>5, <1>6, <2>3, <2>4 DEF FramedInv, SendSide
  <1>8. CASE UNCHANGED << isSending, parts >>
    <2>1. CellsGiven'
      BY <1>1, <1>4, <1>8 DEF CellsGiven, SendQ!Turned, SendQ!size
    <2>2. FramedTypeOK'
      BY <1>1, <1>2, <1>4, <1>8, RecvQSame DEF FramedTypeOK, streamVars
    <2>. QED
      BY <1>3, <1>5, <1>6, <2>1, <2>2 DEF FramedInv, SendSide
  <1>. QED
    BY Zenon, <1>7, <1>8 DEF PostSend

LEMMA SendCompletesKeeps == FramedInv /\ SendCompletes => FramedInv'
PROOF
  <1>. SUFFICES ASSUME FramedInv, SendCompletes PROVE FramedInv'
    OBVIOUS
  <1>1. /\ FramedTypeOK /\ RecvSide /\ SendSide /\ NoneWhole
        /\ SendQ!RingTypeOK /\ EchoedAsQueued /\ CellsGiven
    BY DEF FramedInv, RecvSide, SendSide, FramedTypeOK
  <1>2. /\ pc = "wait" /\ isSending /\ echoed' = echoed \o Gathered
        /\ SendQ!MoveFront(Len(parts)) /\ isSending' = FALSE /\ parts' = << >>
        /\ pc' = IF QueuedAfter THEN "postRest" ELSE "wait"
        /\ UNCHANGED << recvVars, sendRear, sendBuffer, sendMoved,
                        disconnectRequested, sent, received, handled, queued >>
    BY DEF SendCompletes, FinishSend
  <1>3. PICK n \in 1..SendQ!UseSize :
          /\ n = Len(parts) /\ Gathered = SubSeq(SendQ!Contents, 1, n)
          /\ Gathered \in Seq(Bytes)
    BY <1>1, <1>2, GatheredIsFront
  <1>4. /\ SendQ!Contents \in Seq(Bytes) /\ Len(SendQ!Contents) = SendQ!UseSize
        /\ SendQ!UseSize \in Nat /\ n \in 0..SendQ!UseSize
    BY <1>1, SendContents
  <1>5. /\ SendQ!RingTypeOK' /\ SendQ!UseSize' = SendQ!UseSize - n
        /\ SendQ!Contents' = SubSeq(SendQ!Contents, n + 1, Len(SendQ!Contents))
    BY <1>1, <1>2, <1>3, <1>4, SendLeaves
  <1>6. FramedTypeOK'
    <2>1. echoed' \in Seq(Bytes)
      BY <1>1, <1>2, <1>3, ConcatProperties DEF FramedTypeOK
    <2>2. \A S : << >> \in Seq(S)
      OBVIOUS
    <2>3. /\ parts' \in Seq(0..SendQSize) /\ isSending' \in BOOLEAN
          /\ pc' \in {"wait", "postRest"}
      BY <1>2, <2>2
    <2>. QED
      BY <1>1, <1>2, <1>5, <2>1, <2>3, RecvQSame DEF FramedTypeOK
  <1>7. RecvSide'
    BY <1>1, <1>2, RecvIdle DEF NoneWhole
  <1>8. EchoedAsQueued'
    <2>1. SubSeq(SendQ!Contents, 1, n)
            \o SubSeq(SendQ!Contents, n + 1, Len(SendQ!Contents))
            = SendQ!Contents
      BY <1>4, CutAnywhere
    <2>2. SubSeq(SendQ!Contents, n + 1, Len(SendQ!Contents)) \in Seq(Bytes)
      BY <1>4
    <2>. DEFINE rest == SubSeq(SendQ!Contents, n + 1, Len(SendQ!Contents))
    <2>. HIDE DEF rest
    <2>3. (echoed \o Gathered) \o rest = echoed \o (Gathered \o rest)
      <3>1. echoed \in Seq(Bytes)
        BY <1>1 DEF FramedTypeOK
      <3>2. rest \in Seq(Bytes)
        BY <2>2 DEF rest
      <3>. QED
        BY SMTT(60), <1>3, <3>1, <3>2, ConcatAssociative
    <2>4. echoed' \o SendQ!Contents' = echoed \o SendQ!Contents
      BY <1>2, <1>3, <1>5, <2>1, <2>3 DEF rest
    <2>. QED
      BY <1>1, <1>2, <2>4 DEF EchoedAsQueued, StreamOf, Packet, Header
  <1>9. CellsGiven'
    BY <1>2 DEF CellsGiven
  <1>10. SomethingToSend'
    BY <1>2, <1>3, <1>4, <1>5 DEF SomethingToSend, QueuedAfter
  <1>. QED
    BY <1>6, <1>7, <1>8, <1>9, <1>10 DEF FramedInv, SendSide

LEMMA FramedStutters == FramedInv /\ UNCHANGED framedVars => FramedInv'
PROOF
  <1>. SUFFICES ASSUME FramedInv, UNCHANGED framedVars PROVE FramedInv'
    OBVIOUS
  <1>1. FramedTypeOK'
    BY RecvQSame, SendTypeSame
    DEF FramedInv, FramedTypeOK, framedVars, flagVars, streamVars
  <1>2. RecvSide'
    BY RecvIdle DEF FramedInv, framedVars, streamVars
  <1>3. SendSide'
    BY SendIdle DEF FramedInv, framedVars, flagVars, streamVars
  <1>. QED
    BY <1>1, <1>2, <1>3 DEF FramedInv

LEMMA FramedInvStep == FramedInv /\ [FramedNext]_framedVars => FramedInv'
PROOF
  BY ClientSendsKeeps, RecvCompletesKeeps, TakeHeaderKeeps, TakePayloadKeeps,
     LoopEndsKeeps, SendPacketKeeps, PostSendKeeps, SendCompletesKeeps,
     FramedStutters DEF FramedNext, Worker

(* The invariant the theorems below are read off.                          *)
THEOREM FramedInvHolds == FramedSpec => []FramedInv
PROOF
  BY FramedInitInv, FramedInvStep, PTL DEF FramedSpec

-----------------------------------------------------------------------------
(* What it says. *)

(* Both rings keep their indices, and every variable of the session its    *)
(* type, through OnRecv, SendPacket, PostSend and OnSend.                  *)
THEOREM FramedTypeCorrect == FramedSpec => []FramedTypeOK
PROOF
  <1>1. FramedInv => FramedTypeOK
    BY DEF FramedInv
  <1>. QED
    BY <1>1, FramedInvHolds, PTL

(* OnRecv hands the messages to OnMessage as they were sent, however the   *)
(* stream was cut into recvs and wherever recvQ_ wraps.                    *)
THEOREM FramesAreFound == FramedSpec => []HandledAsSent
PROOF
  <1>1. FramedInv => HandledAsSent
    BY DEF FramedInv, RecvSide
  <1>. QED
    BY <1>1, FramedInvHolds, PTL

(* When OnRecv posts the next recv it has left no whole frame behind, and  *)
(* the recv has room.                                                      *)
THEOREM NoFrameWaits == FramedSpec => []NothingWholeWaits
PROOF
  <1>1. ASSUME FramedInv, pc = "wait"
        PROVE  ~(RecvQ!UseSize >= FrameSize) /\ RecvQ!FreeSize > 0
    <2>1. RecvQ!RingTypeOK /\ RecvQ!UseSize < FrameSize
      BY <1>1 DEF FramedInv, FramedTypeOK, RecvSide, NoneWhole
    <2>2. /\ RecvQ!UseSize \in Nat /\ RecvQ!FreeSize = RecvQSize - RecvQ!UseSize
          /\ FrameSize \in Nat /\ RecvQSize \in Nat /\ RecvQSize >= FrameSize
      BY <2>1, RecvContents, RingSizes
    <2>. QED
      BY <2>1, <2>2
  <1>2. FramedInv => NothingWholeWaits
    BY <1>1 DEF NothingWholeWaits
  <1>. QED
    BY <1>2, FramedInvHolds, PTL

(* The client gets the echo packets as SendPacket queued them.             *)
THEOREM FramesAreEchoed == FramedSpec => []EchoedAsQueued
PROOF
  <1>1. FramedInv => EchoedAsQueued
    BY DEF FramedInv, SendSide
  <1>. QED
    BY <1>1, FramedInvHolds, PTL

(* What SendPacket queues while a send is out is not written over the      *)
(* cells the kernel reads.                                                 *)
THEOREM KernelReadsItsOwn == FramedSpec => []PartsAreKept
PROOF
  <1>1. FramedInv => PartsAreKept
    BY GatheredIsFront DEF FramedInv, SendSide, PartsAreKept
  <1>. QED
    BY <1>1, FramedInvHolds, PTL

=============================================================================
