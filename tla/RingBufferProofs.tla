-------------------------- MODULE RingBufferProofs --------------------------
(***************************************************************************)
(* The ring of CRingBuffer, for every buffer size and every byte: its      *)
(* indices stay inside, the parts given to the kernel are free, and it is  *)
(* a bounded queue.                                                        *)
(***************************************************************************)
EXTENDS RingBuffer, SequenceTheorems, TLAPS

(* Turning an index round at most once.                                    *)
LEMMA Wrap ==
  ASSUME NEW a \in Nat, a < size + size
  PROVE  Turned(a) = IF a < size THEN a ELSE a - size
PROOF
  BY SizeAssumption DEF size, Turned

(* The sizes the ring reports add up and stay in range.                    *)
LEMMA SizesFit ==
  ASSUME RingTypeOK
  PROVE  /\ size \in Nat /\ size > 1
         /\ front \in Int /\ rear \in Int
         /\ UseSize \in 0..BufferSize /\ FreeSize = BufferSize - UseSize
         /\ DirectEnqueueSize \in 0..FreeSize
         /\ DirectDequeueSize \in 0..UseSize
         /\ rear = (IF front + UseSize < size THEN front + UseSize
                                              ELSE front + UseSize - size)
PROOF
  BY SizeAssumption
  DEF RingTypeOK, Cells, size, UseSize, FreeSize, DirectEnqueueSize,
      DirectDequeueSize

(* Where the i-th byte is.                                                 *)
Cell(i) == IF front + i - 1 < size THEN front + i - 1 ELSE front + i - 1 - size

LEMMA ByteInCell ==
  ASSUME RingTypeOK, NEW i \in 1..size
  PROVE  Cell(i) \in Cells /\ At(i) = buffer[Cell(i)] /\ At(i) \in Bytes
PROOF
  <1>1. size \in Nat /\ size > 1 /\ front \in 0..(size - 1)
    BY SizesFit DEF RingTypeOK, Cells
  <1>2. front + i - 1 \in Nat /\ front + i - 1 < size + size
    BY <1>1
  <1>3. Turned(front + i - 1) = Cell(i)
    BY <1>1, <1>2, Wrap DEF Cell
  <1>4. Cell(i) \in Cells
    BY <1>1 DEF Cell, Cells
  <1>. QED
    BY <1>3, <1>4 DEF At, RingTypeOK

(* What is looked at is made of bytes.                                     *)
LEMMA PeekedType ==
  ASSUME RingTypeOK, NEW n \in 0..UseSize
  PROVE  Peeked(n) \in Seq(Bytes) /\ Len(Peeked(n)) = n
PROOF
  <1>1. n \in Nat /\ 1..n \subseteq 1..size
    BY SizesFit, SizeAssumption DEF size
  <1>2. \A i \in 1..n : At(i) \in Bytes
    BY <1>1, ByteInCell
  <1>. QED
    BY <1>1, <1>2 DEF Peeked

-----------------------------------------------------------------------------
(* Type correctness. *)

LEMMA RingTypeInit == RingInit => RingTypeOK
PROOF
  BY SizeAssumption DEF RingInit, RingTypeOK, Cells, size

(* An index moved within one round is an index.                            *)
LEMMA MovedInside ==
  ASSUME NEW a \in Cells, NEW n \in 0..size
  PROVE  Turned(a + n) \in Cells
PROOF
  <1>1. size \in Nat /\ size > 1
    BY SizeAssumption DEF size
  <1>2. a + n \in Nat /\ a + n < size + size
    BY <1>1 DEF Cells
  <1>. QED
    BY <1>1, <1>2, Wrap DEF Cells

(* The cells a call writes get bytes of the data.                          *)
LEMMA EnqueueType ==
  ASSUME RingTypeOK, NEW data \in Seq(Bytes), Enqueue(data)
  PROVE  RingTypeOK'
PROOF
  <1>1. CASE Refused
    BY <1>1 DEF RingTypeOK, Refused
  <1>2. CASE /\ Len(data) <= FreeSize
             /\ buffer' = [k \in Cells |-> IF FromRear(k) < Len(data)
                             THEN data[FromRear(k) + 1] ELSE buffer[k]]
             /\ MoveRear(Len(data))
             /\ moved' = data
             /\ UNCHANGED front
    <2>1. /\ Len(data) \in 0..size /\ size \in Nat /\ size > 1
          /\ front \in Cells /\ rear \in Cells
      BY SMTT(60), <1>2, SizesFit, SizeAssumption DEF size, RingTypeOK
    <2>2. rear' \in Cells
      <3>1. Turned(rear + Len(data)) \in Cells
        BY <2>1, MovedInside
      <3>. QED
        BY <1>2, <3>1 DEF MoveRear
    <2>3. ASSUME NEW k \in Cells, FromRear(k) < Len(data)
          PROVE  data[FromRear(k) + 1] \in Bytes
      <3>1. k + size - rear \in Nat /\ k + size - rear < size + size
        BY <2>1 DEF Cells
      <3>2. FromRear(k) \in Nat
        BY <2>1, <3>1, Wrap DEF FromRear
      <3>. QED
        BY <2>1, <2>3, <3>2
    <2>4. buffer' \in [Cells -> Bytes]
      BY <1>2, <2>3 DEF RingTypeOK
    <2>5. front' \in Cells /\ moved' \in Seq(Bytes)
      BY <1>2, <2>1
    <2>. QED
      BY <2>2, <2>4, <2>5 DEF RingTypeOK
  <1>. QED
    BY <1>1, <1>2 DEF Enqueue

(* Filling the two parts of a WSABUF array is enqueueing: the second part  *)
(* begins where the first one, at the end of the buffer, stops.            *)
LEMMA DirectEnqueueIsEnqueue ==
  ASSUME RingTypeOK, NEW data \in Seq(Bytes), DirectEnqueue(data)
  PROVE  Enqueue(data) /\ Len(data) <= FreeSize
PROOF
  <1>. DEFINE d == DirectEnqueueSize
              n == Len(data)
  <1>1. /\ size \in Nat /\ size > 1 /\ front \in 0..(size - 1)
        /\ rear \in 0..(size - 1) /\ d \in 0..FreeSize /\ FreeSize \in Nat
    BY SMTT(60), SizesFit, SizeAssumption DEF RingTypeOK, Cells, size
  <1>2. n \in 1..FreeSize
    BY <1>1 DEF DirectEnqueue, RecvLens
  <1>3. d = size - rear \/ (n <= d /\ d < size - rear)
    BY <1>1, <1>2 DEF DirectEnqueueSize, FreeSize
  <1>4. ASSUME NEW k \in Cells
        PROVE  (IF rear <= k /\ k < rear + Lesser(n, d) THEN data[k - rear + 1]
                ELSE IF k < n - d THEN data[d + k + 1] ELSE buffer[k])
               = IF FromRear(k) < n THEN data[FromRear(k) + 1] ELSE buffer[k]
    <2>1. k \in 0..(size - 1)
      BY DEF Cells
    <2>2. k + size - rear \in Nat /\ k + size - rear < size + size
      BY <1>1, <2>1
    <2>3. FromRear(k) = IF k < rear THEN k + size - rear ELSE k - rear
      BY <1>1, <2>1, <2>2, Wrap DEF FromRear
    <2>4. CASE rear <= k
      BY SMTT(60), <1>1, <1>2, <1>3, <2>1, <2>3, <2>4 DEF Lesser
    <2>5. CASE k < rear /\ d = size - rear
      BY SMTT(60), <1>1, <1>2, <2>1, <2>3, <2>5 DEF Lesser
    <2>6. CASE k < rear /\ n <= d /\ d < size - rear
      BY <1>1, <1>2, <2>1, <2>3, <2>6 DEF Lesser
    <2>. QED
      BY <1>1, <1>3, <2>1, <2>4, <2>5, <2>6
  <1>5. buffer' = [k \in Cells |-> IF FromRear(k) < n
                                    THEN data[FromRear(k) + 1] ELSE buffer[k]]
    BY <1>4 DEF DirectEnqueue, RecvLens
  <1>. QED
    BY <1>1, <1>2, <1>5 DEF DirectEnqueue, Enqueue

(* Reading the two parts of a WSABUF array is dequeueing.                  *)
LEMMA DirectDequeueIsDequeue ==
  ASSUME RingTypeOK, NEW n \in Nat, DirectDequeue(n)
  PROVE  Dequeue(n)
PROOF
  <1>. DEFINE d == DirectDequeueSize
  <1>1. /\ size \in Nat /\ size > 1 /\ front \in 0..(size - 1)
        /\ rear \in 0..(size - 1) /\ d \in 0..UseSize /\ UseSize \in 0..BufferSize
    BY SizesFit, SizeAssumption DEF RingTypeOK, Cells, size
  <1>2. n \in 1..UseSize /\ n \in 1..size
    BY <1>1, SizeAssumption DEF DirectDequeue, SendLens, size
  <1>3. ASSUME NEW i \in 1..n
        PROVE  (IF i <= d THEN buffer[front + i - 1] ELSE buffer[i - d - 1])
               = At(i)
    <2>1. i \in 1..size /\ i <= UseSize
      BY <1>1, <1>2
    <2>2. At(i) = buffer[Cell(i)]
      BY <2>1, ByteInCell
    <2>3. Cell(i) = IF i <= d THEN front + i - 1 ELSE i - d - 1
      BY <1>1, <2>1 DEF Cell, DirectDequeueSize, UseSize
    <2>. QED
      BY <2>2, <2>3
  <1>4. moved' = Peeked(n)
    BY <1>3 DEF DirectDequeue, SendLens, Peeked
  <1>5. Lesser(n, UseSize) = n /\ UseSize # 0 /\ n > 0
    BY <1>1, <1>2 DEF Lesser
  <1>. QED
    BY <1>4, <1>5 DEF DirectDequeue, Dequeue

LEMMA DequeueType ==
  ASSUME RingTypeOK, NEW n \in Nat, Dequeue(n)
  PROVE  RingTypeOK'
PROOF
  <1>1. CASE Refused
    BY <1>1 DEF RingTypeOK, Refused
  <1>2. CASE /\ moved' = Peeked(Lesser(n, UseSize))
             /\ MoveFront(Lesser(n, UseSize))
             /\ UNCHANGED << rear, buffer >>
    <2>1. Lesser(n, UseSize) \in 0..UseSize
      BY SizesFit DEF Lesser
    <2>2. Lesser(n, UseSize) \in 0..size /\ front \in Cells
      BY <2>1, SizesFit, SizeAssumption DEF RingTypeOK, size
    <2>3. Turned(front + Lesser(n, UseSize)) \in Cells
      BY <2>2, MovedInside
    <2>4. moved' \in Seq(Bytes) /\ front' \in Cells
      BY <1>2, <2>1, <2>3, PeekedType DEF MoveFront
    <2>. QED
      BY <1>2, <2>4 DEF RingTypeOK
  <1>. QED
    BY <1>1, <1>2 DEF Dequeue

(* Each call keeps the indices inside the buffer.                          *)
LEMMA RingTypeStep == RingTypeOK /\ [RingNext]_ringVars => RingTypeOK'
PROOF
  <1>. SUFFICES ASSUME RingTypeOK, [RingNext]_ringVars PROVE RingTypeOK'
    OBVIOUS
  <1>1. ASSUME NEW data \in Seq(Bytes), Enqueue(data) PROVE RingTypeOK'
    BY <1>1, EnqueueType
  <1>2. ASSUME NEW data \in Seq(Bytes), DirectEnqueue(data) PROVE RingTypeOK'
    BY <1>2, DirectEnqueueIsEnqueue, EnqueueType
  <1>3. ASSUME NEW n \in Nat, Dequeue(n) PROVE RingTypeOK'
    BY <1>3, DequeueType
  <1>4. ASSUME NEW n \in Nat, DirectDequeue(n) PROVE RingTypeOK'
    BY <1>4, DirectDequeueIsDequeue, DequeueType
  <1>5. ASSUME NEW n \in Nat, Peek(n) PROVE RingTypeOK'
    <2>1. Lesser(n, UseSize) \in 0..UseSize
      BY SizesFit DEF Lesser
    <2>2. moved' \in Seq(Bytes)
      BY <1>5, <2>1, PeekedType DEF Peek
    <2>. QED
      BY <1>5, <2>2 DEF Peek, RingTypeOK
  <1>6. CASE ClearBuffer
    BY <1>6 DEF ClearBuffer, RingTypeOK
  <1>7. CASE UNCHANGED ringVars
    BY <1>7 DEF ringVars, RingTypeOK
  <1>. QED
    BY <1>1, <1>2, <1>3, <1>4, <1>5, <1>6, <1>7 DEF RingNext

(* The indices and the bytes have their types in every reachable state.    *)
THEOREM RingTypeCorrect == RingSpec => []RingTypeOK
PROOF
  BY RingTypeInit, RingTypeStep, PTL DEF RingSpec

-----------------------------------------------------------------------------
(* The parts given to WSARecv. *)

(* Wherever the indices are, the two parts are free cells of the buffer.   *)
LEMMA PartsAreFree == RingTypeOK => RecvPartsAreFree
PROOF
  <1>. SUFFICES ASSUME RingTypeOK PROVE RecvPartsAreFree
    OBVIOUS
  <1>1. /\ size \in Nat /\ size > 1 /\ front \in 0..(size - 1)
        /\ rear \in 0..(size - 1) /\ UseSize \in 0..(size - 1)
        /\ DirectEnqueueSize \in 0..FreeSize /\ FreeSize \in Nat
    BY SizesFit, SizeAssumption DEF RingTypeOK, Cells, size
  <1>2. RecvLens[1] = DirectEnqueueSize /\ RecvLens[2] = FreeSize - DirectEnqueueSize
    BY DEF RecvLens
  <1>3. /\ rear + RecvLens[1] <= size
        /\ RecvLens[2] > 0 => RecvLens[2] < front /\ front <= rear
    BY <1>1, <1>2 DEF DirectEnqueueSize, FreeSize
  <1>4. FirstPart \cup SecondPart \subseteq Cells
    BY <1>1, <1>2, <1>3 DEF FirstPart, SecondPart, Cells
  <1>5. FirstPart \cap SecondPart = {}
    BY <1>1, <1>2, <1>3 DEF FirstPart, SecondPart
  <1>6. ASSUME NEW k \in UsedCells
        PROVE  k \notin FirstPart /\ k \notin SecondPart
    <2>1. PICK i \in 0..(UseSize - 1) : k = Turned(front + i)
      BY DEF UsedCells
    <2>2. front + i \in Nat /\ front + i < size + size
      BY <1>1
    <2>3. k = IF front + i < size THEN front + i ELSE front + i - size
      BY <1>1, <2>1, <2>2, Wrap
    <2>4. IF rear >= front THEN front <= k /\ k < rear
                           ELSE k < rear \/ (front <= k /\ k < size)
      BY <1>1, <2>3 DEF UseSize
    <2>. QED
      BY <1>1, <1>2, <1>3, <2>3, <2>4
      DEF FirstPart, SecondPart, DirectEnqueueSize, FreeSize
  <1>. QED
    BY <1>1, <1>2, <1>4, <1>5, <1>6 DEF RecvPartsAreFree

(* WSARecv can fill all the free space and overwrites no queued byte, in   *)
(* every reachable state.                                                  *)
THEOREM RecvPartsSafe == RingSpec => []RecvPartsAreFree
PROOF
  BY RingTypeCorrect, PartsAreFree, PTL

-----------------------------------------------------------------------------
(* The ring is a bounded queue. *)

LEMMA ContentsType ==
  ASSUME RingTypeOK
  PROVE  Contents \in Seq(Bytes) /\ Len(Contents) = UseSize
PROOF
  <1>1. UseSize \in 0..UseSize
    BY SizesFit
  <1>. QED
    BY <1>1, PeekedType DEF Contents

(* A call that moves nothing leaves the queue alone.                       *)
LEMMA SameContents ==
  ASSUME UNCHANGED << front, rear, buffer >>
  PROVE  Contents' = Contents
PROOF
  BY DEF Contents, Peeked, At, UseSize

LEMMA LooksNowhere ==
  ASSUME RingTypeOK, Refused
  PROVE  Fifo!Look
PROOF
  <1>1. Contents' = Contents /\ moved' = << >>
    BY SameContents DEF Refused
  <1>2. 0 \in 0..Len(Contents) /\ SubSeq(Contents, 1, 0) = << >>
    BY ContentsType, SizesFit
  <1>. QED
    BY <1>1, <1>2 DEF Fifo!Look

(* The bytes enqueued come after those queued, all of them.                *)
LEMMA EnqueueAdds ==
  ASSUME RingTypeOK, NEW data \in Seq(Bytes), Enqueue(data),
         Len(data) <= FreeSize
  PROVE  Contents' = Contents \o data /\ UseSize' = UseSize + Len(data)
PROOF
  <1>1. /\ buffer' = [k \in Cells |-> IF FromRear(k) < Len(data)
                            THEN data[FromRear(k) + 1] ELSE buffer[k]]
        /\ MoveRear(Len(data))
        /\ UNCHANGED front
    <2>1. FreeSize \in Int /\ Len(data) \in Nat
      BY SizesFit, SizeAssumption
    <2>. QED
      BY <2>1 DEF Enqueue
  <1>. DEFINE n == Len(data)
              u == UseSize
  <1>2. /\ size \in Nat /\ size > 1 /\ front \in 0..(size - 1)
        /\ rear \in 0..(size - 1) /\ u \in 0..(size - 1)
        /\ FreeSize = size - 1 - u /\ n \in 0..(size - 1 - u)
    BY <1>1, SizesFit, SizeAssumption DEF RingTypeOK, Cells, size
  <1>3. rear' = IF rear + n < size THEN rear + n ELSE rear + n - size
    <2>1. rear + n \in Nat /\ rear + n < size + size
      BY <1>2
    <2>. QED
      BY <1>1, <1>2, <2>1, Wrap DEF MoveRear
  <1>4. UseSize' = u + n
    BY <1>1, <1>2, <1>3 DEF UseSize
  <1>5. ASSUME NEW i \in 1..(u + n)
        PROVE  /\ Cell(i) \in 0..(size - 1) /\ Cell(i)' = Cell(i)
               /\ At(i) = buffer[Cell(i)] /\ At(i)' = buffer'[Cell(i)]
               /\ FromRear(Cell(i)) =
                    IF i <= u THEN size - 1 - u + i ELSE i - u - 1
    <2>1. i \in 1..size
      BY <1>2
    <2>2. Cell(i) \in 0..(size - 1) /\ Cell(i)' = Cell(i)
      BY <1>1, <2>1, <1>2, ByteInCell DEF Cell, Cells
    <2>3. At(i) = buffer[Cell(i)]
      BY <2>1, ByteInCell
    <2>4. front + i - 1 \in Nat /\ front + i - 1 < size + size
      BY <1>2, <2>1
    <2>5. At(i)' = buffer'[Cell(i)]
      BY <1>1, <1>2, <2>4, Wrap DEF At, Cell
    <2>6. Cell(i) + size - rear \in Nat /\ Cell(i) + size - rear < size + size
      BY <1>2, <2>2
    <2>7. FromRear(Cell(i)) = IF Cell(i) < rear THEN Cell(i) + size - rear
                                                ELSE Cell(i) - rear
      BY <1>2, <2>2, <2>6, Wrap DEF FromRear
    <2>8. FromRear(Cell(i)) = IF i <= u THEN size - 1 - u + i ELSE i - u - 1
      BY <1>2, <2>7 DEF Cell, UseSize
    <2>. QED
      BY <2>2, <2>3, <2>5, <2>8
  <1>6. ASSUME NEW i \in 1..(u + n)
        PROVE  At(i)' = IF i <= u THEN At(i) ELSE data[i - u]
    <2>1. PICK c \in Cells : c = Cell(i)
      BY <1>5 DEF Cells
    <2>2. /\ At(i) = buffer[c] /\ At(i)' = buffer'[c]
          /\ FromRear(c) = IF i <= u THEN size - 1 - u + i ELSE i - u - 1
      BY <1>5, <2>1
    <2>3. buffer'[c] = IF FromRear(c) < n THEN data[FromRear(c) + 1]
                                          ELSE buffer[c]
      BY <1>1
    <2>4. CASE i <= u
      <3>1. ~(FromRear(c) < n)
        BY <1>2, <2>2, <2>4
      <3>. QED
        BY <2>2, <2>3, <2>4, <3>1
    <2>5. CASE ~(i <= u)
      <3>1. FromRear(c) < n /\ FromRear(c) + 1 = i - u
        BY <1>2, <2>2, <2>5
      <3>. QED
        BY <2>2, <2>3, <2>5, <3>1
    <2>. QED
      BY <2>4, <2>5
  <1>7. Contents' = Contents \o data
    <2>1. Contents' = [i \in 1..(u + n) |-> At(i)']
      BY <1>4 DEF Contents, Peeked
    <2>2. Contents \o data = [i \in 1..(u + n) |->
                                 IF i <= u THEN At(i) ELSE data[i - u]]
      BY <1>2, ContentsType DEF Contents, Peeked
    <2>. QED
      BY <1>6, <2>1, <2>2
  <1>. QED
    BY <1>4, <1>7

LEMMA EnqueuePuts ==
  ASSUME RingTypeOK, NEW data \in Seq(Bytes), Enqueue(data)
  PROVE  Fifo!Put \/ Fifo!Look
PROOF
  <1>1. CASE Refused
    BY <1>1, LooksNowhere
  <1>2. CASE Len(data) <= FreeSize /\ moved' = data
    <2>1. Contents' = Contents \o data
      BY <1>2, EnqueueAdds
    <2>2. /\ Len(data) \in 0..(BufferSize - Len(Contents))
          /\ data \in [1..Len(data) -> Bytes]
      BY <1>2, SizesFit, ContentsType, SizeAssumption
    <2>. QED
      BY <1>2, <2>1, <2>2 DEF Fifo!Put
  <1>. QED
    BY <1>1, <1>2 DEF Enqueue

(* What is looked at is the beginning of the queue.                        *)
LEMMA PeekedIsPrefix ==
  ASSUME RingTypeOK, NEW m \in 0..UseSize
  PROVE  Peeked(m) = SubSeq(Contents, 1, m)
PROOF
  <1>1. UseSize \in Nat /\ m \in 0..UseSize
    BY SizesFit
  <1>2. SubSeq(Contents, 1, m) = [i \in 1..m |-> Contents[i]]
    BY <1>1, ContentsType
  <1>3. \A i \in 1..m : Contents[i] = At(i)
    BY <1>1 DEF Contents, Peeked
  <1>. QED
    BY <1>2, <1>3 DEF Peeked

(* Looking changes nothing.                                                *)
LEMMA PeekLooks ==
  ASSUME RingTypeOK, NEW n \in Nat, Peek(n)
  PROVE  Fifo!Look
PROOF
  <1>1. PICK m \in 0..UseSize : m = Lesser(n, UseSize)
    BY SizesFit DEF Lesser
  <1>2. moved' = SubSeq(Contents, 1, m)
    BY <1>1, PeekedIsPrefix DEF Peek
  <1>3. Contents' = Contents
    BY SameContents DEF Peek
  <1>. QED
    BY <1>2, <1>3, ContentsType DEF Fifo!Look

(* Moving the front takes the oldest bytes away; the others stay in their  *)
(* order.                                                                  *)
LEMMA FrontMoves ==
  ASSUME RingTypeOK, NEW m \in 0..UseSize, MoveFront(m),
         UNCHANGED << rear, buffer >>
  PROVE  /\ front' \in Cells
         /\ Contents' = SubSeq(Contents, m + 1, Len(Contents))
         /\ UseSize' = UseSize - m
PROOF
  <1>. DEFINE u == UseSize
  <1>1. /\ size \in Nat /\ size > 1 /\ front \in 0..(size - 1)
        /\ rear \in 0..(size - 1) /\ u \in 0..(size - 1) /\ m \in 0..u
    BY SizesFit, SizeAssumption DEF RingTypeOK, Cells, size
  <1>2. front' = IF front + m < size THEN front + m ELSE front + m - size
    <2>1. front + m \in Nat /\ front + m < size + size
      BY <1>1
    <2>. QED
      BY <1>1, <2>1, Wrap DEF MoveFront
  <1>3. UseSize' = u - m
    <2>1. rear' = rear
      OBVIOUS
    <2>2. rear = IF front + u < size THEN front + u ELSE front + u - size
      BY SizesFit
    <2>. QED
      BY <1>1, <1>2, <2>1, <2>2 DEF UseSize
  <1>4. ASSUME NEW i \in 1..(u - m)
        PROVE  At(i)' = At(m + i)
    <2>1. /\ front + (m + i) - 1 \in Nat
          /\ front + (m + i) - 1 < size + size
          /\ front' + i - 1 \in Nat /\ front' + i - 1 < size + size
      BY <1>1, <1>2
    <2>2. Turned(front' + i - 1) = Turned(front + (m + i) - 1)
      BY <1>1, <1>2, <2>1, Wrap
    <2>. QED
      BY <2>2 DEF At, Turned
  <1>5. Contents' = SubSeq(Contents, m + 1, Len(Contents))
    <2>1. Contents' = [i \in 1..(u - m) |-> At(i)']
      BY <1>3 DEF Contents, Peeked
    <2>2. SubSeq(Contents, m + 1, Len(Contents))
            = [i \in 1..(u - m) |-> Contents[m + i]]
      <3>1. Len(Contents) = u /\ u - (m + 1) + 1 = u - m
        BY <1>1, ContentsType
      <3>2. \A i \in 1..(u - m) : i + (m + 1) - 1 = m + i
        BY <1>1
      <3>. QED
        BY <1>1, <3>1, <3>2, ContentsType
    <2>3. ASSUME NEW i \in 1..(u - m)
          PROVE  Contents[m + i] = At(m + i)
      BY <1>1 DEF Contents, Peeked
    <2>. QED
      BY <1>4, <2>1, <2>2, <2>3
  <1>. QED
    BY <1>1, <1>2, <1>3, <1>5 DEF Cells

(* The bytes dequeued are the oldest.                                      *)
LEMMA DequeueTakes ==
  ASSUME RingTypeOK, NEW n \in Nat, Dequeue(n)
  PROVE  Fifo!Take \/ Fifo!Look
PROOF
  <1>1. CASE Refused
    BY <1>1, LooksNowhere
  <1>2. CASE /\ moved' = Peeked(Lesser(n, UseSize))
             /\ MoveFront(Lesser(n, UseSize))
             /\ UNCHANGED << rear, buffer >>
    <2>1. PICK m \in 0..UseSize : m = Lesser(n, UseSize)
      BY SizesFit DEF Lesser
    <2>2. Contents' = SubSeq(Contents, m + 1, Len(Contents))
      BY <1>2, <2>1, FrontMoves
    <2>3. moved' = SubSeq(Contents, 1, m)
      BY <1>2, <2>1, PeekedIsPrefix
    <2>. QED
      BY <2>2, <2>3, ContentsType, SizesFit DEF Fifo!Take
  <1>. QED
    BY <1>1, <1>2 DEF Dequeue

LEMMA ClearEmpties ==
  ASSUME RingTypeOK, ClearBuffer
  PROVE  Fifo!Empty
PROOF
  <1>1. UseSize' = 0
    BY DEF ClearBuffer, UseSize, RingTypeOK, Cells, size
  <1>2. Contents' = << >>
    BY <1>1 DEF Contents, Peeked
  <1>. QED
    BY <1>2 DEF ClearBuffer, Fifo!Empty

LEMMA FifoStarts == RingInit => Fifo!FifoInit
PROOF
  <1>. SUFFICES ASSUME RingInit PROVE Fifo!FifoInit
    OBVIOUS
  <1>1. UseSize = 0
    BY DEF RingInit, UseSize
  <1>2. Contents = << >>
    BY <1>1 DEF Contents, Peeked
  <1>. QED
    BY <1>2 DEF RingInit, Fifo!FifoInit

(* Each call is a step of the queue.                                       *)
LEMMA FifoSteps ==
  RingTypeOK /\ [RingNext]_ringVars => [Fifo!FifoNext]_(Fifo!fifoVars)
PROOF
  <1>. SUFFICES ASSUME RingTypeOK, [RingNext]_ringVars
                PROVE  Fifo!FifoNext \/ UNCHANGED Fifo!fifoVars
    OBVIOUS
  <1>1. ASSUME NEW data \in Seq(Bytes), Enqueue(data) PROVE Fifo!FifoNext
    BY <1>1, EnqueuePuts DEF Fifo!FifoNext
  <1>2. ASSUME NEW data \in Seq(Bytes), DirectEnqueue(data) PROVE Fifo!FifoNext
    BY <1>2, DirectEnqueueIsEnqueue, EnqueuePuts DEF Fifo!FifoNext
  <1>3. ASSUME NEW n \in Nat, Dequeue(n) PROVE Fifo!FifoNext
    BY <1>3, DequeueTakes DEF Fifo!FifoNext
  <1>4. ASSUME NEW n \in Nat, DirectDequeue(n) PROVE Fifo!FifoNext
    BY <1>4, DirectDequeueIsDequeue, DequeueTakes DEF Fifo!FifoNext
  <1>5. ASSUME NEW n \in Nat, Peek(n) PROVE Fifo!FifoNext
    BY <1>5, PeekLooks DEF Fifo!FifoNext
  <1>6. CASE ClearBuffer
    BY <1>6, ClearEmpties DEF Fifo!FifoNext
  <1>7. CASE UNCHANGED ringVars
    BY <1>7, SameContents DEF ringVars, Fifo!fifoVars
  <1>. QED
    BY <1>1, <1>2, <1>3, <1>4, <1>5, <1>6, <1>7 DEF RingNext

(* The ring is a queue of BufferSize bytes, for every size and every       *)
(* sequence of calls.                                                      *)
THEOREM RingIsFifo == RingSpec => ImplementsFifo
PROOF
  BY RingTypeCorrect, FifoStarts, FifoSteps, PTL
  DEF RingSpec, ImplementsFifo, Fifo!FifoSpec

=============================================================================
