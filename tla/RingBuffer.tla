----------------------------- MODULE RingBuffer -----------------------------
(***************************************************************************)
(* Util/CRingBuffer.cpp: a ring of size_ = BufferSize + 1 cells, one of    *)
(* which stays empty.  One action is one call of a public method by the    *)
(* thread that owns the ring; DirectEnqueue and DirectDequeue are what     *)
(* Session does through the two parts of a WSABUF array and MoveRear or    *)
(* MoveFront.                                                              *)
(***************************************************************************)
EXTENDS Integers, Sequences

CONSTANTS Bytes,        \* the values of a byte
          BufferSize    \* iBufferSize

ASSUME SizeAssumption == BufferSize \in Nat \ {0} /\ Bytes # {}

size == BufferSize + 1
Cells == 0..(size - 1)

(* An index turned round the end of the buffer.                            *)
Turned(a) == a % size

VARIABLES front, rear, buffer,
          moved         \* the bytes the last call has taken or given

ringVars == << front, rear, buffer, moved >>

(* new char[size_] is not initialised.                                     *)
RingInit ==
  /\ front = 0
  /\ rear = 0
  /\ buffer \in [Cells -> Bytes]
  /\ moved = << >>

-----------------------------------------------------------------------------
(* The methods that only look. *)

UseSize == IF rear >= front THEN rear - front ELSE size - front + rear

(* Mutant of FreeSize: the cell that must stay empty is given away.        *)
FreeSize_Full == IF rear >= front THEN size - (rear - front) ELSE front - rear
FreeSize == IF rear >= front THEN size - (rear - front) - 1
                             ELSE front - rear - 1

(* Mutant of DirectEnqueueSize: a ring whose front is at 0 is not special. *)
DirectEnqueueSize_AnyFront ==
  IF rear >= front THEN size - rear ELSE front - rear - 1
DirectEnqueueSize ==
  IF rear >= front THEN (IF front = 0 THEN size - rear - 1 ELSE size - rear)
                   ELSE front - rear - 1

DirectDequeueSize == IF rear >= front THEN rear - front ELSE size - front

(* The i-th byte from the front.                                           *)
At(i) == buffer[Turned(front + i - 1)]
Peeked(n) == [i \in 1..n |-> At(i)]
Lesser(m, n) == IF m <= n THEN m ELSE n

-----------------------------------------------------------------------------
(* The methods that change the ring.  A call may be refused. *)

Refused == moved' = << >> /\ UNCHANGED << front, rear, buffer >>

(* MoveRear and MoveFront refuse to pass the other index; their callers    *)
(* ask for 0 to the free, or the used, size, so that no refusal happens.   *)
(* Mutant of MoveRear: the index does not wrap.                            *)
MoveRear_NoWrap(n) == rear' = rear + n
MoveRear(n) == rear' = Turned(rear + n)
MoveFront(n) == front' = Turned(front + n)

(* How many cells after the rear cell k comes, turned round.               *)
FromRear(k) == Turned(k + size - rear)

Enqueue(data) ==
  \/ /\ Len(data) > FreeSize
     /\ Refused
  \/ /\ Len(data) <= FreeSize
     /\ buffer' = [k \in Cells |-> IF FromRear(k) < Len(data)
                                     THEN data[FromRear(k) + 1] ELSE buffer[k]]
     /\ MoveRear(Len(data))
     /\ moved' = data
     /\ UNCHANGED front

Dequeue(n) ==
  \/ /\ UseSize = 0 \/ n <= 0
     /\ Refused
  \/ /\ UseSize # 0 /\ n > 0
     /\ moved' = Peeked(Lesser(n, UseSize))
     /\ MoveFront(Lesser(n, UseSize))
     /\ UNCHANGED << rear, buffer >>

Peek(n) ==
  /\ moved' = Peeked(Lesser(n, UseSize))
  /\ UNCHANGED << front, rear, buffer >>

ClearBuffer ==
  /\ rear' = front
  /\ moved' = << >>
  /\ UNCHANGED << front, buffer >>

(* WSARecv fills the part at the rear, then the part at the start of the   *)
(* buffer; the completion moves the rear.                                  *)
RecvLens == << DirectEnqueueSize, FreeSize - DirectEnqueueSize >>

DirectEnqueue(data) ==
  LET d == RecvLens[1]
      n == Len(data)
  IN
  /\ n \in 1..(RecvLens[1] + RecvLens[2])
  /\ buffer' = [k \in Cells |->
       IF rear <= k /\ k < rear + Lesser(n, d) THEN data[k - rear + 1]
       ELSE IF k < n - d THEN data[d + k + 1] ELSE buffer[k]]
  /\ MoveRear(n)
  /\ moved' = data
  /\ UNCHANGED front

(* WSASend reads the part at the front, then the part at the start of the  *)
(* buffer; the completion moves the front.                                 *)
SendLens == << DirectDequeueSize, UseSize - DirectDequeueSize >>

DirectDequeue(n) ==
  LET d == SendLens[1] IN
  /\ n \in 1..(SendLens[1] + SendLens[2])
  /\ moved' = [i \in 1..n |->
                IF i <= d THEN buffer[front + i - 1] ELSE buffer[i - d - 1]]
  /\ MoveFront(n)
  /\ UNCHANGED << rear, buffer >>

RingNext ==
  \/ \E data \in Seq(Bytes) : Enqueue(data) \/ DirectEnqueue(data)
  \/ \E n \in Nat : Dequeue(n) \/ Peek(n) \/ DirectDequeue(n)
  \/ ClearBuffer

RingSpec == RingInit /\ [][RingNext]_ringVars

-----------------------------------------------------------------------------
(* Properties. *)

(* The indices stay inside the buffer.                                     *)
RingTypeOK ==
  /\ front \in Cells /\ rear \in Cells
  /\ buffer \in [Cells -> Bytes]
  /\ moved \in Seq(Bytes)

(* The cells of the queued bytes, and those of the two parts given to      *)
(* WSARecv, as far as their lengths reach.                                 *)
UsedCells == { Turned(front + i) : i \in 0..(UseSize - 1) }
FirstPart == rear..(rear + RecvLens[1] - 1)
SecondPart == 0..(RecvLens[2] - 1)

(* The two parts given to WSARecv have lengths that are not negative, lie  *)
(* inside the buffer, do not overlap, and hold no queued byte: the kernel  *)
(* can fill all of the free space and overwrites nothing, also where the   *)
(* ring wraps and where the empty cell sits at either end.                 *)
RecvPartsAreFree ==
  /\ RecvLens[1] >= 0 /\ RecvLens[2] >= 0
  /\ FirstPart \cup SecondPart \subseteq Cells
  /\ FirstPart \cap SecondPart = {}
  /\ (FirstPart \cup SecondPart) \cap UsedCells = {}

Contents == Peeked(UseSize)

Fifo == INSTANCE BoundedFifo WITH
          Capacity <- BufferSize, queue <- Contents, moved <- moved

(* The ring is a queue of BufferSize bytes: in whatever positions its      *)
(* indices are, a call adds all of its bytes or none, the bytes leave in   *)
(* the order they came, and the two parts hold the same bytes as the ring. *)
ImplementsFifo == Fifo!FifoSpec

=============================================================================
