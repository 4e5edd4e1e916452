---------------------------- MODULE BoundedFifo -----------------------------
(***************************************************************************)
(* What CRingBuffer promises its callers: a queue of at most Capacity      *)
(* bytes, filled at one end and emptied from the other.                    *)
(***************************************************************************)
EXTENDS Integers, Sequences

CONSTANTS Bytes, Capacity

VARIABLES queue,    \* the bytes queued, the oldest first
          moved     \* the bytes the last call has put in, or given out

fifoVars == << queue, moved >>

FifoInit == queue = << >> /\ moved = << >>

(* Bytes enter together or not at all.                                     *)
Put ==
  \E n \in 0..(Capacity - Len(queue)) : \E data \in [1..n -> Bytes] :
    /\ queue' = queue \o data
    /\ moved' = data

Take ==
  \E n \in 0..Len(queue) :
    /\ moved' = SubSeq(queue, 1, n)
    /\ queue' = SubSeq(queue, n + 1, Len(queue))

Look ==
  \E n \in 0..Len(queue) :
    /\ moved' = SubSeq(queue, 1, n)
    /\ UNCHANGED queue

Empty == queue' = << >> /\ moved' = << >>

FifoNext == Put \/ Take \/ Look \/ Empty

FifoSpec == FifoInit /\ [][FifoNext]_fifoVars

=============================================================================
