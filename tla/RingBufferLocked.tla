-------------------------- MODULE RingBufferLocked --------------------------
(***************************************************************************)
(* EnqueueLock and DequeueLock of Util/CRingBuffer.cpp, called by several  *)
(* threads.  Each looks at the size of the ring before it takes srwlock_,  *)
(* and moves the bytes one by one under the lock.                          *)
(*                                                                         *)
(* The look is a race with the thread that moves an index under the lock.  *)
(* GetFreeSize and GetUseSize name each index twice, in the comparison and *)
(* in the difference; the build may load it once or twice, so the          *)
(* difference uses the values that were compared or those of a later step. *)
(***************************************************************************)
EXTENDS Integers, Sequences, SequencesExt

CONSTANTS Producers,      \* the threads that call EnqueueLock
          Consumers,      \* the threads that call DequeueLock
          NoThread,       \* the owner of a lock that is free
          BufferSize,     \* iBufferSize
          MaxCall,        \* bound: how many bytes one call asks for
          MaxBytes        \* bound: how many bytes are enqueued in all

size == BufferSize + 1
Callers == Producers \cup Consumers

ASSUME CallersAssumption ==
  Producers \cap Consumers = {} /\ NoThread \notin Callers
ASSUME BoundsAssumption ==
  BufferSize \in Nat \ {0} /\ MaxCall \in Nat /\ MaxBytes \in Nat

VARIABLES front, rear, buffer, srwlock,
          pc,         \* what each thread does next
          iSize,      \* how many bytes its call moves
          i,          \* how many of them it has moved
          seen,       \* the indices << front, rear >> it has compared
          put,        \* the bytes enqueued; the k-th is the number k
          got         \* the bytes dequeued

ringVars == << front, rear, buffer >>
callVars == << pc, iSize, i, seen >>
lockedVars == << ringVars, srwlock, callVars, put, got >>

LockedInit ==
  /\ front = 0 /\ rear = 0
  /\ buffer = [k \in 0..(size - 1) |-> 0]
  /\ srwlock = NoThread
  /\ pc = [t \in Callers |-> "idle"]
  /\ iSize = [t \in Callers |-> 0]
  /\ i = [t \in Callers |-> 0]
  /\ seen = [t \in Callers |-> << 0, 0 >>]
  /\ put = << >> /\ got = << >>

Goto(t, label) == pc' = [pc EXCEPT ![t] = label]

-----------------------------------------------------------------------------
(* A call, up to the lock. *)

(* A thread calls, and compares the indices.                               *)
Begin(t) ==
  /\ pc[t] = "idle"
  /\ \E n \in 1..MaxCall :
       /\ t \in Producers => Len(put) + n <= MaxBytes
       /\ iSize' = [iSize EXCEPT ![t] = n]
  /\ i' = [i EXCEPT ![t] = 0]
  /\ seen' = [seen EXCEPT ![t] = << front, rear >>]
  /\ Goto(t, "size")
  /\ UNCHANGED << ringVars, srwlock, put, got >>

(* The size of the free space, or of the used one, from the comparison of  *)
(* old << front, rear >> and the difference of now << front, rear >>.      *)
FreeSize(old, now) ==
  IF old[2] >= old[1] THEN size - (now[2] - now[1]) - 1
                      ELSE now[1] - now[2] - 1
UseSize(old, now) ==
  IF old[2] >= old[1] THEN now[2] - now[1] ELSE size - now[1] + now[2]

Loads(t) == { seen[t], << front, rear >> }

(* Mutant of the test of EnqueueLock: one byte more than is free.          *)
Fits_OneMore(n, free) == n <= free + 1
Fits(n, free) == n <= free

LookFree(t) ==
  /\ t \in Producers
  /\ pc[t] = "size"
  /\ \E now \in Loads(t) :
       Goto(t, IF Fits(iSize[t], FreeSize(seen[t], now)) THEN "lock"
                                                         ELSE "idle")
  /\ UNCHANGED << ringVars, srwlock, iSize, i, seen, put, got >>

LookUsed(t) ==
  /\ t \in Consumers
  /\ pc[t] = "size"
  /\ \E now \in Loads(t) :
       LET use == UseSize(seen[t], now) IN
       /\ Goto(t, IF use = 0 THEN "idle" ELSE "lock")
       /\ iSize' = [iSize EXCEPT ![t] = IF @ > use THEN use ELSE @]
  /\ UNCHANGED << ringVars, srwlock, i, seen, put, got >>

-----------------------------------------------------------------------------
(* Under the lock. *)

AcquireSRWLockExclusive(t) ==
  /\ pc[t] = "lock"
  /\ srwlock = NoThread
  /\ srwlock' = t
  /\ Goto(t, "copy")
  /\ UNCHANGED << ringVars, iSize, i, seen, put, got >>

NextIndex(index) == (index + 1) % size

MoreBytes(t) == pc[t] = "copy" /\ i[t] < iSize[t]

(* A byte is written, then the rear moves: two steps for a thread that     *)
(* looks at the index without the lock.                                    *)
WriteByte(t) ==
  /\ t \in Producers
  /\ MoreBytes(t)
  /\ buffer' = [buffer EXCEPT ![rear] = Len(put) + 1]
  /\ Goto(t, "move")
  /\ UNCHANGED << front, rear, srwlock, iSize, i, seen, put, got >>

AdvanceRear(t) ==
  /\ t \in Producers
  /\ pc[t] = "move"
  /\ rear' = NextIndex(rear)
  /\ put' = Append(put, Len(put) + 1)
  /\ i' = [i EXCEPT ![t] = @ + 1]
  /\ Goto(t, "copy")
  /\ UNCHANGED << front, buffer, srwlock, iSize, seen, got >>

ReadByte(t) ==
  /\ t \in Consumers
  /\ MoreBytes(t)
  /\ got' = Append(got, buffer[front])
  /\ Goto(t, "move")
  /\ UNCHANGED << ringVars, srwlock, iSize, i, seen, put >>

AdvanceFront(t) ==
  /\ t \in Consumers
  /\ pc[t] = "move"
  /\ front' = NextIndex(front)
  /\ i' = [i EXCEPT ![t] = @ + 1]
  /\ Goto(t, "copy")
  /\ UNCHANGED << rear, buffer, srwlock, iSize, seen, put, got >>

ReleaseSRWLockExclusive(t) ==
  /\ pc[t] = "copy"
  /\ ~MoreBytes(t)
  /\ srwlock' = NoThread
  /\ Goto(t, "idle")
  /\ UNCHANGED << ringVars, iSize, i, seen, put, got >>

LockedNext ==
  \E t \in Callers :
    \/ Begin(t) \/ LookFree(t) \/ LookUsed(t)
    \/ AcquireSRWLockExclusive(t)
    \/ WriteByte(t) \/ AdvanceRear(t)
    \/ ReadByte(t) \/ AdvanceFront(t)
    \/ ReleaseSRWLockExclusive(t)

LockedSpec == LockedInit /\ [][LockedNext]_lockedVars

-----------------------------------------------------------------------------
(* Properties. *)

Contents ==
  LET index == << front, rear >>
  IN  [k \in 1..UseSize(index, index) |-> buffer[(front + k - 1) % size]]

(* The bytes a consumer has read and whose front it has not moved yet.     *)
BeingRead == IF \E t \in Consumers : pc[t] = "move" THEN 1 ELSE 0

(* The calls are those of a queue: whatever size a thread saw before it    *)
(* had the lock, the ring holds exactly the bytes enqueued and not yet     *)
(* dequeued, and what is dequeued is the bytes enqueued, in order.         *)
ThreadSafe ==
  /\ IsPrefix(got, put)
  /\ SubSeq(put, Len(got) + 1 - BeingRead, Len(put)) = Contents

=============================================================================
