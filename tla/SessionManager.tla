--------------------------- MODULE SessionManager ---------------------------
(***************************************************************************)
(* NetLib/SessionManager.cpp: the pool of session slots.  The slots are    *)
(* allocated once; what moves is the stack of free slot ids, guarded by    *)
(* sessionIdQueueMutex_.  The top of the std::stack is the head of idStack.*)
(***************************************************************************)
EXTENDS Naturals, Sequences, FiniteSets, SequencesExt

CONSTANTS Sessions,    \* the session slots (MaxSession of them)
          NoSession    \* not a slot: the value of a session pointer not set

ASSUME SessionsAssumption == IsFiniteSet(Sessions) /\ NoSession \notin Sessions

VARIABLE idStack       \* sessionIdStack_

(* InitSessionIdQueue pushes every id once.                                *)
InitSessionIdQueue ==
  idStack \in { q \in [1..Cardinality(Sessions) -> Sessions] :
                  IsInjective(q) /\ Range(q) = Sessions }

(* Mutant of GetIdLock: the id stays on the stack.                         *)
GetIdLock_KeepsTop(id) ==
  /\ idStack # << >>
  /\ id = Head(idStack)
  /\ UNCHANGED idStack

(* GetIdLock on a non-empty stack: id is the top, which is popped.         *)
GetIdLock(id) ==
  /\ idStack # << >>
  /\ id = Head(idStack)
  /\ idStack' = Tail(idStack)

(* GetIdLock on an empty stack returns false.                              *)
GetIdFails ==
  /\ idStack = << >>
  /\ UNCHANGED idStack

FreeIdLock(id) == idStack' = << id >> \o idStack

=============================================================================
