---------------------------- MODULE LibraryProofs ---------------------------
(***************************************************************************)
(* Proofs about the library, for any values of the constants: ObjectPool   *)
(* implements PoolStore, what it hands out is a constructed object, and    *)
(* its free stack is exact; PacketBuffer implements PacketStream, and its  *)
(* positions stay in the largest buffer; EnqueueLock and DequeueLock of    *)
(* CRingBuffer, with one thread at each end, keep the ring a queue; the    *)
(* rows of the Profiler are exact; the two programs that are generated     *)
(* from one sheet agree.  The last two rest on the same facts about folds. *)
(***************************************************************************)
EXTENDS ObjectPool, PacketBuffer, RingBufferLocked, ProfileTable, PacketCode,
        SequenceTheorems, FiniteSetTheorems, WellFoundedInduction, TLAPS

-----------------------------------------------------------------------------
(* ObjectPool.  The history variable out is what StackNext says already;   *)
(* the stack is a set of free nodes in which no two links lead to one      *)
(* node.                                                                   *)

(* The nodes of a pool that are on its stack.                              *)
OnStack(p) == { n \in Nodes : id[n] = p /\ stackNext[n] # p }

(* A node is out exactly if both guards of Free would let it pass.         *)
OutIsMarked ==
  \A n \in Nodes :
    /\ out[n] # Null => id[n] # Null /\ stackNext[n] = id[n] /\ out[n] = id[n]
    /\ id[n] # Null /\ stackNext[n] = id[n] => out[n] # Null

(* Links and the top lead to free nodes of the same pool.                  *)
LinksStay ==
  \A p \in Pools :
    /\ stack_top_[p] \in OnStack(p) \cup {Null}
    /\ \A n \in OnStack(p) : stackNext[n] \in OnStack(p) \cup {Null}

(* To no free node leads more than one link, and none to the top.          *)
LinksDiffer ==
  \A p \in Pools : \A m \in OnStack(p) :
    stackNext[m] # Null =>
      /\ stackNext[m] # stack_top_[p]
      /\ \A n \in OnStack(p) : stackNext[m] = stackNext[n] => m = n

(* What is out is constructed, and so is what is free if Free leaves it.   *)
Constructed ==
  /\ \A n \in Nodes : out[n] # Null => n \in live
  /\ \A p \in Pools : \A n \in OnStack(p) : ~placement_new_[p] => n \in live

PoolInv == PoolTypeOK /\ OutIsMarked /\ LinksStay /\ LinksDiffer /\ Constructed

LEMMA PoolInvInit == PoolInit => PoolInv
PROOF
  BY PoolAssumption
  DEF PoolInit, PoolInv, PoolTypeOK, OutIsMarked, LinksStay, LinksDiffer,
      Constructed, OnStack

(* The node on top goes away: used again, or deleted.                      *)
LEMMA PopKeepsLinks ==
  ASSUME PoolInv, NEW p \in Pools, NEW n, n = stack_top_[p], n # Null,
         stack_top_' = [stack_top_ EXCEPT ![p] = stackNext[n]],
         \A q \in Pools : OnStack(q)' = OnStack(q) \ {n},
         \A m \in Nodes \ {n} : stackNext'[m] = stackNext[m]
  PROVE  LinksStay' /\ LinksDiffer'
PROOF
  <1>1. n \in OnStack(p) /\ n \in Nodes /\ id[n] = p
    BY DEF PoolInv, LinksStay, OnStack
  <1>2. ASSUME NEW q \in Pools, q # p PROVE n \notin OnStack(q)
    BY <1>1, <1>2 DEF OnStack
  <1>3. stackNext[n] \in OnStack(p)' \cup {Null}
    BY <1>1 DEF PoolInv, LinksStay, LinksDiffer
  <1>4. LinksStay'
    <2>1. ASSUME NEW q \in Pools PROVE stack_top_'[q] \in OnStack(q)' \cup {Null}
      BY <1>2, <1>3 DEF PoolInv, PoolTypeOK, LinksStay
    <2>2. ASSUME NEW q \in Pools, NEW m \in OnStack(q)'
          PROVE  stackNext'[m] \in OnStack(q)' \cup {Null}
      <3>1. m \in OnStack(q) /\ m # n /\ m \in Nodes
        BY DEF OnStack
      <3>2. stackNext[m] # n
        BY <3>1, <1>1, <1>2, PoolAssumption DEF PoolInv, LinksStay, LinksDiffer
      <3>. QED
        BY <3>1, <3>2 DEF PoolInv, LinksStay
    <2>. QED
      BY <2>1, <2>2 DEF LinksStay
  <1>5. LinksDiffer'
    <2>1. ASSUME NEW q \in Pools, NEW m \in OnStack(q)', stackNext'[m] # Null
          PROVE  /\ stackNext'[m] # stack_top_'[q]
                 /\ \A k \in OnStack(q)' : stackNext'[m] = stackNext'[k] => m = k
      <3>1. m \in OnStack(q) /\ m # n /\ m \in Nodes /\ stackNext'[m] = stackNext[m]
        BY DEF OnStack
      <3>2. \A k \in OnStack(q)' : k \in OnStack(q) /\ stackNext'[k] = stackNext[k]
        BY DEF OnStack
      <3>3. CASE q = p
        <4>1. stack_top_'[q] = stackNext[n]
          BY <3>3 DEF PoolInv, PoolTypeOK
        <4>. QED
          BY <2>1, <3>1, <3>2, <3>3, <4>1, <1>1 DEF PoolInv, LinksDiffer
      <3>4. CASE q # p
        <4>1. stack_top_'[q] = stack_top_[q]
          BY <3>4 DEF PoolInv, PoolTypeOK
        <4>. QED
          BY <2>1, <3>1, <3>2, <4>1 DEF PoolInv, LinksDiffer
      <3>. QED
        BY <3>3, <3>4
    <2>. QED
      BY <2>1 DEF LinksDiffer
  <1>. QED
    BY <1>4, <1>5

LEMMA AllocNewKeeps ==
  ASSUME PoolInv, NEW p \in Pools, NEW n \in Nodes, AllocNew(p, n)
  PROVE  PoolInv'
PROOF
  <1>1. PoolTypeOK'
    BY DEF PoolInv, PoolTypeOK, AllocNew, Given
  <1>2. \A m \in Nodes \ {n} : /\ id'[m] = id[m] /\ stackNext'[m] = stackNext[m]
                               /\ out'[m] = out[m]
    BY DEF PoolInv, PoolTypeOK, AllocNew, Given
  <1>3. id[n] = Null /\ id'[n] = p /\ stackNext'[n] = p /\ out'[n] = p
    BY DEF PoolInv, PoolTypeOK, AllocNew, Given
  <1>4. \A q \in Pools : OnStack(q)' = OnStack(q)
    BY <1>2, <1>3, PoolAssumption DEF OnStack
  <1>5. \A q \in Pools : \A m \in OnStack(q) : m \in Nodes \ {n}
    BY <1>3, PoolAssumption DEF OnStack
  <1>6. OutIsMarked'
    BY <1>2, <1>3, PoolAssumption DEF PoolInv, OutIsMarked
  <1>7. LinksStay' /\ LinksDiffer'
    BY <1>2, <1>4, <1>5 DEF PoolInv, LinksStay, LinksDiffer, AllocNew
  <1>8. Constructed'
    BY <1>2, <1>4 DEF PoolInv, Constructed, AllocNew
  <1>. QED
    BY <1>1, <1>6, <1>7, <1>8 DEF PoolInv

LEMMA AllocUsedKeeps ==
  ASSUME PoolInv, NEW p \in Pools, AllocUsed(p)
  PROVE  PoolInv'
PROOF
  <1>. DEFINE n == stack_top_[p]
  <1>0. n # Null /\ n \in OnStack(p) /\ n \in Nodes /\ id[n] = p /\ stackNext[n] # p
    BY DEF PoolInv, LinksStay, AllocUsed, OnStack
  <1>1. PoolTypeOK'
    <2>1. stackNext[n] \in Nodes \cup {Null}
      BY <1>0 DEF PoolInv, LinksStay, OnStack
    <2>. QED
      BY <1>0, <2>1 DEF PoolInv, PoolTypeOK, AllocUsed, Given
  <1>2. \A m \in Nodes \ {n} : /\ id'[m] = id[m] /\ stackNext'[m] = stackNext[m]
                               /\ out'[m] = out[m]
    BY <1>0 DEF PoolInv, PoolTypeOK, AllocUsed, Given
  <1>3. id'[n] = p /\ stackNext'[n] = p /\ out'[n] = p
    BY <1>0 DEF PoolInv, PoolTypeOK, AllocUsed, Given
  <1>4. \A q \in Pools : OnStack(q)' = OnStack(q) \ {n}
    BY <1>0, <1>2, <1>3 DEF OnStack
  <1>6. OutIsMarked'
    BY <1>2, <1>3, PoolAssumption DEF PoolInv, OutIsMarked
  <1>7. LinksStay' /\ LinksDiffer'
    <2>1. stack_top_' = [stack_top_ EXCEPT ![p] = stackNext[n]]
      BY DEF AllocUsed
    <2>. QED
      BY <1>0, <1>2, <1>4, <2>1, PopKeepsLinks
  <1>8. Constructed'
    BY <1>0, <1>2, <1>4 DEF PoolInv, Constructed, AllocUsed
  <1>. QED
    BY <1>1, <1>6, <1>7, <1>8 DEF PoolInv

LEMMA FreePushKeeps ==
  ASSUME PoolInv, NEW p \in Pools, NEW n \in Nodes, FreePush(p, n)
  PROVE  PoolInv'
PROOF
  <1>0. id[n] = p /\ stackNext[n] = p
    BY DEF FreePush, Accepts
  <1>1. PoolTypeOK'
    BY DEF PoolInv, PoolTypeOK, FreePush
  <1>2. \A m \in Nodes \ {n} : /\ id'[m] = id[m] /\ stackNext'[m] = stackNext[m]
                               /\ out'[m] = out[m]
    BY DEF PoolInv, PoolTypeOK, FreePush
  <1>3. /\ id'[n] = p /\ stackNext'[n] = stack_top_[p] /\ out'[n] = Null
        /\ stack_top_'[p] = n /\ stack_top_[p] # p
        /\ \A q \in Pools \ {p} : stack_top_'[q] = stack_top_[q]
    BY <1>0, PoolAssumption DEF PoolInv, PoolTypeOK, FreePush
  <1>4. /\ OnStack(p)' = OnStack(p) \cup {n}
        /\ \A q \in Pools \ {p} : OnStack(q)' = OnStack(q)
    BY <1>0, <1>2, <1>3 DEF OnStack
  <1>5. \A q \in Pools : \A m \in OnStack(q) : m \in Nodes \ {n}
    BY <1>0 DEF OnStack
  <1>6. OutIsMarked'
    BY <1>2, <1>3, PoolAssumption DEF PoolInv, OutIsMarked
  <1>7. LinksStay'
    BY <1>2, <1>3, <1>4, <1>5 DEF PoolInv, LinksStay
  <1>8. LinksDiffer'
    <2>1. ASSUME NEW m \in OnStack(p)', stackNext'[m] # Null
          PROVE  /\ stackNext'[m] # stack_top_'[p]
                 /\ \A k \in OnStack(p)' : stackNext'[m] = stackNext'[k] => m = k
      <3>1. n \notin OnStack(p)
        BY <1>5
      <3>2. CASE m = n
        BY <2>1, <1>2, <1>3, <1>4, <1>5, <3>1, <3>2 DEF PoolInv, LinksStay, LinksDiffer
      <3>3. CASE m # n
        BY <2>1, <1>2, <1>3, <1>4, <1>5, <3>1, <3>3 DEF PoolInv, LinksStay, LinksDiffer
      <3>. QED
        BY <3>2, <3>3
    <2>2. ASSUME NEW q \in Pools \ {p}, NEW m \in OnStack(q)', stackNext'[m] # Null
          PROVE  /\ stackNext'[m] # stack_top_'[q]
                 /\ \A k \in OnStack(q)' : stackNext'[m] = stackNext'[k] => m = k
      BY <2>2, <1>2, <1>3, <1>4, <1>5 DEF PoolInv, LinksDiffer
    <2>. QED
      BY <2>1, <2>2 DEF LinksDiffer
  <1>9. Constructed'
    BY <1>0, <1>2, <1>3, <1>4, <1>5, PoolAssumption
    DEF PoolInv, PoolTypeOK, OutIsMarked, Constructed, FreePush
  <1>. QED
    BY <1>1, <1>6, <1>7, <1>8, <1>9 DEF PoolInv

LEMMA DeleteTopKeeps ==
  ASSUME PoolInv, NEW p \in Pools, DeleteTop(p)
  PROVE  PoolInv'
PROOF
  <1>. DEFINE n == stack_top_[p]
  <1>0. n # Null /\ n \in OnStack(p) /\ n \in Nodes /\ id[n] = p /\ stackNext[n] # p
    BY DEF PoolInv, LinksStay, DeleteTop, OnStack
  <1>1. PoolTypeOK'
    <2>1. stackNext[n] \in Nodes \cup {Null}
      BY <1>0 DEF PoolInv, LinksStay, OnStack
    <2>. QED
      BY <1>0, <2>1 DEF PoolInv, PoolTypeOK, DeleteTop
  <1>2. \A m \in Nodes \ {n} : id'[m] = id[m] /\ stackNext'[m] = stackNext[m]
    BY <1>0 DEF PoolInv, PoolTypeOK, DeleteTop
  <1>3. id'[n] = Null /\ out' = out /\ out[n] = Null
    BY <1>0 DEF PoolInv, PoolTypeOK, OutIsMarked, DeleteTop
  <1>4. \A q \in Pools : OnStack(q)' = OnStack(q) \ {n}
    BY <1>0, <1>2, <1>3, PoolAssumption DEF OnStack
  <1>6. OutIsMarked'
    BY <1>2, <1>3 DEF PoolInv, OutIsMarked
  <1>7. LinksStay' /\ LinksDiffer'
    <2>1. stack_top_' = [stack_top_ EXCEPT ![p] = stackNext[n]]
      BY DEF DeleteTop
    <2>. QED
      BY <1>0, <1>2, <1>4, <2>1, PopKeepsLinks
  <1>8. Constructed'
    BY <1>0, <1>3, <1>4 DEF PoolInv, Constructed, DeleteTop
  <1>. QED
    BY <1>1, <1>6, <1>7, <1>8 DEF PoolInv

LEMMA PoolInvNext == PoolInv /\ [PoolNext]_poolVars => PoolInv'
PROOF
  <1>. SUFFICES ASSUME PoolInv, [PoolNext]_poolVars PROVE PoolInv'
    OBVIOUS
  <1>. USE DEF PoolTypeOK, OutIsMarked, LinksStay, LinksDiffer, Constructed, OnStack
  <1>1. ASSUME NEW p \in Pools, NEW n \in Nodes, FreeThrows(p, n) PROVE PoolInv'
    BY <1>1 DEF PoolInv, FreeThrows
  <1>2. ASSUME NEW p \in Pools, Destroy(p) PROVE PoolInv'
    BY <1>2 DEF PoolInv, Destroy
  <1>3. CASE UNCHANGED poolVars
    BY <1>3 DEF PoolInv, poolVars
  <1>4. open \subseteq Pools
    BY DEF PoolInv
  <1>. QED
    BY <1>1, <1>2, <1>3, <1>4, AllocNewKeeps, AllocUsedKeeps, FreePushKeeps,
       DeleteTopKeeps DEF PoolNext, Free

(* What a pool keeps true of its nodes.                                    *)
THEOREM PoolInvariant == PoolSpec => []PoolInv
PROOF
  BY PoolInvInit, PoolInvNext, PTL DEF PoolSpec

(* Each call is a step of the store; the destructor is none.               *)
LEMMA StoreSteps ==
  PoolInv /\ [PoolNext]_poolVars => [Store!StoreNext]_(Store!storeVars)
PROOF
  <1>. SUFFICES ASSUME PoolInv, [PoolNext]_poolVars
                PROVE  Store!StoreNext \/ UNCHANGED Store!storeVars
    OBVIOUS
  <1>1. ASSUME NEW p \in Pools, NEW n \in Nodes, AllocNew(p, n)
        PROVE  Store!Give(p, n)
    BY <1>1 DEF PoolInv, OutIsMarked, AllocNew, Given, Store!Give
  <1>2. ASSUME NEW p \in Pools, AllocUsed(p)
        PROVE  \E n \in Nodes : Store!Give(p, n)
    <2>1. stack_top_[p] \in Nodes /\ out[stack_top_[p]] = Null
      BY <1>2 DEF PoolInv, OutIsMarked, LinksStay, OnStack, AllocUsed
    <2>. QED
      BY <1>2, <2>1 DEF AllocUsed, Given, Store!Give
  <1>3. ASSUME NEW p \in Pools, NEW n \in Nodes, FreePush(p, n)
        PROVE  Store!TakeBack(p, n)
    BY <1>3, PoolAssumption DEF PoolInv, OutIsMarked, FreePush, Accepts, Store!TakeBack
  <1>4. ASSUME NEW p \in Pools, NEW n \in Nodes, FreeThrows(p, n)
        PROVE  Store!Refuse(p, n)
    BY <1>4, PoolAssumption DEF PoolInv, OutIsMarked, FreeThrows, Accepts, Store!Refuse
  <1>5. ASSUME NEW p \in Pools, Destroy(p) \/ DeleteTop(p)
        PROVE  UNCHANGED Store!storeVars
    BY <1>5 DEF Destroy, DeleteTop, Store!storeVars
  <1>6. CASE UNCHANGED poolVars
    BY <1>6 DEF poolVars, Store!storeVars
  <1>7. open \subseteq Pools
    BY DEF PoolInv, PoolTypeOK
  <1>. QED
    BY <1>1, <1>2, <1>3, <1>4, <1>5, <1>6, <1>7 DEF PoolNext, Free, Store!StoreNext

(* The free stack and StackNext name only nodes, none and pools, whatever  *)
(* is freed or deleted in whatever order.                                  *)
THEOREM PoolTypes == PoolSpec => []PoolTypeOK
PROOF
  <1>1. PoolInv => PoolTypeOK
    BY DEF PoolInv
  <1>. QED
    BY <1>1, PoolInvariant, PTL

(* No object is given out twice and no pool takes back what it has not     *)
(* given out or has back already, whatever its callers pass to Free.       *)
THEOREM PoolIsStore == PoolSpec => ImplementsStore
PROOF
  <1>1. PoolInit => Store!StoreInit
    BY DEF PoolInit, Store!StoreInit
  <1>. QED
    BY <1>1, PoolInvariant, StoreSteps, PTL
    DEF PoolSpec, ImplementsStore, Store!StoreSpec

(* Whether or not the pool constructs objects anew, and after Frees and    *)
(* deletions in any order, an object that is out is a constructed one.     *)
OutIsLive == \A n \in Nodes : out[n] # Null => n \in live

THEOREM PoolGivesObjects == PoolSpec => []OutIsLive
PROOF
  <1>1. PoolInv => OutIsLive
    BY DEF PoolInv, Constructed, OutIsLive
  <1>. QED
    BY <1>1, PoolInvariant, PTL

-----------------------------------------------------------------------------
(* The least of a set of numbers: what induction comes down to here.       *)
LessThan == OpToRel(<, Nat)

LEMMA LessThanWellFounded == IsWellFoundedOn(LessThan, Nat)
PROOF BY NatLessThanWellFounded, Zenon DEF LessThan

LEMMA LessThanHolds == \A x, y \in Nat : x < y => << x, y >> \in LessThan
PROOF BY DEF LessThan, OpToRel

LEMMA LeastNumber ==
  ASSUME NEW T \in SUBSET Nat, T # {}
  PROVE  \E x \in T : \A y \in T : x <= y
PROOF
  <1>1. PICK x \in T : \A y \in T : ~ (<< y, x >> \in LessThan)
    BY LessThanWellFounded, WFMin
  <1>2. \A y \in T : ~(y < x)
    BY <1>1, LessThanHolds
  <1>. QED
    BY <1>2

-----------------------------------------------------------------------------
(* The free stack as a list.                                               *)

(* s lists the free stack of p from the top.                               *)
Lists(p, s) ==
  /\ \A b, j \in 1..Len(s) : s[b] = s[j] => b = j
  /\ { s[b] : b \in 1..Len(s) } = Back(p)
  /\ stack_top_[p] = IF s = << >> THEN Null ELSE s[1]
  /\ \A b \in 1..Len(s) : stackNext[s[b]] = IF b < Len(s) THEN s[b + 1] ELSE Null
  /\ stack_count_[p] = Len(s)

StacksListed == \A p \in open : \E s \in Seq(Nodes) : Lists(p, s)

Allocated(p) == { n \in Nodes : id[n] = p }
AllocsCounted == \A p \in open : alloc_count_[p] = Cardinality(Allocated(p))

LEMMA WalkIs ==
  ASSUME NEW p \in Pools, NEW s \in Seq(Nodes), Lists(p, s)
  PROVE  FreeStack(p) = [k \in 0..Cardinality(Nodes) |->
                           IF k < Len(s) THEN s[k + 1] ELSE Null]
PROOF
  <1>. DEFINE N == Cardinality(Nodes)
              Round(at) == [k \in 0..N |-> IF k = 0 THEN stack_top_[p]
                              ELSE IF at[k - 1] = Null THEN Null
                                                      ELSE stackNext[at[k - 1]]]
              f == [k \in 0..N |-> IF k < Len(s) THEN s[k + 1] ELSE Null]
              g == FreeStack(p)
  <1>1. N \in Nat
    BY NodesFinite, FS_CardinalityType
  <1>. HIDE DEF N
  <1>2. f = Round(f)
    <2>1. ASSUME NEW k \in 0..N PROVE f[k] = Round(f)[k]
      <3>1. Len(s) \in Nat /\ \A b \in 1..Len(s) : s[b] \in Nodes /\ s[b] # Null
        BY PoolAssumption
      <3>2. CASE k = 0
        BY <1>1, <3>1, <3>2 DEF Lists
      <3>3. CASE k > 0 /\ k <= Len(s)
        <4>1. f[k - 1] = s[k] /\ k - 1 \in 0..N /\ k \in 1..Len(s)
          BY <1>1, <2>1, <3>1, <3>3
        <4>. QED
          BY <1>1, <2>1, <3>1, <3>3, <4>1 DEF Lists
      <3>4. CASE k > Len(s) /\ k > 0
        <4>1. f[k - 1] = Null /\ k - 1 \in 0..N
          BY <1>1, <2>1, <3>1, <3>4
        <4>. QED
          BY <1>1, <2>1, <3>1, <3>4, <4>1
      <3>. QED
        BY <1>1, <2>1, <3>1, <3>2, <3>3, <3>4
    <2>. QED
      BY <2>1
  <1>3. g = Round(g)
    <2>1. FreeStack(p) = CHOOSE at : at = Round(at)
      BY DEF FreeStack, N
    <2>. HIDE DEF Round, f
    <2>2. \E at : at = Round(at)
      BY <1>2
    <2>. QED
      BY <2>1, <2>2
  <1>4. \A k \in 0..N : g[k] = f[k]
    <2>. DEFINE T == { k \in 0..N : g[k] # f[k] }
    <2>1. SUFFICES ASSUME T # {} PROVE FALSE
      OBVIOUS
    <2>2. T \in SUBSET Nat
      BY <1>1
    <2>3. PICK x \in T : \A y \in T : x <= y
      BY <2>1, <2>2, LeastNumber
    <2>4. CASE x = 0
      BY ZenonT(60), <1>2, <1>3, <2>3, <2>4
    <2>5. CASE x # 0
      <3>1. x - 1 \in 0..N /\ ~(x <= x - 1)
        BY <1>1, <2>3, <2>5
      <3>2. g[x - 1] = f[x - 1]
        BY <2>3, <3>1
      <3>3. Round(g)[x] = Round(f)[x]
        BY <2>3, <2>5, <3>2
      <3>. HIDE DEF Round, f
      <3>. QED
        BY <1>2, <1>3, <2>3, <3>3
    <2>. QED
      BY <2>4, <2>5
  <1>. QED
    <2>1. g = [k \in 0..N |-> g[k]]
      BY <1>3
    <2>. HIDE DEF g
    <2>. QED
      BY <1>4, <2>1 DEF g, N

(* A pool whose nodes, links and counts do not change has the same list.   *)
LEMMA ListStays ==
  ASSUME NEW q \in Pools, NEW s \in Seq(Nodes), Lists(q, s),
         Back(q)' = Back(q), stack_top_'[q] = stack_top_[q],
         stack_count_'[q] = stack_count_[q],
         \A m \in Back(q) : stackNext'[m] = stackNext[m]
  PROVE  Lists(q, s)'
PROOF
  <1>1. \A b \in 1..Len(s) : s[b] \in Back(q)
    BY DEF Lists
  <1>. QED
    BY <1>1 DEF Lists

(* The first of the list leaves it.                                        *)
LEMMA ListPops ==
  ASSUME NEW p \in Pools, NEW s \in Seq(Nodes), Lists(p, s),
         NEW n, n = stack_top_[p], n # Null,
         Back(p)' = Back(p) \ {n}, stack_top_'[p] = stackNext[n],
         stack_count_'[p] = stack_count_[p] - 1,
         \A m \in Back(p) \ {n} : stackNext'[m] = stackNext[m]
  PROVE  Tail(s) \in Seq(Nodes) /\ Lists(p, Tail(s))'
PROOF
  <1>. DEFINE t == Tail(s)
  <1>1. s # << >> /\ n = s[1] /\ Len(s) \in Nat /\ Len(s) > 0
    BY DEF Lists
  <1>2. /\ t \in Seq(Nodes) /\ Len(t) = Len(s) - 1
        /\ \A b \in 1..Len(t) : b + 1 \in 1..Len(s) /\ t[b] = s[b + 1]
    BY <1>1
  <1>. HIDE DEF t
  <1>3. \A b, j \in 1..Len(s) : s[b] = s[j] => b = j
    BY DEF Lists
  <1>4. \A b, j \in 1..Len(t) : t[b] = t[j] => b = j
    <2>1. SUFFICES ASSUME NEW b \in 1..Len(t), NEW j \in 1..Len(t), t[b] = t[j]
                   PROVE  b = j
      OBVIOUS
    <2>2. b + 1 = j + 1
      BY SMTT(60), <1>2, <1>3, <2>1
    <2>. QED
      BY <1>1, <1>2, <2>1, <2>2
  <1>5. { t[b] : b \in 1..Len(t) } = Back(p)'
    <2>1. ASSUME NEW b \in 1..Len(t) PROVE t[b] \in Back(p) /\ t[b] # n
      <3>1. b + 1 # 1 /\ 1 \in 1..Len(s) /\ s[b + 1] \in Back(p)
        BY <1>1, <1>2, <2>1 DEF Lists
      <3>. QED
        BY <1>1, <1>2, <1>3, <2>1, <3>1
    <2>2. ASSUME NEW m \in Back(p), m # n PROVE \E b \in 1..Len(t) : t[b] = m
      <3>1. PICK j \in 1..Len(s) : s[j] = m
        BY <2>2 DEF Lists
      <3>2. j - 1 \in 1..Len(t) /\ (j - 1) + 1 = j
        BY <1>1, <1>2, <2>2, <3>1
      <3>. QED
        BY <1>2, <3>1, <3>2
    <2>. QED
      BY <2>1, <2>2
  <1>6. \A b \in 1..Len(t) :
          stackNext'[t[b]] = IF b < Len(t) THEN t[b + 1] ELSE Null
    <2>1. SUFFICES ASSUME NEW b \in 1..Len(t)
                   PROVE  stackNext'[t[b]] = IF b < Len(t) THEN t[b + 1] ELSE Null
      OBVIOUS
    <2>2. t[b] \in Back(p)'
      BY <1>5
    <2>3. stackNext'[t[b]] = stackNext[s[b + 1]]
      BY <1>2, <2>2
    <2>4. stackNext[s[b + 1]] = IF b + 1 < Len(s) THEN s[b + 2] ELSE Null
      BY <1>2 DEF Lists
    <2>5. b < Len(t) => t[b + 1] = s[b + 2]
      BY <1>1, <1>2
    <2>. QED
      BY <1>1, <1>2, <2>3, <2>4, <2>5
  <1>7. stack_top_'[p] = IF t = << >> THEN Null ELSE t[1]
    <2>1. stackNext[n] = IF 1 < Len(s) THEN s[2] ELSE Null
      BY <1>1 DEF Lists
    <2>2. t = << >> <=> Len(t) = 0
      BY <1>2, EmptySeq
    <2>3. Len(t) > 0 => t[1] = s[2]
      BY <1>1, <1>2
    <2>. QED
      BY <1>1, <1>2, <2>1, <2>2, <2>3
  <1>8. stack_count_'[p] = Len(t)
    BY <1>2 DEF Lists
  <1>. QED
    BY <1>2, <1>4, <1>5, <1>6, <1>7, <1>8 DEF Lists, t

(* A node goes before the list.                                            *)
LEMMA ListPushes ==
  ASSUME NEW p \in Pools, NEW s \in Seq(Nodes), Lists(p, s),
         NEW n \in Nodes, n \notin Back(p),
         Back(p)' = Back(p) \cup {n}, stack_top_'[p] = n,
         stackNext'[n] = stack_top_[p],
         stack_count_'[p] = stack_count_[p] + 1,
         \A m \in Back(p) : stackNext'[m] = stackNext[m]
  PROVE  << n >> \o s \in Seq(Nodes) /\ Lists(p, << n >> \o s)'
PROOF
  <1>. DEFINE t == << n >> \o s
  <1>1. /\ t \in Seq(Nodes) /\ Len(s) \in Nat /\ Len(t) = Len(s) + 1 /\ t[1] = n
        /\ \A b \in 1..Len(s) : t[b + 1] = s[b]
        /\ \A b \in 1..Len(t) : b # 1 => b - 1 \in 1..Len(s) /\ t[b] = s[b - 1]
    OBVIOUS
  <1>. HIDE DEF t
  <1>2. /\ \A b, j \in 1..Len(s) : s[b] = s[j] => b = j
        /\ \A b \in 1..Len(s) : s[b] \in Back(p) /\ s[b] # n
    BY DEF Lists
  <1>3. \A b, j \in 1..Len(t) : t[b] = t[j] => b = j
    <2>1. SUFFICES ASSUME NEW b \in 1..Len(t), NEW j \in 1..Len(t), t[b] = t[j]
                   PROVE  b = j
      OBVIOUS
    <2>2. CASE b # 1 /\ j # 1
      <3>1. b - 1 = j - 1
        BY SMTT(60), <1>1, <1>2, <2>1, <2>2
      <3>. QED
        BY <1>1, <2>1, <3>1
    <2>3. CASE b = 1 \/ j = 1
      BY SMTT(60), <1>1, <1>2, <2>1, <2>3
    <2>. QED
      BY <2>2, <2>3
  <1>4. { t[b] : b \in 1..Len(t) } = Back(p)'
    <2>1. ASSUME NEW b \in 1..Len(t) PROVE t[b] \in Back(p)'
      BY SMTT(60), <1>1, <1>2
    <2>2. ASSUME NEW m \in Back(p)' PROVE \E b \in 1..Len(t) : t[b] = m
      <3>1. CASE m = n
        <4>1. 1 \in 1..Len(t)
          BY <1>1
        <4>. QED
          BY <1>1, <3>1, <4>1
      <3>2. CASE m \in Back(p)
        <4>1. PICK j \in 1..Len(s) : s[j] = m
          BY <3>2 DEF Lists
        <4>2. j + 1 \in 1..Len(t)
          BY <1>1
        <4>. QED
          BY <1>1, <4>1, <4>2
      <3>. QED
        BY <2>2, <3>1, <3>2
    <2>. QED
      BY <2>1, <2>2
  <1>5. \A b \in 1..Len(t) :
          stackNext'[t[b]] = IF b < Len(t) THEN t[b + 1] ELSE Null
    <2>1. SUFFICES ASSUME NEW b \in 1..Len(t)
                   PROVE  stackNext'[t[b]] = IF b < Len(t) THEN t[b + 1] ELSE Null
      OBVIOUS
    <2>2. CASE b = 1
      <3>1. s = << >> <=> Len(s) = 0
        BY EmptySeq
      <3>2. Len(s) > 0 => t[2] = s[1]
        BY <1>1
      <3>. QED
        BY <1>1, <2>2, <3>1, <3>2 DEF Lists
    <2>3. CASE b # 1
      <3>1. b - 1 \in 1..Len(s) /\ t[b] = s[b - 1] /\ s[b - 1] \in Back(p)
        BY <1>1, <1>2, <2>3
      <3>2. stackNext[s[b - 1]] = IF b - 1 < Len(s) THEN s[(b - 1) + 1] ELSE Null
        BY <3>1 DEF Lists
      <3>3. b < Len(t) => b \in 1..Len(s) /\ t[b + 1] = s[b]
        BY <1>1
      <3>. QED
        BY <1>1, <3>1, <3>2, <3>3
    <2>. QED
      BY <2>2, <2>3
  <1>6. stack_top_'[p] = IF t = << >> THEN Null ELSE t[1]
    BY <1>1
  <1>7. stack_count_'[p] = Len(t)
    BY <1>1 DEF Lists
  <1>. QED
    BY <1>1, <1>3, <1>4, <1>5, <1>6, <1>7 DEF Lists, t

PoolStacks == StacksListed /\ AllocsCounted

LEMMA PoolStacksInit == PoolInit => PoolStacks
PROOF
  <1>. SUFFICES ASSUME PoolInit PROVE PoolStacks
    OBVIOUS
  <1>1. \A p \in Pools : Back(p) = {} /\ Allocated(p) = {}
    BY PoolAssumption DEF PoolInit, Back, Allocated
  <1>2. ASSUME NEW p \in Pools PROVE << >> \in Seq(Nodes) /\ Lists(p, << >>)
    BY <1>1 DEF PoolInit, Lists
  <1>. QED
    BY <1>1, <1>2, FS_EmptySet
    DEF PoolInit, PoolStacks, StacksListed, AllocsCounted

LEMMA AllocatedFinite ==
  ASSUME NEW p
  PROVE  IsFiniteSet(Allocated(p)) /\ IsFiniteSet(Allocated(p)')
PROOF
  <1>1. Allocated(p) \in SUBSET Nodes /\ Allocated(p)' \in SUBSET Nodes
    BY DEF Allocated
  <1>. QED
    BY <1>1, NodesFinite, FS_Subset

LEMMA AllocNewStacks ==
  ASSUME PoolInv, PoolStacks, NEW p \in open, NEW n \in Nodes, AllocNew(p, n)
  PROVE  PoolStacks'
PROOF
  <1>. USE DEF PoolInv, PoolTypeOK
  <1>1. /\ open' = open /\ open \subseteq Pools
        /\ UNCHANGED << stack_top_, stack_count_ >>
        /\ id[n] = Null /\ id'[n] = p /\ out'[n] = p
        /\ alloc_count_' = [alloc_count_ EXCEPT ![p] = @ + 1]
        /\ \A m \in Nodes \ {n} : /\ id'[m] = id[m] /\ out'[m] = out[m]
                                  /\ stackNext'[m] = stackNext[m]
    BY DEF AllocNew, Given
  <1>2. \A q \in Pools : n \notin Back(q) /\ n \notin Back(q)'
    BY <1>1, PoolAssumption DEF Back
  <1>3. \A q \in Pools : Back(q)' = Back(q) /\ Back(q) \subseteq Nodes \ {n}
    BY <1>1, <1>2 DEF Back
  <1>4. StacksListed'
    <2>1. SUFFICES ASSUME NEW q \in open PROVE \E s \in Seq(Nodes) : Lists(q, s)'
      BY <1>1 DEF StacksListed
    <2>2. PICK s \in Seq(Nodes) : Lists(q, s)
      BY DEF PoolStacks, StacksListed
    <2>. QED
      BY <1>1, <1>3, <2>2, ListStays
  <1>5. ASSUME NEW q \in open PROVE alloc_count_'[q] = Cardinality(Allocated(q)')
    <2>1. CASE q = p
      <3>1. Allocated(p)' = Allocated(p) \cup {n} /\ n \notin Allocated(p)
        BY <1>1, PoolAssumption DEF Allocated
      <3>2. Cardinality(Allocated(p)') = Cardinality(Allocated(p)) + 1
        BY ZenonT(60), <3>1, AllocatedFinite, FS_AddElement
      <3>. QED
        BY <1>1, <2>1, <3>2 DEF PoolStacks, AllocsCounted
    <2>2. CASE q # p
      <3>1. Allocated(q)' = Allocated(q)
        BY <1>1, <2>2, PoolAssumption DEF Allocated
      <3>. QED
        BY <1>1, <2>2, <3>1 DEF PoolStacks, AllocsCounted
    <2>. QED
      BY <2>1, <2>2
  <1>. QED
    BY <1>1, <1>4, <1>5 DEF PoolStacks, AllocsCounted

LEMMA AllocUsedStacks ==
  ASSUME PoolInv, PoolStacks, NEW p \in open, AllocUsed(p)
  PROVE  PoolStacks'
PROOF
  <1>. DEFINE n == stack_top_[p]
  <1>. USE DEF PoolInv, PoolTypeOK
  <1>1. /\ n # Null /\ n \in OnStack(p) /\ n \in Nodes
        /\ id[n] = p /\ stackNext[n] # p /\ out[n] = Null
    BY DEF LinksStay, AllocUsed, OnStack, OutIsMarked
  <1>2. /\ open' = open /\ open \subseteq Pools
        /\ UNCHANGED << id, alloc_count_ >>
        /\ stack_top_'[p] = stackNext[n] /\ stack_count_'[p] = stack_count_[p] - 1
        /\ \A q \in Pools \ {p} : /\ stack_top_'[q] = stack_top_[q]
                                  /\ stack_count_'[q] = stack_count_[q]
        /\ out'[n] = p
        /\ \A m \in Nodes \ {n} : out'[m] = out[m] /\ stackNext'[m] = stackNext[m]
    BY <1>1 DEF AllocUsed, Given
  <1>. HIDE DEF n
  <1>3. Back(p)' = Back(p) \ {n} /\ Back(p) \subseteq Nodes
    BY <1>1, <1>2, PoolAssumption DEF Back
  <1>4. \A q \in Pools \ {p} : Back(q)' = Back(q) /\ Back(q) \subseteq Nodes \ {n}
    BY <1>1, <1>2 DEF Back
  <1>5. StacksListed'
    <2>1. SUFFICES ASSUME NEW q \in open PROVE \E s \in Seq(Nodes) : Lists(q, s)'
      BY <1>2 DEF StacksListed
    <2>2. PICK s \in Seq(Nodes) : Lists(q, s)
      BY DEF PoolStacks, StacksListed
    <2>3. CASE q = p
      <3>1. p \in Pools /\ n = stack_top_[p] /\ Lists(p, s)
        BY <1>2, <2>2, <2>3 DEF n
      <3>2. \A m \in Back(p) \ {n} : stackNext'[m] = stackNext[m]
        BY <1>2, <1>3
      <3>3. Tail(s) \in Seq(Nodes) /\ Lists(p, Tail(s))'
        BY ZenonT(60), <1>1, <1>2, <1>3, <3>1, <3>2, ListPops
      <3>. QED
        BY <2>3, <3>3
    <2>4. CASE q # p
      BY <1>2, <1>4, <2>2, <2>4, ListStays
    <2>. QED
      BY <2>3, <2>4
  <1>6. AllocsCounted'
    BY <1>2 DEF PoolStacks, AllocsCounted, Allocated
  <1>. QED
    BY <1>5, <1>6 DEF PoolStacks

LEMMA FreePushStacks ==
  ASSUME PoolInv, PoolStacks, NEW p \in open, NEW n \in Nodes, FreePush(p, n)
  PROVE  PoolStacks'
PROOF
  <1>. USE DEF PoolInv, PoolTypeOK
  <1>1. id[n] = p /\ stackNext[n] = p /\ out[n] # Null
    BY PoolAssumption DEF FreePush, Accepts, OutIsMarked
  <1>2. /\ open' = open /\ open \subseteq Pools
        /\ UNCHANGED << id, alloc_count_ >>
        /\ stack_top_'[p] = n /\ stack_count_'[p] = stack_count_[p] + 1
        /\ \A q \in Pools \ {p} : /\ stack_top_'[q] = stack_top_[q]
                                  /\ stack_count_'[q] = stack_count_[q]
        /\ out'[n] = Null /\ stackNext'[n] = stack_top_[p]
        /\ \A m \in Nodes \ {n} : out'[m] = out[m] /\ stackNext'[m] = stackNext[m]
    BY DEF FreePush
  <1>3. /\ Back(p)' = Back(p) \cup {n} /\ n \notin Back(p)
        /\ Back(p) \subseteq Nodes \ {n}
    BY <1>1, <1>2 DEF Back
  <1>4. \A q \in Pools \ {p} : Back(q)' = Back(q) /\ Back(q) \subseteq Nodes \ {n}
    BY <1>1, <1>2 DEF Back
  <1>5. StacksListed'
    <2>1. SUFFICES ASSUME NEW q \in open PROVE \E s \in Seq(Nodes) : Lists(q, s)'
      BY <1>2 DEF StacksListed
    <2>2. PICK s \in Seq(Nodes) : Lists(q, s)
      BY DEF PoolStacks, StacksListed
    <2>3. CASE q = p
      <3>1. Lists(q, << n >> \o s)' /\ << n >> \o s \in Seq(Nodes)
        BY ZenonT(60), <1>1, <1>2, <1>3, <2>2, <2>3, ListPushes
      <3>. QED
        BY <3>1
    <2>4. CASE q # p
      BY <1>2, <1>4, <2>2, <2>4, ListStays
    <2>. QED
      BY <2>3, <2>4
  <1>6. AllocsCounted'
    BY <1>2 DEF PoolStacks, AllocsCounted, Allocated
  <1>. QED
    BY <1>5, <1>6 DEF PoolStacks

(* What is deleted is of a pool that is not in use.                        *)
LEMMA DeleteTopStacks ==
  ASSUME PoolInv, PoolStacks, NEW p \in Pools \ open, DeleteTop(p)
  PROVE  PoolStacks'
PROOF
  <1>. DEFINE n == stack_top_[p]
  <1>. USE DEF PoolInv, PoolTypeOK
  <1>1. n # Null /\ n \in Nodes /\ id[n] = p
    BY DEF LinksStay, DeleteTop, OnStack
  <1>2. /\ open' = open /\ open \subseteq Pools
        /\ UNCHANGED << stack_count_, alloc_count_, out >>
        /\ \A q \in Pools \ {p} : stack_top_'[q] = stack_top_[q]
        /\ id'[n] = Null
        /\ \A m \in Nodes \ {n} : id'[m] = id[m] /\ stackNext'[m] = stackNext[m]
    BY <1>1 DEF DeleteTop
  <1>. HIDE DEF n
  <1>3. \A q \in Pools \ {p} : /\ Back(q)' = Back(q) /\ Back(q) \subseteq Nodes \ {n}
                              /\ Allocated(q)' = Allocated(q)
    BY <1>1, <1>2, PoolAssumption DEF Back, Allocated
  <1>4. StacksListed'
    <2>1. SUFFICES ASSUME NEW q \in open PROVE \E s \in Seq(Nodes) : Lists(q, s)'
      BY <1>2 DEF StacksListed
    <2>2. PICK s \in Seq(Nodes) : Lists(q, s)
      BY DEF PoolStacks, StacksListed
    <2>. QED
      BY <1>2, <1>3, <2>2, ListStays
  <1>5. AllocsCounted'
    BY <1>2, <1>3 DEF PoolStacks, AllocsCounted
  <1>. QED
    BY <1>4, <1>5 DEF PoolStacks

LEMMA PoolStacksStay ==
  ASSUME PoolStacks, open' \subseteq open,
         UNCHANGED << id, stackNext, stack_top_, stack_count_, alloc_count_, out >>
  PROVE  PoolStacks'
PROOF
  <1>1. \A p, s : Lists(p, s) => Lists(p, s)'
    BY DEF Lists, Back
  <1>. QED
    BY <1>1 DEF PoolStacks, StacksListed, AllocsCounted, Allocated

LEMMA PoolStacksNext ==
  PoolInv /\ PoolStacks /\ [PoolNext]_poolVars => PoolStacks'
PROOF
  <1>. SUFFICES ASSUME PoolInv, PoolStacks, [PoolNext]_poolVars PROVE PoolStacks'
    OBVIOUS
  <1>1. ASSUME NEW p, NEW n, FreeThrows(p, n) PROVE PoolStacks'
    BY <1>1, PoolStacksStay DEF FreeThrows
  <1>2. ASSUME NEW p, Destroy(p) PROVE PoolStacks'
    BY <1>2, PoolStacksStay DEF Destroy
  <1>3. CASE UNCHANGED poolVars
    BY <1>3, PoolStacksStay DEF poolVars
  <1>. QED
    BY <1>1, <1>2, <1>3, AllocNewStacks, AllocUsedStacks, FreePushStacks,
       DeleteTopStacks DEF PoolNext, Free

(* A list without repetition is as long as the set of its members.         *)
LEMMA ListLength ==
  ASSUME NEW p \in Pools, NEW s \in Seq(Nodes), Lists(p, s)
  PROVE  /\ Cardinality(Back(p)) = Len(s) /\ Len(s) \in Nat
         /\ Len(s) <= Cardinality(Nodes) /\ Cardinality(Nodes) \in Nat
PROOF
  <1>1. Len(s) \in Nat /\ s \in [1..Len(s) -> Nodes]
    OBVIOUS
  <1>2. s \in Bijection(1..Len(s), Back(p))
    BY <1>1 DEF Lists, Bijection, Injection, Surjection, IsInjective
  <1>3. IsFiniteSet(1..Len(s)) /\ Cardinality(1..Len(s)) = Len(s)
    BY SMTT(60), <1>1, FS_Interval
  <1>4. Cardinality(Back(p)) = Len(s)
    BY <1>2, <1>3, FS_Bijection DEF ExistsBijection
  <1>5. Back(p) \in SUBSET Nodes
    BY DEF Back
  <1>. QED
    BY <1>1, <1>4, <1>5, NodesFinite, FS_Subset, FS_CardinalityType

LEMMA StacksExact == PoolInv /\ PoolStacks => PoolExact
PROOF
  <1>. SUFFICES ASSUME PoolInv, PoolStacks PROVE PoolExact
    OBVIOUS
  <1>1. ASSUME NEW p \in open
        PROVE  LET held == { k \in DOMAIN FreeStack(p) : FreeStack(p)[k] # Null }
               IN /\ { FreeStack(p)[k] : k \in held } = Back(p)
                  /\ Cardinality(held) = Cardinality(Back(p))
                  /\ stack_count_[p] = Cardinality(Back(p))
                  /\ alloc_count_[p] = Cardinality({ n \in Nodes : id[n] = p })
    <2>. DEFINE stack == FreeStack(p)
                held == { k \in DOMAIN stack : stack[k] # Null }
    <2>1. p \in Pools
      BY DEF PoolInv, PoolTypeOK
    <2>2. PICK s \in Seq(Nodes) : Lists(p, s)
      BY DEF PoolStacks, StacksListed
    <2>3. /\ Cardinality(Back(p)) = Len(s) /\ Len(s) \in Nat
          /\ Len(s) <= Cardinality(Nodes) /\ Cardinality(Nodes) \in Nat
      BY <2>1, <2>2, ListLength
    <2>4. stack = [k \in 0..Cardinality(Nodes) |->
                     IF k < Len(s) THEN s[k + 1] ELSE Null]
      BY <2>1, <2>2, WalkIs
    <2>. HIDE DEF stack
    <2>5. \A b \in 1..Len(s) : s[b] # Null
      BY PoolAssumption
    <2>6. held = 0..(Len(s) - 1)
      BY <2>3, <2>4, <2>5
    <2>7. Cardinality(held) = Len(s)
      <3>1. 0 \in Int /\ Len(s) - 1 \in Int
        BY <2>3
      <3>2. Cardinality(0..(Len(s) - 1)) =
              IF 0 > Len(s) - 1 THEN 0 ELSE (Len(s) - 1) - 0 + 1
        BY <3>1, FS_Interval
      <3>. HIDE DEF held
      <3>. QED
        BY <2>3, <2>6, <3>2
    <2>8. { stack[k] : k \in held } = { s[b] : b \in 1..Len(s) }
      <3>1. ASSUME NEW k \in 0..(Len(s) - 1)
            PROVE  k + 1 \in 1..Len(s) /\ stack[k] = s[k + 1]
        BY <2>3, <2>4
      <3>2. ASSUME NEW b \in 1..Len(s)
            PROVE  b - 1 \in 0..(Len(s) - 1) /\ stack[b - 1] = s[b]
        BY <2>3, <2>4
      <3>. HIDE DEF held
      <3>. QED
        BY <2>6, <3>1, <3>2
    <2>9. /\ { s[b] : b \in 1..Len(s) } = Back(p)
          /\ stack_count_[p] = Len(s)
      BY <2>2 DEF Lists
    <2>10. alloc_count_[p] = Cardinality({ n \in Nodes : id[n] = p })
      BY DEF PoolStacks, AllocsCounted, Allocated
    <2>. QED
      BY <2>3, <2>7, <2>8, <2>9, <2>10 DEF stack
  <1>2. \A n \in Nodes : out[n] # Null => n \in live
    BY DEF PoolInv, Constructed
  <1>. QED
    BY <1>1, <1>2 DEF PoolExact

(* In a pool that is in use no node is lost and none is twice on the free  *)
(* stack: following StackNext from stack_top_ one meets exactly the nodes  *)
(* it has back, and its counts are right, for any number of nodes.         *)
THEOREM PoolStackExact == PoolSpec => []PoolExact
PROOF
  BY PoolInvInit, PoolInvNext, PoolStacksInit, PoolStacksNext, StacksExact, PTL
  DEF PoolSpec

-----------------------------------------------------------------------------
(* PacketBuffer. *)

LEMMA Concatenated ==
  ASSUME NEW S, NEW s \in Seq(S), NEW t \in Seq(S)
  PROVE  s \o t = [b \in 1..(Len(s) + Len(t)) |->
                     IF b <= Len(s) THEN s[b] ELSE t[b - Len(s)]]
PROOF
  <1>. DEFINE c == s \o t  n == Len(s) + Len(t)
  <1>1. /\ c \in Seq(S) /\ Len(c) = n
        /\ \A b \in 1..n : c[b] = IF b <= Len(s) THEN s[b] ELSE t[b - Len(s)]
    BY ConcatProperties
  <1>. HIDE DEF c, n
  <1>2. c \in [1..n -> S]
    BY <1>1, LenProperties
  <1>3. c = [b \in 1..n |-> c[b]]
    BY <1>2
  <1>. QED
    BY <1>1, <1>3 DEF c, n

LEMMA DataIsShort ==
  ASSUME NEW data \in PacketData
  PROVE  data \in Seq(Octets) /\ Len(data) \in 0..MaxSize
PROOF
  BY PacketAssumption DEF PacketData

(* What a packet holds, under the type invariant.                          *)
LEMMA UnreadIs ==
  ASSUME PacketTypeOK, NEW p \in Packets
  PROVE  /\ Unread(p) \in Seq(Octets) /\ Len(Unread(p)) = data_size_[p]
         /\ \A b \in 1..data_size_[p] :
              /\ readpos_[p] + b - 1 \in PacketCells
              /\ Unread(p)[b] = buffer_[p][readpos_[p] + b - 1]
PROOF
  <1>1. /\ data_size_[p] \in Nat /\ readpos_[p] \in Nat
        /\ readpos_[p] + data_size_[p] <= MaxSize /\ MaxSize \in Nat
    BY PacketAssumption DEF PacketTypeOK
  <1>2. ASSUME NEW b \in 1..data_size_[p] PROVE readpos_[p] + b - 1 \in PacketCells
    BY <1>1 DEF PacketCells
  <1>3. ASSUME NEW b \in 1..data_size_[p]
        PROVE  buffer_[p][readpos_[p] + b - 1] \in Octets
    BY <1>2 DEF PacketTypeOK
  <1>. QED
    BY <1>1, <1>2, <1>3 DEF Unread

(* The numbers of one packet.                                              *)
LEMMA Positions ==
  ASSUME PacketTypeOK, NEW p \in Packets
  PROVE  /\ MaxSize \in Nat /\ buffer_size_[p] \in Sizes
         /\ buffer_size_[p] \in Nat /\ buffer_size_[p] <= MaxSize
         /\ data_size_[p] \in Nat /\ readpos_[p] \in Nat /\ writepos_[p] \in Nat
         /\ writepos_[p] = readpos_[p] + data_size_[p] /\ writepos_[p] <= MaxSize
PROOF
  <1>1. MaxSize \in Nat /\ buffer_size_[p] \in Sizes /\ Sizes \subseteq 1..MaxSize
    BY PacketAssumption DEF PacketTypeOK
  <1>2. /\ data_size_[p] \in 0..MaxSize /\ readpos_[p] \in 0..MaxSize
        /\ writepos_[p] \in 0..MaxSize
        /\ data_size_[p] = writepos_[p] - readpos_[p]
    BY DEF PacketTypeOK
  <1>3. buffer_size_[p] \in 1..MaxSize
    BY <1>1
  <1>4. /\ writepos_[p] = readpos_[p] + data_size_[p]
        /\ writepos_[p] <= MaxSize
    BY <1>1, <1>2
  <1>5. /\ data_size_[p] \in Nat /\ readpos_[p] \in Nat /\ writepos_[p] \in Nat
    BY <1>1, <1>2
  <1>. QED
    BY <1>1, <1>3, <1>4, <1>5

-----------------------------------------------------------------------------
(* The type invariant. *)

LEMMA PacketTypeInit == PacketInit => PacketTypeOK
PROOF
  <1>1. 0 \in 0..MaxSize /\ 0 = 0 - 0 /\ "NONE" \in Errors
    BY PacketAssumption DEF Errors
  <1>. QED
    BY <1>1 DEF PacketInit, PacketTypeOK

LEMMA WrittenType ==
  ASSUME PacketTypeOK, NEW p \in Packets, NEW at \in Nat, NEW data \in PacketData
  PROVE  Written(p, at, data) \in [PacketCells -> Octets]
PROOF
  <1>1. ASSUME NEW k \in PacketCells, at <= k, k < at + Len(data)
        PROVE  data[k - at + 1] \in Octets
    BY <1>1, DataIsShort DEF PacketCells
  <1>. QED
    BY <1>1 DEF Written, PacketTypeOK

LEMMA PutType ==
  ASSUME PacketTypeOK, NEW p \in Packets, NEW data \in PacketData,
         PutWhole(p, data)
  PROVE  PacketTypeOK'
PROOF
  <1>1. /\ writepos_[p] \in Nat /\ buffer_size_[p] \in Nat
        /\ buffer_size_[p] <= MaxSize /\ readpos_[p] \in Nat
        /\ readpos_[p] <= writepos_[p] /\ MaxSize \in Nat /\ Len(data) \in Nat
    BY Positions, DataIsShort
  <1>2. writepos_[p] + Len(data) <= MaxSize
    BY <1>1 DEF PutWhole, RoomFor
  <1>3. Written(p, writepos_[p], data) \in [PacketCells -> Octets]
    BY <1>1, WrittenType
  <1>. QED
    BY SMTT(60), <1>1, <1>2, <1>3 DEF PacketTypeOK, PutWhole, MoveWritePos

LEMMA TakeType ==
  ASSUME PacketTypeOK, NEW p \in Packets, NEW n \in 0..MaxSize, TakeWhole(p, n)
  PROVE  PacketTypeOK'
PROOF
  <1>1. MaxSize \in Nat
    BY PacketAssumption
  <1>. QED
    BY SMTT(60), <1>1 DEF PacketTypeOK, TakeWhole, MoveReadPos

LEMMA CopyType ==
  ASSUME PacketTypeOK, NEW p \in Packets, NEW q \in Packets, NEW c \in Sizes,
         NEW old \in [PacketCells -> Octets], CopyFrom(p, q, old),
         buffer_size_' = [buffer_size_ EXCEPT ![p] = c]
  PROVE  PacketTypeOK'
PROOF
  BY DEF PacketTypeOK, CopyFrom

LEMMA EmptyType ==
  ASSUME PacketTypeOK, NEW p \in Packets, NEW c \in Sizes, Emptied(p),
         buffer_size_' = [buffer_size_ EXCEPT ![p] = c],
         buffer_' \in [Packets -> [PacketCells -> Octets]]
  PROVE  PacketTypeOK'
PROOF
  <1>1. 0 \in 0..MaxSize /\ 0 = 0 - 0 /\ "NONE" \in Errors
    BY PacketAssumption DEF Errors
  <1>2. buffer_size_' \in [Packets -> Sizes]
    BY DEF PacketTypeOK
  <1>3. /\ data_size_' \in [Packets -> 0..MaxSize]
        /\ readpos_' \in [Packets -> 0..MaxSize]
        /\ writepos_' \in [Packets -> 0..MaxSize]
        /\ last_error_' \in [Packets -> Errors]
    BY <1>1 DEF PacketTypeOK, Emptied
  <1>4. \A q \in Packets : data_size_'[q] = writepos_'[q] - readpos_'[q]
    BY <1>1 DEF PacketTypeOK, Emptied
  <1>. QED
    BY <1>2, <1>3, <1>4 DEF PacketTypeOK

(* Receive, on a packet that is new, is a put.                             *)
LEMMA ReceivePuts ==
  ASSUME NEW p, NEW data, Receive(p, data)
  PROVE  PutWhole(p, data)
PROOF
  BY DEF Receive, PutWhole

(* Calls that leave a size as it is.                                       *)
LEMMA SizeStays ==
  ASSUME PacketTypeOK, NEW p \in Packets, UNCHANGED buffer_size_
  PROVE  /\ buffer_size_' = [buffer_size_ EXCEPT ![p] = buffer_size_[p]]
         /\ buffer_size_[p] \in Sizes
PROOF
  BY DEF PacketTypeOK

LEMMA PacketTypeNext == PacketTypeOK /\ [PacketNext]_packetVars => PacketTypeOK'
PROOF
  <1>. SUFFICES ASSUME PacketTypeOK, [PacketNext]_packetVars PROVE PacketTypeOK'
    OBVIOUS
  <1>1. ASSUME NEW p \in Packets, NEW e \in Errors, NEW n, Fail(p, e, n)
        PROVE  PacketTypeOK'
    BY <1>1 DEF Fail, PacketTypeOK
  <1>0. /\ {"BUFFER_FULL", "BUFFER_EMPTY", "COPY_INSTANCE_FAIL"} \subseteq Errors
        /\ \A p \in Packets : last_error_[p] \in Errors
    BY DEF Errors, PacketTypeOK
  <1>2. ASSUME NEW p \in Packets, NEW data \in PacketData,
               PutData(p, data) \/ PutValue(p, data) \/ Receive(p, data)
        PROVE  PacketTypeOK'
    BY <1>1, <1>2, <1>0, PutType, ReceivePuts DEF PutData, PutValue
  <1>3. ASSUME NEW p \in Packets, NEW n \in 0..MaxSize,
               GetData(p, n) \/ GetValue(p, n)
        PROVE  PacketTypeOK'
    BY <1>1, <1>3, <1>0, TakeType DEF GetData, GetValue
  <1>4. ASSUME NEW p \in Packets, Send(p) PROVE PacketTypeOK'
    BY <1>4 DEF Send, PacketTypeOK
  <1>5. ASSUME NEW p \in Packets, Clear(p) PROVE PacketTypeOK'
    <2>1. buffer_' \in [Packets -> [PacketCells -> Octets]]
      BY <1>5 DEF Clear, PacketTypeOK
    <2>. QED
      BY <1>5, <2>1, SizeStays, EmptyType DEF Clear
  <1>6. ASSUME NEW p \in Packets, NEW s \in Sizes,
               NEW garbage \in [PacketCells -> Octets], Construct(p, s, garbage)
        PROVE  PacketTypeOK'
    <2>1. buffer_' \in [Packets -> [PacketCells -> Octets]]
      BY <1>6 DEF Construct, PacketTypeOK
    <2>. QED
      BY <1>6, <2>1, EmptyType DEF Construct
  <1>7. ASSUME NEW p \in Packets, NEW q \in Packets,
               NEW garbage \in [PacketCells -> Octets], CopyConstruct(p, q, garbage)
        PROVE  PacketTypeOK'
    <2>1. buffer_size_[q] \in Sizes
      BY DEF PacketTypeOK
    <2>. QED
      BY <1>7, <2>1, CopyType DEF CopyConstruct
  <1>8. ASSUME NEW p \in Packets, NEW q \in Packets, Assign(p, q)
        PROVE  PacketTypeOK'
    <2>1. buffer_[p] \in [PacketCells -> Octets]
      BY DEF PacketTypeOK
    <2>. QED
      BY <1>1, <1>8, <1>0, <2>1, SizeStays, CopyType DEF Assign
  <1>9. CASE UNCHANGED packetVars
    BY <1>9 DEF packetVars, PacketTypeOK
  <1>. QED
    BY <1>2, <1>3, <1>4, <1>5, <1>6, <1>7, <1>8, <1>9 DEF PacketNext

(* The positions stay within the size of the largest packet, and DataSize  *)
(* is always their distance.                                               *)
THEOREM PacketTypes == PacketSpec => []PacketTypeOK
PROOF
  BY PacketTypeInit, PacketTypeNext, PTL DEF PacketSpec

-----------------------------------------------------------------------------
(* The refinement. *)

(* A packet whose part of the variables stays keeps its stream.            *)
LEMMA UnreadStays ==
  ASSUME PacketTypeOK, NEW q \in Packets, buffer_'[q] = buffer_[q],
         data_size_'[q] = data_size_[q], readpos_'[q] = readpos_[q]
  PROVE  Unread(q)' = Unread(q)
PROOF
  BY DEF Unread

(* The stream of one packet changes.                                       *)
LEMMA FilledIs ==
  ASSUME PacketTypeOK, NEW p \in Packets, NEW t, NEW e,
         \A q \in Packets \ {p} :
           /\ buffer_'[q] = buffer_[q] /\ data_size_'[q] = data_size_[q]
           /\ readpos_'[q] = readpos_[q],
         readpos_' = [readpos_ EXCEPT ![p] = t],
         last_error_' = [last_error_ EXCEPT ![p] = e]
  PROVE  Streams!Filled(p, Unread(p)', t, e)
PROOF
  <1>1. \A q \in Packets \ {p} : Unread(q)' = Unread(q)
    BY UnreadStays
  <1>2. [q \in Packets |-> Unread(q)]'
          = [[q \in Packets |-> Unread(q)] EXCEPT ![p] = Unread(p)']
    BY <1>1
  <1>. QED
    BY <1>2 DEF Streams!Filled

LEMMA PutIs ==
  ASSUME PacketTypeOK, NEW p \in Packets, NEW data \in PacketData,
         PutWhole(p, data)
  PROVE  Streams!Put(p)
PROOF
  <1>. DEFINE n == Len(data)  u == data_size_[p]  r == readpos_[p]  w == writepos_[p]
  <1>1. /\ n \in Nat /\ u \in Nat /\ r \in Nat /\ w \in Nat /\ w = r + u
        /\ data \in Seq(Octets) /\ MaxSize \in Nat
    BY Positions, DataIsShort
  <1>2. w + n <= buffer_size_[p] /\ buffer_size_[p] <= MaxSize
        /\ buffer_size_[p] \in Nat
    BY <1>1, Positions DEF PutWhole, RoomFor
  <1>3. /\ data_size_'[p] = u + n /\ readpos_'[p] = r
        /\ buffer_'[p] = Written(p, w, data)
    BY DEF PacketTypeOK, PutWhole, MoveWritePos
  <1>4. Unread(p)' = [b \in 1..(u + n) |-> Written(p, w, data)[r + b - 1]]
    BY <1>3 DEF Unread
  <1>5. ASSUME NEW b \in 1..(u + n)
        PROVE  Written(p, w, data)[r + b - 1]
                 = IF b <= u THEN Unread(p)[b] ELSE data[b - u]
    <2>1. r + b - 1 \in PacketCells
      BY SMTT(60), <1>1, <1>2 DEF PacketCells
    <2>2. CASE b <= u
      <3>1. ~(w <= r + b - 1)
        BY <1>1, <2>2
      <3>. QED
        BY SMTT(60), <1>1, <2>1, <2>2, <3>1, UnreadIs DEF Written
    <2>3. CASE ~(b <= u)
      <3>1. w <= r + b - 1 /\ r + b - 1 < w + n /\ (r + b - 1) - w + 1 = b - u
        BY SMTT(60), <1>1, <2>3
      <3>. QED
        BY <2>1, <2>3, <3>1 DEF Written
    <2>. QED
      BY <2>2, <2>3
  <1>6. Unread(p) \o data
          = [b \in 1..(u + n) |-> IF b <= u THEN Unread(p)[b] ELSE data[b - u]]
    <2>1. Unread(p) \in Seq(Octets) /\ Len(Unread(p)) = u
      BY UnreadIs
    <2>2. Unread(p) \o data = [b \in 1..(Len(Unread(p)) + Len(data)) |->
             IF b <= Len(Unread(p)) THEN Unread(p)[b] ELSE data[b - Len(Unread(p))]]
      BY <1>1, <2>1, Concatenated
    <2>. QED
      BY <2>1, <2>2
  <1>7. Unread(p)' = Unread(p) \o data
    BY <1>4, <1>5, <1>6
  <1>8. Streams!Filled(p, Unread(p)', r, last_error_[p])
    <2>1. \A q \in Packets \ {p} :
            /\ buffer_'[q] = buffer_[q] /\ data_size_'[q] = data_size_[q]
            /\ readpos_'[q] = readpos_[q]
      BY DEF PacketTypeOK, PutWhole, MoveWritePos
    <2>2. readpos_' = [readpos_ EXCEPT ![p] = r]
      BY DEF PacketTypeOK, PutWhole
    <2>3. last_error_' = [last_error_ EXCEPT ![p] = last_error_[p]]
      BY DEF PacketTypeOK, PutWhole
    <2>. QED
      BY <2>1, <2>2, <2>3, FilledIs
  <1>9. Streams!Fits(p, n)
    BY <1>1, <1>2, UnreadIs DEF Streams!Fits
  <1>. QED
    BY <1>1, <1>7, <1>8, <1>9 DEF PutWhole, Streams!Put

LEMMA TakeIs ==
  ASSUME PacketTypeOK, NEW p \in Packets, NEW n \in 0..MaxSize,
         TakeWhole(p, n)
  PROVE  \E k \in 0..Len(Unread(p)) : Streams!Take(p, k)
PROOF
  <1>. DEFINE u == data_size_[p]  r == readpos_[p]
  <1>1. n \in Nat /\ u \in Nat /\ r \in Nat /\ n <= u
    BY Positions DEF TakeWhole
  <1>2. /\ data_size_'[p] = u - n /\ readpos_'[p] = r + n
        /\ buffer_' = buffer_
    BY DEF PacketTypeOK, TakeWhole, MoveReadPos
  <1>3. Unread(p) \in Seq(Octets) /\ Len(Unread(p)) = u
    BY UnreadIs
  <1>4. Unread(p)' = SubSeq(Unread(p), n + 1, Len(Unread(p)))
    <2>1. Unread(p)' = [b \in 1..(u - n) |-> buffer_[p][r + n + b - 1]]
      BY <1>2 DEF Unread
    <2>2. SubSeq(Unread(p), n + 1, Len(Unread(p)))
            = [b \in 1..(u - n) |-> Unread(p)[n + b]]
      <3>1. Len(Unread(p)) - (n + 1) + 1 = u - n
        BY <1>1, <1>3
      <3>2. \A b \in 1..(u - n) : b + (n + 1) - 1 = n + b
        BY <1>1
      <3>. HIDE DEF u
      <3>. QED
        BY <1>1, <1>3, <3>1, <3>2, SMTT(60)
    <2>3. ASSUME NEW b \in 1..(u - n)
          PROVE  buffer_[p][r + n + b - 1] = Unread(p)[n + b]
      <3>1. n + b \in 1..u /\ r + (n + b) - 1 = r + n + b - 1
        BY <1>1
      <3>. QED
        BY <3>1, UnreadIs
    <2>. QED
      BY <2>1, <2>2, <2>3
  <1>5. Streams!Filled(p, Unread(p)', r + n, last_error_[p])
    <2>1. \A q \in Packets \ {p} :
            /\ buffer_'[q] = buffer_[q] /\ data_size_'[q] = data_size_[q]
            /\ readpos_'[q] = readpos_[q]
      BY DEF PacketTypeOK, TakeWhole, MoveReadPos
    <2>2. readpos_' = [readpos_ EXCEPT ![p] = r + n]
      BY DEF TakeWhole, MoveReadPos
    <2>3. last_error_' = [last_error_ EXCEPT ![p] = last_error_[p]]
      BY DEF PacketTypeOK, TakeWhole
    <2>. QED
      BY <2>1, <2>2, <2>3, FilledIs
  <1>6. Streams!Take(p, n)
    BY <1>1, <1>3, <1>4, <1>5 DEF TakeWhole, Streams!Take
  <1>. QED
    BY <1>1, <1>3, <1>6

LEMMA RefuseIs ==
  ASSUME PacketTypeOK, NEW p \in Packets, NEW e, NEW n \in Nat, Fail(p, e, n)
  PROVE  Streams!Refuse(p, e) /\ request' = n
PROOF
  <1>1. \A q \in Packets : Unread(q)' = Unread(q)
    BY DEF Fail, Unread
  <1>2. readpos_' = [readpos_ EXCEPT ![p] = readpos_[p]]
    BY DEF PacketTypeOK, Fail
  <1>3. Streams!Filled(p, Unread(p)', readpos_[p], e)
    BY <1>2, FilledIs DEF Fail
  <1>. QED
    BY <1>1, <1>3 DEF Fail, Streams!Refuse

LEMMA LookIs ==
  ASSUME PacketTypeOK, NEW p \in Packets, Send(p)
  PROVE  Streams!Look(p)
PROOF
  <1>1. \A q \in Packets : Unread(q)' = Unread(q)
    BY DEF Send, Unread
  <1>2. value' = Unread(p)
    <2>1. \A b \in 1..data_size_[p] : readpos_[p] + b - 1 = b - 1
      BY Positions DEF Send
    <2>. QED
      BY <2>1 DEF Send, Unread
  <1>. QED
    BY <1>1, <1>2, UnreadIs DEF Send, Streams!Look

LEMMA ResetIs ==
  ASSUME PacketTypeOK, NEW p \in Packets, NEW c, Emptied(p),
         buffer_size_' = [buffer_size_ EXCEPT ![p] = c],
         \A q \in Packets \ {p} : buffer_'[q] = buffer_[q]
  PROVE  Streams!Reset(p, c)
PROOF
  <1>1. Unread(p)' = << >>
    BY DEF PacketTypeOK, Emptied, Unread
  <1>2. Streams!Filled(p, Unread(p)', 0, "NONE")
    <2>1. \A q \in Packets \ {p} :
            data_size_'[q] = data_size_[q] /\ readpos_'[q] = readpos_[q]
      BY DEF PacketTypeOK, Emptied
    <2>. QED
      BY <2>1, FilledIs DEF Emptied
  <1>. QED
    BY <1>1, <1>2 DEF Emptied, Streams!Reset

LEMMA CopyIs ==
  ASSUME PacketTypeOK, NEW p \in Packets, NEW q \in Packets, NEW c \in Sizes,
         NEW old \in [PacketCells -> Octets], CopyFrom(p, q, old),
         buffer_size_' = [buffer_size_ EXCEPT ![p] = c]
  PROVE  Streams!Copy(p, q, c)
PROOF
  <1>1. PacketTypeOK'
    BY CopyType
  <1>2. /\ data_size_'[p] = data_size_[q] /\ readpos_'[p] = readpos_[q]
        /\ buffer_'[p] = [k \in PacketCells |->
              IF k < data_size_[q] THEN buffer_[q][k] ELSE old[k]]
    BY DEF PacketTypeOK, CopyFrom
  <1>3. /\ Unread(p)' \in Seq(Octets) /\ Len(Unread(p)') = data_size_[q]
        /\ Unread(q) \in Seq(Octets) /\ Len(Unread(q)) = data_size_[q]
    <2>1. Unread(p)' \in Seq(Octets) /\ Len(Unread(p)') = data_size_'[p]
      <3>1. /\ data_size_'[p] \in Nat /\ readpos_'[p] \in Nat /\ MaxSize \in Nat
            /\ readpos_'[p] + data_size_'[p] <= MaxSize
        BY <1>2, Positions
      <3>2. ASSUME NEW b \in 1..data_size_'[p]
            PROVE  buffer_'[p][readpos_'[p] + b - 1] \in Octets
        <4>1. readpos_'[p] + b - 1 \in PacketCells
          BY <3>1 DEF PacketCells
        <4>2. buffer_'[p] \in [PacketCells -> Octets]
          BY <1>1 DEF PacketTypeOK
        <4>. QED
          BY <4>1, <4>2
      <3>. QED
        BY SMTT(60), <3>1, <3>2 DEF Unread
    <2>. QED
      BY <1>2, <2>1, UnreadIs
  <1>4. ASSUME NEW b \in 1..data_size_[q], b + readpos_[q] <= data_size_[q]
        PROVE  Unread(p)'[b] = Unread(q)[b]
    <2>1. /\ readpos_[q] \in Nat /\ data_size_[q] \in Nat
          /\ data_size_[q] <= MaxSize /\ MaxSize \in Nat
      BY Positions
    <2>2. /\ readpos_[q] + b - 1 < data_size_[q]
          /\ readpos_[q] + b - 1 \in PacketCells
      BY <1>4, <2>1 DEF PacketCells
    <2>3. buffer_'[p][readpos_'[p] + b - 1] = buffer_[q][readpos_[q] + b - 1]
      BY <1>2, <2>2
    <2>. QED
      BY <1>2, <2>3 DEF Unread
  <1>5. Streams!Filled(p, Unread(p)', readpos_[q], last_error_[q])
    <2>1. \A k \in Packets \ {p} :
            /\ buffer_'[k] = buffer_[k] /\ data_size_'[k] = data_size_[k]
            /\ readpos_'[k] = readpos_[k]
      BY DEF PacketTypeOK, CopyFrom
    <2>. QED
      BY <2>1, FilledIs DEF CopyFrom
  <1>. QED
    BY <1>3, <1>4, <1>5 DEF CopyFrom, Streams!Copy

LEMMA StreamSteps ==
  PacketTypeOK /\ [PacketNext]_packetVars => [Streams!StreamNext]_(Streams!streamVars)
PROOF
  <1>. SUFFICES ASSUME PacketTypeOK, [PacketNext]_packetVars
                PROVE  Streams!StreamNext \/ UNCHANGED Streams!streamVars
    OBVIOUS
  <1>1. ASSUME NEW p \in Packets, NEW data \in PacketData,
               PutData(p, data) \/ PutValue(p, data) \/ Receive(p, data)
        PROVE  \/ Streams!Put(p)
               \/ Streams!Refuse(p, "BUFFER_FULL") /\ ~Streams!Fits(p, request')
    <2>1. CASE PutWhole(p, data)
      BY <2>1, PutIs
    <2>2. CASE ~RoomFor(p, Len(data)) /\ Fail(p, "BUFFER_FULL", Len(data))
      <3>1. Len(data) \in Nat
        BY DataIsShort
      <3>2. Streams!Refuse(p, "BUFFER_FULL") /\ request' = Len(data)
        BY <2>2, <3>1, RefuseIs
      <3>3. ~Streams!Fits(p, Len(data))
        BY <2>2, <3>1, Positions, UnreadIs DEF RoomFor, Streams!Fits
      <3>. QED
        BY <3>2, <3>3
    <2>3. CASE Receive(p, data)
      BY <2>1, <2>3, ReceivePuts
    <2>. QED
      BY <1>1, <2>1, <2>2, <2>3 DEF PutData, PutValue
  <1>2. ASSUME NEW p \in Packets, NEW n \in 0..MaxSize,
               GetData(p, n) \/ GetValue(p, n)
        PROVE  \/ \E k \in 0..Len(Unread(p)) : Streams!Take(p, k)
               \/ /\ \/ Streams!Refuse(p, "BUFFER_EMPTY")
                     \/ Streams!Refuse(p, last_error_[p])
                  /\ request' > Len(Unread(p))
    <2>1. CASE TakeWhole(p, n)
      BY <2>1, TakeIs
    <2>2. ASSUME n > data_size_[p], NEW e, Fail(p, e, n)
          PROVE  Streams!Refuse(p, e) /\ request' > Len(Unread(p))
      <3>1. n \in Nat
        BY Positions
      <3>. QED
        BY <2>2, <3>1, RefuseIs, UnreadIs
    <2>. QED
      BY <1>2, <2>1, <2>2 DEF GetData, GetValue
  <1>3. ASSUME NEW p \in Packets, Send(p) PROVE Streams!Look(p)
    BY <1>3, LookIs
  <1>4. ASSUME NEW p \in Packets, Clear(p)
        PROVE  \E c \in Sizes : Streams!Reset(p, c)
    BY <1>4, SizeStays, ResetIs DEF Clear
  <1>5. ASSUME NEW p \in Packets, NEW s \in Sizes,
               NEW garbage \in [PacketCells -> Octets], Construct(p, s, garbage)
        PROVE  Streams!Reset(p, s)
    <2>1. \A q \in Packets \ {p} : buffer_'[q] = buffer_[q]
      BY <1>5 DEF Construct, PacketTypeOK
    <2>. QED
      BY <1>5, <2>1, ResetIs DEF Construct
  <1>6. ASSUME NEW p \in Packets, NEW q \in Packets,
               NEW garbage \in [PacketCells -> Octets], CopyConstruct(p, q, garbage)
        PROVE  Streams!Copy(p, q, buffer_size_[q])
    <2>1. buffer_size_[q] \in Sizes
      BY DEF PacketTypeOK
    <2>. QED
      BY <1>6, <2>1, CopyIs DEF CopyConstruct
  <1>7. ASSUME NEW p \in Packets, NEW q \in Packets, Assign(p, q)
        PROVE  \/ /\ Len(Unread(q)) > buffer_size_[p]
                  /\ Streams!Refuse(p, "COPY_INSTANCE_FAIL")
               \/ /\ Len(Unread(q)) <= buffer_size_[p]
                  /\ Streams!Copy(p, q, buffer_size_[p])
    <2>1. /\ Len(Unread(q)) = data_size_[q] /\ data_size_[q] \in Nat
          /\ buffer_size_[p] \in Nat
      BY UnreadIs, Positions
    <2>2. CASE buffer_size_[p] < data_size_[q] /\ Fail(p, "COPY_INSTANCE_FAIL", 0)
      BY <2>1, <2>2, RefuseIs
    <2>3. CASE /\ buffer_size_[p] >= data_size_[q]
               /\ CopyFrom(p, q, buffer_[p])
               /\ UNCHANGED buffer_size_
      <3>1. buffer_[p] \in [PacketCells -> Octets]
        BY DEF PacketTypeOK
      <3>. QED
        BY <2>1, <2>3, <3>1, SizeStays, CopyIs
    <2>. QED
      BY <1>7, <2>2, <2>3 DEF Assign
  <1>8. CASE UNCHANGED packetVars
    BY <1>8 DEF packetVars, Streams!streamVars, Unread
  <1>. QED
    BY <1>1, <1>2, <1>3, <1>4, <1>5, <1>6, <1>7, <1>8 DEF PacketNext, Streams!StreamNext

LEMMA StreamStarts == PacketInit => Streams!StreamInit
PROOF
  <1>. SUFFICES ASSUME PacketInit PROVE Streams!StreamInit
    OBVIOUS
  <1>1. ASSUME NEW p \in Packets PROVE Unread(p) = << >>
    <2>1. data_size_[p] = 0
      BY DEF PacketInit
    <2>2. 1..0 = {}
      OBVIOUS
    <2>. QED
      BY <2>1, <2>2 DEF Unread
  <1>. QED
    BY <1>1 DEF PacketInit, Streams!StreamInit

(* Values leave a packet in the order they entered it, whole or not at     *)
(* all, and a copy of a packet that was not read is faithful.              *)
THEOREM PacketIsStream == PacketSpec => ImplementsStream
PROOF
  BY PacketTypes, StreamStarts, StreamSteps, PTL
  DEF PacketSpec, ImplementsStream, Streams!StreamSpec

-----------------------------------------------------------------------------
(* RingBufferLocked, with one thread at each end: the ring stays a queue   *)
(* although each looks at the indices without the lock, for every size of  *)
(* the buffer, of the calls and of the stream of bytes.  (With two threads *)
(* at one end it does not.)                                                *)


Cells == 0..(size - 1)

(* How many bytes lie between two indices, and in the ring.                *)
Between(f, r) == IF r >= f THEN r - f ELSE size - f + r
Queued == Between(front, rear)

(* Where the k-th byte from an index is.                                   *)
Cell(f, k) == IF f + k - 1 < size THEN f + k - 1 ELSE f + k - 1 - size

(* How many bytes have left the ring.                                      *)
Left == Len(got) - BeingRead

-----------------------------------------------------------------------------
(* The inductive invariant. *)

LockedTypeOK ==
  /\ front \in Cells /\ rear \in Cells
  /\ buffer \in [Cells -> Nat]
  /\ srwlock \in Callers \cup {NoThread}
  /\ pc \in [Callers -> {"idle", "size", "lock", "copy", "move"}]
  /\ iSize \in [Callers -> Int] /\ i \in [Callers -> Nat]
  /\ seen \in [Callers -> Cells \X Cells]
  /\ put \in Seq(Nat) /\ got \in Seq(Nat)

LockHeld == \A t \in Callers : pc[t] \in {"copy", "move"} <=> srwlock = t

(* The bytes are numbered in the order of their calls, everywhere.         *)
Numbered ==
  /\ \A k \in 1..Len(put) : put[k] = k
  /\ \A k \in 1..Len(got) : got[k] = k
  /\ \A k \in 1..Queued : buffer[Cell(front, k)] = Left + k
  /\ Left \in Nat /\ Len(put) = Left + Queued

(* What a producer saw can only have shrunk: only it moves the rear.  So a *)
(* call that fitted still fits when it gets the lock.                      *)
StillFree ==
  \A t \in Producers :
    /\ pc[t] = "size" => /\ iSize[t] > 0
                         /\ seen[t][2] = rear
                         /\ Queued <= Between(seen[t][1], rear)
    /\ pc[t] \in {"lock", "copy", "move"} =>
         iSize[t] - i[t] <= BufferSize - Queued
    /\ pc[t] = "move" => i[t] < iSize[t] /\ buffer[rear] = Len(put) + 1

(* What a consumer saw can only have grown: only it moves the front.       *)
StillUsed ==
  \A t \in Consumers :
    /\ pc[t] = "size" => /\ seen[t][1] = front
                         /\ Between(front, seen[t][2]) <= Queued
    /\ pc[t] \in {"lock", "copy", "move"} => iSize[t] - i[t] <= Queued
    /\ pc[t] = "move" => i[t] < iSize[t]

LockedInv == LockedTypeOK /\ LockHeld /\ Numbered /\ StillFree /\ StillUsed

-----------------------------------------------------------------------------
(* Arithmetic of indices. *)

LEMMA SizeType == size \in Nat /\ size > 1 /\ BufferSize = size - 1
PROOF
  BY BoundsAssumption DEF size

LEMMA BetweenType ==
  ASSUME NEW f \in Cells, NEW r \in Cells
  PROVE  Between(f, r) \in 0..BufferSize
PROOF
  BY SizeType DEF Cells, Between

LEMMA CellType ==
  ASSUME NEW f \in Cells, NEW k \in 1..size
  PROVE  Cell(f, k) \in Cells /\ (f + k - 1) % size = Cell(f, k)
PROOF
  BY SizeType DEF Cells, Cell

LEMMA CellInjective ==
  ASSUME NEW f \in Cells, NEW j \in 1..size, NEW k \in 1..size, j # k
  PROVE  Cell(f, j) # Cell(f, k)
PROOF
  BY SizeType DEF Cells, Cell

LEMMA NextIndexType ==
  ASSUME NEW f \in Cells
  PROVE  NextIndex(f) \in Cells /\ NextIndex(f) = Cell(f, 2)
PROOF
  <1>1. NextIndex(f) = (f + 2 - 1) % size
    BY DEF NextIndex, Cells
  <1>. QED
    BY <1>1, CellType, SizeType

(* The rear is where the next byte goes.                                   *)
LEMMA RearCell ==
  ASSUME NEW f \in Cells, NEW r \in Cells
  PROVE  r = Cell(f, Between(f, r) + 1)
PROOF
  BY SizeType DEF Cells, Cell, Between

LEMMA RearMoves ==
  ASSUME NEW f \in Cells, NEW r \in Cells, Between(f, r) < BufferSize
  PROVE  Between(f, NextIndex(r)) = Between(f, r) + 1
PROOF
  BY SizeType, NextIndexType DEF Cells, Cell, Between

LEMMA FrontMoves ==
  ASSUME NEW f \in Cells, NEW r \in Cells, Between(f, r) > 0
  PROVE  /\ Between(NextIndex(f), r) = Between(f, r) - 1
         /\ \A k \in 1..BufferSize : Cell(NextIndex(f), k) = Cell(f, k + 1)
PROOF
  <1>1. Between(NextIndex(f), r) = Between(f, r) - 1
    BY SizeType, NextIndexType DEF Cells, Cell, Between
  <1>2. ASSUME NEW k \in 1..BufferSize
        PROVE  Cell(NextIndex(f), k) = Cell(f, k + 1)
    BY SizeType, NextIndexType DEF Cells, Cell
  <1>. QED
    BY <1>1, <1>2

(* What the sizes of the code say of the indices, and what a producer and a *)
(* consumer learn of the ring when other has moved on from what they saw.  *)
LEMMA UseSizeIsBetween ==
  ASSUME NEW f \in Cells, NEW r \in Cells
  PROVE  UseSize(<< f, r >>, << f, r >>) = Between(f, r)
PROOF
  BY DEF UseSize, Between

LEMMA FreeLooked ==
  ASSUME NEW f0 \in Cells, NEW f \in Cells, NEW r \in Cells,
         Between(f, r) <= Between(f0, r),
         NEW now \in {<< f0, r >>, << f, r >>},
         NEW n \in Int, n > 0, n <= FreeSize(<< f0, r >>, now)
  PROVE  n <= BufferSize - Between(f, r)
PROOF
  BY SizeType DEF Cells, Between, FreeSize

LEMMA UseLooked ==
  ASSUME NEW r0 \in Cells, NEW f \in Cells, NEW r \in Cells,
         Between(f, r0) <= Between(f, r),
         NEW now \in {<< f, r0 >>, << f, r >>}
  PROVE  /\ UseSize(<< f, r0 >>, now) \in Int
         /\ UseSize(<< f, r0 >>, now) <= Between(f, r)
PROOF
  BY SizeType DEF Cells, Between, UseSize

-----------------------------------------------------------------------------
(* The invariant is inductive with one thread at each end. *)

LEMMA LockedInit1 == LockedInit => LockedInv
PROOF
  <1>. SUFFICES ASSUME LockedInit  PROVE LockedInv
    OBVIOUS
  <1>1. front \in Cells /\ rear \in Cells /\ buffer \in [Cells -> Nat]
        /\ << 0, 0 >> \in Cells \X Cells /\ Queued = 0
    BY SizeType DEF LockedInit, Cells, Queued, Between
  <1>2. LockedTypeOK
    BY <1>1 DEF LockedInit, LockedTypeOK
  <1>3. LockHeld
    BY CallersAssumption DEF LockedInit, LockHeld
  <1>4. Numbered
    BY <1>1, CallersAssumption
    DEF LockedInit, Numbered, Left, BeingRead, Callers
  <1>5. StillFree /\ StillUsed
    BY CallersAssumption DEF LockedInit, StillFree, StillUsed, Callers
  <1>. QED
    BY <1>2, <1>3, <1>4, <1>5 DEF LockedInv

LEMMA Appended ==
  ASSUME NEW s \in Seq(Nat), NEW x \in Nat
  PROVE  /\ Append(s, x) \in Seq(Nat) /\ Len(Append(s, x)) = Len(s) + 1
         /\ \A k \in 1..(Len(s) + 1) :
              Append(s, x)[k] = IF k <= Len(s) THEN s[k] ELSE x
PROOF
  OBVIOUS

(* A step that moves no byte and no index disturbs none of their numbers.  *)
LEMMA NumberedKept ==
  ASSUME Numbered, UNCHANGED << ringVars, put, got >>, BeingRead' = BeingRead
  PROVE  Numbered' /\ Queued' = Queued
PROOF
  <1>1. Queued' = Queued /\ Left' = Left
    BY DEF ringVars, Queued, Left, Between
  <1>2. \A k \in 1..Queued : Cell(front, k)' = Cell(front, k)
    BY DEF ringVars, Cell
  <1>. QED
    BY <1>1, <1>2 DEF Numbered, ringVars

LEMMA LockedStep ==
  ASSUME NEW p, NEW c, Producers = {p}, Consumers = {c},
         LockedInv, [LockedNext]_lockedVars
  PROVE  LockedInv'
PROOF
  <1>1. Callers = {p, c} /\ p # c /\ p # NoThread /\ c # NoThread
    BY CallersAssumption DEF Callers
  <1>2. /\ LockedTypeOK /\ LockHeld /\ Numbered /\ StillFree /\ StillUsed
        /\ front \in Cells /\ rear \in Cells /\ Queued \in 0..BufferSize
        /\ size \in Nat /\ size > 1 /\ BufferSize = size - 1
    BY BetweenType, SizeType DEF LockedInv, LockedTypeOK, Queued
  <1>3. ASSUME NEW t \in Callers, Begin(t)  PROVE LockedInv'
    <2>1. Numbered' /\ Queued' = Queued
      <3>1. BeingRead' = BeingRead
        BY <1>1, <1>2, <1>3 DEF Begin, Goto, BeingRead, LockedTypeOK
      <3>. QED
        BY <1>2, <1>3, <3>1, NumberedKept DEF Begin
    <2>2. PICK n \in 1..MaxCall : iSize' = [iSize EXCEPT ![t] = n]
      BY <1>3 DEF Begin
    <2>3. LockedTypeOK'
      BY SMTT(60), <1>2, <1>3, <2>2, BoundsAssumption
      DEF Begin, Goto, LockedTypeOK, ringVars
    <2>4. LockHeld'
      BY <1>2, <1>3 DEF Begin, Goto, LockHeld, LockedTypeOK
    <2>5. StillFree'
      BY SMTT(60), <1>1, <1>2, <1>3, <2>1, <2>2, BoundsAssumption
      DEF Begin, Goto, StillFree, LockedTypeOK, ringVars, Queued, Between
    <2>6. StillUsed'
      BY SMTT(60), <1>1, <1>2, <1>3, <2>1, <2>2
      DEF Begin, Goto, StillUsed, LockedTypeOK, ringVars, Queued, Between
    <2>. QED
      BY <2>1, <2>3, <2>4, <2>5, <2>6 DEF LockedInv
  <1>4. ASSUME NEW t \in Callers, LookFree(t)  PROVE LockedInv'
    <2>1. Numbered' /\ Queued' = Queued
      <3>1. BeingRead' = BeingRead
        BY <1>1, <1>2, <1>4 DEF LookFree, Goto, BeingRead, LockedTypeOK
      <3>. QED
        BY <1>2, <1>4, <3>1, NumberedKept DEF LookFree
    <2>2. t = p /\ pc[t] = "size"
      BY <1>4 DEF LookFree
    <2>3. pc'[t] = "lock" => iSize[t] <= BufferSize - Queued
      <3>1. PICK now \in Loads(t) :
              pc' = [pc EXCEPT ![t] = IF Fits(iSize[t], FreeSize(seen[t], now))
                                        THEN "lock" ELSE "idle"]
        BY <1>4 DEF LookFree, Goto
      <3>2. /\ seen[t] = << seen[t][1], rear >> /\ seen[t][1] \in Cells
            /\ Between(front, rear) <= Between(seen[t][1], rear)
            /\ iSize[t] \in Int /\ iSize[t] > 0
        BY SMTT(60), <1>2, <2>2 DEF StillFree, LockedTypeOK, Queued
      <3>3. now \in {<< seen[t][1], rear >>, << front, rear >>}
        BY <3>2 DEF Loads
      <3>4. pc'[t] = "lock" =>
              iSize[t] <= FreeSize(<< seen[t][1], rear >>, now)
        BY <1>2, <3>1, <3>2 DEF Fits, LockedTypeOK
      <3>. QED
        BY <1>2, <3>2, <3>3, <3>4, FreeLooked DEF Queued
    <2>4. LockedTypeOK'
      BY <1>2, <1>4 DEF LookFree, Goto, LockedTypeOK, ringVars
    <2>5. LockHeld'
      BY <1>2, <1>4 DEF LookFree, Goto, LockHeld, LockedTypeOK
    <2>6. StillFree'
      BY SMTT(60), <1>1, <1>2, <1>4, <2>1, <2>2, <2>3
      DEF LookFree, Goto, StillFree, LockedTypeOK
    <2>7. StillUsed'
      BY <1>1, <1>2, <1>4, <2>1, <2>2
      DEF LookFree, Goto, StillUsed, LockedTypeOK, ringVars, Between
    <2>. QED
      BY <2>1, <2>4, <2>5, <2>6, <2>7 DEF LockedInv
  <1>5. ASSUME NEW t \in Callers, LookUsed(t)  PROVE LockedInv'
    <2>1. Numbered' /\ Queued' = Queued
      <3>1. BeingRead' = BeingRead
        BY <1>1, <1>2, <1>5 DEF LookUsed, Goto, BeingRead, LockedTypeOK
      <3>. QED
        BY <1>2, <1>5, <3>1, NumberedKept DEF LookUsed
    <2>2. t = c /\ pc[t] = "size"
      BY <1>5 DEF LookUsed
    <2>3. iSize'[t] \in Int /\ iSize'[t] <= Queued
      <3>1. PICK now \in Loads(t) :
              iSize' = [iSize EXCEPT ![t] = IF @ > UseSize(seen[t], now)
                                       THEN UseSize(seen[t], now) ELSE @]
        BY <1>5 DEF LookUsed
      <3>2. /\ seen[t] = << front, seen[t][2] >> /\ seen[t][2] \in Cells
            /\ Between(front, seen[t][2]) <= Between(front, rear)
        BY SMTT(60), <1>2, <2>2 DEF StillUsed, LockedTypeOK, Queued
      <3>3. now \in {<< front, seen[t][2] >>, << front, rear >>}
        BY <3>2 DEF Loads
      <3>4. /\ UseSize(seen[t], now) \in Int
            /\ UseSize(seen[t], now) <= Queued
        BY <1>2, <3>2, <3>3, UseLooked DEF Queued
      <3>. QED
        BY <1>2, <3>1, <3>4 DEF LockedTypeOK
    <2>4. LockedTypeOK'
      BY <1>2, <1>5, <2>3 DEF LookUsed, Goto, LockedTypeOK, ringVars
    <2>5. LockHeld'
      BY <1>2, <1>5 DEF LookUsed, Goto, LockHeld, LockedTypeOK
    <2>6. StillFree'
      BY <1>1, <1>2, <1>5, <2>1, <2>2
      DEF LookUsed, Goto, StillFree, LockedTypeOK, ringVars, Between
    <2>7. StillUsed'
      BY SMTT(60), <1>1, <1>2, <1>5, <2>1, <2>2, <2>3
      DEF LookUsed, Goto, StillUsed, LockedTypeOK
    <2>. QED
      BY <2>1, <2>4, <2>5, <2>6, <2>7 DEF LockedInv
  <1>6. ASSUME NEW t \in Callers, AcquireSRWLockExclusive(t)  PROVE LockedInv'
    <2>1. Numbered' /\ Queued' = Queued
      <3>1. BeingRead' = BeingRead
        BY <1>1, <1>2, <1>6
        DEF AcquireSRWLockExclusive, Goto, BeingRead, LockedTypeOK
      <3>. QED
        BY <1>2, <1>6, <3>1, NumberedKept DEF AcquireSRWLockExclusive
    <2>2. LockedTypeOK'
      BY <1>2, <1>6 DEF AcquireSRWLockExclusive, Goto, LockedTypeOK, ringVars
    <2>3. LockHeld'
      BY <1>1, <1>2, <1>6
      DEF AcquireSRWLockExclusive, Goto, LockHeld, LockedTypeOK
    <2>4. StillFree' /\ StillUsed'
      BY ZenonT(60), <1>1, <1>2, <1>6, <2>1
      DEF AcquireSRWLockExclusive, Goto, StillFree, StillUsed, LockedTypeOK,
          ringVars, Between
    <2>. QED
      BY <2>1, <2>2, <2>3, <2>4 DEF LockedInv
  <1>7. ASSUME NEW t \in Callers, WriteByte(t)  PROVE LockedInv'
    <2>1. t = p /\ pc[p] = "copy" /\ i[p] < iSize[p] /\ srwlock = p
          /\ pc[c] \notin {"copy", "move"}
      BY <1>1, <1>2, <1>7 DEF WriteByte, MoreBytes, LockHeld
    <2>2. Queued < BufferSize
      BY <1>2, <2>1 DEF StillFree, LockedTypeOK, Callers
    <2>3. Queued' = Queued /\ BeingRead' = BeingRead
      BY <1>1, <1>2, <1>7, <2>1
      DEF WriteByte, Goto, Queued, Between, BeingRead, LockedTypeOK
    <2>4. rear = Cell(front, Queued + 1)
      BY <1>2, RearCell DEF Queued
    <2>5. Numbered'
      <3>1. ASSUME NEW k \in 1..Queued
            PROVE  Cell(front, k)' = Cell(front, k) /\ rear # Cell(front, k)
        BY <1>2, <1>7, <2>2, <2>4, CellInjective DEF WriteByte, Cell
      <3>2. Left' = Left /\ UNCHANGED << put, got >>
        BY <1>7, <2>3 DEF WriteByte, Left
      <3>3. \A k \in 1..Queued : buffer'[Cell(front, k)] = buffer[Cell(front, k)]
        BY <1>2, <1>7, <3>1 DEF WriteByte, LockedTypeOK
      <3>. QED
        BY <1>2, <2>3, <3>1, <3>2, <3>3 DEF Numbered
    <2>6. LockedTypeOK'
      BY SMTT(60), <1>2, <1>7 DEF WriteByte, Goto, LockedTypeOK
    <2>7. LockHeld'
      BY <1>2, <1>7, <2>1 DEF WriteByte, Goto, LockHeld, LockedTypeOK
    <2>8. StillFree' /\ StillUsed'
      BY <1>1, <1>2, <1>7, <2>1, <2>3
      DEF WriteByte, Goto, StillFree, StillUsed, LockedTypeOK, Between
    <2>. QED
      BY <2>5, <2>6, <2>7, <2>8 DEF LockedInv
  <1>8. ASSUME NEW t \in Callers, AdvanceRear(t)  PROVE LockedInv'
    <2>1. t = p /\ pc[p] = "move" /\ i[p] < iSize[p] /\ srwlock = p
          /\ pc[c] \notin {"copy", "move"} /\ buffer[rear] = Len(put) + 1
      BY <1>1, <1>2, <1>8 DEF AdvanceRear, LockHeld, StillFree
    <2>2. Queued < BufferSize
      BY <1>2, <2>1 DEF StillFree, LockedTypeOK, Callers
    <2>3. Queued' = Queued + 1 /\ BeingRead' = BeingRead /\ rear' \in Cells
      BY <1>1, <1>2, <1>8, <2>1, <2>2, RearMoves, NextIndexType
      DEF AdvanceRear, Goto, Queued, BeingRead, LockedTypeOK
    <2>4. rear = Cell(front, Queued + 1)
      BY <1>2, RearCell DEF Queued
    <2>5. Numbered'
      <3>1. \A k \in 1..(Queued + 1) : Cell(front, k)' = Cell(front, k)
        BY <1>8 DEF AdvanceRear, Cell
      <3>2. Left' = Left
        BY <1>8, <2>3 DEF AdvanceRear, Left
      <3>3. Left \in Nat /\ Len(put) = Left + Queued
        BY <1>2 DEF Numbered
      <3>4. \A k \in 1..Queued' : buffer'[Cell(front, k)'] = Left' + k
        <4>. SUFFICES ASSUME NEW k \in 1..(Queued + 1)
                      PROVE  buffer[Cell(front, k)] = Left + k
          BY <1>8, <2>3, <3>1, <3>2 DEF AdvanceRear
        <4>1. CASE k = Queued + 1
          BY <1>2, <2>1, <2>4, <3>3, <4>1
        <4>2. CASE k # Queued + 1
          BY <1>2, <4>2 DEF Numbered
        <4>. QED
          BY <4>1, <4>2
      <3>5. /\ Len(put') = Len(put) + 1
            /\ \A k \in 1..Len(put') : put'[k] = k
        <4>1. put \in Seq(Nat) /\ Len(put) + 1 \in Nat
              /\ put' = Append(put, Len(put) + 1)
          BY <1>2, <1>8 DEF AdvanceRear, LockedTypeOK
        <4>2. \A k \in 1..Len(put) : put[k] = k
          BY <1>2 DEF Numbered
        <4>. QED
          BY <4>1, <4>2, Appended
      <3>6. got' = got
        BY <1>8 DEF AdvanceRear
      <3>. QED
        <4>1. \A k \in 1..Len(got') : got'[k] = k
          BY <1>2, <3>6 DEF Numbered
        <4>2. Left' \in Nat /\ Len(put') = Left' + Queued'
          <5>1. Queued \in Nat /\ Len(put) \in Nat
            BY <1>2, BetweenType DEF LockedTypeOK, Queued
          <5>. QED
            BY <2>3, <3>2, <3>3, <3>5, <5>1
        <4>. QED
          BY <3>4, <3>5, <4>1, <4>2 DEF Numbered
    <2>6. LockedTypeOK'
      <3>1. put' \in Seq(Nat)
        BY <1>2, <1>8, Appended DEF AdvanceRear, LockedTypeOK
      <3>. QED
        BY SMTT(60), <1>2, <1>8, <2>3, <3>1 DEF AdvanceRear, Goto, LockedTypeOK
    <2>7. LockHeld'
      BY <1>2, <1>8, <2>1 DEF AdvanceRear, Goto, LockHeld, LockedTypeOK
    <2>8. StillFree'
      BY SMTT(60), <1>1, <1>2, <1>8, <2>1, <2>3
      DEF AdvanceRear, Goto, StillFree, LockedTypeOK
    <2>9. StillUsed'
      <3>1. /\ Between(front, seen[c][2]) \in Int
            /\ Between(front, seen[c][2])' = Between(front, seen[c][2])
        BY SMTT(60), <1>1, <1>2, <1>8, BetweenType
        DEF AdvanceRear, LockedTypeOK, Between
      <3>. QED
        BY SMTT(60), <1>1, <1>2, <1>8, <2>1, <2>3, <3>1
        DEF AdvanceRear, Goto, StillUsed, LockedTypeOK
    <2>. QED
      BY <2>5, <2>6, <2>7, <2>8, <2>9 DEF LockedInv
  <1>9. ASSUME NEW t \in Callers, ReadByte(t)  PROVE LockedInv'
    <2>1. t = c /\ pc[c] = "copy" /\ i[c] < iSize[c] /\ srwlock = c
          /\ pc[p] \notin {"copy", "move"}
      BY <1>1, <1>2, <1>9 DEF ReadByte, MoreBytes, LockHeld
    <2>2. Queued > 0
      BY <1>2, <2>1 DEF StillUsed, LockedTypeOK, Callers
    <2>3. /\ Queued' = Queued /\ BeingRead = 0 /\ BeingRead' = 1
          /\ UNCHANGED << front, rear, buffer, put >>
      BY <1>1, <1>2, <1>9, <2>1
      DEF ReadByte, Goto, Queued, Between, BeingRead, LockedTypeOK, ringVars
    <2>4. buffer[front] = Len(got) + 1
      <3>1. front = Cell(front, 1)
        BY <1>2 DEF Cell, Cells
      <3>. QED
        BY <1>2, <2>2, <2>3, <3>1 DEF Numbered, Left, LockedTypeOK
    <2>5. Numbered'
      <3>1. \A k \in 1..Queued : Cell(front, k)' = Cell(front, k)
        BY <2>3 DEF Cell
      <3>2. /\ Len(got') = Len(got) + 1
            /\ \A k \in 1..Len(got') : got'[k] = k
        BY SMTT(60), <1>2, <1>9, <2>4 DEF ReadByte, Numbered, LockedTypeOK
      <3>3. Left' = Left
        BY <1>2, <2>3, <3>2 DEF Left, LockedTypeOK
      <3>. QED
        BY <1>2, <2>3, <3>1, <3>2, <3>3 DEF Numbered
    <2>6. LockedTypeOK'
      BY SMTT(60), <1>2, <1>9, <2>3, <2>4 DEF ReadByte, Goto, LockedTypeOK
    <2>7. LockHeld'
      BY <1>2, <1>9, <2>1 DEF ReadByte, Goto, LockHeld, LockedTypeOK
    <2>8. StillFree' /\ StillUsed'
      BY <1>1, <1>2, <1>9, <2>1, <2>3
      DEF ReadByte, Goto, StillFree, StillUsed, LockedTypeOK, Between
    <2>. QED
      BY <2>5, <2>6, <2>7, <2>8 DEF LockedInv
  <1>10. ASSUME NEW t \in Callers, AdvanceFront(t)  PROVE LockedInv'
    <2>1. t = c /\ pc[c] = "move" /\ i[c] < iSize[c] /\ srwlock = c
          /\ pc[p] \notin {"copy", "move"}
      BY <1>1, <1>2, <1>10 DEF AdvanceFront, LockHeld, StillUsed
    <2>2. Queued > 0
      BY <1>2, <2>1 DEF StillUsed, LockedTypeOK, Callers
    <2>3. /\ Queued' = Queued - 1 /\ front' \in Cells
          /\ BeingRead = 1 /\ BeingRead' = 0
          /\ UNCHANGED << rear, buffer, put, got >>
      BY <1>1, <1>2, <1>10, <2>1, <2>2, FrontMoves, NextIndexType
      DEF AdvanceFront, Goto, Queued, BeingRead, LockedTypeOK
    <2>4. Left' = Left + 1
      BY <1>2, <2>3 DEF Left, LockedTypeOK
    <2>5. Numbered'
      <3>1. \A k \in 1..Queued' : Cell(front, k)' = Cell(front, k + 1)
        <4>1. \A k \in 1..BufferSize :
                Cell(NextIndex(front), k) = Cell(front, k + 1)
          BY <1>2, <2>2, FrontMoves DEF Queued
        <4>2. \A k \in 1..Queued' : Cell(front, k)' = Cell(NextIndex(front), k)
          BY <1>10 DEF AdvanceFront, Cell
        <4>. QED
          BY <1>2, <2>3, <4>1, <4>2
      <3>2. \A k \in 1..Queued' : buffer'[Cell(front, k)'] = Left' + k
        <4>. SUFFICES ASSUME NEW k \in 1..Queued'
                      PROVE  buffer'[Cell(front, k)'] = Left' + k
          OBVIOUS
        <4>1. k + 1 \in 1..Queued /\ buffer[Cell(front, k + 1)] = Left + (k + 1)
          BY <1>2, <2>3 DEF Numbered
        <4>. QED
          BY <1>2, <2>3, <2>4, <3>1, <4>1 DEF Left, LockedTypeOK
      <3>. QED
        BY <1>2, <2>3, <2>4, <3>2 DEF Numbered, Left, LockedTypeOK
    <2>6. LockedTypeOK'
      BY SMTT(60), <1>2, <1>10, <2>3 DEF AdvanceFront, Goto, LockedTypeOK
    <2>7. LockHeld'
      BY <1>2, <1>10, <2>1 DEF AdvanceFront, Goto, LockHeld, LockedTypeOK
    <2>8. StillUsed'
      BY SMTT(60), <1>1, <1>2, <1>10, <2>1, <2>3
      DEF AdvanceFront, Goto, StillUsed, LockedTypeOK
    <2>9. StillFree'
      <3>1. /\ Between(seen[p][1], rear) \in Int
            /\ Between(seen[p][1], rear)' = Between(seen[p][1], rear)
        BY SMTT(60), <1>1, <1>2, <1>10, BetweenType
        DEF AdvanceFront, LockedTypeOK, Between
      <3>. QED
        BY SMTT(60), <1>1, <1>2, <1>10, <2>1, <2>3, <3>1
        DEF AdvanceFront, Goto, StillFree, LockedTypeOK
    <2>. QED
      BY <2>5, <2>6, <2>7, <2>8, <2>9 DEF LockedInv
  <1>11. ASSUME NEW t \in Callers, ReleaseSRWLockExclusive(t)
         PROVE  LockedInv'
    <2>1. Numbered' /\ Queued' = Queued
      <3>1. BeingRead' = BeingRead
        BY <1>1, <1>2, <1>11
        DEF ReleaseSRWLockExclusive, Goto, BeingRead, LockedTypeOK
      <3>. QED
        BY <1>2, <1>11, <3>1, NumberedKept DEF ReleaseSRWLockExclusive
    <2>2. LockedTypeOK'
      BY <1>2, <1>11 DEF ReleaseSRWLockExclusive, Goto, LockedTypeOK, ringVars
    <2>3. LockHeld'
      BY <1>1, <1>2, <1>11
      DEF ReleaseSRWLockExclusive, Goto, LockHeld, LockedTypeOK
    <2>4. StillFree' /\ StillUsed'
      BY ZenonT(60), <1>1, <1>2, <1>11, <2>1
      DEF ReleaseSRWLockExclusive, Goto, StillFree, StillUsed, LockedTypeOK,
          ringVars, Between
    <2>. QED
      BY <2>1, <2>2, <2>3, <2>4 DEF LockedInv
  <1>12. CASE UNCHANGED lockedVars
    <2>1. Numbered' /\ Queued' = Queued
      BY <1>2, <1>12, NumberedKept DEF lockedVars, callVars, BeingRead
    <2>. QED
      BY <1>2, <1>12, <2>1
      DEF LockedInv, lockedVars, callVars, ringVars, LockedTypeOK, LockHeld,
          StillFree, StillUsed, Between
  <1>. QED
    BY <1>3, <1>4, <1>5, <1>6, <1>7, <1>8, <1>9, <1>10, <1>11, <1>12
    DEF LockedNext

-----------------------------------------------------------------------------
(* What follows. *)

LEMMA LockedInvariant ==
  ASSUME NEW p, NEW c, Producers = {p}, Consumers = {c}
  PROVE  LockedSpec => []LockedInv
PROOF
  <1>1. LockedInv /\ [LockedNext]_lockedVars => LockedInv'
    BY LockedStep
  <1>. QED
    BY LockedInit1, <1>1, PTL DEF LockedSpec

(* Numbered bytes are a queue: what has left the ring and what is in it.   *)
LEMMA InvIsThreadSafe == LockedInv => ThreadSafe
PROOF
  <1>. SUFFICES ASSUME LockedInv  PROVE ThreadSafe
    OBVIOUS
  <1>1. /\ front \in Cells /\ rear \in Cells /\ Queued \in 0..BufferSize
        /\ size \in Nat /\ BufferSize = size - 1
        /\ put \in Seq(Nat) /\ got \in Seq(Nat) /\ BeingRead \in {0, 1}
        /\ Numbered
    BY BetweenType, SizeType DEF LockedInv, LockedTypeOK, Queued, BeingRead
  (* A byte that is being read is still in the ring.                       *)
  <1>2. BeingRead <= Queued
    <2>1. CASE \E t \in Consumers : pc[t] = "move"
      <3>1. PICK t \in Consumers : pc[t] = "move"
        BY <2>1
      <3>2. i[t] < iSize[t] /\ iSize[t] - i[t] <= Queued
            /\ i[t] \in Nat /\ iSize[t] \in Int
        BY <3>1 DEF LockedInv, StillUsed, LockedTypeOK, Callers
      <3>. QED
        BY <1>1, <3>2
    <2>2. CASE ~\E t \in Consumers : pc[t] = "move"
      BY <1>1, <2>2 DEF BeingRead
    <2>. QED
      BY <2>1, <2>2
  <1>3. /\ Left \in Nat /\ Left = Len(got) - BeingRead
        /\ Len(put) = Left + Queued /\ Len(got) <= Len(put)
    BY <1>1, <1>2 DEF Numbered, Left
  <1>4. IsPrefix(got, put)
    <2>1. /\ Len(SubSeq(got, 1, Len(got))) = Len(got)
          /\ Len(SubSeq(put, 1, Len(got))) = Len(got)
          /\ SubSeq(got, 1, Len(got)) \in Seq(Nat)
          /\ SubSeq(put, 1, Len(got)) \in Seq(Nat)
      BY SMTT(60), <1>1, <1>3
    <2>2. ASSUME NEW k \in 1..Len(got)
          PROVE  SubSeq(got, 1, Len(got))[k] = SubSeq(put, 1, Len(got))[k]
      <3>1. got[k] = k /\ put[k] = k
        BY <1>1, <1>3 DEF Numbered
      <3>. QED
        BY <1>1, <1>3, <3>1
    <2>3. SubSeq(got, 1, Len(got)) = SubSeq(put, 1, Len(got))
      BY <2>1, <2>2, SeqEqual
    <2>. QED
      BY <1>3, <2>3 DEF IsPrefix
  <1>5. SubSeq(put, Len(got) + 1 - BeingRead, Len(put)) = Contents
    <2>1. Len(got) + 1 - BeingRead = Left + 1 /\ Left + 1 >= 1
      BY <1>1, <1>2, <1>3 DEF Numbered, Left, BeingRead
    <2>2. /\ SubSeq(put, Left + 1, Len(put)) \in Seq(Nat)
          /\ Len(SubSeq(put, Left + 1, Len(put))) = Queued
          /\ \A k \in 1..Queued :
               SubSeq(put, Left + 1, Len(put))[k] = put[Left + k]
      <3>1. Left + 1 \in Nat /\ \A k \in (Left + 1)..Len(put) : put[k] \in Nat
        BY <1>1, <1>3, <2>1 DEF Numbered
      <3>2. /\ Left + 1 \in Int /\ Len(put) \in Int
            /\ Len(put) - (Left + 1) + 1 = Queued /\ Queued \in Nat
            /\ \A k \in 1..Queued : (Left + 1) + k - 1 = Left + k
        BY <1>1, <1>3
      <3>. HIDE DEF Left, Queued
      <3>. DEFINE m == Left + 1
                  n == Len(put)
                  q == SubSeq(put, m, n)
      <3>3. /\ q \in Seq(Nat) /\ Len(q) = (IF m <= n THEN n - m + 1 ELSE 0)
            /\ \A k \in 1..(n - m + 1) : q[k] = put[m + k - 1]
        BY <3>1, <3>2, SubSeqProperties
      <3>. QED
        BY <3>2, <3>3
    <2>3. Contents = [k \in 1..Queued |-> Left + k]
      <3>1. Contents = [k \in 1..Queued |-> buffer[(front + k - 1) % size]]
        BY <1>1, UseSizeIsBetween DEF Contents, Queued
      <3>2. ASSUME NEW k \in 1..Queued
            PROVE  buffer[(front + k - 1) % size] = Left + k
        <4>1. k \in 1..size /\ buffer[Cell(front, k)] = Left + k
          BY <1>1 DEF Numbered
        <4>. QED
          BY <1>1, <4>1, CellType
      <3>. QED
        BY <3>1, <3>2
    <2>4. \A k \in 1..Queued : put[Left + k] = Left + k
      BY SMTT(60), <1>1, <1>3, <2>1 DEF Numbered
    <2>5. SubSeq(put, Left + 1, Len(put)) = [k \in 1..Queued |-> Left + k]
      <3>1. /\ [k \in 1..Queued |-> Left + k] \in Seq(Nat)
            /\ Len([k \in 1..Queued |-> Left + k]) = Queued
        BY <1>1, <1>3
      <3>. QED
        BY <2>2, <2>4, <3>1, SeqEqual
    <2>. QED
      BY <2>1, <2>3, <2>5
  <1>. QED
    BY <1>4, <1>5 DEF ThreadSafe

(* With one thread that enqueues and one that dequeues the calls are those *)
(* of a queue (CRingBuffer.cpp:68, 81), for every size of the buffer.      *)
THEOREM OneAtEachEnd ==
  ASSUME NEW p, NEW c, Producers = {p}, Consumers = {c}
  PROVE  LockedSpec => []ThreadSafe
PROOF
  <1>1. LockedSpec => []LockedInv
    BY LockedInvariant
  <1>. QED
    BY <1>1, InvIsThreadSafe, PTL

-----------------------------------------------------------------------------
(* Folds. The library's take the elements of a finite set away one by one; *)
(* c picks the next, F[x] enters x.                                        *)
Picks(c, S) == \A s \in SUBSET S : s # {} => c[s] \in s
Folding(h, s, c, base, F) ==
  h[s] = IF s = {} THEN base ELSE F[c[s]][h[s \ {c[s]}]]

(* What holds of {} and of a set whenever it does of the set with one      *)
(* element less holds of every finite set.                                 *)
LEMMA SubsetsOneByOne ==
  ASSUME NEW S, IsFiniteSet(S), NEW c, Picks(c, S), NEW T, {} \in T,
         \A s \in SUBSET S : s # {} /\ s \ {c[s]} \in T => s \in T
  PROVE  SUBSET S \subseteq T
PROOF
  <1>. DEFINE sizes == { Cardinality(s) : s \in (SUBSET S) \ T }
  <1>1. \A s \in SUBSET S : IsFiniteSet(s) /\ Cardinality(s) \in Nat
    BY FS_Subset, FS_CardinalityType
  <1>2. SUFFICES ASSUME sizes # {} PROVE FALSE
    OBVIOUS
  <1>3. PICK n \in sizes : \A m \in sizes : n <= m
    <2>1. sizes \in SUBSET Nat
      BY <1>1
    <2>. QED
      BY <1>2, <2>1, LeastNumber
  <1>4. PICK s \in (SUBSET S) \ T : Cardinality(s) = n
    BY <1>3
  <1>5. c[s] \in s
    BY <1>4 DEF Picks
  <1>6. Cardinality(s \ {c[s]}) = n - 1 /\ n \in Nat
    BY <1>1, <1>4, <1>5, FS_RemoveElement
  <1>7. s \ {c[s]} \in SUBSET S /\ s \ {c[s]} \notin T
    BY <1>4, <1>5
  <1>8. Cardinality(s \ {c[s]}) \in sizes
    BY <1>7
  <1>. HIDE DEF sizes
  <1>. QED
    BY <1>3, <1>6, <1>8

LEMMA FoldExists ==
  ASSUME NEW S, IsFiniteSet(S), NEW c, Picks(c, S), NEW V, NEW base \in V,
         NEW F \in [S -> [V -> V]]
  PROVE  \E h \in [SUBSET S -> V] : \A s \in SUBSET S : Folding(h, s, c, base, F)
PROOF
  <1>. DEFINE Up(n) == { s \in SUBSET S : Cardinality(s) <= n }
              Good(n) == \E h \in [SUBSET S -> V] : \A s \in Up(n) : Folding(h, s, c, base, F)
              bad == { n \in Nat : ~Good(n) }
              Next(h) == [s \in SUBSET S |-> IF s = {} THEN base
                                             ELSE F[c[s]][h[s \ {c[s]}]]]
  <1>1. \A s \in SUBSET S : IsFiniteSet(s) /\ Cardinality(s) \in Nat
    BY FS_Subset, FS_CardinalityType
  <1>2. ASSUME NEW h \in [SUBSET S -> V] PROVE Next(h) \in [SUBSET S -> V]
    <2>1. ASSUME NEW s \in SUBSET S, s # {} PROVE F[c[s]][h[s \ {c[s]}]] \in V
      <3>1. c[s] \in S /\ s \ {c[s]} \in SUBSET S
        BY <2>1 DEF Picks
      <3>2. F[c[s]] \in [V -> V] /\ h[s \ {c[s]}] \in V
        BY <3>1
      <3>. QED
        BY <3>2
    <2>. QED
      BY <2>1
  <1>3. bad = {}
    <2>1. SUFFICES ASSUME bad # {} PROVE FALSE
      OBVIOUS
    <2>2. PICK n \in bad : \A m \in bad : n <= m
      BY <2>1, LeastNumber
    <2>3. CASE n = 0
      <3>. DEFINE g == [s \in SUBSET S |-> base]
      <3>1. \A s \in Up(0) : s = {}
        BY <1>1, FS_EmptySet
      <3>2. \A s \in Up(0) : Folding(g, s, c, base, F)
        BY <3>1 DEF Folding
      <3>3. Good(0)
        BY <3>2
      <3>. QED
        BY <2>2, <2>3, <3>3
    <2>4. CASE n # 0
      <3>1. n - 1 \in Nat /\ Good(n - 1)
        <4>. HIDE DEF Good
        <4>1. n \in Nat /\ n - 1 \in Nat
          BY <2>2, <2>4
        <4>2. n - 1 \notin bad
          <5>. HIDE DEF bad
          <5>. QED
            BY <2>2, <4>1
        <4>. QED
          BY <4>1, <4>2
      <3>2. PICK h \in [SUBSET S -> V] : \A s \in Up(n - 1) : Folding(h, s, c, base, F)
        BY <3>1
      <3>. DEFINE g == Next(h)
      <3>3. ASSUME NEW s \in Up(n) PROVE Folding(g, s, c, base, F)
        <4>1. CASE s = {}
          BY SMTT(60), <4>1 DEF Folding
        <4>2. CASE s # {}
          <5>. DEFINE q == s \ {c[s]}
          <5>1. c[s] \in s
            BY <4>2 DEF Picks
          <5>2. q \in SUBSET S /\ Cardinality(q) = Cardinality(s) - 1
            BY ZenonT(60), <1>1, <5>1, FS_RemoveElement
          <5>3. q \in Up(n - 1)
            BY <1>1, <2>2, <3>1, <5>2
          <5>4. g[q] = h[q]
            BY <3>2, <5>2, <5>3 DEF Folding
          <5>. QED
            BY Zenon, <4>2, <5>4 DEF Folding
        <4>. QED
          BY <4>1, <4>2
      <3>4. Good(n)
        BY <1>2, <3>3
      <3>. QED
        BY <2>2, <3>4
    <2>. QED
      BY <2>3, <2>4
  <1>4. Good(Cardinality(S))
    BY <1>1, <1>3
  <1>5. PICK h \in [SUBSET S -> V] : \A s \in Up(Cardinality(S)) : Folding(h, s, c, base, F)
    BY <1>4
  <1>6. \A s \in SUBSET S : s \in Up(Cardinality(S))
    BY FS_Subset
  <1>. QED
    BY <1>5, <1>6

-----------------------------------------------------------------------------
(* Sums of numbers. *)

SumPick(s) == CHOOSE x \in s : TRUE
PickAny(S) == [s \in SUBSET S |-> SumPick(s)]

(* The sums of f over the subsets of S.                                    *)
SumStep(f, h, s) == IF s = {} THEN 0 ELSE f[SumPick(s)] + h[s \ {SumPick(s)}]
AreSums(f, S, h) == h = [s \in SUBSET S |-> SumStep(f, h, s)]
PartialSums(f, S) == CHOOSE h : AreSums(f, S, h)

LEMMA PicksAny == ASSUME NEW S PROVE Picks(PickAny(S), S)
PROOF
  BY DEF Picks, PickAny, SumPick

LEMMA PartialSumsAre ==
  ASSUME NEW S, IsFiniteSet(S), NEW f \in [S -> Int]
  PROVE  AreSums(f, S, PartialSums(f, S))
PROOF
  <1>. DEFINE F == [x \in S |-> [v \in Int |-> f[x] + v]]
              c == PickAny(S)
  <1>1. F \in [S -> [Int -> Int]] /\ 0 \in Int
    OBVIOUS
  <1>2. PICK h \in [SUBSET S -> Int] : \A s \in SUBSET S : Folding(h, s, c, 0, F)
    <2>. HIDE DEF F, c
    <2>. QED
      BY <1>1, PicksAny, FoldExists DEF c
  <1>3. ASSUME NEW s \in SUBSET S PROVE h[s] = SumStep(f, h, s)
    <2>1. CASE s = {}
      BY <1>2, <2>1 DEF Folding, SumStep
    <2>2. CASE s # {}
      <3>1. c[s] = SumPick(s) /\ c[s] \in S /\ s \ {c[s]} \in SUBSET S
        BY <2>2 DEF PickAny, SumPick
      <3>2. F[c[s]][h[s \ {c[s]}]] = f[c[s]] + h[s \ {c[s]}]
        BY <3>1
      <3>. QED
        BY <1>2, <2>2, <3>1, <3>2 DEF Folding, SumStep
    <2>. QED
      BY <2>1, <2>2
  <1>4. h = [s \in SUBSET S |-> h[s]]
    OBVIOUS
  <1>5. AreSums(f, S, h)
    BY <1>3, <1>4 DEF AreSums
  <1>. QED
    BY <1>5, Zenon DEF PartialSums

LEMMA SumIsPartial ==
  ASSUME NEW f
  PROVE  SumFunction(f) = PartialSums(f, DOMAIN f)[DOMAIN f]
PROOF
  BY DEF SumFunction, SumFunctionOnSet, FoldFunctionOnSet, MapThenFoldSet,
         PartialSums, AreSums, SumStep, SumPick

(* What SumFunction is, and how its partial sums come about.               *)
SumsUp(f, S, h) ==
  /\ SumFunction(f) = h[S] /\ h[{}] = 0
  /\ \A s \in SUBSET S : s # {} =>
       SumPick(s) \in s /\ h[s] = f[SumPick(s)] + h[s \ {SumPick(s)}]

LEMMA SumIs ==
  ASSUME NEW S, IsFiniteSet(S), NEW f \in [S -> Int]
  PROVE  \E h : SumsUp(f, S, h)
PROOF
  <1>. DEFINE h == PartialSums(f, S)
  <1>1. AreSums(f, S, h)
    BY PartialSumsAre
  <1>2. SumFunction(f) = h[S]
    BY SumIsPartial
  <1>. HIDE DEF h
  <1>3. \A s \in SUBSET S : h[s] = SumStep(f, h, s)
    BY <1>1 DEF AreSums
  <1>4. \A s \in SUBSET S : s # {} => SumPick(s) \in s
    BY DEF SumPick
  <1>5. h[{}] = 0
    BY <1>3 DEF SumStep
  <1>6. \A s \in SUBSET S : s # {} => h[s] = f[SumPick(s)] + h[s \ {SumPick(s)}]
    BY <1>3 DEF SumStep
  <1>7. SumsUp(f, S, h)
    BY <1>2, <1>4, <1>5, <1>6 DEF SumsUp
  <1>. QED
    BY <1>7

LEMMA OneByOne ==
  ASSUME NEW S, IsFiniteSet(S), NEW T, {} \in T,
         \A s \in SUBSET S : s # {} /\ s \ {SumPick(s)} \in T => s \in T
  PROVE  SUBSET S \subseteq T
PROOF
  <1>. DEFINE c == PickAny(S)
  <1>1. \A s \in SUBSET S : c[s] = SumPick(s)
    BY DEF PickAny
  <1>2. Picks(c, S)
    BY PicksAny
  <1>. HIDE DEF c
  <1>3. \A s \in SUBSET S : s # {} /\ s \ {c[s]} \in T => s \in T
    BY <1>1
  <1>. QED
    BY <1>2, <1>3, SubsetsOneByOne

(* A sum of numbers that are not above 0 is not above it either.           *)
LEMMA SumType ==
  ASSUME NEW S, IsFiniteSet(S), NEW f \in [S -> Int]
  PROVE  /\ SumFunction(f) \in Int
         /\ (\A x \in S : f[x] <= 0) => SumFunction(f) <= 0
         /\ (\A x \in S : f[x] = 0) => SumFunction(f) = 0
PROOF
  <1>1. PICK h : SumsUp(f, S, h)
    BY SumIs
  <1>. DEFINE low == \A x \in S : f[x] <= 0
              zero == \A x \in S : f[x] = 0
              T == { s \in SUBSET S : /\ h[s] \in Int /\ (low => h[s] <= 0)
                                      /\ (zero => h[s] = 0) }
  <1>2. {} \in T
    BY <1>1 DEF SumsUp
  <1>3. ASSUME NEW s \in SUBSET S, s # {}, s \ {SumPick(s)} \in T PROVE s \in T
    BY <1>1, <1>3 DEF SumsUp
  <1>4. SUBSET S \subseteq T
    <2>. HIDE DEF T
    <2>. QED
      BY <1>2, <1>3, OneByOne
  <1>. QED
    BY <1>1, <1>4 DEF SumsUp

(* g is f with d more at x.                                                *)
Grown(f, g, S, x, d) ==
  /\ f \in [S -> Int] /\ g \in [S -> Int] /\ x \in S /\ d \in Int
  /\ g[x] = f[x] + d /\ \A y \in S \ {x} : g[y] = f[y]

(* One number of a sum grows, and so does the sum.                         *)
LEMMA SumGrows ==
  ASSUME NEW S, IsFiniteSet(S), NEW f, NEW g, NEW x, NEW d, Grown(f, g, S, x, d)
  PROVE  SumFunction(g) = SumFunction(f) + d
PROOF
  <1>0. f \in [S -> Int] /\ g \in [S -> Int]
    BY DEF Grown
  <1>1. PICK h : SumsUp(f, S, h)
    BY <1>0, SumIs
  <1>2. PICK k : SumsUp(g, S, k)
    BY <1>0, SumIs
  <1>. DEFINE T == { s \in SUBSET S : /\ h[s] \in Int
                                      /\ k[s] = h[s] + (IF x \in s THEN d ELSE 0) }
  <1>3. {} \in T
    BY <1>1, <1>2 DEF SumsUp
  <1>4. ASSUME NEW s \in SUBSET S, s # {}, s \ {SumPick(s)} \in T PROVE s \in T
    <2>. DEFINE p == SumPick(s)
                q == s \ {p}
    <2>1. p \in S /\ p \in s /\ h[s] = f[p] + h[q] /\ k[s] = g[p] + k[q]
      BY <1>1, <1>2, <1>4 DEF SumsUp
    <2>2. h[q] \in Int /\ k[q] = h[q] + (IF x \in q THEN d ELSE 0)
      BY <1>4
    <2>3. x \in q <=> x \in s /\ x # p
      OBVIOUS
    <2>. HIDE DEF p, q
    <2>4. f[p] \in Int /\ g[p] = f[p] + (IF x = p THEN d ELSE 0)
      BY <2>1 DEF Grown
    <2>5. h[s] \in Int /\ k[s] = h[s] + (IF x \in s THEN d ELSE 0)
      BY <2>1, <2>2, <2>3, <2>4 DEF Grown
    <2>. QED
      BY <2>5
  <1>5. SUBSET S \subseteq T
    <2>. HIDE DEF T
    <2>. QED
      BY <1>3, <1>4, OneByOne
  <1>. QED
    BY <1>1, <1>2, <1>5 DEF SumsUp, Grown

-----------------------------------------------------------------------------
(* TimeBags of times. *)

(* Without takes a time out of a bag, also where there is none.            *)
TimeBags == [Elapsed -> Int]
With(bag, ns) == [bag EXCEPT ![ns] = @ + 1]

LEMMA ElapsedFinite == IsFiniteSet(Elapsed)
PROOF
  <1>1. Elapsed \subseteq 0..LongLongMax /\ LongLongMax \in Nat
    BY ProfileAssumption
  <1>2. IsFiniteSet(0..LongLongMax)
    BY <1>1, FS_Interval
  <1>. QED
    BY <1>1, <1>2, FS_Subset

LEMMA TimesIs == \A bag : Times(bag) = SumFunction(bag)
PROOF
  BY DEF Times, FoldFunction, SumFunction, SumFunctionOnSet, FoldFunctionOnSet,
         MapThenFoldSet

LEMMA TimesAndTotal ==
  ASSUME NEW bag \in TimeBags
  PROVE  /\ Times(bag) \in Int /\ Total(bag) \in Int
         /\ Held(bag) = {} => Times(bag) <= 0
PROOF
  <1>. DEFINE each == [ns \in Elapsed |-> ns * bag[ns]]
  <1>1. each \in [Elapsed -> Int] /\ bag \in [Elapsed -> Int]
    BY ProfileAssumption DEF TimeBags
  <1>2. Held(bag) = {} => \A ns \in Elapsed : bag[ns] <= 0
    BY <1>1 DEF Held
  <1>. QED
    BY <1>1, <1>2, ElapsedFinite, SumType, TimesIs DEF Total

LEMMA TimesGrow ==
  ASSUME NEW bag \in TimeBags, NEW ns \in Elapsed, NEW d \in Int,
         NEW more, more = [bag EXCEPT ![ns] = @ + d]
  PROVE  /\ more \in TimeBags
         /\ Times(more) = Times(bag) + d
         /\ Total(more) = Total(bag) + ns * d
PROOF
  <1>. DEFINE each == [m \in Elapsed |-> m * bag[m]]
              moreEach == [m \in Elapsed |-> m * more[m]]
  <1>1. /\ bag \in [Elapsed -> Int] /\ more \in [Elapsed -> Int] /\ ns \in Int
        /\ \A m \in Elapsed : m \in Int
        /\ more[ns] = bag[ns] + d /\ \A m \in Elapsed \ {ns} : more[m] = bag[m]
    BY ProfileAssumption DEF TimeBags
  <1>2. each \in [Elapsed -> Int] /\ moreEach \in [Elapsed -> Int]
    BY <1>1
  <1>3. moreEach[ns] = each[ns] + ns * d /\ ns * d \in Int
    <2>1. \A a, b, c \in Int : a * (b + c) = a * b + a * c
      OBVIOUS
    <2>. QED
      BY <1>1, <2>1
  <1>4. \A m \in Elapsed \ {ns} : moreEach[m] = each[m]
    BY <1>1
  <1>5. Times(more) = Times(bag) + d
    <2>1. Grown(bag, more, Elapsed, ns, d)
      BY <1>1 DEF Grown
    <2>. QED
      BY <2>1, ElapsedFinite, SumGrows, TimesIs
  <1>6. SumFunction(moreEach) = SumFunction(each) + ns * d
    <2>. HIDE DEF each, moreEach
    <2>1. Grown(each, moreEach, Elapsed, ns, ns * d)
      BY <1>2, <1>3, <1>4 DEF Grown
    <2>. QED
      BY <2>1, ElapsedFinite, SumGrows
  <1>. QED
    BY <1>1, <1>5, <1>6 DEF TimeBags, Total

LEMMA LeastIs ==
  ASSUME NEW bag
  PROVE  /\ Least(bag) \in Held(bag) \cup {LongLongMax}
         /\ \A m \in Held(bag) : Least(bag) <= m
         /\ Least(bag) \in Nat /\ Least(bag) <= LongLongMax
         /\ \A l \in Held(bag) \cup {LongLongMax} :
              (\A m \in Held(bag) : l <= m) => l = Least(bag)
PROOF
  <1>. DEFINE T == Held(bag) \cup {LongLongMax}
  <1>1. T \in SUBSET Nat /\ T # {} /\ \A m \in T : m <= LongLongMax
    <2>1. LongLongMax \in Nat
      BY ProfileAssumption
    <2>2. ASSUME NEW m \in Held(bag) PROVE m \in Nat /\ m <= LongLongMax
      BY ProfileAssumption, <2>1 DEF Held
    <2>. QED
      BY <2>1, <2>2
  <1>2. PICK l \in T : \A m \in T : l <= m
    BY <1>1, LeastNumber, Zenon
  <1>. DEFINE k == Least(bag)
  <1>3. k \in T /\ \A m \in T : k <= m
    BY <1>2 DEF Least, Min
  <1>. HIDE DEF k
  <1>4. \A n \in T : (\A m \in Held(bag) : n <= m) => n = k
    BY <1>1, <1>3
  <1>5. k \in Nat /\ k <= LongLongMax
    BY <1>1, <1>3
  <1>. QED
    BY <1>3, <1>4, <1>5 DEF k

LEMMA GreatestIs ==
  ASSUME NEW bag
  PROVE  /\ Greatest(bag) \in Held(bag) \cup {0}
         /\ \A m \in Held(bag) : m <= Greatest(bag)
         /\ Greatest(bag) \in Nat
         /\ \A g \in Held(bag) \cup {0} :
              (\A m \in Held(bag) : m <= g) => g = Greatest(bag)
         /\ Held(bag) # {} => Greatest(bag) \in Held(bag)
PROOF
  <1>. DEFINE T == Held(bag) \cup {0}
              U == { LongLongMax - m : m \in T }
  <1>0. LongLongMax \in Nat /\ \A m \in T : m \in Nat /\ LongLongMax - m \in Nat
    BY ProfileAssumption DEF Held
  <1>1. T \in SUBSET Nat /\ U \in SUBSET Nat /\ U # {}
    BY <1>0
  <1>2. PICK u \in U : \A m \in U : u <= m
    BY <1>1, LeastNumber, Zenon
  <1>3. \E g \in T : \A m \in T : m <= g
    <2>1. PICK g \in T : u = LongLongMax - g
      OBVIOUS
    <2>2. ASSUME NEW m \in T PROVE m <= g
      <3>1. LongLongMax - m \in U
        OBVIOUS
      <3>. HIDE DEF T, U
      <3>. QED
        BY <1>0, <1>2, <2>1, <3>1
    <2>. QED
      BY <2>2
  <1>. DEFINE k == Greatest(bag)
  <1>4. k \in T /\ \A m \in T : m <= k
    BY <1>3 DEF Greatest, Max
  <1>. HIDE DEF k
  <1>5. \A n \in T : (\A m \in Held(bag) : m <= n) => n = k
    BY <1>1, <1>4
  <1>6. k \in Nat
    BY <1>1, <1>4
  <1>7. Held(bag) # {} => k \in Held(bag)
    BY <1>1, <1>4
  <1>. QED
    BY <1>4, <1>5, <1>6, <1>7 DEF k

LEMMA HeldWith ==
  ASSUME NEW bag \in TimeBags, NEW ns \in Elapsed
  PROVE  /\ With(bag, ns) \in TimeBags
         /\ Held(With(bag, ns)) = IF bag[ns] >= 0 THEN Held(bag) \cup {ns} ELSE Held(bag)
PROOF
  <1>1. /\ With(bag, ns) \in TimeBags /\ With(bag, ns)[ns] = bag[ns] + 1
        /\ bag[ns] \in Int
        /\ \A m \in Elapsed \ {ns} : With(bag, ns)[m] = bag[m]
    BY DEF With, TimeBags
  <1>2. With(bag, ns)[ns] > 0 <=> bag[ns] >= 0
    BY <1>1
  <1>3. bag[ns] > 0 => bag[ns] >= 0
    BY <1>1
  <1>. QED
    BY <1>1, <1>2, <1>3 DEF Held

LEMMA LeastWith ==
  ASSUME NEW bag \in TimeBags, NEW ns \in Elapsed, bag[ns] >= 0
  PROVE  Least(With(bag, ns)) = IF ns < Least(bag) THEN ns ELSE Least(bag)
PROOF
  <1>1. Held(With(bag, ns)) = Held(bag) \cup {ns}
    BY HeldWith
  <1>2. ns \in Nat /\ ns < LongLongMax
    BY ProfileAssumption
  <1>3. /\ Least(bag) \in Held(bag) \cup {LongLongMax}
        /\ \A m \in Held(bag) : Least(bag) <= m
        /\ Least(bag) \in Nat
    BY LeastIs
  <1>4. Held(bag) \subseteq Nat
    BY ProfileAssumption DEF Held
  <1>. DEFINE l == IF ns < Least(bag) THEN ns ELSE Least(bag)
  <1>5. /\ l \in Held(With(bag, ns)) \cup {LongLongMax}
        /\ \A m \in Held(With(bag, ns)) : l <= m
    BY <1>1, <1>2, <1>3, <1>4
  <1>. HIDE DEF l
  <1>6. l = Least(With(bag, ns))
    BY <1>5, LeastIs
  <1>. QED
    BY <1>6 DEF l

LEMMA GreatestWith ==
  ASSUME NEW bag \in TimeBags, NEW ns \in Elapsed, bag[ns] >= 0
  PROVE  Greatest(With(bag, ns)) = IF ns > Greatest(bag) THEN ns ELSE Greatest(bag)
PROOF
  <1>1. Held(With(bag, ns)) = Held(bag) \cup {ns}
    BY HeldWith
  <1>2. ns \in Nat
    BY ProfileAssumption
  <1>3. /\ Greatest(bag) \in Held(bag) \cup {0}
        /\ \A m \in Held(bag) : m <= Greatest(bag)
        /\ Greatest(bag) \in Nat
    BY GreatestIs
  <1>4. Held(bag) \subseteq Nat
    BY ProfileAssumption DEF Held
  <1>. DEFINE g == IF ns > Greatest(bag) THEN ns ELSE Greatest(bag)
  <1>5. /\ g \in Held(With(bag, ns)) \cup {0}
        /\ \A m \in Held(With(bag, ns)) : m <= g
    BY <1>1, <1>2, <1>3, <1>4
  <1>. HIDE DEF g
  <1>6. g = Greatest(With(bag, ns))
    BY <1>5, GreatestIs
  <1>. QED
    BY <1>6 DEF g

(* Without undoes With, and they commute.                                  *)
LEMMA WithoutWith ==
  ASSUME NEW bag \in TimeBags, NEW ns \in Elapsed, NEW m
  PROVE  /\ Without(With(bag, ns), ns) = bag
         /\ Without(With(bag, ns), m) = With(Without(bag, m), ns)
         /\ Without(bag, m) \in TimeBags
         /\ m # ns \/ bag[ns] > 0 => Without(bag, m)[ns] >= 0 \/ bag[ns] < 0
PROOF
  <1>. DEFINE Less(f) == [x \in Elapsed |-> IF x = m THEN f[x] - 1 ELSE f[x]]
              More(f) == [x \in Elapsed |-> IF x = ns THEN f[x] + 1 ELSE f[x]]
  <1>1. bag \in [Elapsed -> Int] /\ bag[ns] \in Int
    BY DEF TimeBags
  <1>2. ASSUME NEW f \in [Elapsed -> Int]
        PROVE  More(f) \in [Elapsed -> Int] /\ With(f, ns) = More(f)
    <2>1. More(f) \in [Elapsed -> Int]
      OBVIOUS
    <2>2. With(f, ns) = More(f)
      BY DEF With
    <2>. QED
      BY <2>1, <2>2
  <1>3. ASSUME NEW f \in [Elapsed -> Int]
        PROVE  Less(f) \in [Elapsed -> Int] /\ Without(f, m) = Less(f)
    <2>1. Less(f) \in [Elapsed -> Int]
      OBVIOUS
    <2>2. CASE m \in Elapsed
      BY <2>1, <2>2 DEF Without
    <2>3. CASE m \notin Elapsed
      <3>1. Less(f) = f
        BY <2>3
      <3>2. [f EXCEPT ![m] = f[m] - 1] = f
        BY <2>3
      <3>. QED
        BY <2>1, <3>1, <3>2 DEF Without
    <2>. QED
      BY <2>2, <2>3
  <1>4. Without(With(bag, ns), m) = With(Without(bag, m), ns)
    <2>1. Less(More(bag)) = More(Less(bag))
      <3>1. \A x \in Elapsed : Less(More(bag))[x] = More(Less(bag))[x]
        BY <1>1
      <3>. QED
        BY <3>1, Zenon
    <2>. HIDE DEF Less, More
    <2>. QED
      BY <1>1, <1>2, <1>3, <2>1
  <1>5. Without(With(bag, ns), ns) = bag
    <2>1. With(bag, ns) \in [Elapsed -> Int] /\ With(bag, ns)[ns] = bag[ns] + 1
          /\ \A x \in Elapsed \ {ns} : With(bag, ns)[x] = bag[x]
      BY <1>1, <1>2
    <2>2. \A f \in [Elapsed -> Int] :
            /\ Without(f, ns) \in [Elapsed -> Int] /\ Without(f, ns)[ns] = f[ns] - 1
            /\ \A x \in Elapsed \ {ns} : Without(f, ns)[x] = f[x]
      BY DEF Without
    <2>3. /\ Without(With(bag, ns), ns) \in [Elapsed -> Int]
          /\ \A x \in Elapsed : Without(With(bag, ns), ns)[x] = bag[x]
      BY <1>1, <2>1, <2>2
    <2>. QED
      BY <1>1, <2>3
  <1>6. /\ Without(bag, m) \in [Elapsed -> Int]
        /\ Without(bag, m)[ns] = IF ns = m THEN bag[ns] - 1 ELSE bag[ns]
    BY <1>1, <1>3
  <1>7. m # ns \/ bag[ns] > 0 => Without(bag, m)[ns] >= 0 \/ bag[ns] < 0
    BY <1>1, <1>6
  <1>. QED
    BY <1>4, <1>5, <1>6, <1>7 DEF TimeBags

Counts == [Elapsed -> Nat]

LEMMA TwoLeastWith ==
  ASSUME NEW bag \in Counts, NEW ns \in Elapsed
  PROVE  TwoLeast(With(bag, ns)) = MinWith(TwoLeast(bag), ns)
PROOF
  <1>. DEFINE l == Least(bag)
              rest == Without(bag, l)
  <1>1. bag \in TimeBags /\ bag[ns] \in Nat
    BY DEF Counts, TimeBags
  <1>2. Least(With(bag, ns)) = IF ns < l THEN ns ELSE l
    BY <1>1, LeastWith
  <1>3. ns \in Nat /\ l \in Nat /\ ns < LongLongMax /\ Least(rest) \in Nat
    BY ProfileAssumption, LeastIs
  <1>4. CASE ns < l
    <2>1. Without(With(bag, ns), ns) = bag
      BY <1>1, WithoutWith
    <2>. QED
      BY <1>2, <1>4, <2>1 DEF TwoLeast, MinWith
  <1>5. CASE ~(ns < l)
    <2>1. l \in Held(bag)
      BY <1>3, <1>5, LeastIs
    <2>2. Without(With(bag, ns), l) = With(rest, ns) /\ rest \in TimeBags
      BY <1>1, WithoutWith
    <2>3. rest[ns] >= 0
      <3>1. l = ns => bag[ns] > 0
        BY <2>1 DEF Held
      <3>. QED
        BY <1>1, <3>1, WithoutWith
    <2>4. Least(With(rest, ns)) = IF ns < Least(rest) THEN ns ELSE Least(rest)
      BY <2>2, <2>3, LeastWith
    <2>. QED
      BY <1>2, <1>5, <2>2, <2>4 DEF TwoLeast, MinWith
  <1>. QED
    BY <1>4, <1>5

LEMMA TwoGreatestWith ==
  ASSUME NEW bag \in Counts, NEW ns \in Elapsed
  PROVE  TwoGreatest(With(bag, ns)) = MaxWith(TwoGreatest(bag), ns)
PROOF
  <1>. DEFINE g == Greatest(bag)
              rest == Without(bag, g)
  <1>1. bag \in TimeBags /\ bag[ns] \in Nat
    BY DEF Counts, TimeBags
  <1>2. Greatest(With(bag, ns)) = IF ns > g THEN ns ELSE g
    BY <1>1, GreatestWith
  <1>3. ns \in Nat /\ g \in Nat /\ Greatest(rest) \in Nat
    BY ProfileAssumption, GreatestIs
  <1>4. CASE ns > g
    <2>1. Without(With(bag, ns), ns) = bag
      BY <1>1, WithoutWith
    <2>. QED
      BY <1>2, <1>4, <2>1 DEF TwoGreatest, MaxWith
  <1>5. CASE ~(ns > g) /\ Held(bag) # {}
    <2>1. g \in Held(bag)
      BY <1>5, GreatestIs
    <2>2. Without(With(bag, ns), g) = With(rest, ns) /\ rest \in TimeBags
      BY <1>1, WithoutWith
    <2>3. rest[ns] >= 0
      <3>1. g = ns => bag[ns] > 0
        BY <2>1 DEF Held
      <3>. QED
        BY <1>1, <3>1, WithoutWith
    <2>4. Greatest(With(rest, ns)) = IF ns > Greatest(rest) THEN ns ELSE Greatest(rest)
      BY <2>2, <2>3, GreatestWith
    <2>. QED
      BY <1>2, <1>5, <2>2, <2>4 DEF TwoGreatest, MaxWith
  <1>6. CASE ~(ns > g) /\ Held(bag) = {}
    <2>1. g = 0 /\ ns = 0
      BY <1>3, <1>6, GreatestIs
    <2>2. Without(With(bag, ns), g) = bag
      BY <1>1, <2>1, WithoutWith
    <2>3. Held(rest) = {}
      <3>1. \A m \in Elapsed : bag[m] \in Nat /\ rest[m] <= bag[m]
        BY DEF Counts, Without
      <3>2. \A m \in Elapsed : ~(bag[m] > 0) /\ rest[m] \in Int
        BY <1>1, <1>6, WithoutWith DEF Held, TimeBags
      <3>. HIDE DEF rest
      <3>. QED
        BY <3>1, <3>2 DEF Held
    <2>4. Greatest(rest) = 0
      BY <2>3, GreatestIs
    <2>. QED
      BY <1>2, <2>1, <2>2, <2>4 DEF TwoGreatest, MaxWith
  <1>. QED
    BY <1>4, <1>5, <1>6

LEMMA NoTimes ==
  ASSUME NEW bag, bag = [ns \in Elapsed |-> 0]
  PROVE  /\ bag \in Counts /\ Times(bag) = 0 /\ Total(bag) = 0
         /\ TwoLeast(bag) = << LongLongMax, LongLongMax >>
         /\ TwoGreatest(bag) = << 0, 0 >>
PROOF
  <1>. DEFINE each == [ns \in Elapsed |-> ns * bag[ns]]
  <1>1. bag \in Counts /\ bag \in [Elapsed -> Int] /\ \A ns \in Elapsed : bag[ns] = 0
    BY DEF Counts
  <1>2. each \in [Elapsed -> Int] /\ \A ns \in Elapsed : each[ns] = 0
    BY <1>1, ProfileAssumption
  <1>3. SumFunction(each) = 0
    <2>. HIDE DEF each
    <2>. QED
      BY <1>2, ElapsedFinite, SumType
  <1>4. Times(bag) = 0
    BY <1>1, ElapsedFinite, SumType, TimesIs
  <1>5. Held(bag) = {}
    BY <1>1 DEF Held
  <1>6. Least(bag) = LongLongMax /\ Greatest(bag) = 0
    BY <1>5, LeastIs, GreatestIs
  <1>7. LongLongMax \notin Elapsed /\ Without(bag, LongLongMax) = bag
    <2>1. LongLongMax \notin Elapsed
      BY ProfileAssumption
    <2>2. [bag EXCEPT ![LongLongMax] = bag[LongLongMax] - 1] = bag
      BY <1>1, <2>1
    <2>. QED
      BY <2>1, <2>2 DEF Without
  <1>8. Held(Without(bag, 0)) = {}
    <2>1. \A ns \in Elapsed : ~(Without(bag, 0)[ns] > 0)
      BY <1>1 DEF Without
    <2>. QED
      BY <2>1 DEF Held
  <1>9. Greatest(Without(bag, 0)) = 0
    BY <1>8, GreatestIs
  <1>. QED
    BY <1>1, <1>3, <1>4, <1>6, <1>7, <1>9 DEF TwoLeast, TwoGreatest, Total

LEMMA TimesLess ==
  ASSUME NEW bag \in TimeBags, NEW ns \in Elapsed
  PROVE  /\ Without(bag, ns) \in TimeBags
         /\ Times(Without(bag, ns)) = Times(bag) - 1
         /\ Total(Without(bag, ns)) = Total(bag) - ns
PROOF
  <1>1. ns \in Elapsed /\ ns \in Int
    BY ProfileAssumption
  <1>2. PICK d \in Int : d = 0 - 1
    OBVIOUS
  <1>3. Without(bag, ns) = [bag EXCEPT ![ns] = @ + d]
    <2>1. bag[ns] - 1 = bag[ns] + d
      BY <1>1, <1>2 DEF TimeBags
    <2>. QED
      BY <2>1 DEF Without
  <1>4. Times(bag) \in Int /\ Total(bag) \in Int
    BY TimesAndTotal
  <1>5. PICK more : more = [bag EXCEPT ![ns] = @ + d]
    OBVIOUS
  <1>6. /\ more \in TimeBags /\ Times(more) = Times(bag) + d
        /\ Total(more) = Total(bag) + ns * d
    BY ZenonT(60), <1>1, <1>5, TimesGrow
  <1>7. ns * d = 0 - ns
    BY <1>1, <1>2
  <1>. QED
    BY <1>1, <1>2, <1>3, <1>4, <1>5, <1>6, <1>7

(* Of more than four times, the two least and the two greatest are four.   *)
LEMMA OthersAre ==
  ASSUME NEW bag \in Counts, Times(bag) > 4
  PROVE  LET l == TwoLeast(bag)
             g == TwoGreatest(bag)
         IN  /\ Times(Others(bag)) = Times(bag) - 4
             /\ Total(Others(bag)) = Total(bag) - (l[1] + l[2] + g[1] + g[2])
PROOF
  <1>. DEFINE l1 == Least(bag)
              l2 == Least(Without(bag, l1))
              g1 == Greatest(bag)
              g2 == Greatest(Without(bag, g1))
              b1 == Without(bag, l1)
              b2 == Without(b1, l2)
              b3 == Without(b2, g1)
              b4 == Without(b3, g2)
  <1>1. bag \in TimeBags /\ Times(bag) \in Int /\ Total(bag) \in Int
    BY TimesAndTotal DEF Counts, TimeBags
  <1>2. \A b \in TimeBags : Times(b) \in Int /\ Total(b) \in Int
    BY TimesAndTotal
  <1>3. ASSUME NEW b \in TimeBags, Times(b) > 0
        PROVE  Least(b) \in Elapsed /\ Greatest(b) \in Elapsed
    <2>1. Held(b) # {} /\ Held(b) \subseteq Elapsed
      BY <1>2, <1>3, TimesAndTotal DEF Held
    <2>2. PICK m \in Held(b) : m \in Nat /\ m < LongLongMax
      BY <2>1, ProfileAssumption
    <2>3. Least(b) <= m /\ Least(b) \in Held(b) \cup {LongLongMax}
      BY LeastIs
    <2>4. Least(b) # LongLongMax
      BY <2>2, <2>3, ProfileAssumption
    <2>. QED
      BY <2>1, <2>3, <2>4, GreatestIs
  <1>4. /\ l1 \in Elapsed /\ g1 \in Elapsed
        /\ b1 \in TimeBags /\ Times(b1) = Times(bag) - 1 /\ Total(b1) = Total(bag) - l1
        /\ Without(bag, g1) \in TimeBags /\ Times(Without(bag, g1)) = Times(bag) - 1
    BY <1>1, <1>3, TimesLess
  <1>5. l2 \in Elapsed /\ g2 \in Elapsed
    BY <1>1, <1>3, <1>4
  <1>. HIDE DEF l1, l2, g1, g2
  <1>6. b2 \in TimeBags /\ Times(b2) = Times(b1) - 1 /\ Total(b2) = Total(b1) - l2
    BY <1>4, <1>5, TimesLess
  <1>. HIDE DEF b1, b2
  <1>7. b3 \in TimeBags /\ Times(b3) = Times(b2) - 1 /\ Total(b3) = Total(b2) - g1
    BY <1>4, <1>6, TimesLess
  <1>. HIDE DEF b3
  <1>8. b4 \in TimeBags /\ Times(b4) = Times(b3) - 1 /\ Total(b4) = Total(b3) - g2
    BY <1>5, <1>7, TimesLess
  <1>. HIDE DEF b4
  <1>9. \A m \in Elapsed : m \in Int
    BY ProfileAssumption
  <1>10. Times(b4) = Times(bag) - 4 /\ Total(b4) = Total(bag) - (l1 + l2 + g1 + g2)
    BY <1>1, <1>2, <1>4, <1>5, <1>6, <1>7, <1>8, <1>9
  <1>11. /\ Others(bag) = b4
         /\ TwoLeast(bag)[1] = l1 /\ TwoLeast(bag)[2] = l2
         /\ TwoGreatest(bag)[1] = g1 /\ TwoGreatest(bag)[2] = g2
    BY DEF Others, TwoLeast, TwoGreatest, l1, l2, g1, g2, b1, b2, b3, b4
  <1>. QED
    BY <1>10, <1>11, Zenon


-----------------------------------------------------------------------------
(* ProfileTable. A row is exact but for what Update has yet to enter.      *)

RowData == [Name : Tags, TotalTime : Int, Call : Int, Min : Int \X Int,
            Max : Int \X Int]

(* d says of bag what it should, with one more scope in its time and calls.*)
RowHas(d, bag, time, calls) ==
  /\ d.TotalTime = Total(bag) + time /\ d.Call = Times(bag) + calls
  /\ d.Min = TwoLeast(bag) /\ d.Max = TwoGreatest(bag)

(* Where Update of a thread is: st, row r and time e.                      *)
UpdateAt(data, st, r, e) ==
  \/ st = "idle" /\ r = 0
  \/ st \in {"call", "extremes"} /\ r \in 1..Len(data) /\ e \in Elapsed

RowsCounted(data, count, r) ==
  LET c == IF r > count THEN r ELSE count
  IN  Len(data) = IF c <= ProfileMax THEN c ELSE ProfileMax

RowsDiffer(data) ==
  \A k, j \in 1..Len(data) : data[k].Name = data[j].Name => k = j

RowsKept(data, st, r, e, bags) ==
  \A k \in 1..Len(data) :
    RowHas(data[k], bags[data[k].Name],
           IF st # "idle" /\ k = r THEN e ELSE 0,
           IF st = "extremes" /\ k = r THEN 1 ELSE 0)

NoneLost(data, bags) ==
  \A tag \in Tags :
    (\A k \in 1..Len(data) : data[k].Name # tag) => bags[tag] = [ns \in Elapsed |-> 0]

TableInv(data, count, st, r, e, bags) ==
  /\ data \in Seq(RowData) /\ count \in Nat /\ r \in Nat
  /\ bags \in [Tags -> Counts]
  /\ UpdateAt(data, st, r, e) /\ RowsCounted(data, count, r)
  /\ RowsDiffer(data) /\ RowsKept(data, st, r, e, bags) /\ NoneLost(data, bags)

LEMMA CountsAre ==
  ASSUME NEW bag \in Counts
  PROVE  /\ bag \in TimeBags /\ Times(bag) \in Int /\ Total(bag) \in Int
         /\ TwoLeast(bag) \in Int \X Int /\ TwoGreatest(bag) \in Int \X Int
PROOF
  <1>1. bag \in TimeBags
    BY DEF Counts, TimeBags
  <1>2. \A b : Least(b) \in Int /\ Greatest(b) \in Int
    BY LeastIs, GreatestIs
  <1>. QED
    BY <1>1, <1>2, TimesAndTotal DEF TwoLeast, TwoGreatest

(* A table with another row in the place of one.                           *)
LEMMA RowReplaced ==
  ASSUME NEW data \in Seq(RowData), NEW k \in 1..Len(data), NEW d \in RowData
  PROVE  /\ [data EXCEPT ![k] = d] \in Seq(RowData)
         /\ Len([data EXCEPT ![k] = d]) = Len(data)
         /\ [data EXCEPT ![k] = d][k] = d
         /\ \A j \in 1..Len(data) : j # k => [data EXCEPT ![k] = d][j] = data[j]
PROOF
  <1>. HIDE DEF RowData
  <1>. QED
    OBVIOUS

LEMMA NamesKept ==
  ASSUME NEW data, NEW new, NEW bags, Len(new) = Len(data),
         \A j \in 1..Len(data) : new[j].Name = data[j].Name,
         RowsDiffer(data), NoneLost(data, bags)
  PROVE  RowsDiffer(new) /\ NoneLost(new, bags)
PROOF
  <1>1. RowsDiffer(new)
    BY DEF RowsDiffer
  <1>2. NoneLost(new, bags)
    <2>1. ASSUME NEW tag \in Tags, \A j \in 1..Len(new) : new[j].Name # tag
          PROVE  \A j \in 1..Len(data) : data[j].Name # tag
      BY <2>1
    <2>. QED
      BY <2>1 DEF NoneLost
  <1>. QED
    BY <1>1, <1>2

LEMMA EmptyTable ==
  ASSUME NEW bags, bags = NoSamples, NEW e
  PROVE  TableInv(<< >>, 0, "idle", 0, e, bags)
PROOF
  <1>1. bags \in [Tags -> Counts]
    BY DEF NoSamples, Counts
  <1>2. << >> \in Seq(RowData) /\ Len(<< >>) = 0
    OBVIOUS
  <1>3. RowsCounted(<< >>, 0, 0)
    BY ProfileAssumption DEF RowsCounted
  <1>. QED
    BY <1>1, <1>2, <1>3
    DEF TableInv, UpdateAt, RowsDiffer, RowsKept, NoneLost, NoSamples

LEMMA KnownKeeps ==
  ASSUME NEW data, NEW count, NEW e, NEW bags,
         TableInv(data, count, "idle", 0, e, bags),
         NEW k \in 1..Len(data), NEW ns \in Elapsed
  PROVE  TableInv(AddTime(data, k, ns), count, "call", k, ns, bags)
PROOF
  <1>. DEFINE new == AddTime(data, k, ns)
  <1>1. /\ data \in Seq(RowData) /\ count \in Nat /\ bags \in [Tags -> Counts]
        /\ RowsCounted(data, count, 0)
        /\ RowsDiffer(data) /\ RowsKept(data, "idle", 0, e, bags)
        /\ NoneLost(data, bags)
    BY DEF TableInv
  <1>2. ns \in Int /\ \A j \in 1..Len(data) : data[j] \in RowData
    BY <1>1, ProfileAssumption
  <1>3. /\ new \in Seq(RowData) /\ Len(new) = Len(data)
        /\ \A j \in 1..Len(data) : j # k => new[j] = data[j]
        /\ new[k] = [data[k] EXCEPT !.TotalTime = @ + ns]
    <2>. DEFINE d == [data[k] EXCEPT !.TotalTime = @ + ns]
    <2>1. data[k] \in RowData /\ ns \in Int
      BY <1>2
    <2>2. d \in RowData
      BY <2>1, SMTT(60) DEF RowData
    <2>3. new = [data EXCEPT ![k] = d]
      BY DEF AddTime
    <2>. HIDE DEF d, new
    <2>4. /\ new \in Seq(RowData) /\ Len(new) = Len(data) /\ new[k] = d
          /\ \A j \in 1..Len(data) : j # k => new[j] = data[j]
      BY <1>1, <2>2, <2>3, RowReplaced
    <2>. QED
      BY <2>4 DEF d
  <1>4. /\ \A j \in 1..Len(data) : new[j].Name = data[j].Name
        /\ new[k].TotalTime = data[k].TotalTime + ns
        /\ new[k].Call = data[k].Call /\ new[k].Min = data[k].Min
        /\ new[k].Max = data[k].Max /\ data[k].TotalTime \in Int
    BY ZenonT(60), <1>2, <1>3 DEF RowData
  <1>. HIDE DEF new
  <1>5. RowsCounted(new, count, k)
    BY <1>1, <1>3 DEF RowsCounted
  <1>6. ASSUME NEW j \in 1..Len(data)
        PROVE  RowHas(new[j], bags[new[j].Name], IF j = k THEN ns ELSE 0, 0)
    <2>1. RowHas(data[j], bags[data[j].Name], 0, 0) /\ bags[data[j].Name] \in Counts
      BY <1>1, <1>2 DEF RowsKept, RowData
    <2>2. Total(bags[data[j].Name]) \in Int
      BY <2>1, CountsAre
    <2>3. CASE j = k
      BY <1>2, <1>4, <2>1, <2>2, <2>3 DEF RowHas
    <2>4. CASE j # k
      BY <1>3, <2>1, <2>4
    <2>. QED
      BY <2>3, <2>4
  <1>7. RowsKept(new, "call", k, ns, bags)
    BY <1>3, <1>6 DEF RowsKept
  <1>8. RowsDiffer(new) /\ NoneLost(new, bags)
    BY <1>1, <1>3, <1>4, NamesKept
  <1>. QED
    BY <1>1, <1>3, <1>5, <1>7, <1>8 DEF TableInv, UpdateAt, new

LEMMA NewKeeps ==
  ASSUME NEW data, NEW count, NEW e, NEW bags,
         TableInv(data, count, "idle", 0, e, bags), count + 1 <= ProfileMax,
         NEW tag \in Tags, \A j \in 1..Len(data) : data[j].Name # tag,
         NEW ns \in Elapsed
  PROVE  TableInv(AddTime(Append(data, NewRow(tag)), count + 1, ns), count, "call",
                  count + 1, ns, bags)
PROOF
  <1>. DEFINE k == count + 1
              new == AddTime(Append(data, NewRow(tag)), k, ns)
  <1>1. /\ data \in Seq(RowData) /\ count \in Nat /\ bags \in [Tags -> Counts]
        /\ RowsCounted(data, count, 0)
        /\ RowsDiffer(data) /\ RowsKept(data, "idle", 0, e, bags)
        /\ NoneLost(data, bags)
    BY DEF TableInv
  <1>2. /\ ns \in Int /\ \A j \in 1..Len(data) : data[j] \in RowData
        /\ ProfileMax \in Nat /\ LongLongMax \in Int
    BY <1>1, ProfileAssumption
  <1>3. Len(data) = count
    BY <1>1, <1>2 DEF RowsCounted
  <1>4. NewRow(tag) \in RowData
    BY <1>2 DEF NewRow, RowData
  <1>5. /\ new \in Seq(RowData) /\ Len(new) = k
        /\ \A j \in 1..Len(data) : new[j] = data[j]
        /\ new[k] = [NewRow(tag) EXCEPT !.TotalTime = @ + ns]
    <2>. DEFINE mid == Append(data, NewRow(tag))
    <2>1. /\ mid \in Seq(RowData) /\ Len(mid) = k /\ mid[k] = NewRow(tag)
          /\ \A j \in 1..Len(data) : mid[j] = data[j]
      BY <1>1, <1>3, <1>4
    <2>. HIDE DEF mid
    <2>2. [NewRow(tag) EXCEPT !.TotalTime = @ + ns] \in RowData
      BY SMTT(60), <1>2, <1>4 DEF RowData
    <2>3. AddTime(mid, k, ns) = [mid EXCEPT ![k] = [NewRow(tag) EXCEPT !.TotalTime = @ + ns]]
      BY <2>1 DEF AddTime
    <2>4. k \in 1..Len(mid) /\ k \notin 1..Len(data)
      BY <1>1, <1>3, <2>1
    <2>5. /\ AddTime(mid, k, ns) \in Seq(RowData) /\ Len(AddTime(mid, k, ns)) = k
          /\ \A j \in 1..Len(data) : AddTime(mid, k, ns)[j] = mid[j]
          /\ AddTime(mid, k, ns)[k] = [NewRow(tag) EXCEPT !.TotalTime = @ + ns]
      <3>1. \A j \in 1..Len(data) : j \in 1..Len(mid) /\ j # k
        BY <1>1, <1>3, <2>1
      <3>2. Len(mid) = k /\ mid \in Seq(RowData) /\ k \in 1..Len(mid)
        BY <2>1, <2>4
      <3>. DEFINE d == [NewRow(tag) EXCEPT !.TotalTime = @ + ns]
      <3>3. d \in RowData /\ AddTime(mid, k, ns) = [mid EXCEPT ![k] = d]
        BY <2>2, <2>3
      <3>. HIDE DEF d, k
      <3>4. /\ AddTime(mid, k, ns) \in Seq(RowData) /\ Len(AddTime(mid, k, ns)) = Len(mid)
            /\ AddTime(mid, k, ns)[k] = d
            /\ \A j \in 1..Len(mid) : j # k => AddTime(mid, k, ns)[j] = mid[j]
        BY <3>2, <3>3, RowReplaced
      <3>. QED
        BY <3>1, <3>2, <3>4 DEF d
    <2>. QED
      BY <2>1, <2>5 DEF mid
  <1>6. /\ new[k].Name = tag /\ new[k].TotalTime = 0 + ns /\ new[k].Call = 0
        /\ new[k].Min = << LongLongMax, LongLongMax >> /\ new[k].Max = << 0, 0 >>
    BY <1>5 DEF NewRow
  <1>7. 1..k = 1..Len(data) \cup {k} /\ k \in 1..k /\ k \notin 1..Len(data)
    BY <1>1, <1>3
  <1>. HIDE DEF new
  <1>8. RowsCounted(new, count, k)
    BY <1>1, <1>5, <1>2 DEF RowsCounted
  <1>. HIDE DEF k
  <1>9. RowHas(new[k], bags[tag], ns, 0)
    <2>1. bags[tag] = [m \in Elapsed |-> 0]
      BY <1>1 DEF NoneLost
    <2>. QED
      BY <2>1, <1>2, <1>6, NoTimes DEF RowHas
  <1>10. ASSUME NEW j \in 1..Len(data) PROVE RowHas(new[j], bags[new[j].Name], 0, 0)
    BY <1>1, <1>5 DEF RowsKept
  <1>11. RowsKept(new, "call", k, ns, bags)
    BY <1>5, <1>6, <1>7, <1>9, <1>10 DEF RowsKept
  <1>12. RowsDiffer(new)
    <2>1. /\ \A j \in 1..Len(data) : new[j].Name = data[j].Name /\ new[j].Name # new[k].Name
          /\ Len(new) = k
      BY <1>5, <1>6
    <2>. QED
      BY <1>1, <1>7, <2>1 DEF RowsDiffer
  <1>13. NoneLost(new, bags)
    BY <1>1, <1>5, <1>7 DEF NoneLost
  <1>14. k \in Nat
    BY <1>1 DEF k
  <1>. QED
    BY <1>1, <1>5, <1>7, <1>8, <1>11, <1>12, <1>13, <1>14 DEF TableInv, UpdateAt, new, k

LEMMA CallKeeps ==
  ASSUME NEW data, NEW count, NEW e, NEW r, NEW bags,
         TableInv(data, count, "call", r, e, bags)
  PROVE  TableInv([data EXCEPT ![r].Call = @ + 1], count, "extremes", r, e, bags)
PROOF
  <1>. DEFINE new == [data EXCEPT ![r].Call = @ + 1]
  <1>1. /\ data \in Seq(RowData) /\ count \in Nat /\ bags \in [Tags -> Counts]
        /\ r \in Nat /\ r \in 1..Len(data) /\ e \in Elapsed
        /\ RowsCounted(data, count, r)
        /\ RowsDiffer(data) /\ RowsKept(data, "call", r, e, bags)
        /\ NoneLost(data, bags)
    BY DEF TableInv, UpdateAt
  <1>2. \A j \in 1..Len(data) : data[j] \in RowData
    BY <1>1
  <1>3. /\ new \in Seq(RowData) /\ Len(new) = Len(data)
        /\ \A j \in 1..Len(data) : j # r => new[j] = data[j]
        /\ new[r] = [data[r] EXCEPT !.Call = @ + 1]
    <2>. DEFINE d == [data[r] EXCEPT !.Call = @ + 1]
    <2>1. data[r] \in RowData
      BY <1>1, <1>2
    <2>2. d \in RowData
      BY <2>1, SMTT(60) DEF RowData
    <2>3. new = [data EXCEPT ![r] = d]
      OBVIOUS
    <2>. HIDE DEF d, new
    <2>4. /\ new \in Seq(RowData) /\ Len(new) = Len(data) /\ new[r] = d
          /\ \A j \in 1..Len(data) : j # r => new[j] = data[j]
      BY <1>1, <2>2, <2>3, RowReplaced
    <2>. QED
      BY <2>4 DEF d
  <1>4. /\ \A j \in 1..Len(data) : new[j].Name = data[j].Name
        /\ new[r].Call = data[r].Call + 1
        /\ new[r].TotalTime = data[r].TotalTime /\ new[r].Min = data[r].Min
        /\ new[r].Max = data[r].Max
    BY <1>1, <1>2, <1>3 DEF RowData
  <1>. HIDE DEF new
  <1>5. RowsCounted(new, count, r)
    BY <1>1, <1>3 DEF RowsCounted
  <1>6. ASSUME NEW j \in 1..Len(data)
        PROVE  RowHas(new[j], bags[new[j].Name], IF j = r THEN e ELSE 0,
                      IF j = r THEN 1 ELSE 0)
    <2>1. /\ RowHas(data[j], bags[data[j].Name], IF j = r THEN e ELSE 0, 0)
          /\ bags[data[j].Name] \in Counts
      BY <1>1, <1>2 DEF RowsKept, RowData
    <2>2. Times(bags[data[j].Name]) \in Int
      BY <2>1, CountsAre
    <2>3. CASE j = r
      BY <1>4, <2>1, <2>2, <2>3 DEF RowHas
    <2>4. CASE j # r
      BY <1>3, <2>1, <2>4
    <2>. QED
      BY <2>3, <2>4
  <1>7. RowsKept(new, "extremes", r, e, bags)
    BY <1>3, <1>6 DEF RowsKept
  <1>8. RowsDiffer(new) /\ NoneLost(new, bags)
    BY <1>1, <1>3, <1>4, NamesKept
  <1>. QED
    BY <1>1, <1>3, <1>5, <1>7, <1>8 DEF TableInv, UpdateAt, new

(* The row that Extremes leaves.                                           *)
WithExtremes(data, r, e) ==
  [data EXCEPT ![r].Min = MinWith(@, e), ![r].Max = MaxWith(@, e)]

LEMMA ExtremesKeep ==
  ASSUME NEW data, NEW count, NEW e, NEW r, NEW bags, NEW more, NEW tag, NEW counted,
         TableInv(data, count, "extremes", r, e, bags), tag = data[r].Name,
         more = [bags EXCEPT ![tag] = With(@, e)],
         counted = IF r > count THEN r ELSE count
  PROVE  TableInv(WithExtremes(data, r, e), counted, "idle", 0, 0, more)
PROOF
  <1>. DEFINE new == WithExtremes(data, r, e)
  <1>1. /\ data \in Seq(RowData) /\ count \in Nat /\ bags \in [Tags -> Counts]
        /\ r \in Nat /\ r \in 1..Len(data) /\ e \in Elapsed
        /\ RowsCounted(data, count, r)
        /\ RowsDiffer(data) /\ RowsKept(data, "extremes", r, e, bags)
        /\ NoneLost(data, bags)
    BY DEF TableInv, UpdateAt
  <1>2. /\ \A j \in 1..Len(data) : data[j] \in RowData
        /\ e \in Int /\ tag \in Tags /\ bags[tag] \in Counts
    <2>1. \A j \in 1..Len(data) : data[j] \in RowData
      BY <1>1
    <2>2. tag \in Tags
      BY <1>1, <2>1 DEF RowData
    <2>. QED
      BY <1>1, <2>1, <2>2, ProfileAssumption
  <1>3. /\ MinWith(data[r].Min, e) \in Int \X Int
        /\ MaxWith(data[r].Max, e) \in Int \X Int
    <2>1. data[r].Min \in Int \X Int /\ data[r].Max \in Int \X Int
      BY <1>1, <1>2 DEF RowData
    <2>2. \A p \in Int \X Int : MinWith(p, e) \in Int \X Int /\ MaxWith(p, e) \in Int \X Int
      BY <1>2 DEF MinWith, MaxWith
    <2>. QED
      BY <2>1, <2>2
  <1>4. /\ new \in Seq(RowData) /\ Len(new) = Len(data)
        /\ \A j \in 1..Len(data) : j # r => new[j] = data[j]
        /\ new[r] = [data[r] EXCEPT !.Min = MinWith(@, e), !.Max = MaxWith(@, e)]
    <2>. DEFINE d == [data[r] EXCEPT !.Min = MinWith(@, e), !.Max = MaxWith(@, e)]
    <2>1. data[r] \in RowData
      BY <1>1, <1>2
    <2>2. d \in RowData
      BY <1>3, <2>1, Zenon DEF RowData
    <2>3. new = [data EXCEPT ![r] = d]
      BY <1>1 DEF WithExtremes
    <2>. HIDE DEF d, new
    <2>4. /\ new \in Seq(RowData) /\ Len(new) = Len(data) /\ new[r] = d
          /\ \A j \in 1..Len(data) : j # r => new[j] = data[j]
      BY <1>1, <2>2, <2>3, RowReplaced
    <2>. QED
      BY <2>4 DEF d
  <1>5. /\ \A j \in 1..Len(data) : new[j].Name = data[j].Name
        /\ new[r].TotalTime = data[r].TotalTime /\ new[r].Call = data[r].Call
        /\ new[r].Min = MinWith(data[r].Min, e) /\ new[r].Max = MaxWith(data[r].Max, e)
    <2>1. data[r] \in RowData
      BY <1>1, <1>2
    <2>2. /\ new[r].Name = data[r].Name
          /\ new[r].TotalTime = data[r].TotalTime /\ new[r].Call = data[r].Call
          /\ new[r].Min = MinWith(data[r].Min, e) /\ new[r].Max = MaxWith(data[r].Max, e)
      <3>. HIDE DEF new
      <3>. QED
        BY <1>4, <2>1 DEF RowData
    <2>. HIDE DEF new
    <2>. QED
      BY <1>4, <2>2
  <1>. HIDE DEF new
  <1>6. /\ more[tag] = With(bags[tag], e) /\ \A g \in Tags : g # tag => more[g] = bags[g]
        /\ With(bags[tag], e) \in Counts /\ more \in [Tags -> Counts]
    <2>1. With(bags[tag], e) \in Counts
      BY <1>1, <1>2 DEF With, Counts
    <2>. QED
      BY <1>1, <1>2, <2>1
  <1>7. /\ Times(more[tag]) = Times(bags[tag]) + 1
        /\ Total(more[tag]) = Total(bags[tag]) + e
        /\ TwoLeast(more[tag]) = MinWith(TwoLeast(bags[tag]), e)
        /\ TwoGreatest(more[tag]) = MaxWith(TwoGreatest(bags[tag]), e)
    <2>1. e * 1 = e /\ bags[tag] \in TimeBags /\ 1 \in Int
      BY <1>2, CountsAre
    <2>2. more[tag] = [bags[tag] EXCEPT ![e] = @ + 1]
      BY <1>6 DEF With
    <2>3. /\ Times(more[tag]) = Times(bags[tag]) + 1
          /\ Total(more[tag]) = Total(bags[tag]) + e * 1
      BY <1>1, <2>1, <2>2, TimesGrow
    <2>4. /\ TwoLeast(more[tag]) = MinWith(TwoLeast(bags[tag]), e)
          /\ TwoGreatest(more[tag]) = MaxWith(TwoGreatest(bags[tag]), e)
      BY <1>1, <1>2, <1>6, TwoLeastWith, TwoGreatestWith
    <2>. QED
      BY <2>1, <2>3, <2>4
  <1>8. ASSUME NEW j \in 1..Len(data) PROVE RowHas(new[j], more[new[j].Name], 0, 0)
    <2>1. CASE j = r
      <3>1. RowHas(data[r], bags[tag], e, 1)
        BY <1>1 DEF RowsKept
      <3>2. Times(bags[tag]) \in Int /\ Total(bags[tag]) \in Int
        BY <1>2, CountsAre
      <3>. QED
        BY <1>2, <1>5, <1>7, <2>1, <3>1, <3>2 DEF RowHas
    <2>2. CASE j # r
      <3>1. RowHas(data[j], bags[data[j].Name], 0, 0)
        BY <1>1, <2>2 DEF RowsKept
      <3>2. data[j].Name # tag /\ data[j].Name \in Tags
        BY <1>1, <1>2, <2>2 DEF RowsDiffer, RowData
      <3>. QED
        BY <1>4, <1>6, <2>2, <3>1, <3>2
    <2>. QED
      BY <2>1, <2>2
  <1>9. RowsKept(new, "idle", 0, 0, more)
    BY <1>4, <1>8 DEF RowsKept
  <1>10. RowsDiffer(new)
    BY <1>1, <1>4, <1>5 DEF RowsDiffer
  <1>11. NoneLost(new, more)
    <2>1. ASSUME NEW g \in Tags, \A j \in 1..Len(new) : new[j].Name # g
          PROVE  more[g] = [ns \in Elapsed |-> 0]
      <3>1. g # tag /\ \A j \in 1..Len(data) : data[j].Name # g
        BY <1>1, <1>4, <1>5, <2>1
      <3>. QED
        BY <1>1, <1>6, <3>1 DEF NoneLost
    <2>. QED
      BY <2>1 DEF NoneLost
  <1>12. counted \in Nat /\ RowsCounted(new, counted, 0)
    BY <1>1, <1>4 DEF RowsCounted
  <1>. QED
    BY <1>4, <1>6, <1>9, <1>10, <1>11, <1>12 DEF TableInv, UpdateAt, new

LEMMA RefusedKeeps ==
  ASSUME NEW data, NEW count, NEW e, NEW bags, NEW more \in {count, count + 1},
         TableInv(data, count, "idle", 0, e, bags), count >= ProfileMax
  PROVE  TableInv(data, more, "idle", 0, e, bags)
PROOF
  <1>1. count \in Nat /\ more \in Nat /\ ProfileMax \in Nat
    BY ProfileAssumption DEF TableInv
  <1>2. RowsCounted(data, more, 0)
    BY <1>1 DEF RowsCounted, TableInv
  <1>. QED
    BY <1>1, <1>2 DEF TableInv


(* Every thread's table, and the scopes it is in.                          *)
ProfileInv ==
  /\ profileData \in [Threads -> Seq(RowData)] /\ profileCount \in [Threads -> Nat]
  /\ step \in [Threads -> {"idle", "call", "extremes"}]
  /\ row \in [Threads -> Nat] /\ elapsed \in [Threads -> Nat]
  /\ samples \in [Threads -> [Tags -> Counts]]
  /\ scopes \in [Threads -> Seq(Tags)]
  /\ \A t \in Threads : TableInv(profileData[t], profileCount[t], step[t], row[t],
                                  elapsed[t], samples[t])

LEMMA ProfileInvInit == ProfileInit => ProfileInv
PROOF
  <1>. SUFFICES ASSUME ProfileInit PROVE ProfileInv
    OBVIOUS
  <1>1. NoSamples \in [Tags -> Counts]
    BY DEF NoSamples, Counts
  <1>2. \A t \in Threads : TableInv(profileData[t], profileCount[t], step[t], row[t],
                                    elapsed[t], samples[t])
    BY EmptyTable DEF ProfileInit
  <1>. QED
    BY <1>1, <1>2 DEF ProfileInit, ProfileInv

(* A step of t is one of its table.                                        *)
LEMMA TableStep ==
  ASSUME ProfileInv, NEW t \in Threads, NEW data, NEW count, NEW st, NEW r, NEW e,
         NEW bags, TableInv(data, count, st, r, e, bags), e \in Nat,
         scopes' \in [Threads -> Seq(Tags)],
         profileData' = [profileData EXCEPT ![t] = data],
         profileCount' = [profileCount EXCEPT ![t] = count],
         step' = [step EXCEPT ![t] = st], row' = [row EXCEPT ![t] = r],
         elapsed' = [elapsed EXCEPT ![t] = e], samples' = [samples EXCEPT ![t] = bags]
  PROVE  ProfileInv'
PROOF
  <1>1. /\ data \in Seq(RowData) /\ count \in Nat /\ r \in Nat
        /\ bags \in [Tags -> Counts] /\ st \in {"idle", "call", "extremes"}
    BY DEF TableInv, UpdateAt
  <1>. HIDE DEF RowData, Counts
  <1>2. /\ profileData' \in [Threads -> Seq(RowData)] /\ profileCount' \in [Threads -> Nat]
        /\ step' \in [Threads -> {"idle", "call", "extremes"}]
        /\ row' \in [Threads -> Nat] /\ elapsed' \in [Threads -> Nat]
        /\ samples' \in [Threads -> [Tags -> Counts]]
    BY <1>1 DEF ProfileInv
  <1>3. /\ profileData'[t] = data /\ profileCount'[t] = count /\ step'[t] = st
        /\ row'[t] = r /\ elapsed'[t] = e /\ samples'[t] = bags
    BY DEF ProfileInv
  <1>4. \A u \in Threads \ {t} :
          /\ profileData'[u] = profileData[u] /\ profileCount'[u] = profileCount[u]
          /\ step'[u] = step[u] /\ row'[u] = row[u] /\ elapsed'[u] = elapsed[u]
          /\ samples'[u] = samples[u]
    BY DEF ProfileInv
  <1>5. \A u \in Threads : TableInv(profileData'[u], profileCount'[u], step'[u], row'[u],
                                    elapsed'[u], samples'[u])
    BY <1>3, <1>4 DEF ProfileInv
  <1>. QED
    BY <1>2, <1>5 DEF ProfileInv

LEMMA ScopesStay ==
  ASSUME ProfileInv, NEW t \in Threads
  PROVE  /\ \A tag \in Tags : [scopes EXCEPT ![t] = Append(@, tag)] \in [Threads -> Seq(Tags)]
         /\ scopes[t] # << >> =>
              /\ Last(scopes[t]) \in Tags
              /\ [scopes EXCEPT ![t] = Front(@)] \in [Threads -> Seq(Tags)]
PROOF
  <1>1. scopes \in [Threads -> Seq(Tags)] /\ scopes[t] \in Seq(Tags)
    BY DEF ProfileInv
  <1>2. scopes[t] # << >> => Last(scopes[t]) \in Tags /\ Front(scopes[t]) \in Seq(Tags)
    <2>1. SUFFICES ASSUME scopes[t] # << >>
                   PROVE  Last(scopes[t]) \in Tags /\ Front(scopes[t]) \in Seq(Tags)
      OBVIOUS
    <2>2. Len(scopes[t]) \in 1..Len(scopes[t])
      BY <1>1, <2>1
    <2>. QED
      BY <1>1, <2>2 DEF Last, Front
  <1>. QED
    BY <1>1, <1>2

LEMMA ProfileInvNext == ProfileInv /\ [ProfileNext]_profileVars => ProfileInv'
PROOF
  <1>. SUFFICES ASSUME ProfileInv, [ProfileNext]_profileVars PROVE ProfileInv'
    OBVIOUS
  <1>0. \A t \in Threads :
          /\ TableInv(profileData[t], profileCount[t], step[t], row[t], elapsed[t], samples[t])
          /\ profileData[t] \in Seq(RowData) /\ profileCount[t] \in Nat
          /\ row[t] \in Nat /\ elapsed[t] \in Nat
          /\ (step[t] = "idle" => row[t] = 0)
    BY DEF ProfileInv, TableInv, UpdateAt
  <1>1. CASE UNCHANGED profileVars
    BY <1>1 DEF profileVars, ProfileInv
  <1>2. ASSUME NEW t \in Threads, NEW tag \in Tags, Profile(t, tag) PROVE ProfileInv'
    BY <1>2, ScopesStay DEF Profile, ProfileInv
  <1>3. ASSUME NEW t \in Threads, NEW tag \in Tags, NEW ns \in Elapsed,
               step[t] = "idle", EndKnown(t, tag, ns), UNCHANGED samples,
               scopes' \in [Threads -> Seq(Tags)]
        PROVE  ProfileInv'
    <2>1. PICK k \in 1..Len(profileData[t]) :
            /\ profileData' = [profileData EXCEPT ![t] = AddTime(@, k, ns)]
            /\ Updates(t, k, ns) /\ UNCHANGED profileCount
      <3>1. RowsOf(t) = 1..Len(profileData[t])
        BY <1>0 DEF RowsOf
      <3>. QED
        BY <1>3, <3>1 DEF EndKnown
    <2>2. TableInv(AddTime(profileData[t], k, ns), profileCount[t], "call", k, ns, samples[t])
      BY <1>0, <1>3, KnownKeeps
    <2>3. ns \in Nat
      BY ProfileAssumption
    <2>4. /\ profileCount' = [profileCount EXCEPT ![t] = profileCount[t]]
          /\ samples' = [samples EXCEPT ![t] = samples[t]]
      BY <1>3, <2>1 DEF ProfileInv
    <2>. QED
      BY <1>3, <2>1, <2>2, <2>3, <2>4, TableStep DEF Updates
  <1>4. ASSUME NEW t \in Threads, NEW tag \in Tags, NEW ns \in Elapsed,
               step[t] = "idle", EndNew(t, tag, ns), UNCHANGED samples,
               scopes' \in [Threads -> Seq(Tags)]
        PROVE  ProfileInv'
    <2>. DEFINE k == profileCount[t] + 1
                data == AddTime(Append(profileData[t], NewRow(tag)), k, ns)
    <2>1. /\ profileData' = [profileData EXCEPT ![t] = data] /\ Updates(t, k, ns)
          /\ UNCHANGED profileCount /\ k <= ProfileMax
          /\ \A j \in 1..Len(profileData[t]) : profileData[t][j].Name # tag
      BY <1>0, <1>4 DEF EndNew, Unknown, RowsOf
    <2>2. TableInv(data, profileCount[t], "call", k, ns, samples[t])
      BY <1>0, <1>4, <2>1, NewKeeps
    <2>3. ns \in Nat
      BY ProfileAssumption
    <2>4. /\ profileCount' = [profileCount EXCEPT ![t] = profileCount[t]]
          /\ samples' = [samples EXCEPT ![t] = samples[t]]
      BY <1>4, <2>1 DEF ProfileInv
    <2>. HIDE DEF k, data
    <2>. QED
      BY <1>4, <2>1, <2>2, <2>3, <2>4, TableStep DEF Updates
  <1>5. ASSUME NEW t \in Threads, NEW tag \in Tags, step[t] = "idle",
               EndRefused(t, tag), UNCHANGED samples, scopes' \in [Threads -> Seq(Tags)]
        PROVE  ProfileInv'
    <2>1. PICK more \in {profileCount[t], profileCount[t] + 1} :
            profileCount' = [profileCount EXCEPT ![t] = more]
      <3>1. UNCHANGED profileCount => profileCount' = [profileCount EXCEPT ![t] = profileCount[t]]
        BY DEF ProfileInv
      <3>. QED
        BY <1>5, <3>1 DEF EndRefused
    <2>2. TableInv(profileData[t], more, "idle", 0, elapsed[t], samples[t])
      BY <1>0, <1>5, RefusedKeeps DEF EndRefused
    <2>3. /\ profileData' = [profileData EXCEPT ![t] = profileData[t]]
          /\ step' = [step EXCEPT ![t] = "idle"] /\ row' = [row EXCEPT ![t] = 0]
          /\ elapsed' = [elapsed EXCEPT ![t] = elapsed[t]]
          /\ samples' = [samples EXCEPT ![t] = samples[t]]
      BY <1>0, <1>5 DEF EndRefused, ProfileInv
    <2>. QED
      BY <1>0, <1>5, <2>1, <2>2, <2>3, TableStep
  <1>6. ASSUME NEW t \in Threads, End(t) PROVE ProfileInv'
    <2>. DEFINE tag == Last(scopes[t])
    <2>1. tag \in Tags /\ scopes' \in [Threads -> Seq(Tags)]
      BY <1>6, ScopesStay DEF End
    <2>. HIDE DEF tag
    <2>2. /\ step[t] = "idle" /\ UNCHANGED samples
          /\ \/ \E ns \in Elapsed : EndKnown(t, tag, ns) \/ EndNew(t, tag, ns)
             \/ EndRefused(t, tag)
      BY <1>6 DEF End, tag
    <2>. QED
      BY <1>3, <1>4, <1>5, <2>1, <2>2
  <1>7. ASSUME NEW t \in Threads, AddCall(t) PROVE ProfileInv'
    <2>. DEFINE data == [profileData[t] EXCEPT ![row[t]].Call = @ + 1]
    <2>1. TableInv(data, profileCount[t], "extremes", row[t], elapsed[t], samples[t])
      BY <1>0, <1>7, CallKeeps DEF AddCall
    <2>2. /\ profileData' = [profileData EXCEPT ![t] = data]
          /\ step' = [step EXCEPT ![t] = "extremes"]
      BY <1>7 DEF AddCall
    <2>. HIDE DEF data
    <2>3. /\ profileCount' = [profileCount EXCEPT ![t] = profileCount[t]]
          /\ row' = [row EXCEPT ![t] = row[t]] /\ elapsed' = [elapsed EXCEPT ![t] = elapsed[t]]
          /\ samples' = [samples EXCEPT ![t] = samples[t]]
          /\ scopes' \in [Threads -> Seq(Tags)]
      BY <1>7 DEF AddCall, ProfileInv
    <2>. QED
      BY <1>0, <2>1, <2>2, <2>3, TableStep
  <1>8. ASSUME NEW t \in Threads, Extremes(t) PROVE ProfileInv'
    <2>. DEFINE r == row[t]
                e == elapsed[t]
                data == WithExtremes(profileData[t], r, e)
                tag == profileData[t][r].Name
                more == [samples[t] EXCEPT ![tag] = With(@, e)]
    <2>1. TableInv(data, Counted(t), "idle", 0, 0, more)
      <3>1. TableInv(profileData[t], profileCount[t], "extremes", r, e, samples[t])
        BY <1>0, <1>8 DEF Extremes
      <3>2. /\ Counted(t) = IF r > profileCount[t] THEN r ELSE profileCount[t]
            /\ more = [samples[t] EXCEPT ![tag] = With(@, e)]
            /\ tag = profileData[t][r].Name
        BY SMTT(60) DEF Counted
      <3>. HIDE DEF r, e, tag, more
      <3>. QED
        BY <3>1, <3>2, ExtremesKeep
    <2>2. /\ profileData' = [profileData EXCEPT ![t] = data]
          /\ samples' = [samples EXCEPT ![t] = more]
      BY Zenon, <1>8 DEF Extremes, With, WithExtremes
    <2>3. /\ profileCount' = [profileCount EXCEPT ![t] = Counted(t)]
          /\ step' = [step EXCEPT ![t] = "idle"] /\ row' = [row EXCEPT ![t] = 0]
          /\ elapsed' = [elapsed EXCEPT ![t] = 0] /\ scopes' \in [Threads -> Seq(Tags)]
      BY <1>8 DEF Extremes, ProfileInv
    <2>. HIDE DEF r, e, data, tag, more
    <2>. QED
      BY Zenon, <2>1, <2>2, <2>3, TableStep
  <1>9. ASSUME NEW t \in Threads, DataOutText(t) PROVE ProfileInv'
    BY <1>9 DEF DataOutText, ProfileInv
  <1>10. ASSUME NEW t \in Threads, ClearTables(t) PROVE ProfileInv'
    <2>1. TableInv(<< >>, 0, "idle", 0, elapsed[t], NoSamples)
      BY EmptyTable
    <2>2. /\ step' = [step EXCEPT ![t] = "idle"] /\ row' = [row EXCEPT ![t] = 0]
          /\ elapsed' = [elapsed EXCEPT ![t] = elapsed[t]]
          /\ scopes' \in [Threads -> Seq(Tags)]
      BY <1>0, <1>10 DEF ClearTables, ProfileInv
    <2>. QED
      BY <1>0, <1>10, <2>1, <2>2, TableStep DEF ClearTables
  <1>. QED
    BY <1>1, <1>2, <1>6, <1>7, <1>8, <1>9, <1>10 DEF ProfileNext

LEMMA TablesExact == ProfileInv => ProfileExact
PROOF
  <1>. SUFFICES ASSUME ProfileInv, NEW t \in Threads, step[t] = "idle"
                PROVE  /\ \A k, j \in RowsOf(t) :
                            profileData[t][k].Name = profileData[t][j].Name => k = j
                       /\ \A k \in RowsOf(t) :
                            RowIsOf(profileData[t][k], samples[t][profileData[t][k].Name])
                       /\ \A tag \in Tags : Unknown(t, tag) => Times(samples[t][tag]) = 0
    BY DEF ProfileExact
  <1>. DEFINE data == profileData[t]
              bags == samples[t]
  <1>1. /\ data \in Seq(RowData) /\ bags \in [Tags -> Counts] /\ RowsOf(t) = 1..Len(data)
        /\ RowsDiffer(data) /\ NoneLost(data, bags)
        /\ \A k \in 1..Len(data) : RowHas(data[k], bags[data[k].Name], 0, 0)
    <2>1. TableInv(data, profileCount[t], "idle", row[t], elapsed[t], bags)
      BY DEF ProfileInv
    <2>2. /\ data \in Seq(RowData) /\ bags \in [Tags -> Counts]
          /\ RowsDiffer(data) /\ NoneLost(data, bags)
          /\ RowsKept(data, "idle", row[t], elapsed[t], bags)
      BY <2>1 DEF TableInv
    <2>3. RowsOf(t) = 1..Len(data)
      BY <2>2 DEF RowsOf
    <2>4. \A k \in 1..Len(data) : RowHas(data[k], bags[data[k].Name], 0, 0)
      BY <2>2 DEF RowsKept
    <2>. QED
      BY <2>2, <2>3, <2>4
  <1>2. \A tag \in Tags : Unknown(t, tag) => Times(bags[tag]) = 0
    BY <1>1, NoTimes DEF NoneLost, Unknown
  <1>3. ASSUME NEW k \in RowsOf(t) PROVE RowIsOf(data[k], bags[data[k].Name])
    <2>. DEFINE d == data[k]
                bag == bags[d.Name]
    <2>1. RowHas(d, bag, 0, 0) /\ d \in RowData
      BY <1>1, <1>3
    <2>2. bag \in Counts
      BY <1>1, <2>1 DEF RowData
    <2>. HIDE DEF d, bag
    <2>3. Times(bag) \in Int /\ Total(bag) \in Int
      BY <2>2, CountsAre
    <2>4. d.Call = Times(bag) /\ d.TotalTime = Total(bag) /\ d.Min = TwoLeast(bag)
          /\ d.Max = TwoGreatest(bag)
      BY <2>1, <2>3 DEF RowHas
    <2>5. Times(bag) > 4 => Average(d) = << Total(Others(bag)), Times(Others(bag)) >>
      BY <2>2, <2>3, <2>4, OthersAre DEF Average
    <2>. QED
      BY <2>4, <2>5 DEF RowIsOf, d, bag
  <1>. QED
    BY <1>1, <1>2, <1>3 DEF RowsDiffer

(* Between two scopes the table of every thread says exactly what the      *)
(* thread's scopes have taken.                                             *)
THEOREM RowsAreExact == ProfileSpec => []ProfileExact
PROOF
  <1>1. ProfileInit => ProfileInv
    BY ProfileInvInit
  <1>2. ProfileInv /\ [ProfileNext]_profileVars => ProfileInv'
    BY ProfileInvNext
  <1>. QED
    BY <1>1, <1>2, TablesExact, PTL DEF ProfileSpec
-----------------------------------------------------------------------------
(* Folds over a sequence, from the left: the last element is entered last. *)

LEMMA UpTo ==
  ASSUME NEW n \in Nat, NEW T, 0 \in T, \A k \in 1..n : k - 1 \in T => k \in T
  PROVE  0..n \subseteq T
PROOF
  <1>. DEFINE bad == { k \in 0..n : k \notin T }
  <1>1. SUFFICES ASSUME bad # {} PROVE FALSE
    OBVIOUS
  <1>2. PICK k \in bad : \A m \in bad : k <= m
    <2>1. bad \in SUBSET Nat
      OBVIOUS
    <2>. HIDE DEF bad
    <2>. QED
      BY <1>1, <2>1, LeastNumber
  <1>3. k \in 1..n /\ k - 1 \notin bad /\ k \notin T /\ k - 1 \in 0..n
    BY <1>2
  <1>. QED
    BY <1>3

PickLast(n) == [s \in SUBSET (1..n) |-> Max(s)]

LEMMA MaxIs ==
  ASSUME NEW n \in Nat, NEW s \in SUBSET (1..n), s # {}
  PROVE  Max(s) \in s /\ \A m \in s : m <= Max(s)
PROOF
  <1>. DEFINE U == { n - m : m \in s }
  <1>1. U \in SUBSET Nat /\ U # {}
    <2>1. \A m \in s : n - m \in Nat
      OBVIOUS
    <2>. QED
      BY <2>1
  <1>2. PICK u \in U : \A m \in U : u <= m
    BY <1>1, LeastNumber, Zenon
  <1>3. PICK g \in s : u = n - g
    BY <1>2
  <1>4. ASSUME NEW m \in s PROVE m <= g
    <2>1. n - m \in U
      OBVIOUS
    <2>2. m \in Int /\ g \in Int /\ u <= n - m
      BY <1>2, <2>1
    <2>. QED
      BY <1>3, <2>2
  <1>. QED
    BY <1>3, <1>4 DEF Max

FoldsLeft(h, n, V, base, F) ==
  /\ h \in [SUBSET (1..n) -> V]
  /\ \A s \in SUBSET (1..n) :
       h[s] = IF s = {} THEN base ELSE F[Max(s)][h[s \ {Max(s)}]]

LEMMA LeftFolds ==
  ASSUME NEW n \in Nat, NEW V, NEW base \in V, NEW F \in [1..n -> [V -> V]]
  PROVE  \E h : FoldsLeft(h, n, V, base, F)
PROOF
  <1>. DEFINE c == PickLast(n)
  <1>1. \A s \in SUBSET (1..n) : c[s] = Max(s)
    BY DEF PickLast
  <1>. HIDE DEF c
  <1>2. Picks(c, 1..n)
    BY <1>1, MaxIs DEF Picks
  <1>3. IsFiniteSet(1..n)
    BY FS_Interval
  <1>4. PICK h \in [SUBSET (1..n) -> V] : \A s \in SUBSET (1..n) : Folding(h, s, c, base, F)
    BY <1>2, <1>3, FoldExists
  <1>5. \A s \in SUBSET (1..n) :
          h[s] = IF s = {} THEN base ELSE F[Max(s)][h[s \ {Max(s)}]]
    BY <1>1, <1>4 DEF Folding
  <1>. QED
    BY <1>5 DEF FoldsLeft

(* The sets that are left when elements are taken off the end.             *)
LEMMA PrefixSets ==
  ASSUME NEW n \in Nat, NEW k \in 1..n
  PROVE  /\ Max(1..k) = k /\ (1..k) \ {k} = 1..(k - 1) /\ 1..k # {}
         /\ 1..k \in SUBSET (1..n) /\ 1..(k - 1) \in SUBSET (1..n)
         /\ 1..0 = {}
PROOF
  <1>1. 1..k # {} /\ 1..k \in SUBSET (1..n) /\ k \in 1..k
    <2>1. k \in 1..k /\ \A m \in 1..k : m \in 1..n
      OBVIOUS
    <2>. QED
      BY <2>1
  <1>2. Max(1..k) \in 1..k /\ k <= Max(1..k)
    BY <1>1, MaxIs
  <1>3. (1..k) \ {k} = 1..(k - 1) /\ 1..(k - 1) \in SUBSET (1..n) /\ 1..0 = {}
    OBVIOUS
  <1>. QED
    BY <1>1, <1>2, <1>3

-----------------------------------------------------------------------------
(* PacketCode: the three folds over the fields of a packet. *)

CodeFields == [type : Types, name : FieldNames]
Values == Seq(Units) \cup {NoText}
Reading == [args : Seq(Values), left : Seq(Units)]

(* p[k]: how far a fold is after k fields.                                 *)
SizesAdd(fs, p) ==
  /\ p \in [0..Len(fs) -> Nat] /\ p[0] = 0
  /\ \A k \in 1..Len(fs) : p[k] = p[k - 1] + Width[fs[k].type]

Bytes == Seq(Units)
Join(s, t) == s \o t

WritesAll(fs, args, p) ==
  /\ p \in [0..Len(fs) -> Bytes] /\ p[0] = << >>
  /\ \A k \in 1..Len(fs) : p[k] = Join(p[k - 1], args[fs[k].name])

PutsAll(fs, args, p) ==
  /\ p \in [0..Len(fs) -> Bytes] /\ p[0] = << >>
  /\ \A k \in 1..Len(fs) : p[k] = PutInto(p[k - 1], args[fs[k].name])

ReadsAll(fs, st, p) ==
  /\ p \in [0..Len(fs) -> Reading] /\ p[0] = st
  /\ \A k \in 1..Len(fs) : p[k] = Read(p[k - 1], fs[k])

SizeStep(fs, h, s) == IF s = {} THEN 0 ELSE h[s \ {Max(s)}] + Width[fs[Max(s)].type]
WriteStep(fs, args, h, s) ==
  IF s = {} THEN << >> ELSE PutInto(h[s \ {Max(s)}], args[fs[Max(s)].name])
ReadStep(fs, st, h, s) == IF s = {} THEN st ELSE Read(h[s \ {Max(s)}], fs[Max(s)])

SizeFold(fs, h) == h = [s \in SUBSET DOMAIN fs |-> SizeStep(fs, h, s)]
WriteFold(fs, args, h) == h = [s \in SUBSET DOMAIN fs |-> WriteStep(fs, args, h, s)]
ReadFold(fs, st, h) == h = [s \in SUBSET DOMAIN fs |-> ReadStep(fs, st, h, s)]

LEMMA FoldsAre ==
  ASSUME NEW fs, NEW args, NEW st
  PROVE  /\ SizeSum(fs) = (CHOOSE h : SizeFold(fs, h))[DOMAIN fs]
         /\ ArgumentBytes(fs, args) = (CHOOSE h : WriteFold(fs, args, h))[DOMAIN fs]
         /\ FoldLeft(Read, st, fs) = (CHOOSE h : ReadFold(fs, st, h))[DOMAIN fs]
PROOF
  <1>1. SizeSum(fs) = (CHOOSE h : SizeFold(fs, h))[DOMAIN fs]
    BY DEF SizeSum, FoldLeft, MapThenFoldSet, SizeFold, SizeStep
  <1>2. ArgumentBytes(fs, args) = (CHOOSE h : WriteFold(fs, args, h))[DOMAIN fs]
    BY DEF ArgumentBytes, FoldLeft, MapThenFoldSet, WriteFold, WriteStep
  <1>3. FoldLeft(Read, st, fs) = (CHOOSE h : ReadFold(fs, st, h))[DOMAIN fs]
    BY DEF FoldLeft, MapThenFoldSet, ReadFold, ReadStep
  <1>. QED
    BY <1>1, <1>2, <1>3

LEMMA SizeIs ==
  ASSUME NEW fs \in Seq(CodeFields)
  PROVE  \E p : SizesAdd(fs, p) /\ SizeSum(fs) = p[Len(fs)]
PROOF
  <1>. DEFINE n == Len(fs)
              F == [x \in 1..n |-> [v \in Nat |-> v + Width[fs[x].type]]]
  <1>1. n \in Nat /\ DOMAIN fs = 1..n /\ \A x \in 1..n : Width[fs[x].type] \in Nat
    <2>1. ASSUME NEW x \in 1..n PROVE fs[x].type \in Types
      <3>1. fs[x] \in CodeFields
        OBVIOUS
      <3>. QED
        BY <3>1 DEF CodeFields
    <2>2. \A t \in Types : Width[t] \in Nat
      BY CodeAssumption
    <2>. QED
      BY <2>1, <2>2
  <1>2. F \in [1..n -> [Nat -> Nat]]
    BY <1>1
  <1>. HIDE DEF n
  <1>3. PICK h : FoldsLeft(h, n, Nat, 0, F)
    <2>. HIDE DEF F
    <2>. QED
      BY <1>1, <1>2, LeftFolds
  <1>4. \A s \in SUBSET (1..n) : h[s] = SizeStep(fs, h, s)
    <2>1. ASSUME NEW s \in SUBSET (1..n), s # {}
          PROVE  F[Max(s)][h[s \ {Max(s)}]] = h[s \ {Max(s)}] + Width[fs[Max(s)].type]
      <3>1. Max(s) \in 1..n /\ h[s \ {Max(s)}] \in Nat
        BY <1>1, <1>3, <2>1, MaxIs DEF FoldsLeft
      <3>. QED
        BY <3>1
    <2>. HIDE DEF F
    <2>. QED
      BY <1>3, <2>1 DEF SizeStep, FoldsLeft
  <1>5. SizeFold(fs, h)
    <2>1. h = [s \in SUBSET DOMAIN fs |-> h[s]]
      BY <1>1, <1>3 DEF FoldsLeft
    <2>. QED
      BY <1>1, <1>4, <2>1 DEF SizeFold
  <1>6. PICK g : SizeFold(fs, g) /\ SizeSum(fs) = g[1..n]
    BY <1>1, <1>5, FoldsAre
  <1>7. \A s \in SUBSET (1..n) : g[s] = SizeStep(fs, g, s)
    BY <1>1, <1>6 DEF SizeFold
  <1>. DEFINE p == [k \in 0..n |-> g[1..k]]
  <1>8. p[0] = 0
    <2>1. 1..0 = {} /\ 0 \in 0..n
      BY <1>1
    <2>2. g[{}] = 0
      BY <1>7 DEF SizeStep
    <2>. QED
      BY <2>1, <2>2
  <1>9. ASSUME NEW k \in 1..n PROVE p[k] = p[k - 1] + Width[fs[k].type]
    <2>1. g[1..k] = g[1..(k - 1)] + Width[fs[k].type]
      <3>. DEFINE s == 1..k
      <3>1. /\ s \in SUBSET (1..n) /\ s # {} /\ Max(s) = k
            /\ s \ {Max(s)} = 1..(k - 1)
        BY <1>1, PrefixSets
      <3>. HIDE DEF s
      <3>2. g[s] = g[1..(k - 1)] + Width[fs[k].type]
        BY <1>7, <3>1 DEF SizeStep
      <3>. QED
        BY <3>2 DEF s
    <2>2. k \in 0..n /\ k - 1 \in 0..n
      BY <1>1
    <2>. QED
      BY <2>1, <2>2
  <1>10. p \in [0..n -> Nat]
    <2>. DEFINE T == { k \in 0..n : p[k] \in Nat }
    <2>1. 0 \in T /\ \A k \in 1..n : k - 1 \in T => k \in T
      <3>1. 0 \in 0..n /\ \A k \in 1..n : k \in 0..n
        BY <1>1
      <3>. HIDE DEF p
      <3>2. ASSUME NEW k \in 1..n, k - 1 \in T PROVE k \in T
        BY <1>1, <1>9, <3>1, <3>2
      <3>. QED
        BY <1>8, <3>1, <3>2
    <2>2. 0..n \subseteq T
      <3>. HIDE DEF T
      <3>. QED
        BY <1>1, <2>1, UpTo
    <2>. QED
      BY <2>2
  <1>11. SizeSum(fs) = p[n]
    BY <1>1, <1>6
  <1>. HIDE DEF p
  <1>12. SizesAdd(fs, p)
    BY <1>8, <1>9, <1>10 DEF SizesAdd, n
  <1>. QED
    BY <1>11, <1>12 DEF n

LEMMA WrittenIs ==
  ASSUME NEW fs \in Seq(CodeFields), NEW args,
         \A x \in 1..Len(fs) : args[fs[x].name] \in Seq(Units)
  PROVE  \E p : PutsAll(fs, args, p) /\ ArgumentBytes(fs, args) = p[Len(fs)]
PROOF
  <1>. DEFINE n == Len(fs)
              F == [x \in 1..n |-> [v \in Bytes |-> PutInto(v, args[fs[x].name])]]
  <1>1. /\ n \in Nat /\ DOMAIN fs = 1..n
        /\ \A x \in 1..n : \A v \in Bytes : PutInto(v, args[fs[x].name]) \in Bytes
        /\ << >> \in Bytes
    BY DEF Bytes, PutInto
  <1>2. F \in [1..n -> [Bytes -> Bytes]]
    BY <1>1
  <1>. HIDE DEF n
  <1>3. PICK h : FoldsLeft(h, n, Bytes, << >>, F)
    <2>. HIDE DEF F
    <2>. QED
      BY <1>1, <1>2, LeftFolds
  <1>4. \A s \in SUBSET (1..n) : h[s] = WriteStep(fs, args, h, s)
    <2>1. ASSUME NEW s \in SUBSET (1..n), s # {}
          PROVE  F[Max(s)][h[s \ {Max(s)}]] = PutInto(h[s \ {Max(s)}], args[fs[Max(s)].name])
      <3>1. Max(s) \in 1..n /\ h[s \ {Max(s)}] \in Bytes
        BY <1>1, <1>3, <2>1, MaxIs DEF FoldsLeft
      <3>. QED
        BY <3>1
    <2>. HIDE DEF F
    <2>. QED
      BY <1>3, <2>1 DEF WriteStep, FoldsLeft
  <1>5. WriteFold(fs, args, h)
    <2>1. h = [s \in SUBSET DOMAIN fs |-> h[s]]
      BY <1>1, <1>3 DEF FoldsLeft
    <2>. QED
      BY <1>1, <1>4, <2>1 DEF WriteFold
  <1>6. PICK g : WriteFold(fs, args, g) /\ ArgumentBytes(fs, args) = g[1..n]
    BY <1>1, <1>5, FoldsAre
  <1>7. \A s \in SUBSET (1..n) : g[s] = WriteStep(fs, args, g, s)
    BY <1>1, <1>6 DEF WriteFold
  <1>. DEFINE p == [k \in 0..n |-> g[1..k]]
  <1>8. p[0] = << >>
    <2>1. 1..0 = {} /\ 0 \in 0..n
      BY <1>1
    <2>2. g[{}] = << >>
      BY <1>7 DEF WriteStep
    <2>. QED
      BY <2>1, <2>2
  <1>9. ASSUME NEW k \in 1..n PROVE p[k] = PutInto(p[k - 1], args[fs[k].name])
    <2>1. g[1..k] = PutInto(g[1..(k - 1)], args[fs[k].name])
      <3>. DEFINE s == 1..k
      <3>1. /\ s \in SUBSET (1..n) /\ s # {} /\ Max(s) = k
            /\ s \ {Max(s)} = 1..(k - 1)
        BY <1>1, PrefixSets
      <3>. HIDE DEF s
      <3>2. g[s] = PutInto(g[1..(k - 1)], args[fs[k].name])
        BY <1>7, <3>1 DEF WriteStep
      <3>. QED
        BY <3>2 DEF s
    <2>2. k \in 0..n /\ k - 1 \in 0..n
      BY <1>1
    <2>. QED
      BY <2>1, <2>2
  <1>10. p \in [0..n -> Bytes]
    <2>. DEFINE T == { k \in 0..n : p[k] \in Bytes }
    <2>1. 0 \in T /\ \A k \in 1..n : k - 1 \in T => k \in T
      <3>1. 0 \in 0..n /\ \A k \in 1..n : k \in 0..n
        BY <1>1
      <3>. HIDE DEF p
      <3>2. ASSUME NEW k \in 1..n, k - 1 \in T PROVE k \in T
        BY <1>1, <1>9, <3>1, <3>2
      <3>. QED
        BY <1>1, <1>8, <3>1, <3>2
    <2>2. 0..n \subseteq T
      <3>. HIDE DEF T
      <3>. QED
        BY <1>1, <2>1, UpTo
    <2>. QED
      BY <2>2
  <1>11. ArgumentBytes(fs, args) = p[n]
    BY <1>1, <1>6
  <1>. HIDE DEF p
  <1>12. PutsAll(fs, args, p)
    BY <1>8, <1>9, <1>10 DEF PutsAll, n
  <1>. QED
    BY <1>11, <1>12 DEF n
LEMMA ReadType ==
  ASSUME NEW st \in Reading, NEW f \in CodeFields
  PROVE  Read(st, f) \in Reading
PROOF
  <1>. DEFINE w == Width[f.type]
  <1>1. w \in Nat /\ f.type \in Types
    <2>1. \A t \in Types : Width[t] \in Nat
      BY CodeAssumption
    <2>. QED
      BY <2>1 DEF CodeFields
  <1>. HIDE DEF w
  <1>2. /\ st.args \in Seq(Values) /\ st.left \in Seq(Units)
        /\ st = [args |-> st.args, left |-> st.left]
    BY DEF Reading
  <1>3. CASE w > Len(st.left)
    <2>1. Append(st.args, NoText) \in Seq(Values)
      <3>1. NoText \in Values
        BY DEF Values
      <3>. QED
        BY <1>2, <3>1
    <2>2. Read(st, f) = [args |-> Append(st.args, NoText), left |-> st.left]
      BY <1>2, <1>3 DEF Read, w
    <2>. QED
      BY <1>2, <2>1, <2>2 DEF Reading
  <1>4. CASE w <= Len(st.left)
    <2>1. /\ SubSeq(st.left, 1, w) \in Seq(Units)
          /\ SubSeq(st.left, w + 1, Len(st.left)) \in Seq(Units)
      BY <1>1, <1>2, <1>4
    <2>2. Append(st.args, SubSeq(st.left, 1, w)) \in Seq(Values)
      <3>1. SubSeq(st.left, 1, w) \in Values
        BY <2>1 DEF Values
      <3>. QED
        BY <1>2, <3>1
    <2>3. Read(st, f) = [args |-> Append(st.args, SubSeq(st.left, 1, w)),
                         left |-> SubSeq(st.left, w + 1, Len(st.left))]
      <3>1. ~ (w > Len(st.left))
        BY <1>1, <1>2, <1>4
      <3>. QED
        BY <3>1 DEF Read, w
    <2>. QED
      BY <2>1, <2>2, <2>3 DEF Reading
  <1>. QED
    BY <1>1, <1>2, <1>3, <1>4

LEMMA ReadIs ==
  ASSUME NEW fs \in Seq(CodeFields), NEW st \in Reading
  PROVE  \E p : ReadsAll(fs, st, p) /\ FoldLeft(Read, st, fs) = p[Len(fs)]
PROOF
  <1>. DEFINE n == Len(fs)
              F == [x \in 1..n |-> [v \in Reading |-> Read(v, fs[x])]]
  <1>1. /\ n \in Nat /\ DOMAIN fs = 1..n
        /\ \A x \in 1..n : \A v \in Reading : Read(v, fs[x]) \in Reading
    <2>1. \A x \in 1..n : fs[x] \in CodeFields
      OBVIOUS
    <2>. QED
      BY <2>1, ReadType
  <1>2. F \in [1..n -> [Reading -> Reading]]
    BY <1>1
  <1>. HIDE DEF n
  <1>3. PICK h : FoldsLeft(h, n, Reading, st, F)
    <2>. HIDE DEF F
    <2>. QED
      BY <1>1, <1>2, LeftFolds
  <1>4. \A s \in SUBSET (1..n) : h[s] = ReadStep(fs, st, h, s)
    <2>1. ASSUME NEW s \in SUBSET (1..n), s # {}
          PROVE  F[Max(s)][h[s \ {Max(s)}]] = Read(h[s \ {Max(s)}], fs[Max(s)])
      <3>1. Max(s) \in 1..n /\ h[s \ {Max(s)}] \in Reading
        BY <1>1, <1>3, <2>1, MaxIs DEF FoldsLeft
      <3>. QED
        BY <3>1
    <2>. HIDE DEF F
    <2>. QED
      BY <1>3, <2>1 DEF ReadStep, FoldsLeft
  <1>5. ReadFold(fs, st, h)
    <2>1. h = [s \in SUBSET DOMAIN fs |-> h[s]]
      BY <1>1, <1>3 DEF FoldsLeft
    <2>. QED
      BY <1>1, <1>4, <2>1 DEF ReadFold
  <1>6. PICK g : ReadFold(fs, st, g) /\ FoldLeft(Read, st, fs) = g[1..n]
    BY <1>1, <1>5, FoldsAre
  <1>7. \A s \in SUBSET (1..n) : g[s] = ReadStep(fs, st, g, s)
    BY <1>1, <1>6 DEF ReadFold
  <1>. DEFINE p == [k \in 0..n |-> g[1..k]]
  <1>8. p[0] = st
    <2>1. 1..0 = {} /\ 0 \in 0..n
      BY <1>1
    <2>2. g[{}] = st
      BY <1>7 DEF ReadStep
    <2>. QED
      BY <2>1, <2>2
  <1>9. ASSUME NEW k \in 1..n PROVE p[k] = Read(p[k - 1], fs[k])
    <2>1. g[1..k] = Read(g[1..(k - 1)], fs[k])
      <3>. DEFINE s == 1..k
      <3>1. /\ s \in SUBSET (1..n) /\ s # {} /\ Max(s) = k
            /\ s \ {Max(s)} = 1..(k - 1)
        BY <1>1, PrefixSets
      <3>. HIDE DEF s
      <3>2. g[s] = Read(g[1..(k - 1)], fs[k])
        BY <1>7, <3>1 DEF ReadStep
      <3>. QED
        BY <3>2 DEF s
    <2>2. k \in 0..n /\ k - 1 \in 0..n
      BY <1>1
    <2>. QED
      BY <2>1, <2>2
  <1>10. p \in [0..n -> Reading]
    <2>. DEFINE T == { k \in 0..n : p[k] \in Reading }
    <2>1. 0 \in T /\ \A k \in 1..n : k - 1 \in T => k \in T
      <3>1. 0 \in 0..n /\ \A k \in 1..n : k \in 0..n
        BY <1>1
      <3>. HIDE DEF p
      <3>2. ASSUME NEW k \in 1..n, k - 1 \in T PROVE k \in T
        BY <1>1, <1>9, <3>1, <3>2
      <3>. QED
        BY <1>8, <3>1, <3>2
    <2>2. 0..n \subseteq T
      <3>. HIDE DEF T
      <3>. QED
        BY <1>1, <2>1, UpTo
    <2>. QED
      BY <2>2
  <1>11. FoldLeft(Read, st, fs) = p[n]
    BY <1>1, <1>6
  <1>. HIDE DEF p
  <1>12. ReadsAll(fs, st, p)
    BY <1>8, <1>9, <1>10 DEF ReadsAll, n
  <1>. QED
    BY <1>11, <1>12 DEF n

(* What is put together is taken apart again.                              *)
LEMMA TakenApart ==
  ASSUME NEW S, NEW s \in Seq(S), NEW t \in Seq(S)
  PROVE  /\ SubSeq(s \o t, 1, Len(s)) = s
         /\ SubSeq(s \o t, Len(s) + 1, Len(s \o t)) = t
PROOF
  <1>1. Len(s \o t) = Len(s) + Len(t) /\ Len(s) \in Nat /\ Len(t) \in Nat
    OBVIOUS
  <1>2. SubSeq(s \o t, 1, Len(s)) = s
    <2>1. CASE Len(s) = 0
      <3>1. s = << >> /\ SubSeq(s \o t, 1, Len(s)) = << >>
        BY <2>1, <1>1, SubSeqEmpty
      <3>. QED
        BY <3>1
    <2>2. CASE Len(s) # 0
      <3>1. 1 \in 1..Len(s) /\ Len(s) \in 1..Len(s)
        BY <1>1, <2>2
      <3>2. SubSeq(s \o t, 1, Len(s)) = SubSeq(s, 1, Len(s))
        BY <3>1, SubSeqOfConcat1
      <3>. QED
        BY <3>2, SubSeqFull
    <2>. QED
      BY <2>1, <2>2
  <1>3. SubSeq(s \o t, Len(s) + 1, Len(s \o t)) = t
    <2>1. CASE Len(t) = 0
      <3>1. t = << >> /\ SubSeq(s \o t, Len(s) + 1, Len(s \o t)) = << >>
        BY <2>1, <1>1, SubSeqEmpty
      <3>. QED
        BY <3>1
    <2>2. CASE Len(t) # 0
      <3>. DEFINE a == Len(s) + 1
                  e == Len(s) + Len(t)
      <3>1. /\ a \in Len(s) + 1 .. Len(s) + Len(t)
            /\ e \in Len(s) + 1 .. Len(s) + Len(t)
            /\ a - Len(s) = 1 /\ e - Len(s) = Len(t) /\ e = Len(s \o t)
        BY <1>1, <2>2
      <3>. HIDE DEF a, e
      <3>2. SubSeq(s \o t, a, e) = SubSeq(t, a - Len(s), e - Len(s))
        BY <3>1, SubSeqOfConcat2
      <3>3. SubSeq(s \o t, a, e) = t
        BY <3>1, <3>2, SubSeqFull
      <3>. QED
        BY <3>1, <3>3 DEF a
    <2>. QED
      BY <2>1, <2>2
  <1>. QED
    BY <1>2, <1>3

LEMMA Joined ==
  ASSUME NEW s \in Bytes, NEW t \in Bytes
  PROVE  /\ Join(s, t) \in Bytes
         /\ Len(s) \in Nat /\ Len(t) \in Nat /\ Len(Join(s, t)) = Len(s) + Len(t)
         /\ SubSeq(Join(s, t), 1, Len(s)) = s
         /\ SubSeq(Join(s, t), Len(s) + 1, Len(Join(s, t))) = t
PROOF
  <1>1. s \in Seq(Units) /\ t \in Seq(Units)
    BY DEF Bytes
  <1>2. s \o t \in Seq(Units) /\ Len(s \o t) = Len(s) + Len(t)
    BY <1>1, ConcatProperties
  <1>3. Len(s) \in Nat /\ Len(t) \in Nat
    BY <1>1, LenProperties
  <1>4. /\ SubSeq(s \o t, 1, Len(s)) = s
        /\ SubSeq(s \o t, Len(s) + 1, Len(s \o t)) = t
    BY <1>1, TakenApart
  <1>. QED
    BY <1>2, <1>3, <1>4 DEF Bytes, Join

LEMMA JoinedThree ==
  ASSUME NEW s \in Bytes, NEW t \in Bytes, NEW u \in Bytes
  PROVE  Join(Join(s, t), u) = Join(s, Join(t, u))
PROOF
  <1>1. s \in Seq(Units) /\ t \in Seq(Units) /\ u \in Seq(Units)
    BY DEF Bytes
  <1>. QED
    BY <1>1, ConcatAssociative DEF Join

LEMMA JoinedSame ==
  ASSUME NEW s \in Bytes, NEW t \in Bytes, NEW u \in Bytes,
         Join(s, t) = Join(s, u)
  PROVE  t = u
PROOF
  <1>1. /\ SubSeq(Join(s, t), Len(s) + 1, Len(Join(s, t))) = t
        /\ SubSeq(Join(s, u), Len(s) + 1, Len(Join(s, u))) = u
    BY Joined
  <1>. QED
    BY <1>1

(* Nothing, put before or after.                                           *)
LEMMA JoinedNothing ==
  /\ << >> \in Bytes
  /\ \A s \in Bytes : Join(s, << >>) = s /\ Join(<< >>, s) = s
PROOF
  <1>1. << >> \in Seq(Units)
    OBVIOUS
  <1>2. \A s \in Seq(Units) : s \o << >> = s /\ << >> \o s = s
    BY ConcatEmptySeq
  <1>. QED
    BY <1>1, <1>2 DEF Bytes, Join

(* Every field has its argument, of the width of its type.                 *)
Fitting(fs, args) ==
  \A x \in 1..Len(fs) :
    args[fs[x].name] \in Bytes /\ Len(args[fs[x].name]) = Width[fs[x].type]

(* No sum on the way is greater than the last.                             *)
LEMMA SizesGrow ==
  ASSUME NEW fs \in Seq(CodeFields), NEW z, SizesAdd(fs, z)
  PROVE  \A k \in 0..Len(fs) : z[k] <= z[Len(fs)]
PROOF
  <1>. DEFINE n == Len(fs)
              T == { m \in 0..n : z[n - m] <= z[n] }
  <1>1. n \in Nat /\ 0 \in 0..n /\ n \in 0..n /\ n - 0 = n
    OBVIOUS
  <1>2. 0 \in T
    <2>1. z[n] \in Nat
      BY <1>1 DEF SizesAdd
    <2>. QED
      BY <1>1, <2>1
  <1>3. ASSUME NEW m \in 1..n, m - 1 \in T PROVE m \in T
    <2>1. /\ n - m \in 0..n /\ n - m + 1 \in 1..n /\ m \in 0..n
          /\ n - (m - 1) = n - m + 1 /\ n - m + 1 - 1 = n - m
      BY <1>1
    <2>2. Width[fs[n - m + 1].type] \in Nat
      <3>1. fs[n - m + 1] \in CodeFields
        BY <2>1
      <3>. QED
        BY <3>1, CodeAssumption DEF CodeFields
    <2>3. z[n - m + 1] = z[n - m] + Width[fs[n - m + 1].type]
      <3>1. \A k \in 1..n : z[k] = z[k - 1] + Width[fs[k].type]
        BY DEF SizesAdd
      <3>2. PICK k : k = n - m + 1
        OBVIOUS
      <3>3. k \in 1..n /\ k - 1 = n - m
        BY <2>1, <3>2
      <3>4. z[k] = z[k - 1] + Width[fs[k].type]
        BY <3>1, <3>3
      <3>. QED
        BY <3>2, <3>3, <3>4
    <2>4. z[n - m] \in Nat /\ z[n - m + 1] \in Nat /\ z[n] \in Nat
      <3>1. \A k \in 0..n : z[k] \in Nat
        BY DEF SizesAdd
      <3>2. n - m \in 0..n /\ n - m + 1 \in 0..n /\ n \in 0..n
        BY <1>1, <2>1
      <3>. QED
        BY <3>1, <3>2
    <2>5. z[n - m + 1] <= z[n]
      BY <1>3, <2>1
    <2>. QED
      BY <2>1, <2>2, <2>3, <2>4, <2>5
  <1>4. 0..n \subseteq T
    <2>. HIDE DEF T
    <2>. QED
      BY <1>1, <1>2, <1>3, UpTo
  <1>5. ASSUME NEW k \in 0..n PROVE z[k] <= z[n]
    <2>1. n - k \in 0..n /\ n - (n - k) = k
      OBVIOUS
    <2>. QED
      BY <1>4, <2>1
  <1>. QED
    BY <1>5

(* Fields that have room together are all put.                             *)
LEMMA NothingLeftOut ==
  ASSUME NEW fs \in Seq(CodeFields), NEW args, Fitting(fs, args),
         NEW z, SizesAdd(fs, z), z[Len(fs)] <= Room,
         NEW b, PutsAll(fs, args, b)
  PROVE  WritesAll(fs, args, b)
PROOF
  <1>. DEFINE n == Len(fs)
              T == { k \in 0..n : z[k] = Len(b[k]) }
  <1>1. n \in Nat /\ 0 \in 0..n /\ Room \in Nat
    BY CodeAssumption
  <1>2. 0 \in T
    BY <1>1 DEF SizesAdd, PutsAll
  <1>3. ASSUME NEW k \in 1..n, k - 1 \in T
        PROVE  k \in T /\ b[k] = Join(b[k - 1], args[fs[k].name])
    <2>1. k \in 0..n /\ k - 1 \in 0..n
      BY <1>1
    <2>2. b[k - 1] \in Bytes /\ z[k - 1] = Len(b[k - 1])
      BY <1>3, <2>1 DEF PutsAll
    <2>3. args[fs[k].name] \in Bytes /\ Len(args[fs[k].name]) = Width[fs[k].type]
      BY DEF Fitting
    <2>4. z[k] = z[k - 1] + Width[fs[k].type]
      BY DEF SizesAdd
    <2>5. z[k] <= Room
      <3>1. z[k] <= z[n]
        BY <2>1, SizesGrow
      <3>2. z[k] \in Nat /\ z[n] \in Nat
        <4>1. n \in 0..n
          BY <1>1
        <4>. QED
          BY <2>1, <4>1 DEF SizesAdd
      <3>. QED
        BY <1>1, <3>1, <3>2
    <2>6. b[k] = PutInto(b[k - 1], args[fs[k].name])
      BY DEF PutsAll
    <2>7. Len(b[k - 1]) + Len(args[fs[k].name]) <= Room
      BY <2>2, <2>3, <2>4, <2>5
    <2>8. b[k] = Join(b[k - 1], args[fs[k].name])
      BY <2>6, <2>7 DEF PutInto, Join
    <2>9. Len(Join(b[k - 1], args[fs[k].name])) = Len(b[k - 1]) + Width[fs[k].type]
      BY ZenonT(60), <2>2, <2>3, Joined
    <2>. QED
      BY <2>1, <2>2, <2>4, <2>8, <2>9
  <1>4. 0..n \subseteq T
    <2>1. \A k \in 1..n : k - 1 \in T => k \in T
      BY <1>3
    <2>. HIDE DEF T
    <2>. QED
      BY <1>1, <1>2, <2>1, UpTo
  <1>5. ASSUME NEW k \in 1..n PROVE b[k] = Join(b[k - 1], args[fs[k].name])
    <2>1. k - 1 \in 0..n
      BY <1>1
    <2>. HIDE DEF T
    <2>. QED
      BY <1>3, <1>4, <2>1
  <1>. QED
    BY <1>5 DEF PutsAll, WritesAll

(* The length of a message with room is the short its header announces.    *)
LEMMA ShortIs ==
  ASSUME NEW n \in Nat, n <= Room PROVE ShortOf(n) = n
PROOF
  <1>1. n <= 32767
    <2>1. Room \in Nat /\ Room <= 32767
      BY CodeAssumption
    <2>. QED
      BY <2>1
  <1>2. (n + 32768) % 65536 = n + 32768
    BY <1>1
  <1>. QED
    BY <1>1, <1>2 DEF ShortOf

(* The sizes add up to the length of what is written.                      *)
LEMMA LengthIs ==
  ASSUME NEW fs \in Seq(CodeFields), NEW args, Fitting(fs, args),
         NEW z, SizesAdd(fs, z), NEW b, WritesAll(fs, args, b)
  PROVE  \A k \in 0..Len(fs) : z[k] = Len(b[k])
PROOF
  <1>. DEFINE n == Len(fs)
              T == { k \in 0..n : z[k] = Len(b[k]) }
  <1>1. n \in Nat /\ 0 \in 0..n
    OBVIOUS
  <1>2. 0 \in T
    BY <1>1 DEF SizesAdd, WritesAll
  <1>3. ASSUME NEW k \in 1..n, k - 1 \in T PROVE k \in T
    <2>1. k \in 0..n /\ k - 1 \in 0..n
      BY <1>1
    <2>2. b[k - 1] \in Bytes
      BY <2>1 DEF WritesAll
    <2>3. args[fs[k].name] \in Bytes /\ Len(args[fs[k].name]) = Width[fs[k].type]
      BY DEF Fitting
    <2>4. Len(Join(b[k - 1], args[fs[k].name])) = Len(b[k - 1]) + Width[fs[k].type]
      BY ZenonT(60), <2>2, <2>3, Joined
    <2>5. z[k] = z[k - 1] + Width[fs[k].type] /\ b[k] = Join(b[k - 1], args[fs[k].name])
      BY DEF SizesAdd, WritesAll
    <2>6. z[k - 1] = Len(b[k - 1])
      BY <1>3
    <2>. QED
      BY <2>1, <2>4, <2>5, <2>6
  <1>4. 0..n \subseteq T
    <2>. HIDE DEF T
    <2>. QED
      BY <1>1, <1>2, <1>3, UpTo
  <1>. QED
    BY <1>4

(* What is written first stays at the front.                               *)
LEMMA FrontStays ==
  ASSUME NEW fs \in Seq(CodeFields), NEW args, Fitting(fs, args),
         NEW b, WritesAll(fs, args, b), NEW k \in 0..Len(fs)
  PROVE  \E r \in Bytes : b[Len(fs)] = Join(b[k], r)
PROOF
  <1>. DEFINE n == Len(fs)
              T == { m \in 0..n : \E r \in Bytes : b[n] = Join(b[n - m], r) }
  <1>1. n \in Nat /\ 0 \in 0..n /\ n \in 0..n /\ n - 0 = n
    OBVIOUS
  <1>2. 0 \in T
    <2>1. b[n] \in Bytes
      BY <1>1 DEF WritesAll
    <2>2. b[n] = Join(b[n], << >>) /\ << >> \in Bytes
      BY <2>1, JoinedNothing
    <2>. QED
      BY <1>1, <2>2
  <1>3. ASSUME NEW m \in 1..n, m - 1 \in T PROVE m \in T
    <2>. DEFINE j == n - m
    <2>1. /\ j \in 0..n /\ j + 1 \in 1..n /\ m \in 0..n
          /\ n - (m - 1) = j + 1 /\ (j + 1) - 1 = j
      BY <1>1
    <2>2. PICK r \in Bytes : b[n] = Join(b[j + 1], r)
      BY <1>3, <2>1
    <2>. HIDE DEF j
    <2>. DEFINE a == args[fs[j + 1].name]
    <2>3. a \in Bytes /\ b[j] \in Bytes /\ b[j + 1] = Join(b[j], a)
      BY <2>1 DEF Fitting, WritesAll
    <2>. HIDE DEF a
    <2>4. b[n] = Join(b[j], Join(a, r)) /\ Join(a, r) \in Bytes
      <3>1. Join(Join(b[j], a), r) = Join(b[j], Join(a, r))
        BY <2>3, JoinedThree
      <3>2. Join(a, r) \in Bytes
        BY <2>3, Joined
      <3>. QED
        BY <2>2, <2>3, <3>1, <3>2
    <2>5. b[n] = Join(b[n - m], Join(a, r))
      BY <2>4 DEF j
    <2>. QED
      BY <2>1, <2>4, <2>5
  <1>4. 0..n \subseteq T
    <2>. HIDE DEF T
    <2>. QED
      BY <1>1, <1>2, <1>3, UpTo
  <1>5. n - k \in 0..n /\ n - (n - k) = k
    OBVIOUS
  <1>. QED
    BY <1>4, <1>5

(* The reader is where the writer was: what it has read are the arguments, *)
(* and what is left is what was written after them.                        *)
ReadSoFar(fs, args, b, st, k) ==
  /\ b[Len(fs)] = Join(b[k], st[k].left)
  /\ Len(st[k].args) = k
  /\ \A q \in 1..k : st[k].args[q] = args[fs[q].name]

LEMMA ReaderFollows ==
  ASSUME NEW fs \in Seq(CodeFields), NEW args, Fitting(fs, args),
         NEW b, WritesAll(fs, args, b),
         NEW st, ReadsAll(fs, [args |-> << >>, left |-> b[Len(fs)]], st),
         NEW k \in 1..Len(fs), ReadSoFar(fs, args, b, st, k - 1)
  PROVE  ReadSoFar(fs, args, b, st, k)
PROOF
  <1>. DEFINE n == Len(fs)
              a == args[fs[k].name]
              was == st[k - 1]
  <1>1. k \in 0..n /\ k - 1 \in 0..n /\ k \in Nat
    OBVIOUS
  <1>2. a \in Bytes /\ Len(a) = Width[fs[k].type]
    BY DEF Fitting
  <1>3. b[k - 1] \in Bytes /\ b[k] = Join(b[k - 1], a)
    BY <1>1 DEF WritesAll
  <1>4. was \in Reading /\ st[k] = Read(was, fs[k])
    BY <1>1 DEF ReadsAll
  <1>5. /\ b[n] = Join(b[k - 1], was.left) /\ Len(was.args) = k - 1
        /\ \A q \in 1..(k - 1) : was.args[q] = args[fs[q].name]
    BY DEF ReadSoFar
  <1>6. PICK r \in Bytes : b[n] = Join(b[k], r)
    BY <1>1, FrontStays
  <1>7. a \in Values
    BY <1>2 DEF Values, Bytes
  <1>. HIDE DEF a, was
  <1>8. was.left = Join(a, r)
    <2>1. b[n] = Join(b[k - 1], Join(a, r)) /\ Join(a, r) \in Bytes /\ was.left \in Bytes
      <3>1. was.left \in Bytes
        BY <1>4 DEF Reading, Bytes
      <3>2. Join(Join(b[k - 1], a), r) = Join(b[k - 1], Join(a, r))
        BY <1>2, <1>3, JoinedThree
      <3>3. Join(a, r) \in Bytes
        BY <1>2, Joined
      <3>. QED
        BY <1>3, <1>6, <3>1, <3>2, <3>3
    <2>. QED
      BY ZenonT(60), <1>3, <1>5, <2>1, JoinedSame
  <1>9. /\ SubSeq(was.left, 1, Len(a)) = a
        /\ SubSeq(was.left, Len(a) + 1, Len(was.left)) = r
        /\ ~ (Len(a) > Len(was.left))
    <2>1. Len(Join(a, r)) = Len(a) + Len(r) /\ Len(a) \in Nat /\ Len(r) \in Nat
      BY <1>2, Joined
    <2>2. ~ (Len(a) > Len(Join(a, r)))
      BY <2>1
    <2>3. /\ SubSeq(Join(a, r), 1, Len(a)) = a
          /\ SubSeq(Join(a, r), Len(a) + 1, Len(Join(a, r))) = r
      BY <1>2, Joined
    <2>. QED
      BY <1>8, <2>2, <2>3
  <1>10. st[k] = [args |-> Append(was.args, a), left |-> r]
    BY <1>2, <1>4, <1>9 DEF Read
  <1>11. was.args \in Seq(Values)
    BY <1>4 DEF Reading
  <1>12. Len(Append(was.args, a)) = k
    BY <1>1, <1>5, <1>7, <1>11
  <1>13. ASSUME NEW q \in 1..k PROVE Append(was.args, a)[q] = args[fs[q].name]
    <2>1. CASE q = k
      BY <1>1, <1>5, <1>7, <1>11, <2>1 DEF a
    <2>2. CASE q # k
      <3>1. q \in 1..(k - 1) /\ q \in 1..Len(was.args)
        BY <1>1, <1>5, <2>2
      <3>2. Append(was.args, a)[q] = was.args[q]
        BY <1>7, <1>11, <3>1
      <3>. QED
        BY <1>5, <3>1, <3>2
    <2>. QED
      BY <2>1, <2>2
  <1>14. st[k].args = Append(was.args, a) /\ st[k].left = r
    BY <1>10
  <1>. QED
    BY <1>6, <1>12, <1>13, <1>14 DEF ReadSoFar

(* A message of the fields gives its reader the arguments of its writer.   *)
LEMMA MessageArrives ==
  ASSUME NEW fs \in Seq(CodeFields), NEW args, Fitting(fs, args),
         SizeSum(fs) <= Room
  PROVE  LET bytes == ArgumentBytes(fs, args)
             read == FoldLeft(Read, [args |-> << >>,
                                    left |-> SubSeq(bytes, 1, SizeSum(fs))], fs)
         IN  /\ SizeSum(fs) = Len(bytes) /\ SizeSum(fs) \in Nat
             /\ Len(read.args) = Len(fs)
             /\ \A q \in 1..Len(fs) : read.args[q] = args[fs[q].name]
PROOF
  <1>. DEFINE n == Len(fs)
              bytes == ArgumentBytes(fs, args)
              start == [args |-> << >>, left |-> SubSeq(bytes, 1, SizeSum(fs))]
  <1>1. n \in Nat /\ 0 \in 0..n /\ n \in 0..n
    OBVIOUS
  <1>2. PICK z : SizesAdd(fs, z) /\ SizeSum(fs) = z[n]
    BY SizeIs
  <1>3. PICK b : WritesAll(fs, args, b) /\ bytes = b[n]
    <2>1. \A x \in 1..Len(fs) : args[fs[x].name] \in Bytes
      BY DEF Fitting
    <2>2. PICK b : PutsAll(fs, args, b) /\ bytes = b[n]
      BY <2>1, WrittenIs DEF Bytes
    <2>. HIDE DEF bytes
    <2>. QED
      BY <1>2, <2>2, NothingLeftOut
  <1>4. SizeSum(fs) = Len(bytes)
    <2>1. \A k \in 0..Len(fs) : z[k] = Len(b[k])
      BY <1>2, <1>3, LengthIs
    <2>. QED
      BY <1>1, <1>2, <1>3, <2>1
  <1>5. bytes \in Bytes
    BY <1>1, <1>3 DEF WritesAll
  <1>6. start = [args |-> << >>, left |-> b[n]] /\ start \in Reading
    <2>. HIDE DEF bytes
    <2>1. SubSeq(bytes, 1, SizeSum(fs)) = bytes
      BY <1>4, <1>5, SubSeqFull DEF Bytes
    <2>2. << >> \in Seq(Values)
      OBVIOUS
    <2>. QED
      BY <1>3, <1>5, <2>1, <2>2 DEF Reading, Bytes
  <1>7. PICK st : ReadsAll(fs, start, st) /\ FoldLeft(Read, start, fs) = st[n]
    <2>. HIDE DEF start
    <2>. QED
      BY <1>6, ReadIs
  <1>. DEFINE T == { k \in 0..n : ReadSoFar(fs, args, b, st, k) }
  <1>8. 0 \in T
    <2>1. st[0] = [args |-> << >>, left |-> b[n]] /\ b[0] = << >>
      BY <1>3, <1>6, <1>7 DEF ReadsAll, WritesAll
    <2>2. b[n] = Join(<< >>, b[n])
      BY <1>3, <1>5, JoinedNothing
    <2>3. ReadSoFar(fs, args, b, st, 0)
      BY <2>1, <2>2 DEF ReadSoFar
    <2>. QED
      BY <1>1, <2>3
  <1>9. ASSUME NEW k \in 1..n, k - 1 \in T PROVE k \in T
    <2>1. k \in 0..n /\ ReadSoFar(fs, args, b, st, k - 1)
      BY <1>1, <1>9
    <2>2. ReadsAll(fs, [args |-> << >>, left |-> b[n]], st)
      BY <1>6, <1>7
    <2>3. ReadSoFar(fs, args, b, st, k)
      BY <1>3, <2>1, <2>2, ReaderFollows
    <2>. QED
      BY <2>1, <2>3
  <1>10. n \in T
    <2>1. 0..n \subseteq T
      <3>. HIDE DEF T
      <3>. QED
        BY <1>1, <1>8, <1>9, UpTo
    <2>. QED
      BY <1>1, <2>1
  <1>11. /\ Len(st[n].args) = n
         /\ \A q \in 1..n : st[n].args[q] = args[fs[q].name]
    BY <1>10 DEF ReadSoFar
  <1>12. SizeSum(fs) \in Nat
    BY <1>1, <1>2 DEF SizesAdd
  <1>. QED
    BY <1>4, <1>7, <1>11, <1>12

-----------------------------------------------------------------------------
(* PacketCode: what the sheet says and what has been read of it.           *)

CodePackets == [case : Cases, fields : Seq(CodeFields)]

FieldOf(r) == [type |-> r.type, name |-> r.name]

(* fs are the fields of the rows of packet n, each in the place of its row.*)
Columns(n, fs) ==
  /\ Len(fs) = Cardinality(FieldRows(n))
  /\ \A j \in FieldRows(n) : Place(j) \in 1..Len(fs) /\ fs[Place(j)] = FieldOf(rows[j])
  /\ \A q \in 1..Len(fs) : \E j \in FieldRows(n) : Place(j) = q

CodeInv ==
  /\ rows \in Seq(Rows) /\ packets \in Seq(CodePackets)
  /\ Len(packets) = Cardinality(Named)
  /\ \A k \in 1..Len(rows) : PacketOf(k) \in 0..Len(packets)
  /\ \A k \in Named : /\ PacketOf(k) \in 1..Len(packets)
                      /\ packets[PacketOf(k)].case = rows[k].case
  /\ \A n \in 1..Len(packets) : Columns(n, packets[n].fields)

LEMMA CodeInvInit == CodeInit => CodeInv
PROOF
  <1>1. SUFFICES ASSUME CodeInit PROVE CodeInv
    OBVIOUS
  <1>2. rows = << >> /\ packets = << >> /\ Len(rows) = 0 /\ Len(packets) = 0
    BY <1>1 DEF CodeInit
  <1>3. Named = {} /\ Cardinality(Named) = 0
    <2>1. Named = {}
      BY <1>2 DEF Named
    <2>. QED
      BY <2>1, FS_EmptySet
  <1>. QED
    BY <1>2, <1>3 DEF CodeInv

LEMMA CountsTo ==
  ASSUME NEW n \in Nat, NEW s \in SUBSET (1..n)
  PROVE  IsFiniteSet(s) /\ Cardinality(s) \in 0..n
PROOF
  <1>1. IsFiniteSet(1..n) /\ Cardinality(1..n) = n
    BY FS_Interval
  <1>2. IsFiniteSet(s) /\ Cardinality(s) <= n
    BY <1>1, FS_Subset
  <1>. QED
    BY <1>2, FS_CardinalityType

LEMMA CountsNext ==
  ASSUME NEW n \in Nat, NEW s \in SUBSET (1..n)
  PROVE  Cardinality(s \cup {n + 1}) = Cardinality(s) + 1
PROOF
  <1>1. IsFiniteSet(s) /\ n + 1 \notin s
    BY CountsTo
  <1>. QED
    BY <1>1, FS_AddElement

(* Row number l + 1 is read.                                               *)
OneRowMore(l, r) ==
  /\ rows \in Seq(Rows) /\ Len(rows) = l /\ rows' = Append(rows, r) /\ r \in Rows

(* The rows before it keep their packets.                                  *)
LEMMA RowsStay ==
  ASSUME NEW l \in Nat, NEW r, OneRowMore(l, r)
  PROVE  /\ Len(rows') = l + 1 /\ rows'[l + 1] = r /\ rows' \in Seq(Rows)
         /\ \A k \in 1..l : rows'[k] = rows[k]
         /\ Named \in SUBSET (1..l)
         /\ Named' = IF r.case = NoText THEN Named ELSE Named \cup {l + 1}
         /\ \A k \in 1..l : PacketOf(k)' = PacketOf(k)
         /\ PacketOf(l + 1)' = Cardinality(Named')
PROOF
  <1>1. /\ Len(rows') = l + 1 /\ rows'[l + 1] = r /\ rows' \in Seq(Rows)
        /\ Len(rows) = l
        /\ \A k \in 1..l : rows'[k] = rows[k]
    BY AppendProperties DEF OneRowMore
  <1>2. Named = { k \in 1..l : rows[k].case # NoText }
    BY <1>1 DEF Named
  <1>3. Named' = IF r.case = NoText THEN Named ELSE Named \cup {l + 1}
    <2>1. Named' = { k \in 1..(l + 1) : rows'[k].case # NoText }
      BY <1>1 DEF Named
    <2>2. 1..(l + 1) = 1..l \cup {l + 1}
      OBVIOUS
    <2>3. { k \in 1..l : rows'[k].case # NoText } = Named
      BY <1>1, <1>2
    <2>4. Named' = Named \cup { k \in {l + 1} : rows'[k].case # NoText }
      BY <2>1, <2>2, <2>3
    <2>. QED
      BY <1>1, <2>4
  <1>4. ASSUME NEW k \in 1..l PROVE PacketOf(k)' = PacketOf(k)
    <2>1. { j \in Named' : j <= k } = { j \in Named : j <= k }
      BY <1>3
    <2>. QED
      BY <2>1 DEF PacketOf
  <1>5. PacketOf(l + 1)' = Cardinality(Named')
    <2>1. \A j \in Named' : j <= l + 1
      BY <1>2, <1>3
    <2>2. { j \in Named' : j <= l + 1 } = Named'
      BY <2>1
    <2>. QED
      BY <2>2 DEF PacketOf
  <1>. QED
    BY <1>1, <1>2, <1>3, <1>4, <1>5

(* A packet's rows of fields, and their places: the new row is the last.   *)
LEMMA PlacesStay ==
  ASSUME NEW l \in Nat, NEW r, OneRowMore(l, r), NEW n, NEW m, m = PacketOf(l + 1)'
  PROVE  /\ FieldRows(n) \in SUBSET (1..l)
         /\ FieldRows(n)' = FieldRows(n) \cup (IF n = m /\ IsField(r) THEN {l + 1} ELSE {})
         /\ \A j \in FieldRows(n) : Place(j)' = Place(j)
         /\ l + 1 \in FieldRows(n)' => Place(l + 1)' = Cardinality(FieldRows(n)')
PROOF
  <1>1. /\ Len(rows') = l + 1 /\ rows'[l + 1] = r
        /\ \A k \in 1..l : rows'[k] = rows[k]
        /\ \A k \in 1..l : PacketOf(k)' = PacketOf(k)
        /\ PacketOf(l + 1)' = m
    BY RowsStay
  <1>2. Len(rows) = l
    BY DEF OneRowMore
  <1>3. ASSUME NEW p
        PROVE  /\ FieldRows(p) \in SUBSET (1..l)
               /\ FieldRows(p)' = FieldRows(p) \cup
                                  (IF p = m /\ IsField(r) THEN {l + 1} ELSE {})
    <2>1. FieldRows(p) = { k \in 1..l : PacketOf(k) = p /\ IsField(rows[k]) }
      BY <1>2 DEF FieldRows
    <2>2. FieldRows(p)' = { k \in 1..(l + 1) : PacketOf(k)' = p /\ IsField(rows'[k]) }
      BY <1>1 DEF FieldRows
    <2>3. 1..(l + 1) = 1..l \cup {l + 1}
      OBVIOUS
    <2>4. { k \in 1..l : PacketOf(k)' = p /\ IsField(rows'[k]) } = FieldRows(p)
      BY <1>1, <2>1
    <2>5. { k \in {l + 1} : PacketOf(k)' = p /\ IsField(rows'[k]) }
            = IF p = m /\ IsField(r) THEN {l + 1} ELSE {}
      BY <1>1
    <2>. QED
      BY <2>1, <2>2, <2>3, <2>4, <2>5
  <1>4. ASSUME NEW j \in FieldRows(n) PROVE Place(j)' = Place(j)
    <2>. DEFINE p == PacketOf(j)
    <2>1. j \in 1..l /\ PacketOf(j)' = p
      BY <1>1, <1>3
    <2>2. Place(j)' = Cardinality({ k \in FieldRows(PacketOf(j))' : k <= j })
      BY DEF Place
    <2>3. FieldRows(PacketOf(j))' = FieldRows(PacketOf(j)) \cup
                                  (IF p = m /\ IsField(r) THEN {l + 1} ELSE {})
      <3>1. PICK x : x = p
        OBVIOUS
      <3>2. FieldRows(x)' = FieldRows(x) \cup (IF x = m /\ IsField(r) THEN {l + 1} ELSE {})
        BY <1>3
      <3>3. FieldRows(PacketOf(j))' = FieldRows(x)'
        BY <2>1, <3>1 DEF FieldRows
      <3>4. FieldRows(PacketOf(j)) = FieldRows(x)
        BY <3>1
      <3>. QED
        BY <3>1, <3>2, <3>3, <3>4
    <2>4. { k \in FieldRows(PacketOf(j))' : k <= j }
            = { k \in FieldRows(PacketOf(j)) : k <= j }
      BY <2>1, <2>3
    <2>. QED
      BY <2>2, <2>4 DEF Place
  <1>5. ASSUME l + 1 \in FieldRows(n)' PROVE Place(l + 1)' = Cardinality(FieldRows(n)')
    <2>1. PacketOf(l + 1)' = n
      BY <1>5 DEF FieldRows
    <2>2. FieldRows(PacketOf(l + 1))' = FieldRows(n)'
      BY <2>1 DEF FieldRows
    <2>3. Place(l + 1)' = Cardinality({ k \in FieldRows(n)' : k <= l + 1 })
      BY <2>2 DEF Place
    <2>4. { k \in FieldRows(n)' : k <= l + 1 } = FieldRows(n)'
      BY <1>3
    <2>. QED
      BY <2>3, <2>4
  <1>. QED
    BY <1>3, <1>4, <1>5

(* A new column.                                                           *)
LEMMA ColumnsStay ==
  ASSUME NEW l \in Nat, NEW r, OneRowMore(l, r), NEW n, NEW m, m = PacketOf(l + 1)',
         NEW fs \in Seq(CodeFields), Columns(n, fs), NEW new,
         new = IF n = m /\ IsField(r) THEN Append(fs, FieldOf(r)) ELSE fs
  PROVE  new \in Seq(CodeFields) /\ Columns(n, new)'
PROOF
  <1>1. /\ FieldRows(n) \in SUBSET (1..l)
        /\ FieldRows(n)' = FieldRows(n) \cup (IF n = m /\ IsField(r) THEN {l + 1} ELSE {})
        /\ \A j \in FieldRows(n) : Place(j)' = Place(j)
        /\ l + 1 \in FieldRows(n)' => Place(l + 1)' = Cardinality(FieldRows(n)')
    BY PlacesStay
  <1>2. /\ rows'[l + 1] = r
        /\ \A k \in 1..l : rows'[k] = rows[k]
    BY RowsStay
  <1>3. /\ Len(fs) = Cardinality(FieldRows(n))
        /\ \A j \in FieldRows(n) : Place(j) \in 1..Len(fs) /\ fs[Place(j)] = FieldOf(rows[j])
        /\ \A q \in 1..Len(fs) : \E j \in FieldRows(n) : Place(j) = q
    BY DEF Columns
  <1>4. CASE n = m /\ IsField(r)
    <2>. DEFINE f == FieldOf(r)
    <2>1. f \in CodeFields
      BY <1>4 DEF OneRowMore, Rows, IsField, FieldOf, CodeFields
    <2>2. new = Append(fs, f)
      BY <1>4
    <2>. HIDE DEF f
    <2>3. /\ new \in Seq(CodeFields) /\ Len(new) = Len(fs) + 1 /\ Len(fs) \in Nat
          /\ new[Len(fs) + 1] = f /\ \A q \in 1..Len(fs) : new[q] = fs[q]
      BY <2>1, <2>2, AppendProperties, LenProperties
    <2>4. FieldRows(n)' = FieldRows(n) \cup {l + 1}
      BY <1>1, <1>4
    <2>5. Cardinality(FieldRows(n)') = Len(new) /\ Place(l + 1)' = Len(new)
      <3>1. Cardinality(FieldRows(n) \cup {l + 1}) = Cardinality(FieldRows(n)) + 1
        BY <1>1, CountsNext
      <3>. QED
        BY <1>1, <1>3, <2>3, <2>4, <3>1
    <2>6. ASSUME NEW j \in FieldRows(n)'
          PROVE  Place(j)' \in 1..Len(new) /\ new[Place(j)'] = FieldOf(rows'[j])
      <3>1. CASE j = l + 1
        <4>1. Place(j)' = Len(new)
          BY <2>5, <3>1 
        <4>. QED
          BY <1>2, <2>3, <3>1, <4>1 DEF f
      <3>2. CASE j # l + 1
        <4>1. j \in FieldRows(n) /\ j \in 1..l
          BY <1>1, <2>4, <3>2
        <4>2. /\ Place(j)' = Place(j) /\ Place(j) \in 1..Len(fs)
              /\ fs[Place(j)] = FieldOf(rows[j])
          BY <1>1, <1>3, <4>1
        <4>. QED
          BY <1>2, <2>3, <4>1, <4>2
      <3>. QED
        BY <3>1, <3>2
    <2>7. ASSUME NEW q \in 1..Len(new) PROVE \E j \in FieldRows(n)' : Place(j)' = q
      <3>1. CASE q = Len(new)
        BY <2>4, <2>5, <3>1
      <3>2. CASE q # Len(new)
        <4>1. q \in 1..Len(fs)
          BY <2>3, <3>2
        <4>. QED
          BY <1>1, <1>3, <2>4, <4>1
      <3>. QED
        BY <3>1, <3>2
    <2>8. Columns(n, new)'
      BY <2>5, <2>6, <2>7 DEF Columns
    <2>. QED
      BY <2>3, <2>8
  <1>5. CASE ~ (n = m /\ IsField(r))
    <2>1. new = fs /\ FieldRows(n)' = FieldRows(n)
      BY <1>1, <1>5
    <2>2. \A j \in FieldRows(n) : rows'[j] = rows[j]
      BY <1>1, <1>2
    <2>. QED
      BY ZenonT(60), <1>1, <1>3, <2>1, <2>2 DEF Columns
  <1>. QED
    BY <1>4, <1>5

(* The packets before the field of the row is looked at.                   *)
Opened(ps, r) ==
  IF r.case = NoText THEN ps ELSE Append(ps, [case |-> r.case, fields |-> << >>])

OpenedTo(ps, l, r) ==
  /\ ps \in Seq(CodePackets) /\ Len(ps) = Cardinality(Named')
  /\ Cardinality(Named') \in Nat
  /\ \A n \in 1..Len(packets) : ps[n].case = packets[n].case
  /\ Len(packets) <= Len(ps)
  /\ l + 1 \in Named' => Len(ps) > 0 /\ ps[Len(ps)].case = r.case
  /\ \A n \in 1..Len(ps) : Columns(n, ps[n].fields)

LEMMA OpenedIs ==
  ASSUME CodeInv, NEW l \in Nat, NEW r, OneRowMore(l, r),
         NEW ps, ps = Opened(packets, r)
  PROVE  OpenedTo(ps, l, r)
PROOF
  <1>1. /\ Named \in SUBSET (1..l)
        /\ Named' = IF r.case = NoText THEN Named ELSE Named \cup {l + 1}
    BY RowsStay
  <1>2. /\ packets \in Seq(CodePackets) /\ Len(packets) = Cardinality(Named)
        /\ \A k \in 1..l : PacketOf(k) \in 0..Len(packets)
        /\ \A n \in 1..Len(packets) : Columns(n, packets[n].fields)
        /\ Len(packets) \in Nat
    BY LenProperties DEF CodeInv, OneRowMore
  <1>3. CASE r.case = NoText
    <2>1. ps = packets /\ Named' = Named /\ l + 1 \notin Named'
      BY <1>1, <1>3 DEF Opened
    <2>. QED
      BY <1>2, <2>1 DEF OpenedTo
  <1>4. CASE r.case # NoText
    <2>. DEFINE new == [case |-> r.case, fields |-> << >>]
    <2>1. new \in CodePackets
      <3>1. r.case \in Cases
        BY <1>4 DEF OneRowMore, Rows
      <3>2. << >> \in Seq(CodeFields)
        OBVIOUS
      <3>. QED
        BY <3>1, <3>2 DEF CodePackets
    <2>2. ps = Append(packets, new)
      BY <1>4 DEF Opened
    <2>3. new.case = r.case /\ new.fields = << >>
      OBVIOUS
    <2>. HIDE DEF new
    <2>4. /\ ps \in Seq(CodePackets) /\ Len(ps) = Len(packets) + 1
          /\ ps[Len(packets) + 1] = new
          /\ \A n \in 1..Len(packets) : ps[n] = packets[n]
      BY <1>2, <2>1, <2>2, AppendProperties
    <2>5. Cardinality(Named') = Len(packets) + 1
      BY <1>1, <1>2, <1>4, CountsNext
    <2>6. ASSUME NEW n, n = Len(packets) + 1, NEW none, Len(none) = 0
          PROVE  Columns(n, none)
      <3>1. FieldRows(n) = {}
        <4>1. Len(rows) = l
          BY DEF OneRowMore
        <4>. QED
          BY <1>2, <2>6, <4>1 DEF FieldRows
      <3>2. Cardinality(FieldRows(n)) = 0
        BY <3>1, FS_EmptySet
      <3>3. 1..Len(none) = {}
        BY <2>6
      <3>. QED
        BY <2>6, <3>1, <3>2, <3>3 DEF Columns
    <2>7. ASSUME NEW n \in 1..Len(ps) PROVE Columns(n, ps[n].fields)
      <3>1. CASE n = Len(packets) + 1
        <4>1. Len(ps[n].fields) = 0
          BY <2>3, <2>4, <3>1
        <4>. QED
          BY <2>6, <3>1, <4>1
      <3>2. CASE n # Len(packets) + 1
        <4>1. n \in 1..Len(packets)
          BY <1>2, <2>4, <3>2
        <4>. QED
          BY <1>2, <2>4, <4>1
      <3>. QED
        BY <3>1, <3>2
    <2>. QED
      BY <1>2, <2>3, <2>4, <2>5, <2>7 DEF OpenedTo
  <1>. QED
    BY <1>3, <1>4

LEMMA FieldGoes ==
  ASSUME NEW ps \in Seq(CodePackets), NEW r \in Rows, NEW new, new = WithField(ps, r)
  PROVE  /\ Len(new) = Len(ps) /\ new = [n \in 1..Len(ps) |-> new[n]]
         /\ \A n \in 1..Len(ps) :
              /\ new[n].case = ps[n].case
              /\ new[n] = [case |-> ps[n].case, fields |-> new[n].fields]
              /\ new[n].fields = IF n = Len(ps) /\ IsField(r)
                                   THEN Append(ps[n].fields, FieldOf(r))
                                   ELSE ps[n].fields
PROOF
  <1>1. Len(ps) \in Nat /\ DOMAIN ps = 1..Len(ps)
    BY LenProperties
  <1>2. ASSUME NEW n \in 1..Len(ps)
        PROVE  /\ ps[n] \in CodePackets
               /\ ps[n] = [case |-> ps[n].case, fields |-> ps[n].fields]
    <2>1. ps[n] \in CodePackets
      BY ElementOfSeq
    <2>. QED
      BY <2>1 DEF CodePackets
  <1>3. CASE ps # << >> /\ IsField(r)
    <2>1. new = [ps EXCEPT ![Len(ps)].fields = Append(@, FieldOf(r))]
      BY <1>3 DEF WithField, FieldOf
    <2>2. DOMAIN new = 1..Len(ps)
      BY <1>1, <2>1
    <2>3. ASSUME NEW n \in 1..Len(ps)
          PROVE  new[n] = IF n = Len(ps) THEN [ps[n] EXCEPT !.fields = Append(@, FieldOf(r))]
                          ELSE ps[n]
      BY <1>1, <2>1
    <2>4. ASSUME NEW n \in 1..Len(ps)
          PROVE  /\ new[n].case = ps[n].case
                 /\ new[n] = [case |-> ps[n].case, fields |-> new[n].fields]
                 /\ new[n].fields = IF n = Len(ps) THEN Append(ps[n].fields, FieldOf(r))
                                    ELSE ps[n].fields
      <3>. DEFINE c == ps[n].case
                  fs == ps[n].fields
                  all == Append(fs, FieldOf(r))
      <3>1. ps[n] = [case |-> c, fields |-> fs]
        BY <1>2
      <3>2. new[n] = IF n = Len(ps) THEN [ps[n] EXCEPT !.fields = all] ELSE ps[n]
        BY <2>3
      <3>. HIDE DEF c, fs, all
      <3>3. [ps[n] EXCEPT !.fields = all] = [case |-> c, fields |-> all]
        BY <3>1
      <3>4. /\ new[n].case = c /\ new[n] = [case |-> c, fields |-> new[n].fields]
            /\ new[n].fields = IF n = Len(ps) THEN all ELSE fs
        BY <3>1, <3>2, <3>3
      <3>. QED
        BY <3>4 DEF c, fs, all
    <2>5. new = [n \in 1..Len(ps) |-> new[n]]
      BY <1>1, <2>1
    <2>6. Len(new) = Len(ps)
      BY <1>1, <2>2
    <2>. QED
      BY <1>3, <2>4, <2>5, <2>6
  <1>4. CASE ~ (ps # << >> /\ IsField(r))
    <2>1. new = ps /\ (ps = << >> => 1..Len(ps) = {})
      BY <1>4 DEF WithField
    <2>2. ps = [n \in 1..Len(ps) |-> ps[n]]
      BY <1>1
    <2>. QED
      BY <1>1, <1>2, <1>4, <2>1, <2>2
  <1>. QED
    BY <1>3, <1>4

LEMMA FieldAdded ==
  ASSUME CodeInv, NEW l \in Nat, NEW r, OneRowMore(l, r),
         NEW ps, ps = Opened(packets, r), NEW new, new = WithField(ps, r)
  PROVE  /\ new \in Seq(CodePackets) /\ Len(new) = Len(ps) /\ Len(new) = Cardinality(Named')
         /\ \A n \in 1..Len(new) : new[n].case = ps[n].case /\ Columns(n, new[n].fields)'
PROOF
  <1>1. /\ ps \in Seq(CodePackets) /\ Len(ps) = Cardinality(Named')
        /\ \A n \in 1..Len(ps) : Columns(n, ps[n].fields)
    <2>1. OpenedTo(ps, l, r)
      BY OpenedIs
    <2>. QED
      BY <2>1 DEF OpenedTo
  <1>2. r \in Rows
    BY DEF OneRowMore
  <1>3. /\ Len(new) = Len(ps) /\ new = [n \in 1..Len(ps) |-> new[n]]
        /\ \A n \in 1..Len(ps) :
              /\ new[n].case = ps[n].case
              /\ new[n] = [case |-> ps[n].case, fields |-> new[n].fields]
              /\ new[n].fields = IF n = Len(ps) /\ IsField(r)
                                   THEN Append(ps[n].fields, FieldOf(r))
                                   ELSE ps[n].fields
    BY <1>1, <1>2, FieldGoes
  <1>4. PICK m : m = PacketOf(l + 1)'
    OBVIOUS
  <1>5. m = Len(ps)
    BY <1>1, <1>4, RowsStay
  <1>6. ASSUME NEW n \in 1..Len(ps)
        PROVE  new[n] \in CodePackets /\ Columns(n, new[n].fields)'
    <2>. DEFINE was == ps[n].fields
                is == new[n].fields
    <2>1. ps[n].case \in Cases /\ was \in Seq(CodeFields) /\ Columns(n, was)
      <3>1. ps[n] \in CodePackets
        BY <1>1, ElementOfSeq
      <3>. QED
        BY <1>1, <3>1 DEF CodePackets
    <2>2. is = IF n = m /\ IsField(r) THEN Append(was, FieldOf(r)) ELSE was
      BY <1>3, <1>5
    <2>. HIDE DEF was
    <2>3. PICK fs : fs = is
      OBVIOUS
    <2>4. fs = IF n = m /\ IsField(r) THEN Append(was, FieldOf(r)) ELSE was
      BY <2>2, <2>3
    <2>5. fs \in Seq(CodeFields) /\ Columns(n, fs)'
      BY <1>4, <2>1, <2>4, ColumnsStay
    <2>6. new[n] = [case |-> ps[n].case, fields |-> fs]
      BY <1>3, <2>3
    <2>7. new[n] \in CodePackets
      BY <2>1, <2>5, <2>6 DEF CodePackets
    <2>. QED
      BY <2>3, <2>5, <2>7
  <1>7. new \in Seq(CodePackets)
    <2>1. [n \in 1..Len(ps) |-> new[n]] \in [1..Len(ps) -> CodePackets]
      BY <1>6
    <2>2. Len(ps) \in Nat
      BY <1>1, LenProperties
    <2>. QED
      BY <1>3, <2>1, <2>2, SeqDef
  <1>. QED
    BY <1>1, <1>3, <1>6, <1>7

LEMMA CodeInvNext == CodeInv /\ [CodeNext]_codeVars => CodeInv'
PROOF
  <1>1. SUFFICES ASSUME CodeInv, [CodeNext]_codeVars PROVE CodeInv'
    OBVIOUS
  <1>2. CASE UNCHANGED codeVars
    <2>1. rows' = rows /\ packets' = packets
      BY <1>2 DEF codeVars
    <2>2. Named' = Named
      BY <2>1 DEF Named
    <2>3. \A k : PacketOf(k)' = PacketOf(k)
      BY <2>2 DEF PacketOf
    <2>4. \A n : FieldRows(n)' = FieldRows(n)
      BY <2>1, <2>3 DEF FieldRows
    <2>5. \A k : Place(k)' = Place(k)
      BY <2>3, <2>4 DEF Place
    <2>6. \A n, fs : Columns(n, fs)' <=> Columns(n, fs)
      BY <2>1, <2>4, <2>5 DEF Columns
    <2>. QED
      BY <1>1, <2>1, <2>2, <2>3, <2>6 DEF CodeInv
  <1>3. ASSUME NEW r \in Rows, ProcessRow(r) PROVE CodeInv'
    <2>1. PICK l \in Nat : l = Len(rows)
      BY <1>1, LenProperties DEF CodeInv
    <2>2. OneRowMore(l, r)
      BY <1>1, <1>3, <2>1 DEF CodeInv, ProcessRow, OneRowMore
    <2>3. PICK ps : ps = Opened(packets, r)
      OBVIOUS
    <2>4. packets' = WithField(ps, r)
      BY <1>3, <2>3 DEF ProcessRow, Opened
    <2>5. PICK new : new = packets'
      OBVIOUS
    <2>6. /\ new \in Seq(CodePackets) /\ Len(new) = Len(ps) /\ Len(new) = Cardinality(Named')
          /\ \A n \in 1..Len(new) : new[n].case = ps[n].case /\ Columns(n, new[n].fields)'
      BY <1>1, <2>2, <2>3, <2>4, <2>5, FieldAdded
    <2>7. /\ Len(ps) = Cardinality(Named') /\ Cardinality(Named') \in Nat
          /\ \A n \in 1..Len(packets) : ps[n].case = packets[n].case
          /\ Len(packets) <= Len(ps)
          /\ l + 1 \in Named' => Len(ps) > 0 /\ ps[Len(ps)].case = r.case
      <3>1. OpenedTo(ps, l, r)
        BY <1>1, <2>2, <2>3, OpenedIs
      <3>. QED
        BY <3>1 DEF OpenedTo
    <2>8. /\ Len(rows') = l + 1 /\ rows'[l + 1] = r /\ rows' \in Seq(Rows)
          /\ \A k \in 1..l : rows'[k] = rows[k]
          /\ Named \in SUBSET (1..l)
          /\ Named' = IF r.case = NoText THEN Named ELSE Named \cup {l + 1}
          /\ \A k \in 1..l : PacketOf(k)' = PacketOf(k)
          /\ PacketOf(l + 1)' = Cardinality(Named')
      BY <2>2, RowsStay
    <2>9. /\ \A k \in 1..l : PacketOf(k) \in 0..Len(packets)
          /\ \A k \in Named : /\ PacketOf(k) \in 1..Len(packets)
                              /\ packets[PacketOf(k)].case = rows[k].case
          /\ Len(packets) \in Nat
      BY <1>1, <2>1, LenProperties DEF CodeInv
    <2>10. ASSUME NEW k \in 1..(l + 1) PROVE PacketOf(k)' \in 0..Len(new)
      <3>1. CASE k = l + 1
        <4>1. PacketOf(k)' = Cardinality(Named')
          BY <2>8, <3>1
        <4>. QED
          BY <2>6, <2>7, <4>1
      <3>2. CASE k # l + 1
        <4>1. k \in 1..l
          BY <3>2
        <4>. QED
          BY <2>6, <2>7, <2>8, <2>9, <4>1
      <3>. QED
        BY <3>1, <3>2
    <2>11. ASSUME NEW k \in Named'
           PROVE  PacketOf(k)' \in 1..Len(new) /\ new[PacketOf(k)'].case = rows'[k].case
      <3>1. CASE k = l + 1
        <4>1. PacketOf(k)' = Len(new)
          BY <2>6, <2>8, <3>1
        <4>2. Len(new) \in 1..Len(new) /\ Len(ps) > 0 /\ ps[Len(ps)].case = r.case
          BY <2>6, <2>7, <3>1
        <4>. QED
          BY <2>6, <2>8, <3>1, <4>1, <4>2
      <3>2. CASE k # l + 1
        <4>1. k \in Named /\ k \in 1..l
          BY <2>8, <3>2
        <4>2. /\ PacketOf(k)' = PacketOf(k) /\ PacketOf(k) \in 1..Len(packets)
              /\ packets[PacketOf(k)].case = rows[k].case /\ rows'[k] = rows[k]
          BY <2>8, <2>9, <4>1
        <4>3. PacketOf(k) \in 1..Len(new)
          BY <2>6, <2>7, <2>9, <4>2
        <4>. QED
          BY <2>6, <2>7, <4>2, <4>3
      <3>. QED
        BY <3>1, <3>2
    <2>. QED
      BY <2>5, <2>6, <2>8, <2>10, <2>11 DEF CodeInv
  <1>. QED
    BY <1>1, <1>2, <1>3 DEF CodeNext

(* A sheet that has been read so gives two programs that agree.            *)
LEMMA ColumnsAgree == CodeInv => GeneratedAgree
PROOF
  <1>1. SUFFICES ASSUME CodeInv, NEW k \in Named, HasRoom(PacketOf(k)),
                        NEW args \in Arguments(PacketOf(k))
                 PROVE  LET message == Made(PacketOf(k), args)
                            handled == Handled(message)
                            fields == FieldRows(PacketOf(k))
                        IN  /\ handled.case = rows[k].case
                            /\ Len(handled.args) = Cardinality(fields)
                            /\ \A j \in fields : handled.args[Place(j)] = args[rows[j].name]
                            /\ message.len = Len(message.bytes)
    BY DEF GeneratedAgree
  <1>2. PICK n : n = PacketOf(k)
    OBVIOUS
  <1>3. PICK fs : fs = packets[n].fields
    OBVIOUS
  <1>4. /\ n \in 1..Len(packets) /\ packets[n].case = rows[k].case
        /\ packets \in Seq(CodePackets) /\ Columns(n, fs) /\ Len(packets) \in Nat
    BY <1>1, <1>2, <1>3, LenProperties DEF CodeInv
  <1>5. fs \in Seq(CodeFields)
    <2>1. packets[n] \in CodePackets
      BY <1>4, ElementOfSeq
    <2>. QED
      BY <1>3, <2>1 DEF CodePackets
  <1>6. Fitting(fs, args)
    <2>1. ASSUME NEW q \in 1..Len(fs)
          PROVE  args[fs[q].name] \in Bytes /\ Len(args[fs[q].name]) = Width[fs[q].type]
      <3>1. PICK j \in FieldRows(n) : Place(j) = q /\ fs[q] = FieldOf(rows[j])
        BY <1>4 DEF Columns
      <3>2. fs[q].name = rows[j].name /\ fs[q].type = rows[j].type
        BY <3>1 DEF FieldOf
      <3>3. /\ args[rows[j].name] \in UNION { [1..Width[t] -> Units] : t \in Types }
            /\ Len(args[rows[j].name]) = Width[rows[j].type]
        BY <1>1, <1>2 DEF Arguments
      <3>4. PICK t \in Types : args[rows[j].name] \in [1..Width[t] -> Units]
        BY <3>3
      <3>5. Width[t] \in Nat
        BY CodeAssumption
      <3>6. args[rows[j].name] \in Bytes
        BY <3>4, <3>5, SeqDef DEF Bytes
      <3>. QED
        BY <3>2, <3>3, <3>6
    <2>. QED
      BY <2>1 DEF Fitting
  <1>. DEFINE bytes == ArgumentBytes(fs, args)
              read == FoldLeft(Read, [args |-> << >>,
                                     left |-> SubSeq(bytes, 1, SizeSum(fs))], fs).args
  <1>0. SizeSum(fs) <= Room
    BY <1>1, <1>2, <1>3 DEF HasRoom
  <1>7. /\ SizeSum(fs) = Len(bytes) /\ SizeSum(fs) \in Nat /\ Len(read) = Len(fs)
        /\ \A q \in 1..Len(fs) : read[q] = args[fs[q].name]
    BY <1>0, <1>5, <1>6, MessageArrives
  <1>8. Made(PacketOf(k), args) = [type |-> n - 1, len |-> SizeSum(fs), bytes |-> bytes]
    <2>1. ShortOf(SizeSum(fs)) = SizeSum(fs)
      BY <1>0, <1>7, ShortIs
    <2>. QED
      BY <1>2, <1>3, <2>1 DEF Made
  <1>. DEFINE message == Made(PacketOf(k), args)
  <1>9. message.type + 1 = n /\ message.len = SizeSum(fs) /\ message.bytes = bytes
    BY <1>4, <1>8
  <1>. HIDE DEF message, bytes
  <1>10. Handled(message) = [case |-> packets[n].case, args |-> read]
    BY <1>3, <1>9 DEF Handled
  <1>. HIDE DEF read
  <1>11. /\ Handled(message).case = rows[k].case /\ Handled(message).args = read
    BY <1>4, <1>10
  <1>12. /\ Len(fs) = Cardinality(FieldRows(n))
         /\ \A j \in FieldRows(n) : Place(j) \in 1..Len(fs) /\ fs[Place(j)] = FieldOf(rows[j])
    BY <1>4 DEF Columns
  <1>13. ASSUME NEW j \in FieldRows(n) PROVE read[Place(j)] = args[rows[j].name]
    <2>1. fs[Place(j)] = FieldOf(rows[j])
      BY <1>12
    <2>2. fs[Place(j)].name = rows[j].name
      BY <2>1 DEF FieldOf
    <2>. QED
      BY <1>7, <1>12, <2>2
  <1>14. message.len = Len(message.bytes)
    BY <1>7, <1>9
  <1>15. /\ Handled(message).case = rows[k].case
         /\ Len(Handled(message).args) = Cardinality(FieldRows(PacketOf(k)))
         /\ \A j \in FieldRows(PacketOf(k)) :
              Handled(message).args[Place(j)] = args[rows[j].name]
         /\ message.len = Len(message.bytes)
    BY <1>2, <1>7, <1>11, <1>12, <1>13, <1>14
  <1>. QED
    BY <1>15 DEF message

LEMMA CodeInvariant == CodeSpec => []CodeInv
PROOF
  BY CodeInvInit, CodeInvNext, PTL DEF CodeSpec

(* What the generated makers write, the generated dispatchers read back,   *)
(* whatever the sheet says, as long as the fields have room in a packet.   *)
THEOREM BothSidesAgree == CodeSpec => []GeneratedAgree
PROOF
  BY CodeInvariant, ColumnsAgree, PTL

=============================================================================
