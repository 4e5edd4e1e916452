----------------------------- MODULE ObjectPool -----------------------------
(***************************************************************************)
(* util/Util/ObjectPool.h, as built with its MEMORY_POOL_DEBUG.  A pool    *)
(* keeps the objects it got back on a stack linked through StackNext; in a *)
(* node that is given out the same field holds the pool's id, which is     *)
(* what Free looks at to refuse a second Free.                             *)
(*                                                                         *)
(* One action is one call, or one round of the destructor's loop.          *)
(***************************************************************************)
EXTENDS Integers, FiniteSets

CONSTANTS Pools,    \* the pools, which stand for their ids too
          Nodes,    \* pieces of memory the size of a node
          Null      \* nullptr; also the Id of memory that is no node

(* Ids count from 1 and are small; the addresses of nodes are not.         *)
ASSUME PoolAssumption ==
  /\ Pools \cap Nodes = {}
  /\ Null \notin Pools \cup Nodes

(* Memory is finite.                                                       *)
ASSUME NodesFinite == IsFiniteSet(Nodes)

VARIABLES id,               \* Id of each node
          stackNext,        \* StackNext: the next free node, or a pool's id
          stack_top_, stack_count_, alloc_count_,
          placement_new_,
          open,             \* the pools whose destructor has not begun
          live,             \* the nodes whose Data is a constructed object
          out,              \* history: the pool that has given out a node
          call              \* history: the last call

poolVars == << id, stackNext, stack_top_, stack_count_, alloc_count_,
               placement_new_, open, live, out, call >>

PoolInit ==
  /\ id = [n \in Nodes |-> Null]
  /\ stackNext = [n \in Nodes |-> Null]
  /\ stack_top_ = [p \in Pools |-> Null]
  /\ stack_count_ = [p \in Pools |-> 0]
  /\ alloc_count_ = [p \in Pools |-> 0]
  /\ placement_new_ \in [Pools -> BOOLEAN]
  /\ open = Pools
  /\ live = {}
  /\ out = [n \in Nodes |-> Null]
  /\ call = << >>

Given(p, n) ==
  /\ out' = [out EXCEPT ![n] = p]
  /\ call' = << "given", p, n >>

(* The stack is empty: a node is allocated, with its Data.                 *)
AllocNew(p, n) ==
  /\ stack_top_[p] = Null
  /\ id[n] = Null
  /\ id' = [id EXCEPT ![n] = p]
  /\ stackNext' = [stackNext EXCEPT ![n] = p]
  /\ alloc_count_' = [alloc_count_ EXCEPT ![p] = @ + 1]
  /\ live' = live \cup {n}
  /\ Given(p, n)
  /\ UNCHANGED << stack_top_, stack_count_, placement_new_, open >>

(* Mutant: a node that is used again is not marked with the pool's id.     *)
AllocUsed_NoCookie(p) ==
  LET n == stack_top_[p] IN
  /\ n # Null
  /\ live' = IF placement_new_[p] THEN live \cup {n} ELSE live
  /\ stack_top_' = [stack_top_ EXCEPT ![p] = stackNext[n]]
  /\ stack_count_' = [stack_count_ EXCEPT ![p] = @ - 1]
  /\ Given(p, n)
  /\ UNCHANGED << id, stackNext, alloc_count_, placement_new_, open >>

(* The node on top is used again, its Data constructed anew if the pool    *)
(* has it so.                                                              *)
AllocUsed(p) ==
  LET n == stack_top_[p] IN
  /\ n # Null
  /\ live' = IF placement_new_[p] THEN live \cup {n} ELSE live
  /\ stack_top_' = [stack_top_ EXCEPT ![p] = stackNext[n]]
  /\ stackNext' = [stackNext EXCEPT ![n] = p]
  /\ stack_count_' = [stack_count_ EXCEPT ![p] = @ - 1]
  /\ Given(p, n)
  /\ UNCHANGED << id, alloc_count_, placement_new_, open >>

(* Mutant: only the pool's id is looked at.                                *)
Accepts_IdOnly(p, n) == id[n] = p

(* Both guards of Free pass.                                               *)
Accepts(p, n) == id[n] = p /\ stackNext[n] = p

FreePush(p, n) ==
  /\ Accepts(p, n)
  /\ live' = IF placement_new_[p] THEN live \ {n} ELSE live
  /\ stackNext' = [stackNext EXCEPT ![n] = stack_top_[p]]
  /\ stack_top_' = [stack_top_ EXCEPT ![p] = n]
  /\ stack_count_' = [stack_count_ EXCEPT ![p] = @ + 1]
  /\ out' = [out EXCEPT ![n] = Null]
  /\ call' = << "freed", p, n >>
  /\ UNCHANGED << id, alloc_count_, placement_new_, open >>

(* Free throws.                                                            *)
FreeThrows(p, n) ==
  /\ ~Accepts(p, n)
  /\ call' = << "refused", p, n >>
  /\ UNCHANGED << id, stackNext, stack_top_, stack_count_, alloc_count_,
                  placement_new_, open, live, out >>

(* Free is given any node there is: one of another pool, or a second time. *)
Free(p, n) == id[n] # Null /\ (FreePush(p, n) \/ FreeThrows(p, n))

(* The destructor begins; from here on nobody calls the pool.              *)
Destroy(p) ==
  /\ open' = open \ {p}
  /\ UNCHANGED << id, stackNext, stack_top_, stack_count_, alloc_count_,
                  placement_new_, live, out, call >>

(* FreeStackMemory deletes the node on top; delete destroys its Data, also *)
(* when Free has done so.  Objects still out are never deleted.            *)
DeleteTop(p) ==
  LET n == stack_top_[p] IN
  /\ n # Null
  /\ stack_top_' = [stack_top_ EXCEPT ![p] = stackNext[n]]
  /\ id' = [id EXCEPT ![n] = Null]
  /\ stackNext' = [stackNext EXCEPT ![n] = Null]
  /\ live' = live \ {n}
  /\ UNCHANGED << stack_count_, alloc_count_, placement_new_, open, out, call >>

PoolNext ==
  \/ \E p \in open :
       \/ AllocUsed(p)
       \/ \E n \in Nodes : AllocNew(p, n) \/ Free(p, n)
       \/ Destroy(p)
  \/ \E p \in Pools \ open : DeleteTop(p)

PoolSpec == PoolInit /\ [][PoolNext]_poolVars

-----------------------------------------------------------------------------
(* Properties. *)

PoolTypeOK ==
  /\ id \in [Nodes -> Pools \cup {Null}]
  /\ stackNext \in [Nodes -> Nodes \cup Pools \cup {Null}]
  /\ stack_top_ \in [Pools -> Nodes \cup {Null}]
  /\ stack_count_ \in [Pools -> Int] /\ alloc_count_ \in [Pools -> Nat]
  /\ placement_new_ \in [Pools -> BOOLEAN]
  /\ open \subseteq Pools /\ live \subseteq Nodes
  /\ out \in [Nodes -> Pools \cup {Null}]

(* The nodes a pool has back.                                              *)
Back(p) == { n \in Nodes : id[n] = p /\ out[n] = Null }

(* The free stack from the top: the k-th node, or Null below the last one. *)
FreeStack(p) ==
  LET at[k \in 0..Cardinality(Nodes)] ==
        IF k = 0 THEN stack_top_[p]
        ELSE IF at[k - 1] = Null THEN Null ELSE stackNext[at[k - 1]]
  IN at

(* While a pool is in use, its stack is made of exactly the nodes it has   *)
(* back, each once, and its counts are theirs; every object that is out is *)
(* a constructed one.  No sequence of calls, of foreign or second Frees    *)
(* and of deleted and allocated memory leaves a node lost or on two        *)
(* stacks, or hands out a destroyed object.                                *)
PoolExact ==
  /\ \A p \in open :
       LET stack == FreeStack(p)
           held == { k \in DOMAIN stack : stack[k] # Null }
       IN /\ { stack[k] : k \in held } = Back(p)
          /\ Cardinality(held) = Cardinality(Back(p))
          /\ stack_count_[p] = Cardinality(Back(p))
          /\ alloc_count_[p] = Cardinality({ n \in Nodes : id[n] = p })
  /\ \A n \in Nodes : out[n] # Null => n \in live

Store == INSTANCE PoolStore

(* An object that is out is not given out again, a pool takes back only    *)
(* its own, and refuses what it has back already without a change.         *)
ImplementsStore == Store!StoreSpec

=============================================================================
