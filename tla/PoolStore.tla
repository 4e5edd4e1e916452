----------------------------- MODULE PoolStore ------------------------------
(***************************************************************************)
(* What util/Util/ObjectPool.h promises the owners of its pools: an object *)
(* is given out by one pool at a time, and a pool takes back only what it  *)
(* has given out and not had back.                                         *)
(***************************************************************************)
CONSTANTS Pools, Nodes, Null

VARIABLES out,     \* the pool that has given out a node, or Null
          call     \* the last call: what it did, its pool and its node

storeVars == << out, call >>

StoreInit ==
  /\ out = [n \in Nodes |-> Null]
  /\ call = << >>

Give(p, n) ==
  /\ out[n] = Null
  /\ out' = [out EXCEPT ![n] = p]
  /\ call' = << "given", p, n >>

TakeBack(p, n) ==
  /\ out[n] = p
  /\ out' = [out EXCEPT ![n] = Null]
  /\ call' = << "freed", p, n >>

Refuse(p, n) ==
  /\ out[n] # p
  /\ call' = << "refused", p, n >>
  /\ UNCHANGED out

StoreNext ==
  \E p \in Pools, n \in Nodes : Give(p, n) \/ TakeBack(p, n) \/ Refuse(p, n)

StoreSpec == StoreInit /\ [][StoreNext]_storeVars

=============================================================================
