----------------------------- MODULE Admission -----------------------------
(***************************************************************************)
(* What the limits on connections promise: pools of slots, each with its   *)
(* set of holders.  A slot is taken only while its pool has a free one,    *)
(* and holders come and go one at a time, so that a slot is never lent     *)
(* twice, never lost and never returned by someone who does not hold it.   *)
(* The server has one such pool and every tenant has another.              *)
(***************************************************************************)
EXTENDS Integers, FiniteSets

CONSTANTS Pools, Members

VARIABLES
  limit,    \* limit[p]: slots of the pool, 0 when there is no limit; set once
  holders   \* holders[p]: who holds a slot of p

Init == limit \in [Pools -> Nat] /\ holders = [p \in Pools |-> {}]

Acquire(p, m) ==
  /\ m \notin holders[p]
  /\ limit[p] > 0 => Cardinality(holders[p]) < limit[p]
  /\ holders' = [holders EXCEPT ![p] = @ \cup {m}]

Release(p, m) ==
  /\ m \in holders[p]
  /\ holders' = [holders EXCEPT ![p] = @ \ {m}]

\* The first conjunct follows from the last; with it TLC recognises a stutter at once.
Next == /\ holders' # holders /\ limit' = limit
        /\ \E p \in Pools, m \in Members : Acquire(p, m) \/ Release(p, m)

Spec == Init /\ [][Next]_<<limit, holders>>
=============================================================================
