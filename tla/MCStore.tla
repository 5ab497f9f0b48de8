------------------------------ MODULE MCStore ------------------------------
(* Instances of Store for TLC. *)
EXTENDS Store, TLC

CONSTANTS k1, k2, k3

\* Keys spread over two shards; k1 and k3 share one.
MCShardOf == [k \in Keys |-> IF k = k2 THEN 1 ELSE 0]
MCOneShard == [k \in Keys |-> 0]

Config(s, p) == [strategy |-> s, policy |-> p]
CoreConfigs == {Config(ShardBudget, "volatile-lru"), Config(ShardBudget, "allkeys-lru"),
                Config(Steal, "allkeys-random"), Config(GlobalTrack, "allkeys-lru")}
OpsConfigs == {Config(GlobalTrack, "volatile-ttl"), Config(Steal, "volatile-fifo"),
               Config(Steal, "noeviction"), Config(GlobalTrack, "allkeys-lfu")}
LiveConfigs == {Config(GlobalTrack, "allkeys-lru"), Config(GlobalTrack, "volatile-ttl")}
GlobalFifo == {Config(GlobalTrack, "allkeys-fifo")}
GlobalVolatile == {Config(GlobalTrack, "volatile-lru")}
BudgetLru == {Config(ShardBudget, "allkeys-lru")}

\* Operations of each client: one, two, or two for one client and one for the other.
One == [c \in Clients |-> 1]
Two == [c \in Clients |-> 2]
TwoAndOne == [c \in Clients |-> IF c = CHOOSE d \in Clients : TRUE THEN 2 ELSE 1]

Calls(ops, modes, ttls, keys, calls, switches, time) ==
  [ops |-> ops, modes |-> modes, ttls |-> ttls, keys |-> keys, calls |-> calls,
   switches |-> switches, time |-> time]
Same(w) == [p \in Policies |-> w]
\* Every mode of SET while shards steal from each other; plain writes, with the reads that move
\* entries of the lists, under least-recently-used; keys with and without a deadline under
\* volatile-lru, so that a shard may hold nothing that can be evicted.
CoreWork == [p \in Policies |->
  CASE p = "volatile-lru" -> Calls({"set", "get", "persist"}, {"plain"}, {0, 1}, Keys, Two, 0, 1)
    [] p = "allkeys-lru"  -> Calls({"set", "get", "del"}, {"plain"}, {0}, Keys, Two, 0, 1)
    [] OTHER -> Calls({"set", "get", "del"}, {"plain", "nx", "xx"}, {0}, Keys, Two, 0, 1)]
\* Under least-recently-used, what makes bug_fifo loop; under volatile-ttl, deadlines.
LiveWork == [p \in Policies |->
  IF p = "allkeys-lru" THEN Calls({"set", "del"}, {"plain"}, {0}, Keys, Two, 0, 1)
  ELSE Calls({"set", "del"}, {"plain"}, {1}, Keys, One, 0, 2)]
FifoWork == Same(Calls({"set", "del"}, {"plain"}, {0}, Keys, Two, 0, 1))
VolatileWork == Same(Calls({"set", "persist"}, {"plain"}, {0, 1}, Keys, Two, 0, 1))
ExpiryWork == Same(Calls({"set"}, {"plain"}, {0, 1, 2}, Keys, Two, 0, 3))
\* Under a volatile-* policy, keys with and without deadlines; under noeviction, deadlines
\* beyond MaxTTL while the clock advances; under lfu, a change of strategy while operations run.
OpsWork == [p \in Policies |->
  CASE p = "volatile-ttl" ->
         Calls({"set", "persist"}, {"plain"}, {0, 1}, {k1, k2}, TwoAndOne, 0, 2)
    [] p = "volatile-fifo" ->
         Calls({"set", "persist"}, {"plain"}, {0, 1}, Keys, TwoAndOne, 0, 2)
    [] p = "noeviction" ->
         Calls({"set", "exists", "expire", "incr"}, {"plain", "keep"}, {0, 2}, {k1}, TwoAndOne, 0, 3)
    [] OTHER ->
         Calls({"set", "exists", "expire", "incr", "flush"}, {"keep"}, {0, 2}, {k1, k2},
               TwoAndOne, 1, 1)]

Symmetry == Permutations(Clients)
=============================================================================
