----------------------------- MODULE MCPersist -----------------------------
(* Small instances of Persist: two keys, each in a shard of its own. *)
EXTENDS Persist, TLC

CONSTANTS k1, k2, c1, c2

MCShardOf == [k \in Keys |-> IF k = k1 THEN 0 ELSE 1]
\* Each key is written by one client, or both keys by every client.
OneWriter == [k \in Keys |-> IF k = k1 THEN {c1} ELSE {c2}]
AllWriters == [k \in Keys |-> Clients]

Config(m, f, c) == [mode |-> m, fsync |-> f, crash |-> c]
LogConfigs == {Config("aof", "always", "machine"), Config("snapshot+aof", "everysec", "process"),
               Config("snapshot+aof", "no", "process")}
AofAlways == {Config("aof", "always", "process")}
AofMachine == {Config("aof", "always", "machine")}
HybridMachine == {Config("snapshot+aof", "always", "machine")}
SaveConfigs == {Config("snapshot", "no", "process"), Config("snapshot+aof", "always", "process")}

Calls(ops, ttls, writers, n1, n2) ==
  [ops |-> ops, ttls |-> ttls, writers |-> writers,
   calls |-> [c \in Clients |-> IF c = c1 THEN n1 ELSE n2]]
\* Two clients that SET and DEL, a key each; without fsync one client that uses every
\* operation, with deadlines that do not pass.
LogWork == [x \in LogConfigs |->
  IF x.fsync # "no" THEN Calls({"set", "del"}, {0}, OneWriter, 2, 1)
  ELSE Calls({"set", "del", "expire", "persist", "flush"}, {0, 1}, AllWriters, 3, 0)]
SaveWork == [x \in SaveConfigs |-> Calls({"set", "del"}, {1}, AllWriters, 2, 0)]
TwoSets == [x \in AofAlways |-> Calls({"set", "del"}, {0}, AllWriters, 1, 1)]
OneSet == [x \in AofMachine |-> Calls({"set"}, {0}, AllWriters, 1, 0)]
SetInSave == [x \in HybridMachine |-> Calls({"set"}, {0}, AllWriters, 1, 0)]

Symmetry == Permutations(Values) \cup Permutations(Savers)
=============================================================================
