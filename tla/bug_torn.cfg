SPECIFICATION Spec
CONSTANTS
  k1 = k1
  k2 = k2
  c1 = c1
  c2 = c2
  Keys = {k1, k2}
  Values = {v1, v2}
  Clients = {c1}
  Savers = {s1, s2}
  Nil = Nil
  ShardCount = 2
  ShardOf <- MCShardOf
  Configs <- AofMachine
  Work <- OneSet
  Capacity = 2
  Evictions = FALSE
  MaxSaves = 0
  MaxCrashes = 1
  MaxFailures = 0
  MaxTime = 0
SYMMETRY Symmetry
INVARIANTS
  LoadAccepts
