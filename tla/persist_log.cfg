SPECIFICATION Spec
CONSTANTS
  k1 = k1
  k2 = k2
  c1 = c1
  c2 = c2
  Keys = {k1, k2}
  Values = {v1, v2}
  Clients = {c1, c2}
  Savers = {s1, s2}
  Nil = Nil
  ShardCount = 2
  ShardOf <- MCShardOf
  Configs <- LogConfigs
  Work <- LogWork
  Capacity = 2
  Evictions = FALSE
  MaxSaves = 2
  MaxCrashes = 1
  MaxFailures = 0
  MaxTime = 0
SYMMETRY Symmetry
INVARIANTS
  TypeOK
  NothingLost
  NothingResurrected
  SyncedSurvives
