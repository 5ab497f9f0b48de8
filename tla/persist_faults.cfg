SPECIFICATION FairSpec
CONSTANTS
  k1 = k1
  k2 = k2
  c1 = c1
  c2 = c2
  Keys = {k1, k2}
  Values = {v1}
  Clients = {c1}
  Savers = {s1}
  Nil = Nil
  ShardCount = 2
  ShardOf <- MCShardOf
  Configs <- SaveConfigs
  Work <- SaveWork
  Capacity = 2
  Evictions = TRUE
  MaxSaves = 2
  MaxCrashes = 1
  MaxFailures = 1
  MaxTime = 1
INVARIANTS
  NothingLost
  SinceLastSave
PROPERTIES
  SavingEnds
