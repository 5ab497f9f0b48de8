SPECIFICATION Spec
CONSTANTS
  k1 = k1
  k2 = k2
  k3 = k3
  Keys = {k1, k2, k3}
  Clients = {c1, c2}
  Worker = worker
  Admin = admin
  Entries = {e1, e2, e3, e4, e5}
  Nil = Nil
  ShardCount = 2
  ShardOf <- MCShardOf
  MaxMemory = 1
  MaxTTL = 1
  Configs <- OpsConfigs
  SwitchTo = {1, 2}
  Sizes = {1}
  MaxSize = 1
  Work <- OpsWork
INVARIANTS
  Accounting
  ShardLists
  TTLWithinMax
