SPECIFICATION FairSpec
CONSTANTS
  k1 = k1
  k2 = k2
  k3 = k3
  Keys = {k1, k2, k3}
  Clients = {c1, c2}
  Worker = worker
  Admin = admin
  Entries = {e1, e2, e3, e4, e5}
  Nil = Nil
  ShardCount = 1
  ShardOf <- MCOneShard
  MaxMemory = 1
  MaxTTL = 0
  Configs <- LiveConfigs
  SwitchTo = {}
  Sizes = {1}
  MaxSize = 1
  Work <- LiveWork
PROPERTIES
  OpsTerminate
  DueDrained
