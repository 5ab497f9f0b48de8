SPECIFICATION Spec
CONSTANTS
  k1 = k1
  k2 = k2
  k3 = k3
  Keys = {k1, k2, k3}
  Clients = {c1, c2}
  Worker = worker
  Admin = admin
  Entries = {e1, e2, e3, e4, e5}
  Nil = Nil
  ShardCount = 2
  ShardOf <- MCShardOf
  MaxMemory = 3
  MaxTTL = 0
  Configs <- CoreConfigs
  SwitchTo = {}
  Sizes = {1, 2}
  MaxSize = 2
  Work <- CoreWork
SYMMETRY Symmetry
INVARIANTS
  TypeOK
  Accounting
  BudgetRespected
  OvershootBounded
  ShardLists
  LinkedOnce
  FifoComplete
PROPERTIES
  OomJustified
  ConditionalWrites
