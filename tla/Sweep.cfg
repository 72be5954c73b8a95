CONSTANTS
  Accounts = {1, 2, 3, 4}
  Groups = {11, 12, 13}
  Excluded = {13}
  OAuth = {3}
  PageSize = 3
  MaxPages = 1
  LogPage = 2
  MaxLogPages = 3
  WindowStart = 2
  WindowEnd = 6
  Threshold = 2
  SweepLimit = 2
  InitialGroups <- Overlapping
  InitialLooks <- FewLooks
  Logs <- SomeLogs
  MaxMoves = 1
  MaxRows = 3
  NoGroup = NoGroup
  c1 = c1
  c2 = c2
  c3 = c3
  mA = mA
  mB = mB
  Pools = {11, 12, 13}
  Channels = {c1, c2, c3}
  Models = {mA, mB}
  Model <- ModelOf
  Own <- OwnOf
  Named <- NamedOf
  UsagePage = 2
  MaxUsagePages = 2
  Second = 10
  Worlds <- SomeWorlds
  Later <- SomeLater
SPECIFICATION CycleSpec
INVARIANTS TypeOK PoolKept OthersRespected SlowCounted OwnGroup
PROPERTY FailingChannelsSwept
