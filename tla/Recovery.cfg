CONSTANTS
  loop = loop
  worker = worker
  s1 = s1
  s2 = s2
  none = none
  NoSnapshot = none
  Loops <- Loop
  Workers <- Worker
  Snapshots <- Two
  Accounts <- OneAccount
  Members <- OneAccount
  Monitored <- OneAccount
  Shared <- Nobody
  GroupLimit = 1
  InitialLooks <- AllBroken
  MaxMoves = 1
  MaxJobs = 1
SPECIFICATION Spec
INVARIANTS OneExecutor CooldownHonoured RunningIsExecuted
PROPERTIES FinishedRunsFrozen
