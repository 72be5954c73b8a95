CONSTANTS
  loop = loop
  worker = worker
  s1 = s1
  s2 = s2
  none = none
  NoSnapshot = none
  Loops <- Loop
  Workers <- Nobody
  Snapshots <- Two
  Accounts <- TwoAccounts
  Members <- OneAccount
  Monitored <- TwoAccounts
  Shared <- TwoOnly
  GroupLimit = 1
  InitialLooks <- OneBroken
  MaxMoves = 1
  MaxJobs = 0
SPECIFICATION Spec
INVARIANTS TypeOK PauseKept
PROPERTIES ErrorsTested
