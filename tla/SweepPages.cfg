CONSTANTS
  Accounts = {1, 2, 3, 4}
  Groups = {11, 12, 13}
  Excluded = {13}
  OAuth = {3}
  PageSize = 2
  MaxPages = 2
  LogPage = 2
  MaxLogPages = 3
  WindowStart = 2
  WindowEnd = 6
  Threshold = 2
  SweepLimit = 2
  InitialGroups <- Overlapping
  InitialLooks <- Quiet
  Logs <- SomeLogs
  MaxMoves = 1
  MaxRows = 3
SPECIFICATION Spec
INVARIANTS ListIsRead
