\* The snapshots: two cycles, two snapshots, one channel that is always found healthy.
SPECIFICATION FairSpec
CONSTANTS
  Channels = {c}
  Runs = {r, q}
  Snapshots = {s, t}
  Readings <- OneReading
  Commands = {}
  NoRun = NoRun
  NoSnapshot = NoSnapshot
  NoChannel = NoChannel
  MaxFaults = 1
  SuccessCount = 1
  MaxSwitch = 1
  BreakerEnabled = TRUE
  RecoveryEnabled = TRUE
  LatencyDegradeOnly = TRUE
INVARIANTS OneCycle ClaimHolds HandedOnce NewestEvaluated
PROPERTIES SnapshotsDrain
