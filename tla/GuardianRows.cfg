\* The rows: two channels, one cycle at a time, every command, every decision.
SPECIFICATION Spec
SYMMETRY Symmetry
CONSTANTS
  Channels = {c, d}
  Runs = {r}
  Snapshots = {s}
  Readings <- MCReadings
  Commands = {"NONE", "PAUSED", "EXCLUDED", "FUSED"}
  NoRun = NoRun
  NoSnapshot = NoSnapshot
  NoChannel = NoChannel
  MaxFaults = 0
  SuccessCount = 2
  MaxSwitch = 1
  BreakerEnabled = TRUE
  RecoveryEnabled = TRUE
  LatencyDegradeOnly = TRUE
INVARIANTS TypeOK CommandKept
PROPERTIES RecoversAfterGoodChecks
