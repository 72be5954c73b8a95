\* A command that crosses a cycle is lost.
SPECIFICATION Spec
CONSTANTS
  Channels = {c}
  Runs = {r}
  Snapshots = {s}
  Readings <- MCReadings
  Commands = {"NONE", "PAUSED", "EXCLUDED", "FUSED"}
  NoRun = NoRun
  NoSnapshot = NoSnapshot
  NoChannel = NoChannel
  MaxFaults = 0
  SuccessCount = 2
  MaxSwitch = 1
  BreakerEnabled = TRUE
  RecoveryEnabled = TRUE
  LatencyDegradeOnly = TRUE
INVARIANT HumanControlKept
