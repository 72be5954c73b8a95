\* Two processes: their workers, schedulers and a tool share three rows, one fault.
SPECIFICATION FairSpec
CONSTANTS
  Processes = {p1, p2}
  Tools = {p1}
  Jobs = {j1, j2, j3}
  NoJob = NoJob
  MaxFaults = 1
INVARIANTS OneWorker ActiveJobsBounded ProbeNotReused
PROPERTIES ProbesGoOn
