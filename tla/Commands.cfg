\* Every command answered, there is nothing left to do.
CONSTANTS
  start = start
  scan = scan
  weight = weight
  pin = pin
  submit = submit
  f1 = f1
  f2 = f2
  None = None
  PolicyCommands <- Policy
  ChannelCommands <- Channel
  JobCommands <- Job
  Keyless = {pin}
  Fields <- TheFields
  FieldOf <- SetsField
  Copies = {p1, p2}
  MaxCommands = 3
  MaxFaults = 2
SYMMETRY RequestsAlike
SPECIFICATION Spec
INVARIANTS TypeOK NoLostUpdate PatchKept RepeatedForCause
CHECK_DEADLOCK FALSE
