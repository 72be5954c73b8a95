\* Two accounts that may both be registered, no upstream write outlives its caller.
SPECIFICATION FairSpec
CONSTANTS
  Accounts = {a1, a2}
  NoAccount = NoAccount
  BatchSize = 1
  Capacity = 2
  MaxLate = 0
INVARIANTS TypeOK TwoPassesBeforeRestore RegistryErrorsUnreachable
PROPERTIES JobEnds KeepsLedger
