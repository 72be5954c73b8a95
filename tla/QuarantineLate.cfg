\* A full registry, and one upstream write that lands after its caller is gone.
SPECIFICATION Spec
CONSTANTS
  Accounts = {a1, a2}
  NoAccount = NoAccount
  BatchSize = 1
  Capacity = 1
  MaxLate = 1
SYMMETRY Symmetry
INVARIANTS RegistryConsistent NoOrphan
