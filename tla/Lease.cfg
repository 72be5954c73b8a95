\* Three jobs, a lease of two ticks, one crash or database error.
SPECIFICATION FairSpec
CONSTANTS
  Jobs = {a, b, c}
  Nobody = Nobody
  Seconds = 2
  MaxFaults = 1
INVARIANTS TypeOK HolderHasRow LeaseGivenUp
PROPERTY ControlGoesOn
