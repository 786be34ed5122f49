SPECIFICATION FairSpec
CONSTANTS
  p1 = p1
  p2 = p2
  Jobs = {j1, j2}
  Processes = {p1, p2}
  Second = 2
  Rates = {1, NoLimit}
  Policies <- ShortPolicies
  MaxRetries = 2
  MaxOps = 1
  MaxFaults = 1
  Window = 2
  NoLimit = NoLimit
  NoPolicy = NoPolicy
  NoJob = NoJob
INVARIANT WindowBounded
INVARIANT AttemptsAreRuns
PROPERTY BackoffHolds
PROPERTY JobsEnd
CHECK_DEADLOCK FALSE
