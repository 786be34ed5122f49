SPECIFICATION Spec
CONSTANTS
  j1 = j1
  j2 = j2
  Jobs = {j1, j2}
  Workers = {w1, w2}
  Tokens = {t1, t2, t3}
  Clients = {c1}
  Reapers = {r1}
  Parent <- ChainParent
  MaxRetries <- OneRetry
  MaxOps = 1
  Overtaking = TRUE
  NoJob = NoJob
  NoToken = NoToken
  NoWorker = NoWorker
INVARIANT FinalizerHolds
PROPERTY LeaseNeverRegained
PROPERTY ImplementsLease
SYMMETRY Symmetric
CHECK_DEADLOCK FALSE
