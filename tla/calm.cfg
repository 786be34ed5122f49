SPECIFICATION Spec
CONSTANTS
  j1 = j1
  j2 = j2
  Jobs = {j1, j2}
  Workers = {w1, w2}
  Tokens = {t1, t2, t3}
  Clients = {c1}
  Reapers = {r1}
  Parent <- ChainParent
  MaxRetries <- TwoRetries
  MaxOps = 2
  Overtaking = FALSE
  NoJob = NoJob
  NoToken = NoToken
  NoWorker = NoWorker
INVARIANT AttemptBudget
INVARIANT DeadLetterIsPending
INVARIANT CompletedParentReleases
INVARIANT RunningIsLeased
PROPERTY EndedStaysEnded
PROPERTY ChildAfterParent
SYMMETRY Symmetric
CHECK_DEADLOCK FALSE
