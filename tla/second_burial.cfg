SPECIFICATION Spec
CONSTANTS
  j1 = j1
  j2 = j2
  Jobs = {j1}
  Workers = {w1, w2}
  Tokens = {t1, t2}
  Clients = {c1}
  Reapers = {r1}
  Parent <- NoParent
  MaxRetries <- OneRetry
  MaxOps = 1
  Overtaking = FALSE
  NoJob = NoJob
  NoToken = NoToken
  NoWorker = NoWorker
INVARIANT NothingAborted
CHECK_DEADLOCK FALSE
