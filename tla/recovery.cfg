SPECIFICATION FairSpec
CONSTANTS
  j1 = j1
  j2 = j2
  Jobs = {j1}
  Workers = {w1, w2}
  Tokens = {t1, t2, t3}
  Clients = {c1}
  Reapers = {r1}
  Parent <- NoParent
  MaxRetries <- TwoRetries
  MaxOps = 1
  Overtaking = FALSE
  NoJob = NoJob
  NoToken = NoToken
  NoWorker = NoWorker
PROPERTY OrphansRecovered
PROPERTY QueuedJobEnds
CHECK_DEADLOCK FALSE
