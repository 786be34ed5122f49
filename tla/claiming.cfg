SPECIFICATION FairSpec
CONSTANTS
  qa = qa
  qb = qb
  j1 = j1
  j2 = j2
  j3 = j3
  j4 = j4
  c2 = c2
  Queues = {qa, qb}
  Jobs = {j1, j2, j3, j4}
  QueueOf <- TwoQueues
  InitialQueue <- Rows
  Older <- FirstOlder
  Claimers = {c1, c2}
  Assigned <- OneForQa
  Inserters = {i1}
  Batches <- Sweeps
  Operators = {o1}
  Limits = {1}
  Priorities = {3}
  MaxOps = 1
  NoQueue = NoQueue
  NoJob = NoJob
PROPERTY PausedNeverClaims
PROPERTY ClaimWithinLimit
PROPERTY QueueServed
CHECK_DEADLOCK FALSE
