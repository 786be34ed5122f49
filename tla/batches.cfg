SPECIFICATION FairSpec
CONSTANTS
  Jobs = {j1, j2, j3, j4}
  k1 = k1
  k2 = k2
  Keys = {k1, k2}
  Batches = {b1}
  Requests = {r1, r2}
  Bulks <- Orders
  MaxOps = 3
  NoKey = NoKey
  NoBatch = NoBatch
INVARIANT AnswersAgree
INVARIANT BatchIsWhole
INVARIANT ReportIsTrue
PROPERTY WorkersEndJobs
PROPERTY RequestsEnd
CHECK_DEADLOCK FALSE
