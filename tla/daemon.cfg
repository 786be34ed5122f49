SPECIFICATION FairSpec
CONSTANTS
  Jobs = {j1}
  Claims = {c1, c2}
  Concurrency = 2
  Signals = {s1}
  NoJob = NoJob
  NoClaim = NoClaim
  Foreign = Foreign
INVARIANT PermitsAccounted
INVARIANT RenewsOnlyTasks
PROPERTY QueuedIsClaimed
PROPERTY SignalEndsProcess
PROPERTY AbandonedIsReaped
CHECK_DEADLOCK FALSE
