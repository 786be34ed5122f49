SPECIFICATION Spec
CONSTANTS
  Jobs = {j1}
  Claims = {c1, c2}
  Concurrency = 2
  Signals = {s1}
  NoJob = NoJob
  NoClaim = NoClaim
  Foreign = Foreign
PROPERTY ExitIsDrained
CHECK_DEADLOCK FALSE
