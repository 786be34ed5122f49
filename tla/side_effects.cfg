SPECIFICATION FairSpec
CONSTANTS
  Attempts = {1, 2, 3}
  Crashes = {1, 2}
  LastOp = 2
  MaxRetries = 3
  NoAttempt = NoAttempt
INVARIANT RecordedNeverRepeated
INVARIANT KeptOnce
INVARIANT EffectsRecorded
PROPERTY AttemptEnds
CHECK_DEADLOCK FALSE
