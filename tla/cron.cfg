SPECIFICATION FairSpec
CONSTANTS
  minutely = minutely
  every2 = every2
  Schedules = {s1, s2}
  Replicas = {r1, r2}
  Mortal = {r2}
  Clients = {c1, c2}
  Expressions = {minutely, every2}
  Fires <- Periods
  MaxTime = 3
  MaxOps = 3
INVARIANT NoOccurrenceMissed
INVARIANT RunsCounted
PROPERTY ImplementsOneDispatcher
PROPERTY DueServed
CHECK_DEADLOCK FALSE
