SPECIFICATION FairSpec
CONSTANTS
  Tabs = {t1}
  Sockets = {s1, s2, s3}
  Casts = {b1, b2}
  Fetches = {f1}
  MaxVersion = 2
  MaxCloses = 1
  MaxLogins = 2
  NoTab = NoTab
  NoSocket = NoSocket
INVARIANT ListedIsServed
INVARIANT SkipsBounded
INVARIANT FeedsAreLogins
PROPERTY TabsCatchUp
CHECK_DEADLOCK FALSE
