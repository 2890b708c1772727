\* Three threads, a table of two, a long path, a library that cannot be loaded.
SPECIFICATION FairSpec
CONSTANTS
  Threads = {main, w1, w2}
  Paths = {a, b, broken, long}
  Loadable = {a, b, long}
  Long = {long}
  CacheMax = 2
  MaxCalls = 3
  None = None
CHECK_DEADLOCK FALSE
INVARIANTS
  HandleRight
  NullOnlyWhenFull
  ReopenedOnlyLong
  CacheInv
PROPERTIES
  PublishedStable
  CallReturns
  ImplementsDlService
