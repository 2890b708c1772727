\* Two connections with a call each share one table entry; two workers, a queue
\* of one call, no tasks.
SPECIFICATION ServerFairSpec
CONSTANTS
  MaxConns = 2
  MaxTasks = 0
  TableSize = 1
  Uuids = {"short"}
  Stored <- MCStored
  AllocFails = FALSE
  None = None
  MaxJobs = 2
  ConnOf <- MCConnOf
  Timed = {}
  Workers = {w1, w2}
  MaxQueue = 1
  MaxPerConn = 2
  ConnLocks = 2
INVARIANTS
  ResponseToCaller
  ResponseNotLost
PROPERTY
  ImplementsServer
  CallAnswered
CHECK_DEADLOCK FALSE
