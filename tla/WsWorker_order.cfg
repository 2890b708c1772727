\* Two calls on one connection, two workers.
SPECIFICATION Spec
CONSTANTS
  MaxJobs = 3
  ConnOf <- MCConnOf3
  Timed = {}
  Workers = {w1, w2}
  MaxQueue = 3
  MaxPerConn = 2
  ConnLocks = 2
  AllocFails = FALSE
  None = None
INVARIANT SameConnInOrder
