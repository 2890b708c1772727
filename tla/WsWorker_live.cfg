\* Fair scheduling: every call ends, every shutdown returns.
SPECIFICATION FairSpec
CONSTANTS
  MaxJobs = 3
  ConnOf <- MCConnOf3
  Timed <- MCTimed
  Workers = {w1, w2}
  MaxQueue = 2
  MaxPerConn = 2
  ConnLocks = 2
  AllocFails = FALSE
  None = None
PROPERTIES
  CallFinishes
  ShutdownCompletes
  ImplementsFairService
