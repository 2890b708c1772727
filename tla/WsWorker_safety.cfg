\* Four calls on three connections, two slots, two workers, small limits.
SPECIFICATION Spec
CONSTANTS
  MaxJobs = 4
  ConnOf <- MCConnOf
  Timed = {3}
  Workers = {w1, w2}
  MaxQueue = 2
  MaxPerConn = 2
  ConnLocks = 2
  AllocFails = TRUE
  None = None
SYMMETRY MCWorkers
INVARIANTS
  SerialExec
  PendingExact
  NeverStuck
  StatsConserved
  NoCallLost
  AnsweredOnce
  NoIdleWhileWork
  StartsInOrder
  NoCallFreedUnrun
  PoolInv
PROPERTIES
  OutcomeFinal
  ImplementsService
