\* Connections 1 and 3 share a slot of two.
SPECIFICATION Spec
CONSTANTS
  MaxJobs = 3
  ConnOf <- MCCollide3
  Timed = {}
  Workers = {w1, w2}
  MaxQueue = 3
  MaxPerConn = 2
  ConnLocks = 2
  AllocFails = FALSE
  None = None
PROPERTY RefusedByOwnConnOnly
