\* Three connections, a table of two, a uuid that fits and one that does not.
SPECIFICATION HubSpec
CONSTANTS
  MaxConns = 3
  MaxTasks = 2
  TableSize = 2
  Uuids = {"short", "long"}
  Stored <- MCStored
  AllocFails = FALSE
  None = None
INVARIANTS
  HubInv
  NoDangling
  TargetKept
  NoOrphanTask
  TaskTableSound
PROPERTY
  OthersTasksSurvive
