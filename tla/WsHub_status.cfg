\* Two connections, one of them no WebSocket client.
SPECIFICATION HubSpec
CONSTANTS
  MaxConns = 2
  MaxTasks = 2
  TableSize = 2
  Uuids = {"short", "long"}
  Stored <- MCStored
  AllocFails = FALSE
  None = None
INVARIANT StatusTruthful
