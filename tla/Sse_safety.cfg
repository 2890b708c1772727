\* A resuming client, one that calls a dialog once, three connections, two slots.
SPECIFICATION SseSpec
CONSTANTS
  MaxConns = 3
  MaxId = 3
  MaxClients = 2
  Clients = {tick, dialog}
  Custom = {dialog}
  Once = {dialog}
  None = None
INVARIANTS
  SseInv
  SlotsSound
  StreamOrdered
  OnceOneEvent
PROPERTY
  ResumeMonotone
