\* One client with once=1 and a plugin that may fail.
SPECIFICATION SseSpec
CONSTANTS
  MaxConns = 2
  MaxId = 3
  MaxClients = 2
  Clients = {dialog}
  Custom = {dialog}
  Once = {dialog}
  None = None
INVARIANT OnceOneCall
