\* The routes that the documentation lists.
SPECIFICATION Spec
CONSTANTS
  plugin = plugin
  deep = deep
  asset = asset
  None = None
  Names <- MCNames
  SafeNames <- MCSafeNames
  HttpMessages <- MCRouteMessages
  CallShapes <- MCCallShapes
  InitialFiles <- MCInitialFiles
  Main = main
  Workers = {w1}
  Moving <- MCMoving
  MaxChanges = 0
  MaxQueued = 1
  CacheMax = 2
CHECK_DEADLOCK FALSE
INVARIANTS
  DocumentedRoutes
