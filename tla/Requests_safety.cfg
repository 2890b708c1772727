\* One worker, three names, one change of a file.
SPECIFICATION Spec
CONSTANTS
  plugin = plugin
  deep = deep
  asset = asset
  None = None
  Names <- MCNames
  SafeNames <- MCSafeNames
  HttpMessages <- MCHttpMessages
  CallShapes <- MCCallShapes
  InitialFiles <- MCInitialFiles
  Main = main
  Workers = {w1}
  Moving <- MCMoving
  MaxChanges = 1
  MaxQueued = 1
  CacheMax = 2
CHECK_DEADLOCK FALSE
INVARIANTS
  ResolvesBest
  RefusalJustified
  OneLibraryPerName
