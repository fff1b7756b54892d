\* A failed assertion, a kfatal or a lock that is never released ends a behaviour.
CHECK_DEADLOCK FALSE
INIT MCInit
NEXT MCNext
CONSTANTS
  Capacity = 2
  MaxFiles = 3
  Wrap = 16
  NumSlaves = 3
  MaxAgain = 1
  Watched = {"f", "g"}
  EpThreads = {"t", "u"}
  InBuf = 2
  FxWaiters = {"v", "w", "x"}
  FxSecond = {"x"}
  MaxWakes = 2
  NcPaths <- MCPaths
  NcParent <- MCParent
  NcRoot = "r"
  NcThreads = {"t", "u"}
  max_inactive = 1
  MaxAsked = 4
  Qids = {1, 2}
  RootQid = 1
  NpThreads = {"t", "u"}
  NameLens = {1, 64, 65, 255}
  MaxNodes = 4
  MaxLeaks = 1
  VqLength = 6
  VqWrap = 6
  MaxIops = 4
  MdlEntries = {0, 1}
  MaxFlushes = 2
INVARIANTS
  ReferencesExact
  ReadyKept
  IopsOnce
  NodesExact
  RingExact
