\* Tables of the kernel, the network, the image loader, and the dynamic linker.
SPECIFICATION ObjectsSpec
CONSTANTS
  PoolSize = 14
  Requests = {1, 3}
  Alignments = {4}
  FdTasks = {t1, t2}
  FdTables = {d1, d2}
  FdNumbers = {2, 3, 4}
  EventSlots = {1}
  PipeObjects = {1}
  PipeRoom = 1
  EventMax = 1
  NoTable = NoTable
  CopiesPipes = FALSE
  ClosesWaited = FALSE
  Spaces = {"p", "c"}
  FirstSpace = "p"
  Memfds = {1}
  FrameCount = 2
  HeapPages = 1
  LastPage = 3
  MemfdPages = 2
  MaxAreas = 2
  Mappers = {"p"}
  RemapsShared = FALSE
  MapsIntoHeap = FALSE
  NodePaths <- MCNodePaths
  FirstTree <- MCFirstTree
  DirPaths <- MCDirPaths
  WatchCount = 2
  EventCount = 2
  MaskForms <- MCMaskForms
  MaxWatch = 2
  MaxNode = 4
  MaxMoves = 1
  TcpSockets = 1
  TcpConns = 1
  PendingMax = 1
  RxRoom = 2
  StageRoom = 2
  ListenPort = 9
  MaxUnits = 2
  GivesUp = FALSE
  Relistens = FALSE
  Resets = {"client"}
  Concurrent = FALSE
  MaxPort = 3
  Libs <- MCLibs
  Worlds <- MCWorlds
  MaxHandles = 2
  TlsCallers = {"p", "q"}
  FlightCuts = {3}
  Versions = {12, 13}
  FlightGuard = 8
  AnswerGuard = 4
  AnswerLen = 1
  AnswerRoom = 3
  LatenessMax = 1
  Images <- MCImages
  Interps <- MCInterps
  ArgForms <- MCArgs
  ArgMax = 2
  ArgBytes = 30
  PieBase = 10
  InterpBase = 30
  LowLimit = 8
  StackPages = {20, 21}
  StackTop = 2048
  StackSize = 1024
  ElfFrames = 12
  MaxLoads = 2
INVARIANTS
  HeapSafe
  DescriptorsSafe
  AreasSafe
  TcpSafe
  ProgramsSafe

  
VIEW Moving
CHECK_DEADLOCK FALSE
