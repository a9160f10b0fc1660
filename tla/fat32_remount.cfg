\* A volume with files in a directory, mounted again; the other components small.
SPECIFICATION DevicesSpec
CONSTANTS
  FileSlots = {1}
  SlotsPerSector = 1
  Paths <- MCPaths
  MaxBlocks = 2
  MaxBirths = 1
  Openers = {o1, o2}
  WritesFail = TRUE
  PowerCuts = {}
  BlankDisk = TRUE
  ForeignUnlinks = FALSE
  MovesUp = FALSE
  FatNames = {"g", "h", "d"}
  FatDirs = {"d"}
  FatParent <- MCFatParent
  ShortName <- MCShort
  LastCluster = 5
  SlotsPerCluster = 4
  FileClusters = 1
  MaxCuts = 1
  CutsInGrowth = FALSE
  WritesHoles = FALSE
  ExtNames = {"f"}
  ExtDirs = {}
  ExtParent <- MCExtParent
  LastBlock = 2
  LastInode = 2
  EntriesPerBlock = 4
  DirectBlocks = 1
  IndirectBlocks = 1
  MaxLosses = 1
  MaxPowerCuts = 0
  CutsInTruncate = FALSE
  RemountsTrees = FALSE
  SkipsBlocks = FALSE
  TrbRingSize = 3
  EventRingSize = 2
  Serials = 2
  MaxGivenUp = 0
  Storers = {"a"}
  Lbas = {"l1", "l2"}
  Data = {"u", "v"}
  MaxCommands = 1
  MaxTimeouts = 0
  PaneSlots = {1}
  RingSize = 2
  Buttons = {0, 1}
  PushesArePreempted = FALSE
  WindowMax = 1
  KeysInGestures = FALSE
  WinSlots = {1}
  Apps = {"a"}
  Surfaces = {"x"}
  GenerationMax = 2
  MaxWindow = 2
  ClippedFrames = FALSE
  BlitsArePreempted = FALSE
INVARIANTS
  RemountFindsFiles
VIEW Moving
CHECK_DEADLOCK FALSE
