\* File systems, drivers, and the desktop.
SPECIFICATION DevicesSpec
CONSTANTS
  FileSlots = {1, 2}
  SlotsPerSector = 1
  Paths <- MCPaths
  MaxBlocks = 2
  MaxBirths = 2
  Openers = {o1}
  WritesFail = TRUE
  PowerCuts = {"create", "symlink", "write", "delete", "rename", "format"}
  BlankDisk = TRUE
  ForeignUnlinks = FALSE
  MovesUp = FALSE
  FatNames = {"f", "g", "d"}
  FatDirs = {"d"}
  FatParent <- MCFatParent
  ShortName <- MCShort
  LastCluster = 5
  SlotsPerCluster = 2
  FileClusters = 2
  MaxCuts = 1
  CutsInGrowth = FALSE
  WritesHoles = FALSE
  ExtNames = {"f", "x", "d"}
  ExtDirs = {"d"}
  ExtParent <- MCExtParent
  LastBlock = 4
  LastInode = 3
  EntriesPerBlock = 4
  DirectBlocks = 1
  IndirectBlocks = 1
  MaxLosses = 1
  MaxPowerCuts = 1
  CutsInTruncate = FALSE
  RemountsTrees = FALSE
  SkipsBlocks = FALSE
  TrbRingSize = 3
  EventRingSize = 2
  Serials = 2
  MaxGivenUp = 1
  Storers = {"a"}
  Lbas = {"l1", "l2"}
  Data = {"u", "v"}
  MaxCommands = 6
  MaxTimeouts = 1
  PaneSlots = {1, 2, 3}
  RingSize = 4
  Buttons = {0, 1}
  PushesArePreempted = FALSE
  WindowMax = 2
  KeysInGestures = FALSE
  WinSlots = {1, 2}
  Apps = {"a", "b"}
  Surfaces = {"x", "y", "z"}
  GenerationMax = 2
  MaxWindow = 2
  ClippedFrames = FALSE
  BlitsArePreempted = FALSE
INVARIANTS
  HbfsSafe
  
  DriversSafe
  
VIEW Moving
CHECK_DEADLOCK FALSE
