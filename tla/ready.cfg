SPECIFICATION WaitSpec
CONSTANTS WatchedFds = {3,4}
 WatchSlots = {1,2}
 Sources = {"a","b"}
 SourceRoom = 1
 MaxEvents = 1
 Interests <- MCInterests
 PollSets <- MCPollSets
 WatchForms <- MCForms
 ClosesWatched = FALSE
CONSTANTS SignalCount = 2
 FatalSignals = {1,2}
 TermSignal = 2
 FaultSignal = 1
 FlagSets = {{"RESTORER"},{"RESTORER","SIGINFO","ONSTACK","NODEFER"}}
 HandlerMasks = {{}}
 Masks = {{},{1}}
 NestMax = 2
 AltFrames = 2
 SignalQueue = 2
 MaxSent = 2
 MaxFaults = 1
 ForksInHandler = FALSE
CONSTANTS WinSlots = {1,2}
 Apps = {"a"}
 Surfaces = {"x","y","z"}
 GenerationMax = 2
 MaxWindow = 2
 ClippedFrames = FALSE
 BlitsArePreempted = FALSE
INVARIANTS
 ReadinessSafe
 SignalsSafe
PROPERTIES
 NobodySleepsOnReady
 HandlersRun
  DeadWindowsGo
CHECK_DEADLOCK FALSE
