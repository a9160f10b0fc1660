\* Local sockets and a timerfd.
SPECIFICATION IpcSpec
CONSTANTS
  s1 = s1
  s2 = s2
  s3 = s3
  f1 = f1
  f2 = f2
  f3 = f3
  SocketSlots = {s1, s2, s3}
  SocketFds = {f1, f2, f3}
  Addresses = {"x"}
  SocketBuffer = 1
  Backlog = 1
  Workloads = {{"data"}, {"rights"}}
  RightsQueue = 1
  Shutdowns = {"write"}
  Nobody = Nobody
  ReusesWaited = FALSE
  TickUnits = 2
  LastTick = 9
  TimerValues = {0, 1, 2, 4}
  Reboot = {0, 2}
INVARIANTS
  UnixSafe
  TimerSafe
  ResetsAsCoded
SYMMETRY SocketSymmetry
CHECK_DEADLOCK FALSE
