SPECIFICATION FairSpec
CONSTANTS
    t1 = t1
    t2 = t2
    t3 = t3
    lock = lock
    bit1 = bit1
    bit2 = bit2
    Tasks = {t1, t2, t3}
    Abroad = {}
    Locks = {lock}
    Joinable = {t3}
    NoAddr = NoAddr
    Takers = {t3}
    Masks = {{bit1}, {bit2}, {bit1, bit2}}
    WaitArgs <- MCWaitArgs
    MaxTasks = 3
    Deaths = {"waiting"}
CHECK_DEADLOCK FALSE
INVARIANTS
    FutexSafe
    DeadLeaveNothing
    
PROPERTIES
    PromiseKept
    WaitersOfDeadReturn
