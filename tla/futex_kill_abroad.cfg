SPECIFICATION Spec
CONSTANTS
    t1 = t1
    t2 = t2
    t3 = t3
    lock = lock
    bit1 = bit1
    bit2 = bit2
    Tasks = {t1, t2, t3}
    Abroad = {t1}
    Locks = {lock}
    Joinable = {t3}
    NoAddr = NoAddr
    Takers = {t3}
    Masks = {{bit1}, {bit2}, {bit1, bit2}}
    WaitArgs <- MCWaitArgs
    MaxTasks = 3
    Deaths = {"foreign"}
CHECK_DEADLOCK FALSE
INVARIANT DeadLeaveNothing
