SPECIFICATION Spec
CONSTANTS
    MaxTasks = 3
    MaxId = 5
    p1 = p1
    p2 = p2
    p3 = p3
    Pml4s = {p1, p2, p3}
    KernelPml4 = KernelPml4
    NoPml4 = NoPml4
    Workload <- AllOps
    IrqOpen = {"exit2"}
    LoadYields = FALSE
SYMMETRY FrameSymmetry
INVARIANTS
    TypeOK
    RingIsComplete
    OneRuns
    RefsMatchHolders
    RunsInOwnSpace
    LoaderKeepsSpace
