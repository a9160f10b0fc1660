SPECIFICATION FairSpec
CONSTANTS
    MaxTasks = 3
    MaxId = 4
    p1 = p1
    p2 = p2
    p3 = p3
    Pml4s = {p1, p2}
    KernelPml4 = KernelPml4
    NoPml4 = NoPml4
    Workload = {"fork", "clone", "exit", "kill"}
    IrqOpen = {"exit2"}
    LoadYields = FALSE
INVARIANTS
    ResumesOwnContext
    NoSpaceLeaks
PROPERTIES
    NoStarvation
    RetiredIsReaped
