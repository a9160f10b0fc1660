SPECIFICATION Spec
CONSTANTS
    MaxTasks = 3
    MaxId = 5
    p1 = p1
    p2 = p2
    p3 = p3
    Pml4s = {p1, p2}
    KernelPml4 = KernelPml4
    NoPml4 = NoPml4
    Workload = {"ring3", "exit", "kill", "pend"}
    IrqOpen = {"mem", "fdt", "exit2"}
    LoadYields = FALSE
SYMMETRY FrameSymmetry
INVARIANTS
    SpacesSafe
\* A tick inside a creation may switch to the half-built context; what it executes
\* is outside the model, which stops there.
CHECK_DEADLOCK FALSE
