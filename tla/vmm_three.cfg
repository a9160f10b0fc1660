SPECIFICATION Spec
CONSTANTS
    boot = boot
    child = child
    other = other
    zero = zero
    one = one
    Spaces = {boot, child, other}
    Boot = boot
    NPages = 1
    NFrames = 3
    MaxRefs = 2
    Values = {zero, one}
    Zero = zero
    Protections = {"rw", "r"}
    Ops = {"kernelwrite", "exec", "preempt"}
SYMMETRY SpaceSymmetry
INVARIANTS
    RefsSafe
    WritableIsExclusive
