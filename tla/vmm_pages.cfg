SPECIFICATION Spec
CONSTANTS
    boot = boot
    child = child
    other = other
    zero = zero
    one = one
    Spaces = {boot, child}
    Boot = boot
    NPages = 2
    NFrames = 3
    MaxRefs = 2
    Values = {zero, one}
    Zero = zero
    Protections = {"rw"}
    Ops = {"advise", "exec"}
INVARIANT VmmInv
PROPERTY MemoryIsPrivate
