\* A block registered while the store runs.
CONSTANTS
    b1 = b1
    b2 = b2
    None = None
    Blocks = {b1}
    Count = 1
    Bases = {0, 1}
    BaseNone = 2
    MaxPerPass = 1
    MaxValue = 3
    Ops = {"register", "register_late", "persist"}
    Faults = {}
    MaxFaults = 0
    MaxCrashes = 1
SPECIFICATION Spec
INVARIANTS FlushIsDurable
