\* Flushes, stops and restarts against the task, blocks registered before the start.
CONSTANTS
    b1 = b1
    b2 = b2
    None = None
    Blocks = {b1}
    Count = 2
    Bases = {0}
    BaseNone = 2
    MaxPerPass = 1
    MaxValue = 2
    Ops = {"register", "stop", "persist", "reset", "set"}
    Faults = {"record_set", "load"}
    MaxFaults = 1
    MaxCrashes = 1
SPECIFICATION Spec
INVARIANTS TypeInv CleanIsStored FlushIsDurable
