\* A fully cached volume used through both APIs, power failures, and failing
\* writes and erases.
CONSTANTS
    k1 = k1
    k2 = k2
    k3 = k3
    v1 = v1
    v2 = v2
    None = None
    Keys = {k1, k2}
    Vals = {v1, v2}
    MaxRecords = 4
    Headroom = 1
    Cached = TRUE
    Ops = {"record_set", "entry_save", "unload"}
    MaxCrashes = 1
    Faults = {"write", "flag", "erase"}
    MaxFaults = 1
SPECIFICATION Spec
SYMMETRY KeysAndVals
INVARIANTS TypeInv ErasedInv
PROPERTIES WriteOnce UpdatesAreAtomic SetIsDurable
