\* Deletions, repairs and clean restarts, and a record write that fails.
CONSTANTS
    k1 = k1
    k2 = k2
    k3 = k3
    v1 = v1
    v2 = v2
    None = None
    Keys = {k1, k2, k3}
    Vals = {v1, v2}
    MaxRecords = 4
    Headroom = 1
    Cached = FALSE
    Ops = {"record_set", "record_delete", "repair", "unload"}
    MaxCrashes = 0
    Faults = {"write"}
    MaxFaults = 1
SPECIFICATION Spec
SYMMETRY KeysAndVals
INVARIANTS LookupTableSound StatusIsExact
PROPERTIES DeleteIsDurable OneRecordPerFault
