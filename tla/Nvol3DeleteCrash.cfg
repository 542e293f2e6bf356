\* A deletion after an update that a power failure cut short.
CONSTANTS
    k1 = k1
    k2 = k2
    k3 = k3
    v1 = v1
    v2 = v2
    None = None
    Keys = {k1, k2}
    Vals = {v1, v2}
    MaxRecords = 4
    Headroom = 1
    Cached = FALSE
    Ops = {"record_set", "record_delete"}
    MaxCrashes = 1
    Faults = {}
    MaxFaults = 0
SPECIFICATION Spec
SYMMETRY KeysAndVals
PROPERTIES DeleteIsDurable
