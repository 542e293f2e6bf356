\* Power failures anywhere, no FLASH errors, data read back from FLASH; fair
\* scheduling.
CONSTANTS
    k1 = k1
    k2 = k2
    k3 = k3
    v1 = v1
    v2 = v2
    None = None
    Keys = {k1, k2}
    Vals = {v1, v2}
    MaxRecords = 3
    Headroom = 1
    Cached = FALSE
    Ops = {"record_set", "repair", "reset", "delete", "unload"}
    MaxCrashes = 2
    Faults = {}
    MaxFaults = 0
SPECIFICATION FairSpec
PROPERTIES ImplementsKVStore OperationsReturn
