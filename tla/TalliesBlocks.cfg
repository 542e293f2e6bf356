\* Blocks that come and go at shared ids.
CONSTANTS
    b1 = b1
    b2 = b2
    None = None
    Blocks = {b1, b2}
    Count = 1
    Bases = {0, 1}
    BaseNone = 2
    MaxPerPass = 1
    MaxValue = 1
    Ops = {"register_late", "unregister", "reset"}
    Faults = {"record_set", "record_delete"}
    MaxFaults = 1
    MaxCrashes = 0
SPECIFICATION FairSpec
INVARIANTS NoInheritance
PROPERTIES CountsReachFlash
