\* Two writers, a reader and the owner of the service on a log of three records;
\* a call of nlog3 that fails and a power failure.
CONSTANTS
    w1 = w1
    w2 = w2
    r1 = r1
    owner = owner
    None = None
    Absent = Absent
    Writers = {w1, w2}
    Readers = {r1}
    Owner = owner
    LogMax = 1
    MaxSeverity = 1
    Capacity = 3
    MaxId = 2
    MaxCrashes = 1
    MaxFaults = 1
SYMMETRY Symmetry
SPECIFICATION Spec
INVARIANTS IdsAscend TextsAreWhole WalkLeavesNoneOut
PROPERTIES AppendsCarryOn WalkEndsAtEnd
