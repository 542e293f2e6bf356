\* Four sectors, power failures anywhere, an iterator kept across appends; the
\* log is one of nlog2 before, with records of one size or of two.
CONSTANTS
    SectorCount = 4
    Room = 2
    Sizes = {1, 2}
    SeqMod = 16
    MaxId = 5
    MaxCrashes = 2
    Ops = {"init"}
    Faults = {}
    MaxFaults = 0
    OldUnits = 6
    OldSizes = {{1}, {1, 2}}
    OldMaxId = 8
    OldMaxCrashes = 2
    OldOps = {"init", "reset"}
SPECIFICATION UpgradeSpec
INVARIANTS FullRing IteratorsFollowLog
INVARIANTS OldWalkBackInOrder OldEveryRecordIsReached OldOneTornPerFailure
PROPERTIES NewestSurvives OldResumesSameLog
