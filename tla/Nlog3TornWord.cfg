\* Power cut between the bytes of a sector state word.
CONSTANTS
    SectorCount = 3
    Room = 2
    Sizes = {1, 2}
    SeqMod = 16
    MaxId = 5
    MaxCrashes = 1
    Ops = {"init"}
    Faults = {"torn_word"}
    MaxFaults = 0
SPECIFICATION Spec
PROPERTIES NewestSurvives
