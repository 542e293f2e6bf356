\* A FLASH operation that fails, a power failure, resets; sequence numbers
\* wrap; fair scheduling.
CONSTANTS
    SectorCount = 3
    Room = 2
    Sizes = {1, 2}
    SeqMod = 7
    MaxId = 5
    MaxCrashes = 1
    Ops = {"init", "reset"}
    Faults = {"write", "erase"}
    MaxFaults = 1
SPECIFICATION FairSpec
INVARIANTS TypeInv WalksAgree
PROPERTIES WriteOnce ImplementsRingLog OperationsReturn
