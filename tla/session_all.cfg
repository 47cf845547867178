SPECIFICATION FairSpec
CONSTANTS
    Retries = 2
    MaxSlots = 2
    MaxCopies = 1
    MaxToggles = 2
    Settings <- AllSettings
INVARIANTS
    KeyNeverWrong
    PortAnswered
PROPERTIES
    ReturnedIsStored
    ClientEnds
CHECK_DEADLOCK FALSE
