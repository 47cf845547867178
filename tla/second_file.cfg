SPECIFICATION ExtractSpec
CONSTANTS
    Header = 3
    Packet = 2
    Bar = 4
    IntMax = 20
    Settings <- PlainSettings
INVARIANTS
    Restored
CHECK_DEADLOCK FALSE
