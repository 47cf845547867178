SPECIFICATION FairSpec
CONSTANTS
    FileLines <- SomeLines
    Properties <- SomeProperties
    MaxFileLines = 4
    Octet = 2
    Hosts <- SomeHosts
    Networks <- SomeNetworks
    Flags = {0, 1}
    ListLengths <- SomeLengths
    MaxNetworks = 1
    MaxEntries = 3
    MaxFiles = 2
    Sessions = {"session"}
    Local = "local"
    WithLocal = TRUE
    MaxLines = 2
    MaxMessages = 4
    MaxChanges = 2
    Header = 3
    Packet = 2
    Bar = 4
    IntMax = 20
    Settings <- SomeSettings
INVARIANTS
    NetworksAreMonotone
    FoundIsAsked
    ListedOnce
    Restored
    LinesAfterLogin
    LocalIsNeverLate
PROPERTIES
    ExitStops
CHECK_DEADLOCK FALSE
