SPECIFICATION WebSpec
CONSTANTS
    Connectors = {c1, c2}
    NoConnector = none
    Interval = 2
    Base = 2
    Settings <- SomeSettings
    Browsers = {b1, b2}
    Names = {admin, guest}
    Admin = admin
    First = {admin}
    Passwords = {"p1", "p2"}
    FirstPassword = "p1"
    PoolSize = 3
    MaxLogins = 2
    MaxEdits = 2
    MaxPageMessages = 1
INVARIANTS
    WholeInPlace
    OwnSocketInPlace
    RowsAreFresh
    LastLoginHolds
PROPERTIES
    OldPasswordOpensNothing
CHECK_DEADLOCK FALSE
