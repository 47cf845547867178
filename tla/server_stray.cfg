SPECIFICATION Spec
CONSTANTS
    m = m
    w1 = w1
    w2 = w2
    w3 = w3
    c1 = c1
    c2 = c2
    Interval = 1
    Clients <- OneClient
    NoClient = NoClient
    Main = m
    Workers <- TwoWorkers
    NoPid = NoPid
    MaxFiles = 1
    ToZip = TRUE
    Faults <- StrayFaults
    Commands = {}
SYMMETRY Alike
INVARIANTS
    OneReceiver
CHECK_DEADLOCK FALSE
