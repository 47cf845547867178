SPECIFICATION Spec
CONSTANTS
    m = m
    w1 = w1
    w2 = w2
    w3 = w3
    c1 = c1
    c2 = c2
    Interval = 2
    Clients <- TwoClients
    NoClient = NoClient
    Main = m
    Workers <- ThreeWorkers
    NoPid = NoPid
    MaxFiles = 2
    ToZip = FALSE
    Faults <- NoFaults
    Commands = {"TOG"}
SYMMETRY Alike
INVARIANTS
    TypeOK
    WithinInterval
    StoredForPeer
    NoLeak
    NeverPastTheEnd
