SPECIFICATION Spec
CONSTANTS
    Clients = {a, b}
    NoClient = noClient
    NoRelay = noRelay
    NoCast = noCast
    Programs = {"poll"}
    Talkers = {a}
    Closers = {a, b}
    MaxSends = 1
    Size = 2
    Window = 1
INVARIANTS
    PassStaysInVector
CHECK_DEADLOCK FALSE
