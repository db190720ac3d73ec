SPECIFICATION Spec
CONSTANTS
    Clients = {a, b, c}
    NoClient = noClient
    NoRelay = noRelay
    NoCast = noCast
    Programs = {"poll"}
    Talkers = {a, b}
    Closers = {b, c}
    MaxSends = 1
    Size = 2
    Window = 1
INVARIANTS
    SentToEveryone
CHECK_DEADLOCK FALSE
