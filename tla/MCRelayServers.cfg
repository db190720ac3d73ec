SPECIFICATION FairSpec
CONSTANTS
    Clients = {a, b, c}
    NoClient = noClient
    NoRelay = noRelay
    NoCast = noCast
    Programs = {"poll", "select"}
    Talkers = {a, b}
    Closers = {b, c}
    MaxSends = 1
    Size = 2
    Window = 1
INVARIANTS
    RelayTypeOK
    WatchesWhatIsOpen
    OneOrder
    OnlyTheseAreLeftOut
PROPERTIES
    EveryoneIsServed
CHECK_DEADLOCK FALSE
