SPECIFICATION FairSpec
CONSTANTS
    ann = ann
    bob = bob
    Clients <- MCClients
    Undecodable <- MCUndecodable
    Quitters = {bob}
    MaxRecent = 1
    MaxLines = 2
    MaxTotal = 2
    Window = 1
PROPERTIES
    LinesReachEveryone
    ClientExits
    SessionsEnd
CHECK_DEADLOCK FALSE
