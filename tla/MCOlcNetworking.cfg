SPECIFICATION Spec
CONSTANTS
    Clients = {c1, c2}
    Impostors = {c2}
    Server = server
    NoBody = noBody
    Junk = junk
    Quitters = {c1}
    MaxSends = 1
    Patient = FALSE
INVARIANTS
    OlcTypeOK
    HandshakeFirst
    NoEcho
\* Every client may have left: the server then waits for new ones.
CHECK_DEADLOCK FALSE
