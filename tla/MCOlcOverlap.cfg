SPECIFICATION Spec
CONSTANTS
    Clients = {c1}
    Impostors = {}
    Server = server
    NoBody = noBody
    Junk = junk
    Quitters = {c1}
    MaxSends = 2
    Patient = FALSE
INVARIANTS
    OneWriteAtATime
\* Every client may have left: the server then waits for new ones.
CHECK_DEADLOCK FALSE
