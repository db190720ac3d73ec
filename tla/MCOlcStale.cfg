SPECIFICATION Spec
CONSTANTS
    Clients = {c1}
    Impostors = {}
    Server = server
    NoBody = noBody
    Junk = junk
    Quitters = {c1}
    MaxSends = 2
    Patient = TRUE
INVARIANTS
    QueueHoldsWhatWasSent
\* Every client may have left: the server then waits for new ones.
CHECK_DEADLOCK FALSE
