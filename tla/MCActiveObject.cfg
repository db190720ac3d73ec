SPECIFICATION FairSpec
CONSTANTS
    s1 = s1
    s2 = s2
    Worker = worker
    Owner = s1
    Sends = 2
    Shown = 3
    Done = done
    NoThread = noThread
    NoValue = noValue
    Senders <- MCSenders
    Threads <- MCThreads
    Values <- MCValues
INVARIANTS
    InOrder
    NothingLost
    DoneIsLast
    IInv
PROPERTIES
    DestructorReturns
    EveryTaskRuns
