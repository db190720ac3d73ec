SPECIFICATION ProgramsSpec
CONSTANTS
    HashKeys = {0, 1, 2}
    HashValues = {0, 1}
    HashSizes = {0, 1, 2}
    HashSizeMod = 4
    NodeMax = 3
    HashRanges <- MCHashRanges
    ListKeys = {1, 2, 3}
    ListTags = {1, 2}
    ListMax = 4
    ListArgs <- MCListArgs
    TreePairs <- MCTreePairs
    TreeRanges <- MCTreeRanges
    TreeMax = 4
    AnimLimit = 3
    AnimMax = 6
    MaxSent = 5
    PunyLines <- MCPunyLines
    PunyMax = 3
    ScanTexts <- MCScanTexts
    CalcStatements <- MCCalcStatements
    CalcMax = 2
    Types <- MCTypes
    SizeOfType <- MCSizeOfType
    Parent <- MCParent
    TypeListMax = 4
    TupleKinds = {"int", "string"}
    TupleMax = 3
    OutMax = 3
    MaxTraces = 4
    Addresses = {"a1", "a2", "a3"}
    SemObjects = {1, 2, 3}
    SemMax = 2
    SemPosts = 1
    QueueUsers = {1, 2, 3}
    Updater = 1
    PushMax = 2
    ArenaSize = 6
    ArenaAlign = 2
    ArenaMax = 3
    Peers = {"p1", "p2"}
    EchoMax = 2
    WindowMax = 1
    AskMax = 2
    OneLimit = 5
    TwoLimit = 6
    Max_Message_Count = 4
    Receivers = {r1, r2}
    AddressCount = 2
    Callers = {"c1", "c2"}
    SnakeBoard = 7
    SnakeApples <- AppleFalls
    SnakeTicks = 11
    SnakeKeys = 4
    SnakeDots = 8
    Texts = {"Capote", "Fargo"}
    ListMost = 4
    MaxProgress = 3
    QtEvents = 8
    Accounts = {"a", "b"}
    Amounts = {1, 6}
    BankOps = 4
    Modifiers = {"none", "r1", "r1_2", "r2"}
    ModifierKind <- Kinds
    People = {"John", "Jane", "john2"}
    PersonName <- Names
    Characters = {"+", "(", ")", "1", "a"}
    TextMost = 5
    PatternOps = 6
    BodyLengths = {0, 1, 9, 10, 100, 511, 512}
    HeaderChars = {0, 5, 10}
    DataSizes = {4, 8}
    BodyMax = 20
    WholeParts = {0, 1, 3, 32767, 32768, 32769}
    Fractions = {0, 1, 3, 4, 131072, 262143}
    ListenerTypes <- MCListeners
    Observers = {"o1", "o2"}
    RegisterMax = 3
    TextLength = 4
    Threads = {t1, t2, t3}
    Values = {v1, v2, v3}
    NoThread = noThread
    NoValue = noValue
INVARIANTS
    ProgramsTypeOK
    ContainersOK
    StateMachinesOK
    ParsersOK
    LibrariesOK
    SemaphoresOK
    SharedQueuesOK
    AsioServersOK
    AsioTimersOK
    NoLostWakeup
    QInv
PROPERTIES
    ContainersAreDictionaries
    ImplementsFifo
CHECK_DEADLOCK FALSE
