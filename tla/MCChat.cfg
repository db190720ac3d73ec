SPECIFICATION Spec
CONSTANTS
    ann = ann
    bob = bob
    Clients <- MCClients
    Undecodable <- MCUndecodable
    Quitters = {ann, bob}
    MaxRecent = 1
    MaxLines = 2
    MaxTotal = 3
    Window = 1
INVARIANTS
    ChatTypeOK
    ParticipantsMissNothing
    RecentIsTheEnd
    SpokenInOrder
    NothingStalls
    ParticipantsAreHeard
    NothingAfterABadHeader
CHECK_DEADLOCK FALSE
PROPERTY
    ImplementsConversation
