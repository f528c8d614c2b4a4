CONSTANTS
    n1 = n1
    n2 = n2
    a1 = a1
    a2 = a2
    q = q
    m1 = m1
    Request = {n1, n2}
    MaxAttempts = 2
    MaxVersion = 3
    MaxTokens = 3
    MaxCodes = 2
    Staff = {a1, a2}
    Requester = q
    Message = {m1}
    Attempt = {n1, n2}
    NoUser = NoUser
    MaxAway = 1
    Joiner = {a1, a2, q}
    MaxFaults = 1
SPECIFICATION Spec
SYMMETRY Symmetry
CONSTRAINT Hands
INVARIANTS
    TokensAreCurrent
    GuessesBounded
    MessagesArrive
    RoomIsForParticipants
PROPERTIES
    RacersAreNotThieves
    OnlyTheLastCodeVerifies
    ImplementsOneSession
    NobodyIsRobbed
CHECK_DEADLOCK FALSE
