CONSTANTS
    asker = asker
    giver = giver
    other = other
    r1 = r1
    r2 = r2
    r3 = r3
    h1 = h1
    p1 = p1
    p2 = p2
    User = {asker, giver, other}
    Request = {r1}
    Hub = {h1}
    Requester <- AskerOfOne
    Proc = {p1, p2}
    NoUser = NoUser
    NoRequest = NoRequest
    NoHub = NoHub
    MaxRequests = 1
    MaxPending = 1
    MaxBookings = 1
    MaxActiveLevel1 = 1
    MaxActiveLevel2 = 1
    Moderated = {asker, giver}
    Ops = {"create", "submit", "accept", "reject", "withdraw", "cancel", "expire", "confirm", "ban", "delete", "hub"}
SPECIFICATION Spec
SYMMETRY Symmetry
INVARIANTS
    ExchangeSound
PROPERTIES
    DeliveredKeepsHistory
CHECK_DEADLOCK FALSE
