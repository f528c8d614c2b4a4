CONSTANTS
    asker = asker
    giver = giver
    other = other
    r1 = r1
    r2 = r2
    r3 = r3
    h1 = h1
    p1 = p1
    p2 = p2
    User = {asker, giver}
    Request = {r1}
    Hub = {}
    Requester <- AskerOfOne
    Proc = {p1, p2}
    NoUser = NoUser
    NoRequest = NoRequest
    NoHub = NoHub
    MaxRequests = 1
    MaxPending = 1
    MaxBookings = 1
    MaxActiveLevel1 = 1
    MaxActiveLevel2 = 1
    Moderated = {giver}
    Ops = {"create", "submit", "accept", "confirm", "delete"}
SPECIFICATION Spec
SYMMETRY Symmetry
PROPERTIES
    ModeratedIsCancelled
CHECK_DEADLOCK FALSE
