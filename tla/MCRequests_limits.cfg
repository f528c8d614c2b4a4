CONSTANTS
    asker = asker
    giver = giver
    other = other
    r1 = r1
    r2 = r2
    r3 = r3
    h1 = h1
    p1 = p1
    p2 = p2
    User = {asker, giver}
    Request = {r1, r2, r3}
    Hub = {}
    Requester <- AskerOfThree
    Proc = {p1, p2}
    NoUser = NoUser
    NoRequest = NoRequest
    NoHub = NoHub
    MaxRequests = 2
    MaxPending = 1
    MaxBookings = 1
    MaxActiveLevel1 = 1
    MaxActiveLevel2 = 2
    Moderated = {giver}
    Ops = {"create", "submit", "accept", "withdraw", "confirm", "public", "trust"}
SPECIFICATION Spec
SYMMETRY SymmetryRequests
INVARIANTS
    WithinLimits
CHECK_DEADLOCK FALSE
