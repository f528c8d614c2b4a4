CONSTANTS
    a = a
    b = b
    other = other
    don = don
    i1 = i1
    p1 = p1
    p2 = p2
    r1 = r1
    h1 = h1
    NoRequest = NoRequest
    NoHub = NoHub
    RequestOps = {"create", "submit", "accept", "reject", "expire", "cancel"}
    User = {a, b, other, don}
    Item = {i1}
    Donor <- DonorOfOne
    Proc = {p1, p2}
    NoUser = NoUser
    NoItem = NoItem
    Posted = {i1}
    MaxBookings = 1
    MaxWaitlist = 1
    MaxActiveLevel1 = 1
    MaxActiveLevel2 = 2
    Moderated = {b}
    Ops = {"book", "cancel", "confirm", "expire"}
SPECIFICATION FairBoth
PROPERTIES
    OverdueResolved
    OverdueRequestsClose
CHECK_DEADLOCK FALSE
