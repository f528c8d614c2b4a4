CONSTANTS
    a = a
    b = b
    c = c
    don = don
    i1 = i1
    i2 = i2
    i3 = i3
    p1 = p1
    p2 = p2
    User = {a, b, don}
    Item = {i1}
    Donor <- DonorOfOne
    Proc = {p1, p2}
    NoUser = NoUser
    NoItem = NoItem
    Posted = {i1}
    MaxBookings = 1
    MaxWaitlist = 2
    MaxActiveLevel1 = 1
    MaxActiveLevel2 = 2
    Moderated = {b}
    Ops = {"book", "leave", "cancel", "confirm", "expire", "delete", "ban", "trust"}
SPECIFICATION Spec
SYMMETRY Symmetry
INVARIANTS
    BannedHoldsNothing
CHECK_DEADLOCK FALSE
