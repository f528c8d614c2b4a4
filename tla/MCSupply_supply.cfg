CONSTANTS
    a = a
    b = b
    don = don
    i1 = i1
    i2 = i2
    i3 = i3
    p1 = p1
    p2 = p2
    User = {a, b, don}
    Item = {i1, i2, i3}
    Donor <- DonorOfAll
    Proc = {p1, p2}
    NoUser = NoUser
    NoItem = NoItem
    Posted = {i1, i2}
    MaxBookings = 1
    MaxWaitlist = 2
    MaxActiveLevel1 = 1
    MaxActiveLevel2 = 2
    Moderated = {b, don}
    Ops = {"book", "leave", "cancel", "expire", "create", "delete", "ban", "trust"}
SPECIFICATION SupplySpec
SYMMETRY Symmetry
CONSTRAINT Scene
INVARIANTS
    BookingQuota
    DonorQuota
PROPERTIES
    BanSweeps
CHECK_DEADLOCK FALSE
