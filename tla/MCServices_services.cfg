CONSTANTS
    n1 = n1
    n2 = n2
    n3 = n3
    i1 = i1
    k1 = k1
    k2 = k2
    Process = {n1, n2}
    MaxLoads = 2
    Day = {1, 2}
    DefaultDay = 1
    MaxSettings = 3
    Server = {n1, n2}
    Item = {i1}
    Nobody = Nobody
    Gone = Gone
    MaxBookings = 2
    MaxJobFaults = 2
    Call = {n1, n2}
    Report = {n1, n2, n3}
    Context = {k1, k2}
    Admin = {n1, n2}
    Absent = Absent
    Threshold = 2
    Submission = {n1, n2}
    Editor = {n1, n2}
    Offer = {n1, n2}
    MaxPhotos = 3
    MaxImageFaults = 2
SPECIFICATION Spec
SYMMETRY Symmetry
CONSTRAINTS OneAppeal SomeoneFollows
INVARIANTS
    NoStaleFill
    ScheduleFollows
    LeaseHeld
    RemindersSound
    FailuresCounted
    DecisionStands
    LevelHasGrounds
    BannedAtThreshold
    RatingsCountOnce
    ImagesSound
PROPERTIES
    DecisionsAreFinal
CHECK_DEADLOCK FALSE
