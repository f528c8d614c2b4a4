CONSTANTS
    e1 = e1
    e2 = e2
    w1 = w1
    w2 = w2
    Event = {e1}
    Worker = {w1, w2}
    NoWorker = NoWorker
    NoEvent = NoEvent
    MaxAttempts = 3
    BatchSize = 2
SPECIFICATION FairSpec
INVARIANTS
    ClaimsAreFenced
    ActsBeforeCompleting
PROPERTIES
    ImplementsDelivery
    EventsSettle
