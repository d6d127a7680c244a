SPECIFICATION Spec
CONSTANTS
    s1 = s1
    p1 = p1
    NoId = NoId
    NoEvent = NoEvent
    None = None
    Sessions = {s1}
    m1 = m1
    Steers = {m1}
    Ids = {s1, m1}
    Pollers = {p1}
    Types <- MCTypes
    FaultKinds = {"restart", "expiry", "reload", "drop", "crash"}
    MaxFaults = 2
    MaxDecisions = 1
    MaxRevision = 2
CONSTRAINT MostlyApart
CHECK_DEADLOCK FALSE
INVARIANT TypeOK
INVARIANT QueueInvariant
INVARIANT PendingIsQueued
INVARIANT ConfirmedIsWritten
PROPERTY QueueSpec
