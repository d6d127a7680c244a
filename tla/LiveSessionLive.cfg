SPECIFICATION LiveSpec
CONSTANTS
    s1 = s1
    p1 = p1
    NoId = NoId
    NoEvent = NoEvent
    None = None
    Sessions = {s1}
    Steers = {}
    Ids = {s1}
    Pollers = {p1}
    Types <- MCTypes
    FaultKinds = {"expiry", "restart", "crash"}
    MaxFaults = 1
    MaxDecisions = 2
    MaxRevision = 0
CHECK_DEADLOCK FALSE
PROPERTY EventsAreHandled
PROPERTY BarMovesOn
