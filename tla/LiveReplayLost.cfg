SPECIFICATION Spec
CONSTANTS
    s1 = s1
    p1 = p1
    NoId = NoId
    NoEvent = NoEvent
    None = None
    Sessions = {s1}
    Steers = {}
    Ids = {s1}
    Pollers = {p1}
    Types <- MCTypes
    FaultKinds = {}
    MaxFaults = 0
    MaxDecisions = 1
    MaxRevision = 0
CHECK_DEADLOCK FALSE
INVARIANT UnacknowledgedIsDurable
