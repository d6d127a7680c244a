SPECIFICATION Spec
CONSTANTS
    s1 = s1
    s2 = s2
    NoId = NoId
    Sessions <- TwoSessions
    Source <- TwoChildren
    Count = 2
    Editable = {"a"}
INVARIANT EditsStayStaged
CHECK_DEADLOCK FALSE
