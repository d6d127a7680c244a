SPECIFICATION Spec
CONSTANTS
    s1 = s1
    s2 = s2
    NoId = NoId
    Sessions <- TwoSessions
    Source <- TwoChildren
    Count = 2
    Editable = {"a"}
INVARIANT TypeOK
INVARIANT IndentRestored
INVARIANT OneChild
PROPERTY OnlyAcceptChanges
PROPERTY AcceptIsExact
PROPERTY EditLeavesWithItsText
CHECK_DEADLOCK FALSE
