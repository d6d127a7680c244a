SPECIFICATION Spec
CONSTANTS
    s1 = s1
    s2 = s2
    g1 = g1
    p1 = p1
    p2 = p2
    NoSession = NoSession
    Sessions <- AllSessions
    Gated <- Cursor
    Files <- ComponentAndStyle
    Styles <- Imports
    Patches <- SingleFiles
    Findings = {"x"}
    Processes <- TwoProcesses
    Threshold = 1
    MaxSessions = 2
    MaxEdits = 3
    MaxUpsets = 1
SYMMETRY Alike
INVARIANT TypeOK
INVARIANT CountedWasMade
INVARIANT ExactOneByOne
PROPERTY NothingIsKept
CHECK_DEADLOCK FALSE
