CONSTANTS
    Entries = {1, 2}
    Files = {1, 2}
    FileOf <- TwoFiles
    None = None
    ChunkSize = 1
    MaxAttempts = 2
    MaxVersion = 2
SPECIFICATION Spec
INVARIANT ToldStays
CHECK_DEADLOCK FALSE
