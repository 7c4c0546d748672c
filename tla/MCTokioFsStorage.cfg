CONSTANTS
    Name = {"a", "b", "s"}
    Base <- MCBase
    Outside <- MCOutside
    Byte = {1, 2}
    RawPath <- MCFewPaths
    PutData <- MCEmpty
    AppendData <- MCData
    ChunkSize = 2
    Caller = {c1, c2}
    MaxCalls = 4
SPECIFICATION FsSpec
INVARIANTS ResolveAgrees DirsNamed AckedAppendStays ReadCollects
PROPERTY FsImplementsContract
SYMMETRY MCSymmetry
CHECK_DEADLOCK FALSE
