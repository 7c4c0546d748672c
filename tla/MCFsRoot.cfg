CONSTANTS
    Name = {"a", "b", "s"}
    Base <- MCBase
    Outside <- MCOutside
    Byte = {1, 2}
    RawPath <- MCRawPath
    PutData <- MCPutData
    AppendData <- MCData
    ChunkSize = 2
    Caller = {c1}
    MaxCalls = 4
SPECIFICATION FsSpec
INVARIANT BaseDirStays
CHECK_DEADLOCK FALSE
