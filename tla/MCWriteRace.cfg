CONSTANTS
    Name = {"f"}
    Byte = {1, 2, 3}
    RawPath <- MCRawPath
    Data <- MCRaceData
    MaxObjectLen = 12
    Client = {c1, c2}
    ChunkSize = 2
    U32Max = 7
    PreviewLimit = 1
    Kind = {"write"}
    MaxCommands = 2
SPECIFICATION Spec
INVARIANT WriteReplacesWhole
CHECK_DEADLOCK FALSE
