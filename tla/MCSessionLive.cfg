CONSTANTS
    Name = {"f"}
    Byte = {1, 2, 3}
    RawPath <- MCRawPath
    Data <- MCEndsData
    MaxObjectLen = 12
    Client = {c1, c2}
    ChunkSize = 2
    U32Max = 7
    PreviewLimit = 1
    Kind = {"write", "append", "upload", "read", "create", "rm", "mkdir", "rmdir", "ping", "terminate"}
    MaxCommands = 2
SPECIFICATION FairSpec
INVARIANT HeardAsMeant
PROPERTY CommandEnds
CHECK_DEADLOCK FALSE
