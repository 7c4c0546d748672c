CONSTANTS
    Name = {"f"}
    Byte = {1, 2, 3}
    RawPath <- MCRawPath
    Data <- MCTwoData
    MaxObjectLen = 12
    Client = {c1, c2}
    ChunkSize = 2
    U32Max = 7
    PreviewLimit = 3
    Kind = {"write", "append", "upload", "read", "rm"}
    MaxCommands = 3
SPECIFICATION Spec
INVARIANTS UndisturbedObject SuccessMeansDelivered ReadShowsObject Paired InStep StuckOnlyByLocalFailure
SYMMETRY MCSymmetry
CHECK_DEADLOCK FALSE
