CONSTANTS
    Name = {"a", "b"}
    Byte = {1}
    RawPath <- MCRawPath
    Data <- MCData
    MaxObjectLen = 1
    Client = {c1, c2}
    MaxDirLen = 2
    MaxComponents = 2
SPECIFICATION HandlerSpec
INVARIANTS NothingUnderRemovedDir NormalizeMatchesReference JoinThenNormalize
SYMMETRY MCSymmetry
