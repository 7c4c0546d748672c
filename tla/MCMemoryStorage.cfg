CONSTANTS
    Name = {"a", "b"}
    Byte = {1}
    RawPath <- MCRawPath
    Data <- MCData
    MaxObjectLen = 2
SPECIFICATION StorageSpec
INVARIANTS TreeInv EmptyMeansListedEmpty
PROPERTY ImplementsContract
