CONSTANTS
    Name = {"a", "b"}
    Byte = {1}
    RawPath <- MCRawPath
    Data <- MCData
    MaxObjectLen = 1
    Client = {c1}
    MaxDirLen = 2
    MaxComponents = 2
SPECIFICATION HandlerSpec
PROPERTY CdUpGoesToParent
