CONSTANTS
    Peer = {p1, p2, p3, p4}
    MaxConnections = 2
SPECIFICATION FairSpec
INVARIANTS PermitsAccounted StoppedMeansQuiet
PROPERTIES RejectOnlyWhenFull HandshakesEnd ShutdownCompletes
CHECK_DEADLOCK FALSE
