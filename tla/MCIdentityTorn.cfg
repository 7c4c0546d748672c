CONSTANTS
    Key = {k1, k2, k3}
    Absent = absent
    Torn = torn
SPECIFICATION IdentitySpec
INVARIANT StartLoadsOrGenerates
CHECK_DEADLOCK FALSE
