CONSTANTS
    Key = {k1, k2}
    Identity = {k1, k2}
    Absent = absent
    Torn = torn
    None = none
    Message <- MCMessage
    Oversized <- MCOversized
    Script <- MCScript
SPECIFICATION FairPinnedSpec
INVARIANTS IdentityKept KeysAgree PinHolds DeliveredInOrder
PROPERTIES PinStaysGood ConnectEnds
CHECK_DEADLOCK FALSE
