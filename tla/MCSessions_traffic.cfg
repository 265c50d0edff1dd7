SPECIFICATION FairSpec
CONSTANTS
    SessionIds = {s1}
    Endpoints = {e1, e2}
    Requests = {r1, r2, r3}
    NoSession = NoSession
    NoEndpoint = NoEndpoint
    ChanCap = 2
INVARIANTS
    Isolated
    InOrder
    NothingLost
PROPERTIES
    SessionsStay
    AllEnds
    DeliverySpec
CHECK_DEADLOCK FALSE
