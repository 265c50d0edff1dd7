SPECIFICATION FairSpec
CONSTANTS
    Requests = {r1, r2}
    NoRequest = NoRequest
    MaxFailures = 2
    MaxProbes = 1
INVARIANTS
    TripsAtMax
    FewProbes
    OneFlight
PROPERTIES
    FailsFast
    RequestEnds
