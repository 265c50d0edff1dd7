SPECIFICATION Spec
CONSTANTS
    Servers = {v1, v2}
    Names = {n1, n2}
    Origins = {o1, o2}
    Seals = {x1, x2, x3}
    Requests = {r1, r2}
    Keep = Keep
    NoServer = NoServer
    NoSeal = NoSeal
    NoRequest = NoRequest
    MaxServers = 1
SYMMETRY MCSymmetry
INVARIANTS
    CredentialsStay
    ServerLimit
PROPERTIES
    HeadersNotReverted
