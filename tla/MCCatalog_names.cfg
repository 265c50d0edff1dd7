CONSTANTS
    s1 = s1
    s2 = s2
    Servers = {s1, s2}
    Managed = {s1}
    Namespaces = {n1, n2}
    Home = n1
    Endpoints = {e1, e2}
    Door = e1
    Names = {"a", "b"}
    Clean <- MCClean
    TenantName <- MCTenantName
    Tools <- MCTools
    Offers <- MCOffers
    Override <- MCOverride
    Clients = {c1, c2}
    NoName = NoName
    None = None
    TTL = 1
    Slow = 1
    MaxEdits = 3

SPECIFICATION CatalogSpec
INVARIANTS
    CatalogTypes
    ListedIsCalled
    DisabledRefused
    NoLateCall
SYMMETRY Symmetry
