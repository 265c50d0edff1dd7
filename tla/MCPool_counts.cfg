SPECIFICATION Spec
CONSTANTS
    op = op
    ta = ta
    tb = tb
    alice = alice
    bob = bob
    Requests = {r1, r2, r3}
    Sessions = {s1, s2}
    Servers = {op, ta, tb}
    Clients = {c1, c2, c3, c4}
    Tenants = {alice, bob}
    Operator = Operator
    NoClient = NoClient
    Owner <- MCOwner
    MaxTotal = 3
    MaxPerServer = 2
    TenantBudget = 1
    TenantPerKey = 1
    EndsMidCall = TRUE
SYMMETRY MCSymmetry
INVARIANTS
    TypeOK
    ConnectionAccounting
    TenantAccounting
    OnePlace
    PerServerCap
    TenantShare
    NothingLeaks
