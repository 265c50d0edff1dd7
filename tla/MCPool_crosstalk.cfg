SPECIFICATION Spec
CONSTANTS
    op = op
    ta = ta
    tb = tb
    alice = alice
    bob = bob
    Requests = {r1, r2, r3}
    Sessions = {s1}
    Servers = {ta, tb}
    Clients = {c1, c2}
    Tenants = {alice, bob}
    Operator = Operator
    NoClient = NoClient
    Owner <- MCOwner
    MaxTotal = 2
    MaxPerServer = 1
    TenantBudget = 2
    TenantPerKey = 2
    EndsMidCall = TRUE
INVARIANT
    NoCrossTalk
