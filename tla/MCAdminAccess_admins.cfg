SPECIFICATION Spec
CONSTANTS
    Requests = {r1, r2}
    ApiKeys = {k1, k2}
    FirstKeys = {k1}
    Tokens = {t1}
    Users = {op, u1}
    Operator = op
    Root = Root
    Kids = {i1, i2}
    None = None
    TTL = 1
    Cooldown = 1
    LastNow = 3
SYMMETRY Symmetry
INVARIANTS
    OnlyOperators
PROPERTIES
    FetchesSpaced
    FollowsTheTeam
