SPECIFICATION Spec
CONSTANTS
    Requests = {r1, r2}
    Keys = {k1, k2, k3}
    Tenants = {t1}
    Rows <- MCRows
    MaxKeys = 2
    Rate = 1
    Burst = 2
    Cap = 2
    LastNow = 1
    LastDay = 2
SYMMETRY Symmetry
INVARIANTS
    NeverOverCap
    ServedEntitled
    LimitsRate
PROPERTIES
    NeverRefusedAlone
    QuotaSpec
