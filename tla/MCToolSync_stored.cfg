SPECIFICATION FairSpec
CONSTANTS
    a = a
    b = b
    Tools <- MCTools
    Filters <- MCFilters
    Requests = {r1, r2}
INVARIANTS
    HashAgrees
PROPERTIES
    Stored
