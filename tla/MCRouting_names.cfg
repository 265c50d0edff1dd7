SPECIFICATION FairSpec
CONSTANTS
    Servers = {s1, s2}
    Names = {x, y}
    Requests = {r1, r2}
    Writers = {w1}
    NoName = NoName
    NoServer = NoServer
    None = None
    MaxChanges = 3
INVARIANTS
    TypeOK
    NeverAnother
PROPERTIES
    Settles
