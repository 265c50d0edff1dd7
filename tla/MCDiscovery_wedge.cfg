SPECIFICATION BusySpec
CONSTANTS
    Requests = {r1, r2}
    NoRequest = NoRequest
    MaxFailures = 2
    MaxProbes = 1
PROPERTIES
    ProbeResolves
