SPECIFICATION Spec
CONSTANTS
    r1 = r1
    r2 = r2
    k1 = k1
    k2 = k2
    Requests = {r1, r2}
    Keys = {k1, k2}
    Wants <- WantsBoth
    Has = {r1}
    Kept = {}
    Size <- UnitSize
    Budget = 1
    MaxDepth = 1
    MaxMishaps = 0
    Faults = {}
INVARIANTS
    IndexNeverStale
CHECK_DEADLOCK FALSE
