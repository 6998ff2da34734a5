SPECIFICATION FairSpec
CONSTANTS
    r1 = r1
    r2 = r2
    k1 = k1
    k2 = k2
    Requests = {r1, r2}
    Keys = {k1, k2}
    Wants <- WantsOne
    Has = {r1}
    Kept = {k2}
    Size <- UnitSize
    Budget = 1
    MaxDepth = 2
    MaxMishaps = 1
    Faults = {"mirror", "disconnect", "remove", "kill"}
INVARIANTS
    TypeOK
    FinalIsWhole
PROPERTIES
    RequestsAnswered
    BudgetRestored
    LeftoversReclaimed
CHECK_DEADLOCK FALSE
