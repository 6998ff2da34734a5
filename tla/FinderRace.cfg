SPECIFICATION Spec
CONSTANTS
    r1 = r1
    r2 = r2
    r3 = r3
    s1 = s1
    s2 = s2
    Delegate = Delegate
    NoServer = NoServer
    NoRequest = NoRequest
    NoRow = NoRow
    Flight = Flight
    Requests = {r1, r2}
    SourceRequests = {}
    Servers = {s1, s2}
    Sourceless = {}
    Delegated = {}
    Configs <- AllUp
    MaxFailures = 1
    Backoff <- ShortBackoff
    MaxClock = 1
    Faults = {"db", "expire", "disconnect"}
SYMMETRY BothSymmetry
INVARIANTS
    TypeOK
    HeadersOfHost
    NoSendOnClosed
    NotFoundMeansNobody
    OutcomesHappened
CHECK_DEADLOCK FALSE
