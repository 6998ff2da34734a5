SPECIFICATION FairSpec
CONSTANTS
    r1 = r1
    r2 = r2
    r3 = r3
    s1 = s1
    s2 = s2
    Delegate = Delegate
    NoServer = NoServer
    NoRequest = NoRequest
    NoRow = NoRow
    Flight = Flight
    Requests = {r1, r2}
    SourceRequests = {r2}
    Servers = {s1, s2}
    Sourceless = {s1, s2}
    Delegated = {s1}
    Configs <- AnyTable
    MaxFailures = 0
    Backoff <- ShortBackoff
    MaxClock = 1
    Faults = {"deploy"}
INVARIANTS
    FailuresBounded
PROPERTIES
    HandsOutUsable
    FindReturns
    RoundsCleanUp
CHECK_DEADLOCK FALSE
