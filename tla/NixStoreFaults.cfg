SPECIFICATION FairSpec
CONSTANTS
    r1 = r1
    r2 = r2
    r3 = r3
    r4 = r4
    b1 = b1
    b2 = b2
    a1 = a1
    p1 = p1
    p2 = p2
    i1 = i1
    i2 = i2
    NoOne = NoOne
    Requests = {r1, r2, r3}
    Builds = {b1, b2}
    Archives = {a1}
    Paths = {p1, p2}
    Images = {i1, i2}
    ImageOf <- MCImageOf
    ArchiveOf <- MCArchiveOf
    Members = {b1}
    BuildOf <- MCBuildOf
    Endpoint <- MCEndpoint
    Leads <- MCLeads
    Holds = {r2, r3}
    Unreadable = {r1}
    Short = {b2}
    MaxFetches = 1
    MaxResolveHops = 2
    Faults = {"upstream", "disk", "mount", "disconnect", "kill"}
    MaxFaults = 1
INVARIANTS
    TypeOK
    ImagesWhole
    SlotsAccounted
    NoStrayMountPoint
    FaultsHeal
    LinkRecorded
PROPERTIES
    RequestsAnswered
CHECK_DEADLOCK FALSE
