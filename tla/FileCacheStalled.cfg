SPECIFICATION StalledSpec
CONSTANTS
    r1 = r1
    r2 = r2
    r3 = r3
    k1 = k1
    k2 = k2
    NoOne = NoOne
    NoKey = NoKey
    Requests = {r1, r2}
    Hosts = {r1, r2}
    HostOf <- MCHostOf
    Keys = {k1}
    KeyOf <- OneKey
    MaxDownloads = 1
    Bodies <- Compressed
    Faults = {"disconnect"}
PROPERTIES
    CancelledLeaves
CHECK_DEADLOCK FALSE
