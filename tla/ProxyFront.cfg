SPECIFICATION FairSpec
CONSTANTS
    r1 = r1
    Unavailable = Unavailable
    Bad = Bad
    NoSet = NoSet
    NoHeader = NoHeader
    NoPages = NoPages
    Requests = {r1}
    Peer <- MCPeer
    Header <- MCHeader
    Cacheable = {r1}
    Size = 2
    Width = 2
    CFLists <- MCCFLists
    MetaDocs <- MCMetaDocs
    Services <- MCServices
    Addresses <- MCAddresses
    History <- MCHistory
    FirstDay = 2
    LastDay = 3
    MaxDbFaults = 1
    Days = 2
    ViewLengths = {1, 7}
    Asked = {1, 2, 7}
INVARIANTS
    TypeOK
    RowTellsTruth
    TagsRight
    PagesTrue
PROPERTIES
    Delivers
    PageComesUp
