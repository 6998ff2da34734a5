SPECIFICATION Spec
CONSTANTS
    Names = {1, 2}
    Dot = Dot
    DotDot = DotDot
    NTrees = 2
    Forests <- MCForests
    Paths <- MCPaths
    NoEntry = NoEntry
    MaxDepth = 3
INVARIANTS
    TypeOK
    FindIsBest
