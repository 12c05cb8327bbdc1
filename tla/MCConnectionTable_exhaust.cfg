CONSTANTS
    i1 = i1
    i2 = i2
    i3 = i3
    p1 = p1
    p2 = p2
    p3 = p3
    u1 = u1
    Free = Free
    Ids <- MCIds
    Pairs <- MCPairs
    NameBytes <- MCNameBytes
    UserNames <- MCUserNames
    MaxSize = 3
SPECIFICATION Spec
PROPERTY
    RandomNameReturns
