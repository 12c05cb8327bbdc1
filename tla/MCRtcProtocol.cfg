CONSTANTS
    BufSize = 1
    ZeroState = "idle"
    MinProbeSeq = 2
    MaxProbeSeq = 2
    MaxRtx = 1
    MaxRtxSize = 2
    MaxRtxAge = 1
    InitialCWin = 1
    InitialCWinMax = 2
    MinCWin = 1
    RoundsInSync = 1
    IncNum = 3
    IncDen = 2
    DecNum = 9
    DecDen = 10
    p1 = p1
    UInt32 = 8
    AppStops = TRUE
    Paths <- MCPaths
    WinSizes <- MCWinSizes
INIT Init
NEXT Next
INVARIANTS
    TypeOK
    RtxBound
    RtxTimerArmed
    RtxAboveLastNack
