CONSTANTS
    r1 = r1
    r2 = r2
    o1 = o1
    o2 = o2
    o3 = o3
    RuleIds <- MCRuleIds
    OverlayIds <- MCOverlayIds
    IfNames <- MCIfNames
    LoName = 1
    NetTypes <- MCNetTypes
    FaceTypes = {ft1}
    DefaultFaceType = ftAuto
    DefaultDiscovery = TRUE
    DefaultIpv4 = TRUE
    DefaultIpv6 = TRUE
    a1 = a1
    Addrs = {a1}
    OverlayArgs <- MCOverlayArgs
    Ports <- MCPorts
    DefaultPort = 9695
    Fields <- MCFields
    Uninit <- MCUninitZero
    Android = FALSE
    Unset = Unset
    Null = Null
    EmptyAddr = EmptyAddr
SYMMETRY MCSymmetry
SPECIFICATION Spec
INVARIANTS
    TypeOK
    OverlayOwnership
    NamedRuleWins
