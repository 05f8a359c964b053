\* A peer's task heartbeating while the clean loop holds a stale snapshot.
CONSTANTS
    MyName = MyName
    Peer = Peer
    NoNode = NoNode
    Stopped = Stopped
    NoTask = NoTask
    NoReg = NoReg
    NoIp = NoIp
    NoId = NoId
    NoVia = NoVia
    NoRoute = NoRoute
    n1 = n1
    n2 = n2
    v1 = v1
    v2 = v2
    d1 = d1
    d2 = d2
    h1 = h1
    h2 = h2
    OwnNames = {}
    ForeignNames = {f1}
    NodeNames = {n1}
    TaskNodeNames = {n1}
    PeerNodeNames = {n1}
    Vias = {v1}
    Ips = {i1, i2}
    Ids = {d1, d2}
    ConnPrefixes = {NoIp}
    AgentType = "fboss"
    Timeout = 0
    RestartDelay = 0
    AnnouncedAges = {0}
    AdminNodeNames = {n1}
    StartsWith <- MCStartsWith
    ExternalIp <- MCExternalIp
    ServiceGroups <- MCServiceGroups
    GroupStarters = {h1}

SPECIFICATION Spec
PROPERTY CleanRemovesOnlyExpired
