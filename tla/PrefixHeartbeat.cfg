\* The foreign_live instance with ids that share a prefix: d2 starts with d1,
\* as "z-10" starts with "z-1".  send_announce_task looks an announced id
\* up as a prefix (get_task_name_by_id), so a relaunch under d1 while the
\* table holds d2 is taken for a heartbeat of the old record.
CONSTANTS
    MyName = MyName
    Peer = Peer
    NoNode = NoNode
    Stopped = Stopped
    NoTask = NoTask
    NoReg = NoReg
    NoIp = NoIp
    NoId = NoId
    NoVia = NoVia
    NoRoute = NoRoute
    n1 = n1
    n2 = n2
    v1 = v1
    v2 = v2
    d1 = d1
    d2 = d2
    h1 = h1
    h2 = h2
    OwnNames = {}
    ForeignNames = {f1}
    NodeNames = {n1}
    TaskNodeNames = {n1}
    PeerNodeNames = {n1}
    Vias = {v1}
    Ips = {i1}
    Ids = {d1, d2}
    ConnPrefixes = {NoIp}
    AgentType = "fboss"
    Timeout = 0
    RestartDelay = 0
    AnnouncedAges = {0}
    AdminNodeNames = {n1}
    StartsWith <- MCPrefixStartsWith
    ExternalIp <- MCExternalIp
    ServiceGroups <- MCServiceGroups
    GroupStarters = {h1}

SPECIFICATION Spec
PROPERTY LiveForeignEventuallyKnown
