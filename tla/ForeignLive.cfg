\* A peer's task: launched, announced, relaunched and stopped, with the
\* sync and clean loops running.  One ip so that liveness stays small.
\* The peer stamps last_update with its own clock: a record may arrive
\* already older than the timeout (age 1 > timeout 0), as with a skewed
\* or slow peer.
CONSTANTS
    MyName = MyName
    Peer = Peer
    NoNode = NoNode
    Stopped = Stopped
    NoTask = NoTask
    NoReg = NoReg
    NoIp = NoIp
    NoId = NoId
    NoVia = NoVia
    NoRoute = NoRoute
    n1 = n1
    n2 = n2
    v1 = v1
    v2 = v2
    d1 = d1
    d2 = d2
    h1 = h1
    h2 = h2
    OwnNames = {}
    ForeignNames = {f1}
    NodeNames = {n1}
    TaskNodeNames = {n1}
    PeerNodeNames = {n1}
    Vias = {v1}
    Ips = {i1}
    Ids = {d1, d2}
    ConnPrefixes = {NoIp}
    AgentType = "fboss"
    Timeout = 0
    RestartDelay = 0
    AnnouncedAges = {0, 1}
    AdminNodeNames = {n1}
    StartsWith <- MCStartsWith
    ExternalIp <- MCExternalIp
    ServiceGroups <- MCServiceGroups
    GroupStarters = {h1}

SPECIFICATION Spec
INVARIANT TypeOK
PROPERTY ExpiredEventuallyRemoved LiveForeignEventuallyKnown RegistryEventuallyFresh
