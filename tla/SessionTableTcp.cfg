SPECIFICATION FairSpec
CONSTANTS
    a1 = a1
    a2 = a2
    alice = alice
    UdpAddr = {a1, a2}
    TcpAddr = {a2}
    Udp = Udp
    CommonName = {}
    StaticIp <- NoStatic
    PoolStart = 2
    PoolEnd = 2
    PoolEndV6 = 0
    V6Enabled = FALSE
    PeerIdSpace = 8
    MaxSessions = 2
    None = None
INVARIANTS
    RegisteredRouted
    RegisteredHasWorker
PROPERTIES
    IdleEvicted
CHECK_DEADLOCK FALSE
