SPECIFICATION Spec
CONSTANTS
    a1 = a1
    a2 = a2
    alice = alice
    UdpAddr = {a1}
    TcpAddr = {}
    Udp = Udp
    CommonName = {}
    StaticIp <- NoStatic
    PoolStart = 2
    PoolEnd = 3
    PoolEndV6 = 0
    V6Enabled = FALSE
    PeerIdSpace = 8
    MaxSessions = 1
    None = None
INVARIANTS
    RoutesOwned
CHECK_DEADLOCK FALSE
