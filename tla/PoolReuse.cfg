SPECIFICATION Spec
CONSTANTS
    a1 = a1
    a2 = a2
    alice = alice
    UdpAddr = {a1}
    TcpAddr = {}
    Udp = Udp
    CommonName = {}
    StaticIp <- NoStatic
    PoolStart = 2
    PoolEnd = 2
    PoolEndV6 = 0
    V6Enabled = FALSE
    PeerIdSpace = 8
    MaxSessions = 2
    None = None
INVARIANTS
    ExhaustedMeansInUse
CHECK_DEADLOCK FALSE
