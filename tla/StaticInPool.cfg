SPECIFICATION Spec
CONSTANTS
    a1 = a1
    a2 = a2
    alice = alice
    UdpAddr = {a1, a2}
    TcpAddr = {}
    Udp = Udp
    CommonName = {alice}
    StaticIp <- StaticInPool
    PoolStart = 2
    PoolEnd = 3
    PoolEndV6 = 0
    V6Enabled = FALSE
    PeerIdSpace = 8
    MaxSessions = 2
    None = None
INVARIANTS
    AddressesUnique
CHECK_DEADLOCK FALSE
