SPECIFICATION Spec
CONSTANTS
    a1 = a1
    a2 = a2
    alice = alice
    UdpAddr = {a1, a2}
    TcpAddr = {}
    Udp = Udp
    CommonName = {alice}
    StaticIp <- StaticOutsidePool
    PoolStart = 2
    PoolEnd = 2
    PoolEndV6 = 1
    V6Enabled = TRUE
    PeerIdSpace = 8
    MaxSessions = 3
    None = None
SYMMETRY UdpSymmetry
INVARIANTS
    TypeOK
    RegisteredRouted
    RegisteredHasWorker
    PeersOwned
CHECK_DEADLOCK FALSE
