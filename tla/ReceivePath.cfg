CONSTANTS
    AckCountSpace = 5
    StringLenSpace = 8
    WINDOW_SIZE = 3
    BITS = 3
    PeerId = 0
    Modes <- MCModes
    PushRoutes <- MCPushRoutes
    ExtraRoutes <- MCExtraRoutes
    Addresses = {5, 6}
    AddressesV6 = {8}
    StreamMax = 10
    QueueMax = 2
    MaxData = 4
    None = None
    Bad = Bad
    NeedMore = NeedMore
SPECIFICATION Spec
INVARIANTS TypeOK HandledInOrder AllHandled OnceAuthentic ClientAgrees InboundOrdered WindowAuthentic
PROPERTIES Forwarded
CHECK_DEADLOCK FALSE
