SPECIFICATION Spec
CONSTANTS
    WINDOW_SIZE = 3
    BITS = 3
    MaxPacketId = 10
INVARIANTS
    TypeOK
    WindowInv
PROPERTIES
    NeverAcceptedTwice
    ImplementsAntiReplay
CHECK_DEADLOCK TRUE
