CONSTANTS
    CONTROL_MAX_ATTEMPTS = 2
    PacketIdSpace = 4
    EnvelopeMax = 7
    AckCountSpace = 4
    MaxItems = 3
    MaxChunks = 2
    ClientScript <- Script
    Window = 1
    None = None
SPECIFICATION Spec
INVARIANTS TypeOK Accounted AcksAccounted AcksFit EnvelopeFresh
PROPERTIES ImplementsStream
CHECK_DEADLOCK FALSE
