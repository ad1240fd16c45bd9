SPECIFICATION Spec
CONSTANTS
    Wan = {eth0, wlan0}
    MaxMissed = 1
    None = None
INVARIANTS
    TypeOK
    CopiesAccounted
    UpForwards
    CleanStop
    ForwardingRestored
