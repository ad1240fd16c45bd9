SPECIFICATION Spec
CONSTANTS
    KeyIdSpace = 3
    PidSpace = 3
    MaxTls = 2
    MaxAttempts = 1
    MaxSeals = 1
    None = None
INVARIANTS
    TrackIsNew
CHECK_DEADLOCK FALSE
