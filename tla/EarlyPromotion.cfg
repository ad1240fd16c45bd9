SPECIFICATION Spec
CONSTANTS
    KeyIdSpace = 3
    PidSpace = 3
    MaxTls = 1
    MaxAttempts = 1
    MaxSeals = 1
    None = None
INVARIANTS
    ActiveKeyShared
CHECK_DEADLOCK FALSE
