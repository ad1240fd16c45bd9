SPECIFICATION Spec
CONSTANTS
    KeyIdSpace = 3
    PidSpace = 3
    MaxTls = 4
    MaxAttempts = 3
    MaxSeals = 4
    None = None
INVARIANTS
    TypeOK
    ClientKeyFound
PROPERTIES
    NoncesUnique
CHECK_DEADLOCK FALSE
