SPECIFICATION TlsSpec
CONSTANTS
    MaxData = 1
INVARIANTS
    UploadDrained
CHECK_DEADLOCK FALSE
