CONSTANTS
    FrameSize = 1
    StreamBuf = 2
    InitWindow = 2
    ReadBuf = 2
    Modulus = 16
    MaxStreams = 1
    Scenarios <- V1Logging
SPECIFICATION Spec
CHECK_DEADLOCK FALSE
INVARIANTS ServerKeepsRunning
