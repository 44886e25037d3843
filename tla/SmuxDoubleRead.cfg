CONSTANTS
    FrameSize = 1
    StreamBuf = 2
    InitWindow = 2
    ReadBuf = 1
    Modulus = 8
    MaxStreams = 1
    Scenarios <- V2Upload
SPECIFICATION Spec
CHECK_DEADLOCK FALSE
INVARIANTS EndToEnd
