CONSTANTS
    FrameSize = 2
    StreamBuf = 6
    InitWindow = 2
    ReadBuf = 2
    Modulus = 13
    MaxBytes = 15
SPECIFICATION FairSpec
CHECK_DEADLOCK FALSE
INVARIANTS IndInv BufferBounded WindowExact NoStall
PROPERTIES AllConsumed
