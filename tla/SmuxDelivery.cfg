CONSTANTS
    FrameSize = 1
    StreamBuf = 2
    InitWindow = 2
    ReadBuf = 2
    Modulus = 16
    MaxStreams = 1
    Scenarios <- QuietScenarios
SPECIFICATION FairSpec
CHECK_DEADLOCK FALSE
INVARIANTS TypeOK
PROPERTIES PipeSpec BothEofCloses LinkLossClosesAll MismatchCloses
