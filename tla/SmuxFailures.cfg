CONSTANTS
    FrameSize = 1
    StreamBuf = 1
    InitWindow = 1
    ReadBuf = 2
    Modulus = 8
    MaxStreams = 2
    Scenarios <- RoughScenarios
SPECIFICATION Spec
CHECK_DEADLOCK FALSE
INVARIANTS WireConservation WindowRespected NoOrphans
PROPERTY KeepsFlowControl
