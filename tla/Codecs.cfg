CONSTANTS
    DataShards = 2
    ParityShards = 1
    Modulus = 48
    MaxShardSets = 2
    MaxDelay = 4
    MaxOutage = 4
    MaxSent = 32
    Shapes <- SmallShapes
    Samples <- SmallPackets
SPECIFICATION MCSpec
CHECK_DEADLOCK FALSE
INVARIANTS Genuine Recovery RoundTrip QppInStep CryptFaithful
