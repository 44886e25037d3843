CONSTANTS
    Sizes = {1, 5}
    Second = 4
    RateLimit = 6
    MaxPackets = 4
    MaxTime = 9
SPECIFICATION RateFairSpec
CHECK_DEADLOCK FALSE
INVARIANTS RateTypeOK RateRespected Fifo QueueTimed
PROPERTIES QueueDrains
