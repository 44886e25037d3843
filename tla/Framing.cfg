CONSTANTS
    Payloads = {0, 1, 4}
    HeaderSize = 2
    ChunkHeader = 1
    ChunkCrc = 1
    IdentifierSize = 2
    MaxChunk = 4
    Mss = 4
    SmuxBufs = {4, 14}
    MaxFrames = 4
SPECIFICATION FramingSpec
CHECK_DEADLOCK FALSE
INVARIANTS TypeOK NoFalseError NothingHeld MismatchRefused
PROPERTIES ChannelSpec
