SPECIFICATION MCSpec
CONSTANTS
    CommandLines <- MCLines
    Files <- MCFiles
    None = None
    Defaults <- MCDefaults
    Preset = Preset
    Manual = Manual
    EnvKey = EnvKey
    Bad = Bad
    DefaultKey = DefaultKey
    CliKey = CliKey
    JsonKey = JsonKey
    DefaultLocal = DefaultLocal
    CliL = CliL
    CliLocal = CliLocal
    CliListen = CliListen
    JsonLocal = JsonLocal
    JsonListen = JsonListen
    Malformed = Malformed
    NotANumber = NotANumber
    Addresses <- Services
    Endpoints <- Singles
    MaxPort = 4
    PresetInterval = 2
    ShardLimit = 8
    IntMax = 127
INVARIANTS Precedence PortsCovered
CHECK_DEADLOCK FALSE
