CONSTANTS
    SHFS_PATH_MAX = 24
    Paths <- MCPaths
    StaleNames <- MCStaleNames
    MaxCmds = 3
    PathChars = {}
    SampleFiles = {}
    FMasks = {}
    Clocks = {}
    SampleTimes = {}
SPECIFICATION Spec
INVARIANT CommandsNamePath
CHECK_DEADLOCK FALSE
