CONSTANTS
    Dir <- MCDir
    FMask <- MCFMask
    ThisYear = 2024
    ThisMonth = 2
    SHFS_PATH_MAX = 6
    PathChars = {"a", "'", "\\"}
    SampleFiles <- MCSampleFiles
    FMasks <- MCFMasks
    Clocks <- MCClocks
    SampleTimes <- MCSampleTimes
    SIZE = 2
    START = 1
    Openers = {o1, o2}
    BufSizes = {1, 2}
    ListingFails = TRUE
    MaxGen = 2
    PAGE_SIZE = 4096
    Passwd <- MCPasswd
    GroupDB <- MCGroupDB
    OpenFds = {3}
    Mounters = {0, 500}
    OptionSamples <- MCOptionSamples
    MountPoints = {"/m", "/mnt/x"}
    CacheSizes <- MCCacheSizes
    HostArgs <- MCHostArgs
    Templates <- MCTemplates
    ProbeReplies <- MCProbeReplies
    CodeReplies = {"### 200", "### 500"}
SPECIFICATION Spec
INVARIANT ScanReturnsListing
CHECK_DEADLOCK FALSE
