\* No WinAPI failures and a pipe that never fills: the loop thread never
\* stays blocked, and timer_destroy returns.
CONSTANTS
    Configs <- MCConfigs
    DwordBits = 16
    PipeCapacity = 3
    MaxTicks = 3
    MaxConfigures = 3
    WinApiFails = FALSE
SPECIFICATION Spec
CHECK_DEADLOCK FALSE
PROPERTY LoopNeverBlocked
