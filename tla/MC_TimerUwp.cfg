\* Periodic timers and stops, with every WinAPI call allowed to fail.
CONSTANTS
    Configs <- MCConfigs
    DwordBits = 16
    PipeCapacity = 2
    MaxTicks = 2
    MaxConfigures = 3
    WinApiFails = TRUE
SPECIFICATION Spec
CHECK_DEADLOCK FALSE
INVARIANT TypeOK
 
PROPERTY ConfigureAdopted
PROPERTY TimeoutMatchesConfig
