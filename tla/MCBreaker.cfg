\* A primary that fails up to six times, a fallback, time for two cooldowns.
SPECIFICATION MCSpec
CONSTANTS
    Threshold = 2
    Cooldown = 2
    HasFallback = TRUE
    MaxClock = 7
    MaxFailures = 6
INVARIANTS
    BreakerTypeOK
    OneProviderPerCall
PROPERTIES
    PrimaryRestsInTurn
    SkippedOnlyWhenTripped
