SPECIFICATION FairSpec
CONSTANTS
    ct = ct
    cu = cu
    cv = cv
    Commands = {cu, cv}
    Type <- MCType
    ReleaseTag <- MCReleaseTag
    Versions = {1, 2, 3}
    BadVersions = {2}
    FirstVersion = 1
    UpgradeEnabled = TRUE
    MaxRecent = 1
    MaxRuns = 2
    RollbackThreshold = 2
    MaxCrashes = 1
INVARIANTS
    ExitOnlyWhenAcked
    NoAckLost
    ReExecutedOnlyAfterEviction
    NoDowngrade
    ExecutableInPlace
PROPERTIES
    EveryCommandAnswered
    RevokedStops
CHECK_DEADLOCK FALSE
