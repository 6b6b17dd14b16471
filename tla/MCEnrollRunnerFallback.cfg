SPECIFICATION Spec
CONSTANTS
    ct = ct
    cu = cu
    cv = cv
    Commands = {ct, cu}
    Type <- MCType
    ReleaseTag <- MCReleaseTag
    Versions = {1, 2, 3}
    BadVersions = {2}
    FirstVersion = 1
    UpgradeEnabled = TRUE
    MaxRecent = 1
    MaxRuns = 2
    RollbackThreshold = 2
    MaxCrashes = 1
INVARIANT UnverifiedHasFallback
CHECK_DEADLOCK FALSE
