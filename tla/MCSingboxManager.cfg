SPECIFICATION FairSpec
CONSTANTS
    Callers = {c1, c2}
    MaxConsecutiveFailures = 3
    ResidentialMaxFailures = 2
    Faults = {"exec", "agent"}
    MaxLaunches = 3
    MaxGeneration = 2
INVARIANTS
    TypeOK
    OnlyCurrentAlive
    HealthyIsTracked
    StopIsFinal
    SupervisedUnlessRestartFailed
PROPERTIES
    ForgivenOnlyWhenSettled
    RefinesSupervisor
    CrashIsHandled
