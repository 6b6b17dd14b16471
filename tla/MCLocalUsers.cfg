SPECIFICATION FairSpec
CONSTANTS
    u1 = u1
    NoUser = NoUser
    Torn = Torn
    Users = {u1}
    Limits = {0, 1}
    Expiries = {0}
    MaxTime = 1
    MaxTraffic = 1
    MaxChanges = 2
    MaxFaults = 1
INVARIANTS
    ServesTheStore
    AckedIsDurable
PROPERTIES
    BarredIsCutOff
CHECK_DEADLOCK FALSE
