SPECIFICATION FairSpec
CONSTANTS
    u1 = u1
    NoUser = NoUser
    Torn = Torn
    Users = {u1}
    Limits = {0}
    Expiries = {0}
    MaxTime = 1
    MaxTraffic = 0
    MaxChanges = 1
    MaxFaults = 0
PROPERTY ExpiredIsCutOff
CHECK_DEADLOCK FALSE
