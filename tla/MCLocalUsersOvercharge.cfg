SPECIFICATION Spec
CONSTANTS
    u1 = u1
    NoUser = NoUser
    Torn = Torn
    Users = {u1}
    Limits = {0}
    Expiries = {0}
    MaxTime = 0
    MaxTraffic = 2
    MaxChanges = 2
    MaxFaults = 0
INVARIANT NeverOvercharged
CHECK_DEADLOCK FALSE
