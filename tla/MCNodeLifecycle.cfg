SPECIFICATION FairSpec
CONSTANTS
    Sessions = {s1, s2}
    MaxOpen = 1
    Users = {u1}
    MaxTokens = 2
    MaxInstalls = 2
    MaxFaults = 1
INVARIANTS
    NeverStranded
    RefusedOnlyIfSpent
    DeletedNodeServesNobody
    AtMostMaxOpen
    RevocationReachesEveryTunnel
PROPERTIES
    RegistrationSettles
    DeadPeerFreesSlot
CHECK_DEADLOCK FALSE
