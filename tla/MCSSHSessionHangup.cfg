SPECIFICATION FairSpec
CONSTANTS
    Sizes = {s1, s2}
    NoReq = NoReq
    NoSize = NoSize
    MaxRequests = 2
PROPERTY
    HangupOnDisconnect
CHECK_DEADLOCK FALSE
