SPECIFICATION FairSpec
CONSTANTS
    Sizes = {s1, s2}
    NoReq = NoReq
    NoSize = NoSize
    MaxRequests = 4
INVARIANTS
    TypeOK
    SharedPtyIsOpen
    StatusBeforeClose
    EndsForCause
    NoProcessLeft
PROPERTIES
    ExitEndsSession
    WindowFollows
CHECK_DEADLOCK FALSE
