SPECIFICATION Spec
CONSTANTS
    u1 = u1
    u2 = u2
    Users = {u1, u2}
    Mortal = {u1}
    Versions = {1, 2}
    Content <- MCContent
    NoVersion = NoVersion
    NoFile = NoFile
    Torn = Torn
    MaxChanges = 1
    MaxFaults = 2
INVARIANTS
    ServesWhatIsWritten
    RecordedIsServed
    OfflineServesCache
    ServedIsWatched
