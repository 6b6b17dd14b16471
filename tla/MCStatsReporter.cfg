SPECIFICATION FairSpec
CONSTANTS
    MaxReports = 3
    MaxFaults = 3
INVARIANTS
    ReportNotLost
PROPERTIES
    StashIsDelivered
