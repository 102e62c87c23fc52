SPECIFICATION FairSpec
CONSTANTS
    NumSites = 3
    Data <- LastSite
    Anchors <- FirstSite
    MaxVer = 3
    MaxFaultFlips = 0
    Serialized = TRUE
INVARIANTS
    TypeOK
    DisabledIsPristine
    EnabledIsCurrent
PROPERTIES
    ReportedChangeIsTakenUp
    CallsReturn
