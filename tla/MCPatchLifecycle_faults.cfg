SPECIFICATION Spec
CONSTANTS
    NumSites = 3
    Data <- LastSite
    Anchors <- FirstSite
    MaxVer = 2
    MaxFaultFlips = 2
    Serialized = TRUE
INVARIANTS
    EnabledCanBeUndone
