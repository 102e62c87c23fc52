SPECIFICATION Spec
CONSTANTS
    NumSites = 3
    Data <- LastSite
    Anchors <- FirstSite
    MaxVer = 3
    MaxFaultFlips = 0
    Serialized = FALSE
INVARIANTS
    DisabledIsPristine
