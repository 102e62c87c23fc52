SPECIFICATION FairSpec
CONSTANTS
    north = north
    south = south
    NoLot = NoLot
    Lots <- TwoLots
    Lists <- LongAndShort
    PerLot <- OneOrTwo
    MidStream = {}
    MaxLists = 2
    MaxRequests = 2
INVARIANTS
    ShellsAreBuiltFirst
    NothingIsSkipped
PROPERTIES
    RequestsComplete
