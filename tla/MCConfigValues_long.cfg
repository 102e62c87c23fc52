SPECIFICATION Spec
CONSTANTS
    shadows = shadows
    unknown = unknown
    None = None
    Names <- TwoKeys
    Lengths <- AllLengths
    Stock <- OneStock
    MinCapacity = 8
    MaxBuffer = 16
    MaxEdits = 1
    Reloads = FALSE
    Serialized = TRUE
INVARIANTS
    PointersLive
