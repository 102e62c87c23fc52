SPECIFICATION Spec
CONSTANTS
    fog = fog
    fps = fps
    low = low
    high = high
    stock = stock
    number = number
    text = text
    None = None
    Torn = Torn
    Names <- TwoNames
    Values <- ThreeValues
    Shipped = stock
    Foreign <- TwoForeign
    Inferred <- OneNumber
    Converts <- ConvertsNumbers
    Reads <- ReadsAll
    MaxEdits = 2
    EarlySaves = FALSE
    Refires = FALSE
    DiskFaults = FALSE
    WriteFaults = FALSE
INVARIANTS
    FileIsWhole
    GreenIsSaved
    SavedIsInEffect
PROPERTIES
    ImplementsStore
