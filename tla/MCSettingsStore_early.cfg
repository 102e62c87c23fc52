SPECIFICATION Spec
CONSTANTS
    fog = fog
    fps = fps
    low = low
    high = high
    stock = stock
    number = number
    text = text
    None = None
    Torn = Torn
    Names <- TwoNames
    Values <- TwoValues
    Shipped = stock
    Foreign <- TwoForeign
    Inferred <- OneNumber
    Converts <- ConvertsNumbers
    Reads <- ReadsAll
    MaxEdits = 1
    EarlySaves = TRUE
    Refires = FALSE
    DiskFaults = FALSE
    WriteFaults = FALSE
INVARIANTS
    GreenIsSaved
