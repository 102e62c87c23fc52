SPECIFICATION Spec
CONSTANTS
    render = render
    loader = loader
    first = first
    second = second
    None = None
    Threads <- TwoThreads
    Windows <- TwoWindows
    ActiveModes <- OneMode
    Overlay = TRUE
    ReapplyFrames = 2
    Returns = FALSE
    Reloads = FALSE
INVARIANTS
    FlagsFollowFrames
    WndProcChainSound
    StyleFollowsMode
