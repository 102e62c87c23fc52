SPECIFICATION FairSpec
CONSTANTS
    game = game
    loader = loader
    mirror = mirror
    tint = tint
    draw = draw
    Threads <- TwoThreads
    Methods <- OneMethod
    Names <- TwoNames
    Priorities <- TwoPriorities
    MaxHooks = 2
INVARIANTS
    NoHookAfterUnregister
    OutcomeFollowsPriority
    OriginalsBypass
PROPERTIES
    DeviceCallsReturn
