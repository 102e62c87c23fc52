SPECIFICATION ComponentsSpec
CONSTANTS
    shadows = shadows
    unknown = unknown
    None = None
    Names <- TwoKeys
    Lengths <- ShortLengths
    Stock <- OneStock
    MinCapacity = 8
    MaxBuffer = 16
    MaxEdits = 2
    Reloads = TRUE
    Serialized = FALSE
    LongLengths <- AllLengths
    MaxLines = 4
    Lines <- IniLines
    Size = 6
    Word = 16
    Images <- SixByteImages
    Fixes <- TwoFixes
    Site <- OneSite
    Sleep <- SleepCode
    Versions <- TwoVersions
    Unknown = "unknown"
    Rates <- ThreeRates
    MaxScanInstalls = 2
    Waiters <- TwoThreads
    Handles <- FourHandles
    Calls <- FourCalls
    MaxCalls = 3
    MIN_SPIN_US = 50
    MAX_SPIN_US = 60
    START_US = 60
    ADAPT_INTERVAL = 2
    STABLE_LIMIT = 0
    LightThreads <- OneThread
    LightSettings <- ThreeLights
    Colours <- ThreeColours
    Close = 2
    MaxRefused = 1
    MaxLightInstalls = 2
    Width = 2
    Height = 2
    Pixels <- FivePixels
    Strengths <- SixStrengths
    Cores <- ThreeCores
    FastCores <- TwoFastCores
    Masks <- ThreeMasks
    CpuThreads <- TwoThreads
    MaxTracked = 1
    MaxCpuInstalls = 2
    Levels <- FourLevels
    Thresholds <- TwoThresholds
    Duration = 3
    MaxClicks = 4
    UpdateOverlaps = FALSE
    Cycle = 2
    Second = 2
    LimiterSettings <- ThreeTunings
    Frequencies <- TwoFrequencies
    Reread = FALSE
INVARIANTS
    ShortPointersLive
    ShownIsEffectiveOnce
    MigrationKeepsTheFile
    ScansFindTheFirst
    CodeIsChangedWhereMeant
    BlurKeepsTheTexture
    DataIsPutBack
    AverageOfSamples
    AffinityIsRestored
    DismissalLasts
PROPERTIES
    ConfigIsAStore
    ImplementsKernelWait
    OneTurnPerSlot
    WaitIsBounded
\* Most parts stop at their bounds, or when their file is read and their texture done.
CHECK_DEADLOCK FALSE
