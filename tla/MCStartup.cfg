SPECIFICATION Spec
CHECK_DEADLOCK FALSE
CONSTANTS
    texture = texture
    lots = lots
    Patches <- AllPatches
    ByDefault <- DefaultPatches
    Unset = Unset
    Absent = Absent
    Broken = Broken
    None = None
    InitialFiles <- Files
    InitialOldFiles <- OldFiles
    MaxEdits = 1
    MaxSessions = 2
    MaxDisorder = 2
INVARIANTS
    TypeOK
    UnloadedIsClean
PROPERTIES
    PreferencesKept
    StartupEnds
