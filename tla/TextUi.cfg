SPECIFICATION Spec
CONSTANTS
    Compositions <- MCCompositions
    Modes = {"cn", "en"}
    Statuses = {"recording"}
    Styles = {"x1", "x2"}
    MaxRows = 1
    CacheSize = 1
    Depth = 3
    SlotMax = 2
    FramesInFlight = 2
    RecoverStreak = 2
    MaxEvents = 5
    None = None
INVARIANTS
    ResourcesAreOwned
    FramesKeepTheirLayouts
    TrackingIsTrue
    CandidatesNeedFocus
PROPERTIES
    PreeditReachesApp
CHECK_DEADLOCK FALSE
