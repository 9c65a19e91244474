CONSTANTS
    Engines = {whisper, sherpa}
    MaxLoads = 3
    MaxChunks = 2
SPECIFICATION FairSpec
INVARIANTS
    BackendLivesWhileHeld
    InferenceOwnsSession
    RestIsQuiet
PROPERTIES
    MainThreadReturns
    ProcessingEnds
CHECK_DEADLOCK FALSE
