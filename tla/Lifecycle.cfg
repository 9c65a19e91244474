CONSTANTS
    MaxDone = 3
    MaxAttempts = 2
SPECIFICATION FairSpec
INVARIANTS
    TypeOK
    NothingOutlivesFocus
    KeymapGate
PROPERTIES
    DoneCommitsFocus
    RecoveryStartsClean
    GrabContractHolds
    ActiveWithoutGrabRecovers
    SilentGrabIsReleased
CHECK_DEADLOCK FALSE
