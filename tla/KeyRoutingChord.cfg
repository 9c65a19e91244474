CONSTANTS
    ctrl = ctrl
    shift = shift
    a = a
    Keys = {ctrl, shift, a}
    Modifiers = {ctrl, shift}
    Blocking = {ctrl}
    Chord = {ctrl, shift}
    NavKeys = {}
    EnterKeys = {}
    PttKeys = {}
    MaxBuffered = 4
SPECIFICATION Spec
INVARIANTS
    TrackingIsTrue
    BufferingEndsWithChord
PROPERTIES
    TeardownReleasesKeys
CHECK_DEADLOCK FALSE
