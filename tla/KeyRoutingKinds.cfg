CONSTANTS
    ctrl = ctrl
    down = down
    ret = ret
    f9 = f9
    Keys = {ctrl, down, ret, f9}
    Modifiers = {ctrl}
    Blocking = {ctrl}
    Chord = {ctrl}
    NavKeys = {down}
    EnterKeys = {ret}
    PttKeys = {f9}
    MaxBuffered = 4
SPECIFICATION Spec
INVARIANTS
    TrackingIsTrue
    RepeatingKeyIsHeld
CHECK_DEADLOCK FALSE
