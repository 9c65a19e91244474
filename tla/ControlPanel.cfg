SPECIFICATION Spec
CONSTANTS
    Keyboards <- MCKeyboards
    Backends <- MCBackends
    Fonts <- MCLarger
    Shortcuts <- MCShortcuts
    NoText = NoText
    Editable = {"order", "keys"}
    MaxEdits = 2
    MaxEvents = 1
INVARIANTS
    OneWriteInFlight
    NothingBeforeSeed
    ConfigFollowsFile
PROPERTIES
    EditIsSubmitted
CHECK_DEADLOCK FALSE
