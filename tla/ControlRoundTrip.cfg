SPECIFICATION Spec
CONSTANTS
    Keyboards <- MCKeyboards
    Backends <- MCBackends
    Fonts <- MCFonts
    Shortcuts <- MCShortcuts
    NoText = NoText
    Editable = {"font"}
    MaxEdits = 1
    MaxEvents = 0
INVARIANT OtherSettingsKept
CHECK_DEADLOCK FALSE
