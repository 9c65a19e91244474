CONSTANTS
    rime = rime
    basic = basic
    NoEngine = NoEngine
    NoApp = NoApp
    Apps = {editor, browser}
    Registered <- MemoryRegistered
    Configs <- MemoryConfigs
    Keyboards = {rime, basic}
    Moded = {rime}
    Announcing = {rime}
    Missing = {}
    Unfit = {}
    Flaky = {rime}
    MaxCommits = 1
    MaxCycle = 0
SYMMETRY AppsSymmetry
SPECIFICATION MemorySpec
PROPERTIES
    SwitchIsRemembered
    FocusRestoresEngine
