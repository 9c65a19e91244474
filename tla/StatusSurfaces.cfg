CONSTANTS
    rime = rime
    basic = basic
    whisper = whisper
    NoEngine = NoEngine
    Registered <- SurfacesRegistered
    Configs <- SurfacesConfigs
    Keyboards = {rime, basic}
    Moded = {rime}
    Announcing = {rime}
    Missing = {}
    Unfit = {}
    Flaky = {basic}
    MaxCommits = 0
    MaxCycle = 0
    MaxMenu = 2
    MaxSignals = 2
SPECIFICATION SurfacesSpec
INVARIANTS
    SurfacesAgree
    PanelIsCurrent
PROPERTIES
    ItemReturns
