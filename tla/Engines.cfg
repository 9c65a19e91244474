CONSTANTS
    rime = rime
    mozc = mozc
    basic = basic
    broken = broken
    whisper = whisper
    NoEngine = NoEngine
    Registered <- ManagerRegistered
    Configs <- ManagerConfigs
    Keyboards = {rime, mozc, basic}
    Moded = {rime}
    Announcing = {rime}
    Missing = {broken}
    Unfit = {}
    Flaky = {mozc, whisper}
    MaxCommits = 3
    MaxCycle = 4
SPECIFICATION Spec
INVARIANTS
    TypeOK
    CompositionBelongsToActiveEngine
    RecentsAreLastTyped
    RapidCyclingVisitsAll
PROPERTIES
    FailedSwitchChangesNothing
