SPECIFICATION Spec
CONSTANTS
    Slots = {s1}
    Routes = {"ping", "other"}
    Metas <- MixedMetas
    Default <- MixedDefault
    None = None
    Addresses = {"a"}
    Origins <- OneOrigin
    TicksPerSecond = 2
    MaxClock = 3
    MaxHits = 8
INVARIANT
    EveryRouteBounded
