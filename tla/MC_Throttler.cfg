SPECIFICATION Spec
CONSTANTS
    Slots = {s1, s2}
    Routes = {"login", "other"}
    Metas <- MCMetas
    Default <- MCDefault
    None = None
    Addresses = {"a", "b"}
    Origins <- MCOrigins
    TicksPerSecond = 2
    MaxClock = 4
    MaxHits = 5
SYMMETRY SlotSymmetry
INVARIANTS
    QuotaPerWindow
    BoundedRate
    RetryAfterHonest
PROPERTIES
    WindowsElapse
