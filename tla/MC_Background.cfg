\* Once serve has returned, or the boot has failed, nothing is left to do.
CHECK_DEADLOCK FALSE
SPECIFICATION Spec
CONSTANTS
    Jobs = {"every", "once", "hourly"}
    Triggers <- MCTriggers
    MaxStart = 1
    MaxClock = 4
    Events = {"created", "indexed"}
    Handlers <- MCHandlers
    EventOf <- MCEventOf
    Emits <- MCEmits
    Actors <- MCActors
    None = None
    Boot = "boot"
    Wire = "wire_handlers"
    BootHooks <- MCBootHooks
    JobEmits <- MCJobEmits
INVARIANTS
    NoBurst
    NoOccurrenceMissed
    ServeReturnsLast
PROPERTIES
    EveryHandlerOnce
    KeepsSchedule
    CancelEndsServe
