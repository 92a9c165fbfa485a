CONSTANTS
    c1 = c1
    c2 = c2
    lobby = lobby
    svc = svc
    none = none
    Conns <- MCConns
    Rooms <- MCRooms
    Handlers <- MCHandlers
    by_event <- MCGuards
    Service = svc
    NoId = none
    Idle = none
    MaxMsgs <- MCMaxMsgs
    MaxPushes = 1
SPECIFICATION Spec
INVARIANTS
    IdNamesOneSocket
    RegistryFollowsTask
    OwnFramesInOrder
    AcceptedIsFlushed
PROPERTIES
    LeavingConnectionEnds
