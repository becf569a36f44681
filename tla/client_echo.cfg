SPECIFICATION Spec
CONSTANTS
    Conns = {c}
    Apps = {app}
    Nobody = Nobody
    Blocking = FALSE
    Ping = TRUE
    HasUrl = TRUE
    PipeSize = 2
    PeerFrames = {"data", "ping", "close", "unordered", "part"}
    MaxSent = 1
    Budget <- ConnectSend
    CallbackCalls <- Echo
INVARIANTS
    TypeOK
    EventsOnOwnThread
    NoSelfLock
    CallbackWithoutSocketLock
    ClosedMeansShut
    LostIsNotOpen
    OneOutcome
    ClientInv
    LostInv
