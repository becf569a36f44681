SPECIFICATION Spec
CONSTANTS
    Conns = {c}
    Apps = {app}
    Nobody = Nobody
    Blocking = FALSE
    Ping = TRUE
    HasUrl = TRUE
    PipeSize = 4
    PeerFrames = {}
    MaxSent = 0
    Budget <- ConnectTwice
    CallbackCalls = {}
INVARIANTS
    StopDisconnects
