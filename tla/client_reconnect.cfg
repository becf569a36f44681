SPECIFICATION Spec
CONSTANTS
    Conns = {c}
    Apps = {app}
    Nobody = Nobody
    Blocking = FALSE
    Ping = FALSE
    HasUrl = TRUE
    PipeSize = 1
    PeerFrames = {"ping", "close", "part"}
    MaxSent = 1
    Budget <- ReconnectDestroy
    CallbackCalls = {}
INVARIANTS
    ReplacedWhenEnded
    DestroyJoins
