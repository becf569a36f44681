SPECIFICATION Spec
CONSTANTS
    Conns = {c}
    Apps = {app}
    Nobody = Nobody
    Blocking = FALSE
    Ping = FALSE
    HasUrl = TRUE
    PipeSize = 2
    PeerFrames = {"part"}
    MaxSent = 1
    Budget <- ConnectSend
    CallbackCalls = {}
INVARIANTS
    AbnormalCloses
