SPECIFICATION FairSpec
CONSTANTS
    Conns = {c}
    Apps = {app}
    Nobody = Nobody
    Blocking = FALSE
    Ping = FALSE
    HasUrl = TRUE
    PipeSize = 1
    PeerFrames = {"close", "refused"}
    MaxSent = 1
    Budget <- ConnectClose
    CallbackCalls = {}
PROPERTIES
    ClosedThreadEnds
    FaultEnds
    
