SPECIFICATION Spec
CONSTANTS
    Conns = {c, d}
    Apps = {acceptor, collector, user}
    Acceptor = acceptor
    Collector = collector
    Nobody = Nobody
    Blocking = TRUE
    Ping = FALSE
    HasUrl = FALSE
    PipeSize = 4
    PeerFrames = {}
    MaxSent = 0
    MaxConnections = 1
    Budget <- StartSend
    CallbackCalls <- Reply
INVARIANTS
    EndpointsServed
    EndpointInv
    NoMissedEnd
    ClientsServed
    ServerInv
