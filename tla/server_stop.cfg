SPECIFICATION Spec
CONSTANTS
    Conns = {c}
    Apps = {acceptor, collector, user}
    Acceptor = acceptor
    Collector = collector
    Nobody = Nobody
    Blocking = TRUE
    Ping = FALSE
    HasUrl = FALSE
    PipeSize = 4
    PeerFrames = {}
    MaxSent = 0
    MaxConnections = 1
    Budget <- StartStop
    CallbackCalls <- Silent
INVARIANTS
    TypeOK
    StopJoinsAll
    StopInv
