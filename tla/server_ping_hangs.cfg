SPECIFICATION FairSpec
CONSTANTS
    Conns = {c}
    Apps = {acceptor, collector, user}
    Acceptor = acceptor
    Collector = collector
    Nobody = Nobody
    Blocking = TRUE
    Ping = FALSE
    HasUrl = FALSE
    PipeSize = 4
    PeerFrames = {"ping"}
    MaxSent = 1
    MaxConnections = 1
    Budget <- StartOnly
    CallbackCalls <- Silent
PROPERTIES
    ClosedTerminates
CHECK_DEADLOCK FALSE
