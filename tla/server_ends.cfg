SPECIFICATION FairSpec
CONSTANTS
    Conns = {c}
    Apps = {acceptor, collector, user}
    Acceptor = acceptor
    Collector = collector
    Nobody = Nobody
    Blocking = TRUE
    Ping = FALSE
    HasUrl = FALSE
    PipeSize = 4
    PeerFrames = {"data", "close"}
    MaxSent = 2
    MaxConnections = 1
    Budget <- StartSendClose
    CallbackCalls <- Echo
PROPERTIES
    ClosedTerminates
