SPECIFICATION Spec
CONSTANTS
    Clients = {c, d}
    Handles = {h, k}
    None = None
    Refused = Refused
    Overlap = FALSE
    Budget <- ThreeConnects
    Nested <- Reconnects
INVARIANTS
    TypeOK
    SocketsOwned
    NothingFreed
PROPERTIES
    Sessions
