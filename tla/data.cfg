SPECIFICATION FairSpec
CONSTANTS
    Platforms = {"native", "browser"}
    Overloads <- Faithful
    Chunks = {1, 254}
    Sizes = {255}
    MaxSize = 255
    BufferUsers <- OneUser
    Budget = 3
    Connections = 2
INVARIANTS
    TypeOK
    Intact
    Once
PROPERTIES
    Delivered
