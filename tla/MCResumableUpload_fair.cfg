SPECIFICATION FairSpec
CONSTANTS
    Clients = {c1}
    Handlers = {h1, h2}
    Total = 3
    ChunkSize = 2
    Attempts = 3
    TTL = 0
    MayAbandon = TRUE
    MaxTime = 1
    MaxFaults = 2
    MaxCrashes = 1
    MaxKills = 1
    Gone = Gone
    Nil = Nil
CHECK_DEADLOCK FALSE
PROPERTIES UploadSessionReturns
