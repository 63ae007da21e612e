SPECIFICATION Spec
CONSTANTS
    Clients = {c1}
    Handlers = {h1, h2}
    Total = 3
    ChunkSize = 2
    Attempts = 3
    TTL = 1
    MayAbandon = FALSE
    MaxTime = 0
    MaxFaults = 1
    MaxCrashes = 0
    MaxKills = 0
    Gone = Gone
    Nil = Nil
CHECK_DEADLOCK FALSE
INVARIANTS LostMeansStored
