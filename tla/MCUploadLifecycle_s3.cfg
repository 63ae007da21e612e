SPECIFICATION FairSpec
CONSTANTS
    limited = limited
    unlimited = unlimited
    Budget = 2
    Uploads = {limited}
    Requests = {r1, r2}
    Archives = {r1}
    MaxDownloads <- MCMaxDownloads
    SidecarSize = 1
    Limit = 2
    Local = FALSE
    Expires = {limited}
    Deletable = {limited}
    MaxFaults = 2
    MaxCrashes = 1
    MaxHangUps = 1
    Absent = Absent
    Torn = Torn
    Nil = Nil
CHECK_DEADLOCK FALSE
INVARIANTS
    TypeOK
    
    TransfersAccounted
PROPERTIES
    NoTransferAfterDelete
    RequestsEnd
    SpentIsRemoved
