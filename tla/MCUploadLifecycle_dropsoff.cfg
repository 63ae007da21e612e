SPECIFICATION Spec
CONSTANTS
    limited = limited
    unlimited = unlimited
    Budget = 2
    Uploads = {limited}
    Requests = {r1, r2}
    Archives = {}
    MaxDownloads <- MCMaxDownloads
    SidecarSize = 1
    Limit = 2
    Local = TRUE
    Expires = {}
    Deletable = {limited}
    MaxFaults = 0
    MaxCrashes = 0
    MaxHangUps = 0
    Absent = Absent
    Torn = Torn
    Nil = Nil
CHECK_DEADLOCK FALSE
INVARIANTS DeletedDropsOff
