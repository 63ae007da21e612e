SPECIFICATION Spec
CONSTANTS
    limited = limited
    unlimited = unlimited
    Budget = 2
    Uploads = {limited, unlimited}
    Requests = {r1, r2, r3}
    Archives = {}
    MaxDownloads <- MCMaxDownloads
    SidecarSize = 1
    Limit = 4
    Local = TRUE
    Expires = {limited}
    Deletable = {limited}
    MaxFaults = 2
    MaxCrashes = 1
    MaxHangUps = 0
    Absent = Absent
    Torn = Torn
    Nil = Nil
CHECK_DEADLOCK FALSE
SYMMETRY Symmetry
INVARIANTS
    NoLostCount
    WithinBudget
    KeptWhileGood
    PairsUnderLock
    RollbackCleans
