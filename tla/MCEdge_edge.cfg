SPECIFICATION Spec
CONSTANTS
    ip1 = ip1
    ip2 = ip2
    ip3 = ip3
    Addresses = {ip1, ip2, ip3}
    NoFilter = NoFilter
    Requests = {r1, r2}
    Unparsed = unparsed
    Callers = {ip1, unparsed}
    Configs <- MCConfigs
    Burst <- MCBurst
    IdleTTL <- MCBurst
    Costs = {2}
    MaxTemp = 0
    MaxClock = 3
    MaxLate = 1
    MaxSlip = 1
    Nil = Nil
CHECK_DEADLOCK FALSE
INVARIANTS
    TypeOK
    RateBounded
    ScanIsSafe
    
PROPERTIES
    RequestsEnd
