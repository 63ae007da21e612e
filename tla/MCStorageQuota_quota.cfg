SPECIFICATION Spec
CONSTANTS
    Uploads = {u1, u2, u3}
    Requests = {r1, r2}
    Backends = {"local", "s3"}
    Size = 2
    MetaSize = 1
    Limit = 2
    Days = 0
    MaxClock = 1
    MaxSweeps = 1
    MaxRemoved = 1
    MaxFaults = 1
    Absent = Absent
    Nil = Nil
CHECK_DEADLOCK FALSE
SYMMETRY Symmetry
INVARIANTS
    TypeOK
    OvershootBounded
    NoLostAdjustment
    SweepSparesYoung
    SweptClean
