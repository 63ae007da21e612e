SPECIFICATION Spec
CONSTANTS
    Uploads = {u1, u2, u3}
    Collections = {c}
    Requests = {r1, r2}
    IndexLimit = 2
    MaxFiles = 2
    Local = TRUE
    Expires = {u1}
    Deletable = {u1}
    Shared = {u1, u2}
    Old = {u1}
    MaxFaults = 1
    Absent = Absent
    Torn = Torn
    Nil = Nil
SYMMETRY Symmetry
CHECK_DEADLOCK FALSE
INVARIANTS
    TypeOK
    IndexFaithful
    ForgottenWhenGone
    RepliesAreFresh
    MembersKept
