SPECIFICATION FairSpec
CONSTANTS
    upload = upload
    owner = owner
    Goroutines = {g1, g2, g3}
    Keys = {upload, owner}
    Addresses = {a1, a2, a3}
    Inner <- MCInner
    Nil = Nil
INVARIANTS
    TypeOK
    LockMapSound
PROPERTIES
    ImplementsMutex
    EveryCallReturns
