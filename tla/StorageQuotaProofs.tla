-------------------------- MODULE StorageQuotaProofs --------------------------
(***************************************************************************)
(* Proofs about StorageQuota, for any uploads, requests, sizes, limit,     *)
(* age and backend, and any number of sweeps, faults and crashes: the      *)
(* counter loses no adjustment and overshoots by at most the uploads that  *)
(* overlap, the sweep spares what is young and leaves nothing old behind.  *)
(*                                                                         *)
(* Why an invariant is needed: that a sweep never takes a young upload     *)
(* rests on what it has already listed and on who may still write, and     *)
(* that quota.add counts an upload once on no other request building it.   *)
(***************************************************************************)
EXTENDS StorageQuota, FiniteSetTheorems, TLAPS

Building(r) ==
    pc[r] \in {"admitted", "mkdirMeta", "described", "mkdirPayload", "stored", "rollback"}
Removing(r) == pc[r] \in {"removeMeta", "removePayload", "load", "swap"}

\* An upload that is being made is not counted yet and nobody else's business;
\* one that is being removed has been counted.
RequestsRefer ==
    \A r \in Requests :
        /\ pc[r] # "idle" => on[r] \in Uploads
        /\ Building(r) => /\ on[r] \notin added
                          /\ \A q \in Requests : q # r => on[q] # on[r]
        /\ Removing(r) => on[r] \in added /\ since[on[r]] = Absent

\* Only what was counted is given back.
GivenWasAdded == \A u \in Uploads : given[u] > 0 => u \in added

CountInv == RequestsRefer /\ GivenWasAdded /\ NoLostAdjustment

\* A file lies in its token directory.
Filed == Local => \A u \in Uploads : meta[u] # Absent \/ Stored(u) => u \in dirs

\* A sweep that runs was started when what is older than the cutoff was old.
CutoffIsPast == phase # "waiting" => cutoff <= clock - Days

\* What a walk has not come to yet is all that may be left of what is old.
Unswept ==
    Local /\ phase = "purge" =>
        \A u \in Uploads :
            Stored(u) /\ payload[u] < cutoff => u \in todo \/ <<u, "payload">> \in open

SweepInv == Filed /\ CutoffIsPast /\ Unswept /\ SweptClean

\* An upload's objects are no older than the upload.
Births ==
    \A u \in Uploads :
        since[u] # Absent =>
            /\ since[u] <= clock
            /\ meta[u] # Absent => since[u] <= meta[u]
            /\ Stored(u) => since[u] <= payload[u]

\* Nothing of an upload is there, or on a page of the sweep, before its sidecar.
NothingYet ==
    \A r \in Requests :
        pc[r] \in {"admitted", "mkdirMeta"} =>
            /\ meta[on[r]] = Absent /\ ~Stored(on[r])
            /\ \A f \in open : f[1] # on[r]

\* What a page of the bucket condemns is old, or somebody removes it.
Condemned ==
    ~Local /\ phase = "purge" =>
        \A f \in open : since[f[1]] = Absent \/ since[f[1]] < cutoff

\* A young upload has its sidecar, and its payload from the moment it is stored.
Young(u) == since[u] # Absent /\ clock - since[u] <= Days
YoungKept ==
    /\ \A u \in Uploads : Young(u) => meta[u] # Absent
    /\ \A u \in added : Young(u) => Stored(u)
    /\ \A r \in Requests : pc[r] = "stored" /\ Young(on[r]) => Stored(on[r])

SpareInv == Births /\ NothingYet /\ Condemned /\ YoungKept

IInv == TypeOK /\ OvershootBounded /\ CountInv /\ SweepInv /\ SpareInv
USE SetsAssumption, BackendsAssumption, SizeAssumption, LimitAssumption, DaysAssumption,
    BoundsAssumption, NoneAssumption

-------------------------------------------------------------------------------
(* Files and sizes *)

LEMMA Counting == ASSUME NEW S, IsFiniteSet(S), NEW T \in SUBSET S PROVE Cardinality(T) \in Nat
BY FS_Subset, FS_CardinalityType

LEMMA FilesOf ==
    ASSUME NEW u
    PROVE  Files(u) = (IF meta[u] # Absent THEN {<<u, "meta">>} ELSE {})
                      \cup (IF Stored(u) THEN {<<u, "payload">>} ELSE {})
BY DEF Files

\* What Usage adds up is a number.
LEMMA BytesType == ASSUME NEW S, IsFiniteSet(S) PROVE Bytes(S) \in Nat
<1>1. Cardinality({f \in S : f[2] = "meta"}) \in Nat
  BY Counting
<1>2. Cardinality({f \in S : f[2] = "payload"}) \in Nat
  BY Counting
<1>. QED BY <1>1, <1>2 DEF Bytes

LEMMA FilesFinite == ASSUME NEW u PROVE IsFiniteSet(Files(u))
<1>1. IsFiniteSet({<<u, "meta">>} \cup {<<u, "payload">>})
  BY FS_Singleton, FS_Union
<1>2. Files(u) \in SUBSET ({<<u, "meta">>} \cup {<<u, "payload">>})
  BY DEF Files
<1>. QED BY <1>1, <1>2, FS_Subset

LEMMA EverythingFinite == IsFiniteSet(Everything)
<1>1. IsFiniteSet({"meta"} \cup {"payload"})
  BY FS_Singleton, FS_Union
<1>2. IsFiniteSet(Uploads \X ({"meta"} \cup {"payload"}))
  BY <1>1, FS_Product
<1>3. Everything \in SUBSET (Uploads \X ({"meta"} \cup {"payload"}))
  BY DEF Everything, Files
<1>. QED BY <1>2, <1>3, FS_Subset

-------------------------------------------------------------------------------
(* Types *)

LEMMA InitInv == Init => IInv
<1>. SUFFICES ASSUME Init PROVE IInv
  OBVIOUS
<1>. USE DEF Init
<1>1. TypeOK
  <2>1. 0 \in Time
    BY DEF Time
  <2>2. pc \in [Requests -> Place] /\ on \in [Requests -> Uploads \cup {Nil}]
    BY DEF Place
  <2>3. /\ meta \in [Uploads -> Time \cup {Absent}]
        /\ payload \in [Uploads -> Time \cup {Absent}]
        /\ since \in [Uploads -> Time \cup {Absent}]
    OBVIOUS
  <2>4. backend \in Backends /\ open \subseteq Uploads \X {"meta", "payload"}
    OBVIOUS
  <2>5. measured \in BOOLEAN
    OBVIOUS
  <2>6. given \in [Uploads -> Nat] /\ seen \in [Requests -> Nat]
    OBVIOUS
  <2>7. phase \in Phase
    BY DEF Phase
  <2>. QED BY <2>1, <2>2, <2>3, <2>4, <2>5, <2>6, <2>7 DEF TypeOK
<1>2. InFlight = {} /\ Cardinality(InFlight) = 0
  BY FS_EmptySet DEF InFlight
<1>3. Cardinality(Requests) \in Nat \ {0}
  BY FS_CardinalityType, FS_EmptySet
<1>4. OvershootBounded
  BY <1>2, <1>3 DEF OvershootBounded, Larger
<1>5. NoLostAdjustment
  <2>1. {u \in Uploads : given[u] = 1} = {}
    OBVIOUS
  <2>2. Cardinality(added) = 0 /\ Cardinality({u \in Uploads : given[u] = 1}) = 0
    BY <2>1, FS_EmptySet
  <2>3. used = Size * (Cardinality(added) - Cardinality({u \in Uploads : given[u] = 1}))
    BY <2>2
  <2>. QED BY <2>3 DEF NoLostAdjustment
<1>6. CountInv
  BY <1>5 DEF CountInv, RequestsRefer, Building, Removing, GivenWasAdded
<1>7. SweepInv
  BY DEF SweepInv, Filed, Stored, CutoffIsPast, Unswept, SweptClean
<1>8. SpareInv
  BY DEF SpareInv, Births, NothingYet, Condemned, YoungKept, Young
<1>. QED BY <1>1, <1>4, <1>6, <1>7, <1>8 DEF IInv

LEMMA EraseType ==
    ASSUME TypeOK, NEW files, Erase(files)
    PROVE  /\ meta' \in [Uploads -> Time \cup {Absent}]
           /\ payload' \in [Uploads -> Time \cup {Absent}]
BY DEF TypeOK, Erase

\* Every action keeps the types.
LEMMA TypeStep == TypeOK /\ RequestsRefer /\ [Next]_vars => TypeOK'
<1>. SUFFICES ASSUME TypeOK, RequestsRefer, [Next]_vars PROVE TypeOK'
  OBVIOUS
<1>. USE DEF TypeOK, RequestsRefer, Building, Removing, Time, Place, Phase, backendVars,
             requestVars, quotaVars, sweepVars, bounds, history, sweepUnchanged, Goto,
             Finish, Fault, EndSweep, Walk
<1>1. ASSUME NEW r \in Requests, Upload(r) PROVE TypeOK'
  <2>1. ASSUME NEW u \in Uploads, Admit(r, u) PROVE TypeOK'
    BY <2>1 DEF Admit
  <2>2. CASE MakeDir(r)
    BY <2>2 DEF MakeDir
  <2>3. CASE PutMetadata(r)
    BY <2>3 DEF PutMetadata
  <2>4. CASE PutPayload(r)
    BY <2>4 DEF PutPayload
  <2>5. CASE Rollback(r)
    BY <2>5 DEF Rollback
  <2>6. CASE Add(r)
    BY <2>6 DEF Add
  <2>. QED BY <1>1, <2>1, <2>2, <2>3, <2>4, <2>5, <2>6 DEF Upload
<1>2. ASSUME NEW r \in Requests, Remove(r) PROVE TypeOK'
  <2>1. ASSUME NEW u \in Uploads, BeginRemove(r, u) PROVE TypeOK'
    BY <2>1 DEF BeginRemove
  <2>2. CASE RemoveMetadata(r)
    BY <2>2 DEF RemoveMetadata
  <2>3. CASE RemovePayload(r)
    BY <2>3 DEF RemovePayload
  <2>4. CASE Load(r)
    BY <2>4 DEF Load
  <2>5. CASE Sub(r)
    BY <2>5 DEF Sub, CompareAndSwap, GivenBack
  <2>. QED BY <1>2, <2>1, <2>2, <2>3, <2>4, <2>5 DEF Remove
<1>3. ASSUME NEW u \in Uploads, CountDownload(u) PROVE TypeOK'
  BY <1>3 DEF CountDownload
<1>4. CASE Sweep
  <2>1. CASE StartSweep
    BY <2>1 DEF StartSweep
  <2>2. CASE PurgePage
    <3>1. ASSUME NEW files, Erase(files) PROVE /\ meta' \in [Uploads -> Time \cup {Absent}]
                                              /\ payload' \in [Uploads -> Time \cup {Absent}]
      BY <3>1, EraseType
    <3>2. /\ meta' \in [Uploads -> Time \cup {Absent}]
          /\ payload' \in [Uploads -> Time \cup {Absent}]
      BY <2>2, <3>1 DEF PurgePage
    <3>3. /\ phase' \in Phase /\ cutoff' \in Int /\ todo' \subseteq Uploads
          /\ open' \subseteq Uploads \X {"meta", "payload"}
          /\ total' \in Nat /\ faults' \in Nat
      BY <2>2 DEF PurgePage
    <3>. QED BY <2>2, <3>2, <3>3 DEF PurgePage
  <2>3. CASE StartPrune \/ StartUsage
    BY <2>3 DEF StartPrune, StartUsage
  <2>4. CASE EndUsage \/ AbandonSweep
    BY <2>4 DEF EndUsage, AbandonSweep
  <2>5. CASE Reseed
    <3>1. Cardinality(InFlight) \in Nat
      BY Counting DEF InFlight
    <3>2. total + Size * Cardinality(InFlight) \in Nat
      BY <3>1
    <3>. QED BY <2>5, <3>2 DEF Reseed
  <2>6. ASSUME NEW u \in Uploads, EnterPurge(u) PROVE TypeOK'
    BY <2>6, FilesOf DEF EnterPurge
  <2>7. ASSUME NEW u \in Uploads, RemoveEmptyDir(u) PROVE TypeOK'
    BY <2>7, EraseType DEF RemoveEmptyDir
  <2>8. ASSUME NEW u \in Uploads, EnterUsage(u) PROVE TypeOK'
    <3>1. Bytes(Files(u)) \in Nat
      BY BytesType, FilesFinite
    <3>. QED BY <2>8, <3>1, FilesOf DEF EnterUsage
  <2>9. ASSUME NEW f \in open, PurgeFile(f) PROVE TypeOK'
    BY <2>9 DEF PurgeFile, Erase
  <2>10. ASSUME NEW f \in open, AddFile(f) PROVE TypeOK'
    <3>1. Bytes({f}) \in Nat
      BY BytesType, FS_Singleton
    <3>. QED BY <2>10, <3>1 DEF AddFile
  <2>. QED
    BY <1>4, <2>1, <2>2, <2>3, <2>4, <2>5, <2>6, <2>7, <2>8, <2>9, <2>10 DEF Sweep
<1>5. CASE Tick
  BY <1>5 DEF Tick
<1>6. CASE Crash
  <2>1. Bytes(Everything) \in Nat
    BY BytesType, EverythingFinite
  <2>. QED BY <1>6, <2>1 DEF Crash
<1>7. CASE UNCHANGED vars
  BY <1>7 DEF vars
<1>. QED BY <1>1, <1>2, <1>3, <1>4, <1>5, <1>6, <1>7 DEF Next

-------------------------------------------------------------------------------
(* The counter stays near the limit *)

Flying == {"admitted", "mkdirMeta", "described", "mkdirPayload", "stored"}

LEMMA InFlightFinite == IsFiniteSet(InFlight) /\ Cardinality(InFlight) \in Nat
BY FS_Subset, FS_CardinalityType DEF InFlight

LEMMA RequestCount == Cardinality(Requests) \in Nat \ {0}
BY FS_CardinalityType, FS_EmptySet

\* A request that moves joins the uploads in flight, or leaves them.
LEMMA FlightChange ==
    ASSUME TypeOK, NEW r \in Requests, NEW place, Goto(r, place)
    PROVE  /\ place \in Flying => InFlight' = InFlight \cup {r}
           /\ place \notin Flying => InFlight' = InFlight \ {r}
           /\ r \in InFlight <=> pc[r] \in Flying
BY DEF TypeOK, Goto, InFlight, Flying

\* What is counted together with what is in flight.
Claimed == used + Size * Cardinality(InFlight)
Ceiling == Larger(Limit + Size * (Cardinality(Requests) - 1), base)

LEMMA ClaimedType == ASSUME TypeOK PROVE Claimed \in Nat
BY InFlightFinite DEF TypeOK, Claimed

\* Nobody joins: what is claimed does not grow unless the counter does.
LEMMA NoneJoins ==
    ASSUME TypeOK, NEW r \in Requests, NEW place, Goto(r, place),
           place \in Flying => pc[r] \in Flying
    PROVE  Cardinality(InFlight') <= Cardinality(InFlight)
<1>1. InFlight' \in SUBSET InFlight
  BY FlightChange
<1>. QED BY <1>1, FS_Subset, InFlightFinite

LEMMA Smaller ==
    ASSUME NEW a \in Nat, NEW b \in Nat, NEW i \in Nat, NEW j \in Nat, a <= b, i <= j
    PROVE  a + Size * i <= b + Size * j
<1>1. PICK d \in Nat : j = i + d
  <2>1. j - i \in Nat /\ j = i + (j - i)
    OBVIOUS
  <2>. QED BY <2>1
<1>2. Size * j = Size * i + Size * d
  BY <1>1
<1>3. Size * d \in Nat /\ Size * i \in Nat
  OBVIOUS
<1>. QED BY <1>2, <1>3

\* Unless an upload is admitted, or the counter is measured, no more is claimed.
LEMMA ClaimedFalls ==
    ASSUME TypeOK, TypeOK', OvershootBounded, used' <= used, base' = base,
           Cardinality(InFlight') \in Nat, Cardinality(InFlight') <= Cardinality(InFlight)
    PROVE  OvershootBounded'
<1>1. Claimed' <= Claimed
  BY Smaller, InFlightFinite DEF TypeOK, Claimed
<1>2. Claimed <= Ceiling /\ Ceiling' = Ceiling
  BY DEF OvershootBounded, Claimed, Ceiling
<1>3. Claimed' \in Nat /\ Claimed \in Nat
  BY ClaimedType, InFlightFinite DEF TypeOK, Claimed
<1>4. Ceiling \in Int
  BY RequestCount DEF TypeOK, Ceiling, Larger
<1>5. Claimed' <= Ceiling'
  BY <1>1, <1>2, <1>3, <1>4
<1>. QED BY <1>5 DEF OvershootBounded, Claimed, Ceiling

LEMMA OvershootStep ==
    TypeOK /\ TypeOK' /\ OvershootBounded /\ [Next]_vars => OvershootBounded'
<1>. SUFFICES ASSUME TypeOK, TypeOK', OvershootBounded, [Next]_vars PROVE OvershootBounded'
  OBVIOUS
<1>0. IsFiniteSet(InFlight') /\ Cardinality(InFlight') \in Nat
  BY FS_Subset, FS_CardinalityType DEF InFlight
<1>a. ASSUME UNCHANGED <<pc, used, base>> PROVE OvershootBounded'
  <2>1. InFlight' = InFlight
    BY <1>a DEF InFlight
  <2>. QED BY <1>a, <2>1, <1>0, ClaimedFalls DEF TypeOK
<1>b. ASSUME NEW r \in Requests, NEW place, Goto(r, place), place \notin Flying,
             used' <= used, base' = base
      PROVE  OvershootBounded'
  BY <1>b, <1>0, NoneJoins, ClaimedFalls
<1>1. ASSUME NEW r \in Requests, Upload(r) PROVE OvershootBounded'
  <2>1. ASSUME NEW u \in Uploads, Admit(r, u) PROVE OvershootBounded'
    <3>1. Cardinality(InFlight') <= Cardinality(Requests)
      BY FS_Subset DEF InFlight
    <3>2. used' + Size <= Limit /\ used' \in Nat
      BY <2>1 DEF Admit, Allowed, quotaVars, TypeOK
    <3>3. used' + Size * Cardinality(InFlight') <= used' + Size * Cardinality(Requests)
      BY <3>1, <3>2, <1>0, RequestCount, Smaller
    <3>4. used' + Size * Cardinality(Requests) <= Limit + Size * (Cardinality(Requests) - 1)
      BY <3>2, RequestCount
    <3>5. Claimed' <= Limit + Size * (Cardinality(Requests) - 1)
      BY <3>2, <3>3, <3>4, <1>0, RequestCount DEF Claimed
    <3>. QED
      BY <3>2, <3>5, <1>0, RequestCount DEF OvershootBounded, Claimed, Larger, TypeOK
  <2>2. CASE MakeDir(r) \/ PutMetadata(r) \/ PutPayload(r) \/ Rollback(r)
    <3>1. \E place : Goto(r, place) /\ (place \in Flying => pc[r] \in Flying)
      BY <2>2 DEF MakeDir, PutMetadata, PutPayload, Rollback, Finish, Flying
    <3>2. used' = used /\ base' = base
      BY <2>2 DEF MakeDir, PutMetadata, PutPayload, Rollback, quotaVars, history
    <3>. QED BY <3>1, <3>2, <1>0, NoneJoins, ClaimedFalls DEF TypeOK
  <2>3. CASE Add(r)
    <3>1. InFlight' = InFlight \ {r} /\ r \in InFlight
      BY <2>3, FlightChange DEF Add, Finish, Flying
    <3>2. Cardinality(InFlight') = Cardinality(InFlight) - 1
      BY <3>1, InFlightFinite, FS_RemoveElement
    <3>3. Claimed' = Claimed
      BY <2>3, <3>2, InFlightFinite DEF Add, Claimed, TypeOK
    <3>. QED BY <2>3, <3>3 DEF Add, OvershootBounded, Claimed
  <2>. QED BY <1>1, <2>1, <2>2, <2>3 DEF Upload
<1>2. ASSUME NEW r \in Requests, Remove(r) PROVE OvershootBounded'
  <2>1. ASSUME NEW u \in Uploads, BeginRemove(r, u) PROVE OvershootBounded'
    BY <2>1, <1>b DEF BeginRemove, Flying, quotaVars, history, TypeOK
  <2>2. CASE RemoveMetadata(r)
    <3>1. \E place : Goto(r, place) /\ place \notin Flying
      BY <2>2 DEF RemoveMetadata, Finish, Flying
    <3>. QED BY <2>2, <3>1, <1>b DEF RemoveMetadata, quotaVars, history, TypeOK
  <2>3. CASE RemovePayload(r)
    <3>1. \E place : Goto(r, place) /\ place \notin Flying
      BY <2>3 DEF RemovePayload, Finish, Flying
    <3>. QED BY <2>3, <3>1, <1>b DEF RemovePayload, quotaVars, history, TypeOK
  <2>4. CASE Load(r)
    BY <2>4, <1>b DEF Load, Flying, history, TypeOK
  <2>5. CASE Sub(r)
    <3>1. \E place : Goto(r, place) /\ place \notin Flying
      BY <2>5 DEF Sub, Finish, Flying
    <3>2. used' <= used
      BY <2>5 DEF Sub, CompareAndSwap, GivenBack, TypeOK
    <3>. QED BY <2>5, <3>1, <3>2, <1>b DEF Sub
  <2>. QED BY <1>2, <2>1, <2>2, <2>3, <2>4, <2>5 DEF Remove
<1>3. CASE Sweep
  <2>1. CASE Reseed
    <3>1. InFlight' = InFlight
      BY <2>1 DEF Reseed, InFlight, sweepUnchanged, requestVars
    <3>2. Claimed' = base' /\ base' \in Nat
      BY <2>1, <3>1, InFlightFinite DEF Reseed, Claimed, TypeOK
    <3>. QED BY <3>2, RequestCount DEF OvershootBounded, Claimed, Larger
  <2>2. CASE ~Reseed
    <3>1. UNCHANGED <<pc, used, base>>
      BY <1>3, <2>2 DEF Sweep, StartSweep, PurgePage, StartPrune, StartUsage, EndUsage,
            AbandonSweep, EnterPurge, RemoveEmptyDir, EnterUsage, PurgeFile, AddFile,
            sweepUnchanged, requestVars
    <3>. QED BY <3>1, <1>a
  <2>. QED BY <2>1, <2>2
<1>4. ASSUME NEW u \in Uploads, CountDownload(u) PROVE OvershootBounded'
  BY <1>4, <1>a DEF CountDownload, requestVars, quotaVars, history
<1>5. CASE Tick
  BY <1>5, <1>a DEF Tick, requestVars, quotaVars, history
<1>6. CASE Crash
  <2>1. InFlight' = {}
    BY <1>6 DEF Crash, InFlight
  <2>2. Claimed' = base' /\ base' \in Nat
    BY <1>6, <2>1, FS_EmptySet DEF Crash, Claimed, TypeOK
  <2>. QED BY <2>2, RequestCount DEF OvershootBounded, Claimed, Larger
<1>7. CASE UNCHANGED vars
  BY <1>7, <1>a DEF vars
<1>. QED BY <1>1, <1>2, <1>3, <1>4, <1>5, <1>6, <1>7 DEF Next

-------------------------------------------------------------------------------
(* The counter loses nothing *)

LEMMA ReferStep == TypeOK /\ RequestsRefer /\ [Next]_vars => RequestsRefer'
<1>. SUFFICES ASSUME TypeOK, RequestsRefer, [Next]_vars PROVE RequestsRefer'
  OBVIOUS
<1>. USE DEF TypeOK, RequestsRefer, Building, Removing, Goto, Finish, history, requestVars
<1>1. ASSUME NEW r \in Requests, Upload(r) PROVE RequestsRefer'
  <2>1. ASSUME NEW u \in Uploads, Admit(r, u) PROVE RequestsRefer'
    BY <2>1 DEF Admit, Fresh
  <2>2. CASE MakeDir(r)
    BY <2>2 DEF MakeDir
  <2>3. CASE PutMetadata(r)
    BY <2>3 DEF PutMetadata
  <2>4. CASE PutPayload(r)
    BY <2>4 DEF PutPayload
  <2>5. CASE Rollback(r)
    BY <2>5 DEF Rollback
  <2>6. CASE Add(r)
    BY <2>6 DEF Add
  <2>. QED BY <1>1, <2>1, <2>2, <2>3, <2>4, <2>5, <2>6 DEF Upload
<1>2. ASSUME NEW r \in Requests, Remove(r) PROVE RequestsRefer'
  <2>1. ASSUME NEW u \in Uploads, BeginRemove(r, u) PROVE RequestsRefer'
    BY <2>1 DEF BeginRemove
  <2>2. CASE RemoveMetadata(r)
    BY <2>2 DEF RemoveMetadata
  <2>3. CASE RemovePayload(r)
    BY <2>3 DEF RemovePayload
  <2>4. CASE Load(r)
    BY <2>4 DEF Load
  <2>5. CASE Sub(r)
    BY <2>5 DEF Sub
  <2>. QED BY <1>2, <2>1, <2>2, <2>3, <2>4, <2>5 DEF Remove
<1>3. ASSUME NEW u \in Uploads, CountDownload(u) PROVE RequestsRefer'
  BY <1>3 DEF CountDownload
<1>4. CASE Sweep
  BY <1>4 DEF Sweep, StartSweep, PurgePage, StartPrune, StartUsage, EndUsage, AbandonSweep,
              Reseed, EnterPurge, RemoveEmptyDir, EnterUsage, PurgeFile, AddFile,
              sweepUnchanged
<1>5. CASE Tick
  BY <1>5 DEF Tick
<1>6. CASE Crash
  BY <1>6 DEF Crash
<1>7. CASE UNCHANGED vars
  BY <1>7 DEF vars
<1>. QED BY <1>1, <1>2, <1>3, <1>4, <1>5, <1>6, <1>7 DEF Next

Returned == {u \in Uploads : given[u] = 1}

LEMMA AddedCounts ==
    ASSUME TypeOK
    PROVE  /\ IsFiniteSet(added) /\ Cardinality(added) \in Nat
           /\ IsFiniteSet(Returned) /\ Cardinality(Returned) \in Nat
BY FS_Subset, FS_CardinalityType DEF TypeOK, Returned

LEMMA CountStep ==
    TypeOK /\ CountInv /\ [Next]_vars => GivenWasAdded' /\ NoLostAdjustment'
<1>. DEFINE Goal == GivenWasAdded /\ NoLostAdjustment
<1>. SUFFICES ASSUME TypeOK, CountInv, [Next]_vars PROVE Goal'
  OBVIOUS
<1>. USE DEF CountInv
<1>a. ASSUME UNCHANGED <<added, given, used, measured>> PROVE Goal'
  BY <1>a DEF GivenWasAdded, NoLostAdjustment
<1>b. ASSUME UNCHANGED <<added, given>>, measured' PROVE Goal'
  BY <1>b DEF GivenWasAdded, NoLostAdjustment
<1>1. ASSUME NEW r \in Requests, Upload(r) PROVE Goal'
  <2>1. CASE Add(r)
    <3>1. on[r] \in Uploads /\ on[r] \notin added /\ added' = added \cup {on[r]}
      BY <2>1 DEF Add, RequestsRefer, Building
    <3>2. Cardinality(added') = Cardinality(added) + 1
      BY <3>1, AddedCounts, FS_AddElement
    <3>3. given' = given /\ measured' = measured /\ used' = used + Size
      BY <2>1 DEF Add
    <3>4. GivenWasAdded'
      BY <3>1, <3>3 DEF GivenWasAdded
    <3>5. ASSUME ~measured, \A u \in Uploads : given[u] <= 1
          PROVE  used' = Size * (Cardinality(added') - Cardinality(Returned))
      <4>1. used = Size * (Cardinality(added) - Cardinality(Returned))
        BY <3>5 DEF NoLostAdjustment, Returned
      <4>. QED BY <4>1, <3>2, <3>3, AddedCounts
    <3>. QED BY <3>3, <3>4, <3>5 DEF NoLostAdjustment, Returned
  <2>2. CASE ~Add(r)
    BY <1>1, <2>2, <1>a DEF Upload, Admit, MakeDir, PutMetadata, PutPayload, Rollback,
                            history, quotaVars
  <2>. QED BY <2>1, <2>2
<1>2. ASSUME NEW r \in Requests, Remove(r) PROVE Goal'
  <2>1. CASE Sub(r) /\ CompareAndSwap(r)
    <3>1. /\ on[r] \in added /\ on[r] \in Uploads
          /\ given' = [given EXCEPT ![on[r]] = @ + 1]
          /\ used' = GivenBack(used)
          /\ added' = added /\ measured' = measured
      BY <2>1 DEF Sub, CompareAndSwap, RequestsRefer, Removing
    <3>2. GivenWasAdded'
      BY <3>1 DEF GivenWasAdded, TypeOK
    <3>3. ASSUME ~measured, \A u \in Uploads : given'[u] <= 1
          PROVE  used' = Size * (Cardinality(added) - Cardinality(Returned'))
      <4>1. (\A u \in Uploads : given[u] <= 1) /\ given[on[r]] = 0
        BY <3>1, <3>3 DEF TypeOK
      <4>2. used = Size * (Cardinality(added) - Cardinality(Returned))
        BY <3>3, <4>1 DEF NoLostAdjustment, Returned
      <4>3. Returned' = Returned \cup {on[r]} /\ on[r] \notin Returned
        BY <3>1, <4>1 DEF Returned, TypeOK
      <4>4. Cardinality(Returned') = Cardinality(Returned) + 1
        BY <4>3, AddedCounts, FS_AddElement
      <4>5. Returned' \in SUBSET added
        BY <4>3, <3>1 DEF Returned, GivenWasAdded
      <4>6. Cardinality(Returned) + 1 <= Cardinality(added)
        BY <4>4, <4>5, AddedCounts, FS_Subset
      <4>7. PICK d \in Nat : Cardinality(added) - Cardinality(Returned) = d + 1
        <5>1. Cardinality(added) - Cardinality(Returned) - 1 \in Nat
          BY <4>6, AddedCounts
        <5>. QED BY <5>1, AddedCounts
      <4>8. used = Size * d + Size /\ Size * d \in Nat
        BY <4>2, <4>7
      <4>9. used' = Size * d
        BY <3>1, <4>8 DEF GivenBack
      <4>10. Cardinality(added) - Cardinality(Returned') = d
        BY <4>4, <4>7, AddedCounts
      <4>. QED BY <4>9, <4>10
    <3>. QED BY <3>1, <3>2, <3>3 DEF NoLostAdjustment, Returned
  <2>2. CASE ~(Sub(r) /\ CompareAndSwap(r))
    BY <1>2, <2>2, <1>a DEF Remove, BeginRemove, RemoveMetadata, RemovePayload, Load, Sub,
                            history, quotaVars
  <2>. QED BY <2>1, <2>2
<1>3. ASSUME NEW u \in Uploads, CountDownload(u) PROVE Goal'
  BY <1>3, <1>a DEF CountDownload, quotaVars, history
<1>4. CASE Sweep
  <2>1. CASE Reseed
    BY <2>1, <1>b DEF Reseed, sweepUnchanged
  <2>2. CASE ~Reseed
    BY <1>4, <2>2, <1>a DEF Sweep, StartSweep, PurgePage, StartPrune, StartUsage, EndUsage,
          AbandonSweep, EnterPurge, RemoveEmptyDir, EnterUsage, PurgeFile, AddFile,
          sweepUnchanged
  <2>. QED BY <2>1, <2>2
<1>5. CASE Tick
  BY <1>5, <1>a DEF Tick, quotaVars, history
<1>6. CASE Crash
  BY <1>6, <1>b DEF Crash
<1>7. CASE UNCHANGED vars
  BY <1>7, <1>a DEF vars
<1>. QED BY <1>1, <1>2, <1>3, <1>4, <1>5, <1>6, <1>7 DEF Next

-------------------------------------------------------------------------------
(* What a sweep leaves *)

LEMMA SweepStep == TypeOK /\ RequestsRefer /\ SweepInv /\ [Next]_vars => SweepInv'
<1>. SUFFICES ASSUME TypeOK, RequestsRefer, SweepInv, [Next]_vars PROVE SweepInv'
  OBVIOUS
<1>. USE DEF TypeOK, Time, SweepInv, Filed, CutoffIsPast, Unswept, SweptClean, Stored, Local,
             backendVars, requestVars, sweepVars, sweepUnchanged
<1>1. ASSUME NEW r \in Requests, Upload(r) PROVE SweepInv'
  <2>1. ASSUME NEW u \in Uploads, Admit(r, u) PROVE SweepInv'
    BY <2>1 DEF Admit
  <2>2. CASE MakeDir(r)
    BY <2>2 DEF MakeDir
  <2>3. CASE PutMetadata(r)
    BY <2>3 DEF PutMetadata
  <2>4. CASE PutPayload(r)
    BY <2>4 DEF PutPayload
  <2>5. CASE Rollback(r)
    BY <2>5 DEF Rollback
  <2>6. CASE Add(r)
    BY <2>6 DEF Add
  <2>. QED BY <1>1, <2>1, <2>2, <2>3, <2>4, <2>5, <2>6 DEF Upload
<1>2. ASSUME NEW r \in Requests, Remove(r) PROVE SweepInv'
  <2>1. CASE RemoveMetadata(r)
    BY <2>1 DEF RemoveMetadata
  <2>2. CASE RemovePayload(r)
    BY <2>2 DEF RemovePayload
  <2>3. CASE UNCHANGED <<backend, backendVars, sweepVars, clock>>
    BY <2>3
  <2>. QED BY <1>2, <2>1, <2>2, <2>3 DEF Remove, BeginRemove, Load, Sub
<1>3. ASSUME NEW u \in Uploads, CountDownload(u) PROVE SweepInv'
  BY <1>3 DEF CountDownload
<1>4. CASE Sweep
  <2>1. CASE StartSweep
    BY <2>1 DEF StartSweep, Walk
  <2>2. CASE PurgePage
    BY <2>2 DEF PurgePage, Erase, EndSweep
  <2>3. CASE StartPrune
    BY <2>3 DEF StartPrune, Seen, Walk
  <2>4. CASE StartUsage \/ EndUsage
    BY <2>4 DEF StartUsage, Seen, Walk, EndUsage
  <2>5. CASE AbandonSweep \/ Reseed
    BY <2>5 DEF AbandonSweep, Reseed, EndSweep
  <2>6. ASSUME NEW u \in Uploads, EnterPurge(u) PROVE SweepInv'
    BY <2>6, FilesOf DEF EnterPurge
  <2>7. ASSUME NEW u \in Uploads, RemoveEmptyDir(u) PROVE SweepInv'
    BY <2>7, FilesOf DEF RemoveEmptyDir, Empty, Erase
  <2>8. ASSUME NEW u \in Uploads, EnterUsage(u) PROVE SweepInv'
    BY <2>8 DEF EnterUsage
  <2>9. ASSUME NEW f \in open, PurgeFile(f) PROVE SweepInv'
    BY <2>9, FilesOf DEF PurgeFile, Erase, EndSweep, Old, MTime
  <2>10. ASSUME NEW f \in open, AddFile(f) PROVE SweepInv'
    BY <2>10 DEF AddFile
  <2>. QED
    BY <1>4, <2>1, <2>2, <2>3, <2>4, <2>5, <2>6, <2>7, <2>8, <2>9, <2>10 DEF Sweep
<1>5. CASE Tick
  BY <1>5 DEF Tick
<1>6. CASE Crash
  BY <1>6 DEF Crash, EndSweep
<1>7. CASE UNCHANGED vars
  BY <1>7 DEF vars
<1>. QED BY <1>1, <1>2, <1>3, <1>4, <1>5, <1>6, <1>7 DEF Next

-------------------------------------------------------------------------------
(* What a sweep spares *)

LEMMA SpareStep ==
    TypeOK /\ RequestsRefer /\ CutoffIsPast /\ SpareInv /\ [Next]_vars => SpareInv'
<1>. SUFFICES ASSUME TypeOK, RequestsRefer, CutoffIsPast, SpareInv, [Next]_vars PROVE SpareInv'
  OBVIOUS
<1>. USE DEF TypeOK, Time, RequestsRefer, Building, Removing, CutoffIsPast, SpareInv, Births,
         NothingYet, Condemned, YoungKept, Young, Stored, Local, Goto, Finish,
         backendVars, requestVars, sweepVars, history, sweepUnchanged
<1>1. ASSUME NEW r \in Requests, Upload(r) PROVE SpareInv'
  <2>1. ASSUME NEW u \in Uploads, Admit(r, u) PROVE SpareInv'
    BY <2>1, FilesOf DEF Admit, Fresh
  <2>2. CASE MakeDir(r)
    BY <2>2 DEF MakeDir
  <2>3. CASE PutMetadata(r)
    BY <2>3 DEF PutMetadata
  <2>4. CASE PutPayload(r)
    BY <2>4 DEF PutPayload
  <2>5. CASE Rollback(r)
    BY <2>5 DEF Rollback
  <2>6. CASE Add(r)
    BY <2>6 DEF Add
  <2>. QED BY <1>1, <2>1, <2>2, <2>3, <2>4, <2>5, <2>6 DEF Upload
<1>2. ASSUME NEW r \in Requests, Remove(r) PROVE SpareInv'
  <2>1. ASSUME NEW u \in Uploads, BeginRemove(r, u) PROVE SpareInv'
    BY <2>1 DEF BeginRemove
  <2>2. CASE RemoveMetadata(r)
    BY <2>2 DEF RemoveMetadata
  <2>3. CASE RemovePayload(r)
    BY <2>3 DEF RemovePayload
  <2>4. CASE Load(r)
    BY <2>4 DEF Load
  <2>5. CASE Sub(r)
    BY <2>5 DEF Sub
  <2>. QED BY <1>2, <2>1, <2>2, <2>3, <2>4, <2>5 DEF Remove
<1>3. ASSUME NEW u \in Uploads, CountDownload(u) PROVE SpareInv'
  BY <1>3 DEF CountDownload
<1>4. CASE Sweep
  <2>1. CASE StartSweep
    BY <2>1 DEF StartSweep, Walk
  <2>2. CASE PurgePage
    <3>1. CASE UNCHANGED <<meta, payload>>
      BY <2>2, <3>1 DEF PurgePage, EndSweep
    <3>2. ASSUME NEW files \in SUBSET open, Erase(files), open' = {},
                 UNCHANGED <<phase, cutoff>>
          PROVE  SpareInv'
      <4>1. \A f \in files : ~Young(f[1])
        BY <2>2 DEF PurgePage
      <4>2. \A u \in Uploads :
               /\ meta'[u] \in {meta[u], Absent} /\ payload'[u] \in {payload[u], Absent}
               /\ Young(u) => meta'[u] = meta[u] /\ payload'[u] = payload[u]
        BY <3>2, <4>1 DEF Erase
      <4>. QED BY <2>2, <3>2, <4>2 DEF PurgePage
    <3>3. \/ UNCHANGED <<meta, payload>>
          \/ \E files \in SUBSET open :
                Erase(files) /\ open' = {} /\ UNCHANGED <<phase, cutoff>>
      BY <2>2 DEF PurgePage
    <3>. QED BY <3>1, <3>2, <3>3
  <2>3. CASE StartPrune \/ StartUsage \/ EndUsage
    BY <2>3 DEF StartPrune, StartUsage, EndUsage, Walk
  <2>4. CASE AbandonSweep \/ Reseed
    BY <2>4 DEF AbandonSweep, Reseed, EndSweep
  <2>5. ASSUME NEW u \in Uploads, EnterPurge(u) PROVE SpareInv'
    BY <2>5, FilesOf DEF EnterPurge, Old, MTime
  <2>6. ASSUME NEW u \in Uploads, RemoveEmptyDir(u) PROVE SpareInv'
    <3>1. UNCHANGED <<meta, payload>>
      BY <2>6 DEF RemoveEmptyDir, Empty, Erase
    <3>. QED BY <2>6, <3>1 DEF RemoveEmptyDir
  <2>7. ASSUME NEW u \in Uploads, EnterUsage(u) PROVE SpareInv'
    BY <2>7, FilesOf DEF EnterUsage
  <2>8. ASSUME NEW f \in open, PurgeFile(f) PROVE SpareInv'
    BY <2>8 DEF PurgeFile, Erase, EndSweep, Old, MTime
  <2>9. ASSUME NEW f \in open, AddFile(f) PROVE SpareInv'
    BY <2>9 DEF AddFile
  <2>. QED
    BY <1>4, <2>1, <2>2, <2>3, <2>4, <2>5, <2>6, <2>7, <2>8, <2>9 DEF Sweep
<1>5. CASE Tick
  BY <1>5 DEF Tick
<1>6. CASE Crash
  BY <1>6 DEF Crash, EndSweep
<1>7. CASE UNCHANGED vars
  BY <1>7 DEF vars
<1>. QED BY <1>1, <1>2, <1>3, <1>4, <1>5, <1>6, <1>7 DEF Next

-------------------------------------------------------------------------------
LEMMA StepInv == IInv /\ [Next]_vars => IInv'
BY TypeStep, OvershootStep, ReferStep, CountStep, SweepStep, SpareStep
   DEF IInv, CountInv, SweepInv

LEMMA Invariance == Spec => []IInv
<1>. QED BY InitInv, StepInv, PTL DEF Spec

\* The backend, the counter, the requests and the sweep keep their types.
THEOREM TypeCorrect == Spec => []TypeOK
<1>1. IInv => TypeOK
  BY DEF IInv
<1>. QED BY <1>1, Invariance, PTL

\* Check and add are apart (checkStorageQuota, store): the counter passes the
\* limit, or what was measured last, by at most one upload for each other request
\* that is under way.
THEOREM OvershootIsBounded == Spec => []OvershootBounded
<1>1. IInv => OvershootBounded
  BY DEF IInv
<1>. QED BY <1>1, Invariance, PTL

\* storageQuota.add and the loop of storageQuota.sub lose no adjustment to each
\* other: until it is measured anew the counter is what was added less what was
\* given back.
THEOREM CounterIsExact == Spec => []NoLostAdjustment
<1>1. IInv => NoLostAdjustment
  BY DEF IInv, CountInv
<1>. QED BY <1>1, Invariance, PTL

\* A sweep that gets as far as measuring has removed every payload older than its
\* cutoff (LocalStorage.Purge).
THEOREM SweepCleans == Spec => []SweptClean
<1>1. IInv => SweptClean
  BY DEF IInv, SweepInv
<1>. QED BY <1>1, Invariance, PTL

\* A purge sweep, whatever it listed and whoever wrote in the meantime, leaves an
\* acknowledged upload alone that is not older than purgeDays and that nobody
\* began to remove.
THEOREM SweepSpares == Spec => []SweepSparesYoung
<1>1. IInv => SweepSparesYoung
  BY DEF IInv, SpareInv, YoungKept, Young, SweepSparesYoung, TypeOK
<1>. QED BY <1>1, Invariance, PTL
===============================================================================
