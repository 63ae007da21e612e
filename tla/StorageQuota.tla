----------------------------- MODULE StorageQuota -----------------------------
(***************************************************************************)
(* The limit on stored bytes and the sweep that frees them: the counter    *)
(* (storageQuota), the purge goroutine that deletes old objects, prunes    *)
(* empty directories and measures the backend anew, and the uploads and    *)
(* removals that run while it walks.                                       *)
(*                                                                         *)
(* An upload is a sidecar and a payload under a token of its own; both are *)
(* modelled by their modification time.  On the local backend they live in *)
(* a directory that Put makes and the sweep removes.                       *)
(*                                                                         *)
(* Abstractions: every payload takes Size units, a sidecar MetaSize; an    *)
(* object appears with its last byte; the two removals of a failed         *)
(* upload's rollback are one step; the upload locks and the download count *)
(* are left to UploadLifecycle, what comes before checkStorageQuota to     *)
(* Edge.  An upload that failed and left nothing may be made again.        *)
(***************************************************************************)
EXTENDS Integers, FiniteSets

CONSTANTS
    Uploads,        \* (token, filename) pairs
    Requests,       \* request goroutines that upload or remove
    Backends,       \* backends to check: a subset of {"local", "s3"}
    Size, MetaSize, \* what a payload and a sidecar take
    Limit,          \* storageQuota.limit
    Days,           \* purgeDays, in ticks of the clock
    MaxClock,       \* bound: ticks
    MaxSweeps,      \* bound: purge sweeps
    MaxRemoved,     \* bound: uploads that are removed
    MaxFaults,      \* bound: calls that fail, and crashes of the server
    Absent, Nil     \* no object; nothing

ASSUME SetsAssumption == IsFiniteSet(Uploads) /\ IsFiniteSet(Requests) /\ Requests # {}
ASSUME BackendsAssumption == Backends \subseteq {"local", "s3"}
ASSUME SizeAssumption == Size \in Nat \ {0} /\ MetaSize \in Nat
ASSUME LimitAssumption == Limit \in Nat \ {0}
ASSUME DaysAssumption == Days \in Nat
ASSUME BoundsAssumption == {MaxClock, MaxSweeps, MaxRemoved, MaxFaults} \subseteq Nat
ASSUME NoneAssumption == Absent \notin Int /\ Nil \notin Uploads

VARIABLES
    backend,  \* the configured backend
    meta,     \* modification time of each sidecar, or Absent
    payload,  \* modification time of each payload, or Absent
    dirs,     \* uploads whose token directory exists (local)
    pc, on,   \* where each request is, and the upload it is about
    used,     \* storageQuota.used
    seen,     \* what the request in sub() loaded
    phase,    \* of the purge goroutine
    cutoff,   \* the sweep deletes what is older
    todo,     \* token directories (or pages) the current walk has to visit
    open,     \* files of the directory (or page) being visited
    total,    \* what Usage added up so far
    clock, sweeps, faults

\* What happened, for the properties.
VARIABLES
    since,     \* when each upload's sidecar was first written, until somebody
               \* begins to remove the upload
    added,     \* uploads that quota.add counted
    given,     \* how often quota.sub gave each upload back
    base,      \* the counter, and uploads in flight, at the last measurement
    measured   \* the counter was set from a measurement

backendVars == <<meta, payload, dirs>>
requestVars == <<pc, on>>
quotaVars == <<used, seen>>
sweepVars == <<phase, cutoff, todo, open, total>>
bounds == <<sweeps, faults>>
history == <<since, added, given, base, measured>>
vars == <<backend, meta, payload, dirs, pc, on, used, seen,
          phase, cutoff, todo, open, total, clock, sweeps, faults,
          since, added, given, base, measured>>

\* An upload: past checkStorageQuota; the directory made for the sidecar;
\* sidecar stored; the directory made for the payload; payload stored; the
\* payload failed.  A removal: before either
\* object, before the payload, before sub()'s Load and before its swap.
Place == {"idle", "admitted", "mkdirMeta", "described",
          "mkdirPayload", "stored", "rollback",
          "removeMeta", "removePayload", "load", "swap"}

\* The purge goroutine: waiting for its ticker, deleting, removing empty
\* directories, adding up, about to store the sum.
Phase == {"waiting", "purge", "prune", "usage", "store"}

Time == 0..MaxClock

TypeOK ==
    /\ backend \in Backends
    /\ meta \in [Uploads -> Time \cup {Absent}]
    /\ payload \in [Uploads -> Time \cup {Absent}]
    /\ dirs \subseteq Uploads
    /\ pc \in [Requests -> Place]
    /\ on \in [Requests -> Uploads \cup {Nil}]
    /\ used \in Nat /\ seen \in [Requests -> Nat]
    /\ phase \in Phase /\ cutoff \in Int
    /\ todo \subseteq Uploads
    /\ open \subseteq Uploads \X {"meta", "payload"}
    /\ total \in Nat
    /\ clock \in Time /\ sweeps \in Nat /\ faults \in Nat
    /\ since \in [Uploads -> Time \cup {Absent}]
    /\ added \subseteq Uploads /\ given \in [Uploads -> Nat]
    /\ base \in Nat /\ measured \in BOOLEAN

Init ==
    /\ backend \in Backends
    /\ meta = [u \in Uploads |-> Absent] /\ payload = [u \in Uploads |-> Absent]
    /\ dirs = {}
    /\ pc = [r \in Requests |-> "idle"] /\ on = [r \in Requests |-> Nil]
    /\ used = 0 /\ seen = [r \in Requests |-> 0]
    /\ phase = "waiting" /\ cutoff = 0 /\ todo = {} /\ open = {} /\ total = 0
    /\ clock = 0 /\ sweeps = 0 /\ faults = 0
    /\ since = [u \in Uploads |-> Absent]
    /\ added = {} /\ given = [u \in Uploads |-> 0]
    /\ base = 0 /\ measured = FALSE

Local == backend = "local"

\* A call fails; the bound keeps the number of failures finite.
Fault == faults < MaxFaults /\ faults' = faults + 1

Stored(u) == payload[u] # Absent
Files(u) == {f \in {<<u, "meta">>, <<u, "payload">>} :
                IF f[2] = "meta" THEN meta[u] # Absent ELSE Stored(u)}
MTime(f) == IF f[2] = "meta" THEN meta[f[1]] ELSE payload[f[1]]
Bytes(files) == Cardinality({f \in files : f[2] = "meta"}) * MetaSize
                + Cardinality({f \in files : f[2] = "payload"}) * Size
Everything == UNION {Files(u) : u \in Uploads}

\* Uploads between checkStorageQuota and quota.add.
InFlight == {r \in Requests : pc[r] \in {"admitted", "mkdirMeta", "described",
                                         "mkdirPayload", "stored"}}

Goto(r, place) == pc' = [pc EXCEPT ![r] = place]

Finish(r) ==
    /\ Goto(r, "idle")
    /\ on' = [on EXCEPT ![r] = Nil]

-------------------------------------------------------------------------------
(***************************************************************************)
(* Uploads: putHandler, and storeMultipartFile for each part of a POST.    *)
(***************************************************************************)

\* Nobody has used the upload's name, or nothing is left of who did.
Fresh(u) ==
    /\ u \notin added \cup dirs /\ Files(u) = {}
    /\ \A r \in Requests : on[r] # u
    /\ \A f \in open : f[1] # u

\* storageQuota.allows.  Mutant: the new upload is not part of the sum.
AllowedSoFar == used <= Limit
Allowed == used + Size <= Limit

\* checkStorageQuota lets the upload pass.
Admit(r, u) ==
    /\ pc[r] = "idle" /\ Fresh(u)
    /\ Allowed /\ Goto(r, "admitted") /\ on' = [on EXCEPT ![r] = u]
    /\ UNCHANGED <<backend, backendVars, quotaVars, sweepVars, clock, bounds,
                   history>>

\* LocalStorage.Put makes the token directory before it opens the file.
MakeDir(r) ==
    /\ Local
    /\ \/ pc[r] = "admitted" /\ Goto(r, "mkdirMeta")
       \/ pc[r] = "described" /\ Goto(r, "mkdirPayload")
    /\ dirs' = dirs \cup {on[r]}
    /\ UNCHANGED <<backend, meta, payload, on, quotaVars, sweepVars, clock,
                   bounds, history>>

\* The sidecar.  The open fails when the sweep took the directory away; a
\* failed sidecar ends the upload without a rollback.
PutMetadata(r) ==
    LET u == on[r] IN
    /\ pc[r] = IF Local THEN "mkdirMeta" ELSE "admitted"
    /\ \/ /\ Local => u \in dirs
          /\ meta' = [meta EXCEPT ![u] = clock]
          /\ since' = [since EXCEPT ![u] = clock]
          /\ Goto(r, "described")
          /\ UNCHANGED <<on, faults>>
       \/ /\ Local /\ u \notin dirs
          /\ Finish(r) /\ UNCHANGED <<meta, since, faults>>
       \/ Fault /\ Finish(r) /\ UNCHANGED <<meta, since>>
    /\ UNCHANGED <<backend, payload, dirs, quotaVars, sweepVars, clock, sweeps,
                   added, given, base, measured>>

PutPayload(r) ==
    LET u == on[r] IN
    /\ pc[r] = IF Local THEN "mkdirPayload" ELSE "described"
    /\ \/ /\ Local => u \in dirs
          /\ payload' = [payload EXCEPT ![u] = clock]
          /\ Goto(r, "stored") /\ UNCHANGED faults
       \/ /\ Local /\ u \notin dirs
          /\ Goto(r, "rollback") /\ UNCHANGED <<payload, faults>>
       \/ Fault /\ Goto(r, "rollback") /\ UNCHANGED payload
    /\ UNCHANGED <<backend, meta, dirs, on, quotaVars, sweepVars, clock, sweeps,
                   history>>

\* store() deletes what it wrote.
Rollback(r) ==
    /\ pc[r] = "rollback"
    /\ meta' = [meta EXCEPT ![on[r]] = Absent]
    /\ since' = [since EXCEPT ![on[r]] = Absent]
    /\ Finish(r)
    /\ UNCHANGED <<backend, payload, dirs, quotaVars, sweepVars, clock, bounds,
                   added, given, base, measured>>

\* storageQuota.add is an atomic addition.
Add(r) ==
    /\ pc[r] = "stored"
    /\ used' = used + Size
    /\ added' = added \cup {on[r]}
    /\ Finish(r)
    /\ UNCHANGED <<backend, backendVars, seen, sweepVars, clock, bounds, since,
                   given, base, measured>>

-------------------------------------------------------------------------------
(***************************************************************************)
(* Downloads that rewrite the sidecar, and removals: deleteHandler,        *)
(* purgeExpired, and sub().                                                *)
(***************************************************************************)
CountDownload(u) ==
    /\ u \in added /\ meta[u] \notin {Absent, clock}
    /\ meta' = [meta EXCEPT ![u] = clock]
    /\ UNCHANGED <<backend, payload, dirs, requestVars, quotaVars, sweepVars,
                   clock, bounds, history>>

\* The sidecar still decodes, and the caller may remove the upload.
BeginRemove(r, u) ==
    /\ pc[r] = "idle" /\ u \in added /\ meta[u] # Absent
    /\ Cardinality({v \in added : since[v] = Absent} \cup {u}) <= MaxRemoved
    /\ Goto(r, "removeMeta") /\ on' = [on EXCEPT ![r] = u]
    /\ since' = [since EXCEPT ![u] = Absent]
    /\ UNCHANGED <<backend, backendVars, quotaVars, sweepVars, clock, bounds,
                   added, given, base, measured>>

\* Only S3 reports a failure here.
RemoveMetadata(r) ==
    /\ pc[r] = "removeMeta"
    /\ \/ /\ meta' = [meta EXCEPT ![on[r]] = Absent]
          /\ Goto(r, "removePayload") /\ UNCHANGED <<on, faults>>
       \/ /\ Fault /\ UNCHANGED meta
          /\ IF Local THEN Goto(r, "removePayload") /\ UNCHANGED on
                      ELSE Finish(r)
    /\ UNCHANGED <<backend, payload, dirs, quotaVars, sweepVars, clock, sweeps,
                   history>>

\* A payload that is already gone: purgeExpired carries on whatever the
\* backend, deleteHandler only on S3, where the call succeeds.
RemovePayload(r) ==
    /\ pc[r] = "removePayload"
    /\ \/ /\ payload' = [payload EXCEPT ![on[r]] = Absent]
          /\ Goto(r, "load") /\ UNCHANGED <<on, faults>>
       \/ /\ Local /\ ~Stored(on[r])
          /\ Finish(r) /\ UNCHANGED <<payload, faults>>
       \/ Fault /\ Finish(r) /\ UNCHANGED payload
    /\ UNCHANGED <<backend, meta, dirs, quotaVars, sweepVars, clock, sweeps,
                   history>>

\* sub(): Load, then CompareAndSwap until nobody came in between.
Load(r) ==
    /\ pc[r] = "load"
    /\ seen' = [seen EXCEPT ![r] = used] /\ Goto(r, "swap")
    /\ UNCHANGED <<backend, backendVars, on, used, sweepVars, clock, bounds,
                   history>>

\* Mutant: the difference is stored whatever happened since the Load.
Swaps(r) == TRUE
CompareAndSwap(r) == used = seen[r]

\* Never below zero, which a measurement may have come close to.  Mutant: not
\* looked at.
GivenBackUnchecked(current) == current - Size
GivenBack(current) == IF current < Size THEN 0 ELSE current - Size

Sub(r) ==
    /\ pc[r] = "swap"
    /\ IF CompareAndSwap(r)
       THEN /\ used' = GivenBack(seen[r])
            /\ given' = [given EXCEPT ![on[r]] = @ + 1]
            /\ Finish(r)
       ELSE Goto(r, "load") /\ UNCHANGED <<used, given, on>>
    /\ seen' = [seen EXCEPT ![r] = 0]
    /\ UNCHANGED <<backend, backendVars, sweepVars, clock, bounds, since, added,
                   base, measured>>

-------------------------------------------------------------------------------
(***************************************************************************)
(* The purge goroutine: Purge, then reseedStorageQuota if it succeeded.    *)
(***************************************************************************)
sweepUnchanged == UNCHANGED <<backend, requestVars, seen, clock,
                              since, added, given>>

\* Begin a walk: the names of the token directories are read once.
Walk(next) ==
    /\ phase' = next
    /\ todo' = IF Local THEN dirs ELSE {u \in Uploads : Files(u) # {}}
    /\ open' = {}

\* The sweep ends; its error, if any, is only logged.
EndSweep ==
    /\ phase' = "waiting" /\ cutoff' = 0 /\ todo' = {} /\ open' = {} /\ total' = 0

StartSweep ==
    /\ phase = "waiting" /\ sweeps < MaxSweeps
    /\ Walk("purge")
    /\ cutoff' = clock - Days
    /\ sweeps' = sweeps + 1
    /\ UNCHANGED <<backendVars, used, total, faults, base, measured>>
    /\ sweepUnchanged

Old(f) == MTime(f) < cutoff

\* The names in the next directory; on S3 the next page, from which only what
\* is older than the cutoff is kept.
EnterPurge(u) ==
    /\ phase = "purge" /\ open = {} /\ u \in todo
    /\ todo' = todo \ {u}
    /\ open' = IF Local THEN Files(u) ELSE {f \in Files(u) : Old(f)}
    /\ UNCHANGED <<backendVars, phase, cutoff, total, used, sweeps, faults,
                   base, measured>>
    /\ sweepUnchanged

Erase(files) ==
    /\ meta' = [u \in Uploads |-> IF <<u, "meta">> \in files THEN Absent ELSE meta[u]]
    /\ payload' = [u \in Uploads |-> IF <<u, "payload">> \in files
                                     THEN Absent ELSE payload[u]]

\* The callback of filepath.Walk: a file that is gone by now, or cannot be
\* removed, ends the sweep.  Mutant: the walk carries on.
PurgeFilePatiently(f) ==
    /\ Local /\ phase = "purge" /\ f \in open
    /\ open' = open \ {f}
    /\ \/ /\ IF f \in Files(f[1]) /\ Old(f) THEN Erase({f})
                                        ELSE UNCHANGED <<meta, payload>>
          /\ UNCHANGED faults
       \/ Fault /\ UNCHANGED <<meta, payload>>
    /\ UNCHANGED <<dirs, phase, cutoff, todo, total, used, sweeps, base,
                   measured>>
    /\ sweepUnchanged

PurgeFile(f) ==
    /\ Local /\ phase = "purge" /\ f \in open
    /\ \/ /\ f \in Files(f[1]) /\ open' = open \ {f}
          /\ IF Old(f) THEN Erase({f}) ELSE UNCHANGED <<meta, payload>>
          /\ UNCHANGED <<phase, cutoff, todo, total, faults>>
       \/ f \notin Files(f[1]) /\ EndSweep /\ UNCHANGED <<meta, payload, faults>>
       \/ Fault /\ EndSweep /\ UNCHANGED <<meta, payload>>
    /\ UNCHANGED <<dirs, used, sweeps, base, measured>>
    /\ sweepUnchanged

\* DeleteObjects: a key that fails is logged and left for the next sweep, a
\* request that fails ends the sweep.
PurgePage ==
    /\ ~Local /\ phase = "purge" /\ open # {}
    /\ \/ /\ \/ Erase(open) /\ UNCHANGED faults
             \/ Fault /\ \E f \in open : Erase(open \ {f})
          /\ open' = {} /\ UNCHANGED <<phase, cutoff, todo, total>>
       \/ Fault /\ EndSweep /\ UNCHANGED <<meta, payload>>
    /\ UNCHANGED <<dirs, used, sweeps, base, measured>>
    /\ sweepUnchanged

Seen == phase = "purge" /\ todo = {} /\ open = {}

\* removeEmptyTokenDirs.
StartPrune ==
    /\ Local /\ Seen
    /\ Walk("prune")
    /\ UNCHANGED <<backendVars, cutoff, total, used, sweeps, faults, base,
                   measured>>
    /\ sweepUnchanged

\* os.Remove refuses a directory that has files.  Mutant: os.RemoveAll, on a
\* directory read before.
Sparse(u) == meta[u] = Absent \/ ~Stored(u)
Empty(u) == Files(u) = {}

RemoveEmptyDir(u) ==
    /\ phase = "prune" /\ u \in todo
    /\ todo' = todo \ {u}
    /\ IF Empty(u) THEN dirs' = dirs \ {u} /\ Erase(Files(u))
                   ELSE UNCHANGED backendVars
    /\ UNCHANGED <<phase, cutoff, open, total, used, sweeps, faults, base,
                   measured>>
    /\ sweepUnchanged

\* reseedStorageQuota calls Usage.
StartUsage ==
    /\ \/ Local /\ phase = "prune" /\ todo = {}
       \/ ~Local /\ Seen
    /\ Walk("usage")
    /\ total' = 0
    /\ UNCHANGED <<backendVars, cutoff, used, sweeps, faults, base, measured>>
    /\ sweepUnchanged

\* The next directory, file by file; the next page, at once.
EnterUsage(u) ==
    /\ phase = "usage" /\ open = {} /\ u \in todo
    /\ todo' = todo \ {u}
    /\ IF Local THEN open' = Files(u) /\ UNCHANGED total
                ELSE total' = total + Bytes(Files(u)) /\ UNCHANGED open
    /\ UNCHANGED <<backendVars, phase, cutoff, used, sweeps, faults, base,
                   measured>>
    /\ sweepUnchanged

\* A file that is gone by now ends the walk with ENOENT, which Usage takes for
\* a missing base directory: what was added up so far is the answer.
AddFile(f) ==
    /\ phase = "usage" /\ f \in open
    /\ IF f \in Files(f[1])
       THEN /\ total' = total + Bytes({f}) /\ open' = open \ {f}
            /\ UNCHANGED <<phase, todo>>
       ELSE phase' = "store" /\ todo' = {} /\ open' = {} /\ UNCHANGED total
    /\ UNCHANGED <<backendVars, cutoff, used, sweeps, faults, base,
                   measured>>
    /\ sweepUnchanged

EndUsage ==
    /\ phase = "usage" /\ todo = {} /\ open = {}
    /\ phase' = "store"
    /\ UNCHANGED <<backendVars, cutoff, todo, open, total, used, sweeps, faults,
                   base, measured>>
    /\ sweepUnchanged

\* A page cannot be listed, or a directory cannot be read: no new seed.
AbandonSweep ==
    /\ phase \in {"purge", "prune", "usage"} /\ Fault
    /\ EndSweep
    /\ UNCHANGED <<backendVars, used, sweeps, base, measured>>
    /\ sweepUnchanged

Reseed ==
    /\ phase = "store"
    /\ used' = total /\ EndSweep
    /\ base' = total + Size * Cardinality(InFlight) /\ measured' = TRUE
    /\ UNCHANGED <<backendVars, sweeps, faults>>
    /\ sweepUnchanged

-------------------------------------------------------------------------------
Tick ==
    /\ clock < MaxClock /\ clock' = clock + 1
    /\ UNCHANGED <<backend, backendVars, requestVars, quotaVars, sweepVars,
                   bounds, history>>

\* Requests, the sweep and the counter are memory.
\* initStorageQuota measures before anything is served.
Crash ==
    /\ Fault
    /\ pc' = [r \in Requests |-> "idle"] /\ on' = [r \in Requests |-> Nil]
    /\ since' = [u \in Uploads |-> IF u \in added THEN since[u] ELSE Absent]
    /\ used' = Bytes(Everything) /\ base' = Bytes(Everything) /\ measured' = TRUE
    /\ seen' = [r \in Requests |-> 0]
    /\ EndSweep
    /\ UNCHANGED <<backend, backendVars, clock, sweeps, added, given>>

Upload(r) ==
    \/ \E u \in Uploads : Admit(r, u)
    \/ MakeDir(r)
    \/ PutMetadata(r) \/ PutPayload(r) \/ Rollback(r) \/ Add(r)

Remove(r) ==
    \/ \E u \in Uploads : BeginRemove(r, u)
    \/ RemoveMetadata(r) \/ RemovePayload(r) \/ Load(r) \/ Sub(r)

Sweep ==
    \/ StartSweep \/ PurgePage \/ StartPrune \/ StartUsage \/ EndUsage
    \/ AbandonSweep \/ Reseed
    \/ \E u \in Uploads : EnterPurge(u) \/ RemoveEmptyDir(u) \/ EnterUsage(u)
    \/ \E f \in open : PurgeFile(f) \/ AddFile(f)

Next ==
    \/ \E r \in Requests : Upload(r) \/ Remove(r)
    \/ \E u \in Uploads : CountDownload(u)
    \/ Sweep \/ Tick \/ Crash

Spec == Init /\ [][Next]_vars

-------------------------------------------------------------------------------
(***************************************************************************)
(* Safety.                                                                 *)
(***************************************************************************)
Larger(a, b) == IF a < b THEN b ELSE a

\* Check and add are apart (quota.go:50-61), so uploads that overlap may all
\* pass: the counter, with what is in flight, exceeds --max-storage-size (or
\* what was measured last) by no more than one upload per request but one.
OvershootBounded ==
    used + Size * Cardinality(InFlight)
        <= Larger(Limit + Size * (Cardinality(Requests) - 1), base)

\* add() and the compare-and-swap loop of sub() lose no update: until the
\* counter is measured anew it is what was added less what was given back,
\* provided no upload was given back twice (a repeated DELETE on S3 does that).
NoLostAdjustment ==
    (~measured /\ \A u \in Uploads : given[u] <= 1) =>
        used = Size * (Cardinality(added) - Cardinality({u \in Uploads : given[u] = 1}))

\* The sweep, its directory pruning included, leaves an acknowledged upload
\* alone that is not older than purgeDays and that nobody removed.
SweepSparesYoung ==
    \A u \in added :
        since[u] # Absent /\ clock - since[u] <= Days => meta[u] # Absent /\ Stored(u)

\* When a sweep of the local backend gets as far as measuring, no payload older
\* than its cutoff is left: a sweep that met an error stops before.
SweptClean ==
    Local /\ phase \in {"prune", "usage", "store"} =>
        \A u \in Uploads : Stored(u) => payload[u] >= cutoff
===============================================================================
