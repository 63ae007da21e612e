---------------------------- MODULE UploadLifecycle ----------------------------
(***************************************************************************)
(* The life of stored uploads: the PUT that creates one, the downloads     *)
(* that spend its Max-Downloads budget, its expiry, its deletion, and a    *)
(* crash of the server at any point of these.                              *)
(*                                                                         *)
(* An upload is two storage objects, the metadata sidecar and the payload, *)
(* with no transaction over them.  A handler is a sequence of steps, one   *)
(* per call to the storage backend or to the quota counter; the upload's   *)
(* lock (module FileLock, used here through the abstract Mutex) covers     *)
(* some of those steps and not others.                                     *)
(*                                                                         *)
(* Abstractions: every payload is one unit of storage and every sidecar    *)
(* SidecarSize units; of the sidecar's fields only Downloads changes, so   *)
(* meta holds that number; MaxDownloads is a constant of the upload; the   *)
(* deletion token and the decryption of a payload are always right.  A     *)
(* handler that answers 404 or 500 without having changed anything is no   *)
(* step.                                                                   *)
(***************************************************************************)
EXTENDS Integers, FiniteSets

CONSTANTS
    Uploads,       \* (token, filename) pairs; tokens are random, never reused
    Requests,      \* request goroutines on the download and delete routes
    Archives,      \* those that serve entries of an archive (zip, tar, tar.gz)
    MaxDownloads,  \* metadata.MaxDownloads of each upload, -1 for no budget
    SidecarSize,   \* size of a sidecar, in payloads
    Limit,         \* storageQuota.limit, in payloads
    Local,         \* the backend: local directory (TRUE) or S3 (FALSE)
    Expires,       \* uploads with a Max-Days limit
    Deletable,     \* uploads whose owner may send DELETE
    MaxFaults,     \* bound: storage calls that fail in a behaviour
    MaxCrashes,    \* bound: crashes of the server in a behaviour
    MaxHangUps,    \* bound: counts of an upload cut off by a client that leaves
    Absent, Torn,  \* no object; an object cut off by a crash or a failed write
    Nil            \* nobody, nothing

ASSUME FiniteAssumption == IsFiniteSet(Requests) /\ IsFiniteSet(Uploads)
ASSUME BudgetAssumption == MaxDownloads \in [Uploads -> {-1} \cup (Nat \ {0})]
ASSUME BackendAssumption == Local \in BOOLEAN
ASSUME QuotaAssumption == Limit \in Nat /\ SidecarSize \in Nat
ASSUME SetAssumption ==
    Expires \subseteq Uploads /\ Deletable \subseteq Uploads /\ Archives \subseteq Requests
ASSUME BoundAssumption == MaxFaults \in Nat /\ MaxCrashes \in Nat /\ MaxHangUps \in Nat
ASSUME NilAssumption == Nil \notin Requests /\ Nil \notin Uploads
ASSUME AbsentAssumption == {Absent, Torn} \cap Int = {} /\ Absent # Torn

VARIABLES
    meta,     \* sidecar of each upload: Absent, Torn, or its Downloads field
    payload,  \* payload of each upload: "absent", "torn" or "stored"
    put,      \* where the PUT of each upload is
    pc,       \* where each request is
    on,       \* the upload each request is about, Nil when idle
    copy,     \* Downloads as decoded into the request's local metadata
    lock,     \* the request inside the upload's lock, Nil if none
    expired,  \* the upload's MaxDate has passed
    used,     \* storageQuota.used
    faults, crashes  \* bounds

\* What happened, for the properties.
VARIABLES
    served,     \* completed transfers of each upload that count
    recorded,   \* sidecar writes that recorded one
    missed,     \* archive entries served, but not counted as the client had left
    condemned,  \* uploads somebody asked to delete
    deleted,    \* uploads somebody was told are deleted
    doubled,    \* since the counter was seeded, removals that found no payload
                \* and gave its bytes back all the same
    measured    \* units of sidecar in what the counter was seeded with

history == <<served, recorded, missed, condemned, deleted, doubled>>
vars == <<meta, payload, put, pc, on, copy, lock, expired, used, faults, crashes,
          served, recorded, missed, condemned, deleted, doubled, measured>>

\* States of a PUT: before it; past checkStorageQuota; sidecar written; payload
\* written; the payload write failed and the sidecar (then the payload) is to
\* be rolled back; answered with the link; answered with an error or cut off.
PutPlace == {"new", "admitted", "described", "stored", "rollback", "rollbackPayload",
             "done", "failed"}

\* States of a request: none; past checkMetadata; writing the body; about to
\* count the transfer; inside increaseDownload with the decoded metadata;
\* inside storage.Delete before the sidecar, before the payload, and after it.
Place == {"idle", "checked", "sending", "counting", "recording",
          "removeMeta", "removePayload", "account"}

TypeOK ==
    /\ meta \in [Uploads -> {Absent, Torn} \cup Nat]
    /\ payload \in [Uploads -> {"absent", "torn", "stored"}]
    /\ put \in [Uploads -> PutPlace]
    /\ pc \in [Requests -> Place]
    /\ on \in [Requests -> Uploads \cup {Nil}]
    /\ copy \in [Requests -> Nat]
    /\ lock \in [Uploads -> Requests \cup {Nil}]
    /\ expired \in [Uploads -> BOOLEAN]
    /\ used \in Nat
    /\ faults \in 0..MaxFaults
    /\ crashes \in 0..MaxCrashes
    /\ served \in [Uploads -> Nat]
    /\ recorded \in [Uploads -> Nat]
    /\ missed \in [Uploads -> Nat]
    /\ condemned \subseteq Uploads
    /\ deleted \subseteq Uploads
    /\ doubled \in Nat
    /\ measured \in Nat

Init ==
    /\ meta = [u \in Uploads |-> Absent]
    /\ payload = [u \in Uploads |-> "absent"]
    /\ put = [u \in Uploads |-> "new"]
    /\ pc = [r \in Requests |-> "idle"]
    /\ on = [r \in Requests |-> Nil]
    /\ copy = [r \in Requests |-> 0]
    /\ lock = [u \in Uploads |-> Nil]
    /\ expired = [u \in Uploads |-> FALSE]
    /\ used = 0
    /\ faults = 0
    /\ crashes = 0
    /\ served = [u \in Uploads |-> 0]
    /\ recorded = [u \in Uploads |-> 0]
    /\ missed = [u \in Uploads |-> 0]
    /\ condemned = {}
    /\ deleted = {}
    /\ doubled = 0
    /\ measured = 0

\* s.lock(token, filename) would return at once.  Mutant: no lock is taken.
NotLocked(u) == TRUE
LockFree(u) == lock[u] = Nil

Limited(u) == MaxDownloads[u] # -1
Readable(u) == meta[u] \in Nat
Spent(u) == Limited(u) /\ meta[u] >= MaxDownloads[u]

\* storage.Usage: what a walk of the backend may add up to.  It counts every
\* object, the sidecars too; a torn one is anything between empty and whole.
Payloads == {u \in Uploads : payload[u] # "absent"}
SidecarUnits == SidecarSize * Cardinality({u \in Uploads : meta[u] # Absent})
Whole == Cardinality({u \in Uploads : payload[u] = "stored"})
            + SidecarSize * Cardinality({u \in Uploads : Readable(u)})
Usage == Whole..(Cardinality(Payloads) + SidecarUnits)

\* A storage call fails; the bound keeps the number of failures finite.  The
\* reason may be the client, who has left: S3 looks at the request's context, the
\* local backend does not.  On S3 a failing call ends the request, so that one
\* that fails every call from here on fails one.
Fault == faults < MaxFaults /\ faults' = faults + 1
NoFault == UNCHANGED faults

\* A failed or interrupted Put leaves a truncated file on the local backend,
\* which opens with O_TRUNC; an S3 object is replaced whole or not at all.
Cut(old) == IF Local THEN Torn ELSE old

-------------------------------------------------------------------------------
(***************************************************************************)
(* PUT: putHandler from checkStorageQuota on, and store().                 *)
(***************************************************************************)
putUnchanged == UNCHANGED <<pc, on, copy, lock, expired, crashes, history, measured>>

\* checkStorageQuota lets the upload pass.
Admit(u) ==
    /\ put[u] = "new"
    /\ used + 1 <= Limit
    /\ put' = [put EXCEPT ![u] = "admitted"]
    /\ UNCHANGED <<meta, payload, used, faults>> /\ putUnchanged

\* The sidecar goes first.  Its failure returns without a rollback.
PutMetadata(u) ==
    /\ put[u] = "admitted"
    /\ \/ /\ NoFault
          /\ meta' = [meta EXCEPT ![u] = 0]
          /\ put' = [put EXCEPT ![u] = "described"]
       \/ /\ Fault
          /\ meta' = [meta EXCEPT ![u] = Cut(@)]
          /\ put' = [put EXCEPT ![u] = "failed"]
    /\ UNCHANGED <<payload, used>> /\ putUnchanged

\* The payload: client gone, disk full or backend down are all a failed Put.
PutPayload(u) ==
    /\ put[u] = "described"
    /\ \/ /\ NoFault
          /\ payload' = [payload EXCEPT ![u] = "stored"]
          /\ put' = [put EXCEPT ![u] = "stored"]
       \/ /\ Fault
          /\ payload' = [payload EXCEPT ![u] = IF Local THEN "torn" ELSE @]
          /\ put' = [put EXCEPT ![u] = "rollback"]
    /\ UNCHANGED <<meta, used>> /\ putUnchanged

\* The rollback's storage.Delete, first object.  The local backend ignores a
\* failure here; S3 gives up (a request context that is already cancelled,
\* which is often why the Put failed, fails both calls).
RollbackMetadata(u) ==
    /\ put[u] = "rollback"
    /\ \/ /\ NoFault
          /\ meta' = [meta EXCEPT ![u] = Absent]
          /\ put' = [put EXCEPT ![u] = "rollbackPayload"]
       \/ /\ Fault
          /\ put' = [put EXCEPT ![u] = IF Local THEN "rollbackPayload" ELSE "failed"]
          /\ UNCHANGED meta
    /\ UNCHANGED <<payload, used>> /\ putUnchanged

\* Mutant: only the sidecar is rolled back.
RollbackLeavesPayload(u) ==
    /\ put[u] = "rollbackPayload"
    /\ put' = [put EXCEPT ![u] = "failed"]
    /\ UNCHANGED <<meta, payload, used, faults>> /\ putUnchanged

RollbackPayload(u) ==
    /\ put[u] = "rollbackPayload"
    /\ put' = [put EXCEPT ![u] = "failed"]
    /\ \/ /\ NoFault
          /\ payload' = [payload EXCEPT ![u] = "absent"]
       \/ Fault /\ UNCHANGED payload
    /\ UNCHANGED <<meta, used>> /\ putUnchanged

\* quota.add, and the answer that tells the client the token.
Publish(u) ==
    /\ put[u] = "stored"
    /\ used' = used + 1
    /\ put' = [put EXCEPT ![u] = "done"]
    /\ UNCHANGED <<meta, payload, faults>> /\ putUnchanged

-------------------------------------------------------------------------------
(***************************************************************************)
(* Downloads: getHandler, and each entry of an archive.                    *)
(***************************************************************************)
reqUnchanged == UNCHANGED <<put, expired, crashes, measured>>

Goto(r, place) == pc' = [pc EXCEPT ![r] = place]

\* The request ends; its locals are gone.
Finish(r) ==
    /\ Goto(r, "idle")
    /\ on' = [on EXCEPT ![r] = Nil]
    /\ copy' = [copy EXCEPT ![r] = 0]

\* readMetadata refuses an upload that ran out of downloads or days.
Overdue(u) == Spent(u) \/ expired[u]

\* readMetadata finds the upload spent or past its date and calls purgeExpired
\* with the lock held.
BeginPurge(r, u) ==
    /\ lock' = [lock EXCEPT ![u] = r]
    /\ Goto(r, "removeMeta")

\* checkMetadata: unless the upload has to be purged nothing happens between
\* the read and the unlock, so the lock is only seen to be free.
CheckMetadata(r, u) ==
    /\ pc[r] = "idle" /\ put[u] = "done"
    /\ LockFree(u) /\ Readable(u)
    /\ on' = [on EXCEPT ![r] = u]
    /\ \/ Overdue(u) /\ BeginPurge(r, u)
       \/ ~Overdue(u) /\ Goto(r, "checked") /\ UNCHANGED lock
    /\ UNCHANGED <<meta, payload, copy, used, faults, history>> /\ reqUnchanged

\* storage.Get of the payload; the open file (or the S3 stream) stays readable
\* whatever happens to the object afterwards.
OpenPayload(r) ==
    /\ pc[r] = "checked"
    /\ payload[on[r]] # "absent"
    /\ Goto(r, "sending")
    /\ UNCHANGED <<meta, payload, on, copy, lock, used, faults, history>> /\ reqUnchanged

\* io.Copy has written the whole body of a transfer that counts.  Without a
\* budget there is nothing to record and the request ends here.
Sent(r) ==
    /\ pc[r] = "sending"
    /\ IF Limited(on[r])
       THEN /\ Goto(r, "counting")
            /\ served' = [served EXCEPT ![on[r]] = @ + 1]
            /\ UNCHANGED <<on, copy>>
       ELSE Finish(r) /\ UNCHANGED served
    /\ UNCHANGED <<meta, payload, lock, used, faults, recorded, missed, condemned,
                   deleted, doubled>>
    /\ reqUnchanged

\* HEAD and preview requests end after the check; a vanished payload answers
\* 404; a broken transfer, or one whose range starts past zero, is not counted.
EndUncounted(r) ==
    /\ pc[r] \in {"checked", "sending"}
    /\ Finish(r)
    /\ UNCHANGED <<meta, payload, lock, used, faults, history>> /\ reqUnchanged

\* readMetadata inside increaseDownload finds nothing it can decode.  Mutant: it
\* also fails when the client of a plain download has left, whose count is made
\* with context.WithoutCancel.
CountMayFail(u) == TRUE
CountFails(u) == ~Readable(u)

\* An archive counts its entries with the request's own context: a client that
\* leaves once the entry is served makes the next call of the count fail.
HangUp(r) ==
    /\ r \in Archives /\ ~Local
    /\ missed[on[r]] < MaxHangUps
    /\ missed' = [missed EXCEPT ![on[r]] = @ + 1]
    /\ NoFault

\* increaseDownload, up to the decoded metadata.  An upload that is gone or
\* unreadable by now is not counted; a spent or expired one is purged.
ReadForCount(r) ==
    /\ pc[r] = "counting" /\ LockFree(on[r])
    /\ \/ /\ CountFails(on[r]) /\ NoFault
          /\ Finish(r) /\ UNCHANGED <<lock, missed>>
       \/ /\ Fault
          /\ Finish(r) /\ UNCHANGED <<lock, missed>>
       \/ /\ HangUp(r)
          /\ Finish(r) /\ UNCHANGED lock
       \/ /\ Readable(on[r]) /\ Overdue(on[r]) /\ NoFault
          /\ BeginPurge(r, on[r]) /\ UNCHANGED <<on, copy, missed>>
       \/ /\ Readable(on[r]) /\ ~Overdue(on[r]) /\ NoFault
          /\ lock' = [lock EXCEPT ![on[r]] = r]
          /\ copy' = [copy EXCEPT ![r] = meta[on[r]]]
          /\ Goto(r, "recording") /\ UNCHANGED <<on, missed>>
    /\ UNCHANGED <<meta, payload, used, served, recorded, condemned, deleted, doubled>>
    /\ reqUnchanged

\* Mutant: the unlock is forgotten.
KeepLocked(r) == UNCHANGED lock
Unlock(r) == lock' = [u \in Uploads |-> IF lock[u] = r THEN Nil ELSE lock[u]]

\* The download being recorded is the last one.  Mutants: one download later,
\* one earlier.
AfterLastDownload(r) == copy[r] >= MaxDownloads[on[r]]
BeforeLastDownload(r) == copy[r] + 2 >= MaxDownloads[on[r]]
LastDownload(r) == copy[r] + 1 >= MaxDownloads[on[r]]

\* increaseDownload writes Downloads + 1 back and purges on the last one.
RecordDownload(r) ==
    LET u == on[r] IN
    /\ pc[r] = "recording"
    /\ \/ /\ NoFault
          /\ meta' = [meta EXCEPT ![u] = copy[r] + 1]
          /\ recorded' = [recorded EXCEPT ![u] = @ + 1]
          /\ IF LastDownload(r)
             THEN Goto(r, "removeMeta") /\ UNCHANGED <<on, copy, lock>>
             ELSE Finish(r) /\ Unlock(r)
          /\ UNCHANGED missed
       \/ /\ Fault
          /\ meta' = [meta EXCEPT ![u] = Cut(@)]
          /\ Finish(r) /\ Unlock(r)
          /\ UNCHANGED <<recorded, missed>>
       \/ /\ HangUp(r)
          /\ Finish(r) /\ Unlock(r)
          /\ UNCHANGED <<meta, recorded>>
    /\ UNCHANGED <<payload, used, served, condemned, deleted, doubled>> /\ reqUnchanged

-------------------------------------------------------------------------------
(***************************************************************************)
(* Removal: deleteHandler, and purgeExpired with the lock held.            *)
(***************************************************************************)

\* checkDeletionToken reads under the lock; what follows runs without it.
CheckDeletionToken(r, u) ==
    /\ pc[r] = "idle" /\ put[u] = "done" /\ u \in Deletable
    /\ LockFree(u) /\ Readable(u)
    /\ on' = [on EXCEPT ![r] = u]
    /\ Goto(r, "removeMeta")
    /\ condemned' = condemned \cup {u}
    /\ UNCHANGED <<meta, payload, copy, lock, used, faults, served, recorded, missed,
                   deleted, doubled>>
    /\ reqUnchanged

\* storage.Delete returned an error: the request ends there, nothing is given
\* back to the quota.  Mutant: the error is ignored.
CarryOn(r) == Goto(r, "account") /\ UNCHANGED <<on, copy, lock>>
GiveUp(r) == Finish(r) /\ Unlock(r)

\* storage.Delete, the sidecar.  The local backend ignores a failure.
RemoveMetadata(r) ==
    /\ pc[r] = "removeMeta"
    /\ \/ /\ NoFault
          /\ meta' = [meta EXCEPT ![on[r]] = Absent]
          /\ Goto(r, "removePayload") /\ UNCHANGED <<on, copy, lock>>
       \/ /\ Fault /\ Local
          /\ Goto(r, "removePayload") /\ UNCHANGED <<meta, on, copy, lock>>
       \/ /\ Fault /\ ~Local
          /\ GiveUp(r) /\ UNCHANGED meta
    /\ UNCHANGED <<payload, used, history>> /\ reqUnchanged

\* storage.Delete, the payload.  Only the local backend reports that there was
\* none: deleteHandler answers 404, purgeExpired carries on regardless.
RemovePayload(r) ==
    LET missing == Local /\ payload[on[r]] = "absent" IN
    /\ pc[r] = "removePayload"
    /\ \/ /\ NoFault
          /\ payload' = [payload EXCEPT ![on[r]] = "absent"]
          /\ IF missing /\ lock[on[r]] # r
             THEN Finish(r) /\ UNCHANGED <<lock, doubled>>
             ELSE /\ Goto(r, "account") /\ UNCHANGED <<on, copy, lock>>
                  /\ doubled' = IF payload[on[r]] = "absent" THEN doubled + 1 ELSE doubled
       \/ /\ Fault
          /\ GiveUp(r) /\ UNCHANGED <<payload, doubled>>
    /\ UNCHANGED <<meta, used, served, recorded, missed, condemned, deleted>> /\ reqUnchanged

\* quota.sub of one payload.  Mutants: the floor, or the call, is missing.
SubUnfloored == used' = used - 1
SubForgotten == UNCHANGED used
QuotaSub == used' = IF used = 0 THEN 0 ELSE used - 1

\* quota.sub, and the end of the request.
Account(r) ==
    /\ pc[r] = "account"
    /\ QuotaSub
    /\ deleted' = IF lock[on[r]] = r THEN deleted ELSE deleted \cup {on[r]}
    /\ Finish(r) /\ Unlock(r)
    /\ UNCHANGED <<meta, payload, faults, served, recorded, missed, condemned, doubled>>
    /\ reqUnchanged

-------------------------------------------------------------------------------
\* The upload's MaxDate passes.
Expire(u) ==
    /\ u \in Expires /\ put[u] = "done" /\ ~expired[u]
    /\ expired' = [expired EXCEPT ![u] = TRUE]
    /\ UNCHANGED <<meta, payload, put, pc, on, copy, lock, used, faults, crashes, history,
                   measured>>

\* The server dies and starts again: goroutines, locks and the counter are
\* gone, initStorageQuota measures the backend, and a local file that was being
\* written may have been cut.
Crash ==
    LET inPut(u) == put[u] \notin {"new", "done", "failed"}
        writesMeta == {u \in Uploads : put[u] = "admitted" \/
                          \E r \in Requests : pc[r] = "recording" /\ on[r] = u}
        writesPayload == {u \in Uploads : put[u] = "described"}
        cuttable(S) == IF Local THEN SUBSET S ELSE {{}}
    IN
    /\ crashes < MaxCrashes
    /\ crashes' = crashes + 1
    /\ \E M \in cuttable(writesMeta), P \in cuttable(writesPayload) :
        /\ meta' = [u \in Uploads |-> IF u \in M THEN Torn ELSE meta[u]]
        /\ payload' = [u \in Uploads |-> IF u \in P THEN "torn" ELSE payload[u]]
    /\ put' = [u \in Uploads |-> IF inPut(u) THEN "failed" ELSE put[u]]
    /\ pc' = [r \in Requests |-> "idle"]
    /\ on' = [r \in Requests |-> Nil]
    /\ copy' = [r \in Requests |-> 0]
    /\ lock' = [u \in Uploads |-> Nil]
    /\ used' \in Usage'
    /\ measured' = SidecarUnits'
    /\ doubled' = 0
    /\ UNCHANGED <<expired, faults, served, recorded, missed, condemned, deleted>>

PutStep(u) ==
    \/ Admit(u)
    \/ PutMetadata(u)
    \/ PutPayload(u)
    \/ RollbackMetadata(u)
    \/ RollbackPayload(u)
    \/ Publish(u)

RequestStep(r) ==
    \/ OpenPayload(r)
    \/ Sent(r)
    \/ EndUncounted(r)
    \/ ReadForCount(r)
    \/ RecordDownload(r)
    \/ RemoveMetadata(r)
    \/ RemovePayload(r)
    \/ Account(r)

Next ==
    \/ \E u \in Uploads : PutStep(u) \/ Expire(u)
    \/ \E r \in Requests : RequestStep(r)
    \/ \E r \in Requests, u \in Uploads : CheckMetadata(r, u) \/ CheckDeletionToken(r, u)
    \/ Crash

Spec == Init /\ [][Next]_vars

\* A handler that runs goes on running: transfers end, storage calls return.
\* The lock is granted to a goroutine that keeps waiting for it (FileLock).
Fairness ==
    /\ \A u \in Uploads : WF_vars(put[u] # "new" /\ PutStep(u))
    /\ \A r \in Requests : SF_vars(RequestStep(r))

FairSpec == Spec /\ Fairness
-------------------------------------------------------------------------------
(***************************************************************************)
(* Properties.                                                             *)
(***************************************************************************)
Undisturbed == faults = 0 /\ crashes = 0

\* The requests that have served the upload and have yet to count it, and those
\* that are about to give a payload back to the quota.
Counting(u) == {r \in Requests : on[r] = u /\ pc[r] \in {"counting", "recording"}}
GivingBack == {r \in Requests : pc[r] = "account"}

\* Nothing is in flight.
AtRest ==
    /\ \A u \in Uploads : put[u] \in {"new", "done", "failed"}
    /\ \A r \in Requests : pc[r] = "idle"

\* No recorded download is lost or invented: the sidecar, when readable, holds
\* the number of downloads recorded so far, although two requests read and
\* write it and a crash may cut any write (increaseDownload under the lock).
NoLostCount == \A u \in Uploads : Readable(u) => meta[u] = recorded[u]

\* The recorded downloads never exceed the budget the uploader set.
WithinBudget == \A u \in Uploads : Limited(u) => recorded[u] <= MaxDownloads[u]

\* Every completed transfer of an upload that is neither expiring nor being
\* deleted is recorded, or its request is still on its way to recording it, or it
\* was an archive's and its client left before the count.
EveryTransferCounts ==
    \A u \in Uploads :
        Undisturbed /\ Limited(u) /\ Readable(u) /\ ~expired[u] /\ u \notin condemned =>
            served[u] = meta[u] + Cardinality(Counting(u)) + missed[u]

\* Downloads are checked before the transfer and counted after it, so requests
\* that overlap can all pass the check; the excess is bounded by how many
\* overlap, and by the archives that were never counted.
BoundedExcess ==
    \A u \in Uploads : Undisturbed /\ Limited(u) =>
        served[u] < MaxDownloads[u] + Cardinality(Requests) + missed[u]

\* What has been served is what has been recorded, is being recorded, or exceeds
\* the budget by less than the number of requests that overlap (getHandler checks
\* before the transfer, increaseDownload counts after it); only an archive that
\* its client left at the end escapes the count (copyArchiveEntry).
TransfersAccounted == EveryTransferCounts /\ BoundedExcess

\* A published upload that neither its owner, nor its date, nor its budget has
\* taken away.
Good(u) ==
    /\ put[u] = "done" /\ ~expired[u] /\ u \notin condemned
    /\ Limited(u) => recorded[u] < MaxDownloads[u]

\* A good upload resolves and has its payload, whatever is in flight.  One thing
\* can take it away: on the local backend increaseDownload's rewrite of the
\* sidecar of a limited upload, cut off by a failing write or by a crash, after
\* which it does not decode and every request answers 404.  No other failure and
\* no other crash does, and on S3 none at all.
KeptWhileGood ==
    \A u \in Uploads : Good(u) =>
        /\ payload[u] = "stored"
        /\ Readable(u) \/ (Local /\ Limited(u) /\ ~Undisturbed)

\* Sidecar and payload of a finished upload appear and disappear together, as
\* seen by whoever takes the lock.
PairsUnderLock ==
    \A u \in Uploads :
        Undisturbed /\ put[u] = "done" /\ lock[u] = Nil /\ u \notin condemned =>
            (Readable(u) <=> payload[u] = "stored")

\* After DELETE has answered success no transfer of the upload begins, even if
\* a racing increaseDownload has written its sidecar again.
NoTransferAfterDelete ==
    [][\A r \in Requests : pc[r] # "sending" /\ pc'[r] = "sending" => on[r] \notin deleted]_vars

\* The counter and the storage agree, up to what is named here.  It exceeds the
\* payloads by those a request is about to give back and by the sidecars the
\* backend measured at the start, which no removal gives back.  It falls short of
\* the published ones only by what removals that found no payload (a DELETE sent
\* twice to S3, a purge of a sidecar that came back) have given back again.
QuotaAccounted ==
    /\ used <= Cardinality(Payloads) + Cardinality(GivingBack) + measured
    /\ Cardinality({u \in Payloads : put[u] = "done"}) + Cardinality(GivingBack)
          <= used + doubled

\* One failing storage call leaves no half-created upload behind a failed PUT:
\* neither a sidecar that resolves nor bytes nobody can reach.
RollbackCleans ==
    \A u \in Uploads :
        put[u] = "failed" /\ crashes = 0 /\ faults <= 1 => ~Readable(u) /\ payload[u] = "absent"

\* Every request ends: nobody waits for a lock that is never given back.
RequestsEnd == \A r \in Requests : pc[r] # "idle" ~> pc[r] = "idle"

\* "When the budget or Max-Days runs out the object is deleted from storage
\* immediately" (README.md:481): a spent upload does not wait for a sweep,
\* unless a storage call fails or the server dies on the way.
SpentIsRemoved ==
    \A u \in Uploads :
        (Limited(u) /\ recorded[u] >= MaxDownloads[u]) ~> (payload[u] = "absent" \/ ~Undisturbed)

-------------------------------------------------------------------------------
(***************************************************************************)
(* What the documentation says and the code does not do.                   *)
(***************************************************************************)

\* "A member that expires, runs out of downloads or is deleted simply drops off
\* the list" (README.md:403): what a collection looks at is the sidecar.
DeletedDropsOff == \A u \in Uploads : AtRest /\ u \in deleted => ~Readable(u)
===============================================================================
