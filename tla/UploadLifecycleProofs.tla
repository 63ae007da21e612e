------------------------- MODULE UploadLifecycleProofs -------------------------
(***************************************************************************)
(* Proofs about UploadLifecycle, for any uploads, requests, budgets,       *)
(* backend, and any number of faults and crashes: the downloads recorded   *)
(* are the downloads counted, they stay within the budget, and nothing is  *)
(* served after a confirmed DELETE; good uploads stay, pairs appear and    *)
(* disappear together, a failed PUT cleans up, the quota counter claims    *)
(* nothing that is free, every transfer is accounted for.                  *)
(*                                                                         *)
(* Why an invariant is needed: that the number increaseDownload writes is  *)
(* the right one follows from what a request inside the lock has read, and *)
(* that nobody else writes it from the lock being held by that request     *)
(* alone, at a place of its code where it is about to write.  The others   *)
(* are about uploads at rest, and their reason lies in what a request in   *)
(* the middle of a handler knows: why it removes an upload, whether it     *)
(* holds the lock, what it has done.                                       *)
(***************************************************************************)
EXTENDS UploadLifecycle, FiniteSetTheorems, TLAPS

\* A request is about an upload exactly while it runs, and that upload is there.
RequestsRefer ==
    \A r \in Requests :
        /\ pc[r] = "idle" <=> on[r] = Nil
        /\ pc[r] # "idle" => put[on[r]] = "done"

\* A lock is held by a request about that upload, inside its critical section.
LocksHeld ==
    \A u \in Uploads : lock[u] # Nil =>
        /\ on[lock[u]] = u
        /\ pc[lock[u]] \in {"recording", "removeMeta", "removePayload", "account"}

\* A request about to write the count holds the lock, and the number it has
\* read is the number recorded, below the budget.
RecordingKnows ==
    \A r \in Requests :
        /\ pc[r] \in {"counting", "recording"} => Limited(on[r])
        /\ pc[r] = "recording" =>
              /\ lock[on[r]] = r
              /\ copy[r] = recorded[on[r]]
              /\ copy[r] < MaxDownloads[on[r]]

\* Nothing is recorded for an upload that is not published.
UnpublishedUncounted == \A u \in Uploads : put[u] # "done" => recorded[u] = 0

\* Once storage.Delete has succeeded the payload is gone for good.
RemovedIsGone ==
    /\ \A r \in Requests : pc[r] = "account" => payload[on[r]] = "absent"
    /\ \A u \in deleted : put[u] = "done" /\ payload[u] = "absent"

CountInv ==
    /\ RequestsRefer
    /\ LocksHeld
    /\ RecordingKnows
    /\ UnpublishedUncounted
    /\ NoLostCount
    /\ WithinBudget

IInv == TypeOK /\ CountInv /\ RemovedIsGone

USE FiniteAssumption, BudgetAssumption, BackendAssumption, QuotaAssumption,
    SetAssumption, BoundAssumption, NilAssumption, AbsentAssumption

LEMMA InitInv == Init => IInv
BY DEF Init, IInv, CountInv, TypeOK, RequestsRefer, LocksHeld, RecordingKnows,
       UnpublishedUncounted, NoLostCount, WithinBudget, RemovedIsGone, PutPlace, Place,
       Readable, Limited

LEMMA SomeUploads == ASSUME NEW S \in SUBSET Uploads PROVE Cardinality(S) \in Nat
<1>1. IsFiniteSet(S)
  BY FS_Subset
<1>. QED BY <1>1, FS_CardinalityType

LEMMA ProductNat == \A n \in Nat : SidecarSize * n \in Nat
OBVIOUS

\* Every action keeps the types.
LEMMA TypeStep == TypeOK /\ RequestsRefer /\ [Next]_vars => TypeOK'
<1>. SUFFICES ASSUME TypeOK, RequestsRefer, [Next]_vars PROVE TypeOK'
  OBVIOUS
<1>. USE DEF TypeOK, putUnchanged, reqUnchanged, history, Fault, NoFault, Goto, Finish
<1>1. ASSUME NEW u \in Uploads, Admit(u) PROVE TypeOK'
  BY <1>1 DEF Admit, PutPlace
<1>2. ASSUME NEW u \in Uploads, PutMetadata(u) PROVE TypeOK'
  BY <1>2 DEF PutMetadata, PutPlace, Cut
<1>3. ASSUME NEW u \in Uploads, PutPayload(u) PROVE TypeOK'
  BY <1>3 DEF PutPayload, PutPlace
<1>4. ASSUME NEW u \in Uploads, RollbackMetadata(u) PROVE TypeOK'
  BY <1>4 DEF RollbackMetadata, PutPlace
<1>5. ASSUME NEW u \in Uploads, RollbackPayload(u) PROVE TypeOK'
  BY <1>5 DEF RollbackPayload, PutPlace
<1>6. ASSUME NEW u \in Uploads, Publish(u) PROVE TypeOK'
  BY <1>6 DEF Publish, PutPlace
<1>7. ASSUME NEW u \in Uploads, Expire(u) PROVE TypeOK'
  BY <1>7 DEF Expire
<1>8. ASSUME NEW r \in Requests, NEW u \in Uploads, CheckMetadata(r, u) PROVE TypeOK'
  BY <1>8 DEF CheckMetadata, BeginPurge, Place
<1>9. ASSUME NEW r \in Requests, NEW u \in Uploads, CheckDeletionToken(r, u) PROVE TypeOK'
  BY <1>9 DEF CheckDeletionToken, Place
<1>10. ASSUME NEW r \in Requests, OpenPayload(r) PROVE TypeOK'
  BY <1>10 DEF OpenPayload, Place
<1>11. ASSUME NEW r \in Requests, Sent(r) PROVE TypeOK'
  BY <1>11 DEF Sent, Place
<1>12. ASSUME NEW r \in Requests, EndUncounted(r) PROVE TypeOK'
  BY <1>12 DEF EndUncounted, Place
<1>13. ASSUME NEW r \in Requests, ReadForCount(r) PROVE TypeOK'
  BY <1>13 DEF ReadForCount, HangUp, BeginPurge, Readable, Place
<1>14. ASSUME NEW r \in Requests, RecordDownload(r) PROVE TypeOK'
  BY <1>14 DEF RecordDownload, HangUp, Unlock, Cut, Place
<1>15. ASSUME NEW r \in Requests, RemoveMetadata(r) PROVE TypeOK'
  BY <1>15 DEF RemoveMetadata, GiveUp, Unlock, Place
<1>16. ASSUME NEW r \in Requests, RemovePayload(r) PROVE TypeOK'
  BY <1>16 DEF RemovePayload, GiveUp, Unlock, Place
<1>17. ASSUME NEW r \in Requests, Account(r) PROVE TypeOK'
  BY <1>17 DEF Account, QuotaSub, Unlock, Place, RequestsRefer
<1>18. ASSUME Crash PROVE TypeOK'
  <2>1. used' \in Nat /\ measured' \in Nat
    <3>1. /\ Cardinality(Payloads') \in Nat
          /\ Cardinality({u \in Uploads : payload'[u] = "stored"}) \in Nat
          /\ Cardinality({u \in Uploads : meta'[u] # Absent}) \in Nat
          /\ Cardinality({u \in Uploads : Readable(u)'}) \in Nat
      BY SomeUploads DEF Payloads
    <3>2. SidecarUnits' \in Nat /\ Whole' \in Nat
      BY <3>1, ProductNat DEF SidecarUnits, Whole
    <3>. QED BY <1>18, <3>1, <3>2 DEF Crash, Usage
  <2>2. meta' \in [Uploads -> {Absent, Torn} \cup Nat]
    BY <1>18 DEF Crash
  <2>3. payload' \in [Uploads -> {"absent", "torn", "stored"}]
    BY <1>18 DEF Crash
  <2>. QED BY <1>18, <2>1, <2>2, <2>3 DEF Crash, PutPlace, Place
<1>19. ASSUME UNCHANGED vars PROVE TypeOK'
  BY <1>19 DEF vars
<1>. QED
  BY <1>1, <1>2, <1>3, <1>4, <1>5, <1>6, <1>7, <1>8, <1>9, <1>10, <1>11, <1>12, <1>13,
     <1>14, <1>15, <1>16, <1>17, <1>18, <1>19 DEF Next, PutStep, RequestStep

\* The requests refer to published uploads, and the locks to requests.
LEMMA ReferStep ==
    TypeOK /\ RequestsRefer /\ LocksHeld /\ [Next]_vars => RequestsRefer' /\ LocksHeld'
<1>. SUFFICES ASSUME TypeOK, RequestsRefer, LocksHeld, [Next]_vars
              PROVE  RequestsRefer' /\ LocksHeld'
  OBVIOUS
<1>. USE DEF TypeOK, RequestsRefer, LocksHeld, putUnchanged, reqUnchanged, history, Goto, Finish
<1>1. ASSUME NEW u \in Uploads, PutStep(u) PROVE RequestsRefer' /\ LocksHeld'
  BY <1>1 DEF PutStep, Admit, PutMetadata, PutPayload, RollbackMetadata, RollbackPayload, Publish
<1>2. ASSUME NEW u \in Uploads, Expire(u) PROVE RequestsRefer' /\ LocksHeld'
  BY <1>2 DEF Expire
<1>3. ASSUME NEW r \in Requests, NEW u \in Uploads, CheckMetadata(r, u)
      PROVE  RequestsRefer' /\ LocksHeld'
  BY <1>3 DEF CheckMetadata, BeginPurge, LockFree
<1>4. ASSUME NEW r \in Requests, NEW u \in Uploads, CheckDeletionToken(r, u)
      PROVE  RequestsRefer' /\ LocksHeld'
  BY <1>4 DEF CheckDeletionToken
<1>5. ASSUME NEW r \in Requests, OpenPayload(r) PROVE RequestsRefer' /\ LocksHeld'
  BY <1>5 DEF OpenPayload
<1>6. ASSUME NEW r \in Requests, Sent(r) PROVE RequestsRefer' /\ LocksHeld'
  BY <1>6 DEF Sent
<1>7. ASSUME NEW r \in Requests, EndUncounted(r) PROVE RequestsRefer' /\ LocksHeld'
  BY <1>7 DEF EndUncounted
<1>8. ASSUME NEW r \in Requests, ReadForCount(r) PROVE RequestsRefer' /\ LocksHeld'
  BY <1>8 DEF ReadForCount, BeginPurge, LockFree
<1>9. ASSUME NEW r \in Requests, RecordDownload(r) PROVE RequestsRefer' /\ LocksHeld'
  BY <1>9 DEF RecordDownload, Unlock
<1>10. ASSUME NEW r \in Requests, RemoveMetadata(r) PROVE RequestsRefer' /\ LocksHeld'
  BY <1>10 DEF RemoveMetadata, GiveUp, Unlock
<1>11. ASSUME NEW r \in Requests, RemovePayload(r) PROVE RequestsRefer' /\ LocksHeld'
  BY <1>11 DEF RemovePayload, GiveUp, Unlock
<1>12. ASSUME NEW r \in Requests, Account(r) PROVE RequestsRefer' /\ LocksHeld'
  BY <1>12 DEF Account, Unlock
<1>13. ASSUME Crash PROVE RequestsRefer' /\ LocksHeld'
  BY <1>13 DEF Crash
<1>14. ASSUME UNCHANGED vars PROVE RequestsRefer' /\ LocksHeld'
  BY <1>14 DEF vars
<1>. QED
  BY <1>1, <1>2, <1>3, <1>4, <1>5, <1>6, <1>7, <1>8, <1>9, <1>10, <1>11, <1>12, <1>13,
     <1>14 DEF Next, RequestStep

\* The count: only the request inside the lock writes it, and writes what it
\* knows to be the next number.
LEMMA CountStep ==
    TypeOK /\ CountInv /\ [Next]_vars =>
        RecordingKnows' /\ UnpublishedUncounted' /\ NoLostCount' /\ WithinBudget'
<1>. DEFINE Goal == RecordingKnows /\ UnpublishedUncounted /\ NoLostCount /\ WithinBudget
<1>. SUFFICES ASSUME TypeOK, CountInv, [Next]_vars PROVE Goal'
  OBVIOUS
<1>. USE DEF TypeOK, CountInv, RequestsRefer, LocksHeld, RecordingKnows, UnpublishedUncounted,
             NoLostCount, WithinBudget, Limited, Readable,
             putUnchanged, reqUnchanged, history, Goto, Finish
<1>1. ASSUME NEW u \in Uploads, PutStep(u) PROVE Goal'
  <2>1. CASE Admit(u)
    BY <2>1 DEF Admit
  <2>2. CASE PutMetadata(u)
    BY <2>2 DEF PutMetadata, Cut
  <2>3. CASE PutPayload(u) \/ RollbackPayload(u) \/ Publish(u)
    BY <2>3 DEF PutPayload, RollbackPayload, Publish
  <2>4. CASE RollbackMetadata(u)
    BY <2>4 DEF RollbackMetadata
  <2>. QED BY <1>1, <2>1, <2>2, <2>3, <2>4 DEF PutStep
<1>2. ASSUME NEW u \in Uploads, Expire(u) PROVE Goal'
  BY <1>2 DEF Expire
<1>3. ASSUME NEW r \in Requests, NEW u \in Uploads, CheckMetadata(r, u) PROVE Goal'
  BY <1>3 DEF CheckMetadata, BeginPurge, LockFree
<1>4. ASSUME NEW r \in Requests, NEW u \in Uploads, CheckDeletionToken(r, u) PROVE Goal'
  BY <1>4 DEF CheckDeletionToken
<1>5. ASSUME NEW r \in Requests, OpenPayload(r) PROVE Goal'
  BY <1>5 DEF OpenPayload
<1>6. ASSUME NEW r \in Requests, Sent(r) PROVE Goal'
  BY <1>6 DEF Sent
<1>7. ASSUME NEW r \in Requests, EndUncounted(r) PROVE Goal'
  BY <1>7 DEF EndUncounted
<1>8. ASSUME NEW r \in Requests, ReadForCount(r) PROVE Goal'
  BY <1>8 DEF ReadForCount, BeginPurge, LockFree, Overdue, Spent
<1>9. ASSUME NEW r \in Requests, RecordDownload(r) PROVE Goal'
  BY <1>9 DEF RecordDownload, Unlock, Cut
<1>10. ASSUME NEW r \in Requests, RemoveMetadata(r) PROVE Goal'
  BY <1>10 DEF RemoveMetadata, GiveUp, Unlock
<1>11. ASSUME NEW r \in Requests, RemovePayload(r) PROVE Goal'
  BY <1>11 DEF RemovePayload, GiveUp, Unlock
<1>12. ASSUME NEW r \in Requests, Account(r) PROVE Goal'
  BY <1>12 DEF Account, Unlock
<1>13. ASSUME Crash PROVE Goal'
  BY <1>13 DEF Crash
<1>14. ASSUME UNCHANGED vars PROVE Goal'
  BY <1>14 DEF vars
<1>. QED
  BY <1>1, <1>2, <1>3, <1>4, <1>5, <1>6, <1>7, <1>8, <1>9, <1>10, <1>11, <1>12, <1>13,
     <1>14 DEF Next, RequestStep

\* No payload comes back: only an unfinished PUT writes one.
LEMMA RemovedStep ==
    TypeOK /\ RequestsRefer /\ RemovedIsGone /\ [Next]_vars => RemovedIsGone'
<1>. SUFFICES ASSUME TypeOK, RequestsRefer, RemovedIsGone, [Next]_vars PROVE RemovedIsGone'
  OBVIOUS
<1>. USE DEF TypeOK, RequestsRefer, RemovedIsGone,
             putUnchanged, reqUnchanged, history, Goto, Finish
<1>1. ASSUME NEW u \in Uploads, PutStep(u) PROVE RemovedIsGone'
  BY <1>1 DEF PutStep, Admit, PutMetadata, PutPayload, RollbackMetadata, RollbackPayload, Publish
<1>2. ASSUME NEW u \in Uploads, Expire(u) PROVE RemovedIsGone'
  BY <1>2 DEF Expire
<1>3. ASSUME NEW r \in Requests, NEW u \in Uploads,
             CheckMetadata(r, u) \/ CheckDeletionToken(r, u)
      PROVE  RemovedIsGone'
  BY <1>3 DEF CheckMetadata, CheckDeletionToken, BeginPurge
<1>4. ASSUME NEW r \in Requests,
             OpenPayload(r) \/ Sent(r) \/ EndUncounted(r) \/ ReadForCount(r) \/ RecordDownload(r)
      PROVE  RemovedIsGone'
  BY <1>4 DEF OpenPayload, Sent, EndUncounted, ReadForCount, RecordDownload, BeginPurge
<1>5. ASSUME NEW r \in Requests, RemoveMetadata(r) PROVE RemovedIsGone'
  BY <1>5 DEF RemoveMetadata, GiveUp
<1>6. ASSUME NEW r \in Requests, RemovePayload(r) PROVE RemovedIsGone'
  BY <1>6 DEF RemovePayload, GiveUp
<1>7. ASSUME NEW r \in Requests, Account(r) PROVE RemovedIsGone'
  BY <1>7 DEF Account
<1>8. ASSUME Crash PROVE RemovedIsGone'
  BY <1>8 DEF Crash
<1>9. ASSUME UNCHANGED vars PROVE RemovedIsGone'
  BY <1>9 DEF vars
<1>. QED
  BY <1>1, <1>2, <1>3, <1>4, <1>5, <1>6, <1>7, <1>8, <1>9 DEF Next, RequestStep

LEMMA Invariance == Spec => []IInv
<1>1. IInv /\ [Next]_vars => IInv'
  BY TypeStep, ReferStep, CountStep, RemovedStep DEF IInv, CountInv
<1>. QED BY InitInv, <1>1, PTL DEF Spec

\* The state of the server, the storage and the requests stays well-formed,
\* whatever fails and whenever the server dies.
THEOREM TypeCorrect == Spec => []TypeOK
<1>1. IInv => TypeOK
  BY DEF IInv
<1>. QED BY Invariance, <1>1, PTL

\* A readable sidecar holds the number of downloads recorded: increaseDownload
\* loses and invents none, however many requests, faults and crashes there are.
THEOREM CountIsKept == Spec => []NoLostCount
<1>1. IInv => NoLostCount
  BY DEF IInv, CountInv
<1>. QED BY Invariance, <1>1, PTL

\* The downloads recorded for an upload never exceed its Max-Downloads.
THEOREM BudgetIsKept == Spec => []WithinBudget
<1>1. IInv => WithinBudget
  BY DEF IInv, CountInv
<1>. QED BY Invariance, <1>1, PTL

\* Once DELETE has answered success no transfer of the upload begins: the
\* payload a transfer opens is gone for good, even if the sidecar is back.
THEOREM DeleteIsFinal == Spec => NoTransferAfterDelete
<1>. DEFINE Begins == \A r \in Requests :
                pc[r] # "sending" /\ pc'[r] = "sending" => on[r] \notin deleted
<1>1. IInv /\ [Next]_vars => [Begins]_vars
  <2>. SUFFICES ASSUME IInv, Next, NEW r \in Requests, pc[r] # "sending", pc'[r] = "sending"
                PROVE  on[r] \notin deleted
    OBVIOUS
  <2>. USE DEF IInv, TypeOK, Goto, Finish
  <2>1. OpenPayload(r)
    <3>1. ASSUME NEW u \in Uploads, PutStep(u) \/ Expire(u) PROVE FALSE
      BY <3>1 DEF PutStep, Admit, PutMetadata, PutPayload, RollbackMetadata, RollbackPayload,
                  Publish, Expire, putUnchanged
    <3>2. ASSUME NEW s \in Requests, NEW u \in Uploads,
                 CheckMetadata(s, u) \/ CheckDeletionToken(s, u)
          PROVE  FALSE
      BY <3>2 DEF CheckMetadata, CheckDeletionToken, BeginPurge
    <3>3. ASSUME NEW s \in Requests,
                 Sent(s) \/ EndUncounted(s) \/ ReadForCount(s) \/ RecordDownload(s)
          PROVE  FALSE
      BY <3>3 DEF Sent, EndUncounted, ReadForCount, RecordDownload, BeginPurge
    <3>4. ASSUME NEW s \in Requests, RemoveMetadata(s) \/ RemovePayload(s) \/ Account(s)
          PROVE  FALSE
      BY <3>4 DEF RemoveMetadata, RemovePayload, Account, GiveUp
    <3>5. ASSUME Crash PROVE FALSE
      BY <3>5 DEF Crash
    <3>6. ASSUME NEW s \in Requests, OpenPayload(s), s # r PROVE FALSE
      BY <3>6 DEF OpenPayload
    <3>. QED BY <3>1, <3>2, <3>3, <3>4, <3>5, <3>6 DEF Next, RequestStep
  <2>. QED BY <2>1 DEF OpenPayload, RemovedIsGone
<1>. QED BY Invariance, <1>1, PTL DEF Spec, NoTransferAfterDelete

-------------------------------------------------------------------------------
(* Uploads at rest *)

Removing(r) == pc[r] \in {"removeMeta", "removePayload", "account"}
LockedAt(u, places) == lock[u] # Nil /\ pc[lock[u]] \in places

\* What a PUT has written when it is at a place, and what a failed one left.
PutKnows ==
    \A u \in Uploads :
        /\ put[u] \in {"new", "admitted"} => meta[u] = Absent /\ payload[u] = "absent"
        /\ put[u] = "described" => Readable(u) /\ payload[u] = "absent"
        /\ put[u] = "stored" => Readable(u) /\ payload[u] = "stored"
        /\ put[u] = "rollback" => faults >= 1
        /\ put[u] = "rollbackPayload" => faults >= 1 /\ (faults <= 1 => meta[u] = Absent)
        /\ put[u] # "done" => served[u] = 0 /\ missed[u] = 0
        /\ put[u] = "done" => payload[u] # "torn"

PutInv == PutKnows /\ RollbackCleans

\* An upload is removed because it expired, for DELETE, or because it is spent;
\* and unless it is for DELETE, with the lock held.
RemovalJustified ==
    \A r \in Requests : Removing(r) =>
        /\ expired[on[r]] \/ on[r] \in condemned
              \/ (Limited(on[r]) /\ recorded[on[r]] >= MaxDownloads[on[r]])
        /\ on[r] \in condemned \/ lock[on[r]] = r

KeepInv == RemovalJustified /\ KeptWhileGood

\* Sidecar and payload while the lock is free or its holder has removed nothing.
PairsKnown ==
    Undisturbed =>
        \A u \in Uploads : put[u] = "done" =>
            /\ u \notin condemned =>
                  /\ lock[u] = Nil \/ LockedAt(u, {"recording", "removeMeta"}) =>
                        (Readable(u) <=> payload[u] = "stored")
                  /\ LockedAt(u, {"recording"}) => Readable(u)
            /\ LockedAt(u, {"removePayload", "account"}) => ~Readable(u)

\* The counter is covered by uploads that no PUT works on any more, and it covers
\* the published ones and those a request has removed and not yet given back.
Settled == {u \in Uploads : put[u] \in {"done", "failed"} /\ payload[u] # "absent"}
Published == {u \in Payloads : put[u] = "done"}
UsedIsCovered ==
    /\ used <= Cardinality(Settled) + Cardinality(GivingBack) + measured
    /\ Cardinality(Published) + Cardinality(GivingBack) <= used + doubled

\* While downloads of an upload can be counted, the served ones are recorded or
\* about to be; those that have passed the check and have not been served are
\* few enough for the bound.
Countable(u) == (lock[u] = Nil /\ Readable(u)) \/ LockedAt(u, {"recording"})
Transferring(u) == {r \in Requests : on[r] = u /\ pc[r] \in {"checked", "sending"}}

TransfersKnown ==
    Undisturbed =>
        \A u \in Uploads : put[u] = "done" /\ Limited(u) =>
            /\ Countable(u) => /\ served[u] = recorded[u] + Cardinality(Counting(u)) + missed[u]
                               /\ recorded[u] < MaxDownloads[u]
            /\ Readable(u) /\ ~expired[u] /\ u \notin condemned =>
                  served[u] = recorded[u] + Cardinality(Counting(u)) + missed[u]
            /\ served[u] + Cardinality(Transferring(u))
                  < MaxDownloads[u] + Cardinality(Requests) + missed[u]

SafeInv == PutInv /\ KeepInv /\ PairsKnown /\ UsedIsCovered /\ TransfersKnown

USE FiniteAssumption, BudgetAssumption, BackendAssumption, QuotaAssumption,
    SetAssumption, BoundAssumption, NilAssumption, AbsentAssumption

-------------------------------------------------------------------------------
(* PUT *)

\* Requests are about published uploads only, so nobody else is at work on one
\* that is being put.
LEMMA PutStepInv == IInv /\ PutInv /\ [Next]_vars => PutInv'
<1>. SUFFICES ASSUME IInv, PutInv, [Next]_vars PROVE PutInv'
  OBVIOUS
<1>. USE DEF IInv, TypeOK, PutInv, PutKnows, RollbackCleans, Readable,
             putUnchanged, reqUnchanged, history
<1>1. ASSUME NEW u \in Uploads, Admit(u) PROVE PutInv'
  BY <1>1 DEF Admit
<1>2. ASSUME NEW u \in Uploads, PutMetadata(u) PROVE PutInv'
  BY <1>2 DEF PutMetadata, Cut, Fault, NoFault
<1>3. ASSUME NEW u \in Uploads, PutPayload(u) PROVE PutInv'
  BY <1>3 DEF PutPayload, Fault, NoFault
<1>4. ASSUME NEW u \in Uploads, RollbackMetadata(u) PROVE PutInv'
  BY <1>4 DEF RollbackMetadata, Fault, NoFault
<1>5. ASSUME NEW u \in Uploads, RollbackPayload(u) PROVE PutInv'
  BY <1>5 DEF RollbackPayload, Fault, NoFault
<1>6. ASSUME NEW u \in Uploads, Publish(u) \/ Expire(u) PROVE PutInv'
  BY <1>6 DEF Publish, Expire
<1>7. ASSUME NEW r \in Requests, NEW u \in Uploads,
             CheckMetadata(r, u) \/ CheckDeletionToken(r, u)
      PROVE  PutInv'
  BY <1>7 DEF CheckMetadata, CheckDeletionToken
<1>8. ASSUME NEW r \in Requests, RequestStep(r) PROVE PutInv'
  <2>1. put[on[r]] = "done" /\ put' = put /\ crashes' = crashes
    BY <1>8 DEF CountInv, RequestsRefer, RequestStep, OpenPayload, Sent, EndUncounted,
                ReadForCount, RecordDownload, RemoveMetadata, RemovePayload, Account
  <2>2. \A u \in Uploads : u # on[r] =>
            /\ meta'[u] = meta[u] /\ payload'[u] = payload[u]
            /\ served'[u] = served[u] /\ missed'[u] = missed[u]
    BY <1>8 DEF RequestStep, OpenPayload, Sent, EndUncounted, Finish, HangUp,
                ReadForCount, RecordDownload, RemoveMetadata, RemovePayload, Account
  <2>3. faults' >= faults /\ faults \in Nat /\ faults' \in Nat
    BY <1>8 DEF RequestStep, OpenPayload, Sent, EndUncounted, Fault, NoFault, BeginPurge, HangUp,
                ReadForCount, RecordDownload, RemoveMetadata, RemovePayload, Account
  <2>4. payload' = payload \/ payload' = [payload EXCEPT ![on[r]] = "absent"]
    BY <1>8 DEF RequestStep, OpenPayload, Sent, EndUncounted, ReadForCount, RecordDownload,
                RemoveMetadata, RemovePayload, Account
  <2>. QED BY <2>1, <2>2, <2>3, <2>4
<1>9. ASSUME Crash PROVE PutInv'
  <2>1. crashes' # 0 /\ faults' = faults /\ served' = served /\ missed' = missed
    BY <1>9 DEF Crash
  <2>2. \A u \in Uploads : put'[u] \in {"new", "done", "failed"}
                           /\ (put'[u] # "failed" => put'[u] = put[u])
    BY <1>9 DEF Crash, PutPlace
  <2>3. \A u \in Uploads : put'[u] = "new" => meta'[u] = meta[u] /\ payload'[u] = payload[u]
    BY <1>9 DEF Crash, CountInv, RequestsRefer
  <2>4. \A u \in Uploads : /\ put'[u] # "done" => put[u] # "done"
                           /\ put'[u] = "done" => payload'[u] = payload[u]
    BY <1>9 DEF Crash
  <2>. QED BY <2>1, <2>2, <2>3, <2>4
<1>10. ASSUME UNCHANGED vars PROVE PutInv'
  BY <1>10 DEF vars
<1>. QED
  BY <1>1, <1>2, <1>3, <1>4, <1>5, <1>6, <1>7, <1>8, <1>9, <1>10 DEF Next, PutStep

-------------------------------------------------------------------------------
(* Removal *)

LEMMA FaultDisturbs == TypeOK /\ Fault => ~Undisturbed'
BY DEF TypeOK, Fault, Undisturbed

LEMMA CrashDisturbs == TypeOK /\ Crash => ~Undisturbed'
BY DEF TypeOK, Crash, Undisturbed

LEMMA UndisturbedBefore == TypeOK /\ [Next]_vars /\ Undisturbed' => Undisturbed
<1>. SUFFICES ASSUME TypeOK, [Next]_vars PROVE Undisturbed' => Undisturbed
  OBVIOUS
<1>. USE DEF TypeOK, Undisturbed, Fault, NoFault, HangUp, putUnchanged, reqUnchanged
<1>1. ASSUME NEW u \in Uploads, PutStep(u) \/ Expire(u) PROVE Undisturbed' => Undisturbed
  BY <1>1 DEF PutStep, Admit, PutMetadata, PutPayload, RollbackMetadata, RollbackPayload,
              Publish, Expire
<1>2. ASSUME NEW r \in Requests, NEW u \in Uploads,
             CheckMetadata(r, u) \/ CheckDeletionToken(r, u)
      PROVE  Undisturbed' => Undisturbed
  BY <1>2 DEF CheckMetadata, CheckDeletionToken
<1>3. ASSUME NEW r \in Requests, RequestStep(r) PROVE Undisturbed' => Undisturbed
  BY <1>3 DEF RequestStep, OpenPayload, Sent, EndUncounted, ReadForCount, RecordDownload,
              RemoveMetadata, RemovePayload, Account
<1>4. Crash => (Undisturbed' => Undisturbed)
  BY DEF Crash
<1>5. UNCHANGED vars => (Undisturbed' => Undisturbed)
  BY DEF vars
<1>. QED BY <1>1, <1>2, <1>3, <1>4, <1>5 DEF Next

LEMMA KeepStepInv == IInv /\ PutInv /\ KeepInv /\ [Next]_vars => KeepInv'
<1>. SUFFICES ASSUME IInv, PutInv, KeepInv, [Next]_vars PROVE KeepInv'
  OBVIOUS
<1>0. Undisturbed' => Undisturbed
  BY UndisturbedBefore DEF IInv
<1>. USE DEF IInv, TypeOK, CountInv, RequestsRefer, KeepInv, RemovalJustified, KeptWhileGood, Good,
             Removing, Limited, Readable, putUnchanged, reqUnchanged, history, Goto, Finish
<1>1. ASSUME NEW u \in Uploads, PutStep(u) PROVE KeepInv'
  <2>1. CASE Admit(u) \/ PutMetadata(u) \/ PutPayload(u) \/ RollbackMetadata(u)
               \/ RollbackPayload(u)
    BY <1>0, <2>1 DEF Admit, PutMetadata, PutPayload, RollbackMetadata, RollbackPayload
  <2>2. CASE Publish(u)
    BY <1>0, <2>2 DEF Publish, PutInv, PutKnows
  <2>. QED BY <1>0, <1>1, <2>1, <2>2 DEF PutStep
<1>2. ASSUME NEW u \in Uploads, Expire(u) PROVE KeepInv'
  BY <1>0, <1>2 DEF Expire
<1>3. ASSUME NEW r \in Requests, NEW u \in Uploads, CheckMetadata(r, u) PROVE KeepInv'
  BY <1>0, <1>3 DEF CheckMetadata, BeginPurge, Overdue, Spent, NoLostCount, LockFree
<1>4. ASSUME NEW r \in Requests, NEW u \in Uploads, CheckDeletionToken(r, u) PROVE KeepInv'
  BY <1>0, <1>4 DEF CheckDeletionToken
<1>5. ASSUME NEW r \in Requests, OpenPayload(r) \/ Sent(r) \/ EndUncounted(r) PROVE KeepInv'
  BY <1>0, <1>5 DEF OpenPayload, Sent, EndUncounted
<1>6. ASSUME NEW r \in Requests, ReadForCount(r) PROVE KeepInv'
  BY <1>0, <1>6 DEF ReadForCount, BeginPurge, Overdue, Spent, NoLostCount, LockFree
<1>7. ASSUME NEW r \in Requests, RecordDownload(r) PROVE KeepInv'
  <2>. DEFINE u == on[r]
  <2>1. /\ pc[r] = "recording" /\ u \in Uploads /\ put[u] = "done" /\ Limited(u)
        /\ lock[u] = r /\ copy[r] = recorded[u] /\ copy[r] \in Nat
        /\ MaxDownloads[u] \in Int
    BY <1>0, <1>7 DEF RecordDownload, RecordingKnows
  <2>2. /\ \A q \in Requests : q # r => pc'[q] = pc[q] /\ on'[q] = on[q]
        /\ \A v \in Uploads : v # u => /\ meta'[v] = meta[v] /\ lock'[v] = lock[v]
                                       /\ recorded'[v] = recorded[v]
        /\ UNCHANGED <<payload, put, expired, condemned>>
    BY <1>0, <1>7, <2>1 DEF RecordDownload, Unlock, LocksHeld
  <2>3. CASE meta' = [meta EXCEPT ![u] = copy[r] + 1]
             /\ recorded' = [recorded EXCEPT ![u] = @ + 1]
    <3>1. meta'[u] = copy[r] + 1 /\ recorded'[u] = copy[r] + 1
      BY <1>0, <2>1, <2>3
    <3>2. CASE LastDownload(r) /\ Goto(r, "removeMeta") /\ UNCHANGED <<on, copy, lock>>
      BY <1>0, <2>1, <2>2, <3>1, <3>2 DEF LastDownload
    <3>3. CASE Finish(r) /\ Unlock(r)
      <4>1. pc'[r] = "idle"
        BY <1>0, <3>3
      <4>2. \A q \in Requests : q # r /\ Removing(q) /\ on[q] = u => u \in condemned
        BY <1>0, <2>1
      <4>3. KeptWhileGood'
        <5>1. \A v \in Uploads : v # u => meta'[v] = meta[v] /\ recorded'[v] = recorded[v]
          BY <1>0, <2>2
        <5>2. meta'[u] \in Nat /\ (recorded'[u] < MaxDownloads[u] => recorded[u] < MaxDownloads[u])
          BY <1>0, <2>1, <3>1
        <5>. QED BY <1>0, <2>2, <5>1, <5>2
      <4>4. RemovalJustified'
        BY <1>0, <2>1, <2>2, <4>1, <4>2
      <4>. QED BY <1>0, <4>3, <4>4
    <3>. QED BY <1>0, <1>7, <2>1, <2>3, <3>2, <3>3 DEF RecordDownload
  <2>4. CASE meta' = [meta EXCEPT ![u] = Cut(@)] /\ Finish(r) /\ Unlock(r)
             /\ UNCHANGED recorded /\ ~Undisturbed'
    <3>1. pc'[r] = "idle"
      BY <1>0, <2>4
    <3>2. \A q \in Requests : q # r /\ Removing(q) /\ on[q] = u => u \in condemned
      BY <1>0, <2>1
    <3>3. meta[u] \in Nat => meta'[u] \in Nat \/ (Local /\ Limited(u) /\ ~Undisturbed')
      BY <2>1, <2>4 DEF Cut
    <3>. QED BY <1>0, <2>1, <2>2, <2>4, <3>1, <3>2, <3>3
  <2>5. CASE Finish(r) /\ Unlock(r) /\ UNCHANGED <<meta, recorded>>
    <3>1. pc'[r] = "idle"
      BY <2>5
    <3>2. \A q \in Requests : q # r /\ Removing(q) /\ on[q] = u => u \in condemned
      BY <2>1
    <3>. QED BY <1>0, <2>1, <2>2, <2>5, <3>1, <3>2
  <2>. QED BY <1>7, <2>3, <2>4, <2>5, FaultDisturbs DEF RecordDownload
<1>8. ASSUME NEW r \in Requests, RemoveMetadata(r) PROVE KeepInv'
  BY <1>0, <1>8 DEF RemoveMetadata, GiveUp, Unlock
<1>9. ASSUME NEW r \in Requests, RemovePayload(r) PROVE KeepInv'
  BY <1>0, <1>9 DEF RemovePayload, GiveUp, Unlock
<1>10. ASSUME NEW r \in Requests, Account(r) PROVE KeepInv'
  BY <1>0, <1>10 DEF Account, Unlock
<1>11. ASSUME Crash PROVE KeepInv'
  <2>1. /\ \A u \in Uploads : put'[u] = "done" => put[u] = "done" /\ payload'[u] = payload[u]
        /\ UNCHANGED <<expired, recorded, condemned>>
        /\ \A q \in Requests : pc'[q] = "idle"
    BY <1>11 DEF Crash
  <2>2. \A u \in Uploads : put[u] = "done" /\ meta'[u] # meta[u] =>
            Local /\ \E q \in Requests : pc[q] = "recording" /\ on[q] = u
    BY <1>11 DEF Crash
  <2>3. \A u \in Uploads : put[u] = "done" /\ meta'[u] # meta[u] => Local /\ Limited(u)
    BY <2>2 DEF RecordingKnows
  <2>4. ~Undisturbed'
    BY <1>11, CrashDisturbs
  <2>. QED BY <2>1, <2>3, <2>4
<1>12. ASSUME UNCHANGED vars PROVE KeepInv'
  BY <1>0, <1>12 DEF vars
<1>. QED
  BY <1>1, <1>2, <1>3, <1>4, <1>5, <1>6, <1>7, <1>8, <1>9, <1>10, <1>11, <1>12
     DEF Next, RequestStep

\* Without faults, whoever holds the lock has removed the sidecar when he comes
\* to the payload, and nobody else writes either meanwhile.
LEMMA PairsStepInv == IInv /\ PutInv /\ KeepInv /\ PairsKnown /\ [Next]_vars => PairsKnown'
<1>. SUFFICES ASSUME IInv, PutInv, KeepInv, PairsKnown, [Next]_vars, Undisturbed'
              PROVE  PairsKnown'
  BY DEF PairsKnown
<1>0. Undisturbed
  BY UndisturbedBefore DEF IInv
<1>. USE DEF IInv, TypeOK, CountInv, RequestsRefer, LocksHeld, PairsKnown, LockedAt, Readable,
             putUnchanged, reqUnchanged, history, Goto, Finish
<1>1. ASSUME NEW u \in Uploads, PutStep(u) PROVE PairsKnown'
  <2>1. CASE Admit(u) \/ PutMetadata(u) \/ PutPayload(u) \/ RollbackMetadata(u)
               \/ RollbackPayload(u)
    BY <1>0, <2>1 DEF Admit, PutMetadata, PutPayload, RollbackMetadata, RollbackPayload
  <2>2. CASE Publish(u)
    <3>1. Readable(u) /\ payload[u] = "stored" /\ lock[u] = Nil
      BY <2>2 DEF Publish, PutInv, PutKnows
    <3>. QED BY <1>0, <2>2, <3>1 DEF Publish
  <2>. QED BY <1>1, <2>1, <2>2 DEF PutStep
<1>2. ASSUME NEW u \in Uploads, Expire(u) PROVE PairsKnown'
  BY <1>0, <1>2 DEF Expire
<1>3. ASSUME NEW r \in Requests, NEW u \in Uploads, CheckMetadata(r, u) PROVE PairsKnown'
  BY <1>0, <1>3 DEF CheckMetadata, BeginPurge, LockFree
<1>4. ASSUME NEW r \in Requests, NEW u \in Uploads, CheckDeletionToken(r, u) PROVE PairsKnown'
  BY <1>0, <1>4 DEF CheckDeletionToken
<1>5. ASSUME NEW r \in Requests, OpenPayload(r) \/ Sent(r) \/ EndUncounted(r)
      PROVE  PairsKnown'
  BY <1>0, <1>5 DEF OpenPayload, Sent, EndUncounted
<1>6. ASSUME NEW r \in Requests, ReadForCount(r) PROVE PairsKnown'
  BY <1>0, <1>6, FaultDisturbs DEF ReadForCount, BeginPurge, LockFree
<1>7. ASSUME NEW r \in Requests, RecordDownload(r) PROVE PairsKnown'
  <2>. DEFINE u == on[r]
  <2>1. /\ pc[r] = "recording" /\ u \in Uploads /\ put[u] = "done" /\ lock[u] = r
        /\ copy[r] \in Nat
    BY <1>7 DEF RecordDownload, RecordingKnows
  <2>2. /\ meta' = meta \/ meta' = [meta EXCEPT ![u] = copy[r] + 1]
        /\ \/ Goto(r, "removeMeta") /\ UNCHANGED <<on, copy, lock>>
           \/ Finish(r) /\ Unlock(r)
        /\ UNCHANGED <<payload, put, condemned>>
    BY <1>7, FaultDisturbs DEF RecordDownload
  <2>3. u \notin condemned => meta'[u] \in Nat /\ payload[u] = "stored"
    BY <1>0, <2>1, <2>2
  <2>4. \A v \in Uploads : v # u => /\ meta'[v] = meta[v] /\ lock'[v] = lock[v]
                                    /\ (lock[v] # Nil => pc'[lock[v]] = pc[lock[v]])
    BY <2>1, <2>2 DEF Unlock
  <2>5. lock'[u] = Nil \/ (lock'[u] = r /\ pc'[r] = "removeMeta")
    BY <2>1, <2>2 DEF Unlock
  <2>. QED BY <1>0, <2>1, <2>2, <2>3, <2>4, <2>5
<1>8. ASSUME NEW r \in Requests, RemoveMetadata(r) PROVE PairsKnown'
  <2>1. /\ pc[r] = "removeMeta" /\ on[r] \in Uploads
        /\ meta' = [meta EXCEPT ![on[r]] = Absent] /\ pc' = [pc EXCEPT ![r] = "removePayload"]
        /\ UNCHANGED <<payload, put, condemned, lock>>
    BY <1>8, FaultDisturbs DEF RemoveMetadata
  <2>2. on[r] \in condemned \/ lock[on[r]] = r
    BY <2>1 DEF KeepInv, RemovalJustified, Removing
  <2>3. \A v \in Uploads : v # on[r] => /\ meta'[v] = meta[v]
                                        /\ (lock[v] # Nil => pc'[lock[v]] = pc[lock[v]])
    BY <2>1
  <2>. QED BY <1>0, <2>1, <2>2, <2>3
<1>9. ASSUME NEW r \in Requests, RemovePayload(r) PROVE PairsKnown'
  <2>1. /\ pc[r] = "removePayload" /\ on[r] \in Uploads
        /\ payload' = [payload EXCEPT ![on[r]] = "absent"] /\ pc'[r] \in {"account", "idle"}
        /\ \A q \in Requests : q # r => pc'[q] = pc[q]
        /\ lock[on[r]] = r => pc'[r] = "account"
        /\ UNCHANGED <<meta, put, condemned, lock>>
    BY <1>9, FaultDisturbs DEF RemovePayload
  <2>2. on[r] \in condemned \/ lock[on[r]] = r
    BY <2>1 DEF KeepInv, RemovalJustified, Removing
  <2>3. \A v \in Uploads : v # on[r] => /\ payload'[v] = payload[v]
                                        /\ (lock[v] # Nil => pc'[lock[v]] = pc[lock[v]])
    BY <2>1
  <2>. QED BY <1>0, <2>1, <2>2, <2>3
<1>10. ASSUME NEW r \in Requests, Account(r) PROVE PairsKnown'
  <2>1. /\ pc[r] = "account" /\ on[r] \in Uploads /\ pc'[r] = "idle"
        /\ \A q \in Requests : q # r => pc'[q] = pc[q]
        /\ Unlock(r)
        /\ UNCHANGED <<meta, payload, put, condemned>>
    BY <1>10 DEF Account
  <2>2. on[r] \in condemned \/ (lock[on[r]] = r /\ payload[on[r]] = "absent")
    BY <2>1 DEF KeepInv, RemovalJustified, Removing, RemovedIsGone
  <2>3. \A v \in Uploads : lock[v] # r => /\ lock'[v] = lock[v]
                                         /\ (lock[v] # Nil => pc'[lock[v]] = pc[lock[v]])
    BY <2>1 DEF Unlock
  <2>4. \A v \in Uploads : lock[v] = r => v = on[r] /\ lock'[v] = Nil
    BY <2>1 DEF Unlock
  <2>. QED BY <1>0, <2>1, <2>2, <2>3, <2>4
<1>11. ASSUME UNCHANGED vars PROVE PairsKnown'
  BY <1>0, <1>11 DEF vars
<1>. QED
  BY <1>1, <1>2, <1>3, <1>4, <1>5, <1>6, <1>7, <1>8, <1>9, <1>10, <1>11, CrashDisturbs
     DEF Next, RequestStep

-------------------------------------------------------------------------------
(* The quota counter *)

LEMMA FiniteParts ==
    /\ \A S \in SUBSET Uploads : IsFiniteSet(S) /\ Cardinality(S) \in Nat
    /\ \A S \in SUBSET Requests : IsFiniteSet(S) /\ Cardinality(S) \in Nat
BY FS_Subset, FS_CardinalityType

LEMMA OneMore ==
    ASSUME NEW S, IsFiniteSet(S), NEW x, x \notin S
    PROVE  Cardinality(S \cup {x}) = Cardinality(S) + 1
BY FS_AddElement

LEMMA OneLess ==
    ASSUME NEW S, IsFiniteSet(S), NEW x
    PROVE  Cardinality(S \ {x}) = IF x \in S THEN Cardinality(S) - 1 ELSE Cardinality(S)
BY FS_RemoveElement

\* Steps that do not touch the counter, nor a payload of a settled upload.
LEMMA StillCovered ==
    ASSUME TypeOK, UsedIsCovered, UNCHANGED <<used, doubled, measured>>,
           Settled \subseteq Settled', Published' \subseteq Published,
           GivingBack' = GivingBack
    PROVE  UsedIsCovered'
<1>1. /\ Settled' \in SUBSET Uploads /\ Published' \in SUBSET Uploads
      /\ Settled \in SUBSET Uploads /\ Published \in SUBSET Uploads
      /\ GivingBack \in SUBSET Requests
  BY DEF Settled, Published, Payloads, GivingBack
<1>2. Cardinality(Settled) <= Cardinality(Settled')
      /\ Cardinality(Published') <= Cardinality(Published)
  BY <1>1, FiniteParts, FS_Subset
<1>3. used \in Nat /\ doubled \in Nat /\ measured \in Nat
  BY DEF TypeOK
<1>. QED BY <1>1, <1>2, <1>3, FiniteParts DEF UsedIsCovered

LEMMA CoverStepInv == IInv /\ IInv' /\ PutInv /\ UsedIsCovered /\ [Next]_vars => UsedIsCovered'
<1>. SUFFICES ASSUME IInv, IInv', PutInv, UsedIsCovered, [Next]_vars PROVE UsedIsCovered'
  OBVIOUS
<1>0. /\ TypeOK /\ TypeOK' /\ used \in Nat /\ used' \in Nat
      /\ measured \in Nat /\ measured' \in Nat /\ doubled \in Nat /\ doubled' \in Nat
      /\ Settled \in SUBSET Uploads /\ GivingBack \in SUBSET Requests
      /\ Settled' \in SUBSET Uploads /\ GivingBack' \in SUBSET Requests
      /\ Published \in SUBSET Uploads /\ Published' \in SUBSET Uploads
      /\ Cardinality(Settled) \in Nat /\ Cardinality(GivingBack) \in Nat
      /\ Cardinality(Published) \in Nat
      /\ IsFiniteSet(Settled) /\ IsFiniteSet(GivingBack) /\ IsFiniteSet(Published)
      /\ used <= Cardinality(Settled) + Cardinality(GivingBack) + measured
      /\ Cardinality(Published) + Cardinality(GivingBack) <= used + doubled
  BY FiniteParts DEF IInv, TypeOK, Settled, Published, Payloads, GivingBack, UsedIsCovered
<1>. USE DEF putUnchanged, reqUnchanged, history, Goto, Finish
<1>1. ASSUME NEW u \in Uploads, PutStep(u), ~Publish(u) PROVE UsedIsCovered'
  <2>1. UNCHANGED <<used, doubled, measured, pc>>
    BY <1>1 DEF PutStep, Admit, PutMetadata, PutPayload, RollbackMetadata, RollbackPayload
  <2>2. put[u] # "done" /\ put'[u] # "done" /\ u \notin Settled
        /\ \A v \in Uploads : v # u => put'[v] = put[v] /\ payload'[v] = payload[v]
    BY <1>0, <1>1 DEF PutStep, Admit, PutMetadata, PutPayload, RollbackMetadata,
                      RollbackPayload, Settled, TypeOK
  <2>3. /\ Settled \subseteq Settled' /\ Published' \subseteq Published
        /\ GivingBack' = GivingBack
    BY <2>1, <2>2 DEF Settled, Published, Payloads, GivingBack
  <2>. QED BY <1>0, <2>1, <2>3, StillCovered
<1>2. ASSUME NEW u \in Uploads, Publish(u) PROVE UsedIsCovered'
  <2>1. /\ u \notin Settled /\ Settled' = Settled \cup {u}
        /\ u \notin Published /\ Published' = Published \cup {u}
    BY <1>0, <1>2 DEF Publish, Settled, Published, Payloads, TypeOK, PutInv, PutKnows
  <2>2. used' = used + 1 /\ GivingBack' = GivingBack /\ UNCHANGED <<doubled, measured>>
    BY <1>2 DEF Publish, GivingBack
  <2>3. /\ Cardinality(Settled') = Cardinality(Settled) + 1
        /\ Cardinality(Published') = Cardinality(Published) + 1
    BY <1>0, <2>1, OneMore
  <2>. QED BY <1>0, <2>2, <2>3 DEF UsedIsCovered
<1>3. ASSUME NEW u \in Uploads, Expire(u) PROVE UsedIsCovered'
  BY <1>0, <1>3, StillCovered DEF Expire, Settled, Published, Payloads, GivingBack
<1>4. ASSUME NEW r \in Requests, NEW u \in Uploads,
             CheckMetadata(r, u) \/ CheckDeletionToken(r, u)
      PROVE  UsedIsCovered'
  <2>1. UNCHANGED <<used, payload, put, doubled, measured>>
        /\ pc[r] # "account" /\ pc'[r] # "account"
        /\ \A q \in Requests : q # r => pc'[q] = pc[q]
    BY <1>0, <1>4 DEF CheckMetadata, CheckDeletionToken, BeginPurge, TypeOK
  <2>. QED BY <1>0, <2>1, StillCovered DEF Settled, Published, Payloads, GivingBack
<1>5. ASSUME NEW r \in Requests,
             OpenPayload(r) \/ Sent(r) \/ EndUncounted(r) \/ ReadForCount(r)
                \/ RecordDownload(r) \/ RemoveMetadata(r)
      PROVE  UsedIsCovered'
  <2>1. UNCHANGED <<used, payload, put, doubled, measured>>
        /\ pc[r] # "account" /\ pc'[r] # "account"
        /\ \A q \in Requests : q # r => pc'[q] = pc[q]
    BY <1>0, <1>5 DEF OpenPayload, Sent, EndUncounted, ReadForCount, RecordDownload,
                      RemoveMetadata, BeginPurge, GiveUp, TypeOK
  <2>. QED BY <1>0, <2>1, StillCovered DEF Settled, Published, Payloads, GivingBack
<1>6. ASSUME NEW r \in Requests, RemovePayload(r) PROVE UsedIsCovered'
  <2>. DEFINE u == on[r]
  <2>1. /\ UNCHANGED <<used, put, measured>> /\ r \notin GivingBack
        /\ \A q \in Requests : q # r => pc'[q] = pc[q]
        /\ u \in Uploads /\ put[u] = "done" /\ pc[r] = "removePayload"
    BY <1>0, <1>6 DEF RemovePayload, GiveUp, GivingBack, TypeOK, IInv, CountInv, RequestsRefer
  <2>2. CASE pc'[r] = "idle" /\ UNCHANGED <<payload, doubled>>
    BY <1>0, <2>1, <2>2, StillCovered DEF Settled, Published, Payloads, GivingBack
  <2>3. CASE /\ pc'[r] = "account" /\ payload[u] # "absent"
             /\ payload' = [payload EXCEPT ![u] = "absent"] /\ doubled' = doubled
    <3>1. GivingBack' = GivingBack \cup {r}
      BY <1>0, <2>1, <2>3 DEF GivingBack, TypeOK
    <3>2. /\ u \in Settled /\ Settled' = Settled \ {u}
          /\ u \in Published /\ Published' = Published \ {u}
      BY <1>0, <2>1, <2>3 DEF Settled, Published, Payloads, TypeOK
    <3>3. Cardinality(GivingBack') = Cardinality(GivingBack) + 1
      BY <1>0, <2>1, <3>1, OneMore
    <3>4. /\ Cardinality(Settled') = Cardinality(Settled) - 1
          /\ Cardinality(Published') = Cardinality(Published) - 1
      BY <1>0, <3>2, OneLess
    <3>. QED BY <1>0, <2>1, <2>3, <3>3, <3>4 DEF UsedIsCovered
  <2>4. CASE pc'[r] = "account" /\ UNCHANGED payload /\ doubled' = doubled + 1
    <3>1. GivingBack' = GivingBack \cup {r} /\ Settled' = Settled /\ Published' = Published
      BY <1>0, <2>1, <2>4 DEF GivingBack, Settled, Published, Payloads, TypeOK
    <3>2. Cardinality(GivingBack') = Cardinality(GivingBack) + 1
      BY <1>0, <2>1, <3>1, OneMore
    <3>. QED BY <1>0, <2>1, <2>4, <3>1, <3>2 DEF UsedIsCovered
  <2>. QED BY <1>0, <1>6, <2>1, <2>2, <2>3, <2>4 DEF RemovePayload, GiveUp, TypeOK
<1>7. ASSUME NEW r \in Requests, Account(r) PROVE UsedIsCovered'
  <2>1. /\ r \in GivingBack /\ GivingBack' = GivingBack \ {r}
        /\ Settled' = Settled /\ Published' = Published /\ UNCHANGED <<doubled, measured>>
    BY <1>0, <1>7 DEF Account, GivingBack, Settled, Published, Payloads, TypeOK
  <2>2. Cardinality(GivingBack') = Cardinality(GivingBack) - 1 /\ Cardinality(GivingBack') \in Nat
    BY <1>0, <2>1, OneLess, FiniteParts
  <2>3. used' = IF used = 0 THEN 0 ELSE used - 1
    BY <1>7 DEF Account, QuotaSub
  <2>. QED BY <1>0, <2>1, <2>2, <2>3 DEF UsedIsCovered
<1>8. ASSUME Crash PROVE UsedIsCovered'
  <2>1. Payloads' = Settled'
    <3>. SUFFICES ASSUME NEW u \in Uploads, payload'[u] # "absent"
                  PROVE  put'[u] \in {"done", "failed"}
      BY DEF Settled, Payloads
    <3>1. put'[u] \in {"new", "done", "failed"}
      BY <1>0, <1>8 DEF Crash, TypeOK, PutPlace
    <3>2. put[u] = "new" => payload'[u] = payload[u] /\ payload[u] = "absent"
      BY <1>0, <1>8 DEF Crash, PutInv, PutKnows
    <3>3. put'[u] = "new" => put[u] = "new"
      BY <1>0, <1>8 DEF Crash, TypeOK
    <3>. QED BY <3>1, <3>2, <3>3
  <2>. DEFINE stored == {u \in Uploads : payload'[u] = "stored"}
  <2>2. Published' \subseteq stored
    <3>. SUFFICES ASSUME NEW u \in Uploads, payload'[u] # "absent", put'[u] = "done"
                  PROVE  payload'[u] = "stored"
      BY DEF Published, Payloads
    <3>1. put[u] = "done" /\ payload'[u] = payload[u]
      BY <1>0, <1>8 DEF Crash, TypeOK
    <3>. QED BY <1>0, <3>1 DEF PutInv, PutKnows, TypeOK
  <2>3. GivingBack' = {} /\ Cardinality(GivingBack') = 0
    BY <1>8, FS_EmptySet DEF Crash, GivingBack
  <2>4. /\ Cardinality(Settled') \in Nat /\ Cardinality(stored) \in Nat
        /\ Cardinality(Published') \in Nat /\ Cardinality(Published') <= Cardinality(stored)
    BY <1>0, <2>2, FiniteParts, FS_Subset
  <2>5. /\ Cardinality({u \in Uploads : Readable(u)'}) \in Nat
        /\ Cardinality({u \in Uploads : meta'[u] # Absent}) \in Nat
    BY FiniteParts
  <2>6. used' >= Cardinality(stored) /\ used' <= Cardinality(Payloads') + SidecarUnits'
    <3>1. /\ SidecarSize * Cardinality({u \in Uploads : Readable(u)'}) \in Nat
          /\ SidecarUnits' \in Nat
      BY <2>5, ProductNat DEF SidecarUnits
    <3>2. used' \in Whole'..(Cardinality(Payloads') + SidecarUnits')
      BY <1>8 DEF Crash, Usage
    <3>3. Whole' = Cardinality(stored) + SidecarSize * Cardinality({u \in Uploads : Readable(u)'})
      BY DEF Whole
    <3>. QED BY <1>0, <2>1, <2>4, <3>1, <3>2, <3>3
  <2>7. measured' = SidecarUnits' /\ doubled' = 0
    BY <1>8 DEF Crash
  <2>. QED BY <1>0, <2>1, <2>3, <2>4, <2>6, <2>7 DEF UsedIsCovered
<1>9. ASSUME UNCHANGED vars PROVE UsedIsCovered'
  BY <1>0, <1>9, StillCovered DEF vars, Settled, Published, Payloads, GivingBack
<1>. QED BY <1>1, <1>2, <1>3, <1>4, <1>5, <1>6, <1>7, <1>8, <1>9 DEF Next, PutStep, RequestStep

-------------------------------------------------------------------------------
(* Transfers *)

\* What TransfersKnown says of one upload.
KnownOf(u) ==
    /\ Countable(u) => /\ served[u] = recorded[u] + Cardinality(Counting(u)) + missed[u]
                       /\ recorded[u] < MaxDownloads[u]
    /\ Readable(u) /\ ~expired[u] /\ u \notin condemned =>
          served[u] = recorded[u] + Cardinality(Counting(u)) + missed[u]
    /\ served[u] + Cardinality(Transferring(u))
          < MaxDownloads[u] + Cardinality(Requests) + missed[u]

LEMMA DisjointParts ==
    ASSUME NEW C \in SUBSET Requests, NEW T \in SUBSET Requests, C \cap T = {}
    PROVE  /\ IsFiniteSet(C) /\ Cardinality(C) \in Nat
           /\ IsFiniteSet(T) /\ Cardinality(T) \in Nat
           /\ Cardinality(C) + Cardinality(T) <= Cardinality(Requests)
           /\ Cardinality(Requests) \in Nat
<1>1. IsFiniteSet(C \cup T) /\ Cardinality(C \cup T) <= Cardinality(Requests)
  BY FS_Subset
<1>2. Cardinality(C \cup T) = Cardinality(C) + Cardinality(T) - Cardinality({})
  BY FiniteParts, FS_Union
<1>3. Cardinality({}) = 0
  BY FS_EmptySet
<1>. QED BY <1>1, <1>2, <1>3, FiniteParts, FS_CardinalityType

LEMMA PartsOf ==
    ASSUME NEW u
    PROVE  /\ IsFiniteSet(Counting(u)) /\ Cardinality(Counting(u)) \in Nat
           /\ IsFiniteSet(Transferring(u)) /\ Cardinality(Transferring(u)) \in Nat
           /\ Cardinality(Counting(u)) + Cardinality(Transferring(u)) <= Cardinality(Requests)
           /\ Cardinality(Requests) \in Nat
<1>1. Counting(u) \in SUBSET Requests /\ Transferring(u) \in SUBSET Requests
      /\ Counting(u) \cap Transferring(u) = {}
  BY DEF Counting, Transferring
<1>. QED BY <1>1, DisjointParts

\* Steps that let no transfer begin, be served or be counted.
LEMMA KnownStays ==
    ASSUME TypeOK, NEW u \in Uploads, Limited(u), KnownOf(u),
           served'[u] = served[u], recorded'[u] = recorded[u], missed'[u] = missed[u],
           Counting(u)' = Counting(u), Transferring(u)' \subseteq Transferring(u),
           Countable(u)' => Countable(u),
           Readable(u)' /\ ~expired'[u] /\ u \notin condemned' =>
               Readable(u) /\ ~expired[u] /\ u \notin condemned
    PROVE  KnownOf(u)'
<1>1. Cardinality(Transferring(u)') <= Cardinality(Transferring(u))
      /\ Cardinality(Transferring(u)') \in Nat
  BY PartsOf, FS_Subset, FS_CardinalityType
<1>2. served[u] \in Nat /\ missed[u] \in Nat /\ MaxDownloads[u] \in Int
  BY DEF TypeOK
<1>. QED BY <1>1, <1>2, PartsOf DEF KnownOf

\* A transfer begins, is served or is counted only while the lock's holder, if
\* any, is recording: once it removes the upload nothing of it resolves again.
LEMMA TransferStepInv ==
    IInv /\ PutInv /\ PairsKnown /\ TransfersKnown /\ [Next]_vars => TransfersKnown'
<1>. SUFFICES ASSUME IInv, PutInv, PairsKnown, TransfersKnown, [Next]_vars, Undisturbed',
                     NEW u \in Uploads, put'[u] = "done", Limited(u)
              PROVE  KnownOf(u)'
  BY DEF TransfersKnown, KnownOf, Limited
<1>0. /\ Undisturbed /\ TypeOK
      /\ put[u] = "done" => KnownOf(u)
      /\ MaxDownloads[u] \in Nat \ {0}
      /\ served[u] \in Nat /\ recorded[u] \in Nat /\ missed[u] \in Nat
  BY UndisturbedBefore DEF IInv, TransfersKnown, KnownOf, Limited, TypeOK
<1>. USE DEF putUnchanged, reqUnchanged, history, Goto, Finish
<1>1. ASSUME NEW v \in Uploads, PutStep(v), ~Publish(v) PROVE KnownOf(u)'
  <2>1. /\ v # u /\ put[u] = "done" /\ meta'[u] = meta[u]
        /\ UNCHANGED <<pc, on, lock, expired, served, recorded, missed, condemned>>
    BY <1>0, <1>1 DEF PutStep, Admit, PutMetadata, PutPayload, RollbackMetadata,
                      RollbackPayload, TypeOK
  <2>. QED BY <1>0, <2>1, KnownStays
           DEF Counting, Transferring, Countable, LockedAt, Readable
<1>2. ASSUME NEW v \in Uploads, Publish(v) PROVE KnownOf(u)'
  <2>1. UNCHANGED <<meta, pc, on, lock, expired, served, recorded, missed, condemned>>
    BY <1>2 DEF Publish
  <2>2. CASE u # v
    <3>1. put[u] = "done"
      BY <1>0, <1>2, <2>2 DEF Publish, TypeOK
    <3>. QED BY <1>0, <2>1, <3>1, KnownStays
             DEF Counting, Transferring, Countable, LockedAt, Readable
  <2>3. CASE u = v
    <3>1. served[u] = 0 /\ recorded[u] = 0 /\ missed[u] = 0
      BY <1>2, <2>3 DEF Publish, PutInv, PutKnows, IInv, CountInv, UnpublishedUncounted
    <3>2. Counting(u)' = {} /\ Transferring(u)' = {}
      BY <1>2, <2>1, <2>3 DEF Publish, Counting, Transferring, IInv, CountInv, RequestsRefer
    <3>3. Cardinality({}) = 0 /\ Cardinality(Requests) \in Nat
      BY FS_EmptySet, FS_CardinalityType
    <3>. QED BY <1>0, <2>1, <3>1, <3>2, <3>3 DEF KnownOf
  <2>. QED BY <2>2, <2>3
<1>3. ASSUME NEW v \in Uploads, Expire(v) PROVE KnownOf(u)'
  <2>1. /\ UNCHANGED <<meta, put, pc, on, lock, served, recorded, missed, condemned>>
        /\ expired[u] => expired'[u]
    BY <1>0, <1>3 DEF Expire, TypeOK
  <2>. QED BY <1>0, <2>1, KnownStays
           DEF Counting, Transferring, Countable, LockedAt, Readable
<1>4. ASSUME NEW r \in Requests, NEW v \in Uploads, CheckMetadata(r, v) PROVE KnownOf(u)'
  <2>1. /\ pc[r] = "idle" /\ LockFree(v) /\ Readable(v) /\ on' = [on EXCEPT ![r] = v]
        /\ UNCHANGED <<meta, put, expired, served, recorded, missed, condemned>>
        /\ on[r] = Nil
    BY <1>4 DEF CheckMetadata, IInv, CountInv, RequestsRefer
  <2>2. lock[u] # Nil => lock[u] # r
    BY <1>0, <2>1 DEF IInv, CountInv, LocksHeld
  <2>3. CASE BeginPurge(r, v)
    <3>1. /\ Counting(u)' = Counting(u) /\ Transferring(u)' = Transferring(u)
      BY <1>0, <2>1, <2>3 DEF BeginPurge, Counting, Transferring, TypeOK
    <3>2. Countable(u)' => Countable(u)
      BY <1>0, <2>1, <2>2, <2>3 DEF BeginPurge, Countable, LockedAt, Readable, LockFree, TypeOK
    <3>. QED BY <1>0, <2>1, <3>1, <3>2, KnownStays DEF Readable
  <2>4. CASE pc' = [pc EXCEPT ![r] = "checked"] /\ UNCHANGED lock
    <3>1. Counting(u)' = Counting(u) /\ (Countable(u)' <=> Countable(u))
      BY <1>0, <2>1, <2>2, <2>4 DEF Counting, Countable, LockedAt, Readable, TypeOK
    <3>2. CASE u # v
      <4>1. Transferring(u)' = Transferring(u)
        BY <1>0, <2>1, <2>4, <3>2 DEF Transferring, TypeOK
      <4>. QED BY <1>0, <2>1, <3>1, <4>1, KnownStays DEF Readable
    <3>3. CASE u = v
      <4>1. Countable(u) /\ KnownOf(u)
        BY <1>0, <2>1, <3>3 DEF Countable, LockFree
      <4>2. served[u] = recorded[u] + Cardinality(Counting(u)) + missed[u] /\ recorded[u] < MaxDownloads[u]
        BY <4>1 DEF KnownOf
      <4>3. /\ Cardinality(Counting(u)') \in Nat /\ Cardinality(Transferring(u)') \in Nat
            /\ Cardinality(Counting(u)') + Cardinality(Transferring(u)') <= Cardinality(Requests)
            /\ Cardinality(Requests) \in Nat
        <5>1. Counting(u)' \in SUBSET Requests /\ Transferring(u)' \in SUBSET Requests
              /\ Counting(u)' \cap Transferring(u)' = {}
          BY DEF Counting, Transferring
        <5>. QED BY <5>1, DisjointParts
      <4>. QED BY <1>0, <2>1, <3>1, <4>2, <4>3 DEF KnownOf
    <3>. QED BY <3>2, <3>3
  <2>. QED BY <1>4, <2>3, <2>4 DEF CheckMetadata
<1>5. ASSUME NEW r \in Requests, NEW v \in Uploads, CheckDeletionToken(r, v) PROVE KnownOf(u)'
  <2>1. /\ pc[r] = "idle" /\ on' = [on EXCEPT ![r] = v] /\ on[r] = Nil
        /\ pc' = [pc EXCEPT ![r] = "removeMeta"]
        /\ UNCHANGED <<meta, put, lock, expired, served, recorded, missed>>
        /\ condemned \subseteq condemned'
    BY <1>5 DEF CheckDeletionToken, IInv, CountInv, RequestsRefer
  <2>2. lock[u] # Nil => lock[u] # r
    BY <1>0, <2>1 DEF IInv, CountInv, LocksHeld
  <2>3. /\ Counting(u)' = Counting(u) /\ Transferring(u)' = Transferring(u)
        /\ Countable(u)' => Countable(u)
    BY <1>0, <2>1, <2>2 DEF Counting, Transferring, Countable, LockedAt, Readable, TypeOK
  <2>. QED BY <1>0, <2>1, <2>3, KnownStays DEF Readable
<1>6. ASSUME NEW r \in Requests, OpenPayload(r) \/ EndUncounted(r) PROVE KnownOf(u)'
  <2>1. /\ pc[r] \in {"checked", "sending"} /\ pc'[r] \in {"sending", "idle"}
        /\ \A q \in Requests : q # r => pc'[q] = pc[q] /\ on'[q] = on[q]
        /\ pc'[r] = "sending" => on'[r] = on[r]
        /\ UNCHANGED <<meta, put, lock, expired, served, recorded, missed, condemned>>
    BY <1>0, <1>6 DEF OpenPayload, EndUncounted, TypeOK
  <2>2. lock[u] # Nil => lock[u] # r
    BY <1>0, <2>1 DEF IInv, CountInv, LocksHeld
  <2>3. /\ Counting(u)' = Counting(u) /\ Transferring(u)' \subseteq Transferring(u)
        /\ Countable(u)' => Countable(u)
    BY <1>0, <2>1, <2>2 DEF Counting, Transferring, Countable, LockedAt, Readable, TypeOK
  <2>. QED BY <1>0, <2>1, <2>3, KnownStays DEF Readable
<1>7. ASSUME NEW r \in Requests, Sent(r) PROVE KnownOf(u)'
  <2>1. /\ pc[r] = "sending" /\ \A q \in Requests : q # r => pc'[q] = pc[q] /\ on'[q] = on[q]
        /\ UNCHANGED <<meta, put, lock, expired, recorded, missed, condemned>>
        /\ on[r] \in Uploads
    BY <1>0, <1>7 DEF Sent, TypeOK, IInv, CountInv, RequestsRefer
  <2>2. lock[u] # Nil => lock[u] # r
    BY <1>0, <2>1 DEF IInv, CountInv, LocksHeld
  <2>3. Countable(u)' <=> Countable(u)
    BY <1>0, <2>1, <2>2 DEF Countable, LockedAt, Readable, TypeOK
  <2>4. CASE on[r] # u
    <3>1. pc'[r] = "idle" \/ on'[r] = on[r]
      BY <1>0, <1>7 DEF Sent, TypeOK
    <3>2. Counting(u)' = Counting(u) /\ Transferring(u)' = Transferring(u)
          /\ served'[u] = served[u]
      BY <1>0, <1>7, <2>1, <2>4, <3>1 DEF Sent, Counting, Transferring, TypeOK
    <3>. QED BY <1>0, <2>1, <2>3, <3>2, KnownStays DEF Readable
  <2>5. CASE on[r] = u
    <3>1. pc'[r] = "counting" /\ served'[u] = served[u] + 1 /\ on' = on
      BY <1>0, <1>7, <2>5 DEF Sent, TypeOK
    <3>2. /\ r \notin Counting(u) /\ r \in Transferring(u)
          /\ Counting(u)' = Counting(u) \cup {r} /\ Transferring(u)' = Transferring(u) \ {r}
      BY <2>1, <2>5, <3>1 DEF Counting, Transferring
    <3>3. /\ Cardinality(Counting(u)') = Cardinality(Counting(u)) + 1
          /\ Cardinality(Transferring(u)') = Cardinality(Transferring(u)) - 1
          /\ Cardinality(Counting(u)) \in Nat /\ Cardinality(Transferring(u)) \in Nat
          /\ Cardinality(Requests) \in Nat
      BY <3>2, PartsOf, OneMore, OneLess
    <3>. QED BY <1>0, <2>1, <2>3, <3>1, <3>3 DEF KnownOf, Readable
  <2>. QED BY <2>4, <2>5
<1>8. ASSUME NEW r \in Requests, ReadForCount(r) PROVE KnownOf(u)'
  <2>. DEFINE w == on[r]
  <2>1. /\ pc[r] = "counting" /\ lock[w] = Nil /\ w \in Uploads
        /\ UNCHANGED <<meta, put, expired, served, recorded, condemned>>
        /\ \A v \in Uploads : v # w => missed'[v] = missed[v]
        /\ \A q \in Requests : q # r => pc'[q] = pc[q] /\ on'[q] = on[q]
        /\ \A v \in Uploads : v # w => lock'[v] = lock[v]
        /\ pc'[r] = "idle" \/ on'[r] = w
    BY <1>0, <1>8 DEF ReadForCount, HangUp, LockFree, BeginPurge, TypeOK, IInv, CountInv, RequestsRefer
  <2>2. lock[u] # Nil => lock[u] # r
    BY <1>0, <2>1 DEF IInv, CountInv, LocksHeld
  <2>3. Transferring(u)' = Transferring(u)
    <3>1. pc'[r] \in {"idle", "removeMeta", "recording"}
      BY <1>0, <1>8 DEF ReadForCount, BeginPurge, TypeOK
    <3>. QED BY <2>1, <3>1 DEF Transferring
  <2>4. CASE w # u
    <3>1. Counting(u)' = Counting(u)
      BY <2>1, <2>4 DEF Counting
    <3>2. Countable(u)' => Countable(u)
      BY <1>0, <2>1, <2>2, <2>4 DEF Countable, LockedAt, Readable, TypeOK
    <3>. QED BY <1>0, <2>1, <2>3, <2>4, <3>1, <3>2, KnownStays DEF Readable
  <2>5. CASE w = u /\ Readable(w) /\ ~Overdue(w) /\ lock' = [lock EXCEPT ![w] = r]
             /\ pc' = [pc EXCEPT ![r] = "recording"] /\ on' = on
             /\ missed' = missed
    <3>1. Counting(u)' = Counting(u) /\ Countable(u)
      BY <1>0, <2>1, <2>5 DEF Counting, Countable, TypeOK
    <3>. QED BY <1>0, <2>1, <2>3, <2>5, <3>1, KnownStays DEF Readable
  <2>6. CASE w = u /\ ~Readable(w) /\ lock' = lock /\ missed' = missed
    <3>1. ~Readable(u)' /\ ~Countable(u)'
      BY <2>1, <2>6 DEF Readable, Countable, LockedAt
    <3>2. served[u] + Cardinality(Transferring(u)') < MaxDownloads[u] + Cardinality(Requests) + missed[u]
      BY <1>0, <2>1, <2>3 DEF KnownOf
    <3>. QED BY <2>1, <2>6, <3>1, <3>2 DEF KnownOf
  <2>7. CASE w = u /\ Readable(w) /\ Overdue(w) /\ BeginPurge(r, w)
             /\ missed' = missed
    <3>1. lock'[u] = r /\ pc'[r] = "removeMeta" /\ r # Nil
      BY <1>0, <2>1, <2>7 DEF BeginPurge, TypeOK
    <3>2. ~Countable(u)'
      BY <3>1 DEF Countable, LockedAt
    <3>3. expired[u]
      <4>1. Countable(u) /\ KnownOf(u) /\ meta[u] = recorded[u]
        BY <1>0, <2>1, <2>7 DEF Countable, IInv, CountInv, NoLostCount
      <4>. QED BY <1>0, <2>7, <4>1 DEF KnownOf, Overdue, Spent
    <3>4. served[u] + Cardinality(Transferring(u)') < MaxDownloads[u] + Cardinality(Requests) + missed[u]
      BY <1>0, <2>1, <2>3 DEF KnownOf
    <3>. QED BY <2>1, <2>7, <3>2, <3>3, <3>4 DEF KnownOf
  <2>8. CASE w = u /\ HangUp(r) /\ pc' = [pc EXCEPT ![r] = "idle"] /\ lock' = lock
    <3>1. r \in Counting(u) /\ Counting(u)' = Counting(u) \ {r}
      BY <1>0, <2>1, <2>8 DEF Counting, TypeOK
    <3>2. Cardinality(Counting(u)') = Cardinality(Counting(u)) - 1
          /\ Cardinality(Counting(u)) \in Nat
      BY <3>1, PartsOf, OneLess
    <3>3. missed'[u] = missed[u] + 1
      BY <1>0, <2>8 DEF HangUp, TypeOK
    <3>4. (Countable(u)' => Countable(u)) /\ (Readable(u)' => Readable(u)) /\ expired'[u] = expired[u]
      BY <1>0, <2>1, <2>8 DEF Countable, LockedAt, Readable, TypeOK
    <3>5. served[u] + Cardinality(Transferring(u)') < MaxDownloads[u] + Cardinality(Requests) + missed'[u]
      BY <1>0, <2>1, <2>3, <3>3, PartsOf DEF KnownOf
    <3>. QED BY <1>0, <2>1, <3>2, <3>3, <3>4, <3>5 DEF KnownOf
  <2>. QED BY <1>0, <1>8, <2>4, <2>5, <2>6, <2>7, <2>8, FaultDisturbs DEF ReadForCount, CountFails
<1>9. ASSUME NEW r \in Requests, RecordDownload(r) PROVE KnownOf(u)'
  <2>. DEFINE w == on[r]
  <2>1. /\ pc[r] = "recording" /\ lock[w] = r /\ w \in Uploads
        /\ copy[r] = recorded[w] /\ copy[r] \in Nat
    BY <1>0, <1>9 DEF RecordDownload, TypeOK, IInv, CountInv, RecordingKnows, RequestsRefer
  <2>2. CASE /\ UNCHANGED <<put, expired, served, missed, condemned>>
             /\ meta' = [meta EXCEPT ![w] = copy[r] + 1]
             /\ recorded' = [recorded EXCEPT ![w] = @ + 1]
             /\ \A q \in Requests : q # r => pc'[q] = pc[q] /\ on'[q] = on[q]
             /\ IF LastDownload(r)
                THEN pc'[r] = "removeMeta" /\ UNCHANGED lock
                ELSE pc'[r] = "idle" /\ Unlock(r)
    <3>1. Transferring(u)' = Transferring(u)
      BY <2>1, <2>2 DEF Transferring
    <3>2. CASE w # u
      <4>1. lock[u] # r /\ lock'[u] = lock[u] /\ meta'[u] = meta[u] /\ recorded'[u] = recorded[u]
        BY <1>0, <2>1, <2>2, <3>2 DEF Unlock, TypeOK, IInv, CountInv, LocksHeld
      <4>2. Counting(u)' = Counting(u)
        BY <2>1, <2>2, <3>2 DEF Counting
      <4>3. Countable(u)' => Countable(u)
        BY <1>0, <2>2, <4>1 DEF Countable, LockedAt, Readable, TypeOK
      <4>. QED BY <1>0, <2>2, <3>1, <4>1, <4>2, <4>3, KnownStays DEF Readable
    <3>3. CASE w = u
      <4>1. put[u] = "done" /\ KnownOf(u) /\ Countable(u)
        BY <1>0, <2>1, <2>2, <3>3 DEF Countable, LockedAt
      <4>2. recorded'[u] = recorded[u] + 1 /\ served'[u] = served[u] /\ missed'[u] = missed[u]
        BY <1>0, <2>2, <3>3 DEF TypeOK
      <4>3. r \in Counting(u) /\ Counting(u)' = Counting(u) \ {r}
        BY <2>1, <2>2, <3>3 DEF Counting
      <4>4. Cardinality(Counting(u)') = Cardinality(Counting(u)) - 1
            /\ Cardinality(Counting(u)) \in Nat
        BY <4>3, PartsOf, OneLess
      <4>5. served'[u] = recorded'[u] + Cardinality(Counting(u)') + missed'[u]
        BY <1>0, <4>1, <4>2, <4>4 DEF KnownOf
      <4>6. Countable(u)' => recorded'[u] < MaxDownloads[u]
        <5>1. CASE LastDownload(r)
          BY <2>1, <2>2, <3>3, <5>1 DEF Countable, LockedAt
        <5>2. CASE ~LastDownload(r)
          BY <1>0, <2>1, <3>3, <4>2, <5>2 DEF LastDownload
        <5>. QED BY <5>1, <5>2
      <4>7. served'[u] + Cardinality(Transferring(u)')
               < MaxDownloads[u] + Cardinality(Requests) + missed'[u]
        BY <3>1, <4>1, <4>2 DEF KnownOf
      <4>. QED BY <4>5, <4>6, <4>7 DEF KnownOf
    <3>. QED BY <3>2, <3>3
  <2>3. CASE /\ UNCHANGED <<put, meta, recorded, expired, served, condemned>>
             /\ HangUp(r) /\ Finish(r) /\ Unlock(r)
    <3>1. Transferring(u)' = Transferring(u)
      BY <1>0, <2>1, <2>3 DEF Transferring, TypeOK
    <3>2. CASE w # u
      <4>1. lock[u] # r /\ lock'[u] = lock[u] /\ missed'[u] = missed[u]
        BY <1>0, <2>1, <2>3, <3>2 DEF HangUp, Unlock, TypeOK, IInv, CountInv, LocksHeld
      <4>2. Counting(u)' = Counting(u)
        BY <1>0, <2>1, <2>3, <3>2 DEF Counting, TypeOK
      <4>3. Countable(u)' => Countable(u)
        BY <1>0, <2>3, <4>1 DEF Countable, LockedAt, Readable, TypeOK
      <4>. QED BY <1>0, <2>3, <3>1, <4>1, <4>2, <4>3, KnownStays DEF Readable
    <3>3. CASE w = u
      <4>1. put[u] = "done" /\ KnownOf(u) /\ Countable(u)
        BY <1>0, <2>1, <2>3, <3>3 DEF Countable, LockedAt
      <4>2. missed'[u] = missed[u] + 1
        BY <1>0, <2>3, <3>3 DEF HangUp, TypeOK
      <4>3. r \in Counting(u) /\ Counting(u)' = Counting(u) \ {r}
        BY <1>0, <2>1, <2>3, <3>3 DEF Counting, TypeOK
      <4>4. Cardinality(Counting(u)') = Cardinality(Counting(u)) - 1
            /\ Cardinality(Counting(u)) \in Nat
        BY <4>3, PartsOf, OneLess
      <4>5. served'[u] + Cardinality(Transferring(u)')
               < MaxDownloads[u] + Cardinality(Requests) + missed'[u]
        BY <1>0, <2>3, <3>1, <4>1, <4>2, PartsOf DEF KnownOf
      <4>. QED BY <1>0, <2>3, <4>1, <4>2, <4>4, <4>5 DEF KnownOf
    <3>. QED BY <3>2, <3>3
  <2>. QED BY <1>0, <1>9, <2>2, <2>3, FaultDisturbs DEF RecordDownload, TypeOK
<1>10. ASSUME NEW r \in Requests, RemoveMetadata(r) \/ RemovePayload(r) \/ Account(r)
       PROVE  KnownOf(u)'
  <2>1. /\ pc[r] \in {"removeMeta", "removePayload", "account"}
        /\ pc'[r] \in {"removePayload", "account", "idle"}
        /\ \A q \in Requests : q # r => pc'[q] = pc[q] /\ on'[q] = on[q]
        /\ UNCHANGED <<put, expired, served, recorded, missed, condemned>>
        /\ Readable(u)' => Readable(u)
    BY <1>0, <1>10, FaultDisturbs
       DEF RemoveMetadata, RemovePayload, Account, Readable, TypeOK, GiveUp
  <2>2. Counting(u)' = Counting(u) /\ Transferring(u)' = Transferring(u)
    BY <2>1 DEF Counting, Transferring
  <2>3. lock'[u] = lock[u] \/ (lock'[u] = Nil /\ lock[u] = r /\ pc[r] = "account" /\ meta' = meta)
    BY <1>0, <1>10, FaultDisturbs
       DEF RemoveMetadata, RemovePayload, Account, Unlock, GiveUp, TypeOK
  <2>4. Countable(u)' => Countable(u)
    <3>1. CASE lock'[u] = lock[u]
      BY <1>0, <2>1, <3>1 DEF Countable, LockedAt, TypeOK
    <3>2. CASE lock'[u] = Nil /\ lock[u] = r /\ pc[r] = "account" /\ meta' = meta
      <4>1. ~Readable(u)
        BY <1>0, <2>1, <3>2 DEF PairsKnown, LockedAt
      <4>. QED BY <3>2, <4>1 DEF Countable, LockedAt, Readable
    <3>. QED BY <2>3, <3>1, <3>2
  <2>. QED BY <1>0, <2>1, <2>2, <2>4, KnownStays
<1>11. ASSUME UNCHANGED vars PROVE KnownOf(u)'
  BY <1>0, <1>11, KnownStays DEF vars, Counting, Transferring, Countable, LockedAt, Readable
<1>. QED
  BY <1>0, <1>1, <1>2, <1>3, <1>4, <1>5, <1>6, <1>7, <1>8, <1>9, <1>10, <1>11, CrashDisturbs
     DEF Next, PutStep, RequestStep

-------------------------------------------------------------------------------
(* The invariant and what follows from it *)

LEMMA SafeInit == Init => SafeInv
<1>. SUFFICES ASSUME Init PROVE SafeInv
  OBVIOUS
<1>1. PutInv /\ KeepInv /\ PairsKnown /\ TransfersKnown
  BY DEF Init, PutInv, PutKnows, RollbackCleans, Readable, KeepInv, RemovalJustified,
         KeptWhileGood, Good, Removing, PairsKnown, TransfersKnown
<1>2. Settled = {} /\ Published = {} /\ GivingBack = {}
  BY DEF Init, Settled, Published, Payloads, GivingBack
<1>3. UsedIsCovered
  BY <1>2, FS_EmptySet DEF Init, UsedIsCovered
<1>. QED BY <1>1, <1>3 DEF SafeInv

LEMMA SafeInvariance == Spec => []SafeInv
<1>1. IInv /\ IInv' /\ SafeInv /\ [Next]_vars => SafeInv'
  BY PutStepInv, KeepStepInv, PairsStepInv, CoverStepInv, TransferStepInv DEF SafeInv
<1>. QED BY Invariance, SafeInit, <1>1, PTL DEF Spec

\* A good upload keeps its payload whatever fails and whenever the server dies,
\* and its sidecar decodes, but for one case: on the local backend, a limited
\* upload whose sidecar increaseDownload was rewriting when the write failed or
\* the server died.
THEOREM GoodIsKept == Spec => []KeptWhileGood
<1>1. SafeInv => KeptWhileGood
  BY DEF SafeInv, KeepInv
<1>. QED BY SafeInvariance, <1>1, PTL

\* Sidecar and payload of a finished upload appear and disappear together for
\* whoever takes the lock, as purgeExpired and increaseDownload hold it.
THEOREM PairsStayTogether == Spec => []PairsUnderLock
<1>1. SafeInv => PairsUnderLock
  BY DEF SafeInv, PairsKnown, PairsUnderLock
<1>. QED BY SafeInvariance, <1>1, PTL

\* store(): one failing storage call leaves nothing of a failed PUT behind.
THEOREM FailedPutIsCleaned == Spec => []RollbackCleans
<1>1. SafeInv => RollbackCleans
  BY DEF SafeInv, PutInv
<1>. QED BY SafeInvariance, <1>1, PTL

\* storageQuota: the counter exceeds the payloads by what requests are about to
\* give back and by the sidecars measured at the start, and it falls short of the
\* published ones only by what has been given back twice since.
THEOREM QuotaIsAccounted == Spec => []QuotaAccounted
<1>1. IInv /\ SafeInv => QuotaAccounted
  <2>. SUFFICES ASSUME IInv, SafeInv PROVE QuotaAccounted
    OBVIOUS
  <2>1. /\ Settled \subseteq Payloads /\ Payloads \in SUBSET Uploads
        /\ Settled \in SUBSET Uploads /\ GivingBack \in SUBSET Requests
    BY DEF Settled, Payloads, GivingBack
  <2>2. Cardinality(Settled) <= Cardinality(Payloads)
    BY <2>1, FiniteParts, FS_Subset
  <2>3. used \in Nat /\ measured \in Nat /\ UsedIsCovered
    BY DEF IInv, TypeOK, SafeInv
  <2>. QED BY <2>1, <2>2, <2>3, FiniteParts DEF UsedIsCovered, QuotaAccounted, Published
<1>. QED BY Invariance, SafeInvariance, <1>1, PTL

\* Every transfer served is recorded or about to be, and the served ones exceed
\* the budget by less than the number of requests, however they overlap between
\* getHandler's check and increaseDownload.
THEOREM TransfersAreAccounted == Spec => []TransfersAccounted
<1>1. IInv /\ SafeInv => TransfersAccounted
  <2>. SUFFICES ASSUME IInv, SafeInv, NEW u \in Uploads, Undisturbed, Limited(u)
                PROVE  /\ Readable(u) /\ ~expired[u] /\ u \notin condemned =>
                              served[u] = meta[u] + Cardinality(Counting(u)) + missed[u]
                       /\ served[u] < MaxDownloads[u] + Cardinality(Requests) + missed[u]
    BY DEF TransfersAccounted, EveryTransferCounts, BoundedExcess
  <2>1. /\ MaxDownloads[u] \in Nat \ {0} /\ Cardinality(Requests) \in Nat
        /\ served[u] \in Nat /\ missed[u] \in Nat /\ (Readable(u) => meta[u] = recorded[u])
    BY FS_CardinalityType DEF IInv, TypeOK, CountInv, NoLostCount, Limited
  <2>2. CASE put[u] = "done"
    <3>1. KnownOf(u)
      BY <2>2 DEF SafeInv, TransfersKnown, KnownOf
    <3>. QED BY <2>1, <3>1, PartsOf DEF KnownOf
  <2>3. CASE put[u] # "done"
    <3>1. served[u] = 0 /\ recorded[u] = 0 /\ missed[u] = 0
      BY <2>3 DEF SafeInv, PutInv, PutKnows, IInv, CountInv, UnpublishedUncounted
    <3>2. Counting(u) = {} /\ Cardinality({}) = 0
      BY <2>3, FS_EmptySet DEF Counting, IInv, CountInv, RequestsRefer
    <3>. QED BY <2>1, <3>1, <3>2
  <2>. QED BY <2>2, <2>3
<1>. QED BY Invariance, SafeInvariance, <1>1, PTL
===============================================================================
