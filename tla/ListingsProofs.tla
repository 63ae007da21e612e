---------------------------- MODULE ListingsProofs ----------------------------
(***************************************************************************)
(* Proofs about Listings, for any uploads, collections, requests and       *)
(* limits, either backend, and any number of faults: the owner's index     *)
(* loses no entry, keeps the order of recording and forgets what is gone;  *)
(* neither list answers with what was gone; a collection keeps its live    *)
(* members.                                                                *)
(*                                                                         *)
(* Why an invariant is needed: an index or a collection is written from a  *)
(* list that was read earlier, so what is right about the stored list has  *)
(* to be carried by the locals of every request between its reading and    *)
(* its writing.  For the index the owner's lock keeps the stored list as   *)
(* it was read; for a collection nothing does, and what saves its members  *)
(* is that an upload removed, or expired, is so for good: a sidecar that   *)
(* comes back belongs to an upload that was removed.                       *)
(***************************************************************************)
EXTENDS Listings, SequenceTheorems, TLAPS

USE LimitAssumption, BackendAssumption, SetAssumption, BoundAssumption,
    NilAssumption, AbsentAssumption

\* The upload was answered: it is listed for good, and can only go.
Settled(u) == upload[u] \in {"live", "gone"}

\* The places inside the owner's lock; those that write the index; those between
\* the reading of a collection and the end of that reading.
InLock == {"entries", "truncateIndex", "saveIndex"}
Writing == {"truncateIndex", "saveIndex"}
Reading == {"members", "remove", "forget"} \cup Writing
Replacing == {"truncateColl", "saveColl"}

-------------------------------------------------------------------------------
(* Where requests are. *)

ShapeOf(r) ==
    /\ req[r].pc = "idle" => req[r] = Idle
    /\ req[r].pc \in {"record", "count", "remove", "forget"} => req[r].on \in Uploads
    /\ req[r].pc \in {"create", "members", "truncateColl", "removeColl", "removeEmpty"}
          => req[r].col \in Collections /\ req[r].on = Nil
    /\ req[r].pc \in {"record", "count", "entries"} => req[r].col = Nil
    /\ req[r].pc = "entries" => req[r].on = Nil

\* What a request knows of the upload it is about.
KnownTo(r) ==
    /\ req[r].pc = "record" => upload[req[r].on] = "stored"
    /\ req[r].pc \in {"count", "remove"} => Settled(req[r].on)
    /\ req[r].pc = "forget" => upload[req[r].on] = "gone"
    /\ req[r].pc \in Writing /\ req[r].on # Nil => upload[req[r].on] \in {"stored", "gone"}

HoldsOwner(r) == req[r].pc \in InLock <=> ownerLock = r

Shape == \A r \in Requests : ShapeOf(r)
OwnerHeld == \A r \in Requests : HoldsOwner(r)
UploadKnown == \A r \in Requests : KnownTo(r)

\* An upload whose link is not answered is recorded by one request.
Recorder(r, u) ==
    req[r].pc \in {"record"} \cup Writing /\ req[r].on = u /\ upload[u] = "stored"
OneRecorder ==
    \A u \in Uploads : \A r, q \in Requests : Recorder(r, u) /\ Recorder(q, u) => r = q

Places == Shape /\ OwnerHeld /\ UploadKnown /\ OneRecorder

Lingers == \A u \in lingering : upload[u] = "gone"

-------------------------------------------------------------------------------
(* The steps of the program, by what they are about. *)
IndexStep(r) ==
    \/ RecordOwnership(r) \/ ForgetOwnership(r) \/ ListOwned(r) \/ CheckEntry(r)
    \/ EndEntries(r) \/ TruncateIndex(r) \/ SaveIndex(r)
UploadStep(r) ==
    \/ RemoveUpload(r)
    \/ \E u \in Uploads : Store(r, u) \/ CheckDeletionToken(r, u) \/ FindExpired(r, u)
CollectionStep(r) ==
    \/ CheckReference(r) \/ CheckMember(r) \/ EndMembers(r)
    \/ TruncateCollection(r) \/ SaveCollection(r)
    \/ \E c \in Collections :
          CreateCollection(r, c) \/ OpenCollection(r, c) \/ CheckCollectionToken(r, c)
CountStep(r) == WriteCount(r) \/ \E u \in Uploads : ReadForCount(r, u)
WorldStep == Crash \/ \E u \in Uploads : Expire(u) \/ Sweep(u)

LEMMA Steps ==
    Next <=> \/ WorldStep
             \/ \E r \in Requests :
                   \/ IndexStep(r) \/ UploadStep(r) \/ CountStep(r)
                   \/ CollectionStep(r) \/ RemoveCollection(r)
BY DEF Next, RequestStep, IndexStep, UploadStep, CountStep, CollectionStep, WorldStep

-------------------------------------------------------------------------------
(* The owner's index. *)

\* A list of recorded uploads, newest first; the i-th has i - 1 newer ones at least.
ListingOf(s, o) ==
    /\ \A i \in DOMAIN s : \E k \in DOMAIN o : o[k] = s[i] /\ Len(o) - k >= i - 1
    /\ \A i, j \in DOMAIN s : i < j =>
          \E k, m \in DOMAIN o : m < k /\ o[k] = s[i] /\ o[m] = s[j]

\* Every recorded upload that was not removed is listed, but for those pushed off.
Complete(s, o) ==
    \A i \in DOMAIN o :
        Intact(o[i]) => Contains(s, o[i]) \/ Len(o) - i >= IndexLimit

\* What may be listed: an upload of which nothing was removed, or by the sweep.
Due(u) == Intact(u) \/ u \in swept

\* The order once the request's writing of the index has succeeded, and the list
\* of the entries a listing has kept or not looked at.
OrderAfter(r) == IF Recording(r) THEN Append(order, req[r].on) ELSE order
Left(r) == req[r].kept \o req[r].todo

\* Requests that will drop the upload from the index, or are doing so.
ToForget(u) == \E r \in Requests : req[r].pc = "forget" /\ req[r].on = u
Forgetting(u) ==
    \E r \in Requests : req[r].pc \in {"forget"} \cup Writing /\ req[r].on = u

OrderSound ==
    /\ \A i \in DOMAIN order : Settled(order[i])
    /\ \A i, j \in DOMAIN order : order[i] = order[j] => i = j

\* Whatever fails, the index and what a request makes of it are lists of recorded
\* uploads, newest first.
ListOf(r) ==
    /\ req[r].pc = "entries" => Len(Left(r)) <= IndexLimit /\ ListingOf(Left(r), order)
    /\ req[r].pc \in Writing =>
          Len(req[r].data) <= IndexLimit /\ ListingOf(req[r].data, OrderAfter(r))
ListsSound ==
    /\ index # Torn => Len(index) <= IndexLimit /\ ListingOf(index, order)
    /\ \A r \in Requests : ListOf(r)

\* If nothing has failed, they miss nobody, and name nobody who is not there or
\* swept away or about to be dropped.
KeptOf(r) ==
    /\ req[r].pc = "entries" =>
          Complete(Left(r), order) /\ \A u \in ToSet(Left(r)) : Due(u) \/ ToForget(u)
    /\ req[r].pc \in Writing =>
          /\ Complete(req[r].data, OrderAfter(r))
          /\ \A u \in ToSet(req[r].data) : Due(u) \/ ToForget(u)
IndexKept ==
    /\ index = Torn => \E r \in Requests : req[r].pc = "saveIndex"
    /\ index # Torn =>
          Complete(index, order) /\ \A u \in ToSet(index) : Due(u) \/ Forgetting(u)
AllKept == IndexKept /\ \A r \in Requests : KeptOf(r)

IndexInv == OrderSound /\ ListsSound /\ (Undisturbed => AllKept)

-------------------------------------------------------------------------------
(* Listings in progress. *)

GhostsSound ==
    \A r \in Requests :
        /\ \A u \in req[r].missing : upload[u] = "gone" /\ (u \in lingering => u \in revived)
        /\ req[r].lapsed \subseteq expired

-------------------------------------------------------------------------------
(* Collections. *)

\* A collection without members is being created by one request, or is none.
CreationOf(r) ==
    /\ req[r].pc = "create" =>
          named[req[r].col] = <<>> /\ (req[r].kept # <<>> \/ req[r].todo # <<>>)
    /\ req[r].pc \in Replacing => req[r].kept # <<>>
    /\ req[r].col # Nil /\ req[r].pc \notin {"create"} \cup Replacing
          => named[req[r].col] # <<>>
OneCreator ==
    \A c \in Collections : \A r, q \in Requests :
        req[r].col = c /\ req[q].col = c /\ named[c] = <<>> => r = q
Creation ==
    /\ \A c \in Collections : named[c] = <<>> => coll[c] \in {Absent, Torn}
    /\ OneCreator
    /\ \A r \in Requests : CreationOf(r)

\* Members were answered before the collection was.
KeptSettled(r) == req[r].col # Nil => \A u \in ToSet(req[r].kept) : Settled(u)
MembersSettled ==
    /\ \A c \in Collections : \A u \in ToSet(named[c]) : Settled(u)
    /\ \A r \in Requests : KeptSettled(r)

\* What a request that will write or remove a collection has of a live member.
Has(r, u) ==
    /\ req[r].pc \in Replacing => u \in ToSet(req[r].kept)
    /\ req[r].pc \in Reading => u \in ToSet(req[r].kept) \cup ToSet(req[r].todo)
    /\ req[r].pc # "removeEmpty"

MemberKept(c, u) ==
    /\ coll[c] # Absent
    /\ coll[c] = Torn => \E r \in Requests : req[r].pc = "saveColl" /\ req[r].col = c
    /\ coll[c] # Torn => Contains(coll[c], u)
    /\ \A r \in Requests : req[r].col = c => Has(r, u)

Alive(u) == upload[u] = "live" /\ u \notin expired

CollectionsKept ==
    \A c \in Collections \ deleted : \A u \in ToSet(named[c]) : Alive(u) => MemberKept(c, u)

CollInv == Creation /\ MembersSettled /\ (Undisturbed => CollectionsKept)

-------------------------------------------------------------------------------
(* Sequences *)

LEMMA SeqFacts ==
    ASSUME NEW S, NEW s \in Seq(S)
    PROVE  /\ Len(s) \in Nat /\ DOMAIN s = 1..Len(s)
           /\ \A i \in 1..Len(s) : s[i] \in S
           /\ s = <<>> <=> Len(s) = 0
BY LenProperties, ElementOfSeq, EmptySeq

LEMMA HeadAndTail ==
    ASSUME NEW S, NEW s \in Seq(S), s # <<>>
    PROVE  /\ Head(s) \in S /\ Head(s) = s[1] /\ Tail(s) \in Seq(S)
           /\ Len(s) > 0 /\ Len(Tail(s)) = Len(s) - 1
           /\ \A i \in 1..(Len(s) - 1) : Tail(s)[i] = s[i + 1]
BY SeqFacts, HeadTailProperties

LEMMA TrimTyped ==
    ASSUME NEW s \in Seq(Uploads) PROVE Trim(s) \in Seq(Uploads)
<1>1. Len(s) \in Nat
  BY SeqFacts
<1>2. CASE Len(s) > IndexLimit
  <2>1. SubSeq(s, 1, IndexLimit) \in Seq(Uploads)
    BY <1>1, <1>2, SubSeqProperties
  <2>. QED BY <1>2, <2>1 DEF Trim
<1>. QED BY <1>2 DEF Trim

LEMMA ListMembers ==
    ASSUME NEW S, NEW s \in Seq(S), NEW e
    PROVE  /\ e \in ToSet(s) <=> \E i \in 1..Len(s) : s[i] = e
           /\ Contains(s, e) <=> e \in ToSet(s)
BY SeqFacts DEF ToSet, Contains

\* What RemoveAt leaves of a list.
LEMMA WithoutOne ==
    ASSUME NEW s \in Seq(Uploads), NEW i \in 1..Len(s)
    PROVE  LET t == RemoveAt(s, i) IN
           /\ t \in Seq(Uploads) /\ Len(t) = Len(s) - 1
           /\ \A j \in 1..Len(t) : t[j] = IF j < i THEN s[j] ELSE s[j + 1]
<1>. DEFINE a == SubSeq(s, 1, i - 1)
            b == SubSeq(s, i + 1, Len(s))
<1>1. Len(s) \in Nat /\ i \in Nat /\ 1 <= i /\ i <= Len(s)
  BY SeqFacts
<1>2. /\ a \in Seq(Uploads) /\ Len(a) = i - 1
      /\ \A j \in 1..(i - 1) : a[j] = s[j]
  BY <1>1, SubSeqProperties
<1>3. /\ b \in Seq(Uploads) /\ Len(b) = Len(s) - i
      /\ \A j \in 1..(Len(s) - i) : b[j] = s[i + j]
  BY <1>1, SubSeqProperties
<1>4. RemoveAt(s, i) = a \o b
  BY DEF RemoveAt
<1>. HIDE DEF a, b
<1>5. /\ a \o b \in Seq(Uploads) /\ Len(a \o b) = Len(a) + Len(b)
      /\ \A j \in 1..Len(a) + Len(b) :
            (a \o b)[j] = IF j <= Len(a) THEN a[j] ELSE b[j - Len(a)]
  BY <1>2, <1>3, ConcatProperties
<1>6. Len(a \o b) = Len(s) - 1
  BY <1>1, <1>2, <1>3, <1>5
<1>7. \A j \in 1..(Len(s) - 1) : (a \o b)[j] = IF j < i THEN s[j] ELSE s[j + 1]
  BY <1>1, <1>2, <1>3, <1>5
<1>. QED BY <1>4, <1>5, <1>6, <1>7

LEMMA WithoutTyped ==
    ASSUME NEW s \in Seq(Uploads), NEW u, Contains(s, u)
    PROVE  \E i \in 1..Len(s) : s[i] = u /\ Without(s, u) = RemoveAt(s, i)
<1>1. DOMAIN s = 1..Len(s) /\ \E i \in 1..Len(s) : s[i] = u
  BY SeqFacts DEF Contains
<1>. QED BY <1>1 DEF Without

-------------------------------------------------------------------------------
(* The locals of a request *)

\* What is left of TypeOK without the locals of the requests.
StateTyped ==
    /\ upload \in [Uploads -> {"new", "stored", "live", "gone"}]
    /\ lingering \subseteq Uploads
    /\ expired \subseteq Uploads
    /\ index \in Seq(Uploads) \cup {Torn}
    /\ coll \in [Collections -> Seq(Uploads) \cup {Absent, Torn}]
    /\ ownerLock \in Requests \cup {Nil}
    /\ uploadLock \in [Uploads -> Requests \cup {Nil}]
    /\ faults \in 0..MaxFaults
    /\ order \in Seq(Uploads)
    /\ named \in [Collections -> Seq(Uploads)]
    /\ deleted \subseteq Collections
    /\ swept \subseteq Uploads
    /\ revived \subseteq Uploads
ReqTyped == req \in [Requests -> Locals]

LEMMA Types == TypeOK <=> StateTyped /\ ReqTyped
BY DEF TypeOK, StateTyped, ReqTyped

LEMMA IdleTyped == Idle \in Locals
BY DEF Idle, Locals, Place

LEMMA InLocals == ASSUME ReqTyped, NEW r \in Requests PROVE req[r] \in Locals
BY DEF ReqTyped

LEMMA Fields ==
    ASSUME ReqTyped, NEW r \in Requests
    PROVE  /\ req[r] \in Locals
           /\ req[r].pc \in Place
           /\ req[r].on \in Uploads \cup {Nil} /\ req[r].col \in Collections \cup {Nil}
           /\ req[r].read \in Seq(Uploads) /\ req[r].todo \in Seq(Uploads)
           /\ req[r].kept \in Seq(Uploads) /\ req[r].data \in Seq(Uploads)
           /\ req[r].missing \in SUBSET Uploads /\ req[r].lapsed \in SUBSET Uploads
BY DEF ReqTyped, Locals

\* Only the request that moves has other locals.
OthersStay(r) == \A q \in Requests \ {r} : req'[q] = req[q]

LEMMA Becomes ==
    ASSUME ReqTyped, NEW r \in Requests, NEW locals \in Locals, Become(r, locals)
    PROVE  ReqTyped' /\ req'[r] = locals /\ \A q \in Requests \ {r} : req'[q] = req[q]
BY DEF ReqTyped, Become

LEMMA HeadTyped ==
    ASSUME ReqTyped, NEW r \in Requests, req[r].todo # <<>>
    PROVE  /\ Head(req[r].todo) \in Uploads /\ Tail(req[r].todo) \in Seq(Uploads)
           /\ Append(req[r].kept, Head(req[r].todo)) \in Seq(Uploads)
BY Fields, HeadAndTail, AppendProperties

\* The locals an entry or a member at hand leaves.
LEMMA Looked ==
    ASSUME ReqTyped, NEW r \in Requests, req[r].todo # <<>>
    PROVE  Keep(r) \in Locals /\ Drop(r) \in Locals /\ PassOver(r) \in Locals
BY Fields, HeadTyped DEF Keep, Drop, PassOver, Locals

LEMMA IdleFields ==
    /\ Idle.pc = "idle" /\ Idle.on = Nil /\ Idle.col = Nil
    /\ Idle.todo = <<>> /\ Idle.kept = <<>> /\ Idle.missing = {} /\ Idle.lapsed = {}
BY DEF Idle

LEMMA LookedFields ==
    ASSUME ReqTyped, NEW r \in Requests, NEW k \in {Keep(r), Drop(r), PassOver(r)}
    PROVE  /\ k.pc = req[r].pc /\ k.on = req[r].on /\ k.col = req[r].col
           /\ k.read = req[r].read /\ k.missing = req[r].missing
           /\ k.lapsed = req[r].lapsed /\ k.todo = Tail(req[r].todo)
           /\ Keep(r).kept = Append(req[r].kept, Head(req[r].todo))
           /\ Drop(r).kept = req[r].kept /\ PassOver(r).kept = req[r].kept
<1>1. req[r] \in Locals
  BY Fields
<1>. QED BY <1>1 DEF Keep, Drop, PassOver, Locals

LEMMA MovedTo ==
    ASSUME ReqTyped, NEW r \in Requests, NEW p \in Place
    PROVE  [req[r] EXCEPT !.pc = p] \in Locals
<1>1. req[r] \in Locals
  BY InLocals
<1>. QED BY <1>1 DEF Locals

LEMMA Moved ==
    ASSUME ReqTyped, NEW r \in Requests, NEW p \in Place, NEW u \in Uploads
    PROVE  [req[r] EXCEPT !.pc = p, !.on = u, !.col = Nil] \in Locals
<1>1. req[r] \in Locals
  BY InLocals
<1>. QED BY <1>1 DEF Locals

LEMMA WriteTyped ==
    ASSUME ReqTyped, NEW r \in Requests, NEW s \in Seq(Uploads), WriteIndex(r, s)
    PROVE  /\ ReqTyped' /\ OthersStay(r) /\ ownerLock' = r
           /\ req'[r].pc = (IF Local THEN "truncateIndex" ELSE "saveIndex")
           /\ req'[r].pc \in Writing
           /\ req'[r].on = req[r].on /\ req'[r].col = req[r].col /\ req'[r].data = Trim(s)
           /\ req[r].col # Nil =>
                 /\ req'[r].kept = req[r].kept /\ req'[r].todo = req[r].todo
                 /\ req'[r].read = req[r].read
                 /\ req'[r].missing = req[r].missing /\ req'[r].lapsed = req[r].lapsed
           /\ req[r].col = Nil =>
                 req'[r].kept = <<>> /\ req'[r].missing = {} /\ req'[r].lapsed = {}
<1>. DEFINE locals == IF req[r].col = Nil THEN [Idle EXCEPT !.on = req[r].on] ELSE req[r]
            new == [locals EXCEPT !.pc = IF Local THEN "truncateIndex" ELSE "saveIndex",
                                  !.data = Trim(s)]
<1>1. Trim(s) \in Seq(Uploads) /\ req[r] \in Locals /\ Idle \in Locals
  BY TrimTyped, Fields, IdleTyped
<1>2. locals \in Locals
  BY <1>1, Fields DEF Locals
<1>3. new \in Locals
  BY <1>1, <1>2 DEF Locals, Place
<1>4. ownerLock' = r /\ Become(r, new)
  BY DEF WriteIndex
<1>5. ReqTyped' /\ req'[r] = new /\ \A q \in Requests \ {r} : req'[q] = req[q]
  BY <1>3, <1>4, Becomes
<1>6. /\ new.pc = (IF Local THEN "truncateIndex" ELSE "saveIndex") /\ new.data = Trim(s)
      /\ new.pc \in Writing
      /\ new.on = locals.on /\ new.col = locals.col /\ new.kept = locals.kept
      /\ new.todo = locals.todo /\ new.read = locals.read
      /\ new.missing = locals.missing /\ new.lapsed = locals.lapsed
  BY <1>2 DEF Locals, Writing
<1>7. /\ locals.on = req[r].on /\ locals.col = req[r].col
      /\ req[r].col # Nil => locals = req[r]
      /\ req[r].col = Nil =>
            locals.kept = <<>> /\ locals.missing = {} /\ locals.lapsed = {}
  BY <1>1, Fields DEF Idle, Locals
<1>. QED BY <1>4, <1>5, <1>6, <1>7 DEF OthersStay

LEMMA ReturnTyped ==
    ASSUME ReqTyped, NEW r \in Requests, Return(r)
    PROVE  /\ ReqTyped' /\ \A q \in Requests \ {r} : req'[q] = req[q]
           /\ req[r].col = Nil => req'[r] = Idle
           /\ req[r].col # Nil =>
                 req'[r] = [req[r] EXCEPT !.pc = "members", !.on = Nil, !.data = <<>>]
<1>1. [req[r] EXCEPT !.pc = "members", !.on = Nil, !.data = <<>>] \in Locals
  BY Fields, EmptySeq DEF Locals, Place
<1>. QED BY <1>1, Becomes, IdleTyped DEF Return

LEMMA LocksReleased ==
    ASSUME StateTyped, NEW r \in Requests, ReleaseUploads(r)
    PROVE  uploadLock' \in [Uploads -> Requests \cup {Nil}]
BY DEF StateTyped, ReleaseUploads

-------------------------------------------------------------------------------
(* Types *)

LEMMA FaultTyped ==
    ASSUME StateTyped, Fault \/ NoFault \/ UNCHANGED faults
    PROVE  faults' \in 0..MaxFaults
BY DEF StateTyped, Fault, NoFault

LEMMA IndexStepsTyped ==
    ASSUME StateTyped, ReqTyped, Shape, NEW r \in Requests,
           IndexStep(r)
    PROVE  StateTyped' /\ ReqTyped'
<1>. USE DEF StateTyped, locks, history
<1>1. CASE RecordOwnership(r)
  <2>1. req[r].on \in Uploads /\ faults' \in 0..MaxFaults
    BY <1>1, FaultTyped DEF RecordOwnership, Shape, ShapeOf
  <2>2. CASE index # Torn /\ WriteIndex(r, <<req[r].on>> \o index) /\ UNCHANGED upload
    <3>1. <<req[r].on>> \o index \in Seq(Uploads)
      BY <2>1, <2>2, ConcatProperties
    <3>. QED BY <1>1, <2>1, <2>2, <3>1, WriteTyped DEF RecordOwnership
  <2>3. CASE /\ upload' = [upload EXCEPT ![req[r].on] = "live"]
             /\ Finish(r) /\ UNCHANGED ownerLock
    BY <1>1, <2>1, <2>3, Becomes, IdleTyped DEF RecordOwnership, Finish
  <2>. QED BY <1>1, <2>2, <2>3 DEF RecordOwnership
<1>2. CASE ForgetOwnership(r)
  <2>1. faults' \in 0..MaxFaults
    BY <1>2, FaultTyped DEF ForgetOwnership
  <2>2. CASE Listed(req[r].on) /\ WriteIndex(r, Without(index, req[r].on)) /\ UNCHANGED uploadLock
    <3>1. Without(index, req[r].on) \in Seq(Uploads)
      BY <2>2, WithoutTyped, WithoutOne DEF Listed
    <3>. QED BY <1>2, <2>1, <2>2, <3>1, WriteTyped DEF ForgetOwnership
  <2>3. CASE Return(r) /\ UNCHANGED ownerLock
    BY <1>2, <2>1, <2>3, ReturnTyped, LocksReleased DEF ForgetOwnership, Return
  <2>. QED BY <1>2, <2>2, <2>3 DEF ForgetOwnership
<1>3. CASE ListOwned(r)
  <2>. DEFINE new == [Idle EXCEPT !.pc = "entries", !.read = index, !.todo = index,
                              !.missing = Gone \cap ToSet(index)]
  <2>1. new \in Locals
    BY <1>3, IdleTyped DEF ListOwned, Locals, Place, Gone
  <2>2. Become(r, new)
    BY <1>3 DEF ListOwned
  <2>3. ReqTyped'
    BY <2>1, <2>2, Becomes
  <2>. QED BY <1>3, <2>3 DEF ListOwned
<1>4. CASE CheckEntry(r)
  <2>1. Become(r, Keep(r)) \/ Become(r, Drop(r))
    BY <1>4 DEF CheckEntry
  <2>2. ReqTyped'
    BY <1>4, <2>1, Looked, Becomes DEF CheckEntry
  <2>3. faults' \in 0..MaxFaults
    BY <1>4, FaultTyped DEF CheckEntry
  <2>. QED BY <1>4, <2>2, <2>3 DEF CheckEntry
<1>5. CASE EndEntries(r)
  <2>1. ReqTyped' /\ ownerLock' \in Requests \cup {Nil}
    BY <1>5, WriteTyped, Fields, Becomes, IdleTyped DEF EndEntries, Finish
  <2>. QED BY <1>5, <2>1 DEF EndEntries
<1>6. CASE EndWrite(r) /\ (TruncateIndex(r) \/ SaveIndex(r))
  <2>1. ReqTyped' /\ uploadLock' \in [Uploads -> Requests \cup {Nil}] /\ ownerLock' = Nil
    BY <1>6, ReturnTyped, LocksReleased DEF EndWrite, Return
  <2>2. upload' \in [Uploads -> {"new", "stored", "live", "gone"}]
    BY <1>6 DEF EndWrite
  <2>3. faults' \in 0..MaxFaults
    BY <1>6, FaultTyped DEF TruncateIndex, SaveIndex
  <2>4. index' \in Seq(Uploads) \cup {Torn}
    BY <1>6, Fields DEF TruncateIndex, SaveIndex
  <2>5. Recording(r) => Append(order, req[r].on) \in Seq(Uploads)
    BY Fields, AppendProperties DEF Recording
  <2>6. order' \in Seq(Uploads)
    BY <1>6, <2>5 DEF TruncateIndex, SaveIndex
  <2>. QED BY <1>6, <2>1, <2>2, <2>3, <2>4, <2>6 DEF TruncateIndex, SaveIndex
<1>7. CASE TruncateIndex(r) /\ ~EndWrite(r)
  <2>1. [req[r] EXCEPT !.pc = "saveIndex"] \in Locals
    BY MovedTo DEF Place
  <2>2. ReqTyped'
    BY <1>7, <2>1, Becomes DEF TruncateIndex
  <2>3. faults' \in 0..MaxFaults
    BY <1>7, FaultTyped DEF TruncateIndex
  <2>. QED BY <1>7, <2>2, <2>3 DEF TruncateIndex
<1>8. SaveIndex(r) => EndWrite(r)
  BY DEF SaveIndex
<1>. QED BY <1>1, <1>2, <1>3, <1>4, <1>5, <1>6, <1>7, <1>8 DEF IndexStep

LEMMA UploadStepsTyped ==
    ASSUME StateTyped, ReqTyped, Shape, NEW r \in Requests, UploadStep(r)
    PROVE  StateTyped' /\ ReqTyped'
<1>. USE DEF StateTyped, locks, history
<1>1. ASSUME NEW u \in Uploads, Store(r, u) \/ CheckDeletionToken(r, u)
      PROVE  StateTyped' /\ ReqTyped'
  <2>1. \A p \in Place : [Idle EXCEPT !.pc = p, !.on = u] \in Locals
    BY IdleTyped DEF Locals
  <2>2. ReqTyped'
    BY <1>1, <2>1, Becomes DEF Store, CheckDeletionToken, Place
  <2>3. upload' \in [Uploads -> {"new", "stored", "live", "gone"}]
    BY <1>1 DEF Store, CheckDeletionToken
  <2>. QED BY <1>1, <2>2, <2>3 DEF Store, CheckDeletionToken
<1>2. ASSUME NEW u \in Uploads, FindExpired(r, u) PROVE StateTyped' /\ ReqTyped'
  <2>1. [req[r] EXCEPT !.pc = "remove", !.on = u, !.col = Nil] \in Locals
    BY Moved DEF Place
  <2>2. ReqTyped'
    BY <1>2, <2>1, Becomes DEF FindExpired, BeginPurge
  <2>. QED BY <1>2, <2>2 DEF FindExpired, BeginPurge
<1>3. CASE RemoveUpload(r)
  <2>1. [req[r] EXCEPT !.pc = "forget"] \in Locals
    BY MovedTo DEF Place
  <2>2. ReqTyped' /\ uploadLock' \in [Uploads -> Requests \cup {Nil}]
    BY <1>3, <2>1, Becomes, ReturnTyped, LocksReleased DEF RemoveUpload, Return
  <2>3. faults' \in 0..MaxFaults
    BY <1>3, FaultTyped DEF RemoveUpload
  <2>4. upload' \in [Uploads -> {"new", "stored", "live", "gone"}]
    BY <1>3 DEF RemoveUpload
  <2>5. lingering' \subseteq Uploads
    BY <1>3 DEF RemoveUpload, Shape, ShapeOf
  <2>. QED BY <1>3, <2>2, <2>3, <2>4, <2>5 DEF RemoveUpload
<1>. QED BY <1>1, <1>2, <1>3 DEF UploadStep

LEMMA CountStepsTyped ==
    ASSUME StateTyped, ReqTyped, Shape, NEW r \in Requests, CountStep(r)
    PROVE  StateTyped' /\ ReqTyped'
<1>. USE DEF StateTyped, locks, history
<1>1. ASSUME NEW u \in Uploads, ReadForCount(r, u) PROVE StateTyped' /\ ReqTyped'
  <2>1. [Idle EXCEPT !.pc = "count", !.on = u] \in Locals
    BY IdleTyped DEF Locals, Place
  <2>2. ReqTyped'
    BY <1>1, <2>1, Becomes DEF ReadForCount
  <2>. QED BY <1>1, <2>2 DEF ReadForCount
<1>2. CASE WriteCount(r)
  <2>1. req[r].on \in Uploads
    BY <1>2 DEF WriteCount, Shape, ShapeOf
  <2>2. [req[r] EXCEPT !.pc = "remove"] \in Locals
    BY MovedTo DEF Place
  <2>3. ReqTyped' /\ uploadLock' \in [Uploads -> Requests \cup {Nil}]
    <3>1. CASE Return(r)
      BY <3>1, ReturnTyped, LocksReleased DEF Return
    <3>2. CASE Become(r, [req[r] EXCEPT !.pc = "remove"]) /\ UNCHANGED uploadLock
      BY <2>2, <3>2, Becomes
    <3>. QED BY <1>2, <3>1, <3>2 DEF WriteCount
  <2>4. faults' \in 0..MaxFaults
    BY <1>2, FaultTyped DEF WriteCount
  <2>5. /\ lingering' \subseteq Uploads /\ revived' \subseteq Uploads
        /\ expired' \subseteq Uploads
    BY <1>2, <2>1 DEF WriteCount
  <2>. QED BY <1>2, <2>3, <2>4, <2>5 DEF WriteCount
<1>. QED BY <1>1, <1>2 DEF CountStep

LEMMA WorldStepsTyped ==
    ASSUME StateTyped, ReqTyped, WorldStep
    PROVE  StateTyped' /\ ReqTyped'
<1>. USE DEF StateTyped, locks, history
<1>1. ASSUME NEW u \in Uploads, Expire(u) PROVE StateTyped' /\ ReqTyped'
  BY <1>1 DEF Expire, ReqTyped
<1>2. CASE Crash
  BY <1>2, FaultTyped, IdleTyped DEF Crash, ReqTyped
<1>3. ASSUME NEW u \in Uploads, Sweep(u) PROVE StateTyped' /\ ReqTyped'
  BY <1>3 DEF Sweep, ReqTyped
<1>. QED BY <1>1, <1>2, <1>3 DEF WorldStep

LEMMA RefListTyped ==
    ASSUME NEW refs \in RefLists PROVE refs \in Seq(Uploads) /\ Len(refs) > 0
<1>1. PICK n \in 1..MaxFiles : refs \in [1..n -> Uploads]
  BY DEF RefLists
<1>2. refs \in Seq(Uploads) /\ DOMAIN refs = 1..n /\ n \in Nat /\ n > 0
  BY <1>1, SeqDef
<1>3. Len(refs) \in Nat /\ 1..Len(refs) = 1..n
  BY <1>2, LenProperties
<1>. QED BY <1>2, <1>3

LEMMA CollectionStepsTyped ==
    ASSUME StateTyped, ReqTyped, Shape, NEW r \in Requests, CollectionStep(r) \/ RemoveCollection(r)
    PROVE  StateTyped' /\ ReqTyped'
<1>. USE DEF StateTyped, locks, history
<1>1. CASE CheckReference(r)
  <2>1. faults' \in 0..MaxFaults
    BY <1>1, FaultTyped DEF CheckReference
  <2>2. Head(req[r].todo) \in Uploads /\ Keep(r) \in Locals
    BY <1>1, HeadTyped, Looked DEF CheckReference
  <2>3. [req[r] EXCEPT !.pc = "remove", !.on = Head(req[r].todo), !.col = Nil] \in Locals
    BY <2>2, Fields DEF Locals, Place
  <2>4. ReqTyped'
    BY <1>1, <2>2, <2>3, Becomes, IdleTyped DEF CheckReference, BeginPurge, Finish
  <2>5. uploadLock' \in [Uploads -> Requests \cup {Nil}]
    BY <1>1, <2>2 DEF CheckReference, BeginPurge
  <2>. QED BY <1>1, <2>1, <2>4, <2>5 DEF CheckReference, BeginPurge
<1>2. CASE CheckMember(r)
  <2>1. faults' \in 0..MaxFaults
    BY <1>2, FaultTyped DEF CheckMember
  <2>2. Head(req[r].todo) \in Uploads /\ Keep(r) \in Locals /\ PassOver(r) \in Locals
    BY <1>2, HeadTyped, Looked DEF CheckMember
  <2>3. [PassOver(r) EXCEPT !.pc = "remove", !.on = Head(req[r].todo)] \in Locals
    BY <2>2 DEF Locals, Place
  <2>4. ReqTyped'
    BY <1>2, <2>2, <2>3, Becomes DEF CheckMember
  <2>5. uploadLock' \in [Uploads -> Requests \cup {Nil}]
    BY <1>2, <2>2 DEF CheckMember
  <2>. QED BY <1>2, <2>1, <2>4, <2>5 DEF CheckMember
<1>3. CASE EndMembers(r)
  <2>1. [Idle EXCEPT !.pc = IF Local THEN "truncateColl" ELSE "saveColl",
                     !.col = req[r].col, !.kept = req[r].kept] \in Locals
    BY IdleTyped, Fields DEF Locals, Place
  <2>2. [req[r] EXCEPT !.pc = "removeEmpty"] \in Locals
    BY MovedTo DEF Place
  <2>3. ReqTyped'
    BY <1>3, <2>1, <2>2, Becomes, IdleTyped DEF EndMembers, Finish
  <2>. QED BY <1>3, <2>3 DEF EndMembers
<1>4. CASE TruncateCollection(r)
  <2>1. [req[r] EXCEPT !.pc = "saveColl"] \in Locals
    BY MovedTo DEF Place
  <2>2. ReqTyped'
    BY <1>4, <2>1, Becomes, IdleTyped DEF TruncateCollection, Finish
  <2>3. faults' \in 0..MaxFaults
    BY <1>4, FaultTyped DEF TruncateCollection
  <2>. QED BY <1>4, <2>2, <2>3 DEF TruncateCollection
<1>5. CASE SaveCollection(r)
  <2>1. ReqTyped' /\ faults' \in 0..MaxFaults
    BY <1>5, Becomes, IdleTyped, FaultTyped DEF SaveCollection, Finish
  <2>2. req[r].kept \in Seq(Uploads)
    BY Fields
  <2>3. /\ coll' \in [Collections -> Seq(Uploads) \cup {Absent, Torn}]
        /\ named' \in [Collections -> Seq(Uploads)]
    BY <1>5, <2>2 DEF SaveCollection
  <2>. QED BY <1>5, <2>1, <2>3 DEF SaveCollection
<1>6. CASE RemoveCollection(r)
  <2>1. req[r].col \in Collections
    BY <1>6 DEF RemoveCollection, Shape, ShapeOf
  <2>2. \A q \in Requests : req[q] \in Locals /\ [req[q] EXCEPT !.col = Nil] \in Locals
    <3>. TAKE q \in Requests
    <3>1. req[q] \in Locals
      BY DEF ReqTyped
    <3>. QED BY <3>1 DEF Locals
  <2>3. ReqTyped'
    <3>1. CASE Finish(r)
      BY <3>1, Becomes, IdleTyped DEF Finish
    <3>2. CASE req' = [q \in Requests |->
                        IF q = r THEN Idle
                        ELSE IF Local /\ req[q].pc = "saveColl" /\ req[q].col = req[r].col
                        THEN [req[q] EXCEPT !.col = Nil] ELSE req[q]]
      BY <2>2, <3>2, IdleTyped DEF ReqTyped
    <3>. QED BY <1>6, <3>1, <3>2 DEF RemoveCollection
  <2>4. faults' \in 0..MaxFaults
    BY <1>6, FaultTyped DEF RemoveCollection
  <2>. QED BY <1>6, <2>1, <2>3, <2>4 DEF RemoveCollection
<1>7. ASSUME NEW c \in Collections, CreateCollection(r, c) PROVE StateTyped' /\ ReqTyped'
  <2>1. \A refs \in RefLists : [Idle EXCEPT !.pc = "create", !.col = c, !.todo = refs] \in Locals
    BY IdleTyped, RefListTyped DEF Locals, Place
  <2>2. ReqTyped'
    BY <1>7, <2>1, Becomes DEF CreateCollection
  <2>. QED BY <1>7, <2>2 DEF CreateCollection
<1>8. ASSUME NEW c \in Collections, OpenCollection(r, c) PROVE StateTyped' /\ ReqTyped'
  <2>1. coll[c] \in Seq(Uploads)
    BY <1>8 DEF OpenCollection
  <2>2. [Idle EXCEPT !.pc = "members", !.col = c, !.read = coll[c],
                     !.todo = coll[c], !.missing = Gone \cap ToSet(coll[c]),
                          !.lapsed = expired \cap ToSet(coll[c])] \in Locals
    BY <2>1, IdleTyped DEF Locals, Place, Gone
  <2>3. ReqTyped'
    BY <1>8, <2>2, Becomes DEF OpenCollection
  <2>. QED BY <1>8, <2>3 DEF OpenCollection
<1>9. ASSUME NEW c \in Collections, CheckCollectionToken(r, c) PROVE StateTyped' /\ ReqTyped'
  <2>1. [Idle EXCEPT !.pc = "removeColl", !.col = c] \in Locals
    BY IdleTyped DEF Locals, Place
  <2>2. ReqTyped'
    BY <1>9, <2>1, Becomes DEF CheckCollectionToken
  <2>. QED BY <1>9, <2>2 DEF CheckCollectionToken
<1>. QED BY <1>1, <1>2, <1>3, <1>4, <1>5, <1>6, <1>7, <1>8, <1>9
         DEF CollectionStep

-------------------------------------------------------------------------------
(* Where requests are *)

\* How a step of one request moves uploads: stored by it, answered by the one that
\* records it, or removed.
UploadMoves(r) ==
    \A u \in Uploads :
        \/ upload'[u] = upload[u]
        \/ upload[u] = "new" /\ upload'[u] = "stored"
        \/ Recorder(r, u) /\ upload'[u] = "live"
        \/ Settled(u) /\ upload'[u] = "gone"

\* A step of one request keeps the others in place.
LEMMA PlacesKept ==
    ASSUME StateTyped, ReqTyped, Places, NEW r \in Requests,
           OthersStay(r), UploadMoves(r), ShapeOf(r)', KnownTo(r)', HoldsOwner(r)',
           \A q \in Requests \ {r} : ownerLock' = q <=> ownerLock = q,
           \A u \in Uploads : Recorder(r, u)' => Recorder(r, u) \/ upload[u] = "new"
    PROVE  Places'
<1>1. Shape'
  BY DEF Places, Shape, ShapeOf, OthersStay
<1>2. OwnerHeld'
  BY DEF Places, OwnerHeld, HoldsOwner, OthersStay
<1>3. ASSUME NEW q \in Requests \ {r} PROVE KnownTo(q)'
  <2>1. req'[q] = req[q] /\ KnownTo(q) /\ ShapeOf(q) /\ req[q].on \in Uploads \cup {Nil}
    BY Fields DEF Places, UploadKnown, Shape, OthersStay
  <2>2. \A u \in Uploads : Recorder(r, u) => ~Recorder(q, u)
    BY DEF Places, OneRecorder
  <2>. QED BY <2>1, <2>2 DEF KnownTo, ShapeOf, UploadMoves, Recorder, Settled
<1>4. ASSUME NEW u \in Uploads, NEW p \in Requests, NEW q \in Requests,
             Recorder(p, u)', Recorder(q, u)'
      PROVE  p = q
  <2>1. \A x \in Requests \ {r} : Recorder(x, u)' => Recorder(x, u)
    <3>. TAKE x \in Requests \ {r}
    <3>. HAVE Recorder(x, u)'
    <3>1. req[x].pc \in {"record"} \cup Writing /\ req[x].on = u /\ upload'[u] = "stored"
      BY DEF Recorder, OthersStay
    <3>2. KnownTo(x) /\ u # Nil
      BY DEF Places, UploadKnown
    <3>. QED BY <3>1, <3>2 DEF Recorder, KnownTo, UploadMoves, Settled, Writing
  <2>2. upload[u] = "new" => \A x \in Requests : ~Recorder(x, u)
    BY DEF Recorder
  <2>. QED BY <1>4, <2>1, <2>2 DEF Places, OneRecorder
<1>. QED BY <1>1, <1>2, <1>3, <1>4 DEF Places, UploadKnown, OneRecorder

LEMMA OthersStayBy ==
    ASSUME ReqTyped, NEW r \in Requests, NEW locals, Become(r, locals)
    PROVE  OthersStay(r) /\ req'[r] = locals
BY DEF OthersStay, Become, ReqTyped

LEMMA ReturnFields ==
    ASSUME ReqTyped, NEW r \in Requests, Return(r)
    PROVE  /\ OthersStay(r)
           /\ req[r].col = Nil => req'[r] = Idle
           /\ req[r].col # Nil =>
                 /\ req'[r].pc = "members" /\ req'[r].on = Nil
                 /\ req'[r].col \in Collections /\ req'[r].col = req[r].col
                 /\ req'[r].kept = req[r].kept /\ req'[r].todo = req[r].todo
                 /\ req'[r].read = req[r].read
                 /\ req'[r].missing = req[r].missing /\ req'[r].lapsed = req[r].lapsed
<1>1. CASE req[r].col = Nil
  BY <1>1, ReturnTyped DEF OthersStay
<1>2. CASE req[r].col # Nil
  <2>. DEFINE new == [req[r] EXCEPT !.pc = "members", !.on = Nil, !.data = <<>>]
  <2>1. OthersStay(r) /\ req'[r] = new
    BY <1>2, ReturnTyped DEF OthersStay
  <2>2. req[r] \in Locals /\ req[r].col \in Collections
    BY <1>2, Fields
  <2>3. /\ new.pc = "members" /\ new.on = Nil /\ new.col = req[r].col
        /\ new.kept = req[r].kept /\ new.todo = req[r].todo /\ new.read = req[r].read
        /\ new.missing = req[r].missing /\ new.lapsed = req[r].lapsed
    BY <2>2 DEF Locals
  <2>. QED BY <1>2, <2>1, <2>2, <2>3
<1>. QED BY <1>1, <1>2

LEMMA IdleFits ==
    ASSUME NEW r \in Requests, req'[r] = Idle
    PROVE  ShapeOf(r)' /\ KnownTo(r)' /\ req'[r].pc = "idle"
BY IdleFields DEF ShapeOf, KnownTo, Writing

\* A step that leaves uploads and the owner's lock alone, and whose request is
\* neither at a place that holds that lock nor at one that writes the index.
LEMMA PlacesKeptOutside ==
    ASSUME StateTyped, ReqTyped, Places, NEW r \in Requests,
           OthersStay(r), UNCHANGED <<upload, ownerLock>>, ShapeOf(r)', KnownTo(r)',
           req[r].pc \notin InLock, req'[r].pc \notin InLock \cup {"record"}
    PROVE  Places'
<1>1. UploadMoves(r)
  BY DEF UploadMoves
<1>2. HoldsOwner(r)'
  BY DEF HoldsOwner, Places, OwnerHeld
<1>3. \A u \in Uploads : ~Recorder(r, u)'
  BY DEF Recorder, InLock, Writing
<1>. QED BY <1>1, <1>2, <1>3, PlacesKept

LEMMA CollectionStepsPlaced ==
    ASSUME StateTyped, ReqTyped, Places, Lingers, NEW r \in Requests, CollectionStep(r)
    PROVE  Places'
<1>. USE DEF InLock
<1>1. CASE CheckReference(r)
  <2>1. Head(req[r].todo) \in Uploads /\ UNCHANGED <<upload, ownerLock>>
    BY <1>1, HeadTyped DEF CheckReference
  <2>2. /\ Keep(r).pc = "create" /\ Keep(r).on = Nil /\ Keep(r).col \in Collections
    BY <1>1, LookedFields DEF CheckReference, Places, Shape, ShapeOf
  <2>3. CASE Become(r, Keep(r))
    BY <1>1, <2>1, <2>2, <2>3, OthersStayBy, PlacesKeptOutside
       DEF CheckReference, ShapeOf, KnownTo, Writing
  <2>4. CASE Readable(Head(req[r].todo)) /\ BeginPurge(r, Head(req[r].todo), Nil)
    <3>. DEFINE u == Head(req[r].todo)
                new == [req[r] EXCEPT !.pc = "remove", !.on = u, !.col = Nil]
    <3>1. new.pc = "remove" /\ new.on = u
      BY InLocals DEF Locals
    <3>2. OthersStay(r) /\ req'[r] = new
      BY <2>4, OthersStayBy DEF BeginPurge
    <3>3. Settled(u)
      BY <2>4 DEF Settled, Readable, Lingers
    <3>4. req[r].pc = "create" /\ u \in Uploads
      BY <1>1, <2>1 DEF CheckReference
    <3>. HIDE DEF u, new
    <3>5. ShapeOf(r)' /\ KnownTo(r)'
      BY <2>1, <3>1, <3>2, <3>3, <3>4 DEF ShapeOf, KnownTo, Writing, Settled
    <3>. QED BY <2>1, <3>1, <3>2, <3>4, <3>5, PlacesKeptOutside
  <2>5. CASE Finish(r)
    BY <1>1, <2>1, <2>5, OthersStayBy, IdleFits, PlacesKeptOutside
       DEF CheckReference, Finish
  <2>. QED BY <1>1, <2>3, <2>4, <2>5 DEF CheckReference
<1>2. CASE CheckMember(r)
  <2>1. Head(req[r].todo) \in Uploads /\ UNCHANGED <<upload, ownerLock>>
    BY <1>2, HeadTyped DEF CheckMember
  <2>2. /\ Keep(r).pc = "members" /\ Keep(r).on = Nil /\ Keep(r).col \in Collections
        /\ PassOver(r).pc = "members" /\ PassOver(r).on = Nil
        /\ PassOver(r).col \in Collections
    BY <1>2, LookedFields DEF CheckMember, Places, Shape, ShapeOf
  <2>3. CASE Become(r, Keep(r)) \/ Become(r, PassOver(r))
    BY <1>2, <2>1, <2>2, <2>3, OthersStayBy, PlacesKeptOutside
       DEF CheckMember, ShapeOf, KnownTo, Writing
  <2>4. CASE /\ Readable(Head(req[r].todo))
             /\ Become(r, [PassOver(r) EXCEPT !.pc = "remove", !.on = Head(req[r].todo)])
    <3>. DEFINE u == Head(req[r].todo)
                new == [PassOver(r) EXCEPT !.pc = "remove", !.on = u]
    <3>1. new.pc = "remove" /\ new.on = u
      BY <1>2, Looked DEF Locals, CheckMember
    <3>2. OthersStay(r) /\ req'[r] = new
      BY <2>4, OthersStayBy
    <3>. QED BY <1>2, <2>1, <2>4, <3>1, <3>2, PlacesKeptOutside
             DEF CheckMember, ShapeOf, KnownTo, Writing, Settled, Readable, Lingers
  <2>. QED BY <1>2, <2>3, <2>4 DEF CheckMember
<1>3. CASE EndMembers(r)
  <2>1. req[r].pc \in {"create", "members"} /\ req[r].col \in Collections /\ req[r].on = Nil
    BY <1>3 DEF EndMembers, Places, Shape, ShapeOf
  <2>. DEFINE write == [Idle EXCEPT !.pc = IF Local THEN "truncateColl" ELSE "saveColl",
                                    !.col = req[r].col, !.kept = req[r].kept]
              empty == [req[r] EXCEPT !.pc = "removeEmpty"]
  <2>2. /\ write.pc \in {"truncateColl", "saveColl"} /\ write.on = Nil
        /\ write.col = req[r].col
        /\ empty.pc = "removeEmpty" /\ empty.on = Nil /\ empty.col = req[r].col
    BY <2>1, Fields DEF Idle, Locals
  <2>3. \/ OthersStay(r) /\ req'[r] = write
        \/ OthersStay(r) /\ req'[r] = empty
        \/ OthersStay(r) /\ req'[r] = Idle
    BY <1>3, OthersStayBy DEF EndMembers, Finish
  <2>4. UNCHANGED <<upload, ownerLock>>
    BY <1>3 DEF EndMembers, locks
  <2>. HIDE DEF write, empty
  <2>5. /\ req'[r].pc \in {"truncateColl", "saveColl", "removeEmpty", "idle"}
        /\ req'[r].pc # "idle" => req'[r].on = Nil /\ req'[r].col \in Collections
        /\ req'[r].pc = "idle" => req'[r] = Idle
    BY <2>1, <2>2, <2>3 DEF Idle
  <2>. QED BY <2>1, <2>3, <2>4, <2>5, PlacesKeptOutside DEF ShapeOf, KnownTo, Writing
<1>4. CASE TruncateCollection(r)
  <2>. DEFINE save == [req[r] EXCEPT !.pc = "saveColl"]
  <2>1. save.pc = "saveColl" /\ save.col = req[r].col /\ save.on = req[r].on
    BY InLocals DEF Locals
  <2>2. OthersStay(r) /\ (req'[r] = save \/ req'[r] = Idle)
    BY <1>4, OthersStayBy DEF TruncateCollection, Finish
  <2>3. UNCHANGED <<upload, ownerLock>> /\ req[r].pc = "truncateColl"
    BY <1>4 DEF TruncateCollection, locks
  <2>. HIDE DEF save
  <2>4. CASE req'[r] = save
    BY <2>1, <2>2, <2>3, <2>4, PlacesKeptOutside DEF ShapeOf, KnownTo, Writing
  <2>5. CASE req'[r] = Idle
    BY <2>2, <2>3, <2>5, IdleFits, PlacesKeptOutside
  <2>. QED BY <2>2, <2>4, <2>5
<1>5. CASE SaveCollection(r)
  <2>1. OthersStay(r) /\ req'[r] = Idle
    BY <1>5, OthersStayBy DEF SaveCollection, Finish
  <2>2. UNCHANGED <<upload, ownerLock>> /\ req[r].pc = "saveColl"
    BY <1>5 DEF SaveCollection, locks
  <2>. QED BY <2>1, <2>2, IdleFits, PlacesKeptOutside
<1>6. ASSUME NEW c \in Collections,
             CreateCollection(r, c) \/ OpenCollection(r, c) \/ CheckCollectionToken(r, c)
      PROVE  Places'
  <2>1. UNCHANGED <<upload, ownerLock>> /\ req[r].pc = "idle"
    BY <1>6 DEF CreateCollection, OpenCollection, CheckCollectionToken, locks
  <2>2. /\ OthersStay(r) /\ req'[r].on = Nil /\ req'[r].col = c
        /\ req'[r].pc \in {"create", "members", "removeColl"}
    <3>1. CASE CreateCollection(r, c)
      <4>1. PICK refs \in RefLists :
               Become(r, [Idle EXCEPT !.pc = "create", !.col = c, !.todo = refs])
        BY <3>1 DEF CreateCollection
      <4>. DEFINE new == [Idle EXCEPT !.pc = "create", !.col = c, !.todo = refs]
      <4>2. OthersStay(r) /\ req'[r] = new
        BY <4>1, OthersStayBy
      <4>. QED BY <4>2 DEF Idle
    <3>2. CASE OpenCollection(r, c)
      <4>. DEFINE new == [Idle EXCEPT !.pc = "members", !.col = c, !.read = coll[c],
                              !.todo = coll[c], !.missing = Gone \cap ToSet(coll[c]),
                          !.lapsed = expired \cap ToSet(coll[c])]
      <4>1. OthersStay(r) /\ req'[r] = new
        BY <3>2, OthersStayBy DEF OpenCollection
      <4>. QED BY <4>1 DEF Idle
    <3>3. CASE CheckCollectionToken(r, c)
      <4>. DEFINE new == [Idle EXCEPT !.pc = "removeColl", !.col = c]
      <4>1. OthersStay(r) /\ req'[r] = new
        BY <3>3, OthersStayBy DEF CheckCollectionToken
      <4>. QED BY <4>1 DEF Idle
    <3>. QED BY <1>6, <3>1, <3>2, <3>3
  <2>. QED BY <2>1, <2>2, PlacesKeptOutside DEF ShapeOf, KnownTo, Writing
<1>. QED BY <1>1, <1>2, <1>3, <1>4, <1>5, <1>6 DEF CollectionStep

\* The requests that lose their collection were writing it, outside any lock.
LEMMA RemovalPlaced ==
    ASSUME StateTyped, ReqTyped, Places, NEW r \in Requests, RemoveCollection(r)
    PROVE  Places'
<1>1. UNCHANGED <<upload, ownerLock>> /\ req[r].pc \in {"removeColl", "removeEmpty"}
  BY DEF RemoveCollection, locks
<1>2. CASE Finish(r)
  BY <1>1, <1>2, OthersStayBy, IdleFits, PlacesKeptOutside DEF Finish, InLock
<1>3. ASSUME ~Finish(r), NEW q \in Requests
      PROVE  \/ q = r /\ req'[q] = Idle
             \/ q # r /\ req'[q] = req[q]
             \/ /\ q # r /\ req[q].pc = "saveColl" /\ req'[q].pc = "saveColl"
                /\ req'[q].on = req[q].on
  BY <1>3, Fields DEF RemoveCollection, Locals
<1>4. ASSUME ~Finish(r)
      PROVE  \A q \in Requests : ShapeOf(q)' /\ KnownTo(q)' /\ HoldsOwner(q)'
  <2>. TAKE q \in Requests
  <2>1. ShapeOf(q) /\ KnownTo(q) /\ HoldsOwner(q)
    BY DEF Places, Shape, UploadKnown, OwnerHeld
  <2>2. CASE req'[q] = Idle /\ q = r
    BY <1>1, <2>1, <2>2, IdleFits DEF HoldsOwner, InLock
  <2>3. CASE req'[q] = req[q]
    BY <1>1, <2>1, <2>3 DEF ShapeOf, KnownTo, HoldsOwner, Settled
  <2>4. CASE req[q].pc = "saveColl" /\ req'[q].pc = "saveColl"
    BY <1>1, <2>1, <2>4 DEF ShapeOf, KnownTo, HoldsOwner, Writing, InLock
  <2>. QED BY <1>3, <1>4, <2>2, <2>3, <2>4
<1>5. ASSUME ~Finish(r)
      PROVE  \A u \in Uploads, q \in Requests : Recorder(q, u)' => Recorder(q, u)
  BY <1>1, <1>3, <1>5, IdleFields DEF Recorder, Writing
<1>. QED BY <1>2, <1>4, <1>5
         DEF Places, Shape, UploadKnown, OwnerHeld, OneRecorder

LEMMA UploadStepsPlaced ==
    ASSUME StateTyped, ReqTyped, Places, Lingers, NEW r \in Requests, UploadStep(r)
    PROVE  Places'
<1>1. ASSUME NEW u \in Uploads, Store(r, u) PROVE Places'
  <2>. DEFINE new == [Idle EXCEPT !.pc = "record", !.on = u]
  <2>1. OthersStay(r) /\ req'[r] = new
    BY <1>1, OthersStayBy DEF Store
  <2>2. new.pc = "record" /\ new.on = u /\ new.col = Nil
    BY DEF Idle
  <2>3. UNCHANGED ownerLock /\ upload[u] = "new" /\ upload' = [upload EXCEPT ![u] = "stored"]
        /\ req[r].pc = "idle"
    BY <1>1 DEF Store, locks
  <2>. HIDE DEF new
  <2>4. UploadMoves(r) /\ upload'[u] = "stored"
    BY <2>3 DEF UploadMoves, StateTyped
  <2>5. ShapeOf(r)' /\ KnownTo(r)' /\ HoldsOwner(r)'
    BY <2>1, <2>2, <2>3, <2>4
       DEF ShapeOf, KnownTo, HoldsOwner, Places, OwnerHeld, InLock, Writing
  <2>6. \A v \in Uploads : Recorder(r, v)' => upload[v] = "new"
    BY <2>1, <2>2, <2>3 DEF Recorder
  <2>. QED BY <2>1, <2>3, <2>4, <2>5, <2>6, PlacesKept
<1>2. ASSUME NEW u \in Uploads, CheckDeletionToken(r, u) \/ FindExpired(r, u)
      PROVE  Places'
  <2>1. OthersStay(r) /\ req'[r].pc = "remove" /\ req'[r].on = u
    <3>1. CASE CheckDeletionToken(r, u)
      <4>. DEFINE new == [Idle EXCEPT !.pc = "remove", !.on = u]
      <4>1. OthersStay(r) /\ req'[r] = new
        BY <3>1, OthersStayBy DEF CheckDeletionToken
      <4>. QED BY <4>1 DEF Idle
    <3>2. CASE FindExpired(r, u)
      <4>. DEFINE new == [req[r] EXCEPT !.pc = "remove", !.on = u, !.col = Nil]
      <4>1. OthersStay(r) /\ req'[r] = new
        BY <3>2, OthersStayBy DEF FindExpired, BeginPurge
      <4>. QED BY <4>1, Fields DEF Locals
    <3>. QED BY <1>2, <3>1, <3>2
  <2>2. UNCHANGED <<upload, ownerLock>> /\ Settled(u) /\ req[r].pc = "idle"
    BY <1>2 DEF CheckDeletionToken, FindExpired, locks, Readable, Lingers, Settled
  <2>. QED BY <2>1, <2>2, PlacesKeptOutside DEF ShapeOf, KnownTo, Settled, InLock, Writing
<1>3. CASE RemoveUpload(r)
  <2>1. /\ req[r].pc = "remove" /\ req[r].on \in Uploads /\ Settled(req[r].on)
        /\ UNCHANGED ownerLock
    BY <1>3 DEF RemoveUpload, Places, Shape, ShapeOf, UploadKnown, KnownTo
  <2>2. UploadMoves(r)
    BY <1>3, <2>1 DEF RemoveUpload, UploadMoves, StateTyped, Settled
  <2>3. CASE Return(r)
    <3>1. OthersStay(r) /\ (req'[r] = Idle \/ req'[r].pc = "members")
          /\ (req'[r].pc = "members" => req'[r].col \in Collections /\ req'[r].on = Nil)
      BY <2>3, ReturnFields, IdleFields
    <3>2. ShapeOf(r)' /\ KnownTo(r)' /\ HoldsOwner(r)'
      BY <2>1, <3>1, IdleFields
         DEF ShapeOf, KnownTo, HoldsOwner, Places, OwnerHeld, InLock, Writing
    <3>3. \A v \in Uploads : ~Recorder(r, v)'
      BY <3>1, IdleFields DEF Recorder, Writing
    <3>. QED BY <2>1, <2>2, <3>1, <3>2, <3>3, PlacesKept
  <2>4. CASE /\ upload' = [upload EXCEPT ![req[r].on] = "gone"]
             /\ Become(r, [req[r] EXCEPT !.pc = "forget"])
    <3>. DEFINE new == [req[r] EXCEPT !.pc = "forget"]
    <3>1. OthersStay(r) /\ req'[r] = new
      BY <2>4, OthersStayBy
    <3>2. new.pc = "forget" /\ new.on = req[r].on
      BY InLocals DEF Locals
    <3>3. upload'[req[r].on] = "gone"
      BY <2>1, <2>4 DEF StateTyped
    <3>. HIDE DEF new
    <3>4. ShapeOf(r)' /\ KnownTo(r)' /\ HoldsOwner(r)'
      BY <2>1, <3>1, <3>2, <3>3
         DEF ShapeOf, KnownTo, HoldsOwner, Places, OwnerHeld, InLock, Writing
    <3>5. \A v \in Uploads : ~Recorder(r, v)'
      BY <3>1, <3>2 DEF Recorder, Writing
    <3>. QED BY <2>1, <2>2, <3>1, <3>4, <3>5, PlacesKept
  <2>. QED BY <1>3, <2>3, <2>4 DEF RemoveUpload
<1>. QED BY <1>1, <1>2, <1>3 DEF UploadStep

LEMMA CountStepsPlaced ==
    ASSUME StateTyped, ReqTyped, Places, Lingers, NEW r \in Requests, CountStep(r)
    PROVE  Places'
<1>1. ASSUME NEW u \in Uploads, ReadForCount(r, u) PROVE Places'
  <2>. DEFINE new == [Idle EXCEPT !.pc = "count", !.on = u]
  <2>1. OthersStay(r) /\ req'[r] = new
    BY <1>1, OthersStayBy DEF ReadForCount
  <2>2. new.pc = "count" /\ new.on = u /\ new.col = Nil
    BY DEF Idle
  <2>3. UNCHANGED <<upload, ownerLock>> /\ Settled(u) /\ req[r].pc = "idle"
    BY <1>1 DEF ReadForCount, Readable, Lingers, Settled
  <2>. HIDE DEF new
  <2>. QED BY <2>1, <2>2, <2>3, PlacesKeptOutside DEF ShapeOf, KnownTo, Settled, InLock, Writing
<1>2. CASE WriteCount(r)
  <2>1. /\ UNCHANGED <<upload, ownerLock>> /\ req[r].pc = "count"
        /\ req[r].on \in Uploads /\ req[r].col = Nil /\ Settled(req[r].on)
    BY <1>2 DEF WriteCount, Places, Shape, ShapeOf, UploadKnown, KnownTo
  <2>2. CASE Return(r)
    BY <2>1, <2>2, ReturnFields, IdleFits, PlacesKeptOutside DEF InLock
  <2>3. CASE Become(r, [req[r] EXCEPT !.pc = "remove"])
    <3>. DEFINE new == [req[r] EXCEPT !.pc = "remove"]
    <3>1. OthersStay(r) /\ req'[r] = new
      BY <2>3, OthersStayBy
    <3>2. new.pc = "remove" /\ new.on = req[r].on
      BY InLocals DEF Locals
    <3>. HIDE DEF new
    <3>. QED BY <2>1, <3>1, <3>2, PlacesKeptOutside DEF ShapeOf, KnownTo, Settled, InLock, Writing
  <2>. QED BY <1>2, <2>2, <2>3 DEF WriteCount
<1>. QED BY <1>1, <1>2 DEF CountStep

LEMMA WorldStepsPlaced ==
    ASSUME StateTyped, ReqTyped, Places, Lingers, WorldStep PROVE Places'
<1>1. ASSUME NEW u \in Uploads, Expire(u) PROVE Places'
  BY <1>1 DEF Expire, Places, Shape, ShapeOf, OwnerHeld, HoldsOwner, UploadKnown, KnownTo,
              OneRecorder, Recorder, Settled, locks
<1>2. CASE Crash
  <2>1. \A q \in Requests : req'[q] = Idle
    BY <1>2 DEF Crash
  <2>2. ownerLock' = Nil
    BY <1>2 DEF Crash
  <2>3. \A q \in Requests : ShapeOf(q)' /\ KnownTo(q)' /\ HoldsOwner(q)'
    BY <2>1, <2>2, IdleFits DEF HoldsOwner, InLock
  <2>4. \A q \in Requests, v \in Uploads : ~Recorder(q, v)'
    BY <2>1, IdleFields DEF Recorder, Writing
  <2>. QED BY <2>3, <2>4 DEF Places, Shape, UploadKnown, OwnerHeld, OneRecorder
<1>3. ASSUME NEW u \in Uploads, Sweep(u) PROVE Places'
  <2>1. /\ Settled(u) /\ upload'[u] = "gone" /\ UNCHANGED <<req, ownerLock>>
        /\ \A v \in Uploads : v # u => upload'[v] = upload[v]
    BY <1>3 DEF Sweep, Readable, Lingers, Settled, StateTyped, locks
  <2>2. ASSUME NEW q \in Requests PROVE KnownTo(q)'
    <3>1. KnownTo(q) /\ ShapeOf(q) /\ req[q].on \in Uploads \cup {Nil}
      BY Fields DEF Places, Shape, UploadKnown
    <3>. QED BY <2>1, <3>1 DEF KnownTo, ShapeOf, Settled
  <2>3. OneRecorder'
    BY <2>1 DEF Places, OneRecorder, Recorder, Settled
  <2>. QED BY <2>1, <2>2, <2>3
           DEF Places, Shape, ShapeOf, OwnerHeld, HoldsOwner, UploadKnown
<1>. QED BY <1>1, <1>2, <1>3 DEF WorldStep

\* The end of a writing of the index: the lock is free, and the upload is answered
\* if it was being recorded.
LEMMA WritingEnds ==
    ASSUME StateTyped, ReqTyped, Places, NEW r \in Requests,
           req[r].pc \in Writing, EndWrite(r)
    PROVE  /\ Places' /\ OthersStay(r) /\ UploadMoves(r) /\ ownerLock = r /\ ownerLock' = Nil
           /\ req'[r] = Idle \/ req'[r].pc = "members"
<1>1. ownerLock = r /\ ownerLock' = Nil
  BY DEF EndWrite, Places, OwnerHeld, HoldsOwner, Writing, InLock
<1>2. OthersStay(r) /\ (req'[r] = Idle \/ req'[r].pc = "members")
      /\ (req'[r].pc = "members" => req'[r].col \in Collections /\ req'[r].on = Nil)
  BY ReturnFields, IdleFields DEF EndWrite
<1>3. UploadMoves(r)
  <2>1. CASE Recording(r)
    <3>1. req[r].on \in Uploads /\ upload[req[r].on] = "stored"
      BY <2>1, Fields DEF Recording
    <3>. QED BY <2>1, <3>1 DEF EndWrite, UploadMoves, StateTyped, Recorder
  <2>2. CASE ~Recording(r)
    BY <2>2 DEF EndWrite, UploadMoves
  <2>. QED BY <2>1, <2>2
<1>4. ShapeOf(r)' /\ KnownTo(r)' /\ HoldsOwner(r)'
  BY <1>1, <1>2, IdleFields DEF ShapeOf, KnownTo, HoldsOwner, InLock, Writing
<1>5. \A v \in Uploads : ~Recorder(r, v)'
  BY <1>2, IdleFields DEF Recorder, Writing
<1>. QED BY <1>1, <1>2, <1>3, <1>4, <1>5, PlacesKept

\* The beginning of a writing of the index, by a request whose upload is not
\* answered or is gone.
LEMMA WritingBegins ==
    ASSUME StateTyped, ReqTyped, Places, NEW r \in Requests, NEW s \in Seq(Uploads),
           req[r].pc \in {"record", "forget", "entries"}, WriteIndex(r, s),
           ownerLock \in {r, Nil}, UNCHANGED upload
    PROVE  Places' /\ OthersStay(r) /\ req'[r].pc \in Writing
<1>1. req'[r].pc \in Writing /\ OthersStay(r) /\ req'[r].on = req[r].on /\ ownerLock' = r
  BY WriteTyped
<1>2. ShapeOf(r) /\ KnownTo(r)
  BY DEF Places, Shape, UploadKnown
<1>3. ShapeOf(r)' /\ KnownTo(r)' /\ HoldsOwner(r)'
  BY <1>1, <1>2 DEF ShapeOf, KnownTo, HoldsOwner, InLock, Writing
<1>4. UploadMoves(r)
  BY DEF UploadMoves
<1>5. \A v \in Uploads : Recorder(r, v)' => Recorder(r, v)
  BY <1>1, <1>2 DEF Recorder, KnownTo, ShapeOf, Writing
<1>. QED BY <1>1, <1>3, <1>4, <1>5, PlacesKept

LEMMA IndexStepsPlaced ==
    ASSUME StateTyped, ReqTyped, Places, NEW r \in Requests,
           IndexStep(r)
    PROVE  Places'
<1>. USE DEF OwnerFree
<1>1. CASE RecordOwnership(r)
  <2>1. /\ req[r].pc = "record" /\ req[r].on \in Uploads /\ req[r].col = Nil
        /\ upload[req[r].on] = "stored" /\ ownerLock = Nil
    BY <1>1 DEF RecordOwnership, Places, Shape, ShapeOf, UploadKnown, KnownTo
  <2>2. CASE index # Torn /\ WriteIndex(r, <<req[r].on>> \o index) /\ UNCHANGED upload
    <3>1. <<req[r].on>> \o index \in Seq(Uploads)
      BY <2>1, <2>2, ConcatProperties DEF StateTyped
    <3>. QED BY <2>1, <2>2, <3>1, WritingBegins
  <2>3. CASE /\ upload' = [upload EXCEPT ![req[r].on] = "live"]
             /\ Finish(r) /\ UNCHANGED ownerLock
    <3>1. OthersStay(r) /\ req'[r] = Idle
      BY <2>3, OthersStayBy DEF Finish
    <3>2. UploadMoves(r)
      BY <2>1, <2>3 DEF UploadMoves, Recorder, StateTyped
    <3>3. HoldsOwner(r)'
      BY <2>1, <2>3, <3>1, IdleFields DEF HoldsOwner, InLock
    <3>4. \A v \in Uploads : ~Recorder(r, v)'
      BY <3>1, IdleFields DEF Recorder, Writing
    <3>. QED BY <2>3, <3>1, <3>2, <3>3, <3>4, IdleFits, PlacesKept
  <2>. QED BY <1>1, <2>2, <2>3 DEF RecordOwnership
<1>2. CASE ForgetOwnership(r)
  <2>1. req[r].pc = "forget" /\ ownerLock = Nil /\ UNCHANGED upload
    BY <1>2 DEF ForgetOwnership
  <2>2. CASE Listed(req[r].on) /\ WriteIndex(r, Without(index, req[r].on))
    <3>1. Without(index, req[r].on) \in Seq(Uploads)
      BY <2>2, WithoutTyped, WithoutOne DEF Listed, StateTyped
    <3>. QED BY <2>1, <2>2, <3>1, WritingBegins
  <2>3. CASE Return(r) /\ UNCHANGED ownerLock
    <3>1. OthersStay(r) /\ (req'[r] = Idle \/ req'[r].pc = "members")
          /\ (req'[r].pc = "members" => req'[r].col \in Collections /\ req'[r].on = Nil)
      BY <2>3, ReturnFields, IdleFields
    <3>. QED BY <2>1, <2>3, <3>1, IdleFits, PlacesKeptOutside
             DEF ShapeOf, KnownTo, InLock, Writing
  <2>. QED BY <1>2, <2>2, <2>3 DEF ForgetOwnership
<1>3. CASE ListOwned(r)
  <2>. DEFINE new == [Idle EXCEPT !.pc = "entries", !.read = index, !.todo = index,
                              !.missing = Gone \cap ToSet(index)]
  <2>1. OthersStay(r) /\ req'[r] = new
    BY <1>3, OthersStayBy DEF ListOwned
  <2>2. new.pc = "entries" /\ new.on = Nil /\ new.col = Nil
    BY DEF Idle
  <2>3. UNCHANGED upload /\ ownerLock = Nil /\ ownerLock' = r
    BY <1>3 DEF ListOwned
  <2>. HIDE DEF new
  <2>4. UploadMoves(r) /\ \A v \in Uploads : ~Recorder(r, v)'
    BY <2>1, <2>2, <2>3 DEF UploadMoves, Recorder, Writing
  <2>5. ShapeOf(r)' /\ KnownTo(r)' /\ HoldsOwner(r)'
    BY <2>1, <2>2, <2>3 DEF ShapeOf, KnownTo, HoldsOwner, InLock, Writing
  <2>. QED BY <2>1, <2>3, <2>4, <2>5, PlacesKept
<1>4. CASE CheckEntry(r)
  <2>1. PICK k \in {Keep(r), Drop(r)} : Become(r, k)
    BY <1>4 DEF CheckEntry
  <2>2. OthersStay(r) /\ req'[r] = k
    BY <2>1, OthersStayBy
  <2>3. req[r].pc = "entries" /\ UNCHANGED <<upload, ownerLock>>
    BY <1>4 DEF CheckEntry, locks
  <2>4. k.pc = "entries" /\ k.on = req[r].on /\ k.col = req[r].col
    BY <2>3, LookedFields
  <2>5. UploadMoves(r) /\ \A v \in Uploads : ~Recorder(r, v)'
    BY <2>2, <2>3, <2>4 DEF UploadMoves, Recorder, Writing
  <2>6. ShapeOf(r) /\ HoldsOwner(r)
    BY DEF Places, Shape, OwnerHeld
  <2>7. ShapeOf(r)' /\ KnownTo(r)' /\ HoldsOwner(r)'
    BY <2>2, <2>3, <2>4, <2>6 DEF ShapeOf, KnownTo, HoldsOwner, InLock, Writing
  <2>. QED BY <2>2, <2>3, <2>5, <2>7, PlacesKept
<1>5. CASE EndEntries(r)
  <2>1. req[r].pc = "entries" /\ ownerLock = r /\ UNCHANGED upload
    BY <1>5 DEF EndEntries, Places, OwnerHeld, HoldsOwner, InLock
  <2>2. CASE WriteIndex(r, req[r].kept)
    BY <2>1, <2>2, Fields, WritingBegins
  <2>3. CASE Finish(r) /\ ownerLock' = Nil
    <3>1. OthersStay(r) /\ req'[r] = Idle
      BY <2>3, OthersStayBy DEF Finish
    <3>2. UploadMoves(r) /\ \A v \in Uploads : ~Recorder(r, v)'
      BY <2>1, <3>1, IdleFields DEF UploadMoves, Recorder, Writing
    <3>3. HoldsOwner(r)'
      BY <2>3, <3>1, IdleFields DEF HoldsOwner, InLock
    <3>. QED BY <2>1, <2>3, <3>1, <3>2, <3>3, IdleFits, PlacesKept
  <2>. QED BY <1>5, <2>2, <2>3 DEF EndEntries
<1>6. CASE TruncateIndex(r) /\ ~EndWrite(r)
  <2>. DEFINE new == [req[r] EXCEPT !.pc = "saveIndex"]
  <2>1. OthersStay(r) /\ req'[r] = new
    BY <1>6, OthersStayBy DEF TruncateIndex
  <2>2. new.pc = "saveIndex" /\ new.on = req[r].on /\ new.col = req[r].col
    BY InLocals DEF Locals
  <2>3. req[r].pc = "truncateIndex" /\ UNCHANGED <<upload, ownerLock>>
    BY <1>6 DEF TruncateIndex, locks
  <2>. HIDE DEF new
  <2>4. UploadMoves(r) /\ \A v \in Uploads : Recorder(r, v)' => Recorder(r, v)
    BY <2>1, <2>2, <2>3 DEF UploadMoves, Recorder, Writing
  <2>5. KnownTo(r) /\ HoldsOwner(r)
    BY DEF Places, UploadKnown, OwnerHeld
  <2>6. ShapeOf(r)' /\ KnownTo(r)' /\ HoldsOwner(r)'
    BY <2>1, <2>2, <2>3, <2>5 DEF ShapeOf, KnownTo, HoldsOwner, InLock, Writing
  <2>. QED BY <2>1, <2>3, <2>4, <2>6, PlacesKept
<1>7. CASE EndWrite(r) /\ (TruncateIndex(r) \/ SaveIndex(r))
  BY <1>7, WritingEnds DEF TruncateIndex, SaveIndex, Writing
<1>8. SaveIndex(r) => EndWrite(r)
  BY DEF SaveIndex
<1>. QED BY <1>1, <1>2, <1>3, <1>4, <1>5, <1>6, <1>7, <1>8 DEF IndexStep

LEMMA InitPlaced == Init => StateTyped /\ ReqTyped /\ Places /\ Lingers
<1>. SUFFICES ASSUME Init PROVE StateTyped /\ ReqTyped /\ Places /\ Lingers
  OBVIOUS
<1>1. StateTyped
  BY EmptySeq DEF Init, StateTyped
<1>2. ReqTyped /\ \A r \in Requests : req[r] = Idle
  BY IdleTyped DEF Init, ReqTyped
<1>3. ownerLock = Nil
  BY DEF Init
<1>4. Lingers
  BY DEF Init, Lingers
<1>. QED BY <1>1, <1>2, <1>3, <1>4, IdleFields
         DEF Places, Shape, ShapeOf, OwnerHeld, HoldsOwner, UploadKnown, KnownTo, OneRecorder,
             Recorder, Writing, InLock

LEMMA StutterPlaced ==
    ASSUME StateTyped, ReqTyped, Places, UNCHANGED vars
    PROVE  StateTyped' /\ ReqTyped' /\ Places'
<1>1. StateTyped' /\ ReqTyped'
  BY DEF vars, StateTyped, ReqTyped
<1>2. Places'
  BY DEF vars, Places, Shape, ShapeOf, OwnerHeld, HoldsOwner, UploadKnown, KnownTo, OneRecorder,
         Recorder, Settled
<1>. QED BY <1>1, <1>2

LEMMA StepPlaced ==
    ASSUME StateTyped, ReqTyped, Places, Lingers, [Next]_vars
    PROVE  StateTyped' /\ ReqTyped' /\ Places'
<1>1. Shape
  BY DEF Places
<1>2. CASE WorldStep
  BY <1>2, WorldStepsTyped, WorldStepsPlaced
<1>3. ASSUME NEW r \in Requests,
             IndexStep(r) \/ UploadStep(r) \/ CountStep(r) \/ CollectionStep(r) \/ RemoveCollection(r)
      PROVE  StateTyped' /\ ReqTyped' /\ Places'
  BY <1>1, <1>3, IndexStepsTyped, IndexStepsPlaced, UploadStepsTyped, UploadStepsPlaced,
     CountStepsTyped, CountStepsPlaced, CollectionStepsTyped, CollectionStepsPlaced, RemovalPlaced
<1>4. CASE UNCHANGED vars
  BY <1>4, StutterPlaced
<1>. QED BY <1>2, <1>3, <1>4, Steps

-------------------------------------------------------------------------------
(* What the steps do to the locals *)

\* A request goes on about the same collection with what it has found.
Carried(r) ==
    /\ req'[r].kept = req[r].kept /\ req'[r].read = req[r].read
    /\ req'[r].missing = req[r].missing /\ req'[r].lapsed = req[r].lapsed

\* The state a collection's step leaves alone.
OffCollections == UNCHANGED <<coll, named, deleted>>
OffUploads == UNCHANGED <<upload, lingering, expired, swept, revived>>

\* A sidecar that comes back is that of an upload removed by this step, or is known.
Revives ==
    /\ revived \subseteq revived'
    /\ \A u \in lingering' : u \in lingering \/ upload[u] # "gone" \/ u \in revived'
OffIndex == UNCHANGED <<index, ownerLock, order>>

LEMMA CheckReferenceDoes ==
    ASSUME ReqTyped, NEW r \in Requests, CheckReference(r)
    PROVE  /\ OthersStay(r) /\ OffUploads /\ OffIndex /\ OffCollections
           /\ req[r].pc = "create" /\ req[r].todo # <<>>
           /\ \/ req'[r] = Keep(r) /\ Live(Head(req[r].todo))
              \/ req'[r].pc = "remove" /\ req'[r].col = Nil /\ Carried(r)
              \/ req'[r] = Idle
<1>. DEFINE u == Head(req[r].todo)
            new == [req[r] EXCEPT !.pc = "remove", !.on = u, !.col = Nil]
<1>1. /\ OffUploads /\ OffIndex /\ OffCollections
      /\ req[r].pc = "create" /\ req[r].todo # <<>>
  BY DEF CheckReference, OffUploads, OffIndex, OffCollections, history
<1>2. (Live(u) /\ Become(r, Keep(r))) \/ Become(r, new) \/ Become(r, Idle)
  BY DEF CheckReference, BeginPurge, Finish
<1>3. /\ new.pc = "remove" /\ new.col = Nil /\ new.kept = req[r].kept
      /\ new.read = req[r].read
      /\ new.missing = req[r].missing /\ new.lapsed = req[r].lapsed
  BY InLocals DEF Locals
<1>. HIDE DEF new
<1>. QED BY <1>1, <1>2, <1>3, OthersStayBy DEF Carried

LEMMA CheckMemberDoes ==
    ASSUME ReqTyped, NEW r \in Requests, CheckMember(r)
    PROVE  /\ OthersStay(r) /\ OffUploads /\ OffIndex /\ OffCollections
           /\ req[r].pc = "members" /\ req[r].todo # <<>> /\ req'[r].col = req[r].col
           /\ req'[r].todo = Tail(req[r].todo)
           /\ \/ req'[r] = Keep(r) /\ Live(Head(req[r].todo))
              \/ /\ req'[r].pc \in {"members", "remove"} /\ Carried(r)
                 /\ ~Live(Head(req[r].todo)) \/ Fault
<1>. DEFINE u == Head(req[r].todo)
            new == [PassOver(r) EXCEPT !.pc = "remove", !.on = u]
<1>1. /\ OffUploads /\ OffIndex /\ OffCollections
      /\ req[r].pc = "members" /\ req[r].todo # <<>>
  BY DEF CheckMember, OffUploads, OffIndex, OffCollections, history
<1>2. \/ Live(u) /\ Become(r, Keep(r))
      \/ (Become(r, new) \/ Become(r, PassOver(r))) /\ (~Live(u) \/ Fault)
  BY DEF CheckMember, Live
<1>3. PassOver(r) \in Locals
  BY <1>1, Looked
<1>4. /\ new.pc = "remove" /\ new.col = PassOver(r).col /\ new.kept = PassOver(r).kept
      /\ new.read = PassOver(r).read /\ new.todo = PassOver(r).todo
      /\ new.missing = PassOver(r).missing /\ new.lapsed = PassOver(r).lapsed
  BY <1>3 DEF Locals
<1>. HIDE DEF new
<1>. QED BY <1>1, <1>2, <1>4, OthersStayBy, LookedFields DEF Carried

LEMMA EndMembersDoes ==
    ASSUME ReqTyped, NEW r \in Requests, EndMembers(r)
    PROVE  /\ OthersStay(r) /\ OffUploads /\ OffIndex /\ OffCollections
           /\ UNCHANGED faults
           /\ req[r].pc \in {"create", "members"} /\ req[r].todo = <<>>
           /\ \/ /\ req'[r].pc \in Replacing
                 /\ req'[r].col = req[r].col /\ req'[r].kept = req[r].kept
                 /\ req'[r].missing = {} /\ req'[r].lapsed = {}
                 /\ req[r].pc = "create" \/ req[r].kept # <<>>
              \/ /\ req[r].pc = "members" /\ req[r].kept = <<>>
                 /\ req'[r].pc = "removeEmpty" /\ req'[r].col = req[r].col /\ Carried(r)
                 /\ req'[r].todo = req[r].todo
              \/ req'[r] = Idle
<1>. DEFINE write == [Idle EXCEPT !.pc = IF Local THEN "truncateColl" ELSE "saveColl",
                                  !.col = req[r].col, !.kept = req[r].kept]
            empty == [req[r] EXCEPT !.pc = "removeEmpty"]
<1>1. /\ OffUploads /\ OffIndex /\ OffCollections /\ UNCHANGED faults
      /\ req[r].pc \in {"create", "members"} /\ req[r].todo = <<>>
  BY DEF EndMembers, OffUploads, OffIndex, OffCollections, history, locks
<1>2. \/ Become(r, write) /\ (req[r].pc = "create" \/ req[r].kept # <<>>)
      \/ Become(r, empty) /\ req[r].pc = "members" /\ req[r].kept = <<>>
      \/ Become(r, Idle)
  BY DEF EndMembers, Finish
<1>3. /\ write.pc \in Replacing /\ write.col = req[r].col /\ write.kept = req[r].kept
      /\ write.missing = {} /\ write.lapsed = {}
  BY DEF Idle, Replacing
<1>4. /\ empty.pc = "removeEmpty" /\ empty.col = req[r].col /\ empty.kept = req[r].kept
      /\ empty.read = req[r].read /\ empty.todo = req[r].todo
      /\ empty.missing = req[r].missing /\ empty.lapsed = req[r].lapsed
  BY InLocals DEF Locals
<1>. HIDE DEF write, empty
<1>. QED BY <1>1, <1>2, <1>3, <1>4, OthersStayBy DEF Carried

LEMMA TruncateCollectionDoes ==
    ASSUME ReqTyped, NEW r \in Requests, TruncateCollection(r)
    PROVE  /\ OthersStay(r) /\ OffUploads /\ OffIndex /\ UNCHANGED <<named, deleted>>
           /\ req[r].pc = "truncateColl"
           /\ \/ /\ req'[r].pc = "saveColl" /\ req'[r].col = req[r].col
                 /\ Carried(r) /\ coll' = [coll EXCEPT ![req[r].col] = Torn] /\ NoFault
              \/ Fault /\ req'[r] = Idle /\ UNCHANGED coll
<1>. DEFINE save == [req[r] EXCEPT !.pc = "saveColl"]
<1>1. /\ OffUploads /\ OffIndex /\ UNCHANGED <<named, deleted>>
      /\ req[r].pc = "truncateColl"
      /\ \/ Become(r, save) /\ coll' = [coll EXCEPT ![req[r].col] = Torn] /\ NoFault
         \/ Fault /\ Become(r, Idle) /\ UNCHANGED coll
  BY DEF TruncateCollection, Finish, OffUploads, OffIndex, history, locks
<1>2. /\ save.pc = "saveColl" /\ save.col = req[r].col /\ save.kept = req[r].kept
      /\ save.read = req[r].read
      /\ save.missing = req[r].missing /\ save.lapsed = req[r].lapsed
  BY InLocals DEF Locals
<1>. HIDE DEF save
<1>. QED BY <1>1, <1>2, OthersStayBy DEF Carried

LEMMA SaveCollectionDoes ==
    ASSUME ReqTyped, NEW r \in Requests, SaveCollection(r)
    PROVE  /\ OthersStay(r) /\ OffUploads /\ OffIndex /\ UNCHANGED deleted
           /\ req[r].pc = "saveColl" /\ req'[r] = Idle
           /\ \/ /\ req[r].col # Nil /\ NoFault
                 /\ coll' = [coll EXCEPT ![req[r].col] = req[r].kept]
                 /\ named' = IF named[req[r].col] = <<>>
                             THEN [named EXCEPT ![req[r].col] = req[r].kept] ELSE named
              \/ UNCHANGED <<coll, named>> /\ (Fault \/ (req[r].col = Nil /\ NoFault))
<1>1. Become(r, Idle)
  BY DEF SaveCollection, Finish
<1>2. OthersStay(r) /\ req'[r] = Idle
  BY <1>1, OthersStayBy
<1>3. OffUploads /\ OffIndex /\ UNCHANGED deleted /\ req[r].pc = "saveColl"
  BY DEF SaveCollection, OffUploads, OffIndex, locks
<1>4. \/ /\ req[r].col # Nil /\ NoFault
         /\ coll' = [coll EXCEPT ![req[r].col] = req[r].kept]
         /\ named' = IF named[req[r].col] = <<>>
                     THEN [named EXCEPT ![req[r].col] = req[r].kept] ELSE named
      \/ UNCHANGED <<coll, named>> /\ (Fault \/ (req[r].col = Nil /\ NoFault))
  BY DEF SaveCollection
<1>. QED BY <1>2, <1>3, <1>4

LEMMA BeginCollectionDoes ==
    ASSUME ReqTyped, NEW r \in Requests, NEW c \in Collections,
           \/ CreateCollection(r, c) \/ OpenCollection(r, c) \/ CheckCollectionToken(r, c)
    PROVE  /\ OthersStay(r) /\ OffUploads /\ OffIndex /\ OffCollections /\ UNCHANGED faults
           /\ req[r].pc = "idle" /\ req'[r].col = c /\ req'[r].kept = <<>>
           /\ \/ /\ req'[r].pc = "create" /\ req'[r].todo \in RefLists
                 /\ req'[r].missing = {} /\ req'[r].lapsed = {}
                 /\ coll[c] = Absent /\ named[c] = <<>> /\ \A q \in Requests : req[q].col # c
              \/ /\ req'[r].pc = "members" /\ req'[r].todo = coll[c]
                 /\ req'[r].missing \subseteq Gone /\ req'[r].lapsed \subseteq expired
                 /\ coll[c] \notin {Absent, Torn}
              \/ /\ req'[r].pc = "removeColl" /\ coll[c] \notin {Absent, Torn}
                 /\ req'[r].missing = {} /\ req'[r].lapsed = {}
<1>1. /\ OffUploads /\ OffIndex /\ OffCollections /\ UNCHANGED faults /\ req[r].pc = "idle"
  BY DEF CreateCollection, OpenCollection, CheckCollectionToken,
         OffUploads, OffIndex, OffCollections, history, locks
<1>2. CASE CreateCollection(r, c)
  <2>1. PICK refs \in RefLists :
           Become(r, [Idle EXCEPT !.pc = "create", !.col = c, !.todo = refs])
    BY <1>2 DEF CreateCollection
  <2>. DEFINE new == [Idle EXCEPT !.pc = "create", !.col = c, !.todo = refs]
  <2>2. OthersStay(r) /\ req'[r] = new
    BY <2>1, OthersStayBy
  <2>3. /\ new.pc = "create" /\ new.col = c /\ new.kept = <<>> /\ new.todo = refs
        /\ new.missing = {} /\ new.lapsed = {}
    BY DEF Idle
  <2>. HIDE DEF new
  <2>. QED BY <1>1, <1>2, <2>2, <2>3 DEF CreateCollection
<1>3. CASE OpenCollection(r, c)
  <2>. DEFINE new == [Idle EXCEPT !.pc = "members", !.col = c, !.read = coll[c],
                          !.todo = coll[c], !.missing = Gone \cap ToSet(coll[c]),
                          !.lapsed = expired \cap ToSet(coll[c])]
  <2>1. OthersStay(r) /\ req'[r] = new
    BY <1>3, OthersStayBy DEF OpenCollection
  <2>2. /\ new.pc = "members" /\ new.col = c /\ new.kept = <<>> /\ new.todo = coll[c]
        /\ new.missing \subseteq Gone /\ new.lapsed \subseteq expired
    BY DEF Idle
  <2>. HIDE DEF new
  <2>. QED BY <1>1, <1>3, <2>1, <2>2 DEF OpenCollection
<1>4. CASE CheckCollectionToken(r, c)
  <2>. DEFINE new == [Idle EXCEPT !.pc = "removeColl", !.col = c]
  <2>1. OthersStay(r) /\ req'[r] = new
    BY <1>4, OthersStayBy DEF CheckCollectionToken
  <2>2. /\ new.pc = "removeColl" /\ new.col = c /\ new.kept = <<>>
        /\ new.missing = {} /\ new.lapsed = {}
    BY DEF Idle
  <2>. HIDE DEF new
  <2>. QED BY <1>1, <1>4, <2>1, <2>2 DEF CheckCollectionToken
<1>. QED BY <1>2, <1>3, <1>4

LEMMA RemoveCollectionDoes ==
    ASSUME ReqTyped, NEW r \in Requests, RemoveCollection(r)
    PROVE  /\ OffUploads /\ OffIndex /\ UNCHANGED named
           /\ req[r].pc \in {"removeColl", "removeEmpty"} /\ req'[r] = Idle
           /\ \/ Fault /\ OthersStay(r) /\ UNCHANGED <<coll, deleted>>
              \/ /\ NoFault /\ coll' = [coll EXCEPT ![req[r].col] = Absent]
                 /\ deleted' = IF req[r].pc = "removeColl" THEN deleted \cup {req[r].col}
                               ELSE deleted
                 /\ \A q \in Requests \ {r} :
                       \/ req'[q] = req[q]
                       \/ /\ req[q].pc = "saveColl" /\ req'[q].pc = "saveColl"
                          /\ req[q].col = req[r].col /\ req'[q].col = Nil
                          /\ req'[q].on = req[q].on
                          /\ req'[q].todo = req[q].todo /\ Carried(q)
<1>1. OffUploads /\ OffIndex /\ UNCHANGED named /\ req[r].pc \in {"removeColl", "removeEmpty"}
  BY DEF RemoveCollection, OffUploads, OffIndex, locks
<1>2. CASE Fault /\ Finish(r) /\ UNCHANGED <<coll, deleted>>
  BY <1>1, <1>2, OthersStayBy DEF Finish
<1>3. CASE /\ NoFault /\ coll' = [coll EXCEPT ![req[r].col] = Absent]
           /\ deleted' = IF req[r].pc = "removeColl" THEN deleted \cup {req[r].col} ELSE deleted
           /\ req' = [q \in Requests |->
                        IF q = r THEN Idle
                        ELSE IF Local /\ req[q].pc = "saveColl" /\ req[q].col = req[r].col
                        THEN [req[q] EXCEPT !.col = Nil] ELSE req[q]]
  <2>1. req'[r] = Idle
    BY <1>3
  <2>2. ASSUME NEW q \in Requests \ {r}, req'[q] # req[q]
        PROVE  /\ req[q].pc = "saveColl" /\ req'[q].pc = "saveColl"
               /\ req[q].col = req[r].col /\ req'[q].col = Nil
               /\ req'[q].on = req[q].on /\ req'[q].todo = req[q].todo /\ Carried(q)
    <3>1. /\ req[q].pc = "saveColl" /\ req[q].col = req[r].col
          /\ req'[q] = [req[q] EXCEPT !.col = Nil]
      BY <1>3, <2>2
    <3>2. req[q] \in Locals
      BY InLocals
    <3>. QED BY <3>1, <3>2 DEF Locals, Carried
  <2>. QED BY <1>1, <1>3, <2>1, <2>2
<1>. QED BY <1>2, <1>3 DEF RemoveCollection

LEMMA ListOwnedDoes ==
    ASSUME ReqTyped, NEW r \in Requests, ListOwned(r)
    PROVE  /\ OthersStay(r) /\ OffUploads /\ OffCollections /\ UNCHANGED <<index, order, faults>>
           /\ ownerLock = Nil /\ ownerLock' = r /\ index # Torn
           /\ req[r].pc = "idle" /\ req'[r].pc = "entries"
           /\ req'[r].on = Nil /\ req'[r].col = Nil
           /\ req'[r].todo = index /\ req'[r].kept = <<>>
           /\ req'[r].missing \subseteq Gone /\ req'[r].lapsed \subseteq expired
<1>. DEFINE new == [Idle EXCEPT !.pc = "entries", !.read = index, !.todo = index,
                            !.missing = Gone \cap ToSet(index)]
<1>1. OthersStay(r) /\ req'[r] = new
  BY OthersStayBy DEF ListOwned
<1>2. /\ new.pc = "entries" /\ new.on = Nil /\ new.col = Nil /\ new.todo = index
      /\ new.kept = <<>> /\ new.missing \subseteq Gone /\ new.lapsed \subseteq expired
  BY DEF Idle
<1>. HIDE DEF new
<1>. QED BY <1>1, <1>2 DEF ListOwned, OwnerFree, OffUploads, OffCollections, history

LEMMA CheckEntryDoes ==
    ASSUME ReqTyped, NEW r \in Requests, CheckEntry(r)
    PROVE  /\ OthersStay(r) /\ OffUploads /\ OffIndex /\ OffCollections
           /\ req[r].pc = "entries" /\ req[r].todo # <<>>
           /\ \/ req'[r] = Keep(r) /\ There(Head(req[r].todo)) /\ NoFault
              \/ req'[r] = Drop(r) /\ (Fault \/ (~There(Head(req[r].todo)) /\ NoFault))
<1>1. /\ OffUploads /\ OffIndex /\ OffCollections
      /\ req[r].pc = "entries" /\ req[r].todo # <<>>
  BY DEF CheckEntry, OffUploads, OffIndex, OffCollections, history, locks
<1>2. \/ Become(r, Keep(r)) /\ There(Head(req[r].todo)) /\ NoFault
      \/ Become(r, Drop(r)) /\ (Fault \/ (~There(Head(req[r].todo)) /\ NoFault))
  BY DEF CheckEntry
<1>. QED BY <1>1, <1>2, OthersStayBy

LEMMA EndEntriesDoes ==
    ASSUME ReqTyped, NEW r \in Requests, EndEntries(r)
    PROVE  /\ OthersStay(r) /\ OffUploads /\ OffCollections /\ UNCHANGED <<index, order, faults>>
           /\ req[r].pc = "entries" /\ req[r].todo = <<>>
           /\ \/ WriteIndex(r, req[r].kept)
              \/ req'[r] = Idle /\ ownerLock' = Nil
<1>1. /\ OffUploads /\ OffCollections /\ UNCHANGED <<index, order, faults>>
      /\ req[r].pc = "entries" /\ req[r].todo = <<>>
      /\ WriteIndex(r, req[r].kept) \/ (Become(r, Idle) /\ ownerLock' = Nil)
  BY DEF EndEntries, OffUploads, OffCollections, history, Finish
<1>2. WriteIndex(r, req[r].kept) => OthersStay(r)
  BY Fields, WriteTyped
<1>. QED BY <1>1, <1>2, OthersStayBy

LEMMA TruncateIndexDoes ==
    ASSUME ReqTyped, NEW r \in Requests, TruncateIndex(r)
    PROVE  /\ req[r].pc = "truncateIndex" /\ OffCollections /\ UNCHANGED <<expired, order, swept>>
           /\ \/ /\ NoFault /\ index' = Torn /\ UNCHANGED <<upload, ownerLock>>
                 /\ OthersStay(r) /\ req'[r].pc = "saveIndex" /\ req'[r].on = req[r].on
                 /\ req'[r].col = req[r].col /\ req'[r].data = req[r].data
                 /\ req'[r].todo = req[r].todo /\ Carried(r)
              \/ Fault /\ EndWrite(r) /\ UNCHANGED index
<1>. DEFINE new == [req[r] EXCEPT !.pc = "saveIndex"]
<1>1. /\ req[r].pc = "truncateIndex" /\ OffCollections /\ UNCHANGED <<expired, order, swept>>
      /\ \/ NoFault /\ index' = Torn /\ Become(r, new) /\ UNCHANGED <<upload, ownerLock>>
         \/ Fault /\ EndWrite(r) /\ UNCHANGED index
  BY DEF TruncateIndex, OffCollections, history, locks
<1>2. /\ new.pc = "saveIndex" /\ new.on = req[r].on /\ new.col = req[r].col
      /\ new.data = req[r].data /\ new.todo = req[r].todo
      /\ new.kept = req[r].kept /\ new.read = req[r].read
      /\ new.missing = req[r].missing /\ new.lapsed = req[r].lapsed
  BY InLocals DEF Locals
<1>. HIDE DEF new
<1>3. CASE NoFault /\ index' = Torn /\ Become(r, new) /\ UNCHANGED <<upload, ownerLock>>
  BY <1>1, <1>2, <1>3, OthersStayBy DEF Carried
<1>. QED BY <1>1, <1>3

\* The list that the owner's lock is taken, or kept, to write.
LEMMA WriteBegins ==
    ASSUME StateTyped, ReqTyped, Shape, NEW r \in Requests, NEW s, WriteIndex(r, s),
           \/ s = req[r].kept
           \/ RecordOwnership(r) /\ index # Torn /\ s = <<req[r].on>> \o index
           \/ ForgetOwnership(r) /\ Listed(req[r].on) /\ s = Without(index, req[r].on)
    PROVE  /\ s \in Seq(Uploads) /\ OthersStay(r) /\ ownerLock' = r
           /\ req'[r].pc = (IF Local THEN "truncateIndex" ELSE "saveIndex")
           /\ req'[r].pc \in Writing
           /\ req'[r].on = req[r].on /\ req'[r].col = req[r].col /\ req'[r].data = Trim(s)
           /\ req[r].col # Nil => Carried(r) /\ req'[r].todo = req[r].todo
           /\ req[r].col = Nil => req'[r].missing = {} /\ req'[r].lapsed = {}
<1>1. s \in Seq(Uploads)
  <2>1. CASE s = req[r].kept
    BY <2>1, Fields
  <2>2. CASE RecordOwnership(r) /\ index # Torn /\ s = <<req[r].on>> \o index
    <3>1. req[r].on \in Uploads /\ index \in Seq(Uploads)
      BY <2>2 DEF RecordOwnership, Shape, ShapeOf, StateTyped
    <3>. QED BY <2>2, <3>1, ConcatProperties
  <2>3. CASE ForgetOwnership(r) /\ Listed(req[r].on) /\ s = Without(index, req[r].on)
    <3>1. index \in Seq(Uploads) /\ Contains(index, req[r].on)
      BY <2>3 DEF Listed, StateTyped
    <3>. QED BY <2>3, <3>1, WithoutTyped, WithoutOne
  <2>. QED BY <2>1, <2>2, <2>3
<1>. QED BY <1>1, WriteTyped DEF Carried

\* An upload on its way out, or stored.
LEMMA UploadStepDoes ==
    ASSUME ReqTyped, NEW r \in Requests, UploadStep(r)
    PROVE  /\ OthersStay(r) /\ OffIndex /\ OffCollections /\ UNCHANGED <<expired, swept, revived>>
           /\ \/ /\ req[r].pc = "idle" /\ UNCHANGED faults
                 /\ req'[r].pc \in {"record", "remove"}
                 /\ req'[r].col = Nil /\ (Carried(r) \/ (req'[r].missing = {} /\ req'[r].lapsed = {}))
              \/ /\ req[r].pc = "remove" /\ req'[r].pc = "forget" /\ (Fault \/ NoFault)
                 /\ req'[r].on = req[r].on
                 /\ req'[r].col = req[r].col /\ req'[r].todo = req[r].todo /\ Carried(r)
              \/ req[r].pc = "remove" /\ Return(r) /\ (UNCHANGED upload \/ Fault)
<1>. DEFINE remove(u) == [req[r] EXCEPT !.pc = "remove", !.on = u, !.col = Nil]
            forget == [req[r] EXCEPT !.pc = "forget"]
            begin(p, u) == [Idle EXCEPT !.pc = p, !.on = u]
<1>1. OffIndex /\ OffCollections /\ UNCHANGED <<expired, swept, revived>>
  BY DEF UploadStep, RemoveUpload, Store, CheckDeletionToken, FindExpired,
         OffIndex, OffCollections, history, locks
<1>2. ASSUME NEW u \in Uploads, Store(r, u) \/ CheckDeletionToken(r, u)
      PROVE  /\ OthersStay(r) /\ req[r].pc = "idle" /\ UNCHANGED faults
             /\ req'[r].pc \in {"record", "remove"} /\ req'[r].col = Nil
             /\ req'[r].missing = {} /\ req'[r].lapsed = {}
  <2>1. PICK p \in {"record", "remove"} : Become(r, begin(p, u))
    BY <1>2 DEF Store, CheckDeletionToken
  <2>2. OthersStay(r) /\ req'[r] = begin(p, u)
    BY <2>1, OthersStayBy
  <2>3. req[r].pc = "idle" /\ UNCHANGED faults
    BY <1>2 DEF Store, CheckDeletionToken
  <2>. QED BY <2>2, <2>3 DEF Idle
<1>3. ASSUME NEW u \in Uploads, FindExpired(r, u)
      PROVE  /\ OthersStay(r) /\ req[r].pc = "idle" /\ UNCHANGED faults
             /\ req'[r].pc = "remove" /\ req'[r].col = Nil /\ Carried(r)
  <2>1. OthersStay(r) /\ req'[r] = remove(u)
    BY <1>3, OthersStayBy DEF FindExpired, BeginPurge
  <2>2. req[r].pc = "idle" /\ UNCHANGED faults
    BY <1>3 DEF FindExpired
  <2>3. req[r] \in Locals
    BY InLocals
  <2>. QED BY <2>1, <2>2, <2>3 DEF Locals, Carried
<1>4. CASE RemoveUpload(r) /\ Become(r, forget)
  <2>1. OthersStay(r) /\ req'[r] = forget
    BY <1>4, OthersStayBy
  <2>2. req[r] \in Locals
    BY InLocals
  <2>3. /\ req'[r].pc = "forget" /\ req'[r].on = req[r].on
        /\ req'[r].col = req[r].col /\ req'[r].todo = req[r].todo /\ Carried(r)
    BY <2>1, <2>2 DEF Locals, Carried
  <2>4. ~Return(r)
    <3>. SUFFICES ASSUME Return(r) PROVE FALSE
      OBVIOUS
    <3>1. req'[r].pc \in {"idle", "members"}
      BY ReturnFields, IdleFields
    <3>. QED BY <2>3, <3>1
  <2>5. req[r].pc = "remove" /\ (Fault \/ NoFault)
    BY <1>4, <2>4 DEF RemoveUpload
  <2>. QED BY <1>1, <2>1, <2>3, <2>5
<1>5. CASE RemoveUpload(r) /\ Return(r)
  <2>1. req[r].pc = "remove" /\ OthersStay(r)
    BY <1>5, ReturnFields DEF RemoveUpload
  <2>2. ~Become(r, forget)
    <3>. SUFFICES ASSUME Become(r, forget) PROVE FALSE
      OBVIOUS
    <3>1. req'[r].pc = "forget"
      BY OthersStayBy, InLocals DEF Locals
    <3>. QED BY <1>5, <3>1, ReturnFields, IdleFields
  <2>. HIDE DEF forget
  <2>3. UNCHANGED upload \/ Fault
    BY <1>5, <2>2 DEF RemoveUpload, forget
  <2>. QED BY <1>1, <1>5, <2>1, <2>3
<1>6. RemoveUpload(r) => Become(r, forget) \/ Return(r)
  BY DEF RemoveUpload
<1>7. \/ RemoveUpload(r)
      \/ \E u \in Uploads : Store(r, u) \/ CheckDeletionToken(r, u)
      \/ \E u \in Uploads : FindExpired(r, u)
  BY DEF UploadStep
<1>8. CASE \E u \in Uploads : Store(r, u) \/ CheckDeletionToken(r, u)
  BY <1>1, <1>2, <1>8
<1>9. CASE \E u \in Uploads : FindExpired(r, u)
  <2>1. PICK u \in Uploads : FindExpired(r, u)
    BY <1>9
  <2>2. /\ OthersStay(r) /\ req[r].pc = "idle" /\ UNCHANGED faults
        /\ req'[r].pc = "remove" /\ req'[r].col = Nil /\ Carried(r)
    BY <1>3, <2>1
  <2>. QED BY <1>1, <2>2
<1>. QED BY <1>4, <1>5, <1>6, <1>7, <1>8, <1>9

\* A download that is counted.
LEMMA CountStepDoes ==
    ASSUME ReqTyped, Shape, NEW r \in Requests, CountStep(r)
    PROVE  /\ OthersStay(r) /\ OffIndex /\ OffCollections /\ UNCHANGED <<upload, swept>>
           /\ Fault \/ NoFault \/ UNCHANGED faults
           /\ req[r].pc \in {"idle", "count"} /\ req'[r].pc \in {"idle", "count", "remove"}
           /\ req'[r].col = Nil
           /\ (Carried(r) /\ req[r].col = Nil) \/ (req'[r].missing = {} /\ req'[r].lapsed = {})
           /\ expired \subseteq expired' /\ Revives
<1>1. ASSUME NEW u \in Uploads, ReadForCount(r, u)
      PROVE  /\ OthersStay(r) /\ req[r].pc = "idle" /\ UNCHANGED <<upload, expired, faults>>
             /\ req'[r].pc = "count" /\ req'[r].col = Nil
             /\ req'[r].missing = {} /\ req'[r].lapsed = {}
             /\ OffIndex /\ OffCollections /\ UNCHANGED <<lingering, swept, revived>>
  <2>1. OthersStay(r) /\ req'[r] = [Idle EXCEPT !.pc = "count", !.on = u]
    BY <1>1, OthersStayBy DEF ReadForCount
  <2>. QED BY <1>1, <2>1 DEF ReadForCount, Idle, OffIndex, OffCollections, history
<1>2. CASE WriteCount(r)
  <2>1. /\ req[r].pc = "count" /\ req[r].col = Nil
        /\ OffIndex /\ OffCollections /\ UNCHANGED <<upload, swept>>
        /\ Fault \/ NoFault
    BY <1>2 DEF WriteCount, Shape, ShapeOf, OffIndex, OffCollections
  <2>2. expired \subseteq expired' /\ Revives
    BY <1>2 DEF WriteCount, Revives
  <2>3. CASE Return(r)
    BY <2>1, <2>2, <2>3, ReturnFields, IdleFields
  <2>4. CASE Become(r, [req[r] EXCEPT !.pc = "remove"])
    <3>1. OthersStay(r) /\ req'[r] = [req[r] EXCEPT !.pc = "remove"]
      BY <2>4, OthersStayBy
    <3>2. req'[r].pc = "remove" /\ req'[r].col = req[r].col /\ Carried(r)
      BY <3>1, InLocals DEF Locals, Carried
    <3>. QED BY <2>1, <2>2, <3>1, <3>2
  <2>. QED BY <1>2, <2>3, <2>4 DEF WriteCount
<1>. QED BY <1>1, <1>2 DEF CountStep, Revives

\* Every step of a request moves uploads as UploadMoves says, and an upload that
\* has expired stays so.
LEMMA Moves ==
    ASSUME StateTyped, ReqTyped, Places, NEW r \in Requests,
           IndexStep(r) \/ UploadStep(r) \/ CountStep(r) \/ CollectionStep(r) \/ RemoveCollection(r)
    PROVE  UploadMoves(r) /\ expired \subseteq expired' /\ Revives
<1>1. CASE OffUploads
  BY <1>1 DEF OffUploads, UploadMoves, Revives
<1>2. CASE RecordOwnership(r)
  <2>1. req[r].pc = "record" /\ req[r].on \in Uploads /\ upload[req[r].on] = "stored"
    BY <1>2 DEF RecordOwnership, Places, Shape, ShapeOf, UploadKnown, KnownTo
  <2>2. /\ UNCHANGED <<lingering, expired, revived>>
        /\ UNCHANGED upload \/ upload' = [upload EXCEPT ![req[r].on] = "live"]
    BY <1>2 DEF RecordOwnership, history
  <2>. QED BY <2>1, <2>2 DEF UploadMoves, Recorder, StateTyped, Revives
<1>3. CASE TruncateIndex(r) \/ SaveIndex(r)
  <2>1. req[r].pc \in Writing /\ (UNCHANGED upload \/ EndWrite(r))
    BY <1>3 DEF TruncateIndex, SaveIndex, Writing
  <2>2. UNCHANGED <<lingering, expired, revived>>
    BY <1>3 DEF TruncateIndex, SaveIndex, history
  <2>. QED BY <2>1, <2>2, WritingEnds DEF UploadMoves, Revives
<1>4. CASE ForgetOwnership(r) \/ ListOwned(r) \/ CheckEntry(r) \/ EndEntries(r)
  BY <1>1, <1>4 DEF ForgetOwnership, ListOwned, CheckEntry, EndEntries, OffUploads, history
<1>5. CASE RemoveUpload(r)
  <2>1. /\ req[r].pc = "remove" /\ req[r].on \in Uploads /\ Settled(req[r].on)
    BY <1>5 DEF RemoveUpload, Places, Shape, ShapeOf, UploadKnown, KnownTo
  <2>2. UploadMoves(r)
    BY <1>5, <2>1 DEF RemoveUpload, UploadMoves, StateTyped, Settled
  <2>3. UNCHANGED <<expired, revived>>
    BY <1>5 DEF RemoveUpload, history
  <2>4. \A u \in lingering' : u \in lingering \/ upload[u] # "gone"
    BY <1>5 DEF RemoveUpload
  <2>. QED BY <2>2, <2>3, <2>4 DEF Revives
<1>6. ASSUME NEW u \in Uploads, Store(r, u)
      PROVE  UploadMoves(r) /\ expired \subseteq expired' /\ Revives
  BY <1>6 DEF Store, UploadMoves, StateTyped, Revives, history
<1>7. ASSUME NEW u \in Uploads, CheckDeletionToken(r, u) \/ FindExpired(r, u)
      PROVE  UploadMoves(r) /\ expired \subseteq expired' /\ Revives
  BY <1>1, <1>7 DEF CheckDeletionToken, FindExpired, OffUploads, history
<1>9. CASE CountStep(r)
  BY <1>9, CountStepDoes DEF Places, UploadMoves
<1>8. CASE CollectionStep(r) \/ RemoveCollection(r)
  BY <1>1, <1>8, CheckReferenceDoes, CheckMemberDoes, EndMembersDoes, TruncateCollectionDoes,
     SaveCollectionDoes, BeginCollectionDoes, RemoveCollectionDoes DEF CollectionStep
<1>. QED BY <1>2, <1>3, <1>4, <1>5, <1>6, <1>7, <1>8, <1>9 DEF IndexStep, UploadStep

\* A sidecar without its upload is left by a removal, or comes back after one.
LEMMA StepLingers ==
    ASSUME StateTyped, ReqTyped, Places, Lingers, [Next]_vars
    PROVE  Lingers'
<1>1. ASSUME NEW r \in Requests, UploadMoves(r),
             \A u \in lingering' : u \in lingering \/ upload'[u] = "gone"
      PROVE  Lingers'
  BY <1>1 DEF Lingers, UploadMoves, Recorder, Settled, StateTyped
<1>2. ASSUME NEW r \in Requests, IndexStep(r) \/ CollectionStep(r) \/ RemoveCollection(r)
      PROVE  Lingers'
  <2>1. UNCHANGED lingering
    BY <1>2 DEF IndexStep, RecordOwnership, ForgetOwnership, ListOwned, CheckEntry, EndEntries,
                TruncateIndex, SaveIndex, CollectionStep, CheckReference, CheckMember, EndMembers,
                TruncateCollection, SaveCollection, CreateCollection, OpenCollection,
                CheckCollectionToken, RemoveCollection
  <2>. QED BY <1>1, <1>2, <2>1, Moves
<1>3. ASSUME NEW r \in Requests, UploadStep(r) PROVE Lingers'
  <2>1. CASE RemoveUpload(r)
    <3>1. req[r].on \in Uploads
      BY <2>1 DEF RemoveUpload, Places, Shape, ShapeOf
    <3>2. \A u \in lingering' : u \in lingering \/ upload'[u] = "gone"
      BY <2>1, <3>1 DEF RemoveUpload, StateTyped
    <3>. QED BY <1>1, <1>3, <3>2, Moves
  <2>2. CASE ~RemoveUpload(r)
    <3>1. UNCHANGED lingering
      BY <1>3, <2>2 DEF UploadStep, Store, CheckDeletionToken, FindExpired
    <3>. QED BY <1>1, <1>3, <3>1, Moves
  <2>. QED BY <2>1, <2>2
<1>4. ASSUME NEW r \in Requests, CountStep(r) PROVE Lingers'
  BY <1>4 DEF CountStep, WriteCount, ReadForCount, Lingers
<1>5. ASSUME NEW u \in Uploads, Expire(u) \/ Sweep(u) PROVE Lingers'
  BY <1>5 DEF Expire, Sweep, Lingers, StateTyped
<1>6. CASE Crash \/ UNCHANGED vars
  BY <1>6 DEF Crash, vars, Lingers
<1>. QED BY <1>2, <1>3, <1>4, <1>5, <1>6, Steps DEF WorldStep

\* Every value the program keeps, or reads back, is of the kind its handlers expect.
THEOREM TypesCorrect == Spec => []TypeOK
<1>1. Init => StateTyped /\ ReqTyped /\ Places /\ Lingers
  BY InitPlaced
<1>2. /\ StateTyped /\ ReqTyped /\ Places /\ Lingers /\ [Next]_vars
      => (StateTyped /\ ReqTyped /\ Places /\ Lingers)'
  BY StepPlaced, StepLingers
<1>3. StateTyped /\ ReqTyped /\ Places /\ Lingers => TypeOK
  BY Types
<1>. QED BY <1>1, <1>2, <1>3, PTL DEF Spec

-------------------------------------------------------------------------------
(* Listings in progress *)

\* What a request has found was there when it began, but for what came back, and
\* what it took for gone or expired at that moment is so still.
FreshOf(r) ==
    /\ \A u \in req[r].missing : upload[u] = "gone" /\ (u \in lingering => u \in revived)
    /\ req[r].lapsed \subseteq expired
    /\ ToSet(req[r].kept) \cap req[r].missing \subseteq revived
    /\ req[r].col # Nil => ToSet(req[r].kept) \cap req[r].lapsed = {}

LEMMA Freshness == GhostsSound /\ RepliesAreFresh <=> \A r \in Requests : FreshOf(r)
BY DEF GhostsSound, RepliesAreFresh, FreshOf

LEMMA EmptySet == ToSet(<<>>) = {}
<1>1. <<>> \in Seq(Uploads) /\ Len(<<>>) = 0
  BY EmptySeq
<1>. QED BY <1>1, SeqFacts DEF ToSet

LEMMA Appended ==
    ASSUME NEW S, NEW s \in Seq(S), NEW e \in S
    PROVE  ToSet(Append(s, e)) = ToSet(s) \cup {e}
<1>1. /\ Append(s, e) \in Seq(S) /\ Len(Append(s, e)) = Len(s) + 1
      /\ \A i \in 1..Len(s) : Append(s, e)[i] = s[i]
      /\ Append(s, e)[Len(s) + 1] = e
  BY AppendProperties
<1>2. Len(s) \in Nat
  BY SeqFacts
<1>3. \A x : x \in ToSet(Append(s, e)) <=> \E i \in 1..(Len(s) + 1) : Append(s, e)[i] = x
  <2>. DEFINE t == Append(s, e)
  <2>1. t \in Seq(S) /\ Len(t) = Len(s) + 1
    BY <1>1
  <2>. HIDE DEF t
  <2>2. \A x : x \in ToSet(t) <=> \E i \in 1..Len(t) : t[i] = x
    BY <2>1, ListMembers
  <2>3. \A x : x \in ToSet(t) <=> \E i \in 1..(Len(s) + 1) : t[i] = x
    BY <2>1, <2>2
  <2>. QED BY <2>3 DEF t
<1>4. \A x : x \in ToSet(s) <=> \E i \in 1..Len(s) : s[i] = x
  BY ListMembers
<1>5. \A x : x \in ToSet(Append(s, e)) <=> x \in ToSet(s) \/ x = e
  BY <1>1, <1>2, <1>3, <1>4
<1>. QED BY <1>5

\* Uploads that are gone, or expired, stay so; hence others stay fresh.
LEMMA OthersFresh ==
    ASSUME ReqTyped, NEW r \in Requests, NEW q \in Requests, FreshOf(q),
           UploadMoves(r), expired \subseteq expired', Revives,
           Carried(q), req'[q].col \in {req[q].col, Nil}
    PROVE  FreshOf(q)'
<1>1. \A u \in req[q].missing : u \in Uploads /\ upload'[u] = "gone"
  BY Fields DEF UploadMoves, FreshOf, Recorder, Settled
<1>2. \A u \in req[q].missing : u \in lingering' => u \in revived'
  BY DEF FreshOf, Revives
<1>. QED BY <1>1, <1>2 DEF FreshOf, Carried, Revives

LEMMA FreshBegins ==
    ASSUME NEW r \in Requests,
           \/ req'[r].missing = {} /\ req'[r].lapsed = {}
           \/ /\ req'[r].kept = <<>> /\ OffUploads
              /\ req'[r].missing \subseteq Gone /\ req'[r].lapsed \subseteq expired
    PROVE  FreshOf(r)'
BY EmptySet DEF FreshOf, Gone, OffUploads

LEMMA FreshKeeps ==
    ASSUME ReqTyped, NEW r \in Requests, FreshOf(r), OffUploads, req[r].todo # <<>>,
           There(Head(req[r].todo)), req'[r] = Keep(r),
           req[r].col # Nil => Live(Head(req[r].todo))
    PROVE  FreshOf(r)'
<1>1. /\ req'[r].col = req[r].col /\ req'[r].missing = req[r].missing
      /\ req'[r].lapsed = req[r].lapsed
      /\ req'[r].kept = Append(req[r].kept, Head(req[r].todo))
  BY LookedFields
<1>2. ToSet(req'[r].kept) = ToSet(req[r].kept) \cup {Head(req[r].todo)}
  BY <1>1, HeadTyped, Fields, Appended
<1>3. Head(req[r].todo) \in req[r].missing => Head(req[r].todo) \in revived
  BY DEF FreshOf, There
<1>4. req[r].col # Nil => Head(req[r].todo) \notin req[r].lapsed
  BY DEF FreshOf, Live
<1>. QED BY <1>1, <1>2, <1>3, <1>4 DEF FreshOf, OffUploads

LEMMA ReturnFresh ==
    ASSUME ReqTyped, NEW r \in Requests, FreshOf(r), Return(r), UploadMoves(r),
           expired \subseteq expired', Revives
    PROVE  FreshOf(r)'
<1>1. CASE req[r].col = Nil
  BY <1>1, ReturnFields, IdleFields, FreshBegins
<1>2. CASE req[r].col # Nil
  BY <1>2, ReturnFields, OthersFresh DEF Carried
<1>. QED BY <1>1, <1>2

LEMMA WriteFresh ==
    ASSUME StateTyped, ReqTyped, Shape, NEW r \in Requests, FreshOf(r), NEW s, WriteIndex(r, s),
           UploadMoves(r), expired \subseteq expired', Revives,
           \/ s = req[r].kept
           \/ RecordOwnership(r) /\ index # Torn /\ s = <<req[r].on>> \o index
           \/ ForgetOwnership(r) /\ Listed(req[r].on) /\ s = Without(index, req[r].on)
    PROVE  FreshOf(r)'
<1>1. /\ req'[r].col = req[r].col
      /\ req[r].col # Nil => Carried(r)
      /\ req[r].col = Nil => req'[r].missing = {} /\ req'[r].lapsed = {}
  BY WriteBegins
<1>. QED BY <1>1, OthersFresh, FreshBegins

LEMMA StepFresh ==
    ASSUME StateTyped, ReqTyped, Places, NEW r \in Requests,
           IndexStep(r) \/ UploadStep(r) \/ CountStep(r) \/ CollectionStep(r) \/ RemoveCollection(r),
           \A q \in Requests : FreshOf(q)
    PROVE  \A q \in Requests : FreshOf(q)'
<1>1. UploadMoves(r) /\ expired \subseteq expired' /\ Revives /\ Shape /\ FreshOf(r)
  BY Moves DEF Places
<1>2. ASSUME OthersStay(r), NEW q \in Requests \ {r} PROVE FreshOf(q)'
  BY <1>1, <1>2, OthersFresh DEF OthersStay, Carried
<1>3. CASE IndexStep(r)
  <2>1. CASE \E s : /\ WriteIndex(r, s)
                    /\ \/ s = req[r].kept
                       \/ RecordOwnership(r) /\ index # Torn /\ s = <<req[r].on>> \o index
                       \/ ForgetOwnership(r) /\ Listed(req[r].on) /\ s = Without(index, req[r].on)
    BY <1>1, <1>2, <2>1, WriteBegins, WriteFresh
  <2>2. CASE Become(r, Idle)
    BY <1>2, <2>2, OthersStayBy, IdleFields, FreshBegins
  <2>3. CASE Return(r)
    BY <1>1, <1>2, <2>3, ReturnFields, ReturnFresh
  <2>4. CASE ListOwned(r)
    BY <1>2, <2>4, ListOwnedDoes, FreshBegins
  <2>5. CASE CheckEntry(r)
    <3>1. /\ OthersStay(r) /\ OffUploads /\ req[r].todo # <<>> /\ req[r].col = Nil
          /\ \/ req'[r] = Keep(r) /\ There(Head(req[r].todo))
             \/ req'[r] = Drop(r)
      BY <1>1, <2>5, CheckEntryDoes DEF Shape, ShapeOf
    <3>2. CASE req'[r] = Keep(r) /\ There(Head(req[r].todo))
      BY <1>1, <1>2, <3>1, <3>2, FreshKeeps
    <3>3. CASE req'[r] = Drop(r)
      BY <1>1, <1>2, <3>1, <3>3, LookedFields, OthersFresh DEF Carried
    <3>. QED BY <3>1, <3>2, <3>3
  <2>6. CASE TruncateIndex(r)
    <3>1. CASE Return(r)
      BY <2>3, <3>1
    <3>2. CASE OthersStay(r) /\ Carried(r) /\ req'[r].col = req[r].col
      BY <1>1, <1>2, <3>2, OthersFresh
    <3>. QED BY <2>6, <3>1, <3>2, TruncateIndexDoes DEF EndWrite
  <2>7. RecordOwnership(r) => \/ index # Torn /\ WriteIndex(r, <<req[r].on>> \o index)
                              \/ Become(r, Idle)
    BY DEF RecordOwnership, Finish
  <2>8. ForgetOwnership(r) =>
           \/ Listed(req[r].on) /\ WriteIndex(r, Without(index, req[r].on))
           \/ Return(r)
    BY DEF ForgetOwnership
  <2>9. EndEntries(r) => WriteIndex(r, req[r].kept) \/ Become(r, Idle)
    BY DEF EndEntries, Finish
  <2>10. SaveIndex(r) => Return(r)
    BY DEF SaveIndex, EndWrite
  <2>. QED BY <1>3, <2>1, <2>2, <2>3, <2>4, <2>5, <2>6, <2>7, <2>8, <2>9, <2>10 DEF IndexStep
<1>4. CASE UploadStep(r)
  <2>1. OthersStay(r)
    BY <1>4, UploadStepDoes
  <2>2. \/ req'[r].col \in {req[r].col, Nil} /\ Carried(r)
        \/ req'[r].missing = {} /\ req'[r].lapsed = {}
        \/ Return(r)
    BY <1>4, UploadStepDoes
  <2>. QED BY <1>1, <1>2, <2>1, <2>2, OthersFresh, FreshBegins, ReturnFresh
<1>5. CASE CollectionStep(r)
  <2>1. CASE OthersStay(r) /\ req'[r] = Idle
    BY <1>2, <2>1, IdleFields, FreshBegins
  <2>2. CASE OthersStay(r) /\ req'[r].col \in {req[r].col, Nil} /\ Carried(r)
    BY <1>1, <1>2, <2>2, OthersFresh
  <2>3. CASE /\ OthersStay(r) /\ OffUploads /\ req[r].todo # <<>>
             /\ req'[r] = Keep(r) /\ Live(Head(req[r].todo))
    BY <1>1, <1>2, <2>3, FreshKeeps DEF Live, There, Readable
  <2>4. CASE EndMembers(r)
    BY <1>2, <2>1, <2>2, <2>4, EndMembersDoes, FreshBegins
  <2>5. ASSUME NEW c \in Collections,
               \/ CreateCollection(r, c) \/ OpenCollection(r, c) \/ CheckCollectionToken(r, c)
        PROVE  \A q \in Requests : FreshOf(q)'
    BY <1>2, <2>5, BeginCollectionDoes, FreshBegins
  <2>6. CASE CheckReference(r)
    BY <2>1, <2>2, <2>3, <2>6, CheckReferenceDoes
  <2>7. CASE CheckMember(r)
    BY <2>2, <2>3, <2>7, CheckMemberDoes
  <2>8. CASE TruncateCollection(r)
    BY <2>1, <2>2, <2>8, TruncateCollectionDoes
  <2>9. CASE SaveCollection(r)
    BY <2>1, <2>9, SaveCollectionDoes
  <2>. QED BY <1>5, <2>4, <2>5, <2>6, <2>7, <2>8, <2>9 DEF CollectionStep
<1>6. CASE RemoveCollection(r)
  <2>1. FreshOf(r)'
    BY <1>6, RemoveCollectionDoes, IdleFields, FreshBegins
  <2>2. ASSUME NEW q \in Requests \ {r} PROVE FreshOf(q)'
    <3>1. Carried(q) /\ req'[q].col \in {req[q].col, Nil}
      BY <1>6, RemoveCollectionDoes DEF OthersStay, Carried
    <3>. QED BY <1>1, <3>1, OthersFresh
  <2>. QED BY <2>1, <2>2
<1>7. CASE CountStep(r)
  <2>1. /\ OthersStay(r) /\ req'[r].col = Nil
        /\ (Carried(r) /\ req[r].col = Nil) \/ (req'[r].missing = {} /\ req'[r].lapsed = {})
    BY <1>1, <1>7, CountStepDoes
  <2>. QED BY <1>1, <1>2, <2>1, OthersFresh, FreshBegins
<1>. QED BY <1>3, <1>4, <1>5, <1>6, <1>7

\* A listing of an owner's uploads, or the reading of a collection, answers with no
\* upload whose sidecar was gone, or for a collection with none that had expired,
\* when the request began: but for one whose download was being counted while it
\* was removed.
THEOREM RepliesFresh == Spec => []RepliesAreFresh
<1>. DEFINE Inv == /\ StateTyped /\ ReqTyped /\ Places /\ Lingers
                   /\ \A r \in Requests : FreshOf(r)
<1>1. Init => Inv
  <2>. SUFFICES ASSUME Init PROVE Inv
    OBVIOUS
  <2>1. \A r \in Requests : req[r] = Idle
    BY DEF Init
  <2>. QED BY <2>1, InitPlaced, IdleFields, EmptySet DEF FreshOf
<1>2. Inv /\ [Next]_vars => Inv'
  <2>. SUFFICES ASSUME Inv, [Next]_vars PROVE \A r \in Requests : FreshOf(r)'
    BY StepPlaced, StepLingers
  <2>1. CASE WorldStep
    <3>1. ASSUME NEW u \in Uploads, Expire(u) PROVE \A r \in Requests : FreshOf(r)'
      BY <3>1 DEF Expire, FreshOf, history
    <3>2. CASE Crash
      BY <3>2, IdleFields, FreshBegins DEF Crash
    <3>3. ASSUME NEW u \in Uploads, Sweep(u), NEW r \in Requests PROVE FreshOf(r)'
      <4>1. /\ UNCHANGED <<req, expired, revived>>
            /\ \A v \in Uploads : upload[v] = "gone" => upload'[v] = "gone"
        BY <3>3 DEF Sweep, StateTyped
      <4>2. \A v \in lingering' : v \in lingering \/ upload[v] # "gone"
        BY <3>3 DEF Sweep, Readable
      <4>. QED BY <4>1, <4>2, Fields DEF FreshOf
    <3>. QED BY <2>1, <3>1, <3>2, <3>3 DEF WorldStep
  <2>2. CASE UNCHANGED vars
    BY <2>2 DEF vars, FreshOf
  <2>. QED BY <2>1, <2>2, StepFresh, Steps
<1>3. Inv => RepliesAreFresh
  BY Freshness
<1>. QED BY <1>1, <1>2, <1>3, PTL DEF Spec

-------------------------------------------------------------------------------
(* Collections *)

\* The part a request plays for its collection, and what it has of it, are as they
\* were; or it has nothing to do with a collection any more.
SameRole(q) ==
    /\ req'[q].col = req[q].col /\ req'[q].kept = req[q].kept /\ req'[q].todo = req[q].todo
    /\ req'[q].pc = req[q].pc \/ {req[q].pc, req'[q].pc} \subseteq Reading
NoRole(q) == req'[q].col = Nil /\ req'[q].pc \notin {"create"} \cup Replacing

\* Being alive is lost for good, but for an upload that is not answered yet.
LivesLess ==
    \A u \in Uploads : Settled(u) => Settled(u)' /\ (Alive(u)' => Alive(u))

LEMMA MovesLiveLess ==
    ASSUME NEW r \in Requests, UploadMoves(r), expired \subseteq expired'
    PROVE  LivesLess
BY DEF UploadMoves, LivesLess, Alive, Settled, Recorder

LEMMA MembersTyped ==
    ASSUME StateTyped, ReqTyped
    PROVE  /\ \A c \in Collections : ToSet(named[c]) \subseteq Uploads
           /\ \A r \in Requests : ToSet(req[r].kept) \subseteq Uploads
<1>1. \A s \in Seq(Uploads) : ToSet(s) \subseteq Uploads
  BY SeqFacts DEF ToSet
<1>. QED BY <1>1, Fields DEF StateTyped

LEMMA QuietKeeps ==
    ASSUME StateTyped, ReqTyped, CollInv, OffCollections, LivesLess,
           \A q \in Requests : SameRole(q) \/ NoRole(q),
           Undisturbed' => /\ Undisturbed
                           /\ \A q \in Requests :
                                 req[q].pc = "saveColl" /\ req[q].col # Nil => SameRole(q)
    PROVE  CollInv'
<1>. USE DEF OffCollections
<1>1. \A q \in Requests : CreationOf(q)'
  BY DEF CollInv, Creation, CreationOf, SameRole, NoRole, Reading, Writing, Replacing
<1>2. Creation'
  BY <1>1 DEF CollInv, Creation, OneCreator, SameRole, NoRole
<1>3. \A c \in Collections : \A u \in ToSet(named[c]) : u \in Uploads /\ Settled(u) /\ Settled(u)'
  BY MembersTyped DEF CollInv, MembersSettled, LivesLess
<1>4. \A q \in Requests : KeptSettled(q)'
  BY MembersTyped DEF CollInv, MembersSettled, KeptSettled, LivesLess, SameRole, NoRole
<1>5. ASSUME Undisturbed', NEW c \in Collections \ deleted, NEW u \in ToSet(named[c]), Alive(u)'
      PROVE  MemberKept(c, u)'
  <2>1. MemberKept(c, u)
    BY <1>3, <1>5 DEF CollInv, CollectionsKept, LivesLess
  <2>2. coll[c] = Torn => \E q \in Requests : req'[q].pc = "saveColl" /\ req'[q].col = c
    BY <1>5, <2>1 DEF MemberKept, SameRole, Reading, Writing
  <2>3. ASSUME NEW q \in Requests, req'[q].col = c PROVE Has(q, u)'
    <3>1. SameRole(q)
      BY <2>3 DEF NoRole
    <3>2. Has(q, u)
      BY <2>1, <2>3, <3>1 DEF MemberKept, SameRole
    <3>. QED BY <3>1, <3>2 DEF Has, SameRole, Reading, Writing, Replacing
  <2>. QED BY <2>1, <2>2, <2>3 DEF MemberKept
<1>. QED BY <1>2, <1>3, <1>4, <1>5 DEF CollInv, MembersSettled, CollectionsKept

\* A step of one request that looks at members, or has looked at all of them.
LEMMA LookingKeeps ==
    ASSUME StateTyped, ReqTyped, CollInv, OffCollections, OffUploads,
           NEW r \in Requests, OthersStay(r), req'[r].col = req[r].col,
           req[r].pc \in {"create", "members"}, CreationOf(r)', KeptSettled(r)',
           Undisturbed' => Undisturbed,
           \A u \in Uploads :
              Undisturbed' /\ Alive(u) /\ req[r].pc # "create" /\ Has(r, u) => Has(r, u)'
    PROVE  CollInv'
<1>. USE DEF OffCollections
<1>1. Creation'
  BY DEF CollInv, Creation, OneCreator, CreationOf, OthersStay
<1>2. MembersSettled'
  BY DEF CollInv, MembersSettled, KeptSettled, Settled, OthersStay, OffUploads
<1>3. ASSUME Undisturbed', NEW c \in Collections \ deleted, NEW u \in ToSet(named[c]), Alive(u)'
      PROVE  MemberKept(c, u)'
  <2>1. MemberKept(c, u) /\ Alive(u) /\ u \in Uploads
    BY <1>3, MembersTyped DEF CollInv, CollectionsKept, OffUploads, Alive
  <2>2. coll[c] = Torn => \E q \in Requests : req'[q].pc = "saveColl" /\ req'[q].col = c
    BY <2>1 DEF MemberKept, OthersStay
  <2>3. named[c] # <<>>
    BY EmptySet
  <2>4. ASSUME NEW q \in Requests, req'[q].col = c PROVE Has(q, u)'
    <3>1. CASE q = r
      <4>1. req[r].col = c /\ req[r].pc # "create"
        BY <2>3, <2>4, <3>1 DEF CollInv, Creation, CreationOf
      <4>2. Has(r, u)
        BY <2>1, <4>1 DEF MemberKept
      <4>. QED BY <1>3, <2>1, <3>1, <4>1, <4>2
    <3>2. CASE q # r
      <4>1. req'[q] = req[q]
        BY <3>2 DEF OthersStay
      <4>. QED BY <2>1, <2>4, <4>1 DEF MemberKept, Has
    <3>. QED BY <3>1, <3>2
  <2>. QED BY <2>1, <2>2, <2>4 DEF MemberKept
<1>. QED BY <1>1, <1>2, <1>3 DEF CollInv, CollectionsKept

LEMMA Alone ==
    ASSUME NEW r \in Requests, OthersStay(r), NEW q \in Requests, q # r PROVE SameRole(q)
BY DEF OthersStay, SameRole

LEMMA Disturbs ==
    ASSUME StateTyped, Fault \/ NoFault \/ UNCHANGED faults
    PROVE  Undisturbed' => Undisturbed /\ ~Fault
BY DEF StateTyped, Fault, NoFault, Undisturbed

LEMMA ReturnRole ==
    ASSUME ReqTyped, NEW r \in Requests, Return(r), req[r].pc \in Reading
    PROVE  SameRole(r) \/ NoRole(r)
<1>1. CASE req[r].col = Nil
  BY <1>1, ReturnFields, IdleFields DEF NoRole, Replacing
<1>2. CASE req[r].col # Nil
  BY <1>2, ReturnFields DEF SameRole, Reading
<1>. QED BY <1>1, <1>2

\* Steps about the index, an upload or a count leave every request its role.
LEMMA RolesStay ==
    ASSUME StateTyped, ReqTyped, Shape, NEW r \in Requests,
           IndexStep(r) \/ UploadStep(r) \/ CountStep(r)
    PROVE  /\ OthersStay(r) /\ OffCollections /\ (SameRole(r) \/ NoRole(r))
           /\ req[r].pc \notin Replacing /\ (Fault \/ NoFault \/ UNCHANGED faults)
<1>. USE DEF Replacing
<1>1. CASE IndexStep(r)
  <2>1. OffCollections /\ (Fault \/ NoFault \/ UNCHANGED faults)
    BY <1>1 DEF IndexStep, RecordOwnership, ForgetOwnership, ListOwned, CheckEntry, EndEntries,
                TruncateIndex, SaveIndex, OffCollections, history
  <2>2. req[r].pc \notin Replacing
    BY <1>1 DEF IndexStep, RecordOwnership, ForgetOwnership, ListOwned, CheckEntry, EndEntries,
                TruncateIndex, SaveIndex
  <2>3. CASE \E s : /\ WriteIndex(r, s) /\ req[r].pc \in {"record", "forget", "entries"}
                    /\ \/ s = req[r].kept /\ req[r].pc = "entries"
                       \/ RecordOwnership(r) /\ index # Torn /\ s = <<req[r].on>> \o index
                       \/ ForgetOwnership(r) /\ Listed(req[r].on) /\ s = Without(index, req[r].on)
    <3>1. /\ OthersStay(r) /\ req'[r].pc \in Writing /\ req'[r].col = req[r].col
          /\ req[r].col # Nil => Carried(r) /\ req'[r].todo = req[r].todo
      BY <2>3, WriteBegins
    <3>2. req[r].col # Nil => req[r].pc = "forget"
      BY <2>3 DEF Shape, ShapeOf
    <3>. QED BY <2>1, <2>2, <3>1, <3>2 DEF SameRole, NoRole, Carried, Reading, Writing
  <2>4. CASE Become(r, Idle)
    BY <2>1, <2>2, <2>4, OthersStayBy, IdleFields DEF NoRole
  <2>5. CASE Return(r) /\ req[r].pc \in Reading
    BY <2>1, <2>2, <2>5, ReturnFields, ReturnRole
  <2>6. CASE ListOwned(r)
    BY <2>1, <2>2, <2>6, ListOwnedDoes DEF NoRole
  <2>7. CASE CheckEntry(r)
    <3>1. /\ OthersStay(r) /\ req[r].pc = "entries" /\ req[r].col = Nil
          /\ req'[r] \in {Keep(r), Drop(r)}
      BY <2>7, CheckEntryDoes DEF Shape, ShapeOf
    <3>. QED BY <2>1, <2>2, <3>1, LookedFields DEF NoRole
  <2>8. CASE TruncateIndex(r)
    BY <2>1, <2>2, <2>5, <2>8, TruncateIndexDoes DEF EndWrite, SameRole, Carried, Reading, Writing
  <2>9. RecordOwnership(r) =>
           /\ req[r].pc = "record"
           /\ \/ index # Torn /\ WriteIndex(r, <<req[r].on>> \o index)
              \/ Become(r, Idle)
    BY DEF RecordOwnership, Finish
  <2>10. ForgetOwnership(r) =>
           /\ req[r].pc = "forget"
           /\ \/ Listed(req[r].on) /\ WriteIndex(r, Without(index, req[r].on))
              \/ Return(r)
    BY DEF ForgetOwnership
  <2>11. EndEntries(r) =>
           req[r].pc = "entries" /\ (WriteIndex(r, req[r].kept) \/ Become(r, Idle))
    BY DEF EndEntries, Finish
  <2>12. SaveIndex(r) => req[r].pc \in Reading /\ Return(r)
    BY DEF SaveIndex, EndWrite, Reading, Writing
  <2>13. "forget" \in Reading
    BY DEF Reading
  <2>. QED BY <1>1, <2>3, <2>4, <2>5, <2>6, <2>7, <2>8, <2>9, <2>10, <2>11, <2>12, <2>13
           DEF IndexStep
<1>2. CASE UploadStep(r)
  <2>1. OthersStay(r) /\ OffCollections
    BY <1>2, UploadStepDoes
  <2>2. CASE /\ req[r].pc = "idle" /\ UNCHANGED faults
             /\ req'[r].pc \in {"record", "remove"} /\ req'[r].col = Nil
    BY <2>1, <2>2 DEF NoRole
  <2>3. CASE /\ req[r].pc = "remove" /\ req'[r].pc = "forget" /\ (Fault \/ NoFault)
             /\ req'[r].col = req[r].col /\ req'[r].todo = req[r].todo /\ Carried(r)
    BY <2>1, <2>3 DEF SameRole, Carried, Reading
  <2>4. CASE RemoveUpload(r) /\ Return(r)
    <3>1. req[r].pc = "remove" /\ (Fault \/ NoFault)
      BY <2>4 DEF RemoveUpload
    <3>. QED BY <2>1, <2>4, <3>1, ReturnRole DEF Reading
  <2>5. ~RemoveUpload(r) => req[r].pc = "idle"
    BY <1>2 DEF UploadStep, Store, CheckDeletionToken, FindExpired
  <2>. QED BY <1>2, <2>2, <2>3, <2>4, <2>5, UploadStepDoes
<1>3. CASE CountStep(r)
  BY <1>3, CountStepDoes DEF NoRole
<1>. QED BY <1>1, <1>2, <1>3

LEMMA HeadOrTail ==
    ASSUME NEW s \in Seq(Uploads), s # <<>>, NEW u \in ToSet(s)
    PROVE  u = Head(s) \/ u \in ToSet(Tail(s))
<1>1. /\ Head(s) = s[1] /\ Tail(s) \in Seq(Uploads) /\ Len(s) \in Nat
      /\ Len(Tail(s)) = Len(s) - 1 /\ \A i \in 1..(Len(s) - 1) : Tail(s)[i] = s[i + 1]
  BY HeadAndTail, SeqFacts
<1>2. PICK i \in 1..Len(s) : s[i] = u
  BY ListMembers
<1>3. CASE i = 1
  BY <1>1, <1>2, <1>3
<1>4. CASE i # 1
  <2>1. i - 1 \in 1..Len(Tail(s)) /\ Tail(s)[i - 1] = u
    BY <1>1, <1>2, <1>4
  <2>. QED BY <1>1, <2>1, ListMembers
<1>. QED BY <1>3, <1>4

LEMMA NotLookedAt ==
    ASSUME ReqTyped, NEW r \in Requests, req[r].todo # <<>>
    PROVE  \A u \in ToSet(req[r].todo) :
              u = Head(req[r].todo) \/ u \in ToSet(Tail(req[r].todo))
BY Fields, HeadOrTail

LEMMA KeepsLooking ==
    ASSUME StateTyped, ReqTyped, NEW r \in Requests, req[r].todo # <<>>, req'[r] = Keep(r),
           Lingers, Live(Head(req[r].todo)), OffUploads, KeptSettled(r)
    PROVE  /\ req'[r].pc = req[r].pc /\ req'[r].col = req[r].col /\ req'[r].kept # <<>>
           /\ KeptSettled(r)'
           /\ \A u : u \in ToSet(req[r].kept) \cup ToSet(req[r].todo)
                 => u \in ToSet(req'[r].kept) \cup ToSet(req'[r].todo)
<1>1. /\ req'[r].pc = req[r].pc /\ req'[r].col = req[r].col
      /\ req'[r].todo = Tail(req[r].todo)
      /\ req'[r].kept = Append(req[r].kept, Head(req[r].todo))
  BY LookedFields
<1>2. req[r].kept \in Seq(Uploads) /\ Head(req[r].todo) \in Uploads
  BY Fields, HeadTyped
<1>3. /\ ToSet(req'[r].kept) = ToSet(req[r].kept) \cup {Head(req[r].todo)}
      /\ req'[r].kept # <<>>
  BY <1>1, <1>2, Appended, AppendProperties
<1>4. KeptSettled(r)'
  BY <1>1, <1>3 DEF KeptSettled, Settled, OffUploads, Live, Readable, Lingers
<1>. QED BY <1>1, <1>3, <1>4, NotLookedAt

LEMMA LookingStepsKeep ==
    ASSUME StateTyped, ReqTyped, Shape, Lingers, CollInv, NEW r \in Requests,
           CheckReference(r) \/ CheckMember(r) \/ EndMembers(r)
    PROVE  CollInv'
<1>. DEFINE u == Head(req[r].todo)
<1>1. CreationOf(r) /\ KeptSettled(r)
  BY DEF CollInv, Creation, MembersSettled
<1>2. Undisturbed' => Undisturbed /\ ~Fault
  BY Disturbs DEF CheckReference, CheckMember, EndMembers
<1>3. CASE CheckReference(r)
  <2>1. /\ OthersStay(r) /\ OffUploads /\ OffCollections
        /\ req[r].pc = "create" /\ req[r].todo # <<>>
    BY <1>3, CheckReferenceDoes
  <2>2. CASE req'[r] = Keep(r) /\ Live(u)
    <3>1. /\ req'[r].pc = "create" /\ req'[r].col = req[r].col /\ req'[r].kept # <<>>
          /\ KeptSettled(r)'
      BY <1>1, <2>1, <2>2, KeepsLooking
    <3>2. CreationOf(r)'
      BY <1>1, <2>1, <3>1 DEF CreationOf, OffCollections, Replacing
    <3>. QED BY <1>2, <2>1, <3>1, <3>2, LookingKeeps
  <2>3. CASE NoRole(r)
    <3>1. LivesLess
      BY <2>1 DEF LivesLess, OffUploads, Alive, Settled
    <3>. QED BY <1>2, <2>1, <2>3, <3>1, Alone, QuietKeeps
  <2>. QED BY <1>3, <2>2, <2>3, CheckReferenceDoes, IdleFields DEF NoRole, Replacing
<1>4. CASE CheckMember(r)
  <2>1. /\ OthersStay(r) /\ OffUploads /\ OffCollections
        /\ req[r].pc = "members" /\ req[r].todo # <<>> /\ req'[r].col = req[r].col
        /\ req'[r].todo = Tail(req[r].todo)
    BY <1>4, CheckMemberDoes
  <2>2. CASE req'[r] = Keep(r) /\ Live(u)
    <3>1. /\ req'[r].pc = "members" /\ req'[r].col = req[r].col /\ KeptSettled(r)'
          /\ \A v : v \in ToSet(req[r].kept) \cup ToSet(req[r].todo)
                 => v \in ToSet(req'[r].kept) \cup ToSet(req'[r].todo)
      BY <1>1, <2>1, <2>2, KeepsLooking
    <3>2. CreationOf(r)'
      BY <1>1, <2>1, <3>1 DEF CreationOf, OffCollections, Replacing
    <3>3. \A v \in Uploads : Has(r, v) => Has(r, v)'
      BY <2>1, <3>1 DEF Has, Replacing, Reading
    <3>. QED BY <1>2, <2>1, <3>1, <3>2, <3>3, LookingKeeps
  <2>3. CASE /\ req'[r].pc \in {"members", "remove"} /\ Carried(r) /\ (~Live(u) \/ Fault)
    <3>1. CreationOf(r)' /\ KeptSettled(r)'
      BY <1>1, <2>1, <2>3
         DEF CreationOf, KeptSettled, Settled, OffUploads, OffCollections, Replacing, Carried
    <3>2. \A v \in Uploads : Undisturbed' /\ Alive(v) /\ Has(r, v) => Has(r, v)'
      BY <1>2, <2>1, <2>3, NotLookedAt
         DEF Has, Replacing, Reading, Carried, Alive, Live, Readable
    <3>. QED BY <1>2, <2>1, <3>1, <3>2, LookingKeeps
  <2>. QED BY <1>4, <2>2, <2>3, CheckMemberDoes
<1>5. CASE EndMembers(r)
  <2>1. /\ OthersStay(r) /\ OffUploads /\ OffCollections
        /\ req[r].pc \in {"create", "members"} /\ req[r].todo = <<>>
    BY <1>5, EndMembersDoes
  <2>2. CASE /\ req'[r].pc \in Replacing
             /\ req'[r].col = req[r].col /\ req'[r].kept = req[r].kept
             /\ req[r].pc = "create" \/ req[r].kept # <<>>
    <3>1. CreationOf(r)' /\ KeptSettled(r)'
      BY <1>1, <2>1, <2>2
         DEF CreationOf, KeptSettled, Settled, OffUploads, OffCollections, Replacing
    <3>2. \A v \in Uploads : req[r].pc # "create" /\ Has(r, v) => Has(r, v)'
      BY <2>1, <2>2, EmptySet DEF Has, Replacing, Reading, Writing
    <3>. QED BY <1>2, <2>1, <2>2, <3>1, <3>2, LookingKeeps
  <2>3. CASE /\ req[r].pc = "members" /\ req[r].kept = <<>>
             /\ req'[r].pc = "removeEmpty" /\ req'[r].col = req[r].col /\ Carried(r)
    <3>1. CreationOf(r)' /\ KeptSettled(r)'
      BY <1>1, <2>1, <2>3
         DEF CreationOf, KeptSettled, Settled, OffUploads, OffCollections, Replacing, Carried
    <3>2. \A v \in Uploads : ~Has(r, v)
      BY <2>1, <2>3, EmptySet DEF Has, Reading
    <3>. QED BY <1>2, <2>1, <2>3, <3>1, <3>2, LookingKeeps
  <2>4. CASE req'[r] = Idle
    <3>1. LivesLess /\ NoRole(r)
      BY <2>1, <2>4, IdleFields DEF LivesLess, OffUploads, Alive, Settled, NoRole, Replacing
    <3>. QED BY <1>2, <2>1, <3>1, Alone, QuietKeeps
  <2>. QED BY <1>5, <2>2, <2>3, <2>4, EndMembersDoes
<1>. QED BY <1>3, <1>4, <1>5

LEMMA TruncationKeeps ==
    ASSUME StateTyped, ReqTyped, Shape, CollInv, NEW r \in Requests, TruncateCollection(r)
    PROVE  CollInv'
<1>. DEFINE c == req[r].col
<1>1. Undisturbed' => Undisturbed /\ ~Fault
  BY Disturbs DEF TruncateCollection
<1>2. /\ OthersStay(r) /\ OffUploads /\ UNCHANGED <<named, deleted>>
      /\ req[r].pc = "truncateColl" /\ c \in Collections
  BY TruncateCollectionDoes DEF Shape, ShapeOf
<1>3. CASE req'[r] = Idle /\ UNCHANGED coll
  <2>1. LivesLess /\ NoRole(r) /\ OffCollections
    BY <1>2, <1>3, IdleFields
       DEF LivesLess, OffUploads, OffCollections, Alive, Settled, NoRole, Replacing
  <2>. QED BY <1>1, <1>2, <2>1, Alone, QuietKeeps
<1>4. CASE /\ req'[r].pc = "saveColl" /\ req'[r].col = c /\ Carried(r)
           /\ coll' = [coll EXCEPT ![c] = Torn]
  <2>1. coll'[c] = Torn /\ \A d \in Collections : d # c => coll'[d] = coll[d]
    BY <1>2, <1>4 DEF StateTyped
  <2>2. Creation'
    BY <1>2, <1>4, <2>1
       DEF CollInv, Creation, OneCreator, CreationOf, OthersStay, Carried, Replacing
  <2>3. MembersSettled'
    BY <1>2, <1>4 DEF CollInv, MembersSettled, KeptSettled, Settled, OthersStay, OffUploads, Carried
  <2>4. ASSUME Undisturbed', NEW d \in Collections \ deleted, NEW u \in ToSet(named[d]), Alive(u)'
        PROVE  MemberKept(d, u)'
    <3>1. MemberKept(d, u)
      BY <1>1, <1>2, <2>4 DEF CollInv, CollectionsKept, OffUploads, Alive
    <3>2. ASSUME NEW q \in Requests, req'[q].col = d PROVE Has(q, u)'
      <4>1. req[q].col = d /\ Has(q, u)
        BY <1>2, <1>4, <3>1, <3>2 DEF MemberKept, OthersStay
      <4>2. CASE q = r
        BY <1>2, <1>4, <4>1, <4>2 DEF Has, Replacing, Reading, Writing, Carried
      <4>3. CASE q # r
        BY <1>2, <4>1, <4>3 DEF Has, OthersStay
      <4>. QED BY <4>2, <4>3
    <3>3. coll'[d] = Torn => \E q \in Requests : req'[q].pc = "saveColl" /\ req'[q].col = d
      BY <1>2, <1>4, <2>1, <3>1 DEF MemberKept, OthersStay
    <3>4. coll'[d] # Absent /\ (coll'[d] # Torn => Contains(coll'[d], u))
      BY <2>1, <3>1 DEF MemberKept
    <3>. QED BY <3>2, <3>3, <3>4 DEF MemberKept
  <2>. QED BY <1>2, <2>2, <2>3, <2>4 DEF CollInv, CollectionsKept
<1>. QED BY <1>1, <1>3, <1>4, TruncateCollectionDoes

LEMMA SavingKeeps ==
    ASSUME StateTyped, ReqTyped, Shape, CollInv, NEW r \in Requests, SaveCollection(r)
    PROVE  CollInv'
<1>. DEFINE c == req[r].col
            kept == req[r].kept
<1>1. Undisturbed' => Undisturbed /\ ~Fault
  BY Disturbs DEF SaveCollection
<1>2. /\ OthersStay(r) /\ OffUploads /\ UNCHANGED deleted
      /\ req[r].pc = "saveColl" /\ req'[r] = Idle /\ req'[r].col = Nil /\ req'[r].pc = "idle"
  BY SaveCollectionDoes, IdleFields
<1>3. CASE UNCHANGED <<coll, named>> /\ (Fault \/ c = Nil)
  <2>1. LivesLess /\ NoRole(r) /\ OffCollections
    BY <1>2, <1>3, IdleFields
       DEF LivesLess, OffUploads, OffCollections, Alive, Settled, NoRole, Replacing
  <2>. QED BY <1>1, <1>2, <1>3, <2>1, Alone, QuietKeeps
<1>4. CASE /\ c # Nil
           /\ coll' = [coll EXCEPT ![c] = kept]
           /\ named' = IF named[c] = <<>> THEN [named EXCEPT ![c] = kept] ELSE named
  <2>1. c \in Collections /\ kept \in Seq(Uploads) /\ kept # <<>> /\ KeptSettled(r)
    BY <1>2, <1>4, Fields DEF CollInv, Creation, CreationOf, MembersSettled, Replacing
  <2>. HIDE DEF kept
  <2>2. /\ coll'[c] = kept /\ named'[c] = (IF named[c] = <<>> THEN kept ELSE named[c])
        /\ \A d \in Collections : d # c => coll'[d] = coll[d] /\ named'[d] = named[d]
    BY <1>4, <2>1 DEF StateTyped
  <2>3. named[c] = <<>> => \A q \in Requests : req[q].col = c => q = r
    BY <2>1 DEF CollInv, Creation, OneCreator
  <2>4. named'[c] # <<>> /\ kept \notin {Absent, Torn}
    BY <2>1, <2>2
  <2>5. \A q \in Requests : CreationOf(q)'
    <3>. TAKE q \in Requests
    <3>1. CASE q = r
      BY <1>2, <3>1 DEF CreationOf, Replacing
    <3>2. CASE q # r
      <4>1. req'[q] = req[q] /\ CreationOf(q) /\ req[q].col \in Collections \cup {Nil}
        BY <1>2, <3>2, Fields DEF OthersStay, CollInv, Creation
      <4>2. req[q].pc = "create" => req[q].col \in Collections
        BY DEF Shape, ShapeOf
      <4>3. req[q].pc = "create" => req[q].col # c
        BY <2>3, <3>2, <4>1 DEF CreationOf
      <4>. QED BY <2>2, <2>4, <4>1, <4>2, <4>3 DEF CreationOf
    <3>. QED BY <3>1, <3>2
  <2>6. Creation'
    BY <1>2, <2>1, <2>2, <2>4, <2>5 DEF CollInv, Creation, OneCreator, OthersStay
  <2>7. MembersSettled'
    <3>1. \A q \in Requests : KeptSettled(q)'
      BY <1>2 DEF CollInv, MembersSettled, KeptSettled, Settled, OthersStay, OffUploads
    <3>2. \A d \in Collections : \A u \in ToSet(named'[d]) : Settled(u)'
      BY <1>2, <1>4, <2>1, <2>2
         DEF CollInv, MembersSettled, KeptSettled, Settled, OffUploads, kept
    <3>. QED BY <3>1, <3>2 DEF MembersSettled
  <2>8. ASSUME Undisturbed', NEW d \in Collections \ deleted, NEW u \in ToSet(named'[d]), Alive(u)'
        PROVE  MemberKept(d, u)'
    <3>1. CASE d = c /\ named[c] = <<>>
      <4>1. u \in ToSet(kept)
        BY <2>2, <2>8, <3>1
      <4>2. Contains(kept, u)
        BY <2>1, <4>1, ListMembers
      <4>3. \A q \in Requests : req'[q].col # c
        BY <1>2, <1>4, <2>3, <3>1 DEF OthersStay
      <4>. QED BY <2>2, <2>4, <3>1, <4>2, <4>3 DEF MemberKept
    <3>2. CASE d # c \/ named[c] # <<>>
      <4>1. u \in ToSet(named[d])
        BY <2>2, <2>8, <3>2
      <4>2. MemberKept(d, u)
        BY <1>1, <1>2, <2>8, <4>1 DEF CollInv, CollectionsKept, OffUploads, Alive
      <4>3. ASSUME NEW q \in Requests, req'[q].col = d PROVE Has(q, u)'
        <5>1. q # r
          BY <1>2, <4>3
        <5>. QED BY <1>2, <4>2, <4>3, <5>1 DEF Has, MemberKept, OthersStay
      <4>4. CASE d # c
        <5>1. coll'[d] = coll[d]
          BY <2>2, <4>4
        <5>2. coll[d] = Torn => \E q \in Requests : req'[q].pc = "saveColl" /\ req'[q].col = d
          BY <1>2, <4>2, <4>4 DEF MemberKept, OthersStay
        <5>. QED BY <4>2, <4>3, <5>1, <5>2 DEF MemberKept
      <4>5. CASE d = c
        <5>1. u \in ToSet(kept)
          BY <1>2, <4>2, <4>5 DEF MemberKept, Has, Replacing, kept
        <5>2. Contains(kept, u)
          BY <2>1, <5>1, ListMembers
        <5>. QED BY <2>2, <2>4, <4>3, <4>5, <5>2 DEF MemberKept
      <4>. QED BY <4>4, <4>5
    <3>. QED BY <3>1, <3>2
  <2>. QED BY <1>2, <2>6, <2>7, <2>8 DEF CollInv, CollectionsKept
<1>. QED BY <1>3, <1>4, SaveCollectionDoes

LEMMA BeginningKeeps ==
    ASSUME StateTyped, ReqTyped, Shape, CollInv, NEW r \in Requests, NEW c \in Collections,
           \/ CreateCollection(r, c) \/ OpenCollection(r, c) \/ CheckCollectionToken(r, c)
    PROVE  CollInv'
<1>1. /\ OthersStay(r) /\ OffUploads /\ OffCollections /\ UNCHANGED faults
      /\ req[r].pc = "idle" /\ req'[r].col = c /\ req'[r].kept = <<>> /\ c # Nil
  BY BeginCollectionDoes
<1>2. \/ /\ req'[r].pc = "create" /\ req'[r].todo # <<>>
         /\ named[c] = <<>> /\ \A q \in Requests : req[q].col # c
      \/ req'[r].pc = "members" /\ req'[r].todo = coll[c] /\ named[c] # <<>>
      \/ req'[r].pc = "removeColl" /\ named[c] # <<>>
  BY BeginCollectionDoes, RefListTyped, SeqFacts DEF CollInv, Creation
<1>3. Creation'
  <2>1. \A q \in Requests : CreationOf(q)'
    BY <1>1, <1>2 DEF CollInv, Creation, CreationOf, OthersStay, OffCollections, Replacing
  <2>. QED BY <1>1, <1>2, <2>1 DEF CollInv, Creation, OneCreator, OthersStay, OffCollections
<1>4. MembersSettled'
  BY <1>1, EmptySet
     DEF CollInv, MembersSettled, KeptSettled, Settled, OthersStay, OffUploads, OffCollections
<1>5. ASSUME Undisturbed', NEW d \in Collections \ deleted, NEW u \in ToSet(named[d]), Alive(u)'
      PROVE  MemberKept(d, u)'
  <2>1. MemberKept(d, u)
    BY <1>1, <1>5 DEF CollInv, CollectionsKept, OffUploads, Alive, Undisturbed
  <2>2. coll[d] = Torn => \E q \in Requests : req'[q].pc = "saveColl" /\ req'[q].col = d
    BY <1>1, <2>1 DEF MemberKept, OthersStay
  <2>3. named[d] # <<>>
    BY EmptySet
  <2>4. ASSUME NEW q \in Requests, req'[q].col = d PROVE Has(q, u)'
    <3>1. CASE q = r /\ req'[r].pc = "members"
      <4>1. d = c /\ req'[r].todo = coll[c] /\ coll[c] \in Seq(Uploads)
        BY <1>1, <1>2, <2>4, <3>1, BeginCollectionDoes DEF StateTyped
      <4>2. u \in ToSet(coll[c])
        BY <2>1, <4>1, ListMembers DEF MemberKept
      <4>. QED BY <3>1, <4>1, <4>2 DEF Has, Replacing
    <3>2. CASE q = r /\ req'[r].pc = "removeColl"
      BY <3>2 DEF Has, Replacing, Reading, Writing
    <3>3. CASE q # r
      BY <1>1, <2>1, <2>4, <3>3 DEF MemberKept, Has, OthersStay
    <3>. QED BY <1>1, <1>2, <2>3, <2>4, <3>1, <3>2, <3>3
  <2>. QED BY <1>1, <2>1, <2>2, <2>4 DEF MemberKept, OffCollections
<1>. QED BY <1>1, <1>3, <1>4, <1>5 DEF CollInv, CollectionsKept, OffCollections

LEMMA RemovalKeeps ==
    ASSUME StateTyped, ReqTyped, Shape, CollInv, NEW r \in Requests, RemoveCollection(r)
    PROVE  CollInv'
<1>. DEFINE c == req[r].col
<1>1. Undisturbed' => Undisturbed /\ ~Fault
  BY Disturbs DEF RemoveCollection
<1>2. /\ OffUploads /\ UNCHANGED named
      /\ req[r].pc \in {"removeColl", "removeEmpty"} /\ req'[r] = Idle
      /\ req'[r].col = Nil /\ req'[r].pc = "idle" /\ c \in Collections
  BY RemoveCollectionDoes, IdleFields DEF Shape, ShapeOf
<1>3. CASE OthersStay(r) /\ UNCHANGED <<coll, deleted>>
  <2>1. LivesLess /\ NoRole(r) /\ OffCollections
    BY <1>2, <1>3, IdleFields
       DEF LivesLess, OffUploads, OffCollections, Alive, Settled, NoRole, Replacing
  <2>. QED BY <1>1, <1>2, <1>3, <2>1, Alone, QuietKeeps
<1>4. CASE /\ coll' = [coll EXCEPT ![c] = Absent]
           /\ deleted' = IF req[r].pc = "removeColl" THEN deleted \cup {c} ELSE deleted
           /\ \A q \in Requests \ {r} :
                 \/ req'[q] = req[q]
                 \/ /\ req[q].pc = "saveColl" /\ req'[q].pc = "saveColl"
                    /\ req[q].col = c /\ req'[q].col = Nil /\ Carried(q)
  <2>1. coll'[c] = Absent /\ \A d \in Collections : d # c => coll'[d] = coll[d]
    BY <1>2, <1>4 DEF StateTyped
  <2>2. \A q \in Requests : CreationOf(q)'
    BY <1>2, <1>4 DEF CollInv, Creation, CreationOf, Carried, Replacing
  <2>3. Creation'
    BY <1>2, <1>4, <2>1, <2>2 DEF CollInv, Creation, OneCreator
  <2>4. MembersSettled'
    BY <1>2, <1>4 DEF CollInv, MembersSettled, KeptSettled, Settled, OffUploads
  <2>5. ASSUME Undisturbed', NEW d \in Collections \ deleted', NEW u \in ToSet(named[d]), Alive(u)'
        PROVE  MemberKept(d, u)'
    <3>1. MemberKept(d, u)
      BY <1>1, <1>2, <1>4, <2>5 DEF CollInv, CollectionsKept, OffUploads, Alive
    <3>2. d # c
      BY <1>2, <1>4, <2>5, <3>1 DEF MemberKept, Has
    <3>3. \A q \in Requests : req[q].col = d /\ q # r => req'[q] = req[q]
      BY <1>4, <3>2
    <3>4. \A q \in Requests : req'[q].col = d => q # r /\ req'[q] = req[q]
      BY <1>2, <1>4
    <3>5. \A q \in Requests : req'[q].col = d => Has(q, u)'
      BY <3>1, <3>4 DEF MemberKept, Has
    <3>6. coll[d] = Torn => \E q \in Requests : req'[q].pc = "saveColl" /\ req'[q].col = d
      BY <1>2, <3>1, <3>2, <3>3 DEF MemberKept
    <3>. QED BY <2>1, <3>1, <3>2, <3>5, <3>6 DEF MemberKept
  <2>. QED BY <1>2, <2>3, <2>4, <2>5 DEF CollInv, CollectionsKept
<1>. QED BY <1>3, <1>4, RemoveCollectionDoes

LEMMA StepKeepsMembers ==
    ASSUME StateTyped, ReqTyped, Places, Lingers, CollInv, [Next]_vars
    PROVE  CollInv'
<1>1. Shape
  BY DEF Places
<1>2. ASSUME NEW u \in Uploads, Expire(u) PROVE CollInv'
  <2>1. LivesLess /\ OffCollections /\ \A q \in Requests : SameRole(q)
    BY <1>2 DEF Expire, LivesLess, Alive, Settled, OffCollections, SameRole, history
  <2>2. UNCHANGED faults
    BY <1>2 DEF Expire
  <2>. QED BY <2>1, <2>2, QuietKeeps DEF Undisturbed
<1>7. ASSUME NEW u \in Uploads, Sweep(u) PROVE CollInv'
  <2>1. /\ UNCHANGED <<req, faults, expired>> /\ OffCollections
        /\ upload' = [upload EXCEPT ![u] = "gone"]
    BY <1>7 DEF Sweep, OffCollections
  <2>2. LivesLess
    BY <2>1 DEF LivesLess, Alive, Settled, StateTyped
  <2>. QED BY <2>1, <2>2, QuietKeeps DEF Undisturbed, SameRole
<1>3. CASE Crash
  <2>1. LivesLess /\ OffCollections /\ \A q \in Requests : NoRole(q)
    BY <1>3, IdleFields
       DEF Crash, LivesLess, Alive, Settled, OffCollections, NoRole, Replacing, history
  <2>2. ~Undisturbed'
    BY <1>3 DEF Crash, Fault, Undisturbed, StateTyped
  <2>. QED BY <2>1, <2>2, QuietKeeps
<1>4. ASSUME NEW r \in Requests, IndexStep(r) \/ UploadStep(r) \/ CountStep(r)
      PROVE  CollInv'
  <2>1. /\ OthersStay(r) /\ OffCollections /\ (SameRole(r) \/ NoRole(r))
        /\ req[r].pc \notin Replacing /\ (Fault \/ NoFault \/ UNCHANGED faults)
    BY <1>1, <1>4, RolesStay
  <2>2. LivesLess
    BY <1>4, Moves, MovesLiveLess
  <2>3. Undisturbed' => Undisturbed
    BY <2>1, Disturbs
  <2>. QED BY <2>1, <2>2, <2>3, Alone, QuietKeeps DEF Replacing
<1>5. ASSUME NEW r \in Requests, CollectionStep(r) \/ RemoveCollection(r) PROVE CollInv'
  BY <1>1, <1>5, LookingStepsKeep, TruncationKeeps, SavingKeeps, BeginningKeeps, RemovalKeeps
     DEF CollectionStep
<1>6. CASE UNCHANGED vars
  <2>1. LivesLess /\ OffCollections /\ \A q \in Requests : SameRole(q)
    BY <1>6 DEF vars, LivesLess, Alive, Settled, OffCollections, SameRole
  <2>. QED BY <1>6, <2>1, QuietKeeps DEF vars, Undisturbed
<1>. QED BY <1>2, <1>3, <1>4, <1>5, <1>6, <1>7, Steps DEF WorldStep

\* A collection keeps every member that is alive, although its readers prune it and
\* overwrite each other's results under no lock.
THEOREM CollectionsKeepTheLiving == Spec => []MembersKept
<1>. DEFINE Inv == StateTyped /\ ReqTyped /\ Places /\ Lingers /\ CollInv
<1>1. Init => Inv
  <2>. SUFFICES ASSUME Init PROVE CollInv
    BY InitPlaced
  <2>1. \A r \in Requests : req[r] = Idle
    BY DEF Init
  <2>2. \A c \in Collections : coll[c] = Absent /\ named[c] = <<>>
    BY DEF Init
  <2>. QED BY <2>1, <2>2, IdleFields, EmptySet
       DEF CollInv, Creation, CreationOf, OneCreator, MembersSettled, KeptSettled,
           CollectionsKept, Replacing
<1>2. Inv /\ [Next]_vars => Inv'
  BY StepPlaced, StepLingers, StepKeepsMembers
<1>3. Inv => MembersKept
  <2>. SUFFICES ASSUME Inv, Undisturbed, AtRest, NEW c \in Collections \ deleted,
                       NEW u \in ToSet(named[c]), Alive(u)
                PROVE  coll[c] # Absent /\ Contains(coll[c], u)
    BY DEF MembersKept, Alive
  <2>. QED BY DEF CollInv, CollectionsKept, MemberKept, AtRest, Alive
<1>. QED BY <1>1, <1>2, <1>3, PTL DEF Spec

-------------------------------------------------------------------------------
(* Lists of recorded uploads *)

LEMMA Consed ==
    ASSUME NEW s \in Seq(Uploads), NEW u \in Uploads
    PROVE  LET t == <<u>> \o s IN
           /\ t \in Seq(Uploads) /\ Len(t) = Len(s) + 1 /\ t[1] = u
           /\ \A i \in 1..Len(s) : t[i + 1] = s[i]
<1>. DEFINE t == <<u>> \o s
<1>1. <<u>> \in Seq(Uploads) /\ Len(<<u>>) = 1 /\ <<u>>[1] = u /\ Len(s) \in Nat
  BY SeqFacts
<1>2. /\ t \in Seq(Uploads) /\ Len(t) = 1 + Len(s)
      /\ \A i \in 1..1 + Len(s) : t[i] = IF i <= 1 THEN <<u>>[i] ELSE s[i - 1]
  BY <1>1, ConcatProperties
<1>. HIDE DEF t
<1>3. t[1] = u
  BY <1>1, <1>2
<1>4. \A i \in 1..Len(s) : t[i + 1] = s[i]
  BY <1>1, <1>2
<1>5. Len(t) = Len(s) + 1
  BY <1>1, <1>2
<1>. QED BY <1>2, <1>3, <1>4, <1>5 DEF t

LEMMA AppendFacts ==
    ASSUME NEW o \in Seq(Uploads), NEW u \in Uploads
    PROVE  LET p == Append(o, u) IN
           /\ p \in Seq(Uploads) /\ Len(p) = Len(o) + 1 /\ DOMAIN p = 1..(Len(o) + 1)
           /\ p[Len(o) + 1] = u /\ \A i \in 1..Len(o) : p[i] = o[i]
BY AppendProperties, SeqFacts

\* A newer upload goes first.
LEMMA NewerFirst ==
    ASSUME NEW s \in Seq(Uploads), NEW o \in Seq(Uploads), NEW u \in Uploads, ListingOf(s, o)
    PROVE  ListingOf(<<u>> \o s, Append(o, u))
<1>. DEFINE t == <<u>> \o s
            p == Append(o, u)
<1>1. /\ Len(s) \in Nat /\ DOMAIN s = 1..Len(s) /\ Len(o) \in Nat /\ DOMAIN o = 1..Len(o)
  BY SeqFacts
<1>2. /\ t \in Seq(Uploads) /\ Len(t) = Len(s) + 1 /\ t[1] = u
      /\ \A i \in 1..Len(s) : t[i + 1] = s[i]
  BY Consed
<1>3. DOMAIN t = 1..(Len(s) + 1)
  BY <1>2, SeqFacts
<1>4. /\ Len(p) = Len(o) + 1 /\ DOMAIN p = 1..(Len(o) + 1)
      /\ p[Len(o) + 1] = u /\ \A i \in 1..Len(o) : p[i] = o[i]
  BY AppendFacts
<1>. HIDE DEF t, p
<1>5. ASSUME NEW i \in DOMAIN t PROVE \E k \in DOMAIN p : p[k] = t[i] /\ Len(p) - k >= i - 1
  <2>1. CASE i = 1
    <3>1. /\ Len(o) + 1 \in DOMAIN p /\ p[Len(o) + 1] = t[i]
          /\ Len(p) - (Len(o) + 1) >= i - 1
      BY <1>1, <1>2, <1>4, <2>1
    <3>. QED BY <3>1
  <2>2. CASE i # 1
    <3>1. i - 1 \in 1..Len(s) /\ t[i] = s[i - 1]
      BY <1>1, <1>2, <1>3, <2>2
    <3>2. PICK k \in DOMAIN o : o[k] = s[i - 1] /\ Len(o) - k >= i - 1 - 1
      BY <1>1, <3>1 DEF ListingOf
    <3>3. k \in DOMAIN p /\ p[k] = t[i] /\ Len(p) - k >= i - 1
      BY <1>1, <1>3, <1>4, <3>1, <3>2
    <3>. QED BY <3>3
  <2>. QED BY <2>1, <2>2
<1>6. ASSUME NEW i \in DOMAIN t, NEW j \in DOMAIN t, i < j
      PROVE  \E k, m \in DOMAIN p : m < k /\ p[k] = t[i] /\ p[m] = t[j]
  <2>1. j - 1 \in 1..Len(s) /\ t[j] = s[j - 1]
    BY <1>1, <1>2, <1>3, <1>6
  <2>2. CASE i = 1
    <3>1. PICK m \in DOMAIN o : o[m] = s[j - 1]
      BY <1>1, <2>1 DEF ListingOf
    <3>2. m \in DOMAIN p /\ p[m] = t[j] /\ Len(o) + 1 \in DOMAIN p /\ m < Len(o) + 1
      BY <1>1, <1>4, <2>1, <3>1
    <3>. QED BY <1>2, <1>4, <2>2, <3>2
  <2>3. CASE i # 1
    <3>1. i - 1 \in 1..Len(s) /\ t[i] = s[i - 1] /\ i - 1 < j - 1
      BY <1>1, <1>2, <1>3, <1>6, <2>3
    <3>2. PICK k \in DOMAIN o, m \in DOMAIN o : m < k /\ o[k] = s[i - 1] /\ o[m] = s[j - 1]
      BY <1>1, <2>1, <3>1 DEF ListingOf
    <3>3. k \in DOMAIN p /\ m \in DOMAIN p /\ p[k] = t[i] /\ p[m] = t[j]
      BY <1>1, <1>4, <2>1, <3>1, <3>2
    <3>. QED BY <3>2, <3>3
  <2>. QED BY <2>2, <2>3
<1>. QED BY <1>5, <1>6 DEF ListingOf, t, p

\* A list that leaves one out, or the oldest ones, is in order still.
LEMMA LeavingOneOut ==
    ASSUME NEW s \in Seq(Uploads), NEW o \in Seq(Uploads), ListingOf(s, o),
           NEW i \in 1..Len(s), NEW t \in Seq(Uploads), Len(t) = Len(s) - 1,
           \A j \in 1..Len(t) : t[j] = IF j < i THEN s[j] ELSE s[j + 1]
    PROVE  /\ ListingOf(t, o)
           /\ \A u : u \in ToSet(s) <=> u = s[i] \/ u \in ToSet(t)
<1>1. /\ Len(s) \in Nat /\ DOMAIN s = 1..Len(s) /\ Len(o) \in Nat /\ DOMAIN o = 1..Len(o)
      /\ DOMAIN t = 1..Len(t) /\ Len(t) \in Nat
  BY SeqFacts
<1>. DEFINE at(j) == IF j < i THEN j ELSE j + 1
<1>2. \A j \in 1..Len(t) : at(j) \in 1..Len(s) /\ t[j] = s[at(j)] /\ at(j) >= j
  BY <1>1
<1>3. \A j, k \in 1..Len(t) : j < k => at(j) < at(k)
  BY <1>1
<1>4. \A j \in 1..Len(s) : j # i => \E k \in 1..Len(t) : at(k) = j
  <2>. TAKE j \in 1..Len(s)
  <2>1. CASE j < i
    BY <1>1, <2>1
  <2>2. CASE j > i
    <3>1. j - 1 \in 1..Len(t) /\ at(j - 1) = j
      BY <1>1, <2>2
    <3>. QED BY <3>1
  <2>. QED BY <1>1, <2>1, <2>2
<1>. HIDE DEF at
<1>5. ASSUME NEW j \in DOMAIN t PROVE \E k \in DOMAIN o : o[k] = t[j] /\ Len(o) - k >= j - 1
  <2>1. PICK k \in DOMAIN o : o[k] = s[at(j)] /\ Len(o) - k >= at(j) - 1
    BY <1>1, <1>2 DEF ListingOf
  <2>2. o[k] = t[j] /\ Len(o) - k >= j - 1
    BY <1>1, <1>2, <2>1
  <2>. QED BY <2>2
<1>6. ASSUME NEW j \in DOMAIN t, NEW l \in DOMAIN t, j < l
      PROVE  \E k, m \in DOMAIN o : m < k /\ o[k] = t[j] /\ o[m] = t[l]
  <2>1. at(j) \in DOMAIN s /\ at(l) \in DOMAIN s /\ at(j) < at(l)
    BY <1>1, <1>2, <1>3, <1>6
  <2>2. PICK k \in DOMAIN o, m \in DOMAIN o : m < k /\ o[k] = s[at(j)] /\ o[m] = s[at(l)]
    BY <2>1 DEF ListingOf
  <2>. QED BY <1>1, <1>2, <2>2
<1>7. ASSUME NEW u PROVE u \in ToSet(s) <=> u = s[i] \/ u \in ToSet(t)
  <2>1. u \in ToSet(s) <=> \E j \in 1..Len(s) : s[j] = u
    BY ListMembers
  <2>2. u \in ToSet(t) <=> \E j \in 1..Len(t) : t[j] = u
    BY ListMembers
  <2>3. ASSUME NEW j \in 1..Len(s), s[j] = u, j # i PROVE u \in ToSet(t)
    BY <1>2, <1>4, <2>2, <2>3
  <2>4. u \in ToSet(t) => u \in ToSet(s)
    BY <1>2, <2>1, <2>2
  <2>. QED BY <2>1, <2>3, <2>4
<1>. QED BY <1>5, <1>6, <1>7 DEF ListingOf

LEMMA Trimmed ==
    ASSUME NEW s \in Seq(Uploads)
    PROVE  LET t == Trim(s) IN
           /\ t \in Seq(Uploads) /\ Len(t) <= IndexLimit /\ Len(t) <= Len(s)
           /\ \A i \in 1..Len(t) : t[i] = s[i]
           /\ \A i \in 1..Len(s) : i <= IndexLimit => i \in 1..Len(t)
<1>1. Len(s) \in Nat
  BY SeqFacts
<1>2. CASE Len(s) > IndexLimit
  <2>. DEFINE t == SubSeq(s, 1, IndexLimit)
  <2>1. \A i \in 1..IndexLimit : s[i] \in Uploads
    BY <1>1, <1>2, SeqFacts
  <2>2. /\ t \in Seq(Uploads) /\ Len(t) = IndexLimit
        /\ \A i \in 1..IndexLimit : t[i] = s[i]
    BY <1>1, <1>2, <2>1, SubSeqProperties
  <2>. HIDE DEF t
  <2>3. Trim(s) = t
    BY <1>2 DEF Trim, t
  <2>. QED BY <1>1, <1>2, <2>2, <2>3
<1>3. CASE ~(Len(s) > IndexLimit)
  BY <1>1, <1>3 DEF Trim
<1>. QED BY <1>2, <1>3

LEMMA TrimmedListing ==
    ASSUME NEW s \in Seq(Uploads), NEW o \in Seq(Uploads), ListingOf(s, o)
    PROVE  /\ Len(Trim(s)) <= IndexLimit /\ ListingOf(Trim(s), o)
           /\ ToSet(Trim(s)) \subseteq ToSet(s)
<1>. DEFINE t == Trim(s)
<1>1. /\ t \in Seq(Uploads) /\ Len(t) <= IndexLimit /\ Len(t) <= Len(s)
      /\ \A i \in 1..Len(t) : t[i] = s[i]
  BY Trimmed
<1>2. /\ Len(s) \in Nat /\ DOMAIN s = 1..Len(s) /\ Len(t) \in Nat /\ DOMAIN t = 1..Len(t)
  BY <1>1, SeqFacts
<1>. HIDE DEF t
<1>3. \A i \in DOMAIN t : i \in DOMAIN s /\ t[i] = s[i]
  BY <1>1, <1>2
<1>. QED BY <1>1, <1>3 DEF ListingOf, ToSet, t

LEMMA NamedOnce ==
    ASSUME NEW s \in Seq(Uploads), NEW o \in Seq(Uploads), ListingOf(s, o),
           \A i, j \in DOMAIN o : o[i] = o[j] => i = j
    PROVE  \A i, j \in 1..Len(s) : s[i] = s[j] => i = j
<1>1. /\ Len(s) \in Nat /\ DOMAIN s = 1..Len(s) /\ Len(o) \in Nat /\ DOMAIN o = 1..Len(o)
  BY SeqFacts
<1>2. ASSUME NEW i \in 1..Len(s), NEW j \in 1..Len(s), i < j PROVE s[i] # s[j]
  <2>1. i \in DOMAIN s /\ j \in DOMAIN s
    BY <1>1
  <2>2. PICK k \in DOMAIN o, m \in DOMAIN o : m < k /\ o[k] = s[i] /\ o[m] = s[j]
    BY <1>2, <2>1 DEF ListingOf
  <2>3. k # m
    BY <1>1, <2>2
  <2>. QED BY <2>2, <2>3
<1>. QED BY <1>1, <1>2

\* The index less an upload is the index less that upload.
LEMMA WithoutListing ==
    ASSUME NEW s \in Seq(Uploads), NEW o \in Seq(Uploads), ListingOf(s, o), Len(s) <= IndexLimit,
           \A i, j \in DOMAIN o : o[i] = o[j] => i = j, NEW u, Contains(s, u)
    PROVE  /\ Without(s, u) \in Seq(Uploads) /\ Len(Without(s, u)) <= IndexLimit
           /\ ListingOf(Without(s, u), o)
           /\ ToSet(Without(s, u)) = ToSet(s) \ {u}
<1>1. PICK i \in 1..Len(s) : s[i] = u /\ Without(s, u) = RemoveAt(s, i)
  BY WithoutTyped
<1>. DEFINE t == RemoveAt(s, i)
<1>2. /\ t \in Seq(Uploads) /\ Len(t) = Len(s) - 1
      /\ \A j \in 1..Len(t) : t[j] = IF j < i THEN s[j] ELSE s[j + 1]
  BY WithoutOne
<1>. HIDE DEF t
<1>3. /\ ListingOf(t, o)
      /\ \A v : v \in ToSet(s) <=> v = s[i] \/ v \in ToSet(t)
  BY <1>2, LeavingOneOut
<1>4. u \notin ToSet(t)
  <2>1. Len(s) \in Nat /\ Len(t) \in Nat /\ DOMAIN t = 1..Len(t)
    BY <1>2, SeqFacts
  <2>2. \A j, k \in 1..Len(s) : s[j] = s[k] => j = k
    BY NamedOnce
  <2>3. \A j \in 1..Len(t) : t[j] # s[i]
    BY <1>2, <2>1, <2>2
  <2>. QED BY <1>1, <2>1, <2>3 DEF ToSet
<1>5. Len(t) <= IndexLimit
  BY <1>2, SeqFacts
<1>. QED BY <1>1, <1>2, <1>3, <1>4, <1>5 DEF t

\* What falls off the end is old enough.
LEMMA TrimComplete ==
    ASSUME NEW s \in Seq(Uploads), NEW o \in Seq(Uploads), ListingOf(s, o), Complete(s, o),
           \A i, j \in DOMAIN o : o[i] = o[j] => i = j
    PROVE  Complete(Trim(s), o)
<1>. DEFINE t == Trim(s)
<1>1. /\ t \in Seq(Uploads) /\ \A j \in 1..Len(t) : t[j] = s[j]
      /\ \A j \in 1..Len(s) : j <= IndexLimit => j \in 1..Len(t)
  BY Trimmed
<1>2. /\ Len(s) \in Nat /\ DOMAIN s = 1..Len(s) /\ Len(o) \in Nat /\ DOMAIN o = 1..Len(o)
      /\ Len(t) \in Nat /\ DOMAIN t = 1..Len(t)
  BY <1>1, SeqFacts
<1>. HIDE DEF t
<1>3. ASSUME NEW i \in DOMAIN o, Intact(o[i]), ~(Len(o) - i >= IndexLimit)
      PROVE  Contains(t, o[i])
  <2>1. Contains(s, o[i])
    BY <1>3 DEF Complete
  <2>2. PICK j \in DOMAIN s : s[j] = o[i]
    BY <1>2, <2>1 DEF Contains
  <2>3. PICK k \in DOMAIN o : o[k] = s[j] /\ Len(o) - k >= j - 1
    BY <2>2 DEF ListingOf
  <2>4. k = i
    BY <2>2, <2>3
  <2>5. j <= IndexLimit
    BY <1>2, <1>3, <2>3, <2>4
  <2>6. j \in 1..Len(t) /\ t[j] = o[i]
    BY <1>1, <1>2, <2>2, <2>5
  <2>. QED BY <2>6 DEF Contains
<1>. QED BY <1>3 DEF Complete, t

LEMMA NewerComplete ==
    ASSUME NEW s \in Seq(Uploads), NEW o \in Seq(Uploads), NEW u \in Uploads, Complete(s, o)
    PROVE  Complete(<<u>> \o s, Append(o, u))
<1>. DEFINE t == <<u>> \o s
            p == Append(o, u)
<1>1. /\ Len(s) \in Nat /\ DOMAIN s = 1..Len(s) /\ Len(o) \in Nat /\ DOMAIN o = 1..Len(o)
  BY SeqFacts
<1>2. /\ t \in Seq(Uploads) /\ Len(t) = Len(s) + 1 /\ t[1] = u
      /\ \A i \in 1..Len(s) : t[i + 1] = s[i]
  BY Consed
<1>3. /\ Len(p) = Len(o) + 1 /\ DOMAIN p = 1..(Len(o) + 1)
      /\ p[Len(o) + 1] = u /\ \A i \in 1..Len(o) : p[i] = o[i]
  BY AppendFacts
<1>. HIDE DEF t, p
<1>4. 1 \in 1..Len(t) /\ \A j \in 1..Len(s) : j + 1 \in 1..Len(t)
  BY <1>1, <1>2
<1>5. ASSUME NEW i \in DOMAIN p, Intact(p[i]), ~(Len(p) - i >= IndexLimit)
      PROVE  Contains(t, p[i])
  <2>1. CASE i = Len(o) + 1
    BY <1>2, <1>3, <1>4, <2>1 DEF Contains
  <2>2. CASE i # Len(o) + 1
    <3>1. i \in DOMAIN o /\ p[i] = o[i] /\ ~(Len(o) - i >= IndexLimit)
      BY <1>1, <1>3, <1>5, <2>2
    <3>2. Contains(s, o[i])
      BY <1>5, <3>1 DEF Complete
    <3>3. PICK j \in DOMAIN s : s[j] = o[i]
      BY <1>1, <3>2 DEF Contains
    <3>4. j + 1 \in 1..Len(t) /\ t[j + 1] = p[i]
      BY <1>1, <1>2, <1>4, <3>1, <3>3
    <3>. QED BY <3>4 DEF Contains
  <2>. QED BY <2>1, <2>2
<1>. QED BY <1>5 DEF Complete, t, p

LEMMA LessComplete ==
    ASSUME NEW s \in Seq(Uploads), NEW t \in Seq(Uploads), NEW o \in Seq(Uploads), NEW u,
           Complete(s, o), ~Intact(u), \A v \in ToSet(s) : v # u => v \in ToSet(t)
    PROVE  Complete(t, o)
<1>1. \A v : (Contains(s, v) <=> v \in ToSet(s)) /\ (Contains(t, v) <=> v \in ToSet(t))
  BY ListMembers
<1>. QED BY <1>1 DEF Complete

\* What a listing has kept and not looked at yet: an entry that is kept stays, one
\* that is dropped goes, and in the end what it has kept is all.
LEMMA LeftBehind ==
    ASSUME ReqTyped, NEW r \in Requests
    PROVE  /\ Left(r) \in Seq(Uploads)
           /\ req[r].kept = <<>> => Left(r) = req[r].todo
           /\ req[r].todo = <<>> => Left(r) = req[r].kept
<1>1. req[r].kept \in Seq(Uploads) /\ req[r].todo \in Seq(Uploads)
  BY Fields
<1>2. Left(r) \in Seq(Uploads)
  BY <1>1, ConcatProperties DEF Left
<1>3. req[r].kept = <<>> => Left(r) = req[r].todo
  BY <1>1, ConcatEmptySeq DEF Left
<1>4. req[r].todo = <<>> => Left(r) = req[r].kept
  BY <1>1, ConcatEmptySeq DEF Left
<1>. QED BY <1>2, <1>3, <1>4

LEMMA KeptIsLeft ==
    ASSUME ReqTyped, NEW r \in Requests, req[r].todo # <<>>, req'[r] = Keep(r)
    PROVE  Left(r)' = Left(r)
<1>. DEFINE a == req[r].kept
            b == req[r].todo
            c == Append(a, Head(b))
            d == Tail(b)
<1>1. /\ a \in Seq(Uploads) /\ b \in Seq(Uploads)
      /\ c \in Seq(Uploads) /\ d \in Seq(Uploads)
  BY Fields, HeadTyped
<1>2. req'[r].kept = c /\ req'[r].todo = d
  BY LookedFields
<1>3. /\ Len(a) \in Nat /\ Len(c) = Len(a) + 1 /\ c[Len(a) + 1] = Head(b)
      /\ \A i \in 1..Len(a) : c[i] = a[i]
  BY <1>1, HeadTyped, AppendProperties, SeqFacts
<1>4. /\ Head(b) = b[1] /\ Len(b) \in Nat /\ Len(b) > 0 /\ Len(d) = Len(b) - 1
      /\ \A i \in 1..(Len(b) - 1) : d[i] = b[i + 1]
  BY <1>1, HeadAndTail, SeqFacts
<1>. HIDE DEF a, b, c, d
<1>5. /\ a \o b \in Seq(Uploads) /\ Len(a \o b) = Len(a) + Len(b)
      /\ \A i \in 1..Len(a) + Len(b) : (a \o b)[i] = IF i <= Len(a) THEN a[i] ELSE b[i - Len(a)]
  BY <1>1, ConcatProperties
<1>6. /\ c \o d \in Seq(Uploads) /\ Len(c \o d) = Len(c) + Len(d)
      /\ \A i \in 1..Len(c) + Len(d) : (c \o d)[i] = IF i <= Len(c) THEN c[i] ELSE d[i - Len(c)]
  BY <1>1, ConcatProperties
<1>7. Len(c \o d) = Len(a \o b)
  BY <1>3, <1>4, <1>5, <1>6
<1>8. ASSUME NEW i \in 1..Len(c \o d) PROVE (c \o d)[i] = (a \o b)[i]
  <2>1. CASE i <= Len(a)
    BY <1>3, <1>4, <1>5, <1>6, <2>1
  <2>2. CASE i = Len(a) + 1
    BY <1>3, <1>4, <1>5, <1>6, <2>2
  <2>3. CASE i > Len(a) + 1
    <3>1. i - Len(c) \in 1..(Len(b) - 1) /\ i - Len(c) + 1 = i - Len(a)
      BY <1>3, <1>4, <1>6, <2>3
    <3>2. (c \o d)[i] = d[i - Len(c)]
      BY <1>3, <1>4, <1>6, <2>3
    <3>3. (a \o b)[i] = b[i - Len(a)]
      BY <1>3, <1>4, <1>5, <1>7, <2>3
    <3>. QED BY <1>4, <3>1, <3>2, <3>3
  <2>4. i \in Nat
    BY <1>3, <1>4, <1>6
  <2>5. i <= Len(a) \/ i = Len(a) + 1 \/ i > Len(a) + 1
    BY <1>3, <2>4
  <2>. QED BY <2>1, <2>2, <2>3, <2>5
<1>9. c \o d = a \o b
  BY <1>5, <1>6, <1>7, <1>8, SeqEqual
<1>. QED BY <1>2, <1>9 DEF Left, a, b

LEMMA DroppedIsOut ==
    ASSUME ReqTyped, NEW r \in Requests, req[r].todo # <<>>, req'[r] = Drop(r)
    PROVE  LET i == Len(req[r].kept) + 1 IN
           /\ i \in 1..Len(Left(r)) /\ Left(r)[i] = Head(req[r].todo)
           /\ Left(r)' \in Seq(Uploads) /\ Len(Left(r)') = Len(Left(r)) - 1
           /\ \A j \in 1..Len(Left(r)') :
                 Left(r)'[j] = IF j < i THEN Left(r)[j] ELSE Left(r)[j + 1]
<1>. DEFINE a == req[r].kept
            b == req[r].todo
            d == Tail(b)
<1>1. a \in Seq(Uploads) /\ b \in Seq(Uploads) /\ d \in Seq(Uploads) /\ Len(a) \in Nat
  BY Fields, HeadTyped, SeqFacts
<1>2. req'[r].kept = a /\ req'[r].todo = d
  BY LookedFields
<1>3. /\ Head(b) = b[1] /\ Len(b) \in Nat /\ Len(b) > 0 /\ Len(d) = Len(b) - 1
      /\ \A i \in 1..(Len(b) - 1) : d[i] = b[i + 1]
  BY <1>1, HeadAndTail, SeqFacts
<1>. HIDE DEF a, b, d
<1>4. /\ a \o b \in Seq(Uploads) /\ Len(a \o b) = Len(a) + Len(b)
      /\ \A i \in 1..Len(a) + Len(b) : (a \o b)[i] = IF i <= Len(a) THEN a[i] ELSE b[i - Len(a)]
  BY <1>1, ConcatProperties
<1>5. /\ a \o d \in Seq(Uploads) /\ Len(a \o d) = Len(a) + Len(d)
      /\ \A i \in 1..Len(a) + Len(d) : (a \o d)[i] = IF i <= Len(a) THEN a[i] ELSE d[i - Len(a)]
  BY <1>1, ConcatProperties
<1>6. Len(a) + 1 \in 1..Len(a \o b) /\ (a \o b)[Len(a) + 1] = Head(b)
  BY <1>1, <1>3, <1>4
<1>7. Len(a \o d) = Len(a \o b) - 1
  BY <1>1, <1>3, <1>4, <1>5
<1>8. ASSUME NEW j \in 1..Len(a \o d)
      PROVE  (a \o d)[j] = IF j < Len(a) + 1 THEN (a \o b)[j] ELSE (a \o b)[j + 1]
  <2>1. CASE j < Len(a) + 1
    BY <1>1, <1>3, <1>4, <1>5, <2>1
  <2>2. CASE ~(j < Len(a) + 1)
    <3>1. j - Len(a) \in 1..(Len(b) - 1) /\ j - Len(a) + 1 = j + 1 - Len(a)
      BY <1>1, <1>3, <1>5, <2>2
    <3>2. (a \o d)[j] = d[j - Len(a)]
      BY <1>1, <1>3, <1>5, <2>2
    <3>3. (a \o b)[j + 1] = b[j + 1 - Len(a)]
      BY <1>1, <1>3, <1>4, <1>5, <2>2
    <3>. QED BY <1>3, <2>2, <3>1, <3>2, <3>3
  <2>. QED BY <2>1, <2>2
<1>. QED BY <1>2, <1>5, <1>6, <1>7, <1>8 DEF Left, a, b

-------------------------------------------------------------------------------
(* The owner's index *)

\* What steps do to uploads as far as lists are concerned: what was listed stays
\* recorded, and what is there was there before, or is new.
UploadsAge ==
    \A u \in Uploads :
        /\ Settled(u) => Settled(u)'
        /\ Intact(u)' => Intact(u) \/ upload[u] = "new"
        /\ upload[u] = "gone" => upload'[u] = "gone"
        /\ upload[u] = "stored" => upload'[u] \in {"stored", "live"}

LEMMA MovesAge ==
    ASSUME NEW r \in Requests, UploadMoves(r) PROVE UploadsAge
BY DEF UploadMoves, UploadsAge, Settled, Intact, Recorder

\* Nobody writes the index, or reads it to rewrite it, but the holder of the lock.
LEMMA HolderOnly ==
    ASSUME Places, NEW q \in Requests, ownerLock # q
    PROVE  req[q].pc \notin InLock
BY DEF Places, OwnerHeld, HoldsOwner

LEMMA LockFree ==
    ASSUME Places, ownerLock = Nil
    PROVE  /\ \A q \in Requests : req[q].pc \notin InLock
           /\ \A u \in Uploads : Forgetting(u) => ToForget(u)
<1>1. \A q \in Requests : req[q].pc \notin InLock
  BY HolderOnly
<1>. QED BY <1>1 DEF Forgetting, ToForget, Writing, InLock

LEMMA ListsTyped ==
    ASSUME StateTyped, ReqTyped
    PROVE  /\ order \in Seq(Uploads) /\ \A i \in DOMAIN order : order[i] \in Uploads
           /\ index # Torn => index \in Seq(Uploads) /\ ToSet(index) \subseteq Uploads
           /\ \A r \in Requests :
                 /\ Left(r) \in Seq(Uploads) /\ ToSet(Left(r)) \subseteq Uploads
                 /\ req[r].data \in Seq(Uploads) /\ ToSet(req[r].data) \subseteq Uploads
<1>1. \A s \in Seq(Uploads) : ToSet(s) \subseteq Uploads /\ \A i \in DOMAIN s : s[i] \in Uploads
  BY SeqFacts DEF ToSet
<1>. QED BY <1>1, LeftBehind, Fields DEF StateTyped

\* The order after the writing of a request, of which others know nothing.
LEMMA OrderAfterTyped ==
    ASSUME StateTyped, ReqTyped, Places, OrderSound, NEW r \in Requests
    PROVE  /\ OrderAfter(r) \in Seq(Uploads)
           /\ \A i \in DOMAIN OrderAfter(r) :
                 OrderAfter(r)[i] \in Uploads /\ upload[OrderAfter(r)[i]] # "new"
           /\ \A i, j \in DOMAIN OrderAfter(r) : OrderAfter(r)[i] = OrderAfter(r)[j] => i = j
<1>1. CASE ~Recording(r)
  BY <1>1, ListsTyped DEF OrderAfter, OrderSound, Settled
<1>2. CASE Recording(r)
  <2>. DEFINE u == req[r].on
              p == Append(order, u)
  <2>1. u \in Uploads /\ upload[u] = "stored" /\ OrderAfter(r) = p
    BY <1>2, Fields DEF Recording, OrderAfter
  <2>2. /\ order \in Seq(Uploads) /\ Len(order) \in Nat /\ DOMAIN order = 1..Len(order)
        /\ \A i \in DOMAIN order : order[i] \in Uploads
    BY ListsTyped, SeqFacts
  <2>3. /\ p \in Seq(Uploads) /\ DOMAIN p = 1..(Len(order) + 1)
        /\ p[Len(order) + 1] = u /\ \A i \in 1..Len(order) : p[i] = order[i]
    BY <2>1, <2>2, AppendFacts
  <2>. HIDE DEF p, u
  <2>4. \A i \in DOMAIN p : i \in DOMAIN order \/ i = Len(order) + 1
    BY <2>2, <2>3
  <2>5. \A i \in DOMAIN order : p[i] = order[i] /\ order[i] # u /\ upload[order[i]] # "new"
    BY <2>1, <2>2, <2>3 DEF OrderSound, Settled
  <2>6. \A i \in DOMAIN p : p[i] \in Uploads /\ upload[p[i]] # "new"
    BY <2>1, <2>2, <2>3, <2>4, <2>5
  <2>7. ASSUME NEW i \in DOMAIN p, NEW j \in DOMAIN p, p[i] = p[j] PROVE i = j
    BY <2>3, <2>4, <2>5, <2>7 DEF OrderSound
  <2>. QED BY <2>1, <2>3, <2>6, <2>7
<1>. QED BY <1>1, <1>2

\* What a step must not touch for the index's sake: what a request has of the index;
\* or the request has nothing of it, before or after.
SameListing(q) ==
    /\ req'[q].pc = req[q].pc /\ req'[q].on = req[q].on /\ req'[q].data = req[q].data
    /\ req'[q].kept = req[q].kept /\ req'[q].todo = req[q].todo
Apart(q) == req[q].pc \notin {"forget"} \cup InLock /\ req'[q].pc \notin InLock

LEMMA Unmoved ==
    ASSUME NEW r \in Requests, OthersStay(r), NEW q \in Requests, q # r PROVE SameListing(q)
BY DEF OthersStay, SameListing

\* A request that keeps what it has of the index keeps it sound while uploads age.
LEMMA SameOrderAfter ==
    ASSUME ReqTyped, Places, Places', UploadsAge, UNCHANGED order,
           NEW q \in Requests, SameListing(q), req[q].pc \in Writing
    PROVE  OrderAfter(q)' = OrderAfter(q)
<1>1. req[q].on # Nil => req[q].on \in Uploads
  BY Fields
<1>2. /\ req[q].on # Nil => upload[req[q].on] \in {"stored", "gone"}
      /\ req[q].on # Nil => upload'[req[q].on] \in {"stored", "gone"}
  BY DEF Places, UploadKnown, KnownTo, SameListing
<1>3. Recording(q)' <=> Recording(q)
  BY <1>1, <1>2 DEF Recording, UploadsAge, SameListing
<1>. QED BY <1>3 DEF OrderAfter, SameListing

LEMMA ListStays ==
    ASSUME ReqTyped, Places, Places', UploadsAge, UNCHANGED order,
           NEW q \in Requests, SameListing(q), ListOf(q)
    PROVE  ListOf(q)'
<1>1. Left(q)' = Left(q) /\ req'[q].data = req[q].data /\ req'[q].pc = req[q].pc
  BY DEF SameListing, Left
<1>2. req[q].pc \in Writing => OrderAfter(q)' = OrderAfter(q)
  BY SameOrderAfter
<1>. QED BY <1>1, <1>2 DEF ListOf, ListingOf

LEMMA KeptStays ==
    ASSUME StateTyped, ReqTyped, Places, Places', OrderSound, UploadsAge, UNCHANGED order,
           NEW q \in Requests, SameListing(q), KeptOf(q),
           \A u \in Uploads : Due(u) \/ ToForget(u) => Due(u)' \/ ToForget(u)'
    PROVE  KeptOf(q)'
<1>1. Left(q)' = Left(q) /\ req'[q].data = req[q].data /\ req'[q].pc = req[q].pc
  BY DEF SameListing, Left
<1>2. CASE req[q].pc = "entries"
  <2>1. Complete(Left(q), order) /\ \A u \in ToSet(Left(q)) : Due(u) \/ ToForget(u)
    BY <1>2 DEF KeptOf
  <2>2. \A i \in DOMAIN order : Intact(order[i])' => Intact(order[i])
    BY ListsTyped DEF OrderSound, Settled, UploadsAge
  <2>3. Complete(Left(q), order)'
    BY <1>1, <2>1, <2>2 DEF Complete
  <2>4. \A u \in ToSet(Left(q)) : Due(u)' \/ ToForget(u)'
    BY <2>1, ListsTyped
  <2>. QED BY <1>1, <1>2, <2>3, <2>4 DEF KeptOf, Writing
<1>3. CASE req[q].pc \in Writing
  <2>1. Complete(req[q].data, OrderAfter(q)) /\ \A u \in ToSet(req[q].data) : Due(u) \/ ToForget(u)
    BY <1>3 DEF KeptOf
  <2>2. OrderAfter(q)' = OrderAfter(q)
    BY <1>3, SameOrderAfter
  <2>3. \A i \in DOMAIN OrderAfter(q) : Intact(OrderAfter(q)[i])' => Intact(OrderAfter(q)[i])
    BY <2>2, OrderAfterTyped DEF UploadsAge
  <2>4. Complete(req[q].data, OrderAfter(q))'
    BY <1>1, <2>1, <2>2, <2>3 DEF Complete
  <2>5. \A u \in ToSet(req[q].data) : Due(u)' \/ ToForget(u)'
    BY <2>1, ListsTyped
  <2>. QED BY <1>1, <1>3, <2>4, <2>5 DEF KeptOf, Writing
<1>4. CASE req[q].pc \notin {"entries"} \cup Writing
  BY <1>1, <1>4 DEF KeptOf
<1>. QED BY <1>2, <1>3, <1>4

\* A step that leaves the index, its lock and every request's part in it alone.
LEMMA QuietIndex ==
    ASSUME StateTyped, ReqTyped, Places, Places', IndexInv, UploadsAge, UNCHANGED <<index, order>>,
           \A q \in Requests : SameListing(q) \/ Apart(q),
           Undisturbed' => /\ Undisturbed
                           /\ \A u \in Uploads : Due(u) /\ ~Due(u)' => ToForget(u)'
    PROVE  IndexInv'
<1>1. OrderSound'
  BY ListsTyped DEF IndexInv, OrderSound, UploadsAge
<1>2. \A q \in Requests : ListOf(q)'
  BY ListStays DEF IndexInv, ListsSound, ListOf, Apart, InLock, Writing
<1>3. ListsSound'
  BY <1>2 DEF IndexInv, ListsSound, ListingOf
<1>4. ASSUME Undisturbed' PROVE AllKept'
  <2>1. AllKept /\ \A u \in Uploads : Due(u) /\ ~Due(u)' => ToForget(u)'
    BY <1>4 DEF IndexInv
  <2>2. \A u \in Uploads : (ToForget(u) => ToForget(u)') /\ (Forgetting(u) => Forgetting(u)')
    BY DEF ToForget, Forgetting, SameListing, Apart, InLock, Writing
  <2>3. \A u \in Uploads : Due(u) \/ ToForget(u) => Due(u)' \/ ToForget(u)'
    BY <2>1, <2>2
  <2>4. \A q \in Requests : KeptOf(q)'
    BY <2>1, <2>3, KeptStays DEF IndexInv, AllKept, KeptOf, Apart, InLock, Writing
  <2>5. index = Torn => \E q \in Requests : req'[q].pc = "saveIndex"
    BY <2>1 DEF AllKept, IndexKept, SameListing, Apart, InLock
  <2>6. ASSUME index # Torn
        PROVE  Complete(index, order)' /\ \A u \in ToSet(index) : Due(u)' \/ Forgetting(u)'
    <3>1. Complete(index, order) /\ \A u \in ToSet(index) : Due(u) \/ Forgetting(u)
      BY <2>1, <2>6 DEF AllKept, IndexKept
    <3>2. \A i \in DOMAIN order : Intact(order[i])' => Intact(order[i])
      BY ListsTyped DEF IndexInv, OrderSound, Settled, UploadsAge
    <3>3. Complete(index, order)'
      BY <3>1, <3>2 DEF Complete
    <3>4. \A u \in Uploads : ToForget(u)' => Forgetting(u)'
      BY DEF ToForget, Forgetting
    <3>. QED BY <2>1, <2>2, <2>6, <3>1, <3>3, <3>4, ListsTyped
  <2>. QED BY <2>4, <2>5, <2>6 DEF AllKept, IndexKept
<1>. QED BY <1>1, <1>3, <1>4 DEF IndexInv

\* A step of the request that holds the lock, or takes it, or gives it back: the
\* others have no part in the index.
LEMMA OnlyOne ==
    ASSUME Places', NEW r \in Requests, ownerLock' \in {r, Nil},
           OrderSound', ListOf(r)', (index # Torn)' => (Len(index) <= IndexLimit /\ ListingOf(index, order))',
           Undisturbed' => IndexKept' /\ KeptOf(r)'
    PROVE  IndexInv'
<1>1. \A q \in Requests \ {r} : req'[q].pc \notin InLock
  BY DEF Places, OwnerHeld, HoldsOwner
<1>2. \A q \in Requests \ {r} : ListOf(q)' /\ KeptOf(q)'
  BY <1>1 DEF ListOf, KeptOf, InLock, Writing
<1>. QED BY <1>2 DEF IndexInv, ListsSound, AllKept

LEMMA ListOwnedKeeps ==
    ASSUME StateTyped, ReqTyped, Places, Places', IndexInv, NEW r \in Requests, ListOwned(r)
    PROVE  IndexInv'
<1>1. /\ OthersStay(r) /\ OffUploads /\ UNCHANGED <<index, order, faults>>
      /\ ownerLock = Nil /\ ownerLock' = r /\ index # Torn
      /\ req[r].pc = "idle" /\ req'[r].pc = "entries"
      /\ req'[r].todo = index /\ req'[r].kept = <<>>
  BY ListOwnedDoes
<1>2. Left(r)' = index
  BY <1>1, ListsTyped, ConcatEmptySeq DEF Left
<1>3. \A u \in Uploads : /\ (Intact(u)' <=> Intact(u)) /\ (Due(u)' <=> Due(u))
                         /\ ToForget(u) => ToForget(u)'
                         /\ Forgetting(u) => Forgetting(u)' /\ ToForget(u)
  BY <1>1, LockFree DEF OffUploads, Intact, Due, ToForget, Forgetting, OthersStay, Writing
<1>4. OrderSound' /\ ListOf(r)'
  BY <1>1, <1>2 DEF IndexInv, ListsSound, ListOf, ListingOf, OrderSound, Settled, OffUploads, Writing
<1>5. (index # Torn)' => (Len(index) <= IndexLimit /\ ListingOf(index, order))'
  BY <1>1 DEF IndexInv, ListsSound, ListingOf
<1>6. ASSUME Undisturbed' PROVE IndexKept' /\ KeptOf(r)'
  <2>1. Complete(index, order) /\ \A u \in ToSet(index) : Due(u) \/ Forgetting(u)
    BY <1>1, <1>6 DEF Undisturbed, IndexInv, AllKept, IndexKept
  <2>2. Complete(index, order)'
    BY <1>1, <1>3, <2>1, ListsTyped DEF Complete
  <2>. QED BY <1>1, <1>2, <1>3, <2>1, <2>2, ListsTyped DEF IndexKept, KeptOf, Writing
<1>. QED BY <1>1, <1>4, <1>5, <1>6, OnlyOne

LEMMA CheckEntryKeeps ==
    ASSUME StateTyped, ReqTyped, Places, Places', IndexInv, NEW r \in Requests, CheckEntry(r)
    PROVE  IndexInv'
<1>1. /\ OthersStay(r) /\ OffUploads /\ OffIndex /\ req[r].pc = "entries" /\ req[r].todo # <<>>
      /\ \/ req'[r] = Keep(r) /\ There(Head(req[r].todo)) /\ NoFault
         \/ req'[r] = Drop(r) /\ (Fault \/ (~There(Head(req[r].todo)) /\ NoFault))
  BY CheckEntryDoes
<1>2. req'[r].pc = "entries" /\ ownerLock' = r
  BY <1>1, LookedFields DEF Places, OwnerHeld, HoldsOwner, InLock, OffIndex
<1>3. \A u \in Uploads : /\ (Intact(u)' <=> Intact(u)) /\ (Due(u)' <=> Due(u))
                         /\ ToForget(u) => ToForget(u)'
                         /\ Forgetting(u) => Forgetting(u)'
  BY <1>1, <1>2 DEF OffUploads, Intact, Due, ToForget, Forgetting, OthersStay, Writing
<1>4. OrderSound'
  BY <1>1 DEF IndexInv, OrderSound, Settled, OffUploads, OffIndex
<1>5. (index # Torn)' => (Len(index) <= IndexLimit /\ ListingOf(index, order))'
  BY <1>1 DEF IndexInv, ListsSound, ListingOf, OffIndex
<1>6. Undisturbed' => Undisturbed /\ ~Fault
  BY <1>1, Disturbs
<1>7. Undisturbed' => IndexKept'
  <2>. SUFFICES ASSUME Undisturbed' PROVE IndexKept'
    OBVIOUS
  <2>1. IndexKept
    BY <1>6 DEF IndexInv, AllKept
  <2>2. (\E q \in Requests : req[q].pc = "saveIndex")
           => \E q \in Requests : req'[q].pc = "saveIndex"
    BY <1>1 DEF OthersStay
  <2>3. Complete(index, order) => Complete(index, order)'
    BY <1>1, <1>3, ListsTyped DEF Complete, OffIndex
  <2>. QED BY <1>1, <1>3, <2>1, <2>2, <2>3, ListsTyped DEF IndexKept, OffIndex
<1>8. /\ Len(Left(r)) <= IndexLimit /\ ListingOf(Left(r), order)
      /\ Left(r) \in Seq(Uploads) /\ order \in Seq(Uploads)
  BY <1>1, ListsTyped DEF IndexInv, ListsSound, ListOf
<1>9. Undisturbed' => Complete(Left(r), order) /\ \A u \in ToSet(Left(r)) : Due(u) \/ ToForget(u)
  BY <1>1, <1>6 DEF IndexInv, AllKept, KeptOf
<1>10. CASE req'[r] = Keep(r)
  <2>1. Left(r)' = Left(r) /\ order' = order
    BY <1>1, <1>10, KeptIsLeft DEF OffIndex
  <2>2. ListOf(r)'
    BY <1>2, <1>8, <2>1 DEF ListOf, ListingOf, Writing
  <2>3. Undisturbed' => KeptOf(r)'
    BY <1>2, <1>3, <1>9, <2>1, ListsTyped DEF KeptOf, Complete, Writing
  <2>. QED BY <1>2, <1>4, <1>5, <1>7, <2>2, <2>3, OnlyOne
<1>11. CASE req'[r] = Drop(r)
  <2>. DEFINE i == Len(req[r].kept) + 1
              h == Head(req[r].todo)
              s == Left(r)
              t == Left(r)'
  <2>1. /\ i \in 1..Len(s) /\ s[i] = h /\ t \in Seq(Uploads) /\ Len(t) = Len(s) - 1
        /\ \A j \in 1..Len(t) : t[j] = IF j < i THEN s[j] ELSE s[j + 1]
    BY <1>1, <1>11, DroppedIsOut
  <2>. HIDE DEF i, h, s, t
  <2>2. s \in Seq(Uploads) /\ ListingOf(s, order)
    BY <1>8 DEF s
  <2>3. ListingOf(t, order) /\ \A u : u \in ToSet(s) <=> u = h \/ u \in ToSet(t)
    BY <1>8, <2>1, <2>2, LeavingOneOut
  <2>4. Len(t) <= IndexLimit
    BY <1>8, <2>1, <2>2, SeqFacts DEF s
  <2>5. ListOf(r)'
    BY <1>1, <1>2, <2>3, <2>4 DEF ListOf, ListingOf, Writing, OffIndex, t
  <2>6. ASSUME Undisturbed' PROVE KeptOf(r)'
    <3>1. ~Intact(h) /\ Complete(s, order) /\ \A u \in ToSet(s) : Due(u) \/ ToForget(u)
      BY <1>1, <1>6, <1>9, <1>11, <2>6, LookedFields DEF s, h, There, Intact
    <3>2. Complete(t, order)
      BY <1>8, <2>1, <2>2, <2>3, <3>1, LessComplete
    <3>3. \A u \in ToSet(t) : u \in Uploads /\ (Due(u) \/ ToForget(u))
      BY <2>3, <3>1, ListsTyped DEF s
    <3>4. order' = order /\ \A j \in DOMAIN order : order[j] \in Uploads
      BY <1>1, ListsTyped DEF OffIndex
    <3>5. Complete(Left(r), order)'
      BY <1>3, <3>2, <3>4 DEF Complete, t
    <3>. QED BY <1>2, <1>3, <3>3, <3>5 DEF KeptOf, Writing, t
  <2>. QED BY <1>2, <1>4, <1>5, <1>7, <2>5, <2>6, OnlyOne
<1>. QED BY <1>1, <1>10, <1>11

\* A request that begins to write a list which is good for the order to come.
LEMMA WritingKeeps ==
    ASSUME StateTyped, ReqTyped, Places, Places', IndexInv, NEW r \in Requests, NEW s,
           s \in Seq(Uploads), UNCHANGED <<upload, swept, index, order>>, OthersStay(r), ownerLock' = r,
           req[r].pc \in {"record", "forget", "entries"},
           req'[r].pc \in Writing, req'[r].on = req[r].on, req'[r].data = Trim(s),
           ListingOf(s, OrderAfter(r)),
           Undisturbed' =>
              /\ Undisturbed /\ Complete(s, OrderAfter(r))
              /\ \A u \in ToSet(s) :
                    Due(u) \/ \E q \in Requests \ {r} : req[q].pc = "forget" /\ req[q].on = u
    PROVE  IndexInv'
<1>1. \A u \in Uploads : /\ (Intact(u)' <=> Intact(u)) /\ (Due(u)' <=> Due(u))
                         /\ Forgetting(u) => Forgetting(u)'
  BY DEF Intact, Due, Forgetting, OthersStay, Writing
<1>2. OrderAfter(r)' = OrderAfter(r)
  BY DEF OrderAfter, Recording
<1>3. /\ OrderAfter(r) \in Seq(Uploads)
      /\ \A i \in DOMAIN OrderAfter(r) : OrderAfter(r)[i] \in Uploads
      /\ \A i, j \in DOMAIN OrderAfter(r) : OrderAfter(r)[i] = OrderAfter(r)[j] => i = j
  BY OrderAfterTyped DEF IndexInv
<1>4. OrderSound'
  BY DEF IndexInv, OrderSound, Settled
<1>5. /\ Len(Trim(s)) <= IndexLimit /\ ListingOf(Trim(s), OrderAfter(r))
      /\ ToSet(Trim(s)) \subseteq ToSet(s) /\ ToSet(s) \subseteq Uploads
  BY <1>3, TrimmedListing, SeqFacts DEF ToSet
<1>6. ListOf(r)'
  BY <1>2, <1>5 DEF ListOf, ListingOf, Writing
<1>7. (index # Torn)' => (Len(index) <= IndexLimit /\ ListingOf(index, order))'
  BY DEF IndexInv, ListsSound, ListingOf
<1>8. ASSUME Undisturbed' PROVE IndexKept' /\ KeptOf(r)'
  <2>1. IndexKept
    BY <1>8 DEF IndexInv, AllKept
  <2>2. (\E q \in Requests : req[q].pc = "saveIndex")
           => \E q \in Requests : req'[q].pc = "saveIndex"
    BY DEF OthersStay
  <2>3. Complete(index, order) => Complete(index, order)'
    BY <1>1, ListsTyped DEF Complete
  <2>4. IndexKept'
    BY <1>1, <2>1, <2>2, <2>3, ListsTyped DEF IndexKept
  <2>5. Complete(Trim(s), OrderAfter(r))
    BY <1>3, <1>8, TrimComplete
  <2>6. Complete(req[r].data, OrderAfter(r))'
    BY <1>1, <1>2, <1>3, <2>5 DEF Complete
  <2>7. \A u \in ToSet(Trim(s)) : Due(u)' \/ ToForget(u)'
    BY <1>1, <1>5, <1>8 DEF ToForget, OthersStay
  <2>. QED BY <2>4, <2>6, <2>7 DEF KeptOf, Writing
<1>. QED BY <1>4, <1>6, <1>7, <1>8, OnlyOne

LEMMA EndEntriesKeeps ==
    ASSUME StateTyped, ReqTyped, Places, Places', IndexInv, NEW r \in Requests, EndEntries(r)
    PROVE  IndexInv'
<1>1. /\ OthersStay(r) /\ OffUploads /\ UNCHANGED <<index, order, faults>>
      /\ req[r].pc = "entries" /\ req[r].todo = <<>>
      /\ WriteIndex(r, req[r].kept) \/ (req'[r] = Idle /\ ownerLock' = Nil)
  BY EndEntriesDoes
<1>2. req[r].on = Nil /\ Left(r) = req[r].kept /\ req[r].kept \in Seq(Uploads)
  BY <1>1, LeftBehind, Fields DEF Places, Shape, ShapeOf
<1>3. OrderAfter(r) = order
  BY <1>2 DEF OrderAfter, Recording
<1>4. CASE WriteIndex(r, req[r].kept)
  <2>1. /\ ownerLock' = r /\ req'[r].pc \in Writing /\ req'[r].on = req[r].on
        /\ req'[r].data = Trim(req[r].kept)
    BY <1>2, <1>4, WriteTyped
  <2>2. ListingOf(req[r].kept, OrderAfter(r))
    BY <1>1, <1>2, <1>3 DEF IndexInv, ListsSound, ListOf
  <2>3. ASSUME Undisturbed'
        PROVE  /\ Undisturbed /\ Complete(req[r].kept, OrderAfter(r))
               /\ \A u \in ToSet(req[r].kept) :
                     Due(u) \/ \E q \in Requests \ {r} : req[q].pc = "forget" /\ req[q].on = u
    <3>1. Undisturbed
      BY <1>1, <2>3 DEF Undisturbed
    <3>. QED BY <1>1, <1>2, <1>3, <3>1 DEF IndexInv, AllKept, KeptOf, ToForget
  <2>. QED BY <1>1, <1>2, <2>1, <2>2, <2>3, WritingKeeps DEF OffUploads
<1>5. CASE req'[r] = Idle /\ ownerLock' = Nil
  <2>1. req'[r].pc = "idle"
    BY <1>5, IdleFields
  <2>2. \A u \in Uploads : /\ (Intact(u)' <=> Intact(u)) /\ (Due(u)' <=> Due(u))
                           /\ Forgetting(u) => Forgetting(u)'
    BY <1>1 DEF OffUploads, Intact, Due, Forgetting, OthersStay, Writing
  <2>3. OrderSound'
    BY <1>1 DEF IndexInv, OrderSound, Settled, OffUploads
  <2>4. (index # Torn)' => (Len(index) <= IndexLimit /\ ListingOf(index, order))'
    BY <1>1 DEF IndexInv, ListsSound, ListingOf
  <2>5. ListOf(r)' /\ KeptOf(r)'
    BY <2>1 DEF ListOf, KeptOf, Writing
  <2>6. ASSUME Undisturbed' PROVE IndexKept'
    <3>1. IndexKept
      BY <1>1, <2>6 DEF IndexInv, AllKept, Undisturbed
    <3>2. (\E q \in Requests : req[q].pc = "saveIndex")
             => \E q \in Requests : req'[q].pc = "saveIndex"
      BY <1>1 DEF OthersStay
    <3>3. Complete(index, order) => Complete(index, order)'
      BY <1>1, <2>2, ListsTyped DEF Complete
    <3>. QED BY <1>1, <2>2, <3>1, <3>2, <3>3, ListsTyped DEF IndexKept
  <2>. QED BY <1>5, <2>3, <2>4, <2>5, <2>6, OnlyOne
<1>. QED BY <1>1, <1>4, <1>5

LEMMA RecordOwnershipKeeps ==
    ASSUME StateTyped, ReqTyped, Places, Places', IndexInv, NEW r \in Requests,
           RecordOwnership(r)
    PROVE  IndexInv'
<1>. DEFINE u == req[r].on
<1>1. /\ req[r].pc = "record" /\ ownerLock = Nil /\ UNCHANGED <<expired, swept, index, order>>
  BY DEF RecordOwnership, OwnerFree, history
<1>2. u \in Uploads /\ upload[u] = "stored"
  BY <1>1 DEF Places, Shape, ShapeOf, UploadKnown, KnownTo
<1>3. CASE index # Torn /\ NoFault /\ WriteIndex(r, <<u>> \o index) /\ UNCHANGED upload
  <2>. DEFINE s == <<u>> \o index
  <2>1. /\ s \in Seq(Uploads) /\ OthersStay(r) /\ ownerLock' = r
        /\ req'[r].pc \in Writing /\ req'[r].on = req[r].on /\ req'[r].data = Trim(s)
    BY <1>3, WriteBegins DEF Places
  <2>2. /\ index \in Seq(Uploads) /\ order \in Seq(Uploads)
        /\ OrderAfter(r) = Append(order, u)
    BY <1>2, <1>3, ListsTyped DEF OrderAfter, Recording
  <2>3. ListingOf(s, OrderAfter(r))
    BY <1>2, <1>3, <2>2, NewerFirst DEF IndexInv, ListsSound
  <2>4. ASSUME Undisturbed'
        PROVE  /\ Undisturbed /\ Complete(s, OrderAfter(r))
               /\ \A v \in ToSet(s) :
                     Due(v) \/ \E q \in Requests \ {r} : req[q].pc = "forget" /\ req[q].on = v
    <3>1. Undisturbed
      BY <1>3, <2>4 DEF NoFault, Undisturbed
    <3>2. Complete(index, order) /\ \A v \in ToSet(index) : Due(v) \/ ToForget(v)
      BY <1>1, <1>3, <3>1, LockFree, ListsTyped DEF IndexInv, AllKept, IndexKept
    <3>3. Complete(s, OrderAfter(r))
      BY <1>2, <2>2, <3>2, NewerComplete
    <3>4. ASSUME NEW v \in ToSet(s) PROVE v = u \/ v \in ToSet(index)
      <4>1. /\ Len(index) \in Nat /\ Len(s) = Len(index) + 1 /\ s[1] = u
            /\ \A i \in 1..Len(index) : s[i + 1] = index[i]
        BY <1>2, <2>2, Consed, SeqFacts
      <4>2. PICK i \in 1..Len(s) : s[i] = v
        BY <2>1, <3>4, ListMembers
      <4>3. i # 1 => i - 1 \in 1..Len(index) /\ index[i - 1] = v
        BY <4>1, <4>2
      <4>4. i # 1 => v \in ToSet(index)
        BY <2>2, <4>3, ListMembers
      <4>. QED BY <4>1, <4>2, <4>4
    <3>5. Due(u)
      BY <1>2 DEF Due, Intact
    <3>. QED BY <1>1, <3>1, <3>2, <3>3, <3>4, <3>5 DEF ToForget
  <2>. HIDE DEF s
  <2>. QED BY <1>1, <1>3, <2>1, <2>3, <2>4, WritingKeeps
<1>4. CASE /\ Fault \/ (index = Torn /\ NoFault)
           /\ upload' = [upload EXCEPT ![u] = "live"] /\ Finish(r)
  <2>1. OthersStay(r) /\ req'[r].pc = "idle"
    BY <1>4, OthersStayBy, IdleFields DEF Finish
  <2>2. UploadsAge
    BY Moves, MovesAge DEF IndexStep
  <2>3. \A q \in Requests : SameListing(q) \/ Apart(q)
    BY <1>1, <2>1, Unmoved DEF Apart, InLock
  <2>4. Undisturbed' => Undisturbed
    BY <1>4, Disturbs
  <2>5. \A v \in Uploads : Due(v) => Due(v)'
    BY <1>1, <1>2, <1>4 DEF Due, Intact, StateTyped
  <2>. QED BY <1>1, <2>2, <2>3, <2>4, <2>5, QuietIndex
<1>. QED BY <1>1, <1>3, <1>4 DEF RecordOwnership

LEMMA ForgetOwnershipKeeps ==
    ASSUME StateTyped, ReqTyped, Places, Places', IndexInv, NEW r \in Requests,
           ForgetOwnership(r)
    PROVE  IndexInv'
<1>. DEFINE u == req[r].on
<1>1. req[r].pc = "forget" /\ ownerLock = Nil /\ UNCHANGED <<upload, swept, index, order>>
  BY DEF ForgetOwnership, OwnerFree, history
<1>2. u \in Uploads /\ upload[u] = "gone"
  BY <1>1 DEF Places, Shape, ShapeOf, UploadKnown, KnownTo
<1>3. /\ order \in Seq(Uploads) /\ OrderAfter(r) = order
      /\ \A i, j \in DOMAIN order : order[i] = order[j] => i = j
  BY <1>2, ListsTyped DEF OrderAfter, Recording, IndexInv, OrderSound
<1>4. \A v \in Uploads : Forgetting(v) =>
          v = u \/ \E q \in Requests \ {r} : req[q].pc = "forget" /\ req[q].on = v
  BY <1>1, LockFree DEF ToForget
<1>5. CASE Listed(u) /\ NoFault /\ WriteIndex(r, Without(index, u))
  <2>. DEFINE s == Without(index, u)
  <2>1. index # Torn /\ index \in Seq(Uploads) /\ Contains(index, u)
    BY <1>5, ListsTyped DEF Listed
  <2>2. Len(index) <= IndexLimit /\ ListingOf(index, order)
    BY <2>1 DEF IndexInv, ListsSound
  <2>3. /\ s \in Seq(Uploads) /\ ListingOf(s, order) /\ ToSet(s) = ToSet(index) \ {u}
    BY <1>3, <2>1, <2>2, WithoutListing
  <2>4. /\ OthersStay(r) /\ ownerLock' = r /\ req'[r].pc \in Writing
        /\ req'[r].on = req[r].on /\ req'[r].data = Trim(s)
    BY <1>5, <2>3, WriteTyped
  <2>. HIDE DEF s
  <2>5. ASSUME Undisturbed'
        PROVE  /\ Undisturbed /\ Complete(s, OrderAfter(r))
               /\ \A v \in ToSet(s) :
                     Due(v) \/ \E q \in Requests \ {r} : req[q].pc = "forget" /\ req[q].on = v
    <3>1. Undisturbed
      BY <1>5, <2>5 DEF NoFault, Undisturbed
    <3>2. Complete(index, order) /\ \A v \in ToSet(index) : Due(v) \/ Forgetting(v)
      BY <2>1, <3>1 DEF IndexInv, AllKept, IndexKept
    <3>3. ~Intact(u)
      BY <1>2 DEF Intact
    <3>4. Complete(s, OrderAfter(r))
      BY <1>3, <2>1, <2>3, <3>2, <3>3, LessComplete
    <3>. QED BY <1>4, <2>1, <2>3, <3>1, <3>2, <3>4, ListsTyped
  <2>. QED BY <1>1, <1>3, <2>3, <2>4, <2>5, WritingKeeps
<1>6. CASE (Fault \/ (~Listed(u) /\ NoFault)) /\ Return(r) /\ UNCHANGED ownerLock
  <2>1. OthersStay(r) /\ req'[r].pc \in {"idle", "members"}
    BY <1>6, ReturnFields, IdleFields
  <2>2. \A v \in Uploads : (Intact(v)' <=> Intact(v)) /\ (Due(v)' <=> Due(v))
    BY <1>1 DEF Intact, Due
  <2>3. OrderSound'
    BY <1>1 DEF IndexInv, OrderSound, Settled
  <2>4. (index # Torn)' => (Len(index) <= IndexLimit /\ ListingOf(index, order))'
    BY <1>1 DEF IndexInv, ListsSound, ListingOf
  <2>5. ListOf(r)' /\ KeptOf(r)'
    BY <2>1 DEF ListOf, KeptOf, Writing
  <2>6. ASSUME Undisturbed' PROVE IndexKept'
    <3>1. Undisturbed /\ ~Fault
      BY <1>6, <2>6, Disturbs
    <3>2. IndexKept
      BY <3>1 DEF IndexInv, AllKept
    <3>3. index # Torn
      BY <1>1, <3>2, LockFree DEF IndexKept, InLock
    <3>4. Complete(index, order) /\ \A v \in ToSet(index) : Due(v) \/ Forgetting(v)
      BY <3>2, <3>3 DEF IndexKept
    <3>5. index \in Seq(Uploads) /\ u \notin ToSet(index)
      BY <1>6, <3>1, <3>3, ListsTyped, ListMembers DEF Listed
    <3>6. Complete(index, order)'
      BY <1>1, <2>2, <3>4, ListsTyped DEF Complete
    <3>7. \A v \in ToSet(index) : Due(v)' \/ Forgetting(v)'
      BY <1>4, <2>1, <2>2, <3>3, <3>4, <3>5, ListsTyped DEF Forgetting, OthersStay
    <3>. QED BY <1>1, <3>3, <3>6, <3>7 DEF IndexKept
  <2>. QED BY <1>1, <1>6, <2>3, <2>4, <2>5, <2>6, OnlyOne
<1>. QED BY <1>5, <1>6 DEF ForgetOwnership

\* A writing that fails leaves the index and the order as they are.
LEMMA FailedWrite ==
    ASSUME StateTyped, ReqTyped, Places, Places', IndexInv, NEW r \in Requests,
           req[r].pc \in Writing, Fault, EndWrite(r), UNCHANGED <<index, order>>
    PROVE  IndexInv'
<1>1. /\ OthersStay(r) /\ UploadMoves(r) /\ ownerLock' = Nil
      /\ req'[r] = Idle \/ req'[r].pc = "members"
  BY WritingEnds
<1>2. OrderSound'
  BY <1>1, MovesAge, ListsTyped DEF IndexInv, OrderSound, UploadsAge
<1>3. (index # Torn)' => (Len(index) <= IndexLimit /\ ListingOf(index, order))'
  BY DEF IndexInv, ListsSound, ListingOf
<1>4. ListOf(r)'
  BY <1>1, IdleFields DEF ListOf, Writing
<1>5. ~Undisturbed'
  BY Disturbs
<1>. QED BY <1>1, <1>2, <1>3, <1>4, <1>5, OnlyOne

LEMMA TruncateIndexKeeps ==
    ASSUME StateTyped, ReqTyped, Places, Places', IndexInv, NEW r \in Requests,
           TruncateIndex(r)
    PROVE  IndexInv'
<1>1. /\ req[r].pc = "truncateIndex" /\ UNCHANGED <<order, swept>> /\ req[r].pc \in Writing
      /\ \/ /\ NoFault /\ index' = Torn /\ UNCHANGED <<upload, ownerLock>>
            /\ OthersStay(r) /\ req'[r].pc = "saveIndex" /\ req'[r].on = req[r].on
            /\ req'[r].data = req[r].data
         \/ Fault /\ EndWrite(r) /\ UNCHANGED index
  BY TruncateIndexDoes DEF Writing
<1>2. CASE /\ NoFault /\ index' = Torn /\ UNCHANGED <<upload, ownerLock>>
           /\ OthersStay(r) /\ req'[r].pc = "saveIndex" /\ req'[r].on = req[r].on
           /\ req'[r].data = req[r].data
  <2>1. ownerLock' = r
    BY <1>1, <1>2 DEF Places, OwnerHeld, HoldsOwner, InLock
  <2>2. OrderSound'
    BY <1>1, <1>2 DEF IndexInv, OrderSound, Settled
  <2>3. OrderAfter(r)' = OrderAfter(r)
    BY <1>1, <1>2 DEF OrderAfter, Recording
  <2>4. ListOf(r)'
    BY <1>1, <1>2, <2>3 DEF IndexInv, ListsSound, ListOf, ListingOf, Writing
  <2>5. ASSUME Undisturbed' PROVE IndexKept' /\ KeptOf(r)'
    <3>1. /\ Complete(req[r].data, OrderAfter(r))
          /\ \A u \in ToSet(req[r].data) : u \in Uploads /\ (Due(u) \/ ToForget(u))
      BY <1>1, <1>2, <2>5, ListsTyped DEF NoFault, Undisturbed, IndexInv, AllKept, KeptOf
    <3>2. \A u \in Uploads : /\ (Intact(u)' <=> Intact(u)) /\ (Due(u)' <=> Due(u))
                             /\ ToForget(u) => ToForget(u)'
      BY <1>1, <1>2 DEF Intact, Due, ToForget, OthersStay
    <3>3. \A i \in DOMAIN OrderAfter(r) : OrderAfter(r)[i] \in Uploads
      BY OrderAfterTyped DEF IndexInv
    <3>4. Complete(req[r].data, OrderAfter(r))'
      BY <1>2, <2>3, <3>1, <3>2, <3>3 DEF Complete
    <3>. QED BY <1>2, <3>1, <3>2, <3>4 DEF IndexKept, KeptOf, Writing
  <2>. QED BY <1>2, <2>1, <2>2, <2>4, <2>5, OnlyOne
<1>. QED BY <1>1, <1>2, FailedWrite

LEMMA SaveIndexKeeps ==
    ASSUME StateTyped, ReqTyped, Places, Places', IndexInv, NEW r \in Requests, SaveIndex(r)
    PROVE  IndexInv'
<1>1. /\ req[r].pc \in Writing /\ EndWrite(r) /\ UNCHANGED swept
      /\ \/ NoFault /\ index' = req[r].data /\ order' = OrderAfter(r)
         \/ Fault /\ UNCHANGED <<index, order>>
  BY DEF SaveIndex, Writing, OrderAfter
<1>2. /\ OthersStay(r) /\ UploadMoves(r) /\ ownerLock' = Nil
      /\ req'[r] = Idle \/ req'[r].pc = "members"
  BY <1>1, WritingEnds
<1>3. CASE NoFault /\ index' = req[r].data /\ order' = OrderAfter(r)
  <2>1. /\ Len(req[r].data) <= IndexLimit /\ ListingOf(req[r].data, OrderAfter(r))
        /\ req[r].data \in Seq(Uploads)
    BY <1>1, ListsTyped DEF IndexInv, ListsSound, ListOf
  <2>2. \A u \in Uploads : (Intact(u)' <=> Intact(u)) /\ (Due(u)' <=> Due(u))
    BY <1>1 DEF EndWrite, Recording, Intact, Due, StateTyped
  <2>3. /\ \A i \in DOMAIN OrderAfter(r) :
              OrderAfter(r)[i] \in Uploads /\ upload[OrderAfter(r)[i]] # "new"
        /\ \A i, j \in DOMAIN OrderAfter(r) : OrderAfter(r)[i] = OrderAfter(r)[j] => i = j
    BY OrderAfterTyped DEF IndexInv
  <2>4. \A i \in DOMAIN OrderAfter(r) : OrderAfter(r)[i] = req[r].on \/ Settled(OrderAfter(r)[i])
    <3>1. CASE ~Recording(r)
      BY <3>1 DEF OrderAfter, IndexInv, OrderSound
    <3>2. CASE Recording(r)
      <4>1. req[r].on \in Uploads /\ order \in Seq(Uploads)
        BY <3>2, Fields, ListsTyped DEF Recording
      <4>2. OrderAfter(r) = Append(order, req[r].on)
        BY <3>2 DEF OrderAfter
      <4>3. /\ Len(order) \in Nat /\ DOMAIN order = 1..Len(order)
            /\ DOMAIN OrderAfter(r) = 1..(Len(order) + 1)
            /\ OrderAfter(r)[Len(order) + 1] = req[r].on
            /\ \A i \in 1..Len(order) : OrderAfter(r)[i] = order[i]
        BY <4>1, <4>2, AppendFacts, SeqFacts
      <4>4. \A i \in DOMAIN OrderAfter(r) : i = Len(order) + 1 \/ i \in DOMAIN order
        BY <4>3
      <4>. QED BY <4>3, <4>4 DEF IndexInv, OrderSound
    <3>. QED BY <3>1, <3>2
  <2>5. Recording(r) => upload'[req[r].on] = "live"
    BY <1>1, Fields DEF EndWrite, Recording, StateTyped
  <2>6. \A u \in Uploads : Settled(u) => upload'[u] \in {"live", "gone"}
    BY <1>2, MovesAge DEF UploadsAge, Settled
  <2>7. ~Recording(r) => OrderAfter(r) = order
    BY DEF OrderAfter
  <2>8. \A i \in DOMAIN OrderAfter(r) : upload'[OrderAfter(r)[i]] \in {"live", "gone"}
    BY <2>3, <2>4, <2>5, <2>6, <2>7 DEF IndexInv, OrderSound
  <2>9. OrderSound'
    BY <1>3, <2>3, <2>8 DEF OrderSound, Settled
  <2>10. (index # Torn)' => (Len(index) <= IndexLimit /\ ListingOf(index, order))'
    BY <1>3, <2>1 DEF ListingOf
  <2>11. ListOf(r)' /\ KeptOf(r)'
    BY <1>2, IdleFields DEF ListOf, KeptOf, Writing
  <2>12. ASSUME Undisturbed' PROVE IndexKept'
    <3>1. /\ Complete(req[r].data, OrderAfter(r))
          /\ \A u \in ToSet(req[r].data) : u \in Uploads /\ (Due(u) \/ ToForget(u))
      BY <1>1, <1>3, <2>12, ListsTyped DEF NoFault, Undisturbed, IndexInv, AllKept, KeptOf
    <3>2. \A u \in Uploads : ToForget(u) => Forgetting(u)'
      BY <1>1, <1>2 DEF ToForget, Forgetting, OthersStay, Writing
    <3>3. Complete(index, order)'
      BY <1>3, <2>2, <2>3, <3>1 DEF Complete
    <3>4. index' # Torn
      BY <1>3, <2>1
    <3>. QED BY <1>3, <2>2, <3>1, <3>2, <3>3, <3>4 DEF IndexKept
  <2>. QED BY <1>2, <2>9, <2>10, <2>11, <2>12, OnlyOne
<1>4. CASE Fault /\ UNCHANGED <<index, order>>
  BY <1>1, <1>4, FailedWrite
<1>. QED BY <1>1, <1>3, <1>4

\* Steps about collections: the request was nowhere near the index, and stays so.
LEMMA CollectionStepsQuiet ==
    ASSUME StateTyped, ReqTyped, Places, Places', IndexInv, NEW r \in Requests,
           CollectionStep(r) \/ RemoveCollection(r)
    PROVE  IndexInv'
<1>1. CASE CollectionStep(r)
  <2>1. /\ OthersStay(r) /\ OffUploads /\ OffIndex
        /\ req[r].pc \notin {"forget"} \cup InLock /\ req'[r].pc \notin InLock
    <3>1. CASE CheckReference(r)
      BY <3>1, CheckReferenceDoes, LookedFields, IdleFields DEF InLock
    <3>2. CASE CheckMember(r)
      BY <3>2, CheckMemberDoes, LookedFields DEF InLock
    <3>3. CASE EndMembers(r)
      BY <3>3, EndMembersDoes, IdleFields DEF InLock, Replacing
    <3>4. CASE TruncateCollection(r) \/ SaveCollection(r)
      BY <3>4, TruncateCollectionDoes, SaveCollectionDoes, IdleFields DEF InLock
    <3>5. CASE \E c \in Collections :
                  CreateCollection(r, c) \/ OpenCollection(r, c) \/ CheckCollectionToken(r, c)
      BY <3>5, BeginCollectionDoes DEF InLock
    <3>. QED BY <1>1, <3>1, <3>2, <3>3, <3>4, <3>5 DEF CollectionStep
  <2>2. \A q \in Requests : SameListing(q) \/ Apart(q)
    BY <2>1, Unmoved DEF Apart
  <2>3. Undisturbed' => Undisturbed
    <3>1. Fault \/ NoFault \/ UNCHANGED faults
      BY <1>1 DEF CollectionStep, CheckReference, CheckMember, EndMembers, TruncateCollection,
                  SaveCollection, CreateCollection, OpenCollection, CheckCollectionToken
    <3>. QED BY <3>1, Disturbs
  <2>4. \A u \in Uploads : Due(u) => Due(u)'
    BY <2>1 DEF OffUploads, Due, Intact
  <2>. QED BY <1>1, <2>1, <2>2, <2>3, <2>4, Moves, MovesAge, QuietIndex DEF OffIndex
<1>2. CASE RemoveCollection(r)
  <2>1. OffUploads /\ OffIndex /\ req[r].pc \in {"removeColl", "removeEmpty"} /\ req'[r] = Idle
    BY <1>2, RemoveCollectionDoes
  <2>2. ASSUME NEW q \in Requests PROVE SameListing(q) \/ Apart(q)
    <3>1. CASE q = r
      BY <2>1, <3>1, IdleFields DEF Apart, InLock
    <3>2. CASE q # r
      <4>1. req'[q] = req[q] \/ (req[q].pc = "saveColl" /\ req'[q].pc = "saveColl")
        BY <1>2, <3>2, RemoveCollectionDoes DEF OthersStay
      <4>. QED BY <4>1 DEF SameListing, Apart, InLock
    <3>. QED BY <3>1, <3>2
  <2>3. Undisturbed' => Undisturbed
    BY <1>2, Disturbs DEF RemoveCollection
  <2>4. \A u \in Uploads : Due(u) => Due(u)'
    BY <2>1 DEF OffUploads, Due, Intact
  <2>. QED BY <1>2, <2>1, <2>2, <2>3, <2>4, Moves, MovesAge, QuietIndex DEF OffIndex
<1>. QED BY <1>1, <1>2

\* An upload that is removed is to be forgotten by whoever removed it.
LEMMA UploadStepsQuiet ==
    ASSUME StateTyped, ReqTyped, Places, Places', IndexInv, NEW r \in Requests, UploadStep(r)
    PROVE  IndexInv'
<1>1. OthersStay(r) /\ OffIndex /\ UNCHANGED swept /\ req[r].pc \in {"idle", "remove"}
  BY UploadStepDoes
<1>2. req'[r].pc \notin InLock
  BY UploadStepDoes, ReturnFields, IdleFields DEF InLock
<1>3. \A q \in Requests : SameListing(q) \/ Apart(q)
  BY <1>1, <1>2, Unmoved DEF Apart, InLock
<1>4. Fault \/ NoFault \/ UNCHANGED faults
  BY DEF UploadStep, RemoveUpload, Store, CheckDeletionToken, FindExpired
<1>5. Undisturbed' => Undisturbed /\ ~Fault
  BY <1>4, Disturbs
<1>6. ASSUME Undisturbed', NEW u \in Uploads, Due(u), ~Due(u)' PROVE ToForget(u)'
  <2>0. Intact(u) /\ ~Intact(u)'
    BY <1>1, <1>6 DEF Due
  <2>1. RemoveUpload(r)
    BY <2>0 DEF UploadStep, Store, CheckDeletionToken, FindExpired, Intact, StateTyped
  <2>2. /\ upload' = [upload EXCEPT ![req[r].on] = "gone"]
        /\ Become(r, [req[r] EXCEPT !.pc = "forget"])
    BY <1>5, <1>6, <2>0, <2>1 DEF RemoveUpload, Intact
  <2>3. req'[r] = [req[r] EXCEPT !.pc = "forget"]
    BY <2>2, OthersStayBy
  <2>4. req[r].on = u
    BY <2>0, <2>2 DEF Intact, StateTyped
  <2>5. req'[r].pc = "forget" /\ req'[r].on = u
    BY <2>3, <2>4, InLocals DEF Locals
  <2>. QED BY <2>5 DEF ToForget
<1>. QED BY <1>1, <1>3, <1>5, <1>6, Moves, MovesAge, QuietIndex DEF OffIndex

\* A download that is counted takes no upload from its list, and lists none.
LEMMA CountStepsQuiet ==
    ASSUME StateTyped, ReqTyped, Places, Places', IndexInv, NEW r \in Requests, CountStep(r)
    PROVE  IndexInv'
<1>1. /\ OthersStay(r) /\ OffIndex /\ UNCHANGED <<upload, swept>>
      /\ Fault \/ NoFault \/ UNCHANGED faults
      /\ req[r].pc \in {"idle", "count"} /\ req'[r].pc \in {"idle", "count", "remove"}
  BY CountStepDoes DEF Places
<1>2. \A q \in Requests : SameListing(q) \/ Apart(q)
  BY <1>1, Unmoved DEF Apart, InLock
<1>3. UploadsAge /\ \A u \in Uploads : Due(u) => Due(u)'
  BY <1>1 DEF UploadsAge, Settled, Due, Intact
<1>. QED BY <1>1, <1>2, <1>3, Disturbs, QuietIndex DEF OffIndex

LEMMA StepKeepsIndex ==
    ASSUME StateTyped, ReqTyped, Places, Lingers, IndexInv, [Next]_vars
    PROVE  IndexInv'
<1>1. Places'
  BY StepPlaced
<1>2. ASSUME NEW r \in Requests, IndexStep(r) PROVE IndexInv'
  BY <1>1, <1>2, RecordOwnershipKeeps, ForgetOwnershipKeeps, ListOwnedKeeps, CheckEntryKeeps,
     EndEntriesKeeps, TruncateIndexKeeps, SaveIndexKeeps DEF IndexStep
<1>3. ASSUME NEW r \in Requests,
             UploadStep(r) \/ CountStep(r) \/ CollectionStep(r) \/ RemoveCollection(r)
      PROVE  IndexInv'
  BY <1>1, <1>3, UploadStepsQuiet, CountStepsQuiet, CollectionStepsQuiet
<1>4. CASE UNCHANGED vars \/ \E u \in Uploads : Expire(u)
  <2>1. UNCHANGED <<upload, swept, index, order, req, faults>>
    BY <1>4 DEF vars, Expire, history
  <2>2. UploadsAge /\ (\A q \in Requests : SameListing(q)) /\ (Undisturbed' => Undisturbed)
        /\ \A u \in Uploads : Due(u) => Due(u)'
    BY <2>1 DEF UploadsAge, Settled, Due, Intact, SameListing, Undisturbed
  <2>. QED BY <1>1, <2>1, <2>2, QuietIndex
<1>6. ASSUME NEW u \in Uploads, Sweep(u) PROVE IndexInv'
  <2>1. /\ UNCHANGED <<index, order, req, faults>>
        /\ upload' = [upload EXCEPT ![u] = "gone"] /\ swept' = swept \cup {u}
        /\ upload[u] \in {"live", "gone"}
    BY <1>6 DEF Sweep, Readable, Lingers
  <2>2. UploadsAge
    BY <2>1 DEF UploadsAge, Settled, Intact, StateTyped
  <2>3. \A v \in Uploads : Due(v) => Due(v)'
    BY <2>1 DEF Due, Intact, StateTyped
  <2>4. (\A q \in Requests : SameListing(q)) /\ (Undisturbed' => Undisturbed)
    BY <2>1 DEF SameListing, Undisturbed
  <2>. QED BY <1>1, <2>1, <2>2, <2>3, <2>4, QuietIndex
<1>5. CASE Crash
  <2>1. UNCHANGED <<upload, index, order>> /\ ~Undisturbed'
    BY <1>5, Disturbs DEF Crash, history
  <2>2. \A q \in Requests : req'[q].pc = "idle"
    BY <1>5, IdleFields DEF Crash
  <2>3. \A q \in Requests : ListOf(q)'
    BY <2>2 DEF ListOf, Writing
  <2>. QED BY <2>1, <2>3 DEF IndexInv, OrderSound, Settled, ListsSound, ListingOf
<1>. QED BY <1>2, <1>3, <1>4, <1>5, <1>6, Steps DEF WorldStep

LEMMA InitIndex == Init => IndexInv
<1>. SUFFICES ASSUME Init PROVE IndexInv
  OBVIOUS
<1>1. index = <<>> /\ order = <<>> /\ \A r \in Requests : req[r].pc = "idle"
  BY IdleFields DEF Init
<1>2. /\ <<>> \in Seq(Uploads) /\ Len(<<>>) = 0 /\ DOMAIN <<>> = {} /\ ToSet(<<>>) = {}
  BY EmptySeq, EmptySet
<1>3. ListingOf(<<>>, <<>>) /\ Complete(<<>>, <<>>)
  BY <1>2 DEF ListingOf, Complete
<1>4. OrderSound
  BY <1>1, <1>2 DEF OrderSound
<1>5. \A r \in Requests : ListOf(r) /\ KeptOf(r)
  BY <1>1 DEF ListOf, KeptOf, Writing
<1>6. index # Torn
  BY <1>1, <1>2
<1>. QED BY <1>1, <1>2, <1>3, <1>4, <1>5, <1>6 DEF IndexInv, ListsSound, AllKept, IndexKept

\* The owner index, between two requests that hold the owner lock, is the uploads it
\* should list, in order: of two requests that rewrite it at once neither loses what
\* the other recorded.
THEOREM IndexStaysFaithful == Spec => []IndexFaithful
<1>. DEFINE Inv == StateTyped /\ ReqTyped /\ Places /\ Lingers /\ IndexInv
<1>1. Init => Inv
  BY InitPlaced, InitIndex
<1>2. Inv /\ [Next]_vars => Inv'
  BY StepPlaced, StepLingers, StepKeepsIndex
<1>3. Inv => IndexFaithful
  <2>. SUFFICES ASSUME Inv PROVE NoEntryLost /\ NewestFirst
    BY DEF IndexFaithful
  <2>1. NewestFirst
    BY DEF IndexInv, ListsSound, ListingOf, NewestFirst
  <2>2. NoEntryLost
    BY LockFree DEF IndexInv, AllKept, IndexKept, Complete, NoEntryLost, InLock
  <2>. QED BY <2>1, <2>2
<1>. QED BY <1>1, <1>2, <1>3, PTL DEF Spec

\* A removed upload leaves its owner's list with the request that removed it, and
\* a sidecar written back does not list it again; what the sweep took stays listed
\* until a listing looks at it.
THEOREM RemovedAreForgotten == Spec => []ForgottenWhenGone
<1>. DEFINE Inv == StateTyped /\ ReqTyped /\ Places /\ Lingers /\ IndexInv
<1>1. Init => Inv
  BY InitPlaced, InitIndex
<1>2. Inv /\ [Next]_vars => Inv'
  BY StepPlaced, StepLingers, StepKeepsIndex
<1>3. Inv => ForgottenWhenGone
  <2>. SUFFICES ASSUME Inv, Undisturbed, ownerLock = Nil, NEW u \in ToSet(index)
                PROVE  Due(u) \/ ToForget(u)
    BY DEF ForgottenWhenGone, ToForget, Due
  <2>1. index # Torn /\ (Due(u) \/ Forgetting(u))
    BY LockFree DEF IndexInv, AllKept, IndexKept, InLock
  <2>. QED BY <2>1, LockFree, ListsTyped
<1>. QED BY <1>1, <1>2, <1>3, PTL DEF Spec

===============================================================================
