------------------------------- MODULE Listings -------------------------------
(***************************************************************************)
(* The two objects that list uploads by reference and prune themselves:    *)
(* the index of an owner token (owner.go), read and rewritten under the    *)
(* owner's lock, and collections (collection.go), read, pruned and         *)
(* rewritten under no lock at all, while the uploads they name are stored, *)
(* counted, deleted, run out, are removed by whoever looks at them and     *)
(* swept away by Purge.                                                    *)
(*                                                                         *)
(* Abstractions: one owner, whose token came with every upload (indexes of *)
(* two owners share nothing); an entry is its upload; an upload is there   *)
(* when its sidecar is, in one step (UploadLifecycle has the steps of its  *)
(* removal, and the sidecar that a failing rewrite tears); running out of  *)
(* downloads and passing MaxDate are both `expired'.  A handler that       *)
(* answers an error without having changed anything is no step.            *)
(***************************************************************************)
EXTENDS Integers, SequencesExt

CONSTANTS
    Uploads,      \* (token, filename) pairs; tokens are random, never reused
    Collections,  \* collection tokens, likewise
    Requests,     \* request goroutines
    IndexLimit,   \* ownerIndexLimit
    MaxFiles,     \* collectionMaxFiles
    Local,        \* the backend: local directory (TRUE) or S3 (FALSE)
    Expires,      \* uploads with a Max-Days or Max-Downloads limit
    Deletable,    \* uploads whose owner may send DELETE
    Shared,       \* uploads whose links may be put in a collection
    Old,          \* uploads that may stay until the sweep takes them
    MaxFaults,    \* bound: failing storage calls and crashes in a behaviour
    Absent, Torn, \* no object; an object truncated and not yet written
    Nil           \* nobody, nothing

ASSUME LimitAssumption == IndexLimit \in Nat \ {0} /\ MaxFiles \in Nat \ {0}
ASSUME BackendAssumption == Local \in BOOLEAN
ASSUME SetAssumption == {Expires, Deletable, Shared, Old} \subseteq SUBSET Uploads
ASSUME BoundAssumption == MaxFaults \in Nat
ASSUME NilAssumption == Nil \notin Requests \cup Uploads \cup Collections
ASSUME AbsentAssumption == {Absent, Torn} \cap Seq(Uploads) = {} /\ Absent # Torn

VARIABLES
    upload,     \* "new", "stored" (link not yet answered), "live" or "gone"
    lingering,  \* uploads that are gone and whose sidecar is there nonetheless
    expired,    \* uploads past their date or out of downloads
    index,      \* the owner's index, newest first, or Torn; no index is <<>>
    coll,       \* each collection object: Absent, Torn, or its members
    ownerLock,  \* the request inside the owner's lock
    uploadLock, \* the request inside each upload's lock
    req,        \* the locals of each request
    faults      \* failing storage calls and crashes so far

\* What happened, for the properties: uploads in the order their ownership was
\* recorded, the members each collection was created with, the collections whose
\* DELETE was answered with success, the uploads the sweep took, and those whose
\* sidecar a download that was being counted wrote back after their removal.
VARIABLES order, named, deleted, swept, revived

history == <<order, named, deleted, swept, revived>>
locks == <<ownerLock, uploadLock>>
vars == <<upload, lingering, expired, index, coll, ownerLock, uploadLock, req, faults,
          order, named, deleted, swept, revived>>

\* Where a request is: recording an upload; counting a download, with the metadata
\* read; before storage.Delete of an upload and before forgetOwnership; looking at
\* the entries of the index; looking at the members of a collection it reads or is
\* to create; about to truncate and to write the index or a collection; about to
\* delete a collection on demand or because it is empty.
Place == {"idle", "record", "count", "remove", "forget", "entries", "members", "create",
          "truncateIndex", "saveIndex", "truncateColl", "saveColl",
          "removeColl", "removeEmpty"}

\* on and col are the upload and the collection the request is about; read is
\* the list as decoded, todo what is left of it, kept what was found alive, and
\* data the index to be written.  missing and lapsed are ghosts: what a listing
\* read whose sidecar was gone, and what a collection read that was expired.
Locals == [pc : Place, on : Uploads \cup {Nil}, col : Collections \cup {Nil},
           read : Seq(Uploads), todo : Seq(Uploads), kept : Seq(Uploads),
           data : Seq(Uploads), missing : SUBSET Uploads, lapsed : SUBSET Uploads]

Idle == [pc |-> "idle", on |-> Nil, col |-> Nil, read |-> <<>>, todo |-> <<>>,
         kept |-> <<>>, data |-> <<>>, missing |-> {}, lapsed |-> {}]

TypeOK ==
    /\ upload \in [Uploads -> {"new", "stored", "live", "gone"}]
    /\ lingering \subseteq Uploads
    /\ expired \subseteq Uploads
    /\ index \in Seq(Uploads) \cup {Torn}
    /\ coll \in [Collections -> Seq(Uploads) \cup {Absent, Torn}]
    /\ ownerLock \in Requests \cup {Nil}
    /\ uploadLock \in [Uploads -> Requests \cup {Nil}]
    /\ req \in [Requests -> Locals]
    /\ faults \in 0..MaxFaults
    /\ order \in Seq(Uploads)
    /\ named \in [Collections -> Seq(Uploads)]
    /\ deleted \subseteq Collections
    /\ swept \subseteq Uploads
    /\ revived \subseteq Uploads

Init ==
    /\ upload = [u \in Uploads |-> "new"]
    /\ lingering = {}
    /\ expired = {}
    /\ index = <<>>
    /\ coll = [c \in Collections |-> Absent]
    /\ ownerLock = Nil
    /\ uploadLock = [u \in Uploads |-> Nil]
    /\ req = [r \in Requests |-> Idle]
    /\ faults = 0
    /\ order = <<>>
    /\ named = [c \in Collections |-> <<>>]
    /\ deleted = {}
    /\ swept = {}
    /\ revived = {}

\* storage.Head of the sidecar succeeds.
There(u) == upload[u] \in {"stored", "live"} \/ u \in lingering
Gone == {u \in Uploads : upload[u] = "gone"} \ lingering

\* The metadata of an upload whose link was answered can be read; nothing of an
\* upload was removed.
Readable(u) == upload[u] = "live" \/ u \in lingering
Intact(u) == upload[u] \in {"stored", "live"}

\* A storage call fails, or the server dies, which the bound keeps finite.
Fault == faults < MaxFaults /\ faults' = faults + 1
NoFault == UNCHANGED faults

Become(r, locals) == req' = [req EXCEPT ![r] = locals]
Finish(r) == Become(r, Idle)
ReleaseUploads(r) ==
    uploadLock' = [u \in Uploads |-> IF uploadLock[u] = r THEN Nil ELSE uploadLock[u]]

\* s.lock(ownerIndexToken, hash) would return.  Mutant: no lock is taken.
OwnerNotLocked == TRUE
OwnerFree == ownerLock = Nil

-------------------------------------------------------------------------------
(***************************************************************************)
(* The owner index.                                                        *)
(***************************************************************************)

\* The oldest entries fall off.
Trim(s) == IF Len(s) > IndexLimit THEN SubSeq(s, 1, IndexLimit) ELSE s

\* writeOwnerIndex begins, with the lock held: the local Put truncates first.
WriteIndex(r, s) ==
    /\ ownerLock' = r
    /\ LET locals == IF req[r].col = Nil THEN [Idle EXCEPT !.on = req[r].on] ELSE req[r] IN
       Become(r, [locals EXCEPT !.pc = IF Local THEN "truncateIndex" ELSE "saveIndex",
                                !.data = Trim(s)])

\* store() has succeeded; the link is answered after recordOwnership.
Store(r, u) ==
    /\ req[r].pc = "idle" /\ upload[u] = "new"
    /\ upload' = [upload EXCEPT ![u] = "stored"]
    /\ Become(r, [Idle EXCEPT !.pc = "record", !.on = u])
    /\ UNCHANGED <<lingering, expired, index, coll, locks, faults, history>>

\* recordOwnership up to the decoded index.  An index that cannot be read is
\* left alone and the upload stays off the list.
RecordOwnership(r) ==
    LET u == req[r].on IN
    /\ req[r].pc = "record" /\ OwnerFree
    /\ \/ /\ index # Torn /\ NoFault
          /\ WriteIndex(r, <<u>> \o index)
          /\ UNCHANGED upload
       \/ /\ Fault \/ (index = Torn /\ NoFault)
          /\ upload' = [upload EXCEPT ![u] = "live"]
          /\ Finish(r) /\ UNCHANGED ownerLock
    /\ UNCHANGED <<lingering, expired, index, coll, uploadLock, history>>

\* After a removal: back to the collection whose members are being looked at,
\* with the upload's lock released, or the end of the request.
Return(r) ==
    /\ ReleaseUploads(r)
    /\ Become(r, IF req[r].col = Nil THEN Idle
                 ELSE [req[r] EXCEPT !.pc = "members", !.on = Nil, !.data = <<>>])

\* The upload is in the index as read.  Mutant: a list of one is left alone.
ListedWithOthers(u) == index # Torn /\ Contains(index, u) /\ Len(index) > 1
Listed(u) == index # Torn /\ Contains(index, u)

\* The list less an upload: the loop drops every entry that names it, and an
\* index names an upload once (NewestFirst).
Without(s, u) == RemoveAt(s, CHOOSE i \in DOMAIN s : s[i] = u)

\* forgetOwnership up to the filtered list; nothing to do ends it.
ForgetOwnership(r) ==
    LET listed == Listed(req[r].on) IN
    /\ req[r].pc = "forget" /\ OwnerFree
    /\ \/ /\ listed /\ NoFault
          /\ WriteIndex(r, Without(index, req[r].on))
          /\ UNCHANGED uploadLock
       \/ /\ Fault \/ (~listed /\ NoFault)
          /\ Return(r) /\ UNCHANGED ownerLock
    /\ UNCHANGED <<upload, lingering, expired, index, coll, history>>

\* ownerFilesHandler: the whole loop and the rewrite hold the lock.
ListOwned(r) ==
    /\ req[r].pc = "idle" /\ OwnerFree
    /\ index # Torn /\ index # <<>>
    /\ ownerLock' = r
    /\ Become(r, [Idle EXCEPT !.pc = "entries", !.read = index, !.todo = index,
                              !.missing = Gone \cap ToSet(index)])
    /\ UNCHANGED <<upload, lingering, expired, index, coll, uploadLock, faults, history>>

\* The entry or member at hand is kept, or not.  Mutant: it always is.
Keep(r) == [req[r] EXCEPT !.todo = Tail(@), !.kept = Append(@, Head(req[r].todo))]
KeepAnyway(r) == Keep(r)
Drop(r) == [req[r] EXCEPT !.todo = Tail(@)]

\* One Head; any error drops the entry.
CheckEntry(r) ==
    /\ req[r].pc = "entries" /\ req[r].todo # <<>>
    /\ \/ There(Head(req[r].todo)) /\ NoFault /\ Become(r, Keep(r))
       \/ ~There(Head(req[r].todo)) /\ NoFault /\ Become(r, Drop(r))
       \/ Fault /\ Become(r, Drop(r))
    /\ UNCHANGED <<upload, lingering, expired, index, coll, locks, history>>

\* The end of the loop: the index is rewritten if an entry was dropped.
EndEntries(r) ==
    /\ req[r].pc = "entries" /\ req[r].todo = <<>>
    /\ IF Len(req[r].kept) # Len(req[r].read)
       THEN WriteIndex(r, req[r].kept)
       ELSE Finish(r) /\ ownerLock' = Nil
    /\ UNCHANGED <<upload, lingering, expired, index, coll, uploadLock, faults, history>>

\* The three handlers that write the index: recordOwnership, whose upload is then
\* answered; forgetOwnership; and ownerFilesHandler, which is about no upload.
\* Mutant: every write is taken for the first.
RecordingAlways(r) == TRUE
Recording(r) == req[r].on # Nil /\ upload[req[r].on] = "stored"

EndWrite(r) ==
    /\ ownerLock' = Nil
    /\ Return(r)
    /\ upload' = IF Recording(r) THEN [upload EXCEPT ![req[r].on] = "live"] ELSE upload

\* The local Put opens the file with O_TRUNC, or cannot open it.
TruncateIndex(r) ==
    /\ req[r].pc = "truncateIndex"
    /\ \/ /\ NoFault
          /\ index' = Torn
          /\ Become(r, [req[r] EXCEPT !.pc = "saveIndex"])
          /\ UNCHANGED <<upload, locks>>
       \/ /\ Fault
          /\ EndWrite(r) /\ UNCHANGED index
    /\ UNCHANGED <<lingering, expired, coll, history>>

\* The index is written, or the write fails and leaves what was there.
SaveIndex(r) ==
    /\ req[r].pc = "saveIndex"
    /\ EndWrite(r)
    /\ \/ /\ NoFault
          /\ index' = req[r].data
          /\ order' = IF Recording(r) THEN Append(order, req[r].on) ELSE order
       \/ Fault /\ UNCHANGED <<index, order>>
    /\ UNCHANGED <<lingering, expired, coll, named, deleted, swept, revived>>

-------------------------------------------------------------------------------
(***************************************************************************)
(* Uploads that end: deleteHandler, under no lock once the token is        *)
(* checked; purgeExpired by whoever reads the metadata of an expired       *)
(* upload, with the upload's lock held throughout; and the sweep.          *)
(***************************************************************************)
CheckDeletionToken(r, u) ==
    /\ req[r].pc = "idle" /\ u \in Deletable /\ Readable(u) /\ uploadLock[u] = Nil
    /\ Become(r, [Idle EXCEPT !.pc = "remove", !.on = u])
    /\ UNCHANGED <<upload, lingering, expired, index, coll, locks, faults, history>>

BeginPurge(r, u, col) ==
    /\ uploadLock' = [uploadLock EXCEPT ![u] = r]
    /\ Become(r, [req[r] EXCEPT !.pc = "remove", !.on = u, !.col = col])

\* checkMetadata of a download that finds the upload expired.
FindExpired(r, u) ==
    /\ req[r].pc = "idle" /\ Readable(u) /\ u \in expired /\ uploadLock[u] = Nil
    /\ BeginPurge(r, u, Nil)
    /\ UNCHANGED <<upload, lingering, expired, index, coll, ownerLock, faults, history>>

\* increaseDownload of a download that has run to its end: the metadata is read.
ReadForCount(r, u) ==
    /\ req[r].pc = "idle" /\ u \in Expires \ expired /\ Readable(u) /\ uploadLock[u] = Nil
    /\ uploadLock' = [uploadLock EXCEPT ![u] = r]
    /\ Become(r, [Idle EXCEPT !.pc = "count", !.on = u])
    /\ UNCHANGED <<upload, lingering, expired, index, coll, ownerLock, faults, history>>

\* The metadata is written, over that of an upload removed in between too, and
\* the last download purges; or the write fails and leaves what was there.
WriteCount(r) ==
    LET u == req[r].on
        back == {u} \cap {v \in Uploads : upload[v] = "gone"}
    IN
    /\ req[r].pc = "count"
    /\ \/ /\ NoFault
          /\ lingering' = lingering \cup back
          /\ revived' = revived \cup (back \ lingering)
          /\ \/ Return(r) /\ UNCHANGED expired
             \/ /\ expired' = expired \cup {u}
                /\ Become(r, [req[r] EXCEPT !.pc = "remove"])
                /\ UNCHANGED uploadLock
       \/ /\ Fault
          /\ Return(r) /\ UNCHANGED <<lingering, expired, revived>>
    /\ UNCHANGED <<upload, index, coll, ownerLock, order, named, deleted, swept>>

\* storage.Delete: the sidecar, then the payload.  Deleting a payload that is gone
\* is an error for DELETE on the local backend only.  One that fails may have
\* removed the sidecar; that the sidecar could not be removed the local backend
\* does not say.
RemoveUpload(r) ==
    LET u == req[r].on
        refused == Local /\ upload[u] = "gone" /\ uploadLock[u] # r
        removed == upload' = [upload EXCEPT ![u] = "gone"]
        without == lingering' = lingering \ {u}
        forget == Become(r, [req[r] EXCEPT !.pc = "forget"]) /\ UNCHANGED uploadLock
    IN
    /\ req[r].pc = "remove"
    /\ \/ NoFault /\ ~refused /\ removed /\ without /\ forget
       \/ NoFault /\ refused /\ without /\ Return(r) /\ UNCHANGED upload
       \/ Fault /\ removed /\ without /\ Return(r)
       \/ Fault /\ Return(r) /\ UNCHANGED <<upload, lingering>>
       \/ /\ Fault /\ Local /\ upload[u] = "live"
          /\ removed /\ lingering' = lingering \cup {u} /\ forget
    /\ UNCHANGED <<expired, index, coll, ownerLock, history>>

\* storage.Purge, under no lock: what is older than purgeDays is removed file by
\* file, so that the sidecar of a download counted since is left.
Sweep(u) ==
    /\ u \in Old /\ Readable(u)
    /\ upload' = [upload EXCEPT ![u] = "gone"]
    /\ lingering' \in {lingering \ {u}, lingering \cup ({u} \cap Expires)}
    /\ swept' = swept \cup {u}
    /\ UNCHANGED <<expired, index, coll, locks, req, faults, order, named, deleted, revived>>

Expire(u) ==
    /\ u \in Expires /\ Readable(u) /\ u \notin expired
    /\ expired' = expired \cup {u}
    /\ UNCHANGED <<upload, lingering, index, coll, locks, req, faults, history>>

-------------------------------------------------------------------------------
(***************************************************************************)
(* Collections.                                                            *)
(***************************************************************************)
\* checkMetadata succeeds.
Live(u) == Readable(u) /\ u \notin expired

\* Any list of at most MaxFiles uploads, named once each.
RefLists == UNION {{s \in [1..n -> Shared] : IsInjective(s)} : n \in 1..MaxFiles}

\* createCollectionHandler: the references are parsed, duplicates dropped.
CreateCollection(r, c) ==
    /\ req[r].pc = "idle"
    /\ coll[c] = Absent /\ named[c] = <<>> /\ \A q \in Requests : req[q].col # c
    /\ \E refs \in RefLists :
        Become(r, [Idle EXCEPT !.pc = "create", !.col = c, !.todo = refs])
    /\ UNCHANGED <<upload, lingering, expired, index, coll, locks, faults, history>>

\* checkMetadata of one reference; an error refuses the whole collection.
CheckReference(r) ==
    LET u == Head(req[r].todo) IN
    /\ req[r].pc = "create" /\ req[r].todo # <<>> /\ uploadLock[u] = Nil
    /\ \/ Live(u) /\ NoFault /\ Become(r, Keep(r)) /\ UNCHANGED uploadLock
       \/ Readable(u) /\ u \in expired /\ NoFault /\ BeginPurge(r, u, Nil)
       \/ /\ Fault \/ (~Readable(u) /\ NoFault)
          /\ Finish(r) /\ UNCHANGED uploadLock
    /\ UNCHANGED <<upload, lingering, expired, index, coll, ownerLock, history>>

\* liveCollection reads the collection.
OpenCollection(r, c) ==
    /\ req[r].pc = "idle" /\ coll[c] \notin {Absent, Torn}
    /\ Become(r, [Idle EXCEPT !.pc = "members", !.col = c, !.read = coll[c],
                              !.todo = coll[c], !.missing = Gone \cap ToSet(coll[c]),
                              !.lapsed = expired \cap ToSet(coll[c])])
    /\ UNCHANGED <<upload, lingering, expired, index, coll, locks, faults, history>>

\* Mutant: the first dead member ends the loop.
StopAtDead(r) == [req[r] EXCEPT !.todo = <<>>]
PassOver(r) == Drop(r)

\* checkMetadata of one member; any error drops it.
CheckMember(r) ==
    LET u == Head(req[r].todo) IN
    /\ req[r].pc = "members" /\ req[r].todo # <<>> /\ uploadLock[u] = Nil
    /\ \/ Live(u) /\ NoFault /\ Become(r, Keep(r)) /\ UNCHANGED uploadLock
       \/ /\ Readable(u) /\ u \in expired /\ NoFault
          /\ uploadLock' = [uploadLock EXCEPT ![u] = r]
          /\ Become(r, [PassOver(r) EXCEPT !.pc = "remove", !.on = u])
       \/ /\ Fault \/ (~Readable(u) /\ NoFault)
          /\ Become(r, PassOver(r)) /\ UNCHANGED uploadLock
    /\ UNCHANGED <<upload, lingering, expired, index, coll, ownerLock, history>>

\* The end of the loop of either handler: write the list, delete an empty
\* collection, or leave one that lost nobody as it is.
EndMembers(r) ==
    LET write == Become(r, [Idle EXCEPT !.pc = IF Local THEN "truncateColl" ELSE "saveColl",
                                        !.col = req[r].col, !.kept = req[r].kept])
    IN
    /\ req[r].todo = <<>>
    /\ \/ req[r].pc = "create" /\ write
       \/ /\ req[r].pc = "members"
          /\ \/ req[r].kept = req[r].read /\ Finish(r)
             \/ /\ req[r].kept # req[r].read /\ req[r].kept = <<>>
                /\ Become(r, [req[r] EXCEPT !.pc = "removeEmpty"])
             \/ req[r].kept # req[r].read /\ req[r].kept # <<>> /\ write
    /\ UNCHANGED <<upload, lingering, expired, index, coll, locks, faults, history>>

\* The local Put creates or truncates the file, or cannot open it.
TruncateCollection(r) ==
    /\ req[r].pc = "truncateColl"
    /\ \/ /\ NoFault
          /\ coll' = [coll EXCEPT ![req[r].col] = Torn]
          /\ Become(r, [req[r] EXCEPT !.pc = "saveColl"])
       \/ Fault /\ Finish(r) /\ UNCHANGED coll
    /\ UNCHANGED <<upload, lingering, expired, index, locks, history>>

\* The collection is written, unless its file was deleted under the descriptor.
SaveCollection(r) ==
    LET c == req[r].col IN
    /\ req[r].pc = "saveColl"
    /\ \/ /\ NoFault /\ c # Nil
          /\ coll' = [coll EXCEPT ![c] = req[r].kept]
          /\ named' = IF named[c] = <<>> THEN [named EXCEPT ![c] = req[r].kept] ELSE named
       \/ /\ Fault \/ (c = Nil /\ NoFault)
          /\ UNCHANGED <<coll, named>>
    /\ Finish(r)
    /\ UNCHANGED <<upload, lingering, expired, index, locks, order, deleted, swept, revived>>

\* deleteCollectionHandler checks the token and then deletes.
CheckCollectionToken(r, c) ==
    /\ req[r].pc = "idle" /\ coll[c] \notin {Absent, Torn}
    /\ Become(r, [Idle EXCEPT !.pc = "removeColl", !.col = c])
    /\ UNCHANGED <<upload, lingering, expired, index, coll, locks, faults, history>>

\* storage.Delete of the collection, asked for or empty.  That it is gone
\* already counts as success.  A descriptor open on the local file goes on
\* writing to a file without a name.
RemoveCollection(r) ==
    LET c == req[r].col
        orphaned(q) == Local /\ req[q].pc = "saveColl" /\ req[q].col = c
    IN
    /\ req[r].pc \in {"removeColl", "removeEmpty"}
    /\ \/ /\ NoFault
          /\ coll' = [coll EXCEPT ![c] = Absent]
          /\ deleted' = IF req[r].pc = "removeColl" THEN deleted \cup {c} ELSE deleted
          /\ req' = [q \in Requests |->
                        IF q = r THEN Idle
                        ELSE IF orphaned(q) THEN [req[q] EXCEPT !.col = Nil] ELSE req[q]]
       \/ Fault /\ Finish(r) /\ UNCHANGED <<coll, deleted>>
    /\ UNCHANGED <<upload, lingering, expired, index, locks, order, named, swept, revived>>

-------------------------------------------------------------------------------
\* The server dies and starts again: what was truncated stays so.
Crash ==
    /\ Fault
    /\ req' = [r \in Requests |-> Idle]
    /\ ownerLock' = Nil
    /\ uploadLock' = [u \in Uploads |-> Nil]
    /\ UNCHANGED <<upload, lingering, expired, index, coll, history>>

RequestStep(r) ==
    \/ RecordOwnership(r)
    \/ ForgetOwnership(r)
    \/ ListOwned(r)
    \/ CheckEntry(r)
    \/ EndEntries(r)
    \/ TruncateIndex(r)
    \/ SaveIndex(r)
    \/ WriteCount(r)
    \/ RemoveUpload(r)
    \/ CheckReference(r)
    \/ CheckMember(r)
    \/ EndMembers(r)
    \/ TruncateCollection(r)
    \/ SaveCollection(r)
    \/ RemoveCollection(r)

Next ==
    \/ \E r \in Requests : RequestStep(r)
    \/ \E r \in Requests, u \in Uploads :
           Store(r, u) \/ CheckDeletionToken(r, u) \/ FindExpired(r, u) \/ ReadForCount(r, u)
    \/ \E r \in Requests, c \in Collections :
           CreateCollection(r, c) \/ OpenCollection(r, c) \/ CheckCollectionToken(r, c)
    \/ \E u \in Uploads : Expire(u) \/ Sweep(u)
    \/ Crash

Spec == Init /\ [][Next]_vars
-------------------------------------------------------------------------------
(***************************************************************************)
(* Properties.                                                             *)
(***************************************************************************)
Undisturbed == faults = 0
AtRest == \A r \in Requests : req[r].pc = "idle"

\* No upload is lost from its owner's list by two requests that rewrite the
\* list at once: one that is recorded and was not removed is listed, unless
\* IndexLimit newer ones pushed it off (README.md:436: the oldest fall off).
NoEntryLost ==
    Undisturbed /\ ownerLock = Nil =>
        /\ index # Torn
        /\ \A i \in DOMAIN order :
              Intact(order[i]) => Contains(index, order[i]) \/ Len(order) - i >= IndexLimit

\* Whatever fails or the list has no upload twice, keeps the order of
\* recording, newest first, and stays within the limit.
NewestFirst ==
    index # Torn =>
        /\ Len(index) <= IndexLimit
        /\ \A i, j \in DOMAIN index : i < j =>
              \E k, m \in DOMAIN order : m < k /\ order[k] = index[i] /\ order[m] = index[j]

\* The owner index, between two requests that hold the owner lock, is the uploads
\* it should list, in order (recordOwnership, forgetOwnership, ownerFilesHandler).
IndexFaithful == NoEntryLost /\ NewestFirst

\* A removed upload leaves its owner's list with the request that removed it,
\* and a sidecar written back does not bring it in again: what is listed was not
\* removed, is being forgotten, or was taken by the sweep, which forgets nothing.
ForgottenWhenGone ==
    Undisturbed /\ ownerLock = Nil =>
        \A u \in ToSet(index) \ swept :
            Intact(u) \/ \E r \in Requests : req[r].pc = "forget" /\ req[r].on = u

\* Neither list answers with an upload whose sidecar was gone before the request
\* began, however many other requests prune and rewrite the same object and
\* whatever is left of uploads half removed; nor does a collection with one that
\* had expired.  The one way back is a download counted while its upload was
\* being deleted, which writes the sidecar again (handlers.go:511-527).
RepliesAreFresh ==
    \A r \in Requests :
        /\ ToSet(req[r].kept) \cap req[r].missing \subseteq revived
        /\ req[r].col # Nil => ToSet(req[r].kept) \cap req[r].lapsed = {}

\* A collection keeps every member that was not removed and has not expired,
\* although its readers prune it without a lock and overwrite each other's results.
MembersKept ==
    Undisturbed /\ AtRest =>
        \A c \in Collections \ deleted : \A u \in ToSet(named[c]) :
            upload[u] = "live" /\ u \notin expired => coll[c] # Absent /\ Contains(coll[c], u)
===============================================================================
