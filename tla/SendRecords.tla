----------------------------- MODULE SendRecords -----------------------------
(***************************************************************************)
(* The records the send command keeps of what it uploaded: history.json    *)
(* (client/history.go), owner.key and the list the server keeps under the  *)
(* token made from it (client/owner.go), and the runs that change them:    *)
(* put, rm and ls --prune (cmd/send/main.go, cmd/send/remote.go).          *)
(*                                                                         *)
(* Each run reads history.json once, works on its copy and writes all of   *)
(* it back.  Nothing locks the file, and os.WriteFile empties it first.    *)
(*                                                                         *)
(* Abstractions: uploads are numbered in the order they are made, those of *)
(* another machine before 1; a history entry is the upload it links to; a  *)
(* key is named by the run that made it, and stands for the token made     *)
(* from it; the server's list under a token is the set of uploads Listings *)
(* keeps, newest first; a collection is one more upload.                   *)
(***************************************************************************)
EXTENDS SendServer, Integers, FiniteSets

CONSTANTS
    Procs,        \* runs that may overlap
    HistoryLimit, \* historyLimit
    IndexLimit,   \* ownerIndexLimit, of the server
    MaxMade,      \* bound: uploads made on this machine, numbered from 1
    Elsewhere,    \* uploads another machine made before
    Shared,       \* its key, which this machine may have been given
    Torn,         \* a file that was emptied and not yet written
    Unfetched     \* the server's list has not been asked for

Made == 1..MaxMade
Keys == Procs \cup {Shared}
ASSUME RecordsAssumption ==
    /\ HistoryLimit \in Nat /\ IndexLimit \in 1..HistoryLimit /\ MaxMade \in Nat
    /\ Elsewhere \subseteq {id \in Int : id < 1}
ASSUME FileAssumption ==
    /\ Shared \notin Procs /\ Torn # "none" /\ {"none", Torn} \cap Keys = {}
    /\ \A entries \in SUBSET Made : Torn # entries

VARIABLES
    listed,   \* what the server has recorded under the token of each key
    keyFile,  \* owner.key: "none", Torn or a key
    history,  \* history.json: the uploads it names, or Torn
    run,      \* the runs of the command
    made,     \* how many uploads this machine has made
    printed,  \* those whose link put has printed
    expired,  \* uploads whose Max-Days has passed
    runs,     \* bound: runs that may begin, or uploads expire
    mishaps   \* bound: how many things may go wrong, and what has

recordVars == <<listed, keyFile, history, run, made, printed, expired, runs, mishaps>>

\* What rm is given: the link as put printed it, its key cut off, or the
\* deletion link.
Forms == {"link", "bare", "deletion"}
NoTarget == [id |-> 0, form |-> "none"]
AllTargets == [id |-> 0, form |-> "all"]
SingleTargets == [id : Made \cup Elsewhere, form : Forms]

Removable ==
    {AllTargets} \cup {target \in SingleTargets : target.id \in printed \cup Elsewhere}

\* Links of encrypted uploads carry a key; of the others "bare" is the link.
Sealed(id) == id % 2 = 1

\* A run: its copy of history.json, the key its token is made from, the server's
\* list once fetched, and what rm has still to delete.
NoRun == [kind |-> "none", target |-> NoTarget, stage |-> "idle", copy |-> {},
          token |-> "none", index |-> Unfetched, todo |-> {}]
Running == {p \in Procs : run[p].stage # "idle"}

RecordsInit ==
    /\ listed = [key \in Keys |-> IF key = Shared THEN Elsewhere ELSE {}]
    /\ keyFile \in {"none", Shared} /\ history = {} /\ expired = {}
    /\ run = [p \in Procs |-> NoRun] /\ made = 0 /\ printed = {}

Mishap(what) ==
    /\ mishaps.left > 0
    /\ mishaps' = [left |-> mishaps.left - 1, seen |-> mishaps.seen \cup {what}]
Become(p, locals) == run' = [run EXCEPT ![p] = locals]
Stop(p) == Become(p, NoRun)
Newest(limit, entries) == {id \in entries : Cardinality({n \in entries : n > id}) < limit}

-----------------------------------------------------------------------------
(* Steps every run takes *)

\* Two runs at once are one of the things that go wrong; two of them while there
\* is no key yet are another, for each may make one.
Begin(p, kind, target) ==
    /\ run[p].stage = "idle" /\ runs > 0 /\ runs' = runs - 1
    /\ \/ Running = {} /\ UNCHANGED mishaps
       \/ Running # {} /\ Mishap(IF keyFile \in Keys THEN "overlap" ELSE "first runs")
    /\ Become(p, [NoRun EXCEPT !.kind = kind, !.target = target, !.stage = "starting"])
    /\ UNCHANGED <<live, listed, keyFile, history, made, printed, expired>>

\* With its token, put goes on to read the history; rm has read it, and with nothing
\* to remove (--all of an empty history) it is a usage error.
HaveToken(p, token) ==
    IF run[p].kind = "put" THEN Become(p, [run[p] EXCEPT !.stage = "keyed", !.token = token])
    ELSE IF run[p].todo = {} THEN Stop(p)
    ELSE Become(p, [run[p] EXCEPT !.stage = "working", !.token = token])

\* resolveClient, masterOwnerKey: a key that cannot be read means no token, a file
\* that is not there a new key.
ReadKey(p) ==
    /\ run[p].stage = (IF run[p].kind = "put" THEN "starting" ELSE "loaded")
    /\ IF keyFile = "none" THEN Become(p, [run[p] EXCEPT !.stage = "keying"])
       ELSE HaveToken(p, IF keyFile = Torn THEN "none" ELSE keyFile)
    /\ UNCHANGED <<live, listed, keyFile, history, made, printed, expired, runs, mishaps>>

\* os.WriteFile, whatever has been written since; the run keeps the key it made.
MakeKey(p) ==
    /\ run[p].stage = "keying"
    /\ keyFile' = Torn /\ Become(p, [run[p] EXCEPT !.stage = "writing"])
    /\ UNCHANGED <<live, listed, history, made, printed, expired, runs, mishaps>>
WriteKey(p) ==
    /\ run[p].stage = "writing"
    /\ keyFile' = p /\ HaveToken(p, p)
    /\ UNCHANGED <<live, listed, history, made, printed, expired, runs, mishaps>>

\* LoadHistory: a corrupt history is an empty one.
Entries == IF history = Torn THEN {} ELSE history
\* Mutant: --all of a machine with no history means the server's list.
TargetsOfAnyMachine(p, copy) ==
    IF run[p].kind # "rm" THEN {}
    ELSE IF run[p].target = AllTargets
    THEN {[id |-> id, form |-> "link"] :
             id \in IF copy = {} /\ keyFile \in Keys THEN listed[keyFile] ELSE copy}
    ELSE {run[p].target}
TargetsOf(p, copy) ==
    IF run[p].kind # "rm" THEN {}
    ELSE IF run[p].target = AllTargets THEN {[id |-> id, form |-> "link"] : id \in copy}
    ELSE {run[p].target}

NextStage == [put |-> "uploading", rm |-> "loaded", prune |-> "working"]
Load(p) ==
    /\ run[p].stage = (IF run[p].kind = "put" THEN "keyed" ELSE "starting")
    /\ Become(p, [run[p] EXCEPT !.stage = NextStage[run[p].kind], !.copy = Entries,
                                !.todo = TargetsOf(p, Entries)])
    /\ UNCHANGED <<live, listed, keyFile, history, made, printed, expired, runs, mishaps>>

-----------------------------------------------------------------------------
(* put *)

\* At least one file is given.
Putting(p) == run[p].kind = "put" /\ run[p].stage \in {"uploading", "working"}

\* One file: the server stores it, records it under the token it was given
\* (writeOwnerIndex keeps the newest), and answers; the link is printed, and so is
\* the way to delete it.
Recorded(token, id) ==
    IF token = "none" THEN listed
    ELSE [listed EXCEPT ![token] = Newest(IndexLimit, @ \cup {id})]
UploadOne(p) ==
    /\ Putting(p) /\ made < MaxMade
    /\ made' = made + 1 /\ live' = live \cup {made'} /\ printed' = printed \cup {made'}
    /\ Become(p, [run[p] EXCEPT !.stage = "working", !.copy = @ \cup {made'}])
    /\ \/ listed' = Recorded(run[p].token, made') /\ UNCHANGED mishaps
       \/ UNCHANGED listed /\ Mishap("failure")  \* the server could not record it
    /\ UNCHANGED <<keyFile, history, expired, runs>>

\* A later file fails: runPut returns, and what it has uploaded stays out of
\* history.json.
UploadFails(p) ==
    /\ Putting(p) /\ Mishap("failure")
    /\ Stop(p)
    /\ UNCHANGED <<live, listed, keyFile, history, made, printed, expired, runs>>

-----------------------------------------------------------------------------
(* rm *)

\* history.Find, of the link as it is recorded.
InHistory(p, target) ==
    /\ target.id \in run[p].copy
    /\ target.form = "link" \/ (target.form = "bare" /\ ~Sealed(target.id))
InIndex(p, target) ==
    /\ target.form # "deletion" /\ run[p].index # Unfetched
    /\ target.id \in run[p].index

\* remoteIndex.all, once, and only for what the history does not have.  A list
\* that cannot be fetched is empty; ownerFilesHandler prunes what it reads.
FetchIndex(p, target) ==
    LET token == run[p].token
        fetched == IF token = "none" THEN {} ELSE listed[token] \cap live
    IN
    /\ run[p].stage = "working" /\ target \in run[p].todo
    /\ ~InHistory(p, target) /\ run[p].index = Unfetched
    /\ \/ /\ Become(p, [run[p] EXCEPT !.index = fetched]) /\ UNCHANGED mishaps
          /\ \/ UNCHANGED listed  \* or it could not be written back
             \/ token # "none" /\ listed' = [listed EXCEPT ![token] = @ \cap live]
       \/ Become(p, [run[p] EXCEPT !.index = {}]) /\ UNCHANGED listed /\ Mishap("failure")
    /\ UNCHANGED <<live, keyFile, history, made, printed, expired, runs>>

\* Either there is no deletion link on record, or DELETE is sent; that it is gone
\* already is as good.  forgetOwnership takes it off the list, or fails to.  Only
\* the link itself finds its entry again.
Delete(p, target) ==
    LET known == InHistory(p, target) \/ target.form = "deletion" \/ InIndex(p, target)
        left == [run[p] EXCEPT !.todo = @ \ {target}]
        found == IF InHistory(p, target) THEN {target.id} ELSE {}
    IN
    /\ run[p].stage = "working" /\ target \in run[p].todo
    /\ InHistory(p, target) \/ run[p].index # Unfetched
    /\ \/ /\ known
          /\ live' = live \ {target.id}
          /\ \/ UNCHANGED listed
             \/ /\ target.id \in live
                /\ listed' = [key \in Keys |-> listed[key] \ {target.id}]
          /\ Become(p, [left EXCEPT !.copy = @ \ found])
          /\ UNCHANGED mishaps
       \/ ~known /\ Become(p, left) /\ UNCHANGED <<live, listed, mishaps>>
       \/ known /\ Become(p, left) /\ UNCHANGED <<live, listed>> /\ Mishap("failure")
    /\ UNCHANGED <<keyFile, history, made, printed, expired, runs>>

-----------------------------------------------------------------------------
(* Saving *)

\* History.Save: newest first, the newest HistoryLimit of them.  Mutant: sorted
\* the wrong way round, the oldest.
SavedOldest(copy) == {id \in copy : Cardinality({n \in copy : n < id}) < HistoryLimit}
Saved(copy) == Newest(HistoryLimit, copy)

Save(p) ==
    LET r == run[p] IN
    /\ r.stage = "working" /\ r.todo = {}
    /\ history' = Torn
    /\ Become(p, [r EXCEPT !.stage = "saving",
                           !.copy = IF r.kind = "prune" THEN @ \ expired ELSE @])
    /\ UNCHANGED <<live, listed, keyFile, made, printed, expired, runs, mishaps>>
WriteHistory(p) ==
    /\ run[p].stage = "saving"
    /\ history' = Saved(run[p].copy)
    /\ Stop(p)
    /\ UNCHANGED <<live, listed, keyFile, made, printed, expired, runs, mishaps>>

-----------------------------------------------------------------------------
(* What happens to a run, and to the uploads *)

Kill(p) ==
    /\ run[p].stage # "idle" /\ Mishap("failure")
    /\ Stop(p)
    /\ UNCHANGED <<live, listed, keyFile, history, made, printed, expired, runs>>

Expire(id) ==
    /\ id \in live /\ runs > 0 /\ runs' = runs - 1
    /\ live' = live \ {id} /\ expired' = expired \cup {id}
    /\ UNCHANGED <<listed, keyFile, history, run, made, printed, mishaps>>

-----------------------------------------------------------------------------
(* Safety *)

\* One thing going wrong never costs the means to delete an upload whose link has
\* been printed: history.json has it, or a run that is about to write it, or the
\* server's list under the token of the key on file ("takes every delete link with
\* it", client/owner.go).  It may cost those that are too old for the server's list,
\* and all bets are off when runs overlap before there is a key.
Deletable ==
    "first runs" \notin mishaps.seen =>
        \A id \in live \cap Newest(IF mishaps.seen = {} THEN HistoryLimit ELSE IndexLimit, printed) :
            \/ id \in Entries
            \/ \E p \in Running : run[p].stage \in {"working", "saving"} /\ id \in run[p].copy
            \/ keyFile \in Keys /\ id \in listed[keyFile]

\* An upload goes because its time has passed or because rm was asked to: by its
\* link, or with --all, which means this machine's uploads and "the local history
\* and nothing else" (cmd/send/main.go, runRemove).
Asked(p, id) ==
    /\ run[p].kind = "rm"
    /\ IF run[p].target = AllTargets THEN id \in 1..made ELSE id = run[p].target.id
DeletesOnlyAsked ==
    [][\A id \in live \ live' : id \in expired' \/ \E p \in Procs : Asked(p, id)]_live
===============================================================================
