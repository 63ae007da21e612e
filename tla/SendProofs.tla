------------------------------ MODULE SendProofs ------------------------------
(***************************************************************************)
(* Proofs about the send command's records, for any uploads, contents,     *)
(* runs at once, limits and plans of what may happen: nothing is deleted   *)
(* that nobody asked for, and one thing going wrong never costs the means  *)
(* to delete an upload, unless it is two runs at once before there is a    *)
(* key.                                                                    *)
(*                                                                         *)
(* Why an invariant is needed: the link to delete an upload is kept twice, *)
(* in history.json, which each run reads, works on and writes back, and on *)
(* the server's list under the owner token.  As long as nothing has gone   *)
(* wrong both have it, as far as each reaches back; one mishap costs one   *)
(* of the two, never both.                                                 *)
(***************************************************************************)
EXTENDS Send, FiniteSetTheorems, TLAPS

USE RecordsAssumption, FileAssumption, IdAssumption

Ids == Made \cup Elsewhere \cup DOMAIN Offers
Stages == {"idle", "starting", "loaded", "keying", "writing", "keyed", "uploading",
           "working", "saving"}
Troubles == {"overlap", "first runs", "failure"}
Trouble == \E what \in Troubles : Mishap(what)

Runs == [kind : {"none", "put", "rm", "prune"},
         target : {NoTarget, AllTargets} \cup SingleTargets, stage : Stages,
         copy : SUBSET Made, token : Keys \cup {"none"},
         index : (SUBSET (Made \cup Elsewhere)) \cup {Unfetched}, todo : SUBSET SingleTargets]

RunsTyped == run \in [Procs -> Runs]
RecordsTyped ==
    /\ live \subseteq Ids /\ expired \subseteq Ids
    /\ listed \in [Keys -> SUBSET (Made \cup Elsewhere)]
    /\ keyFile \in {"none", Torn} \cup Keys
    /\ history \in (SUBSET Made) \cup {Torn}
    /\ made \in 0..MaxMade /\ printed = 1..made
    /\ runs \in Nat /\ mishaps \in [left : Nat, seen : SUBSET Troubles]

\* Whatever is recorded was made, and what has expired does not come back.
MadeOnly ==
    /\ history # Torn => history \subseteq 1..made
    /\ \A p \in Procs : run[p].copy \subseteq 1..made
    /\ \A key \in Keys : listed[key] \cap Made \subseteq 1..made
    /\ (live \cup expired) \cap Made \subseteq 1..made
    /\ live \cap expired = {}

\* What rm has still to delete is what it was given.
AskedFor(p) ==
    /\ run[p].stage # "idle" => run[p].kind # "none"
    /\ run[p].kind = "rm" => run[p].target \in {AllTargets} \cup SingleTargets
    /\ run[p].kind # "rm" => run[p].todo = {}
    /\ \A t \in run[p].todo :
          IF run[p].target = AllTargets THEN t.id \in 1..made ELSE t = run[p].target

RecordsInv == RunsTyped /\ RecordsTyped /\ MadeOnly /\ \A p \in Procs : AskedFor(p)

-------------------------------------------------------------------------------
(* The steps of the program, by the half they belong to. *)
TransferStep ==
    \/ \E u \in DOMAIN Offers, noResume \in BOOLEAN : BeginGet(u, noResume)
    \/ AnswerGet \/ Receive \/ EndGet \/ DecryptFile \/ BreakGet
    \/ \E e2e \in BOOLEAN, name \in PutNames :
          PutWhole(e2e, name) \/ ResumePut(e2e, name) \/ StartPut(e2e, name)
    \/ SendCells \/ CommitPut \/ FinishPut \/ BreakPut \/ EditFile \/ ForgetSession
    \/ \E u \in DOMAIN Offers, header \in Headers, password \in BOOLEAN :
          Probe(u, header, password)
RecordStep(p) ==
    \/ \E kind \in {"put", "prune"} : Begin(p, kind, NoTarget)
    \/ \E target \in Removable : Begin(p, "rm", target)
    \/ ReadKey(p) \/ MakeKey(p) \/ WriteKey(p) \/ Load(p) \/ UploadOne(p) \/ UploadFails(p)
    \/ \E target \in SingleTargets : FetchIndex(p, target) \/ Delete(p, target)
    \/ Save(p) \/ WriteHistory(p) \/ Kill(p)

LEMMA Steps ==
    ASSUME Next
    PROVE  \/ TransferStep /\ UNCHANGED recordVars
           \/ \E p \in Procs : RecordStep(p)
           \/ \E id \in live : Expire(id)
BY DEF Next, Transfer, Record, TransferStep, RecordStep

\* A transfer neither makes uploads nor removes them.
LEMMA TransfersLeaveUploads == ASSUME TransferStep PROVE UNCHANGED live
BY DEF TransferStep, BeginGet, AnswerGet, Receive, EndGet, DecryptFile, BreakGet, PutWhole,
       ResumePut, StartPut, SendCells, CommitPut, FinishPut, BreakPut, EditFile,
       ForgetSession, Probe

-------------------------------------------------------------------------------
(* Runs *)

LEMMA Becomes ==
    ASSUME RunsTyped, NEW p \in Procs, NEW locals, Become(p, locals)
    PROVE  /\ run'[p] = locals /\ \A q \in Procs \ {p} : run'[q] = run[q]
           /\ locals \in Runs => RunsTyped'
BY DEF RunsTyped, Become

LEMMA Fields ==
    ASSUME RunsTyped, NEW p \in Procs
    PROVE  /\ run[p] \in Runs /\ run[p].kind \in {"none", "put", "rm", "prune"}
           /\ run[p].stage \in Stages /\ run[p].copy \in SUBSET Made
           /\ run[p].todo \in SUBSET SingleTargets
           /\ run[p].target \in {NoTarget, AllTargets} \cup SingleTargets
           /\ run[p].token \in Keys \cup {"none"}
BY DEF RunsTyped, Runs

LEMMA NoRunTyped ==
    /\ NoRun \in Runs
    /\ NoRun.kind = "none" /\ NoRun.stage = "idle" /\ NoRun.copy = {} /\ NoRun.todo = {}
    /\ NoRun.target = NoTarget
<1>1. NoTarget \in {NoTarget, AllTargets} \cup SingleTargets
  OBVIOUS
<1>2. /\ {} \in SUBSET Made /\ {} \in SUBSET SingleTargets
      /\ Unfetched \in (SUBSET (Made \cup Elsewhere)) \cup {Unfetched}
  BY Zenon
<1>3. NoRun \in Runs
  BY <1>1, <1>2 DEF NoRun, Runs, Stages
<1>. QED BY <1>3 DEF NoRun

LEMMA EntriesTyped ==
    ASSUME RecordsTyped, MadeOnly
    PROVE  Entries \subseteq 1..made /\ Entries \in SUBSET Made /\ 1..made \subseteq Made
<1>1. 1..made \subseteq Made
  BY DEF RecordsTyped, Made
<1>. QED BY <1>1 DEF MadeOnly, Entries

\* What a step does to the run that takes it.
Goes(p, stage) ==
    /\ RunsTyped' /\ \A q \in Procs \ {p} : run'[q] = run[q]
    /\ run'[p].kind = run[p].kind /\ run'[p].target = run[p].target /\ run'[p].stage = stage
Ends(p) == RunsTyped' /\ (\A q \in Procs \ {p} : run'[q] = run[q]) /\ run'[p] = NoRun

LEMMA StopEnds == ASSUME RunsTyped, NEW p \in Procs, Stop(p) PROVE Ends(p)
BY Becomes, NoRunTyped DEF Stop, Ends

LEMMA BeginDoes ==
    ASSUME RunsTyped, NEW p \in Procs, NEW kind \in {"put", "rm", "prune"},
           NEW target \in {NoTarget} \cup Removable, Begin(p, kind, target)
    PROVE  /\ RunsTyped' /\ \A q \in Procs \ {p} : run'[q] = run[q]
           /\ run'[p].kind = kind /\ run'[p].target = target /\ run'[p].stage = "starting"
           /\ run'[p].copy = {} /\ run'[p].todo = {} /\ run[p].stage = "idle"
           /\ UNCHANGED <<live, listed, keyFile, history, made, printed, expired>>
<1>. DEFINE new == [NoRun EXCEPT !.kind = kind, !.target = target, !.stage = "starting"]
<1>1. target \in {NoTarget, AllTargets} \cup SingleTargets
  BY DEF Removable
<1>2. /\ new \in Runs /\ new.kind = kind /\ new.target = target /\ new.stage = "starting"
      /\ new.copy = {} /\ new.todo = {}
  BY <1>1, NoRunTyped DEF Runs, Stages
<1>3. Become(p, new)
  BY DEF Begin
<1>. HIDE DEF new
<1>. QED BY <1>2, <1>3, Becomes DEF Begin

\* Coming by a token, or by none.
KeepsCopy(p) == run'[p].copy = run[p].copy /\ run'[p].todo = run[p].todo
GetsToken(p, token) ==
    \/ Ends(p) /\ run[p].kind # "put"
    \/ /\ Goes(p, IF run[p].kind = "put" THEN "keyed" ELSE "working") /\ KeepsCopy(p)
       /\ run'[p].token = token

LEMMA TokenDoes ==
    ASSUME RunsTyped, NEW p \in Procs, NEW token \in Keys \cup {"none"}, HaveToken(p, token)
    PROVE  GetsToken(p, token)
<1>. DEFINE new(stage) == [run[p] EXCEPT !.stage = stage, !.token = token]
<1>1. ASSUME NEW stage \in Stages, Become(p, new(stage))
      PROVE  Goes(p, stage) /\ KeepsCopy(p) /\ run'[p].token = token
  <2>1. /\ new(stage) \in Runs /\ new(stage).kind = run[p].kind
        /\ new(stage).target = run[p].target /\ new(stage).stage = stage
        /\ new(stage).copy = run[p].copy /\ new(stage).todo = run[p].todo
        /\ new(stage).token = token
    BY Fields DEF Runs
  <2>. HIDE DEF new
  <2>. QED BY <1>1, <2>1, Becomes DEF Goes, KeepsCopy
<1>2. \/ Become(p, new("keyed")) /\ run[p].kind = "put"
      \/ Become(p, new("working")) /\ run[p].kind # "put"
      \/ Stop(p) /\ run[p].kind # "put"
  BY DEF HaveToken
<1>. HIDE DEF new
<1>3. "keyed" \in Stages /\ "working" \in Stages
  BY DEF Stages
<1>. QED BY <1>1, <1>2, <1>3, StopEnds DEF GetsToken

\* When a run turns to its key: put before it reads the history, rm after.
KeyTurn(p) == IF run[p].kind = "put" THEN "starting" ELSE "loaded"

LEMMA KeyDoes ==
    ASSUME RunsTyped, RecordsTyped, NEW p \in Procs, ReadKey(p) \/ MakeKey(p) \/ WriteKey(p)
    PROVE  /\ \/ /\ Goes(p, "keying") /\ KeepsCopy(p) /\ run[p].stage = KeyTurn(p)
                 /\ keyFile = "none" /\ UNCHANGED keyFile
              \/ /\ GetsToken(p, IF keyFile = Torn THEN "none" ELSE keyFile)
                 /\ run[p].stage = KeyTurn(p) /\ keyFile # "none" /\ UNCHANGED keyFile
              \/ /\ Goes(p, "writing") /\ KeepsCopy(p) /\ run[p].stage = "keying"
                 /\ keyFile' = Torn
              \/ GetsToken(p, p) /\ run[p].stage = "writing" /\ keyFile' = p
           /\ UNCHANGED <<live, listed, history, made, printed, expired, runs, mishaps>>
<1>. DEFINE new(stage) == [run[p] EXCEPT !.stage = stage]
<1>1. ASSUME NEW stage \in Stages, Become(p, new(stage))
      PROVE  Goes(p, stage) /\ KeepsCopy(p)
  <2>1. /\ new(stage) \in Runs /\ new(stage).kind = run[p].kind
        /\ new(stage).target = run[p].target /\ new(stage).stage = stage
        /\ new(stage).copy = run[p].copy /\ new(stage).todo = run[p].todo
    BY Fields DEF Runs
  <2>. HIDE DEF new
  <2>. QED BY <1>1, <2>1, Becomes DEF Goes, KeepsCopy
<1>2. /\ p \in Keys \cup {"none"}
      /\ keyFile # "none" => (IF keyFile = Torn THEN "none" ELSE keyFile) \in Keys \cup {"none"}
  BY DEF Keys, RecordsTyped
<1>3. CASE ReadKey(p)
  <2>1. CASE keyFile = "none"
    <3>1. Become(p, new("keying")) /\ run[p].stage = KeyTurn(p)
      BY <1>3, <2>1 DEF ReadKey, KeyTurn
    <3>. HIDE DEF new
    <3>. QED BY <1>1, <1>3, <2>1, <3>1 DEF ReadKey, Stages
  <2>2. CASE keyFile # "none"
    <3>1. /\ HaveToken(p, IF keyFile = Torn THEN "none" ELSE keyFile)
          /\ run[p].stage = KeyTurn(p)
          /\ UNCHANGED <<live, listed, keyFile, history, made, printed, expired, runs, mishaps>>
      BY <1>3, <2>2 DEF ReadKey, KeyTurn
    <3>2. GetsToken(p, IF keyFile = Torn THEN "none" ELSE keyFile)
      BY <1>2, <2>2, <3>1, TokenDoes, Zenon
    <3>. QED BY <2>2, <3>1, <3>2
  <2>. QED BY <2>1, <2>2
<1>4. CASE MakeKey(p)
  <2>1. Become(p, new("writing"))
    BY <1>4 DEF MakeKey, new
  <2>. HIDE DEF new
  <2>. QED BY <1>1, <1>4, <2>1 DEF MakeKey, Stages
<1>5. CASE WriteKey(p)
  <2>1. GetsToken(p, p)
    BY <1>2, <1>5, TokenDoes DEF WriteKey
  <2>. QED BY <1>5, <2>1 DEF WriteKey
<1>. QED BY <1>3, <1>4, <1>5

\* rm is told by name what to remove, or finds it in its copy of the history.
LEMMA TargetsTyped ==
    ASSUME RunsTyped, RecordsTyped, MadeOnly, NEW p \in Procs, AskedFor(p)
    PROVE  /\ TargetsOf(p, Entries) \in SUBSET SingleTargets
           /\ run[p].kind # "rm" => TargetsOf(p, Entries) = {}
           /\ \A t \in TargetsOf(p, Entries) :
                 IF run[p].target = AllTargets THEN t.id \in 1..made ELSE t = run[p].target
<1>1. Entries \subseteq 1..made /\ Entries \subseteq Made
  BY EntriesTyped
<1>2. {[id |-> id, form |-> "link"] : id \in Entries} \in SUBSET SingleTargets
  BY <1>1 DEF SingleTargets, Forms
<1>. QED BY <1>1, <1>2, Fields DEF TargetsOf, AskedFor

LEMMA NextStages ==
    ASSUME NEW kind \in {"put", "rm", "prune"}
    PROVE  NextStage[kind] \in {"uploading", "loaded", "working"}
<1>1. NextStage["put"] = "uploading" /\ NextStage["rm"] = "loaded" /\ NextStage["prune"] = "working"
  BY DEF NextStage
<1>. QED BY <1>1

LEMMA LoadDoes ==
    ASSUME RunsTyped, RecordsTyped, MadeOnly, NEW p \in Procs, AskedFor(p), Load(p)
    PROVE  /\ run[p].stage = (IF run[p].kind = "put" THEN "keyed" ELSE "starting")
           /\ UNCHANGED <<live, listed, keyFile, history, made, printed, expired, runs, mishaps>>
           /\ Goes(p, NextStage[run[p].kind]) /\ run[p].kind \in {"put", "rm", "prune"}
           /\ run'[p].copy = Entries /\ run'[p].token = run[p].token
           /\ run'[p].todo = TargetsOf(p, Entries)
<1>. DEFINE stage == NextStage[run[p].kind]
            targets == TargetsOf(p, Entries)
            new == [run[p] EXCEPT !.stage = stage, !.copy = Entries, !.todo = targets]
<1>1. /\ run[p].stage = (IF run[p].kind = "put" THEN "keyed" ELSE "starting")
      /\ UNCHANGED <<live, listed, keyFile, history, made, printed, expired, runs, mishaps>>
      /\ Become(p, new)
  BY DEF Load
<1>2. run[p].kind \in {"put", "rm", "prune"}
  BY <1>1, Fields DEF AskedFor
<1>3. stage \in Stages /\ Entries \in SUBSET Made /\ targets \in SUBSET SingleTargets
  BY <1>2, EntriesTyped, TargetsTyped DEF Stages, NextStage
<1>4. /\ new \in Runs /\ new.kind = run[p].kind /\ new.target = run[p].target
      /\ new.stage = stage /\ new.copy = Entries /\ new.token = run[p].token
      /\ new.todo = targets
  <2>. HIDE DEF stage, targets
  <2>. QED BY <1>3, Fields DEF Runs, new
<1>. HIDE DEF new
<1>. QED BY <1>1, <1>2, <1>4, Becomes DEF Goes

LEMMA UploadOneDoes ==
    ASSUME RunsTyped, RecordsTyped, NEW p \in Procs, UploadOne(p)
    PROVE  /\ run[p].kind = "put" /\ run[p].stage \in {"uploading", "working"}
           /\ Goes(p, "working") /\ run'[p].todo = run[p].todo
           /\ run'[p].copy = run[p].copy \cup {made + 1} /\ run'[p].token = run[p].token
           /\ made' = made + 1 /\ made + 1 \in Made
           /\ live' = live \cup {made + 1} /\ printed' = printed \cup {made + 1}
           /\ \/ listed' = Recorded(run[p].token, made + 1) /\ UNCHANGED mishaps
              \/ UNCHANGED listed /\ Mishap("failure")
           /\ UNCHANGED <<keyFile, history, expired, runs>>
<1>. DEFINE new == [run[p] EXCEPT !.stage = "working", !.copy = @ \cup {made + 1}]
<1>1. made' = made + 1 /\ made + 1 \in Made
  BY DEF UploadOne, RecordsTyped, Made
<1>2. /\ new \in Runs /\ new.kind = run[p].kind /\ new.target = run[p].target
      /\ new.stage = "working" /\ new.copy = run[p].copy \cup {made + 1}
      /\ new.token = run[p].token /\ new.todo = run[p].todo
  <2>1. "working" \in Stages /\ run[p].copy \cup {made + 1} \in SUBSET Made
    BY <1>1, Fields DEF Stages
  <2>. QED BY <2>1, Fields DEF Runs
<1>3. Become(p, new)
  BY <1>1 DEF UploadOne
<1>. HIDE DEF new
<1>. QED BY <1>1, <1>2, <1>3, Becomes DEF UploadOne, Putting, Goes

\* The lists lose only what is not there any more.
ListsKeepLiving ==
    /\ listed' \in [Keys -> SUBSET (Made \cup Elsewhere)]
    /\ \A key \in Keys : listed'[key] \subseteq listed[key] /\ listed[key] \cap live' \subseteq listed'[key]

LEMMA RecordedDoes ==
    ASSUME RecordsTyped, NEW token \in Keys \cup {"none"}, NEW id \in Made
    PROVE  /\ Recorded(token, id) \in [Keys -> SUBSET (Made \cup Elsewhere)]
           /\ \A key \in Keys : Recorded(token, id)[key] \subseteq listed[key] \cup {id}
           /\ token # "none" =>
                 Recorded(token, id)[token] = Newest(IndexLimit, listed[token] \cup {id})
<1>1. listed \in [Keys -> SUBSET (Made \cup Elsewhere)]
  BY DEF RecordsTyped
<1>2. CASE token = "none"
  BY <1>1, <1>2 DEF Recorded
<1>3. CASE token # "none"
  <2>1. token \in Keys
    BY <1>3
  <2>. DEFINE newest == Newest(IndexLimit, listed[token] \cup {id})
  <2>2. newest \subseteq listed[token] \cup {id} /\ newest \in SUBSET (Made \cup Elsewhere)
    BY <1>1, <2>1 DEF Newest
  <2>3. Recorded(token, id) = [listed EXCEPT ![token] = newest]
    BY <1>3 DEF Recorded
  <2>. HIDE DEF newest
  <2>. QED BY <1>1, <2>1, <2>2, <2>3 DEF newest
<1>. QED BY <1>2, <1>3

LEMMA FetchIndexDoes ==
    ASSUME RunsTyped, RecordsTyped, NEW p \in Procs, NEW target, FetchIndex(p, target)
    PROVE  /\ run[p].stage = "working" /\ Goes(p, "working") /\ KeepsCopy(p)
           /\ run'[p].token = run[p].token
           /\ UNCHANGED mishaps \/ Mishap("failure")
           /\ ListsKeepLiving
           /\ UNCHANGED <<live, keyFile, history, made, printed, expired, runs>>
<1>. DEFINE new(index) == [run[p] EXCEPT !.index = index]
            token == run[p].token
            fetched == IF token = "none" THEN {} ELSE listed[token] \cap live
<1>1. /\ fetched \in SUBSET (Made \cup Elsewhere)
      /\ token # "none" => token \in Keys
  BY Fields DEF RecordsTyped
<1>2. PICK index \in SUBSET (Made \cup Elsewhere) : Become(p, new(index))
  BY <1>1 DEF FetchIndex
<1>3. /\ new(index) \in Runs /\ new(index).kind = run[p].kind
      /\ new(index).target = run[p].target /\ new(index).stage = run[p].stage
      /\ new(index).copy = run[p].copy /\ new(index).token = run[p].token
      /\ new(index).todo = run[p].todo
  BY Fields DEF Runs
<1>4. ListsKeepLiving
  <2>1. UNCHANGED live
    BY DEF FetchIndex
  <2>2. CASE UNCHANGED listed
    BY <2>1, <2>2 DEF ListsKeepLiving, RecordsTyped
  <2>3. CASE token # "none" /\ listed' = [listed EXCEPT ![token] = @ \cap live]
    BY <1>1, <2>1, <2>3 DEF ListsKeepLiving, RecordsTyped
  <2>. QED BY <2>2, <2>3 DEF FetchIndex
<1>5. /\ run[p].stage = "working" /\ (UNCHANGED mishaps \/ Mishap("failure"))
      /\ UNCHANGED <<live, keyFile, history, made, printed, expired, runs>>
  BY DEF FetchIndex
<1>. HIDE DEF new, fetched, token
<1>. QED BY <1>2, <1>3, <1>4, <1>5, Becomes DEF Goes, KeepsCopy

LEMMA DeleteDoes ==
    ASSUME RunsTyped, RecordsTyped, NEW p \in Procs, NEW target, Delete(p, target)
    PROVE  /\ run[p].stage = "working" /\ target \in run[p].todo
           /\ Goes(p, "working") /\ run'[p].token = run[p].token
           /\ run'[p].todo \subseteq run[p].todo
           /\ \/ /\ live' = live \ {target.id} /\ UNCHANGED mishaps
                 /\ run'[p].copy \subseteq run[p].copy
                 /\ run[p].copy \ {target.id} \subseteq run'[p].copy
              \/ /\ UNCHANGED live /\ (UNCHANGED mishaps \/ Mishap("failure"))
                 /\ run'[p].copy = run[p].copy
           /\ ListsKeepLiving
           /\ UNCHANGED <<keyFile, history, made, printed, expired, runs>>
<1>. DEFINE found == IF InHistory(p, target) THEN {target.id} ELSE {}
            left == [run[p] EXCEPT !.todo = @ \ {target}]
            new == [left EXCEPT !.copy = @ \ found]
            forgotten == [key \in Keys |-> listed[key] \ {target.id}]
<1>1. /\ run[p].stage = "working" /\ target \in run[p].todo
      /\ UNCHANGED <<keyFile, history, made, printed, expired, runs>>
      /\ \/ /\ live' = live \ {target.id} /\ UNCHANGED mishaps /\ Become(p, new)
            /\ listed' = listed \/ listed' = forgotten
         \/ /\ UNCHANGED live /\ (UNCHANGED mishaps \/ Mishap("failure")) /\ Become(p, left)
            /\ listed' = listed
  BY DEF Delete
<1>2. /\ left \in Runs /\ left.kind = run[p].kind /\ left.target = run[p].target
      /\ left.stage = run[p].stage /\ left.copy = run[p].copy /\ left.token = run[p].token
      /\ left.todo = run[p].todo \ {target}
  BY Fields DEF Runs
<1>. HIDE DEF left
<1>3. /\ new \in Runs /\ new.kind = left.kind /\ new.target = left.target
      /\ new.stage = left.stage /\ new.copy = left.copy \ found /\ new.token = left.token
      /\ new.todo = left.todo
  <2>. HIDE DEF found
  <2>1. left.copy \ found \in SUBSET Made
    BY <1>2, Fields
  <2>. QED BY <1>2, <2>1 DEF Runs
<1>4. left.copy \ found \subseteq left.copy /\ left.copy \ {target.id} \subseteq left.copy \ found
  OBVIOUS
<1>5. /\ listed \in [Keys -> SUBSET (Made \cup Elsewhere)]
      /\ forgotten \in [Keys -> SUBSET (Made \cup Elsewhere)]
      /\ \A key \in Keys : forgotten[key] = listed[key] \ {target.id}
  BY DEF RecordsTyped
<1>. HIDE DEF new, found, forgotten
<1>6. ListsKeepLiving
  BY <1>1, <1>5 DEF ListsKeepLiving
<1>7. CASE live' = live \ {target.id} /\ UNCHANGED mishaps /\ Become(p, new)
  BY <1>1, <1>2, <1>3, <1>4, <1>6, <1>7, Becomes DEF Goes
<1>8. CASE UNCHANGED live /\ (UNCHANGED mishaps \/ Mishap("failure")) /\ Become(p, left)
  BY <1>1, <1>2, <1>6, <1>8, Becomes DEF Goes
<1>. QED BY <1>1, <1>7, <1>8

LEMMA SaveDoes ==
    ASSUME RunsTyped, NEW p \in Procs, Save(p)
    PROVE  /\ run[p].stage = "working" /\ run[p].todo = {}
           /\ Goes(p, "saving") /\ run'[p].todo = {} /\ run'[p].token = run[p].token
           /\ run'[p].copy \subseteq run[p].copy /\ run[p].copy \ expired \subseteq run'[p].copy
           /\ history' = Torn
           /\ UNCHANGED <<live, listed, keyFile, made, printed, expired, runs, mishaps>>
<1>. DEFINE copy == IF run[p].kind = "prune" THEN run[p].copy \ expired ELSE run[p].copy
            new == [run[p] EXCEPT !.stage = "saving",
                                  !.copy = IF run[p].kind = "prune" THEN @ \ expired ELSE @]
<1>1. /\ copy \in SUBSET Made /\ copy \subseteq run[p].copy
      /\ run[p].copy \ expired \subseteq copy /\ "saving" \in Stages
  BY Fields DEF Stages
<1>2. /\ new \in Runs /\ new.kind = run[p].kind /\ new.target = run[p].target
      /\ new.stage = "saving" /\ new.copy = copy /\ new.token = run[p].token
      /\ new.todo = run[p].todo
  BY <1>1, Fields DEF Runs
<1>3. Become(p, new)
  BY DEF Save
<1>. HIDE DEF new, copy
<1>. QED BY <1>1, <1>2, <1>3, Becomes DEF Save, Goes

LEMMA EndDoes ==
    ASSUME RunsTyped, NEW p \in Procs, WriteHistory(p) \/ UploadFails(p) \/ Kill(p)
    PROVE  /\ Ends(p) /\ run[p].stage # "idle"
           /\ \/ /\ WriteHistory(p) /\ run[p].stage = "saving" /\ UNCHANGED mishaps
                 /\ history' = Newest(HistoryLimit, run[p].copy)
              \/ Mishap("failure") /\ UNCHANGED history
           /\ UNCHANGED <<live, listed, keyFile, made, printed, expired, runs>>
<1>1. Stop(p)
  BY DEF WriteHistory, UploadFails, Kill
<1>. QED BY <1>1, StopEnds DEF WriteHistory, UploadFails, Kill, Saved, Putting

LEMMA CountsMishaps ==
    ASSUME NEW p \in Procs, RecordStep(p)
    PROVE  UNCHANGED mishaps \/ Trouble
<1>1. ASSUME NEW kind, NEW target, Begin(p, kind, target) PROVE UNCHANGED mishaps \/ Trouble
  BY <1>1 DEF Begin, Trouble, Troubles
<1>2. CASE UploadOne(p) \/ UploadFails(p) \/ Kill(p)
  BY <1>2, Zenon DEF UploadOne, UploadFails, Kill, Trouble, Troubles
<1>3. ASSUME NEW target, FetchIndex(p, target) \/ Delete(p, target)
      PROVE  UNCHANGED mishaps \/ Trouble
  BY <1>3, Zenon DEF FetchIndex, Delete, Trouble, Troubles
<1>4. CASE ReadKey(p) \/ MakeKey(p) \/ WriteKey(p) \/ Load(p) \/ Save(p) \/ WriteHistory(p)
  BY <1>4 DEF ReadKey, MakeKey, WriteKey, Load, Save, WriteHistory
<1>. QED BY <1>1, <1>2, <1>3, <1>4 DEF RecordStep

-------------------------------------------------------------------------------
(* What is kept about the records *)

LEMMA RecordsInvInit == Init => RecordsInv
<1>. SUFFICES ASSUME Init PROVE RecordsInv
  OBVIOUS
<1>1. RunsTyped /\ \A p \in Procs : run[p] = NoRun
  BY NoRunTyped DEF Init, RecordsInit, RunsTyped
<1>2. \A p \in Procs : AskedFor(p)
  BY <1>1, NoRunTyped DEF AskedFor
<1>3. PICK plan \in Plans :
         /\ live = plan.offers \cup Elsewhere /\ runs = plan.runs
         /\ mishaps = [left |-> plan.mishaps, seen |-> {}]
  BY DEF Init
<1>4. plan.offers \subseteq DOMAIN Offers /\ plan.runs \in Nat /\ plan.mishaps \in Nat
  BY PlanAssumption
<1>5. 1..made = {} /\ made \in 0..MaxMade /\ printed = 1..made
  BY DEF Init, RecordsInit
<1>6. RecordsTyped
  <2>1. keyFile \in {"none", Torn} \cup Keys
    BY DEF Init, RecordsInit, Keys
  <2>2. listed \in [Keys -> SUBSET (Made \cup Elsewhere)]
    BY DEF Init, RecordsInit
  <2>3. mishaps \in [left : Nat, seen : SUBSET Troubles]
    BY <1>3, <1>4 DEF Init
  <2>. QED BY <1>3, <1>4, <1>5, <2>1, <2>2, <2>3 DEF Init, RecordsInit, RecordsTyped, Ids
<1>7. MadeOnly
  <2>1. ASSUME NEW key \in Keys PROVE listed[key] \cap Made = {}
    BY DEF Init, RecordsInit, Made
  <2>. QED BY <1>1, <1>3, <1>4, <1>5, <2>1, NoRunTyped DEF Init, RecordsInit, MadeOnly, Made
<1>. QED BY <1>1, <1>2, <1>6, <1>7 DEF RecordsInv

\* The steps that make no upload and remove none: only the run, the files and
\* the bounds change.
LEMMA KeepsRecords ==
    ASSUME RecordsInv, RunsTyped', NEW p \in Procs,
           \A q \in Procs \ {p} : run'[q] = run[q],
           live' \subseteq live, UNCHANGED <<made, printed, expired>>,
           ListsKeepLiving \/ UNCHANGED listed,
           keyFile' \in {"none", Torn} \cup Keys,
           history' \in {history, Torn} \/ history' \in SUBSET (1..made),
           runs' \in Nat, mishaps' \in [left : Nat, seen : SUBSET Troubles],
           run'[p].copy \subseteq 1..made, AskedFor(p)'
    PROVE  RecordsInv'
<1>1. 1..made \subseteq Made
  BY DEF RecordsInv, RecordsTyped, Made
<1>2. RecordsTyped'
  <2>1. history' \in (SUBSET Made) \cup {Torn}
    BY <1>1 DEF RecordsInv, RecordsTyped
  <2>2. listed' \in [Keys -> SUBSET (Made \cup Elsewhere)]
    BY DEF RecordsInv, RecordsTyped, ListsKeepLiving
  <2>. QED BY <2>1, <2>2 DEF RecordsInv, RecordsTyped
<1>3. MadeOnly'
  <2>1. ASSUME NEW q \in Procs PROVE run'[q].copy \subseteq 1..made
    BY DEF RecordsInv, MadeOnly
  <2>2. ASSUME NEW key \in Keys PROVE listed'[key] \cap Made \subseteq 1..made
    BY DEF RecordsInv, MadeOnly, ListsKeepLiving
  <2>. QED BY <2>1, <2>2 DEF RecordsInv, MadeOnly
<1>4. ASSUME NEW q \in Procs PROVE AskedFor(q)'
  <2>1. CASE q = p
    BY <2>1
  <2>2. CASE q # p
    BY <2>2 DEF RecordsInv, AskedFor
  <2>. QED BY <2>1, <2>2
<1>. QED BY <1>2, <1>3, <1>4 DEF RecordsInv

LEMMA MishapCounts ==
    ASSUME RecordsTyped, UNCHANGED mishaps \/ Trouble
    PROVE  mishaps' \in [left : Nat, seen : SUBSET Troubles]
<1>1. mishaps \in [left : Nat, seen : SUBSET Troubles]
  BY DEF RecordsTyped
<1>2. ASSUME NEW what \in Troubles, Mishap(what)
      PROVE  mishaps' \in [left : Nat, seen : SUBSET Troubles]
  <2>1. mishaps.left > 0 /\ mishaps.left \in Nat /\ mishaps.seen \cup {what} \in SUBSET Troubles
    BY <1>1, <1>2 DEF Mishap
  <2>2. mishaps' = [left |-> mishaps.left - 1, seen |-> mishaps.seen \cup {what}]
    BY <1>2 DEF Mishap
  <2>. QED BY <2>1, <2>2
<1>. QED BY <1>1, <1>2 DEF Trouble

LEMMA FailureIsTrouble == Mishap("failure") => Trouble
BY Zenon DEF Trouble, Troubles

\* A run that goes on with what it was asked.
LEMMA GoesOn ==
    ASSUME RecordsInv, NEW p \in Procs, NEW stage, Goes(p, stage),
           run[p].stage # "idle", UNCHANGED made, run'[p].todo \subseteq run[p].todo
    PROVE  AskedFor(p)'
<1>1. AskedFor(p)
  BY DEF RecordsInv
<1>. QED BY <1>1, Fields DEF AskedFor, Goes

LEMMA EndIsAsked == ASSUME NEW p \in Procs, Ends(p) PROVE AskedFor(p)' /\ run'[p].copy = {}
BY NoRunTyped DEF AskedFor, Ends

LEMMA TokenIsAsked ==
    ASSUME RecordsInv, NEW p \in Procs, NEW token, GetsToken(p, token),
           run[p].stage # "idle", UNCHANGED made
    PROVE  /\ RunsTyped' /\ \A q \in Procs \ {p} : run'[q] = run[q]
           /\ AskedFor(p)' /\ run'[p].copy \subseteq 1..made
<1>1. CASE Ends(p)
  BY <1>1, EndIsAsked DEF Ends
<1>2. CASE /\ Goes(p, IF run[p].kind = "put" THEN "keyed" ELSE "working") /\ KeepsCopy(p)
  BY <1>2, GoesOn DEF Goes, KeepsCopy, RecordsInv, MadeOnly
<1>. QED BY <1>1, <1>2 DEF GetsToken

LEMMA RecordsInvStep ==
    ASSUME RecordsInv, NEW p \in Procs, RecordStep(p)
    PROVE  RecordsInv'
<1>. USE DEF RecordsInv
<1>0. /\ AskedFor(p) /\ run[p].copy \subseteq 1..made
      /\ history \in (SUBSET Made) \cup {Torn} /\ keyFile \in {"none", Torn} \cup Keys
      /\ runs \in Nat /\ mishaps \in [left : Nat, seen : SUBSET Troubles]
      /\ mishaps' \in [left : Nat, seen : SUBSET Troubles]
  BY CountsMishaps, MishapCounts DEF RecordsTyped, MadeOnly
<1>1. ASSUME NEW kind \in {"put", "rm", "prune"}, NEW target \in {NoTarget} \cup Removable,
             Begin(p, kind, target), kind = "rm" => target \in Removable
      PROVE  RecordsInv'
  <2>1. runs' \in Nat
    <3>1. runs > 0 /\ runs' = runs - 1
      BY <1>1 DEF Begin
    <3>. QED BY <1>0, <3>1
  <2>2. AskedFor(p)'
    BY <1>1, BeginDoes DEF AskedFor, Removable
  <2>. QED BY <1>0, <1>1, <2>1, <2>2, BeginDoes, KeepsRecords
<1>2. CASE ReadKey(p) \/ MakeKey(p) \/ WriteKey(p)
  <2>1. /\ \/ \E stage : Goes(p, stage) /\ KeepsCopy(p)
           \/ \E token : GetsToken(p, token)
        /\ run[p].stage # "idle" /\ keyFile' \in {keyFile, Torn, p}
        /\ UNCHANGED <<live, listed, history, made, printed, expired, runs, mishaps>>
    BY <1>2, KeyDoes DEF KeyTurn
  <2>2. /\ RunsTyped' /\ \A q \in Procs \ {p} : run'[q] = run[q]
        /\ AskedFor(p)' /\ run'[p].copy \subseteq 1..made
    <3>1. ASSUME NEW stage, Goes(p, stage), KeepsCopy(p)
          PROVE  /\ RunsTyped' /\ \A q \in Procs \ {p} : run'[q] = run[q]
                 /\ AskedFor(p)' /\ run'[p].copy \subseteq 1..made
      BY <1>0, <2>1, <3>1, GoesOn DEF Goes, KeepsCopy
    <3>. QED BY <2>1, <3>1, TokenIsAsked
  <2>3. keyFile' \in {"none", Torn} \cup Keys
    BY <1>0, <2>1 DEF Keys
  <2>. QED BY <1>0, <2>1, <2>2, <2>3, KeepsRecords
<1>3. CASE Load(p)
  <2>1. /\ Goes(p, NextStage[run[p].kind]) /\ run[p].stage # "idle"
        /\ run'[p].copy = Entries /\ run'[p].todo = TargetsOf(p, Entries)
    BY <1>0, <1>3, LoadDoes
  <2>2. AskedFor(p)'
    BY <1>0, <1>3, <2>1, LoadDoes, TargetsTyped DEF AskedFor, Goes
  <2>. QED BY <1>0, <1>3, <2>1, <2>2, LoadDoes, EntriesTyped, KeepsRecords DEF Goes
<1>4. CASE UploadOne(p)
  <2>1. /\ Goes(p, "working") /\ run'[p].todo = run[p].todo /\ run[p].kind = "put"
        /\ run'[p].copy = run[p].copy \cup {made + 1}
        /\ made' = made + 1 /\ made + 1 \in Made
        /\ live' = live \cup {made + 1} /\ printed' = printed \cup {made + 1}
        /\ listed' = listed \/ listed' = Recorded(run[p].token, made + 1)
        /\ UNCHANGED <<keyFile, history, expired, runs>>
    BY <1>4, UploadOneDoes
  <2>2. /\ made \in 0..MaxMade /\ made' \in 0..MaxMade /\ 1..made' = 1..made \cup {made + 1}
        /\ made + 1 \notin 1..made
    BY <2>1 DEF RecordsTyped, Made
  <2>3. /\ listed' \in [Keys -> SUBSET (Made \cup Elsewhere)]
        /\ \A key \in Keys : listed'[key] \subseteq listed[key] \cup {made + 1}
    <3>1. CASE listed' = listed
      BY <3>1 DEF RecordsTyped
    <3>2. CASE listed' = Recorded(run[p].token, made + 1)
      <4>1. run[p].token \in Keys \cup {"none"}
        BY Fields
      <4>. QED BY <2>1, <3>2, <4>1, RecordedDoes
    <3>. QED BY <2>1, <3>1, <3>2
  <2>4. RecordsTyped'
    BY <1>0, <2>1, <2>2, <2>3 DEF RecordsTyped, Ids
  <2>5. MadeOnly'
    <3>1. ASSUME NEW q \in Procs PROVE run'[q].copy \subseteq 1..made'
      BY <2>1, <2>2 DEF MadeOnly, Goes
    <3>2. ASSUME NEW key \in Keys PROVE listed'[key] \cap Made \subseteq 1..made'
      BY <2>2, <2>3 DEF MadeOnly
    <3>. QED BY <3>1, <3>2, <2>1, <2>2 DEF MadeOnly
  <2>6. ASSUME NEW q \in Procs PROVE AskedFor(q)'
    <3>1. CASE q = p
      BY <1>0, <2>1, <3>1 DEF AskedFor, Goes
    <3>2. CASE q # p
      BY <2>1, <2>2, <3>2 DEF AskedFor, Goes
    <3>. QED BY <3>1, <3>2
  <2>. QED BY <2>1, <2>4, <2>5, <2>6 DEF Goes
<1>5. ASSUME NEW target \in SingleTargets, FetchIndex(p, target) PROVE RecordsInv'
  BY <1>0, <1>5, FetchIndexDoes, GoesOn, KeepsRecords DEF Goes, KeepsCopy
<1>6. ASSUME NEW target \in SingleTargets, Delete(p, target) PROVE RecordsInv'
  <2>1. /\ Goes(p, "working") /\ run'[p].todo \subseteq run[p].todo
        /\ run[p].stage = "working"
        /\ run'[p].copy \subseteq run[p].copy /\ live' \subseteq live
        /\ ListsKeepLiving
        /\ UNCHANGED <<keyFile, history, made, printed, expired, runs>>
    BY <1>6, DeleteDoes
  <2>2. AskedFor(p)'
    BY <2>1, GoesOn
  <2>. QED BY <1>0, <2>1, <2>2, KeepsRecords DEF Goes
<1>7. CASE Save(p)
  BY <1>0, <1>7, SaveDoes, GoesOn, KeepsRecords DEF Goes
<1>8. CASE WriteHistory(p) \/ UploadFails(p) \/ Kill(p)
  <2>1. /\ Ends(p) /\ UNCHANGED <<live, listed, keyFile, made, printed, expired, runs>>
        /\ history' \in {history, Newest(HistoryLimit, run[p].copy)}
    BY <1>8, EndDoes
  <2>2. Newest(HistoryLimit, run[p].copy) \in SUBSET (1..made)
    BY <1>0 DEF Newest
  <2>. QED BY <1>0, <2>1, <2>2, EndIsAsked, KeepsRecords DEF Ends
<1>. QED BY <1>1, <1>2, <1>3, <1>4, <1>5, <1>6, <1>7, <1>8 DEF RecordStep

LEMMA ExpireKeepsRecords ==
    ASSUME RecordsInv, NEW id \in live, Expire(id)
    PROVE  RecordsInv'
BY DEF RecordsInv, RunsTyped, RecordsTyped, MadeOnly, AskedFor, Expire

LEMMA RecordsInvInductive == RecordsInv /\ [Next]_vars => RecordsInv'
<1>. SUFFICES ASSUME RecordsInv, [Next]_vars PROVE RecordsInv'
  OBVIOUS
<1>1. ASSUME UNCHANGED <<live, recordVars>> PROVE RecordsInv'
  BY <1>1 DEF recordVars, RecordsInv, RunsTyped, RecordsTyped, MadeOnly, AskedFor
<1>2. CASE UNCHANGED vars
  BY <1>1, <1>2 DEF vars
<1>3. CASE Next
  BY <1>1, <1>3, Steps, TransfersLeaveUploads, RecordsInvStep, ExpireKeepsRecords
<1>. QED BY <1>2, <1>3

LEMMA RecordsInvAlways == Spec => []RecordsInv
BY RecordsInvInit, RecordsInvInductive, PTL DEF Spec

\* Nothing this machine does not know by name is ever deleted: an upload goes
\* when its time has passed, or because a run of rm was given it, or was given
\* --all and this machine made it.
THEOREM OnlyAskedIsDeleted == Spec => DeletesOnlyAsked
<1>1. ASSUME RecordsInv, [Next]_vars
      PROVE  [\A id \in live \ live' : id \in expired' \/ \E p \in Procs : Asked(p, id)]_live
  <2>1. ASSUME NEW p \in Procs, RecordStep(p), NEW id \in live \ live'
        PROVE  Asked(p, id)
    <3>0. RunsTyped /\ RecordsTyped /\ MadeOnly /\ AskedFor(p)
      BY <1>1 DEF RecordsInv
    <3>1. PICK target \in SingleTargets : Delete(p, target)
      <4>. SUFFICES ASSUME \A target \in SingleTargets : ~Delete(p, target) PROVE FALSE
        OBVIOUS
      <4>. QED BY <2>1, <3>0 DEF RecordStep, Begin, ReadKey, MakeKey, WriteKey, Load, UploadOne,
                 UploadFails, FetchIndex, Save, WriteHistory, Kill
    <3>2. target \in run[p].todo /\ id = target.id
      BY <2>1, <3>0, <3>1, DeleteDoes
    <3>. QED BY <3>0, <3>2 DEF AskedFor, Asked
  <2>2. ASSUME NEW i \in live, Expire(i), NEW id \in live \ live'
        PROVE  id \in expired'
    BY <2>2 DEF Expire
  <2>. QED BY <1>1, <2>1, <2>2, Steps, TransfersLeaveUploads DEF vars
<1>. QED BY <1>1, RecordsInvAlways, PTL DEF Spec, DeletesOnlyAsked

-------------------------------------------------------------------------------
(* Two ways to an upload.  A mishap may close one of them, and which one is *)
(* known: an upload the server could not record, or a key left torn, costs  *)
(* the list; anything else costs the history.                               *)

AtMostOneRun ==
    \A p, q \in Procs : run[p].stage # "idle" /\ run[q].stage # "idle" => p = q

\* The server lists the newest uploads under the token of the key on file, which is
\* there as soon as there is an upload, and which every put uses.
HasToken(p) == run[p].kind = "put" /\ run[p].stage \in {"keyed", "uploading", "working"}
Listed ==
    /\ \A id \in Newest(IndexLimit, 1..made) \cap live : keyFile \in Keys /\ id \in listed[keyFile]
    /\ keyFile \notin Keys => made = 0 /\ AtMostOneRun
    /\ keyFile = Torn => \E p \in Procs : run[p].stage = "writing"
    /\ \A p \in Procs : /\ run[p].stage = "keying" => keyFile = "none"
                        /\ run[p].stage = "writing" => keyFile = Torn
                        /\ HasToken(p) => keyFile \in Keys /\ run[p].token = keyFile

\* history.json names the uploads it has room for, unless the one run there is
\* is about to write them.
HasCopy(p) ==
    \/ run[p].stage \in {"loaded", "uploading", "working", "saving"}
    \/ run[p].stage \in {"keying", "writing"} /\ run[p].kind # "put"
InHand(p, id) == HasCopy(p) => id \in run[p].copy
OnRecord(id) == id \in Entries \/ \E p \in Procs : run[p].stage \in {"working", "saving"}
Kept ==
    /\ AtMostOneRun
    /\ \A id \in Newest(HistoryLimit, 1..made) \cap live : OnRecord(id) /\ \A p \in Procs : InHand(p, id)

OneWayLeft ==
    /\ mishaps.left <= 1 /\ (mishaps.seen # {} => mishaps.left = 0)
    /\ mishaps.seen = {} => Listed /\ Kept
    /\ "first runs" \notin mishaps.seen => Listed \/ Kept

\* What is among the newest of more is among the newest.
LEMMA NewestShrinks ==
    ASSUME NEW A \in SUBSET (Made \cup Elsewhere), NEW B \in SUBSET Made,
           A \cap Made \subseteq B, NEW limit \in Nat, NEW more \in Nat, limit <= more,
           NEW id \in Newest(limit, B)
    PROVE  Cardinality({n \in A : n > id}) < more /\ (id \in A => id \in Newest(more, A))
<1>. DEFINE above(S) == {n \in S : n > id}
<1>1. IsFiniteSet(Made)
  BY FS_Interval DEF Made
<1>2. id \in B /\ Cardinality(above(B)) < limit
  BY DEF Newest
<1>3. above(A) \subseteq above(B) /\ above(B) \subseteq Made
  <2>1. id \in Int /\ id >= 1
    BY <1>2 DEF Made
  <2>2. ASSUME NEW n \in A, n > id PROVE n \in B
    <3>1. n \notin Elsewhere
      <4>1. ASSUME n \in Elsewhere PROVE n \in Int /\ n < 1
        BY <4>1, RecordsAssumption
      <4>. QED BY <2>1, <2>2, <4>1
    <3>. QED BY <3>1
  <2>. QED BY <2>2
<1>. HIDE DEF above
<1>4. IsFiniteSet(above(B))
  BY <1>1, <1>3, FS_Subset
<1>5. /\ Cardinality(above(A)) <= Cardinality(above(B))
      /\ Cardinality(above(A)) \in Nat /\ Cardinality(above(B)) \in Nat
  BY <1>3, <1>4, FS_Subset, FS_CardinalityType
<1>6. Cardinality(above(A)) < more
  BY <1>2, <1>5
<1>. QED BY <1>6 DEF above, Newest

\* One more upload: the newest are it, and such as were among the newest before.
LEMMA NewestAfterOne ==
    ASSUME made \in 0..MaxMade, made + 1 \in Made, NEW limit \in Nat,
           NEW id \in Newest(limit, 1..(made + 1)), id # made + 1
    PROVE  id \in Newest(limit, 1..made)
<1>1. 1..made \in SUBSET Made /\ 1..(made + 1) \in SUBSET Made /\ 1..made \subseteq 1..(made + 1)
  BY DEF Made
<1>2. id \in 1..made
  <2>1. id \in 1..(made + 1)
    BY DEF Newest
  <2>. QED BY <2>1
<1>3. 1..made \in SUBSET (Made \cup Elsewhere) /\ 1..made \cap Made \subseteq 1..(made + 1)
  BY <1>1
<1>4. limit <= limit
  OBVIOUS
<1>. QED BY <1>1, <1>2, <1>3, <1>4, NewestShrinks

LEMMA EndsIdle == ASSUME NEW p \in Procs, Ends(p)
                  PROVE  run'[p].stage = "idle" /\ run'[p].kind = "none"
BY NoRunTyped DEF Ends

\* Runs that do not begin keep to themselves.
LEMMA StillOneRun ==
    ASSUME AtMostOneRun, NEW p \in Procs, run[p].stage # "idle",
           \A q \in Procs \ {p} : run'[q] = run[q]
    PROVE  AtMostOneRun'
BY DEF AtMostOneRun

LEMMA StillOneBegun ==
    ASSUME Running = {}, NEW p \in Procs, \A q \in Procs \ {p} : run'[q] = run[q]
    PROVE  AtMostOneRun'
BY DEF AtMostOneRun, Running

LEMMA BeginsAlone ==
    ASSUME NEW p \in Procs, NEW kind, NEW target, Begin(p, kind, target)
    PROVE  \/ Running = {} /\ UNCHANGED mishaps
           \/ keyFile \in Keys /\ Mishap("overlap")
           \/ Mishap("first runs")
BY DEF Begin

\* What costs the list: an upload that the server could not record, and the end
\* of the run that was writing the key.
CostsTheList(p) == Trouble /\ (UploadOne(p) \/ run[p].stage = "writing")

\* Steps that leave the key and what was made alone, and on the lists what is there.
LEMMA ListStands ==
    ASSUME Listed, NEW p \in Procs, \A q \in Procs \ {p} : run'[q] = run[q],
           UNCHANGED <<made, keyFile>>, live' \subseteq live,
           UNCHANGED listed \/ ListsKeepLiving,
           keyFile \notin Keys => AtMostOneRun',
           run[p].stage # "writing", run'[p].stage # "writing",
           run'[p].stage = "keying" => keyFile = "none",
           HasToken(p)' => keyFile \in Keys /\ run'[p].token = keyFile
    PROVE  Listed'
<1>1. keyFile = Torn => \E q \in Procs : run'[q].stage = "writing"
  BY DEF Listed
<1>2. ASSUME NEW q \in Procs
      PROVE  /\ run'[q].stage = "keying" => keyFile = "none"
             /\ run'[q].stage = "writing" => keyFile = Torn
             /\ HasToken(q)' => keyFile \in Keys /\ run'[q].token = keyFile
  <2>1. CASE q = p
    BY <2>1
  <2>2. CASE q # p
    BY <2>2 DEF Listed, HasToken
  <2>. QED BY <2>1, <2>2
<1>3. UNCHANGED Newest(IndexLimit, 1..made)
  BY DEF Newest
<1>4. ASSUME NEW id \in Newest(IndexLimit, 1..made) \cap live'
      PROVE  keyFile \in Keys /\ id \in listed'[keyFile]
  <2>1. keyFile \in Keys /\ id \in listed[keyFile]
    BY DEF Listed
  <2>. QED BY <2>1 DEF ListsKeepLiving
<1>. QED BY <1>1, <1>2, <1>3, <1>4 DEF Listed

\* The one run of all makes the key.
LEMMA KeyIsListed ==
    ASSUME RecordsInv, Listed, NEW p \in Procs, ReadKey(p) \/ MakeKey(p) \/ WriteKey(p)
    PROVE  Listed'
<1>. USE DEF RecordsInv
<1>0. /\ Torn \notin Keys /\ "none" \notin Keys /\ Torn # "none" /\ p \in Keys
      /\ keyFile \in {"none", Torn} \cup Keys
      /\ keyFile \notin Keys => AtMostOneRun /\ made = 0
  BY DEF Listed, RecordsTyped, Keys
<1>1. UNCHANGED <<live, listed, made>>
  BY KeyDoes
<1>2. Newest(IndexLimit, 1..made) = {} \/ made # 0
  BY DEF Newest
<1>3. CASE Goes(p, "keying") /\ run[p].stage = KeyTurn(p) /\ keyFile = "none" /\ UNCHANGED keyFile
  <2>1. AtMostOneRun'
    BY <1>0, <1>3, StillOneRun DEF Goes, KeyTurn
  <2>. QED BY <1>0, <1>1, <1>3, <2>1, ListStands DEF Goes, KeyTurn, HasToken
<1>4. CASE /\ GetsToken(p, IF keyFile = Torn THEN "none" ELSE keyFile)
           /\ run[p].stage = KeyTurn(p) /\ keyFile # "none" /\ UNCHANGED keyFile
  <2>1. keyFile # Torn
    BY <1>0, <1>4 DEF Listed, AtMostOneRun, KeyTurn
  <2>2. keyFile \in Keys /\ GetsToken(p, keyFile)
    BY <1>0, <1>4, <2>1
  <2>3. /\ \A q \in Procs \ {p} : run'[q] = run[q]
        /\ run'[p].stage \notin {"writing", "keying"}
        /\ HasToken(p)' => run'[p].token = keyFile
    BY <2>2, EndsIdle DEF GetsToken, Goes, Ends, HasToken
  <2>4. run[p].stage # "writing"
    BY <1>4 DEF KeyTurn
  <2>. QED BY <1>1, <1>4, <2>2, <2>3, <2>4, ListStands
<1>5. CASE Goes(p, "writing") /\ run[p].stage = "keying" /\ keyFile' = Torn
  <2>1. keyFile = "none" /\ made = 0 /\ AtMostOneRun
    BY <1>0, <1>5 DEF Listed
  <2>2. AtMostOneRun'
    BY <1>5, <2>1, StillOneRun DEF Goes
  <2>3. ASSUME NEW q \in Procs PROVE run'[q].stage # "keying" /\ ~HasToken(q)'
    BY <1>5, <2>1 DEF AtMostOneRun, Goes, HasToken
  <2>4. Newest(IndexLimit, 1..made) = {} /\ UNCHANGED Newest(IndexLimit, 1..made)
    BY <1>1, <2>1 DEF Newest
  <2>. QED BY <1>0, <1>1, <1>5, <2>1, <2>2, <2>3, <2>4 DEF Listed, Goes
<1>6. CASE GetsToken(p, p) /\ run[p].stage = "writing" /\ keyFile' = p
  <2>1. keyFile = Torn /\ made = 0 /\ AtMostOneRun
    BY <1>0, <1>6 DEF Listed
  <2>2. \A q \in Procs \ {p} : run'[q] = run[q] /\ run[q].stage = "idle"
    BY <1>6, <2>1 DEF AtMostOneRun, GetsToken, Goes, Ends
  <2>3. ASSUME NEW q \in Procs
        PROVE  run'[q].stage \notin {"keying", "writing"} /\ (HasToken(q)' => run'[q].token = p)
    BY <1>6, <2>2, EndsIdle DEF GetsToken, Goes, HasToken
  <2>4. Newest(IndexLimit, 1..made) = {} /\ UNCHANGED Newest(IndexLimit, 1..made)
    BY <1>1, <2>1 DEF Newest
  <2>. QED BY <1>0, <1>1, <1>6, <2>1, <2>3, <2>4 DEF Listed
<1>. QED BY <1>3, <1>4, <1>5, <1>6, KeyDoes

LEMMA UploadIsListed ==
    ASSUME RecordsInv, Listed, NEW p \in Procs, UploadOne(p), ~Trouble
    PROVE  Listed'
<1>. USE DEF RecordsInv
<1>1. /\ run[p].kind = "put" /\ run[p].stage \in {"uploading", "working"}
      /\ Goes(p, "working") /\ run'[p].token = run[p].token
      /\ made' = made + 1 /\ made + 1 \in Made /\ live' = live \cup {made + 1}
      /\ UNCHANGED keyFile
      /\ listed' = Recorded(run[p].token, made + 1)
  BY UploadOneDoes, FailureIsTrouble
<1>2. keyFile \in Keys /\ run[p].token = keyFile /\ keyFile # "none" /\ keyFile # Torn
  BY <1>1 DEF Listed, HasToken
<1>3. listed'[keyFile] = Newest(IndexLimit, listed[keyFile] \cup {made + 1})
  BY <1>1, <1>2, RecordedDoes
<1>4. /\ made \in 0..MaxMade /\ 1..made' \in SUBSET Made /\ 1..made' = 1..(made + 1)
      /\ IndexLimit \in Nat
  BY <1>1 DEF RecordsTyped, Made
<1>5. /\ listed[keyFile] \cup {made + 1} \in SUBSET (Made \cup Elsewhere)
      /\ (listed[keyFile] \cup {made + 1}) \cap Made \subseteq 1..made'
  BY <1>1, <1>2, <1>4 DEF RecordsTyped, MadeOnly
<1>6. ASSUME NEW id \in Newest(IndexLimit, 1..made') \cap live' PROVE id \in listed'[keyFile]
  <2>1. id = made + 1 \/ (id # made + 1 /\ id \in Newest(IndexLimit, 1..made) \cap live)
    BY <1>1, <1>4, <1>6, NewestAfterOne
  <2>2. id \in listed[keyFile] \cup {made + 1}
    BY <2>1 DEF Listed
  <2>3. id \in Newest(IndexLimit, 1..made') /\ IndexLimit <= IndexLimit
    BY <1>4, <1>6
  <2>. DEFINE more == listed[keyFile] \cup {made + 1}
  <2>4. id \in Newest(IndexLimit, more)
    <3>1. /\ more \in SUBSET (Made \cup Elsewhere) /\ more \cap Made \subseteq 1..made'
          /\ id \in more
      BY <1>5, <2>2
    <3>. HIDE DEF more
    <3>. QED BY <1>4, <2>3, <3>1, NewestShrinks
  <2>. QED BY <1>3, <2>4
<1>7. ASSUME NEW q \in Procs
      PROVE  /\ run'[q].stage \notin {"keying", "writing"}
             /\ HasToken(q)' => run'[q].token = keyFile
  BY <1>1, <1>2 DEF Listed, HasToken, Goes
<1>8. Newest(IndexLimit, 1..made)' = Newest(IndexLimit, 1..made')
  BY DEF Newest
<1>. QED BY <1>1, <1>2, <1>6, <1>7, <1>8 DEF Listed

LEMMA ListedStays ==
    ASSUME RecordsInv, Listed, NEW p \in Procs, RecordStep(p), ~CostsTheList(p),
           ~Mishap("first runs")
    PROVE  Listed'
<1>. USE DEF RecordsInv
<1>0. AskedFor(p) /\ (keyFile \notin Keys => AtMostOneRun)
  BY DEF Listed
<1>1. ASSUME NEW kind \in {"put", "rm", "prune"}, NEW target \in {NoTarget} \cup Removable,
             Begin(p, kind, target)
      PROVE  Listed'
  <2>1. keyFile \notin Keys => AtMostOneRun'
    BY <1>1, BeginsAlone, BeginDoes, StillOneBegun
  <2>2. ~HasToken(p)'
    BY <1>1, BeginDoes DEF HasToken
  <2>. QED BY <1>1, <2>1, <2>2, BeginDoes, ListStands
<1>2. CASE ReadKey(p) \/ MakeKey(p) \/ WriteKey(p)
  BY <1>2, KeyIsListed
<1>3. CASE Load(p)
  <2>1. /\ run[p].stage = (IF run[p].kind = "put" THEN "keyed" ELSE "starting")
        /\ UNCHANGED <<made, listed, keyFile, live>>
        /\ Goes(p, NextStage[run[p].kind]) /\ run[p].kind \in {"put", "rm", "prune"}
        /\ run'[p].token = run[p].token
    BY <1>0, <1>3, LoadDoes
  <2>2. \A q \in Procs \ {p} : run'[q] = run[q]
    BY <2>1 DEF Goes
  <2>3. keyFile \notin Keys => AtMostOneRun'
    BY <1>0, <2>1, <2>2, StillOneRun
  <2>4. run'[p].stage \notin {"keying", "writing"} /\ run[p].stage # "writing"
    <3>1. NextStage[run[p].kind] \in {"uploading", "loaded", "working"}
      BY <2>1, NextStages
    <3>. QED BY <2>1, <3>1 DEF Goes
  <2>5. ASSUME HasToken(p)' PROVE keyFile \in Keys /\ run'[p].token = keyFile
    BY <2>1, <2>5 DEF HasToken, Goes, Listed
  <2>. QED BY <2>1, <2>2, <2>3, <2>4, <2>5, ListStands
<1>4. CASE UploadOne(p)
  BY <1>4, UploadIsListed DEF CostsTheList
<1>5. ASSUME run[p].stage = "working", Goes(p, "working") \/ Goes(p, "saving"),
             run'[p].token = run[p].token, UNCHANGED <<made, keyFile>>,
             live' \subseteq live, UNCHANGED listed \/ ListsKeepLiving
      PROVE  Listed'
  <2>1. \A q \in Procs \ {p} : run'[q] = run[q]
    BY <1>5 DEF Goes
  <2>2. HasToken(p)' => HasToken(p)
    BY <1>5 DEF Goes, HasToken
  <2>3. keyFile \notin Keys => AtMostOneRun'
    BY <1>0, <1>5, <2>1, StillOneRun
  <2>4. run[p].stage # "writing" /\ run'[p].stage \notin {"keying", "writing"}
    BY <1>5 DEF Goes
  <2>5. HasToken(p)' => keyFile \in Keys /\ run'[p].token = keyFile
    BY <1>5, <2>2 DEF Listed
  <2>. QED BY <1>5, <2>1, <2>3, <2>4, <2>5, ListStands
<1>6. ASSUME NEW target \in SingleTargets, FetchIndex(p, target) PROVE Listed'
  BY <1>5, <1>6, FetchIndexDoes
<1>7. ASSUME NEW target \in SingleTargets, Delete(p, target) PROVE Listed'
  BY <1>5, <1>7, DeleteDoes
<1>8. CASE Save(p)
  BY <1>5, <1>8, SaveDoes
<1>9. CASE WriteHistory(p) \/ UploadFails(p) \/ Kill(p)
  <2>1. /\ Ends(p) /\ run[p].stage # "idle" /\ run[p].stage # "writing"
        /\ UNCHANGED <<made, listed, keyFile, live>>
    BY <1>9, EndDoes, FailureIsTrouble DEF CostsTheList
  <2>2. keyFile \notin Keys => AtMostOneRun'
    BY <1>0, <2>1, StillOneRun DEF Ends
  <2>. QED BY <2>1, <2>2, EndsIdle, ListStands DEF Ends, HasToken
<1>. QED BY <1>1, <1>2, <1>3, <1>4, <1>6, <1>7, <1>8, <1>9 DEF RecordStep

\* A step of the one run that leaves the history file and the uploads alone.
LEMMA HistoryStands ==
    ASSUME Kept, NEW p \in Procs, \A q \in Procs \ {p} : run'[q] = run[q],
           AtMostOneRun', live' \subseteq live, UNCHANGED <<made, history>>,
           run[p].stage \in {"working", "saving"} => run'[p].stage \in {"working", "saving"},
           \A id \in Newest(HistoryLimit, 1..made) \cap live' : InHand(p, id)'
    PROVE  Kept'
<1>1. ASSUME NEW id \in Newest(HistoryLimit, 1..made) \cap live', NEW q \in Procs
      PROVE  InHand(q, id)'
  BY <1>1 DEF Kept, InHand, HasCopy
<1>2. ASSUME NEW id \in Newest(HistoryLimit, 1..made) \cap live' PROVE OnRecord(id)'
  BY <1>2 DEF Kept, OnRecord, Entries
<1>3. UNCHANGED Newest(HistoryLimit, 1..made)
  BY DEF Newest
<1>. QED BY <1>1, <1>2, <1>3 DEF Kept

LEMMA UploadIsKept ==
    ASSUME RecordsInv, Kept, NEW p \in Procs, UploadOne(p)
    PROVE  Kept'
<1>. USE DEF RecordsInv
<1>1. /\ run[p].stage \in {"uploading", "working"} /\ Goes(p, "working")
      /\ run'[p].copy = run[p].copy \cup {made + 1} /\ made' = made + 1
      /\ live' = live \cup {made + 1} /\ made + 1 \in Made
  BY UploadOneDoes
<1>2. \A q \in Procs \ {p} : run'[q] = run[q]
  BY <1>1 DEF Goes
<1>3. AtMostOneRun' /\ AtMostOneRun
  BY <1>1, <1>2, StillOneRun DEF Kept
<1>4. made \in 0..MaxMade /\ 1..made' = 1..(made + 1) /\ HistoryLimit \in Nat
  BY <1>1 DEF RecordsTyped
<1>5. ASSUME NEW id \in Newest(HistoryLimit, 1..made') \cap live'
      PROVE  OnRecord(id)' /\ InHand(p, id)'
  <2>1. OnRecord(id)'
    BY <1>1 DEF OnRecord, Goes
  <2>2. id = made + 1 \/ (id # made + 1 /\ id \in Newest(HistoryLimit, 1..made) \cap live)
    BY <1>1, <1>4, <1>5, NewestAfterOne
  <2>3. id \in run'[p].copy
    BY <1>1, <2>2 DEF Kept, InHand, HasCopy
  <2>. QED BY <2>1, <2>3 DEF InHand
<1>6. \A q \in Procs \ {p} : run'[q].stage = "idle"
  BY <1>1, <1>2, <1>3 DEF AtMostOneRun
<1>7. ASSUME NEW id \in Newest(HistoryLimit, 1..made') \cap live', NEW q \in Procs
      PROVE  InHand(q, id)'
  BY <1>5, <1>6 DEF InHand, HasCopy
<1>8. Newest(HistoryLimit, 1..made)' = Newest(HistoryLimit, 1..made')
  BY DEF Newest
<1>. QED BY <1>3, <1>5, <1>7, <1>8 DEF Kept

LEMMA KeptStays ==
    ASSUME RecordsInv, Kept, NEW p \in Procs, RecordStep(p), Trouble => CostsTheList(p)
    PROVE  Kept'
<1>. USE DEF RecordsInv
<1>0. /\ AskedFor(p) /\ AtMostOneRun /\ made \in 0..MaxMade
      /\ 1..made \subseteq Made /\ run[p].copy \subseteq 1..made
      /\ HistoryLimit \in Nat
  BY EntriesTyped DEF Kept, RecordsTyped, MadeOnly
<1>1. ASSUME NEW kind \in {"put", "rm", "prune"}, NEW target \in {NoTarget} \cup Removable,
             Begin(p, kind, target)
      PROVE  Kept'
  <2>1. /\ \A q \in Procs \ {p} : run'[q] = run[q]
        /\ run'[p].stage = "starting" /\ run[p].stage = "idle"
        /\ UNCHANGED <<made, history, live>>
    BY <1>1, BeginDoes
  <2>2. ~CostsTheList(p)
    BY <2>1 DEF CostsTheList, UploadOne, Putting
  <2>3. Running = {}
    BY <1>1, <2>2, BeginsAlone, Zenon DEF Trouble, Troubles
  <2>4. AtMostOneRun'
    BY <2>1, <2>3, StillOneBegun
  <2>5. \A id \in Newest(HistoryLimit, 1..made) \cap live' : InHand(p, id)'
    BY <2>1 DEF InHand, HasCopy
  <2>. QED BY <2>1, <2>4, <2>5, HistoryStands
<1>2. CASE ReadKey(p) \/ MakeKey(p) \/ WriteKey(p)
  <2>1. /\ run[p].stage \in {"starting", "loaded", "keying", "writing"}
        /\ UNCHANGED <<made, history, live>>
        /\ \A q \in Procs \ {p} : run'[q] = run[q]
        /\ HasCopy(p)' => HasCopy(p) /\ run'[p].copy = run[p].copy
    <3>1. UNCHANGED <<made, history, live>>
      BY <1>2, KeyDoes
    <3>2. ASSUME NEW token, GetsToken(p, token), run[p].stage \in {KeyTurn(p), "writing"}
          PROVE  /\ \A q \in Procs \ {p} : run'[q] = run[q]
                 /\ HasCopy(p)' => HasCopy(p) /\ run'[p].copy = run[p].copy
      BY <3>2, EndsIdle DEF GetsToken, Goes, Ends, KeepsCopy, HasCopy, KeyTurn
    <3>3. ASSUME KeepsCopy(p), \/ Goes(p, "keying") /\ run[p].stage = KeyTurn(p)
                               \/ Goes(p, "writing") /\ run[p].stage = "keying"
          PROVE  /\ \A q \in Procs \ {p} : run'[q] = run[q]
                 /\ HasCopy(p)' => HasCopy(p) /\ run'[p].copy = run[p].copy
      BY <3>3 DEF Goes, KeepsCopy, HasCopy, KeyTurn
    <3>4. run[p].stage \in {KeyTurn(p), "keying", "writing"}
      BY <1>2, KeyDoes
    <3>. QED BY <1>2, <3>1, <3>2, <3>3, <3>4, KeyDoes DEF KeyTurn
  <2>2. AtMostOneRun'
    BY <1>0, <2>1, StillOneRun
  <2>3. \A id \in Newest(HistoryLimit, 1..made) \cap live' : InHand(p, id)'
    BY <2>1 DEF InHand, Kept
  <2>. QED BY <2>1, <2>2, <2>3, HistoryStands
<1>3. CASE Load(p)
  <2>1. /\ run[p].stage \in {"keyed", "starting"} /\ UNCHANGED <<made, history, live>>
        /\ \A q \in Procs \ {p} : run'[q] = run[q]
        /\ run'[p].copy = Entries
    BY <1>0, <1>3, LoadDoes DEF Goes
  <2>2. AtMostOneRun'
    BY <1>0, <2>1, StillOneRun
  <2>3. \A q \in Procs : run[q].stage \notin {"working", "saving"}
    BY <1>0, <2>1 DEF AtMostOneRun
  <2>4. \A id \in Newest(HistoryLimit, 1..made) \cap live : id \in Entries
    BY <2>3 DEF Kept, OnRecord
  <2>5. \A id \in Newest(HistoryLimit, 1..made) \cap live' : InHand(p, id)'
    BY <2>1, <2>4 DEF InHand
  <2>. QED BY <2>1, <2>2, <2>5, HistoryStands
<1>4. CASE UploadOne(p)
  BY <1>4, UploadIsKept
<1>5. ASSUME NEW target \in SingleTargets, FetchIndex(p, target) \/ Delete(p, target)
      PROVE  Kept'
  <2>1. /\ run[p].stage = "working" /\ Goes(p, "working") /\ UNCHANGED <<made, history>>
        /\ \/ live' = live /\ run'[p].copy = run[p].copy
           \/ live' = live \ {target.id} /\ run[p].copy \ {target.id} \subseteq run'[p].copy
    BY <1>5, FetchIndexDoes, DeleteDoes DEF KeepsCopy
  <2>2. \A q \in Procs \ {p} : run'[q] = run[q]
    BY <2>1 DEF Goes
  <2>3. AtMostOneRun'
    BY <1>0, <2>1, <2>2, StillOneRun
  <2>4. ASSUME NEW id \in Newest(HistoryLimit, 1..made) \cap live' PROVE InHand(p, id)'
    BY <2>1 DEF Kept, InHand, HasCopy
  <2>. QED BY <2>1, <2>2, <2>3, <2>4, HistoryStands DEF Goes
<1>6. CASE Save(p)
  <2>1. /\ run[p].stage = "working" /\ Goes(p, "saving") /\ UNCHANGED <<made, live>>
        /\ run[p].copy \ expired \subseteq run'[p].copy
    BY <1>6, SaveDoes
  <2>2. \A q \in Procs \ {p} : run'[q] = run[q]
    BY <2>1 DEF Goes
  <2>3. AtMostOneRun'
    BY <1>0, <2>1, <2>2, StillOneRun
  <2>4. \A q \in Procs \ {p} : run'[q].stage = "idle"
    BY <1>0, <2>1, <2>2 DEF AtMostOneRun
  <2>5. ASSUME NEW id \in Newest(HistoryLimit, 1..made) \cap live, NEW q \in Procs
        PROVE  OnRecord(id)' /\ InHand(q, id)'
    <3>1. OnRecord(id)'
      BY <2>1 DEF OnRecord, Goes
    <3>2. id \in run'[p].copy
      BY <2>1 DEF Kept, InHand, HasCopy, MadeOnly
    <3>3. InHand(q, id)'
      BY <2>4, <3>2 DEF InHand, HasCopy
    <3>. QED BY <3>1, <3>3
  <2>6. UNCHANGED Newest(HistoryLimit, 1..made)
    BY <2>1 DEF Newest
  <2>. QED BY <2>1, <2>3, <2>5, <2>6 DEF Kept
<1>7. CASE WriteHistory(p) \/ UploadFails(p) \/ Kill(p)
  <2>1. /\ Ends(p) /\ run[p].stage # "idle" /\ UNCHANGED <<made, live>>
        /\ \/ run[p].stage = "saving" /\ history' = Newest(HistoryLimit, run[p].copy)
           \/ run[p].stage = "writing" /\ UNCHANGED history
    <3>1. ~UploadOne(p)
      BY <1>0, <1>7, EndDoes DEF UploadOne
    <3>. QED BY <1>7, <3>1, EndDoes, FailureIsTrouble DEF CostsTheList
  <2>2. \A q \in Procs \ {p} : run'[q] = run[q]
    BY <2>1 DEF Ends
  <2>3. AtMostOneRun'
    BY <1>0, <2>1, <2>2, StillOneRun
  <2>4. \A q \in Procs : run'[q].stage = "idle"
    BY <1>0, <2>1, <2>2, EndsIdle DEF AtMostOneRun
  <2>5. ASSUME NEW id \in Newest(HistoryLimit, 1..made) \cap live PROVE OnRecord(id)'
    <3>1. CASE run[p].stage = "saving" /\ history' = Newest(HistoryLimit, run[p].copy)
      <4>1. id \in run[p].copy /\ run[p].copy \in SUBSET Made
        BY <1>0, <3>1 DEF Kept, InHand, HasCopy
      <4>2. id \in Newest(HistoryLimit, run[p].copy)
        <5>1. /\ run[p].copy \in SUBSET (Made \cup Elsewhere) /\ 1..made \in SUBSET Made
              /\ run[p].copy \cap Made \subseteq 1..made
              /\ id \in Newest(HistoryLimit, 1..made) /\ HistoryLimit <= HistoryLimit
          BY <1>0, <4>1
        <5>. QED BY <1>0, <4>1, <5>1, NewestShrinks
      <4>3. history' # Torn
        BY <3>1, <4>1 DEF Newest
      <4>. QED BY <3>1, <4>2, <4>3 DEF OnRecord, Entries
    <3>2. CASE run[p].stage = "writing" /\ UNCHANGED history
      <4>1. \A q \in Procs : run[q].stage \notin {"working", "saving"}
        BY <1>0, <3>2 DEF AtMostOneRun
      <4>. QED BY <3>2, <4>1 DEF Kept, OnRecord, Entries
    <3>. QED BY <2>1, <3>1, <3>2
  <2>6. UNCHANGED Newest(HistoryLimit, 1..made)
    BY <2>1 DEF Newest
  <2>. QED BY <2>1, <2>3, <2>4, <2>5, <2>6 DEF Kept, InHand, HasCopy
<1>. QED BY <1>1, <1>2, <1>3, <1>4, <1>5, <1>6, <1>7 DEF RecordStep

\* What lets no upload come and leaves the records alone closes neither way.
LEMMA WaysStay ==
    ASSUME UNCHANGED <<listed, keyFile, history, run, made>>, live' \subseteq live
    PROVE  (Listed => Listed') /\ (Kept => Kept')
<1>1. \A limit : UNCHANGED Newest(limit, 1..made)
  BY DEF Newest
<1>2. Listed => Listed'
  BY <1>1 DEF Listed, AtMostOneRun, HasToken
<1>3. Kept => Kept'
  BY <1>1 DEF Kept, AtMostOneRun, OnRecord, Entries, InHand, HasCopy
<1>. QED BY <1>2, <1>3

LEMMA OneWayLeftInit ==
    ASSUME \A plan \in Plans : plan.mishaps <= 1
    PROVE  Init => OneWayLeft
<1>. SUFFICES ASSUME Init PROVE OneWayLeft
  OBVIOUS
<1>1. mishaps.left <= 1 /\ mishaps.seen = {}
  BY DEF Init
<1>2. \A p \in Procs : run[p] = NoRun
  BY DEF Init, RecordsInit
<1>3. /\ 1..made = {} /\ made = 0 /\ keyFile \in {"none", Shared}
      /\ keyFile # Torn
  BY DEF Init, RecordsInit, Keys
<1>4. AtMostOneRun
  BY <1>2, NoRunTyped DEF AtMostOneRun
<1>5. \A limit : Newest(limit, 1..made) = {}
  BY <1>3 DEF Newest
<1>6. Listed
  BY <1>2, <1>3, <1>4, <1>5, NoRunTyped DEF Listed, HasToken
<1>7. Kept
  BY <1>4, <1>5 DEF Kept
<1>. QED BY <1>1, <1>6, <1>7 DEF OneWayLeft

LEMMA OneWayLeftInductive ==
    RecordsInv /\ OneWayLeft /\ [Next]_vars => OneWayLeft'
<1>. SUFFICES ASSUME RecordsInv, OneWayLeft, [Next]_vars PROVE OneWayLeft'
  OBVIOUS
<1>0. mishaps \in [left : Nat, seen : SUBSET Troubles]
  BY DEF RecordsInv, RecordsTyped
<1>1. ASSUME UNCHANGED <<listed, keyFile, history, run, made, mishaps>>, live' \subseteq live
      PROVE  OneWayLeft'
  BY <1>1, WaysStay DEF OneWayLeft
<1>2. CASE UNCHANGED vars
  BY <1>1, <1>2 DEF vars, recordVars
<1>3. ASSUME TransferStep, UNCHANGED recordVars PROVE OneWayLeft'
  BY <1>1, <1>3, TransfersLeaveUploads DEF recordVars
<1>4. ASSUME NEW p \in Procs, RecordStep(p) PROVE OneWayLeft'
  <2>1. UNCHANGED mishaps \/ Trouble
    BY <1>4, CountsMishaps
  <2>2. ASSUME NEW what \in Troubles, Mishap(what) PROVE OneWayLeft'
    <3>1. /\ mishaps.left \in Nat /\ mishaps.left > 0
          /\ mishaps' = [left |-> mishaps.left - 1, seen |-> mishaps.seen \cup {what}]
      BY <1>0, <2>2 DEF Mishap
    <3>2. mishaps.left = 1 /\ mishaps.seen = {} /\ Listed /\ Kept
      <4>1. mishaps.left <= 1 /\ (mishaps.seen # {} => mishaps.left = 0)
        BY DEF OneWayLeft
      <4>2. mishaps.left = 1 /\ mishaps.seen = {}
        BY <3>1, <4>1
      <4>. QED BY <4>2 DEF OneWayLeft
    <3>3. mishaps'.left = 0 /\ mishaps'.seen = {what}
      BY <3>1, <3>2
    <3>4. what # "first runs" => ~Mishap("first runs")
      <4>1. ASSUME Mishap("first runs") PROVE what = "first runs"
        <5>1. mishaps'.seen = {"first runs"}
          BY <3>2, <4>1 DEF Mishap
        <5>. QED BY <3>3, <5>1
      <4>. QED BY <4>1
    <3>5. what # "first runs" => Listed' \/ Kept'
      BY <1>4, <3>2, <3>4, ListedStays, KeptStays
    <3>6. /\ mishaps'.left <= 1 /\ (mishaps'.seen # {} => mishaps'.left = 0)
          /\ mishaps'.seen # {}
      BY <3>3
    <3>7. "first runs" \notin mishaps'.seen => Listed' \/ Kept'
      BY <3>3, <3>5
    <3>. QED BY <3>6, <3>7 DEF OneWayLeft
  <2>3. CASE ~Trouble
    <3>1. ~Mishap("first runs")
      BY <2>3, Zenon DEF Trouble, Troubles
    <3>2. (Listed => Listed') /\ (Kept => Kept')
      BY <1>4, <2>3, <3>1, ListedStays, KeptStays DEF CostsTheList
    <3>3. UNCHANGED mishaps
      BY <2>1, <2>3
    <3>. QED BY <3>2, <3>3 DEF OneWayLeft
  <2>4. CASE Trouble
    BY <2>2, <2>4 DEF Trouble
  <2>. QED BY <2>3, <2>4
<1>5. ASSUME NEW id \in live, Expire(id) PROVE OneWayLeft'
  BY <1>1, <1>5 DEF Expire
<1>6. CASE Next
  BY <1>3, <1>4, <1>5, <1>6, Steps
<1>. QED BY <1>2, <1>6

LEMMA OneWayIsEnough == RecordsInv /\ OneWayLeft => Deletable
<1>. DEFINE limit == IF mishaps.seen = {} THEN HistoryLimit ELSE IndexLimit
<1>0. limit \in Nat /\ HistoryLimit \in Nat /\ limit <= HistoryLimit
  OBVIOUS
<1>. SUFFICES ASSUME RecordsInv, OneWayLeft, "first runs" \notin mishaps.seen,
                     NEW id \in live \cap Newest(limit, printed)
              PROVE  \/ id \in Entries
                     \/ \E p \in Running :
                           run[p].stage \in {"working", "saving"} /\ id \in run[p].copy
                     \/ keyFile \in Keys /\ id \in listed[keyFile]
  BY DEF Deletable
<1>1. printed = 1..made /\ 1..made \in SUBSET Made
  BY EntriesTyped DEF RecordsInv, RecordsTyped
<1>2. CASE mishaps.seen # {} /\ Listed
  BY <1>1, <1>2 DEF Listed
<1>3. CASE Kept
  <2>1. id \in 1..made /\ id \in Newest(limit, 1..made)
    BY <1>1 DEF Newest
  <2>2. id \in Newest(HistoryLimit, 1..made)
    <3>1. 1..made \in SUBSET (Made \cup Elsewhere) /\ 1..made \cap Made \subseteq 1..made
      BY <1>1
    <3>. HIDE DEF limit
    <3>. QED BY <1>0, <1>1, <2>1, <3>1, NewestShrinks
  <2>. QED BY <1>3, <2>2 DEF Kept, OnRecord, InHand, HasCopy, Running
<1>. QED BY <1>2, <1>3 DEF OneWayLeft

\* As long as a behaviour holds at most one mishap (two runs at once, a run or a
\* request that fails, a kill), every printed link of the newest HistoryLimit, and
\* after the mishap of the newest IndexLimit, can still be turned into a deletion:
\* from history.json, from the run about to write it, or from the server's list
\* under the token of the key on file.  The mishap left out is two runs at once
\* before there is a key.
THEOREM OneMishapCostsNoUpload ==
    ASSUME \A plan \in Plans : plan.mishaps <= 1
    PROVE  Spec => []Deletable
<1>1. Init => RecordsInv /\ OneWayLeft
  BY RecordsInvInit, OneWayLeftInit
<1>2. RecordsInv /\ OneWayLeft /\ [Next]_vars => (RecordsInv /\ OneWayLeft)'
  BY RecordsInvInductive, OneWayLeftInductive
<1>. QED BY <1>1, <1>2, OneWayIsEnough, PTL DEF Spec
===============================================================================
