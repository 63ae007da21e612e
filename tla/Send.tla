--------------------------------- MODULE Send ---------------------------------
(***************************************************************************)
(* The command line tool against one server: transfers (SendTransfer) and  *)
(* the records of them (SendRecords) share what the server has, so an      *)
(* upload may be removed, or expire, while it is being downloaded.         *)
(***************************************************************************)
EXTENDS SendTransfer, SendRecords

CONSTANT Plans  \* bounds: what a behaviour may do, with which uploads and backends

ASSUME PlanAssumption ==
    Plans \subseteq [offers : SUBSET DOMAIN Offers, backends : SUBSET {"local", "s3", "plain"},
                     keys : SUBSET {"none", Shared},
                     gets : Nat, puts : Nat, edits : Nat,
                     probes : Nat, runs : Nat, mishaps : Nat]

\* Tokens are random: none is the token of another upload.
ASSUME IdAssumption == Made \cap DOMAIN Offers = {}

vars == <<live, transferVars, recordVars>>

Init ==
    /\ TransferInit /\ RecordsInit
    /\ \E plan \in Plans :
          /\ live = plan.offers \cup Elsewhere
          /\ backend \in plan.backends /\ keyFile \in plan.keys
          /\ gets = plan.gets /\ puts = plan.puts /\ edits = plan.edits /\ probes = plan.probes
          /\ runs = plan.runs /\ mishaps = [left |-> plan.mishaps, seen |-> {}]

Transfer(step) == step /\ UNCHANGED recordVars
Record(step) == step /\ UNCHANGED transferVars

Next ==
    \/ \E u \in DOMAIN Offers, noResume \in BOOLEAN : Transfer(BeginGet(u, noResume))
    \/ Transfer(AnswerGet) \/ Transfer(Receive) \/ Transfer(EndGet)
    \/ Transfer(DecryptFile) \/ Transfer(BreakGet)
    \/ \E e2e \in BOOLEAN, name \in PutNames :
          \/ Transfer(PutWhole(e2e, name))
          \/ Transfer(ResumePut(e2e, name)) \/ Transfer(StartPut(e2e, name))
    \/ Transfer(SendCells) \/ Transfer(CommitPut) \/ Transfer(FinishPut) \/ Transfer(BreakPut)
    \/ Transfer(EditFile) \/ Transfer(ForgetSession)
    \/ \E u \in DOMAIN Offers, header \in Headers, password \in BOOLEAN :
          Transfer(Probe(u, header, password))
    \/ \E p \in Procs :
          \/ \E kind \in {"put", "prune"} : Record(Begin(p, kind, NoTarget))
          \/ \E target \in Removable : Record(Begin(p, "rm", target))
          \/ Record(ReadKey(p)) \/ Record(MakeKey(p)) \/ Record(WriteKey(p)) \/ Record(Load(p))
          \/ Record(UploadOne(p)) \/ Record(UploadFails(p))
          \/ \E target \in SingleTargets :
                Record(FetchIndex(p, target)) \/ Record(Delete(p, target))
          \/ Record(Save(p)) \/ Record(WriteHistory(p)) \/ Record(Kill(p))
    \/ \E id \in live : Record(Expire(id))

Spec == Init /\ [][Next]_vars
===============================================================================
