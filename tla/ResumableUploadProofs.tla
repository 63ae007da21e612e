------------------------- MODULE ResumableUploadProofs -------------------------
(***************************************************************************)
(* Proofs about ResumableUpload, for any clients, handlers, file and chunk *)
(* sizes, and any number of faults, crashes, repetitions and attempts: the *)
(* spool file is a prefix of the client's file that keeps what has been    *)
(* acknowledged, the file is stored whole and once, and the session is a   *)
(* ResumableFile.                                                          *)
(*                                                                         *)
(* Why an invariant is needed: a handler acts on the offset it found when  *)
(* it took the lock and on a chunk chosen before that.  That its writes    *)
(* extend the prefix rests on the lock, on the length of the spool file at *)
(* every place of the handler, and on its chunk fitting the file; that a   *)
(* retry stores nothing twice, on the spool file keeping its full length,  *)
(* where no chunk can start any more.                                      *)
(***************************************************************************)
EXTENDS ResumableUpload, SequenceTheorems, TLAPS

USE SizeAssumption, RetryAssumption, TimeAssumption, BoundAssumption, NilAssumption

\* Places of a PATCH handler between lock and unlock.
Inside == {"copying", "finishing", "storing", "removing"}

LocksHeld == \A h \in Handlers : lock = h <=> at[h] \in Inside

\* The span of a chunk lies in the file, a client has chosen its ends, and nothing
\* of it has been copied before the lock is held.
ChunkFits(h) ==
    /\ job[h].start < Total /\ job[h].want > 0
    /\ job[h].start + job[h].want <= Total
    /\ job[h].start \in asked /\ job[h].start + job[h].want \in asked
    /\ at[h] = "opened" => job[h].got = 0

ChunksFit == \A h \in Handlers : at[h] \in Inside \cup {"opened"} => ChunkFits(h)

\* How long the spool file is, and what is stored, at each place of a handler.
Progress ==
    \A h \in Handlers :
        /\ at[h] = "copying" =>
              /\ job[h].offset = job[h].start /\ job[h].got <= job[h].want
              /\ spool # Gone => Len(spool) = job[h].offset + job[h].got
        /\ at[h] \in Inside \ {"copying"} /\ spool # Gone => Len(spool) = Total
        /\ at[h] = "storing" => Whole(job[h].file)
        /\ at[h] \in Inside => (stored # <<>> <=> at[h] = "removing")

\* A stored file leaves no place in the spool where a chunk could start.
StoredLast == stored # <<>> /\ spool # Gone => Len(spool) = Total

SessionInv ==
    /\ LocksHeld /\ ChunksFit /\ Progress /\ StoredLast
    /\ SpoolFaithful /\ StoredOnceAndWhole

\* A client that will send again has attempts left; one that waits for an answer
\* has sent a chunk.
ClientsGo ==
    \A c \in Clients :
        /\ pc[c] \in {"sending", "waiting", "resync"} => tries[c] < Attempts
        /\ pc[c] = "idle" => tries[c] = 0
        /\ conn[c] # Nil => pc[c] = "waiting"

IInv == TypeOK /\ SessionInv /\ ClientsGo

\* The two halves of TypeOK.
ClientsType ==
    /\ pc \in [Clients -> ClientPlace]
    /\ off \in [Clients -> 0..Total]
    /\ tries \in [Clients -> 0..Attempts]
    /\ conn \in [Clients -> Handlers \cup {Nil}]
    /\ pending \in BOOLEAN

Jobs == [start : 0..Total, want : 0..Total, offset : 0..Total, got : 0..Total,
         file : Seq(0..Total)]

ServerType ==
    /\ sidecar \in {"never", "present", "removed"}
    /\ spool \in Seq(0..Total) \cup {Gone}
    /\ touched \in Nat /\ now \in 0..MaxTime
    /\ lock \in Handlers \cup {Nil}
    /\ at \in [Handlers -> HandlerPlace]
    /\ job \in [Handlers -> Jobs]
    /\ stored \in Seq(Seq(0..Total))
    /\ faults \in 0..MaxFaults /\ crashes \in 0..MaxCrashes
    /\ kills \in 0..MaxKills /\ abandoned \in BOOLEAN
    /\ acked \in 0..Total /\ asked \subseteq 0..Total

\* The abstract session, as the refinement mapping names it.
Held ==
    IF \E h \in Handlers : at[h] \in {"storing", "removing"} THEN Total
    ELSE IF spool = Gone THEN Gone ELSE Committed
Told == \E c \in Clients : pc[c] = "done"

LEMMA Halves == TypeOK <=> ServerType /\ ClientsType
BY DEF TypeOK, ServerType, ClientsType, Jobs

-------------------------------------------------------------------------------
(* Files *)

LEMMA FunctionIsSeq ==
    ASSUME NEW S, NEW n \in Nat, NEW f \in [1..n -> S]
    PROVE  f \in Seq(S) /\ Len(f) = n /\ DOMAIN f = 1..n
<1>1. f \in Seq(S) /\ DOMAIN f = 1..n
  BY SeqDef
<1>2. Len(f) \in Nat /\ 1..Len(f) = 1..n
  BY <1>1, LenProperties
<1>. QED BY <1>1, <1>2

LEMMA SpoolFacts ==
    ASSUME NEW s \in Seq(0..Total)
    PROVE  /\ Len(s) \in Nat /\ DOMAIN s = 1..Len(s)
           /\ \A i \in 1..Len(s) : s[i] \in 0..Total
BY LenProperties, ElementOfSeq

LEMMA LargerOf ==
    ASSUME NEW a \in Nat, NEW b \in Nat, b <= a PROVE Max({a, b}) = a
<1>1. \E x \in {a, b} : \A y \in {a, b} : x >= y
  OBVIOUS
<1>2. Max({a, b}) \in {a, b} /\ \A y \in {a, b} : Max({a, b}) >= y
  BY <1>1 DEF Max
<1>. QED BY <1>2

LEMMA SmallerOf ==
    ASSUME NEW a \in Nat, NEW b \in Nat
    PROVE  Min({a, b}) \in {a, b} /\ Min({a, b}) <= a /\ Min({a, b}) <= b
<1>1. \E x \in {a, b} : \A y \in {a, b} : x =< y
  OBVIOUS
<1>2. Min({a, b}) \in {a, b} /\ \A y \in {a, b} : Min({a, b}) =< y
  BY <1>1 DEF Min
<1>. QED BY <1>2

Prefix(s) == \A i \in DOMAIN s : s[i] = i

\* One more unit at the end of a prefix makes a prefix.
LEMMA WrittenExtends ==
    ASSUME NEW s \in Seq(0..Total), Len(s) < Total, Prefix(s)
    PROVE  LET t == Written(s, Len(s) + 1, Len(s) + 1)
           IN  t \in Seq(0..Total) /\ Len(t) = Len(s) + 1 /\ Prefix(t)
<1>. DEFINE n == Len(s) + 1
            t == Written(s, n, n)
<1>1. n \in Nat /\ n <= Total /\ Len(s) \in Nat /\ DOMAIN s = 1..Len(s)
  BY SpoolFacts
<1>2. Max({n, Len(s)}) = n
  BY <1>1, LargerOf
<1>3. t = [j \in 1..n |-> IF j = n THEN n ELSE At(s, j)]
  BY <1>2 DEF Written
<1>4. \A j \in 1..n : t[j] = j /\ t[j] \in 0..Total
  BY <1>1, <1>3 DEF At, Prefix
<1>5. t \in [1..n -> 0..Total]
  BY <1>3, <1>4
<1>6. t \in Seq(0..Total) /\ Len(t) = n /\ DOMAIN t = 1..n
  BY <1>1, <1>5, FunctionIsSeq
<1>. QED BY <1>4, <1>6 DEF Prefix

\* What is left of a prefix is a prefix.
LEMMA TruncatedKeeps ==
    ASSUME NEW s \in Seq(0..Total), NEW n \in Nat, n <= Len(s), Prefix(s)
    PROVE  LET t == Truncated(s, n) IN t \in Seq(0..Total) /\ Len(t) = n /\ Prefix(t)
<1>. DEFINE t == Truncated(s, n)
<1>1. Len(s) \in Nat /\ DOMAIN s = 1..Len(s) /\ \A i \in 1..Len(s) : s[i] \in 0..Total
  BY SpoolFacts
<1>2. t = [j \in 1..n |-> At(s, j)]
  BY DEF Truncated
<1>3. \A j \in 1..n : t[j] = j /\ t[j] \in 0..Total
  BY <1>1, <1>2 DEF At, Prefix
<1>4. t \in [1..n -> 0..Total]
  BY <1>2, <1>3
<1>5. t \in Seq(0..Total) /\ Len(t) = n /\ DOMAIN t = 1..n
  BY <1>4, FunctionIsSeq
<1>. QED BY <1>3, <1>5 DEF Prefix

\* A prefix as long as the file is the file.
LEMMA FullIsWhole ==
    ASSUME NEW s \in Seq(0..Total), Len(s) = Total, Prefix(s)
    PROVE  Whole(s)
<1>1. DOMAIN s = 1..Total /\ s \in [1..Total -> 0..Total]
  BY LenProperties
<1>2. s = [i \in 1..Total |-> s[i]]
  BY <1>1
<1>. QED BY <1>1, <1>2 DEF Whole, Prefix

LEMMA AppendOnce ==
    ASSUME NEW s \in Seq(0..Total)
    PROVE  /\ Append(<<>>, s) \in Seq(Seq(0..Total)) /\ Append(<<>>, s) # <<>>
           /\ Len(Append(<<>>, s)) = 1 /\ DOMAIN Append(<<>>, s) = {1}
           /\ Append(<<>>, s)[1] = s
<1>1. Append(<<>>, s) = <<s>>
  OBVIOUS
<1>. QED BY <1>1

-------------------------------------------------------------------------------
(* What a step may do to a session *)

LEMMA HeldType ==
    ASSUME ServerType, SessionInv
    PROVE  /\ spool # Gone => Len(spool) \in 0..Total /\ Committed \in 0..Len(spool)
           /\ Held \in (0..Total) \cup {Gone}
           /\ (spool # Gone \/ \E h \in Handlers : at[h] \in {"storing", "removing"})
                => Held \in 0..Total
<1>1. ASSUME spool # Gone PROVE Len(spool) \in 0..Total /\ Committed \in 0..Len(spool)
  <2>1. Len(spool) \in 0..Total
    BY <1>1, SpoolFacts DEF ServerType, SessionInv, SpoolFaithful, SpoolIsPrefix
  <2>2. CASE lock # Nil /\ at[lock] = "copying"
    <3>1. /\ lock \in Handlers /\ job[lock].offset \in Nat /\ job[lock].got \in Nat
          /\ Len(spool) = job[lock].offset + job[lock].got
      BY <1>1, <2>2 DEF ServerType, Jobs, SessionInv, Progress
    <3>. QED BY <2>1, <2>2, <3>1 DEF Committed
  <2>. QED BY <2>1, <2>2 DEF Committed
<1>. QED BY <1>1 DEF Held

\* A step that neither takes nor releases the lock, at most drops the session, and
\* chooses chunks that fit.
LEMMA SessionKeeps ==
    ASSUME ServerType, SessionInv,
           spool' \in {spool, Gone}, stored' = stored, lock' = lock,
           faults' \in {faults, faults + 1}, crashes' = crashes,
           spool # Gone => acked' <= Committed,
           asked \subseteq asked',
           \A g \in Handlers :
               \/ at'[g] = at[g] /\ job'[g] = job[g]
               \/ /\ at[g] \notin Inside /\ at'[g] \notin Inside
                  /\ at'[g] = "opened" => ChunkFits(g)'
    PROVE  SessionInv' /\ Held' \in {Held, Gone}
<1>1. LocksHeld'
  BY DEF SessionInv, LocksHeld
<1>2. ChunksFit'
  BY DEF SessionInv, ChunksFit, ChunkFits
<1>3. Progress'
  BY DEF SessionInv, Progress, Inside
<1>4. StoredLast' /\ StoredOnceAndWhole'
  BY DEF SessionInv, StoredLast, StoredOnceAndWhole
<1>5. spool' # Gone => Committed' = Committed
  BY DEF Committed, SessionInv, LocksHeld, ServerType, Inside
<1>6. SpoolFaithful'
  <2>1. SpoolIsPrefix'
    BY DEF SessionInv, SpoolFaithful, SpoolIsPrefix
  <2>2. AcknowledgedKept'
    BY <1>5 DEF AcknowledgedKept
  <2>3. faults' = 0 /\ crashes' = 0 => faults = 0 /\ crashes = 0
    BY DEF ServerType
  <2>4. CommittedIsChosen'
    BY <1>5, <2>3 DEF SessionInv, SpoolFaithful, CommittedIsChosen
  <2>. QED BY <2>1, <2>2, <2>4 DEF SpoolFaithful
<1>7. \A g \in Handlers : at'[g] \in {"storing", "removing"} <=> at[g] \in {"storing", "removing"}
  BY DEF Inside
<1>. QED BY <1>1, <1>2, <1>3, <1>4, <1>5, <1>6, <1>7 DEF SessionInv, Held

\* After a step that leaves nobody inside the lock.
LEMMA Released ==
    ASSUME ServerType, SessionInv, lock' = Nil, asked' = asked,
           \A g \in Handlers :
               /\ at'[g] \notin Inside
               /\ at'[g] = "opened" => at[g] = "opened" /\ job'[g] = job[g],
           spool' # Gone =>
               /\ Len(spool') <= Total /\ Prefix(spool') /\ acked' <= Len(spool')
               /\ faults' = 0 /\ crashes' = 0 => Len(spool') \in asked
               /\ stored' # <<>> => Len(spool') = Total,
           StoredOnceAndWhole'
    PROVE  SessionInv' /\ Held' = IF spool' = Gone THEN Gone ELSE Len(spool')
<1>1. LocksHeld' /\ Progress' /\ StoredLast'
  <2>1. LocksHeld'
    BY DEF LocksHeld
  <2>2. Progress'
    BY DEF Progress, Inside
  <2>. QED BY <2>1, <2>2 DEF StoredLast
<1>2. ChunksFit'
  BY DEF SessionInv, ChunksFit, ChunkFits
<1>3. spool' # Gone => Committed' = Len(spool')
  BY DEF Committed
<1>4. SpoolFaithful'
  BY <1>3 DEF SpoolFaithful, SpoolIsPrefix, AcknowledgedKept, CommittedIsChosen, Prefix
<1>5. \A g \in Handlers : at'[g] \notin {"storing", "removing"}
  BY DEF Inside
<1>. QED BY <1>1, <1>2, <1>3, <1>4, <1>5 DEF SessionInv, Held

\* An answer ends the request and its hold on the session.
LEMMA AnswerEnds ==
    ASSUME ServerType, NEW h \in Handlers, NEW answer, NEW n \in 0..Total,
           Answer(h, answer, n)
    PROVE  /\ at' = [at EXCEPT ![h] = "free"] /\ job' = [job EXCEPT ![h] = NoJob]
           /\ at' \in [Handlers -> HandlerPlace] /\ job' \in [Handlers -> Jobs]
           /\ at'[h] = "free" /\ \A g \in Handlers \ {h} : at'[g] = at[g] /\ job'[g] = job[g]
           /\ acked' \in 0..Total /\ (acked' = acked \/ acked' = n)
           /\ answer \notin {"continue", "conflict"} => acked' = acked
           /\ asked' = asked /\ UNCHANGED <<now, crashes, kills, abandoned>>
<1>1. NoJob \in Jobs
  BY EmptySeq DEF NoJob, Jobs
<1>. QED BY <1>1 DEF Answer, ServerType, HandlerPlace, bounds

-------------------------------------------------------------------------------
(* The handlers *)

LEMMA EnterKeeps ==
    ASSUME ServerType, SessionInv, NEW h \in Handlers, Enter(h)
    PROVE  ServerType' /\ SessionInv' /\ Held' \in {Held, Gone}
<1>0. /\ at[h] = "opened" /\ lock = Nil /\ UNCHANGED <<sidecar, spool, touched, stored>>
      /\ faults' \in {faults, faults + 1} /\ faults' \in 0..MaxFaults
  BY DEF Enter, LockFree, server, Fault, NoFault, ServerType
<1>1. ASSUME NEW answer, NEW n \in 0..Total, Answer(h, answer, n), lock' = lock,
             spool # Gone /\ answer \in {"continue", "conflict"} => n = Len(spool)
      PROVE  ServerType' /\ SessionInv' /\ Held' \in {Held, Gone}
  <2>1. ServerType'
    BY <1>0, <1>1, AnswerEnds DEF ServerType
  <2>2. spool # Gone => acked' <= Committed
    BY <1>0, <1>1, AnswerEnds, HeldType
       DEF SessionInv, SpoolFaithful, AcknowledgedKept, Committed
  <2>3. \A g \in Handlers : \/ at'[g] = at[g] /\ job'[g] = job[g]
                            \/ at[g] \notin Inside /\ at'[g] = "free"
    BY <1>0, <1>1, AnswerEnds DEF Inside
  <2>. QED BY <1>0, <1>1, <2>1, <2>2, <2>3, AnswerEnds, SessionKeeps DEF Inside
<1>2. CASE /\ spool # Gone /\ StartsAtEnd(h) /\ lock' = h
           /\ job' = [job EXCEPT ![h].offset = Len(spool)] /\ Proceed(h, "copying")
  <2>1. /\ at' = [at EXCEPT ![h] = "copying"] /\ UNCHANGED <<acked, asked>>
        /\ UNCHANGED <<now, crashes, kills, abandoned>>
    BY <1>2 DEF Proceed, bounds
  <2>2. /\ job[h].start = Len(spool) /\ Len(spool) \in 0..Total
        /\ Committed = Len(spool)
    BY <1>0, <1>2, HeldType DEF StartsAtEnd, Committed
  <2>3. ServerType'
    BY <1>0, <1>2, <2>1, <2>2 DEF ServerType, Jobs, HandlerPlace
  <2>4. at'[h] = "copying" /\ \A g \in Handlers \ {h} : at'[g] = at[g] /\ job'[g] = job[g]
    BY <1>2, <2>1 DEF ServerType
  <2>5. \A g \in Handlers : at[g] \notin Inside
    BY <1>0 DEF SessionInv, LocksHeld
  <2>6. /\ job'[h].start = job[h].start /\ job'[h].want = job[h].want
        /\ job'[h].got = job[h].got /\ job'[h].offset = Len(spool)
    BY <1>2 DEF ServerType, Jobs
  <2>7. LocksHeld'
    BY <1>2, <2>4, <2>5 DEF LocksHeld, Inside
  <2>8. ChunksFit'
    BY <1>0, <2>1, <2>4, <2>6 DEF SessionInv, ChunksFit, ChunkFits, Inside
  <2>9. job[h].got = 0 /\ stored = <<>>
    <3>1. ChunkFits(h)
      BY <1>0 DEF SessionInv, ChunksFit
    <3>. QED BY <1>0, <1>2, <2>2, <3>1 DEF SessionInv, StoredLast, ChunkFits
  <2>10. Progress'
    <3>1. /\ job'[h].offset = job'[h].start /\ job'[h].got <= job'[h].want
          /\ spool' # Gone => Len(spool') = job'[h].offset + job'[h].got
      BY <1>0, <2>2, <2>6, <2>9 DEF SessionInv, ChunksFit, ChunkFits, ServerType, Jobs
    <3>. QED BY <1>0, <2>4, <2>5, <2>9, <3>1 DEF Progress, Inside
  <2>11. spool' = spool /\ stored' = stored /\ Committed' = Committed
    BY <1>0, <1>2, <2>2, <2>4, <2>6 DEF Committed
  <2>12. StoredLast' /\ StoredOnceAndWhole' /\ SpoolIsPrefix'
    BY <2>11 DEF SessionInv, StoredLast, StoredOnceAndWhole, SpoolFaithful, SpoolIsPrefix
  <2>13. AcknowledgedKept' /\ CommittedIsChosen'
    <3>1. faults' = 0 => faults = 0
      BY <1>0 DEF ServerType
    <3>. QED BY <2>1, <2>11, <3>1
             DEF SessionInv, SpoolFaithful, AcknowledgedKept, CommittedIsChosen
  <2>14. Held' = Held
    BY <2>4, <2>5, <2>11 DEF Held, Inside
  <2>. QED BY <2>3, <2>7, <2>8, <2>10, <2>12, <2>13, <2>14 DEF SessionInv, SpoolFaithful
<1>. QED BY <1>0, <1>1, <1>2, HeldType DEF Enter

\* Who is inside has the lock to himself.
LEMMA Alone ==
    ASSUME SessionInv, NEW h \in Handlers, at[h] \in Inside
    PROVE  lock = h /\ \A g \in Handlers \ {h} : at[g] \notin Inside
BY DEF SessionInv, LocksHeld

\* A handler that stays inside the lock and has done its work on the session.
LEMMA Advances ==
    ASSUME ServerType, SessionInv, NEW h \in Handlers, at[h] \in Inside, at'[h] \in Inside,
           \A g \in Handlers \ {h} : at'[g] = at[g] /\ job'[g] = job[g],
           lock' = lock, acked' = acked, asked' = asked,
           faults' = 0 => faults = 0, crashes' = crashes,
           job'[h].start = job[h].start, job'[h].want = job[h].want,
           spool' # Gone => /\ spool # Gone /\ Len(spool') <= Total /\ Prefix(spool')
                            /\ Committed' >= Committed
                            /\ Committed' \in {Committed, job[h].start + job[h].want}
                            /\ Committed' \in Nat
                            /\ stored' # <<>> => Len(spool') = Total,
           Progress', StoredOnceAndWhole'
    PROVE  SessionInv'
<1>1. lock = h /\ \A g \in Handlers \ {h} : at[g] \notin Inside
  BY Alone
<1>2. LocksHeld'
  BY <1>1 DEF LocksHeld
<1>3. ChunksFit'
  BY <1>1 DEF SessionInv, ChunksFit, ChunkFits, Inside
<1>4. StoredLast' /\ SpoolIsPrefix'
  BY DEF StoredLast, SpoolIsPrefix, Prefix
<1>5. AcknowledgedKept'
  <2>. SUFFICES ASSUME spool' # Gone PROVE acked <= Committed'
    BY DEF AcknowledgedKept
  <2>1. acked <= Committed /\ Committed \in Nat /\ acked \in Nat
    BY HeldType DEF SessionInv, SpoolFaithful, AcknowledgedKept, ServerType
  <2>. QED BY <2>1
<1>6. CommittedIsChosen'
  BY DEF SessionInv, SpoolFaithful, CommittedIsChosen, ChunksFit, ChunkFits
<1>. QED BY <1>2, <1>3, <1>4, <1>5, <1>6 DEF SessionInv, SpoolFaithful

LEMMA CopyKeeps ==
    ASSUME ServerType, SessionInv, NEW h \in Handlers, Copy(h)
    PROVE  ServerType' /\ SessionInv' /\ Held' \in {Held, Gone}
<1>. DEFINE j == job[h]
<1>1. /\ at[h] = "copying" /\ j \in Jobs /\ j.got < j.want
      /\ at' = [at EXCEPT ![h] = "copying"] /\ job' = [job EXCEPT ![h].got = @ + 1]
      /\ touched' = now
      /\ UNCHANGED <<sidecar, stored, lock, faults, acked, asked, now, crashes, kills, abandoned>>
  BY DEF Copy, Proceed, ServerType, bounds
<1>0. j.start \in Nat /\ j.want \in Nat /\ j.offset \in Nat /\ j.got \in Nat /\ j.got < j.want
  BY <1>1 DEF Jobs
<1>2. /\ j.offset = j.start /\ j.start + j.want <= Total /\ stored = <<>>
      /\ spool # Gone => Len(spool) = j.offset + j.got
  BY <1>1 DEF SessionInv, ChunksFit, ChunkFits, Progress, Inside
<1>3. spool # Gone =>
          /\ spool \in Seq(0..Total) /\ Prefix(spool) /\ Len(spool) < Total
          /\ spool' = Written(spool, Len(spool) + 1, Len(spool) + 1)
  <2>. SUFFICES ASSUME spool # Gone
                PROVE  /\ spool \in Seq(0..Total) /\ Prefix(spool) /\ Len(spool) < Total
                       /\ spool' = Written(spool, Len(spool) + 1, Len(spool) + 1)
    OBVIOUS
  <2>1. spool \in Seq(0..Total) /\ Prefix(spool)
    BY DEF SessionInv, SpoolFaithful, SpoolIsPrefix, Prefix, ServerType
  <2>2. /\ Len(spool) = j.offset + j.got /\ j.offset + j.got + 1 = Len(spool) + 1
        /\ j.start + j.got + 1 = Len(spool) + 1 /\ Len(spool) < Total
    BY <1>2, <1>0
  <2>. QED BY <2>1, <2>2 DEF Copy, OnSpool
<1>4. spool # Gone =>
          spool' \in Seq(0..Total) /\ Len(spool') = j.offset + j.got + 1 /\ Prefix(spool')
  BY <1>2, <1>3, WrittenExtends DEF Jobs
<1>5. spool = Gone => spool' = Gone
  BY DEF Copy, OnSpool
<1>6. /\ job' \in [Handlers -> Jobs] /\ job'[h] = [j EXCEPT !.got = @ + 1]
      /\ at'[h] = "copying" /\ \A g \in Handlers \ {h} : at'[g] = at[g] /\ job'[g] = job[g]
  <2>1. j.got + 1 \in 0..Total
    BY <1>1 DEF Jobs
  <2>2. [j EXCEPT !.got = @ + 1] \in Jobs
    BY <1>1, <2>1 DEF Jobs
  <2>. QED BY <1>1, <2>2 DEF ServerType
<1>7. /\ job'[h].start = j.start /\ job'[h].want = j.want /\ job'[h].offset = j.offset
      /\ job'[h].got = j.got + 1
  BY <1>1, <1>6 DEF Jobs
<1>8. ServerType'
  BY <1>1, <1>4, <1>5, <1>6 DEF ServerType
<1>9. lock = h /\ \A g \in Handlers \ {h} : at[g] \notin Inside
  BY <1>1, Alone DEF Inside
<1>10. Progress'
  <2>1. /\ job'[h].offset = job'[h].start /\ job'[h].got <= job'[h].want
        /\ spool' # Gone => Len(spool') = job'[h].offset + job'[h].got
    <3>1. j.got + 1 <= j.want /\ j.offset + j.got + 1 = j.offset + (j.got + 1)
      BY <1>0
    <3>2. spool' # Gone => Len(spool') = j.offset + j.got + 1
      BY <1>4, <1>5
    <3>. HIDE DEF j
    <3>. QED BY <1>2, <1>7, <3>1, <3>2
  <2>. QED BY <1>1, <1>2, <1>6, <1>9, <2>1 DEF Progress, Inside
<1>11. Committed = j.offset /\ Committed' = j.offset
  BY <1>1, <1>6, <1>7, <1>9 DEF Committed
<1>12. spool' # Gone => Len(spool') <= Total /\ spool # Gone
  BY <1>0, <1>2, <1>4, <1>5
<1>13. StoredOnceAndWhole'
  BY <1>1 DEF SessionInv, StoredOnceAndWhole
<1>14. SessionInv'
  <2>1. spool' # Gone => /\ spool # Gone /\ Len(spool') <= Total /\ Prefix(spool')
                         /\ stored' # <<>> => Len(spool') = Total
    BY <1>1, <1>2, <1>4, <1>5, <1>12
  <2>2. /\ Committed' >= Committed /\ Committed' \in Nat
        /\ Committed' \in {Committed, j.start + j.want}
    BY <1>0, <1>11
  <2>3. at[h] \in Inside /\ at'[h] \in Inside
    BY <1>1, <1>6 DEF Inside
  <2>. QED BY <1>1, <1>6, <1>7, <1>10, <1>13, <2>1, <2>2, <2>3, Advances
<1>15. Held' \in {Held, Gone}
  BY <1>1, <1>5, <1>6, <1>9, <1>11 DEF Held, Inside
<1>. QED BY <1>8, <1>14, <1>15

\* The answer of a handler inside the lock, which it releases.
LEMMA AnswerReleases ==
    ASSUME ServerType, SessionInv, NEW h \in Handlers, at[h] \in Inside, NEW answer,
           NEW n \in 0..Total, Answer(h, answer, n), lock' = Nil,
           StoredOnceAndWhole',
           spool' # Gone =>
               /\ Len(spool') <= Total /\ Prefix(spool') /\ acked <= Len(spool')
               /\ answer \in {"continue", "conflict"} => n <= Len(spool')
               /\ faults' = 0 /\ crashes' = 0 => Len(spool') \in asked
               /\ stored' # <<>> => Len(spool') = Total
    PROVE  SessionInv' /\ Held' = IF spool' = Gone THEN Gone ELSE Len(spool')
<1>1. \A g \in Handlers :
          /\ at'[g] \notin Inside
          /\ at'[g] = "opened" => at[g] = "opened" /\ job'[g] = job[g]
  BY AnswerEnds, Alone DEF Inside
<1>. QED BY <1>1, AnswerEnds, Released

LEMMA CopyBreaksKeeps ==
    ASSUME ServerType, SessionInv, NEW h \in Handlers, CopyBreaks(h)
    PROVE  /\ ServerType' /\ SessionInv' /\ stored' = stored
           /\ Held' = Gone \/ (Held \in 0..Total /\ Held' \in Held..Total)
<1>. DEFINE j == job[h]
<1>1. /\ at[h] = "copying" /\ j \in Jobs /\ j.got < j.want /\ lock' = Nil
      /\ Answer(h, "again", 0) /\ touched' = now /\ UNCHANGED <<sidecar, stored>>
      /\ faults' \in 0..MaxFaults
      /\ \/ spool' = IF spool = Gone THEN Gone ELSE Truncated(spool, j.offset)
         \/ faults' = faults + 1 /\ spool' = spool
  BY DEF CopyBreaks, Unlock, ServerType, RollBack, OnSpool, Fault, NoFault
<1>2. /\ j.offset = j.start /\ j.start + j.want <= Total /\ j.start \in asked
      /\ spool # Gone => Len(spool) = j.offset + j.got
      /\ lock = h /\ at[h] \notin {"storing", "removing"} /\ stored = <<>>
  BY <1>1, Alone DEF SessionInv, ChunksFit, ChunkFits, Progress, Inside
<1>3. /\ j.offset \in Nat /\ j.got \in Nat /\ faults \in Nat /\ Committed = j.offset
      /\ spool # Gone => spool \in Seq(0..Total) /\ Prefix(spool) /\ acked <= j.offset
  BY <1>1, <1>2 DEF SessionInv, SpoolFaithful, SpoolIsPrefix, AcknowledgedKept, Prefix,
                    ServerType, Jobs, Committed
<1>4. spool' # Gone =>
          /\ spool # Gone /\ spool' \in Seq(0..Total) /\ Prefix(spool')
          /\ Len(spool') \in j.offset..Total
          /\ faults' = 0 => Len(spool') = j.offset
  <2>1. spool # Gone => /\ Truncated(spool, j.offset) \in Seq(0..Total)
                        /\ Len(Truncated(spool, j.offset)) = j.offset
                        /\ Prefix(Truncated(spool, j.offset))
    BY <1>2, <1>3, TruncatedKeeps
  <2>2. spool # Gone => Len(spool) \in j.offset..Total
    BY <1>1, <1>2, <1>3, HeldType
  <2>. QED BY <1>1, <1>3, <2>1, <2>2
<1>5. acked \in Nat /\ 0 \in 0..Total /\ StoredOnceAndWhole'
  BY <1>1 DEF ServerType, SessionInv, StoredOnceAndWhole
<1>6. SessionInv' /\ Held' = IF spool' = Gone THEN Gone ELSE Len(spool')
  BY <1>1, <1>2, <1>3, <1>4, <1>5, AnswerReleases DEF Inside
<1>7. ServerType'
  <2>1. touched' \in Nat /\ lock' = Nil /\ spool' \in Seq(0..Total) \cup {Gone}
        /\ UNCHANGED <<sidecar, stored>> /\ faults' \in 0..MaxFaults
    BY <1>1, <1>4 DEF ServerType
  <2>2. /\ at' \in [Handlers -> HandlerPlace] /\ job' \in [Handlers -> Jobs]
        /\ acked' \in 0..Total /\ asked' = asked /\ UNCHANGED <<now, crashes, kills, abandoned>>
    BY <1>1, <1>5, AnswerEnds
  <2>. QED BY <2>1, <2>2 DEF ServerType
<1>8. spool # Gone => Held = j.offset
  BY <1>1, <1>2, <1>3, Alone DEF Held, Inside
<1>. QED BY <1>1, <1>3, <1>4, <1>6, <1>7, <1>8

LEMMA CopyDoneKeeps ==
    ASSUME ServerType, SessionInv, NEW h \in Handlers, CopyDone(h)
    PROVE  /\ ServerType' /\ SessionInv' /\ stored' = stored
           /\ Held' = Gone \/ (Held \in 0..Total /\ Held' \in Held..Total)
<1>. DEFINE j == job[h]
            end == j.offset + j.want
<1>0. /\ j.start \in Nat /\ j.want \in Nat /\ j.offset \in Nat /\ j.got \in Nat
      /\ at[h] = "copying" /\ j.got = j.want
      /\ UNCHANGED <<sidecar, spool, touched, stored>>
      /\ faults' \in {faults, faults + 1} /\ faults' \in 0..MaxFaults
  BY DEF CopyDone, ServerType, Jobs, server, Fault, NoFault
<1>1. /\ j.offset = j.start /\ end <= Total /\ end \in asked /\ stored = <<>>
      /\ spool # Gone => Len(spool) = end
      /\ lock = h /\ \A g \in Handlers \ {h} : at[g] \notin Inside
      /\ Committed = j.offset /\ end \in 0..Total
  <2>1. lock = h /\ \A g \in Handlers \ {h} : at[g] \notin Inside
    BY <1>0, Alone DEF Inside
  <2>. QED BY <1>0, <2>1 DEF SessionInv, ChunksFit, ChunkFits, Progress, Inside, Committed
<1>2. spool # Gone => spool \in Seq(0..Total) /\ Prefix(spool) /\ acked <= end
  BY <1>0, <1>1 DEF SessionInv, SpoolFaithful, SpoolIsPrefix, AcknowledgedKept, Prefix, ServerType
<1>3. Held = IF spool = Gone THEN Gone ELSE j.offset
  BY <1>0, <1>1 DEF Held, Inside
<1>4. StoredOnceAndWhole'
  BY <1>0 DEF SessionInv, StoredOnceAndWhole
<1>5. ASSUME NEW answer, NEW n \in 0..Total, Answer(h, answer, n), Unlock, n <= end
      PROVE  /\ ServerType' /\ SessionInv'
             /\ Held' = IF spool' = Gone THEN Gone ELSE Len(spool')
  <2>1. ServerType'
    BY <1>0, <1>5, AnswerEnds DEF ServerType, Unlock
  <2>2. at[h] \in Inside /\ lock' = Nil
    BY <1>0, <1>5 DEF Inside, Unlock
  <2>3. spool' # Gone =>
               /\ Len(spool') <= Total /\ Prefix(spool') /\ acked <= Len(spool')
               /\ n <= Len(spool') /\ Len(spool') \in asked
               /\ stored' # <<>> => Len(spool') = Total
    BY <1>0, <1>1, <1>2, <1>5
  <2>. QED BY <1>4, <1>5, <2>1, <2>2, <2>3, AnswerReleases
<1>6. CASE end >= Total /\ NoFault /\ Proceed(h, "finishing") /\ UNCHANGED <<lock, job>>
  <2>1. /\ at' = [at EXCEPT ![h] = "finishing"] /\ at'[h] = "finishing"
        /\ UNCHANGED <<faults, lock, job, acked, asked, now, crashes, kills, abandoned>>
        /\ \A g \in Handlers \ {h} : at'[g] = at[g] /\ job'[g] = job[g]
    BY <1>6 DEF Proceed, NoFault, bounds, ServerType
  <2>2. ServerType'
    BY <1>0, <2>1 DEF ServerType, HandlerPlace
  <2>3. end = Total
    BY <1>1, <1>6
  <2>4. Progress'
    BY <1>0, <1>1, <2>1, <2>3 DEF Progress, Inside
  <2>5. spool' # Gone => Committed' = end
    BY <1>0, <1>1, <2>1 DEF Committed
  <2>6. spool' # Gone => /\ spool # Gone /\ Len(spool') <= Total /\ Prefix(spool')
                         /\ Committed' >= Committed /\ Committed' \in Nat
                         /\ Committed' \in {Committed, j.start + j.want}
                         /\ stored' # <<>> => Len(spool') = Total
    BY <1>0, <1>1, <1>2, <2>5
  <2>7. at[h] \in Inside /\ at'[h] \in Inside
    BY <1>0, <2>1 DEF Inside
  <2>8. SessionInv'
    BY <1>4, <2>1, <2>4, <2>6, <2>7, Advances
  <2>9. Held' = IF spool' = Gone THEN Gone ELSE end
    BY <1>0, <1>1, <2>1, <2>5 DEF Held, Inside
  <2>. QED BY <1>0, <1>1, <1>3, <2>2, <2>8, <2>9
<1>7. CASE Answer(h, "again", 0) /\ Unlock
  BY <1>0, <1>1, <1>3, <1>5, <1>7
<1>8. CASE Answer(h, "continue", end) /\ Unlock
  BY <1>0, <1>1, <1>3, <1>5, <1>8
<1>. QED BY <1>6, <1>7, <1>8 DEF CopyDone

LEMMA FinishKeeps ==
    ASSUME ServerType, SessionInv, NEW h \in Handlers, Finish(h)
    PROVE  ServerType' /\ SessionInv' /\ stored' = stored /\ Held' \in {Held, Gone}
<1>0. /\ at[h] = "finishing" /\ UNCHANGED <<touched, stored>> /\ 0 \in 0..Total
      /\ faults' \in {faults, faults + 1} /\ faults' \in 0..MaxFaults
      /\ lock = h /\ \A g \in Handlers \ {h} : at[g] \notin Inside
      /\ at[h] \in Inside
  BY Alone DEF Finish, ServerType, Fault, NoFault, Inside
<1>1. /\ stored = <<>> /\ Committed = Len(spool) /\ Held = IF spool = Gone THEN Gone ELSE Len(spool)
      /\ spool # Gone => Len(spool) = Total
  BY <1>0 DEF SessionInv, Progress, Inside, Committed, Held
<1>2. spool # Gone =>
          /\ spool \in Seq(0..Total) /\ Prefix(spool) /\ acked <= Len(spool)
          /\ faults = 0 /\ crashes = 0 => Len(spool) \in asked
  BY <1>1 DEF SessionInv, SpoolFaithful, SpoolIsPrefix, AcknowledgedKept, CommittedIsChosen,
              Prefix, ServerType
<1>3. StoredOnceAndWhole'
  BY <1>0 DEF SessionInv, StoredOnceAndWhole
<1>4. ASSUME NEW answer, answer \notin {"continue", "conflict"}, Answer(h, answer, 0), Unlock,
             RemoveSession \/ UNCHANGED <<sidecar, spool>>
      PROVE  ServerType' /\ SessionInv' /\ Held' \in {Held, Gone}
  <2>1. ServerType'
    <3>1. /\ sidecar' \in {"never", "present", "removed"}
          /\ spool' \in Seq(0..Total) \cup {Gone} /\ lock' = Nil
      BY <1>4 DEF ServerType, Unlock, RemoveSession
    <3>. QED BY <1>0, <1>4, <3>1, AnswerEnds DEF ServerType
  <2>2. spool' # Gone => spool' = spool /\ spool # Gone
    BY <1>4 DEF RemoveSession
  <2>3. crashes' = crashes /\ lock' = Nil
    BY <1>0, <1>4, AnswerEnds DEF Unlock
  <2>4. faults' = 0 => faults = 0
    BY <1>0 DEF ServerType
  <2>5. spool' # Gone =>
               /\ Len(spool') <= Total /\ Prefix(spool') /\ acked <= Len(spool')
               /\ faults' = 0 /\ crashes' = 0 => Len(spool') \in asked
               /\ stored' # <<>> => Len(spool') = Total
    BY <1>0, <1>1, <1>2, <2>2, <2>3, <2>4
  <2>6. SessionInv' /\ Held' = IF spool' = Gone THEN Gone ELSE Len(spool')
    BY <1>0, <1>3, <1>4, <2>3, <2>5, AnswerReleases
  <2>. QED BY <1>1, <2>1, <2>2, <2>6
<1>5. CASE /\ spool # Gone /\ NoFault /\ job' = [job EXCEPT ![h].file = spool]
           /\ Proceed(h, "storing") /\ UNCHANGED <<lock, sidecar, spool>>
  <2>1. /\ at' = [at EXCEPT ![h] = "storing"] /\ at'[h] = "storing"
        /\ UNCHANGED <<faults, lock, spool, acked, asked, now, crashes, kills, abandoned>>
        /\ \A g \in Handlers \ {h} : at'[g] = at[g] /\ job'[g] = job[g]
    BY <1>5 DEF Proceed, NoFault, bounds, ServerType
  <2>2. /\ job' \in [Handlers -> Jobs] /\ job'[h].file = spool
        /\ job'[h].start = job[h].start /\ job'[h].want = job[h].want
    BY <1>2, <1>5 DEF ServerType, Jobs
  <2>3. ServerType'
    BY <1>0, <1>5, <2>1, <2>2 DEF ServerType, HandlerPlace
  <2>4. Whole(spool)
    BY <1>1, <1>2, <1>5, FullIsWhole
  <2>5. Whole(job[h].file)'
    BY <2>2, <2>4 DEF Whole
  <2>6. Progress'
    BY <1>0, <1>1, <2>1, <2>5 DEF Progress, Inside
  <2>7. Committed' = Committed /\ Committed \in Nat /\ Len(spool) = Total
    BY <1>0, <1>1, <1>5, <2>1 DEF Committed
  <2>8. at'[h] \in Inside
    BY <2>1 DEF Inside
  <2>9. spool' # Gone => /\ spool # Gone /\ Len(spool') <= Total /\ Prefix(spool')
                         /\ Committed' >= Committed /\ Committed' \in Nat
                         /\ Committed' \in {Committed, job[h].start + job[h].want}
                         /\ stored' # <<>> => Len(spool') = Total
    BY <1>1, <1>2, <2>1, <2>7
  <2>10. SessionInv'
    BY <1>0, <1>3, <2>1, <2>2, <2>6, <2>8, <2>9, Advances
  <2>11. Held' = Total
    BY <2>1 DEF Held
  <2>. QED BY <1>0, <1>1, <1>5, <2>3, <2>7, <2>10, <2>11
<1>. QED BY <1>0, <1>4, <1>5 DEF Finish

LEMMA StoreKeeps ==
    ASSUME ServerType, SessionInv, NEW h \in Handlers, Store(h)
    PROVE  /\ ServerType' /\ SessionInv' /\ Held = Total /\ stored = <<>>
           /\ \/ stored' # <<>> /\ Held' = Total /\ UNCHANGED pc
              \/ stored' = stored /\ Held' \in {Total, Gone} /\ Answer(h, "again", 0)
<1>0. /\ at[h] = "storing" /\ UNCHANGED <<sidecar, spool, touched>> /\ 0 \in 0..Total
      /\ faults' \in {faults, faults + 1} /\ faults' \in 0..MaxFaults
      /\ lock = h /\ \A g \in Handlers \ {h} : at[g] \notin Inside
      /\ at[h] \in Inside
  BY Alone DEF Store, ServerType, Fault, NoFault, Inside
<1>1. /\ stored = <<>> /\ Committed = Len(spool) /\ Held = Total
      /\ spool # Gone => Len(spool) = Total
      /\ Whole(job[h].file) /\ job[h].file \in Seq(0..Total)
  BY <1>0 DEF SessionInv, Progress, Inside, Committed, Held, ServerType, Jobs
<1>2. spool # Gone =>
          /\ spool \in Seq(0..Total) /\ Prefix(spool) /\ acked <= Len(spool)
          /\ faults = 0 /\ crashes = 0 => Len(spool) \in asked
  BY <1>1 DEF SessionInv, SpoolFaithful, SpoolIsPrefix, AcknowledgedKept, CommittedIsChosen,
              Prefix, ServerType
<1>3. CASE Answer(h, "again", 0) /\ Unlock /\ UNCHANGED stored
  <2>1. ServerType'
    BY <1>0, <1>3, AnswerEnds DEF ServerType, Unlock
  <2>2. crashes' = crashes /\ lock' = Nil /\ StoredOnceAndWhole'
    BY <1>0, <1>3, AnswerEnds DEF Unlock, SessionInv, StoredOnceAndWhole
  <2>3. faults' = 0 => faults = 0
    BY <1>0 DEF ServerType
  <2>4. spool' # Gone =>
               /\ Len(spool') <= Total /\ Prefix(spool') /\ acked <= Len(spool')
               /\ faults' = 0 /\ crashes' = 0 => Len(spool') \in asked
               /\ stored' # <<>> => Len(spool') = Total
    BY <1>0, <1>1, <1>2, <2>2, <2>3
  <2>5. SessionInv' /\ Held' = IF spool' = Gone THEN Gone ELSE Len(spool')
    BY <1>0, <1>3, <2>2, <2>4, AnswerReleases
  <2>. QED BY <1>0, <1>1, <1>3, <2>1, <2>5
<1>4. CASE /\ NoFault /\ stored' = Append(stored, job[h].file)
           /\ Proceed(h, "removing") /\ UNCHANGED <<lock, job>>
  <2>1. /\ at' = [at EXCEPT ![h] = "removing"] /\ at'[h] = "removing"
        /\ UNCHANGED <<faults, lock, spool, job, acked, asked, now, crashes, kills, abandoned, pc>>
        /\ \A g \in Handlers \ {h} : at'[g] = at[g] /\ job'[g] = job[g]
    BY <1>0, <1>4 DEF Proceed, NoFault, bounds, client, ServerType
  <2>2. /\ stored' \in Seq(Seq(0..Total)) /\ stored' # <<>> /\ Len(stored') = 1
        /\ DOMAIN stored' = {1} /\ stored'[1] = job[h].file
    BY <1>1, <1>4, AppendOnce
  <2>3. ServerType'
    BY <1>0, <2>1, <2>2 DEF ServerType, HandlerPlace
  <2>4. StoredOnceAndWhole'
    BY <1>1, <2>2 DEF StoredOnceAndWhole, Whole
  <2>5. Progress'
    BY <1>0, <1>1, <2>1, <2>2 DEF Progress, Inside
  <2>6. spool' # Gone => Committed' = Committed /\ Committed \in Nat
    BY <1>0, <1>1, <2>1 DEF Committed
  <2>7. at'[h] \in Inside
    BY <2>1 DEF Inside
  <2>8. spool' # Gone => /\ spool # Gone /\ Len(spool') <= Total /\ Prefix(spool')
                         /\ Committed' >= Committed /\ Committed' \in Nat
                         /\ Committed' \in {Committed, job[h].start + job[h].want}
                         /\ stored' # <<>> => Len(spool') = Total
    BY <1>1, <1>2, <2>1, <2>6
  <2>9. SessionInv'
    BY <1>0, <2>1, <2>4, <2>5, <2>7, <2>8, Advances
  <2>10. Held' = Total
    BY <2>1 DEF Held
  <2>. QED BY <1>1, <2>1, <2>2, <2>3, <2>9, <2>10
<1>. QED BY <1>3, <1>4 DEF Store

LEMMA RemoveKeeps ==
    ASSUME ServerType, SessionInv, NEW h \in Handlers, Remove(h)
    PROVE  /\ ServerType' /\ SessionInv' /\ Held = Total /\ stored # <<>> /\ stored' = stored
           /\ Held' \in {Total, Gone}
<1>0. /\ at[h] = "removing" /\ UNCHANGED <<touched, stored>> /\ 0 \in 0..Total
      /\ faults' \in {faults, faults + 1} /\ faults' \in 0..MaxFaults
      /\ at[h] \in Inside /\ lock = h
      /\ Answer(h, "link", 0) /\ lock' = Nil
      /\ RemoveSession \/ UNCHANGED <<sidecar, spool>>
  BY Alone DEF Remove, ServerType, Fault, NoFault, Inside, Unlock
<1>1. /\ stored # <<>> /\ Committed = Len(spool) /\ Held = Total
      /\ spool # Gone => Len(spool) = Total
  BY <1>0 DEF SessionInv, Progress, Inside, Committed, Held
<1>2. spool # Gone =>
          /\ spool \in Seq(0..Total) /\ Prefix(spool) /\ acked <= Len(spool)
          /\ faults = 0 /\ crashes = 0 => Len(spool) \in asked
  BY <1>1 DEF SessionInv, SpoolFaithful, SpoolIsPrefix, AcknowledgedKept, CommittedIsChosen,
              Prefix, ServerType
<1>3. /\ sidecar' \in {"never", "present", "removed"}
      /\ spool' \in Seq(0..Total) \cup {Gone}
      /\ spool' # Gone => spool' = spool
  BY <1>0 DEF ServerType, RemoveSession
<1>4. ServerType'
  BY <1>0, <1>3, AnswerEnds DEF ServerType
<1>5. crashes' = crashes /\ StoredOnceAndWhole' /\ (faults' = 0 => faults = 0)
  BY <1>0, AnswerEnds DEF ServerType, SessionInv, StoredOnceAndWhole
<1>6. spool' # Gone =>
               /\ Len(spool') <= Total /\ Prefix(spool') /\ acked <= Len(spool')
               /\ faults' = 0 /\ crashes' = 0 => Len(spool') \in asked
               /\ stored' # <<>> => Len(spool') = Total
  BY <1>1, <1>2, <1>3, <1>5
<1>7. SessionInv' /\ Held' = IF spool' = Gone THEN Gone ELSE Len(spool')
  BY <1>0, <1>5, <1>6, AnswerReleases
<1>. QED BY <1>0, <1>1, <1>3, <1>4, <1>7

LEMMA DeleteKeeps ==
    ASSUME ServerType, SessionInv, NEW h \in Handlers, OpenToAbandon(h) \/ Abandon(h)
    PROVE  ServerType' /\ SessionInv' /\ stored' = stored /\ Held' \in {Held, Gone}
<1>1. /\ at[h] \in {"free", "abandoning"}
      /\ at' = [at EXCEPT ![h] = IF at[h] = "free" THEN "abandoning" ELSE "free"]
      /\ UNCHANGED <<touched, stored, lock, job, faults, now, crashes, kills, acked, asked>>
      /\ abandoned' \in BOOLEAN
      /\ RemoveSession \/ UNCHANGED <<sidecar, spool>>
  BY DEF OpenToAbandon, Abandon, Proceed, bounds, server, ServerType
<1>2. /\ sidecar' \in {"never", "present", "removed"} /\ spool' \in {spool, Gone}
  BY <1>1 DEF RemoveSession, ServerType
<1>3. ServerType'
  BY <1>1, <1>2 DEF ServerType, HandlerPlace
<1>4. \A g \in Handlers : \/ at'[g] = at[g] /\ job'[g] = job[g]
                          \/ /\ at[g] \notin Inside /\ at'[g] \notin Inside
                             /\ at'[g] = "opened" => ChunkFits(g)'
  BY <1>1 DEF ServerType, Inside
<1>5. spool # Gone => acked' <= Committed
  BY <1>1 DEF SessionInv, SpoolFaithful, AcknowledgedKept
<1>. QED BY <1>1, <1>2, <1>3, <1>4, <1>5, SessionKeeps

-------------------------------------------------------------------------------
(* Everything else *)

LEMMA SendKeeps ==
    ASSUME ServerType, SessionInv, ClientsType, NEW c \in Clients, NEW h \in Handlers, Send(c, h)
    PROVE  ServerType' /\ SessionInv' /\ stored' = stored /\ Held' \in {Held, Gone}
<1>. DEFINE n == Min({ChunkSize, Total - off[c]})
<1>1. /\ off[c] \in Nat /\ off[c] < Total /\ n \in Nat /\ n > 0 /\ off[c] + n <= Total
      /\ at[h] = "free"
  <2>1. off[c] \in Nat /\ off[c] < Total /\ at[h] = "free"
    BY DEF Send, ClientsType
  <2>2. Total - off[c] \in Nat /\ Total - off[c] > 0
    BY <2>1
  <2>. QED BY <2>1, <2>2, SmallerOf
<1>2. /\ asked' = asked \cup {off[c], off[c] + n}
      /\ UNCHANGED <<touched, stored, lock, faults, acked, now, crashes, kills, abandoned>>
      /\ RemoveSession \/ UNCHANGED <<sidecar, spool>>
      /\ \/ UNCHANGED <<at, job>>
         \/ /\ at' = [at EXCEPT ![h] = "opened"]
            /\ job' = [job EXCEPT ![h] = [NoJob EXCEPT !.start = off[c], !.want = n]]
  BY DEF Send, server, bounds
<1>3. /\ sidecar' \in {"never", "present", "removed"} /\ spool' \in {spool, Gone}
      /\ asked' \subseteq 0..Total /\ asked \subseteq asked'
  <2>1. {off[c], off[c] + n} \subseteq 0..Total
    BY <1>1
  <2>. QED BY <1>2, <2>1 DEF RemoveSession, ServerType
<1>4. LET new == [NoJob EXCEPT !.start = off[c], !.want = n]
      IN  new \in Jobs /\ new.start = off[c] /\ new.want = n /\ new.got = 0
  <2>1. <<>> \in Seq(0..Total) /\ off[c] \in 0..Total /\ n \in 0..Total /\ 0 \in 0..Total
    BY <1>1, EmptySeq
  <2>. HIDE DEF n
  <2>2. NoJob \in Jobs /\ NoJob.got = 0
    BY <2>1 DEF NoJob, Jobs
  <2>. QED BY <2>1, <2>2 DEF Jobs
<1>5. /\ at' \in [Handlers -> HandlerPlace] /\ job' \in [Handlers -> Jobs]
      /\ \A g \in Handlers :
             \/ at'[g] = at[g] /\ job'[g] = job[g]
             \/ g = h /\ at'[g] = "opened" /\ job'[g].start = off[c] /\ job'[g].want = n
                      /\ job'[g].got = 0
  BY <1>2, <1>4 DEF ServerType, HandlerPlace
<1>6. ServerType'
  BY <1>2, <1>3, <1>5 DEF ServerType
<1>7. \A g \in Handlers : \/ at'[g] = at[g] /\ job'[g] = job[g]
                          \/ /\ at[g] \notin Inside /\ at'[g] \notin Inside
                             /\ at'[g] = "opened" => ChunkFits(g)'
  BY <1>1, <1>2, <1>5 DEF Inside, ChunkFits
<1>8. spool # Gone => acked' <= Committed
  BY <1>2 DEF SessionInv, SpoolFaithful, AcknowledgedKept
<1>. QED BY <1>2, <1>3, <1>6, <1>7, <1>8, SessionKeeps

\* Clients that do not send, time, and the sweep.
QuietStep ==
    \/ \E c \in Clients : \/ GiveUp(c) \/ Resync(c) \/ Create(c) \/ Rerun(c) \/ Kill(c)
                          \/ ConnectionBreaks(c)
    \/ Tick \/ Sweep

LEMMA QuietKeeps ==
    ASSUME ServerType, SessionInv, QuietStep
    PROVE  ServerType' /\ SessionInv' /\ stored' = stored /\ Held' \in {Held, Gone}
<1>1. /\ UNCHANGED <<touched, stored, lock, at, job, crashes, abandoned, acked, asked>>
      /\ faults' \in {faults, faults + 1} /\ faults' \in 0..MaxFaults
      /\ kills' \in 0..MaxKills /\ now' \in 0..MaxTime
      /\ sidecar' \in {"never", "present", "removed"} /\ spool' \in {spool, Gone}
  <2>1. ASSUME NEW c \in Clients, GiveUp(c) \/ Kill(c) \/ ConnectionBreaks(c) PROVE <1>1!:
    BY <2>1 DEF GiveUp, Kill, ConnectionBreaks, clientOnly, server, handlers, Fault, ServerType
  <2>2. ASSUME NEW c \in Clients, Resync(c) PROVE <1>1!:
    BY <2>2 DEF Resync, RemoveSession, handlers, bounds, Fault, NoFault, ServerType
  <2>3. ASSUME NEW c \in Clients, Create(c) PROVE <1>1!:
    BY <2>3 DEF Create, RemoveSession, handlers, bounds, Fault, NoFault, ServerType
  <2>4. ASSUME NEW c \in Clients, Rerun(c) PROVE <1>1!:
    BY <2>4 DEF Rerun, RemoveSession, handlers, Fault, NoFault, ServerType
  <2>5. CASE Tick
    BY <2>5 DEF Tick, server, handlers, ServerType
  <2>6. CASE Sweep
    BY <2>6 DEF Sweep, handlers, bounds, ServerType
  <2>. QED BY <2>1, <2>2, <2>3, <2>4, <2>5, <2>6 DEF QuietStep
<1>2. ServerType'
  BY <1>1 DEF ServerType
<1>3. spool # Gone => acked' <= Committed
  BY <1>1 DEF SessionInv, SpoolFaithful, AcknowledgedKept
<1>. QED BY <1>1, <1>2, <1>3, SessionKeeps

LEMMA CrashKeeps ==
    ASSUME ServerType, SessionInv, Crash
    PROVE  /\ ServerType' /\ SessionInv' /\ stored' = stored
           /\ Held' = Gone \/ (Held \in 0..Total /\ Held' \in Held..Total)
<1>1. /\ crashes' = crashes + 1 /\ crashes' \in 0..MaxCrashes /\ lock' = Nil
      /\ at' = [h \in Handlers |-> "free"] /\ job' = [h \in Handlers |-> NoJob]
      /\ UNCHANGED <<sidecar, spool, touched, stored, now, kills, abandoned, faults, acked, asked>>
  BY DEF Crash, server, ServerType
<1>2. NoJob \in Jobs
  BY EmptySeq DEF NoJob, Jobs
<1>3. ServerType'
  BY <1>1, <1>2 DEF ServerType, HandlerPlace
<1>4. spool # Gone =>
          /\ Len(spool) \in 0..Total /\ Prefix(spool) /\ Committed \in 0..Len(spool)
          /\ acked <= Len(spool)
          /\ stored # <<>> => Len(spool) = Total
  BY HeldType DEF SessionInv, SpoolFaithful, SpoolIsPrefix, AcknowledgedKept, Prefix,
                  StoredLast, ServerType
<1>5. crashes' # 0 /\ StoredOnceAndWhole'
  BY <1>1 DEF ServerType, SessionInv, StoredOnceAndWhole
<1>6. \A g \in Handlers : at'[g] = "free"
  BY <1>1
<1>7. SessionInv' /\ Held' = IF spool' = Gone THEN Gone ELSE Len(spool')
  <2>1. \A g \in Handlers : /\ at'[g] \notin Inside
                            /\ at'[g] = "opened" => at[g] = "opened" /\ job'[g] = job[g]
    BY <1>6 DEF Inside
  <2>2. spool' # Gone =>
               /\ Len(spool') <= Total /\ Prefix(spool') /\ acked' <= Len(spool')
               /\ faults' = 0 /\ crashes' = 0 => Len(spool') \in asked
               /\ stored' # <<>> => Len(spool') = Total
    <3>1. spool' = spool /\ acked' = acked /\ stored' = stored
      BY <1>1
    <3>. QED BY <1>4, <1>5, <3>1
  <2>. QED BY <1>1, <1>5, <2>1, <2>2, Released
<1>8. spool # Gone => Held \in 0..Len(spool)
  <2>1. CASE \E h \in Handlers : at[h] \in {"storing", "removing"}
    BY <1>4, <2>1 DEF Held, SessionInv, Progress, Inside
  <2>2. CASE ~\E h \in Handlers : at[h] \in {"storing", "removing"}
    BY <1>4, <2>2 DEF Held
  <2>. QED BY <2>1, <2>2
<1>. QED BY <1>1, <1>3, <1>4, <1>7, <1>8

-------------------------------------------------------------------------------
(* The clients *)

\* One client moves and the others do not.
OnlyClient(c) ==
    \A d \in Clients \ {c} :
        pc'[d] = pc[d] /\ off'[d] = off[d] /\ tries'[d] = tries[d] /\ conn'[d] = conn[d]

LEMMA RetryLeaves ==
    ASSUME ClientsType, ClientsGo, NEW c \in Clients, pc[c] = "waiting", Retry(c)
    PROVE  /\ tries' \in [Clients -> 0..Attempts] /\ pc' \in [Clients -> ClientPlace]
           /\ \A d \in Clients \ {c} : pc'[d] = pc[d] /\ tries'[d] = tries[d]
           /\ pc'[c] \in {"failed", "resync"}
           /\ pc'[c] = "resync" => tries'[c] < Attempts
<1>1. tries[c] \in Nat /\ tries[c] < Attempts
  BY DEF ClientsType, ClientsGo
<1>2. tries'[c] = tries[c] + 1 /\ tries' = [tries EXCEPT ![c] = tries[c] + 1]
  BY DEF Retry, ClientsType
<1>3. pc' = [pc EXCEPT ![c] = IF tries[c] + 1 >= Attempts THEN "failed" ELSE "resync"]
  BY DEF Retry
<1>4. tries[c] + 1 \in 0..Attempts
  BY <1>1
<1>. QED BY <1>1, <1>2, <1>3, <1>4 DEF ClientsType, ClientPlace

\* A client that moves as ClientsGo says keeps it.
LEMMA OneClientGoes ==
    ASSUME ClientsType', ClientsGo, NEW c \in Clients, OnlyClient(c),
           pc'[c] \in {"sending", "waiting", "resync"} => tries'[c] < Attempts,
           pc'[c] = "idle" => tries'[c] = 0,
           conn'[c] # Nil => pc'[c] = "waiting"
    PROVE  ClientsGo'
BY DEF ClientsGo, OnlyClient

LEMMA AnswerHeard ==
    ASSUME ClientsType, ClientsGo, NEW h \in Handlers,
           NEW answer \in {"continue", "conflict", "again", "refused", "link"},
           NEW n \in 0..Total, Answer(h, answer, n)
    PROVE  /\ ClientsType' /\ ClientsGo'
           /\ Told => Told'
           /\ Told' => Told \/ answer = "link"
<1>1. CASE UNCHANGED client
  BY <1>1 DEF client, ClientsType, ClientsGo, Told
<1>2. ASSUME NEW c \in Clients, conn[c] = h, Hear(c, answer, n)
      PROVE  /\ ClientsType' /\ ClientsGo'
             /\ Told => Told'
             /\ Told' => Told \/ answer = "link"
  <2>1. /\ pc[c] = "waiting" /\ conn' = [conn EXCEPT ![c] = Nil] /\ pending' \in BOOLEAN
        /\ tries[c] < Attempts
    BY <1>2 DEF ClientsGo, Hear, ClientsType
  <2>2. /\ off' \in [Clients -> 0..Total] /\ tries' \in [Clients -> 0..Attempts]
        /\ pc' \in [Clients -> ClientPlace]
        /\ \A d \in Clients \ {c} : pc'[d] = pc[d] /\ off'[d] = off[d] /\ tries'[d] = tries[d]
        /\ pc'[c] \in {"sending", "failed", "resync", "done"}
        /\ pc'[c] \in {"sending", "resync"} => tries'[c] < Attempts
        /\ pc'[c] = "done" => answer = "link"
    <3>1. CASE answer = "continue"
      <4>1. /\ off' = [off EXCEPT ![c] = n] /\ tries' = [tries EXCEPT ![c] = 0]
            /\ pc' = [pc EXCEPT ![c] = "sending"]
        BY <1>2, <3>1 DEF Hear
      <4>. QED BY <4>1 DEF ClientsType, ClientPlace
    <3>2. CASE answer = "conflict"
      <4>1. off' = [off EXCEPT ![c] = n] /\ Retry(c)
        BY <1>2, <3>2 DEF Hear
      <4>. QED BY <2>1, <4>1, RetryLeaves DEF ClientsType
    <3>3. CASE answer = "again"
      <4>1. off' = off /\ Retry(c)
        BY <1>2, <3>3 DEF Hear
      <4>. QED BY <2>1, <4>1, RetryLeaves DEF ClientsType
    <3>4. CASE answer = "refused"
      <4>1. pc' = [pc EXCEPT ![c] = "failed"] /\ off' = off /\ tries' = tries
        BY <1>2, <3>4 DEF Hear
      <4>. QED BY <4>1 DEF ClientsType, ClientPlace
    <3>5. CASE answer = "link"
      <4>1. pc' = [pc EXCEPT ![c] = "done"] /\ off' = off /\ tries' = tries
        BY <1>2, <3>5 DEF Hear
      <4>. QED BY <3>5, <4>1 DEF ClientsType, ClientPlace
    <3>. QED BY <3>1, <3>2, <3>3, <3>4, <3>5
  <2>3. ClientsType' /\ OnlyClient(c) /\ conn'[c] = Nil
    BY <2>1, <2>2 DEF ClientsType, OnlyClient
  <2>4. ClientsGo'
    BY <2>2, <2>3, OneClientGoes
  <2>. QED BY <2>1, <2>2, <2>3, <2>4 DEF Told
<1>. QED BY <1>1, <1>2 DEF Answer

\* The steps of the clients themselves, which learn of no link.
LEMMA ClientGoes ==
    ASSUME ClientsType, ClientsGo, NEW c \in Clients,
           spool # Gone => Len(spool) \in 0..Total,
           \/ GiveUp(c) \/ Resync(c) \/ Create(c) \/ Rerun(c) \/ Kill(c) \/ ConnectionBreaks(c)
           \/ \E h \in Handlers : Send(c, h)
    PROVE  ClientsType' /\ ClientsGo' /\ (Told' <=> Told)
<1>. DEFINE Moves ==
        /\ pc' \in [Clients -> ClientPlace] /\ off' \in [Clients -> 0..Total]
        /\ tries' \in [Clients -> 0..Attempts] /\ conn' \in [Clients -> Handlers \cup {Nil}]
        /\ pending' \in BOOLEAN /\ OnlyClient(c)
        /\ pc[c] # "done" /\ pc'[c] # "done"
        /\ pc'[c] \in {"sending", "waiting", "resync"} => tries'[c] < Attempts
        /\ pc'[c] = "idle" => tries'[c] = 0
        /\ conn'[c] # Nil => pc'[c] = "waiting"
<1>0. /\ pc[c] \in {"sending", "waiting", "resync"} => tries[c] < Attempts
      /\ pc[c] = "idle" => tries[c] = 0
      /\ conn[c] # Nil => pc[c] = "waiting"
  BY DEF ClientsGo
<1>1. ASSUME GiveUp(c) PROVE Moves
  BY <1>0, <1>1 DEF GiveUp, ClientsType, ClientPlace, OnlyClient
<1>2. ASSUME Resync(c) PROVE Moves
  BY <1>0, <1>2 DEF Resync, StatusKnown, ClientsType, ClientPlace, OnlyClient
<1>3. ASSUME Create(c) PROVE Moves
  <2>1. /\ pc[c] = "idle" /\ UNCHANGED <<off, tries, conn>> /\ pending' \in BOOLEAN
        /\ \/ pc' = [pc EXCEPT ![c] = "sending"]
           \/ pc' = [pc EXCEPT ![c] = "elsewhere"]
    BY <1>3 DEF Create, ClientsType
  <2>2. pc' \in [Clients -> ClientPlace] /\ OnlyClient(c) /\ pc'[c] \in {"sending", "elsewhere"}
    BY <2>1 DEF ClientsType, ClientPlace, OnlyClient
  <2>3. tries[c] = 0 /\ conn[c] = Nil /\ 0 < Attempts
    BY <1>0, <2>1
  <2>. QED BY <2>1, <2>2, <2>3 DEF ClientsType
<1>4. ASSUME Rerun(c) PROVE Moves
  <2>1. /\ tries' = [tries EXCEPT ![c] = 0] /\ conn' = conn
        /\ pc[c] \in {"idle", "failed", "lost"}
    BY <1>4 DEF Rerun
  <2>2. \/ /\ spool # Gone /\ off' = [off EXCEPT ![c] = Len(spool)]
           /\ pc' = [pc EXCEPT ![c] = "sending"] /\ pending' = pending
        \/ /\ pending' = FALSE /\ off' = [off EXCEPT ![c] = 0]
           /\ pc' = [pc EXCEPT ![c] = "elsewhere"]
    BY <1>4 DEF Rerun, StatusKnown
  <2>3. pc' \in [Clients -> ClientPlace] /\ OnlyClient(c) /\ pc'[c] \in {"sending", "elsewhere"}
    BY <2>1, <2>2 DEF ClientsType, ClientPlace, OnlyClient
  <2>4. off' \in [Clients -> 0..Total] /\ pending' \in BOOLEAN
    <3>1. pending' = pending \/ pending' = FALSE
      BY <2>2
    <3>2. pending' \in BOOLEAN
      BY <3>1 DEF ClientsType
    <3>3. \E o \in 0..Total : off' = [off EXCEPT ![c] = o]
      BY <2>2
    <3>. QED BY <3>2, <3>3 DEF ClientsType
  <2>5. tries'[c] = 0 /\ tries' \in [Clients -> 0..Attempts] /\ conn'[c] = Nil /\ 0 < Attempts
    BY <1>0, <2>1 DEF ClientsType
  <2>. QED BY <2>1, <2>3, <2>4, <2>5 DEF ClientsType
<1>5. ASSUME Kill(c) PROVE Moves
  BY <1>0, <1>5 DEF Kill, ClientsType, ClientPlace, OnlyClient
<1>6. ASSUME ConnectionBreaks(c) PROVE Moves
  <2>1. /\ pc[c] = "waiting" /\ conn' = [conn EXCEPT ![c] = Nil] /\ Retry(c)
        /\ off' = off /\ pending' = pending
    BY <1>6 DEF ConnectionBreaks
  <2>. QED BY <2>1, RetryLeaves DEF ClientsType, OnlyClient
<1>7. ASSUME NEW h \in Handlers, Send(c, h) PROVE Moves
  <2>1. /\ pc[c] = "sending" /\ UNCHANGED <<off, tries, pending>>
        /\ \/ conn' = [conn EXCEPT ![c] = h] /\ pc' = [pc EXCEPT ![c] = "waiting"]
           \/ conn' = conn /\ pc' = [pc EXCEPT ![c] = "failed"]
    BY <1>7 DEF Send
  <2>. QED BY <1>0, <2>1 DEF ClientsType, ClientPlace, OnlyClient
<1>8. Moves
  BY <1>1, <1>2, <1>3, <1>4, <1>5, <1>6, <1>7
<1>9. ClientsType' /\ ClientsGo'
  BY <1>8, OneClientGoes DEF ClientsType
<1>. QED BY <1>8, <1>9 DEF Told, OnlyClient

LEMMA CrashHeard ==
    ASSUME ClientsType, ClientsGo, Crash
    PROVE  ClientsType' /\ ClientsGo' /\ (Told' <=> Told)
<1>1. \A c \in Clients :
          /\ tries[c] \in 0..Attempts /\ pc[c] \in ClientPlace
          /\ conn[c] # Nil => pc[c] = "waiting" /\ tries[c] < Attempts
          /\ tries[c] < Attempts => tries[c] + 1 \in 0..Attempts
  BY DEF ClientsType, ClientsGo
<1>2. /\ conn' = [c \in Clients |-> Nil] /\ off' = off /\ pending' = pending
      /\ tries' = [c \in Clients |-> IF conn[c] = Nil THEN tries[c] ELSE tries[c] + 1]
      /\ pc' = [c \in Clients |-> IF conn[c] = Nil THEN pc[c]
                                  ELSE IF tries[c] + 1 >= Attempts THEN "failed" ELSE "resync"]
  BY DEF Crash
<1>3. ClientsType'
  BY <1>1, <1>2 DEF ClientsType, ClientPlace
<1>4. ClientsGo'
  BY <1>1, <1>2 DEF ClientsGo
<1>5. \A c \in Clients : pc'[c] = "done" <=> pc[c] = "done"
  BY <1>1, <1>2
<1>. QED BY <1>3, <1>4, <1>5 DEF Told

\* What the clients hear of a handler's step: nothing, or its answer.
LEMMA HandlerHeard ==
    ASSUME IInv, NEW h \in Handlers, HandlerStep(h) \/ OpenToAbandon(h)
    PROVE  /\ ClientsType' /\ ClientsGo' /\ (Told => Told')
           /\ (Told' => Told) \/ Remove(h)
<1>0. ServerType /\ ClientsType /\ SessionInv /\ ClientsGo /\ 0 \in 0..Total
      /\ (spool # Gone => Len(spool) \in 0..Total)
  BY Halves, HeldType DEF IInv
<1>1. ASSUME UNCHANGED client PROVE ClientsType' /\ ClientsGo' /\ (Told <=> Told')
  BY <1>0, <1>1 DEF client, ClientsType, ClientsGo, Told
<1>2. ASSUME NEW answer \in {"continue", "conflict", "again", "refused"}, NEW n \in 0..Total,
             Answer(h, answer, n)
      PROVE  ClientsType' /\ ClientsGo' /\ (Told <=> Told')
  BY <1>0, <1>2, AnswerHeard
<1>3. CASE Enter(h)
  BY <1>0, <1>1, <1>2, <1>3 DEF Enter, Proceed
<1>4. CASE Copy(h) \/ Abandon(h) \/ OpenToAbandon(h)
  BY <1>1, <1>4 DEF Copy, Abandon, OpenToAbandon, Proceed
<1>5. CASE CopyBreaks(h)
  BY <1>0, <1>2, <1>5 DEF CopyBreaks
<1>6. CASE CopyDone(h)
  <2>1. job[h].offset + job[h].want \in 0..Total
    BY <1>0, <1>6 DEF CopyDone, SessionInv, ChunksFit, ChunkFits, Progress, Inside, ServerType, Jobs
  <2>. QED BY <1>0, <1>1, <1>2, <1>6, <2>1 DEF CopyDone, Proceed
<1>7. CASE Finish(h)
  BY <1>0, <1>1, <1>2, <1>7 DEF Finish, Proceed
<1>8. CASE Store(h)
  BY <1>0, <1>1, <1>2, <1>8 DEF Store, Proceed
<1>9. CASE Remove(h)
  BY <1>0, <1>9, AnswerHeard DEF Remove
<1>. QED BY <1>3, <1>4, <1>5, <1>6, <1>7, <1>8, <1>9 DEF HandlerStep

-------------------------------------------------------------------------------
(* The abstract session *)

\* The session ends, or what it holds grows.
LEMMA GrowsOrDrops ==
    ASSUME Held \in (0..Total) \cup {Gone}, stored' = stored, Told' <=> Told,
           Held' = Gone \/ Held' = Held \/ (Held \in 0..Total /\ Held' \in Held..Total)
    PROVE  [Abstract!Next]_(Abstract!vars)
<1>1. CASE Held' = Held
  BY <1>1 DEF Abstract!vars, Held, Told
<1>2. CASE Held' # Held /\ Held' = Gone
  <2>1. Abstract!Drop
    BY <1>2, Zenon DEF Abstract!Drop, Held, Told
  <2>. QED BY <2>1 DEF Abstract!Next
<1>3. CASE Held' # Held /\ Held' # Gone
  <2>1. Held # Gone /\ Held' \in {n \in 0..Total : n > Held}
    BY <1>3
  <2>2. Abstract!Extend
    BY <2>1, Zenon DEF Abstract!Extend, Held, Told
  <2>. QED BY <2>2 DEF Abstract!Next
<1>. QED BY <1>1, <1>2, <1>3

LEMMA StoresIt ==
    ASSUME Held = Total, Held' = Total, stored = <<>>, stored' # <<>>, Told' <=> Told
    PROVE  [Abstract!Next]_(Abstract!vars)
<1>1. Abstract!Store
  BY DEF Abstract!Store, Held, Told
<1>. QED BY <1>1 DEF Abstract!Next

LEMMA TellsIt ==
    ASSUME Held = Total, Held' \in {Total, Gone}, stored # <<>>, stored' = stored, Told => Told'
    PROVE  [Abstract!Next]_(Abstract!vars)
<1>1. CASE Told'
  <2>1. Abstract!Tell
    BY <1>1 DEF Abstract!Tell, Held, Told
  <2>. QED BY <2>1 DEF Abstract!Next
<1>2. CASE ~Told'
  BY <1>2, GrowsOrDrops
<1>. QED BY <1>1, <1>2

LEMMA StepKeeps ==
    ASSUME IInv, Next
    PROVE  IInv' /\ [Abstract!Next]_(Abstract!vars)
<1>0. /\ ServerType /\ ClientsType /\ SessionInv /\ ClientsGo
      /\ Held \in (0..Total) \cup {Gone} /\ (spool # Gone => Len(spool) \in 0..Total)
  BY Halves, HeldType DEF IInv
<1>1. SUFFICES /\ ServerType' /\ SessionInv' /\ ClientsType' /\ ClientsGo'
               /\ [Abstract!Next]_(Abstract!vars)
  <2>1. ServerType' /\ ClientsType' => TypeOK'
    BY DEF TypeOK, ServerType, ClientsType, Jobs
  <2>. QED BY <2>1 DEF IInv
<1>2. ASSUME NEW h \in Handlers,
             \/ Enter(h) \/ Copy(h) \/ CopyBreaks(h) \/ CopyDone(h) \/ Finish(h)
             \/ OpenToAbandon(h) \/ Abandon(h)
      PROVE  /\ ServerType' /\ SessionInv' /\ ClientsType' /\ ClientsGo'
             /\ [Abstract!Next]_(Abstract!vars)
  <2>1. /\ ServerType' /\ SessionInv' /\ stored' = stored
        /\ Held' = Gone \/ Held' = Held \/ (Held \in 0..Total /\ Held' \in Held..Total)
    <3>1. CASE Enter(h)
      BY <1>0, <3>1, EnterKeeps DEF Enter, server
    <3>2. CASE Copy(h)
      BY <1>0, <3>2, CopyKeeps DEF Copy
    <3>3. CASE CopyBreaks(h)
      BY <1>0, <3>3, CopyBreaksKeeps
    <3>4. CASE CopyDone(h)
      BY <1>0, <3>4, CopyDoneKeeps
    <3>5. CASE Finish(h)
      BY <1>0, <3>5, FinishKeeps
    <3>6. CASE OpenToAbandon(h) \/ Abandon(h)
      BY <1>0, <3>6, DeleteKeeps
    <3>. QED BY <1>2, <3>1, <3>2, <3>3, <3>4, <3>5, <3>6
  <2>2. ~Remove(h)
    <3>1. at[h] # "removing"
      BY <1>2 DEF Enter, Copy, CopyBreaks, CopyDone, Finish, OpenToAbandon, Abandon
    <3>. QED BY <3>1 DEF Remove
  <2>3. ClientsType' /\ ClientsGo' /\ (Told' <=> Told)
    BY <1>2, <2>2, HandlerHeard DEF HandlerStep
  <2>. QED BY <1>0, <2>1, <2>3, GrowsOrDrops
<1>3. ASSUME NEW h \in Handlers, Store(h)
      PROVE  /\ ServerType' /\ SessionInv' /\ ClientsType' /\ ClientsGo'
             /\ [Abstract!Next]_(Abstract!vars)
  <2>1. /\ ServerType' /\ SessionInv' /\ Held = Total /\ stored = <<>>
        /\ \/ stored' # <<>> /\ Held' = Total
           \/ stored' = stored /\ Held' \in {Total, Gone}
    BY <1>0, <1>3, StoreKeeps
  <2>2. ~Remove(h)
    BY <1>3 DEF Store, Remove
  <2>3. ClientsType' /\ ClientsGo' /\ (Told' <=> Told)
    BY <1>3, <2>2, HandlerHeard DEF HandlerStep
  <2>. QED BY <1>0, <2>1, <2>3, GrowsOrDrops, StoresIt
<1>4. ASSUME NEW h \in Handlers, Remove(h)
      PROVE  /\ ServerType' /\ SessionInv' /\ ClientsType' /\ ClientsGo'
             /\ [Abstract!Next]_(Abstract!vars)
  <2>1. /\ ServerType' /\ SessionInv' /\ Held = Total /\ stored # <<>> /\ stored' = stored
        /\ Held' \in {Total, Gone}
    BY <1>0, <1>4, RemoveKeeps
  <2>2. ClientsType' /\ ClientsGo' /\ (Told => Told')
    BY <1>4, HandlerHeard DEF HandlerStep
  <2>. QED BY <2>1, <2>2, TellsIt
<1>5. ASSUME NEW c \in Clients, NEW h \in Handlers, Send(c, h)
      PROVE  /\ ServerType' /\ SessionInv' /\ ClientsType' /\ ClientsGo'
             /\ [Abstract!Next]_(Abstract!vars)
  <2>1. ServerType' /\ SessionInv' /\ stored' = stored /\ Held' \in {Held, Gone}
    BY <1>0, <1>5, SendKeeps
  <2>2. ClientsType' /\ ClientsGo' /\ (Told' <=> Told)
    BY <1>0, <1>5, ClientGoes
  <2>. QED BY <1>0, <2>1, <2>2, GrowsOrDrops
<1>6. ASSUME QuietStep
      PROVE  /\ ServerType' /\ SessionInv' /\ ClientsType' /\ ClientsGo'
             /\ [Abstract!Next]_(Abstract!vars)
  <2>1. ServerType' /\ SessionInv' /\ stored' = stored /\ Held' \in {Held, Gone}
    BY <1>0, <1>6, QuietKeeps
  <2>2. ClientsType' /\ ClientsGo' /\ (Told' <=> Told)
    <3>1. CASE Tick \/ Sweep
      <4>1. UNCHANGED client
        BY <3>1 DEF Tick, Sweep
      <4>. QED BY <1>0, <4>1 DEF client, ClientsType, ClientsGo, Told
    <3>. QED BY <1>0, <1>6, <3>1, ClientGoes DEF QuietStep
  <2>. QED BY <1>0, <2>1, <2>2, GrowsOrDrops
<1>7. ASSUME Crash
      PROVE  /\ ServerType' /\ SessionInv' /\ ClientsType' /\ ClientsGo'
             /\ [Abstract!Next]_(Abstract!vars)
  BY <1>0, <1>7, CrashKeeps, CrashHeard, GrowsOrDrops
<1>. QED BY <1>2, <1>3, <1>4, <1>5, <1>6, <1>7 DEF Next, HandlerStep, ClientStep, QuietStep

LEMMA StutterKeeps ==
    ASSUME IInv, UNCHANGED vars
    PROVE  IInv' /\ [Abstract!Next]_(Abstract!vars)
<1>1. /\ UNCHANGED <<sidecar, spool, touched, stored, lock, at, job, faults, acked, asked>>
      /\ UNCHANGED <<now, crashes, kills, abandoned, pc, off, tries, conn, pending>>
  BY DEF vars, server, handlers, client, bounds
<1>2. TypeOK' /\ ClientsGo' /\ SpoolFaithful'
  BY <1>1 DEF IInv, TypeOK, ClientsGo, SessionInv, SpoolFaithful, SpoolIsPrefix,
              AcknowledgedKept, CommittedIsChosen, Committed
<1>3. LocksHeld' /\ ChunksFit' /\ Progress' /\ StoredLast' /\ StoredOnceAndWhole'
  BY <1>1 DEF IInv, SessionInv, LocksHeld, ChunksFit, ChunkFits, Progress, StoredLast,
              StoredOnceAndWhole
<1>4. UNCHANGED Abstract!vars
  BY <1>1 DEF Abstract!vars, Committed
<1>. QED BY <1>2, <1>3, <1>4 DEF IInv, SessionInv

-------------------------------------------------------------------------------
(* The theorems *)

LEMMA InitInv == Init => IInv
<1>. SUFFICES ASSUME Init PROVE IInv
  OBVIOUS
<1>1. NoJob \in Jobs /\ <<>> \in Seq(0..Total) /\ <<>> \in Seq(Seq(0..Total))
      /\ Len(<<>>) = 0 /\ DOMAIN <<>> = {}
  BY EmptySeq DEF NoJob, Jobs
<1>2. TypeOK
  <2>0. /\ 0 \in 0..Total /\ 0 \in 0..Attempts /\ 0 \in 0..MaxTime /\ {0} \subseteq 0..Total
        /\ 0 \in 0..MaxFaults /\ 0 \in 0..MaxCrashes /\ 0 \in 0..MaxKills
    OBVIOUS
  <2>1. ClientsType
    <3>1. /\ pc \in [Clients -> ClientPlace] /\ off \in [Clients -> 0..Total]
          /\ tries \in [Clients -> 0..Attempts] /\ conn \in [Clients -> Handlers \cup {Nil}]
      BY <2>0 DEF Init, ClientPlace
    <3>2. pending \in BOOLEAN
      BY Zenon DEF Init
    <3>. QED BY <3>1, <3>2 DEF ClientsType
  <2>2. at \in [Handlers -> HandlerPlace] /\ job \in [Handlers -> Jobs]
    BY <1>1 DEF Init, HandlerPlace
  <2>3. ServerType
    <3>1. abandoned \in BOOLEAN
      BY Zenon DEF Init
    <3>2. /\ sidecar = "never" /\ spool = <<>> /\ touched = 0 /\ stored = <<>> /\ lock = Nil
          /\ now = 0 /\ faults = 0 /\ crashes = 0 /\ kills = 0 /\ acked = 0 /\ asked = {0}
      BY DEF Init
    <3>. QED BY <1>1, <2>0, <2>2, <3>1, <3>2 DEF ServerType
  <2>. QED BY <2>1, <2>3, Halves
<1>3. SessionInv
  BY <1>1 DEF Init, SessionInv, LocksHeld, ChunksFit, Progress, Inside, StoredLast,
              SpoolFaithful, SpoolIsPrefix, AcknowledgedKept, CommittedIsChosen, Committed,
              StoredOnceAndWhole
<1>4. ClientsGo
  BY DEF Init, ClientsGo
<1>. QED BY <1>2, <1>3, <1>4 DEF IInv

LEMMA Invariance == Spec => []IInv
<1>1. IInv /\ [Next]_vars => IInv'
  BY StepKeeps, StutterKeeps
<1>. QED BY InitInv, <1>1, PTL DEF Spec

\* Session files, handlers and clients keep their types, whatever is retried,
\* interrupted or swept.
THEOREM TypeCorrect == Spec => []TypeOK
<1>1. IInv => TypeOK
  BY DEF IInv
<1>. QED BY Invariance, <1>1, PTL

\* patchUploadSessionHandler: the spool file is a prefix of the client's file, no
\* rollback goes behind an acknowledged offset, and without faults the session
\* ends between two chunks, however many clients send and are cut off.
THEOREM SpoolIsFaithful == Spec => []SpoolFaithful
<1>1. IInv => SpoolFaithful
  BY DEF IInv, SessionInv
<1>. QED BY Invariance, <1>1, PTL

\* finishUploadSession: the file is stored whole, and never twice.
THEOREM StoredOnce == Spec => []StoredOnceAndWhole
<1>1. IInv => StoredOnceAndWhole
  BY DEF IInv, SessionInv
<1>. QED BY Invariance, <1>1, PTL

\* The handlers, their clients and the sweep together implement a resumable file.
THEOREM SessionIsResumableFile == Spec => ImplementsResumableFile
<1>1. Init => Abstract!Init
  <2>. SUFFICES ASSUME Init PROVE Abstract!Init
    OBVIOUS
  <2>1. Held = 0
    BY EmptySeq DEF Init, Held, Committed
  <2>2. Told = FALSE /\ (stored # <<>>) = FALSE
    BY DEF Init, Told
  <2>. QED BY <2>1, <2>2, Zenon DEF Abstract!Init, Held, Told
<1>2. IInv /\ [Next]_vars => [Abstract!Next]_(Abstract!vars)
  BY StepKeeps, StutterKeeps
<1>. QED BY <1>1, <1>2, Invariance, PTL DEF Spec, ImplementsResumableFile, Abstract!Spec
===============================================================================
