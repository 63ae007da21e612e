---------------------------- MODULE ResumableUpload ----------------------------
(***************************************************************************)
(* One resumable upload: the session on the server (server/resumable.go),  *)
(* the handlers that append chunks to it, and the clients that drive it    *)
(* with retries and across runs (client/resumable.go, cmd/send/upload.go). *)
(*                                                                         *)
(* A client whose connection breaks goes on, and so does the handler it    *)
(* left behind: the retry of a chunk meets the first attempt on the server.*)
(* PATCH and DELETE take the session's lock (FileLock, as a mutex), but    *)
(* openSession, HEAD and the sweep do not.                                 *)
(*                                                                         *)
(* Abstractions: the file is the sequence 1..Total, so that a spooled unit *)
(* names the place in the file it came from and 0 is a hole; a session is  *)
(* created at time 0 and has one id; a client that starts over on another  *)
(* session leaves this module.                                             *)
(***************************************************************************)
EXTENDS Naturals, Sequences, FiniteSetsExt

CONSTANTS
    Clients,      \* runs of the command for the same file
    Handlers,     \* request goroutines of the server
    Total,        \* length of the file
    ChunkSize,    \* UploadChunkSize
    Attempts,     \* uploadChunkAttempts
    TTL,          \* sessionTTL
    MayAbandon,   \* somebody may send DELETE, once
    MaxTime,      \* bound: the clock
    MaxFaults,    \* bound: failures of the network, the disk or the backend
    MaxCrashes,   \* bound: crashes of the server
    MaxKills,     \* bound: runs of the command that are interrupted or repeated
    Gone,         \* the spool file does not exist
    Nil           \* nobody

ASSUME SizeAssumption == Total \in Nat \ {0} /\ ChunkSize \in Nat \ {0}
ASSUME RetryAssumption == Attempts \in Nat \ {0}
ASSUME TimeAssumption == TTL \in Nat /\ MaxTime \in Nat
ASSUME BoundAssumption ==
    MaxFaults \in Nat /\ MaxCrashes \in Nat /\ MaxKills \in Nat /\ MayAbandon \in BOOLEAN
ASSUME NilAssumption == Nil \notin Handlers /\ Gone \notin Seq(Nat) /\ Gone \notin Nat

VARIABLES
    sidecar,  \* <id>.json : "never" created, "present" or "removed"
    spool,    \* <id>.part : its content, or Gone
    touched,  \* modification time of the spool file
    lock,     \* handler inside the session's lock, Nil if none
    at,       \* where each handler is
    job,      \* the chunk each handler works on
    pc,       \* where each client is
    off,      \* sess.Offset of each client
    tries,    \* attempts of each client's UploadSession
    conn,     \* the handler whose answer a client waits for, Nil if none
    pending,  \* the client's record of the session exists
    stored,   \* what store() has put into the backend, in order
    now,      \* the clock; the session is created at 0
    faults, crashes, kills, abandoned  \* bounds

\* For the properties: the highest offset the server has acknowledged under
\* the lock, and the chunk boundaries the clients have chosen.
VARIABLES acked, asked

server == <<sidecar, spool, touched, stored>>
handlers == <<lock, at, job>>
client == <<pc, off, tries, conn, pending>>
bounds == <<now, crashes, kills, abandoned>>
vars == <<server, handlers, client, bounds, faults, acked, asked>>

\* "opened": past openSession, before the lock; "copying": appending the body;
\* "finishing", "storing", "removing": finishUploadSession up to the spool file
\* being open, up to the end of store(), and after it; "abandoning": DELETE.
HandlerPlace == {"free", "opened", "copying", "finishing", "storing", "removing", "abandoning"}

\* "sending": at the top of UploadSession's loop; "waiting": a PATCH is out;
\* "resync": about to ask for the offset; "lost": gave up with "the confirmation
\* was lost"; "elsewhere": started another session.
ClientPlace == {"idle", "sending", "waiting", "resync", "done", "failed", "lost", "elsewhere"}

\* The span a chunk names, the offset found under the lock, the units copied
\* and, once finishUploadSession has opened it, the file behind its descriptor.
NoJob == [start |-> 0, want |-> 0, offset |-> 0, got |-> 0, file |-> <<>>]

TypeOK ==
    /\ sidecar \in {"never", "present", "removed"}
    /\ spool \in Seq(0..Total) \cup {Gone}
    /\ touched \in Nat /\ now \in 0..MaxTime
    /\ lock \in Handlers \cup {Nil}
    /\ at \in [Handlers -> HandlerPlace]
    /\ job \in [Handlers -> [start : 0..Total, want : 0..Total, offset : 0..Total,
                            got : 0..Total, file : Seq(0..Total)]]
    /\ pc \in [Clients -> ClientPlace]
    /\ off \in [Clients -> 0..Total]
    /\ tries \in [Clients -> 0..Attempts]
    /\ conn \in [Clients -> Handlers \cup {Nil}]
    /\ pending \in BOOLEAN
    /\ stored \in Seq(Seq(0..Total))
    /\ faults \in 0..MaxFaults /\ crashes \in 0..MaxCrashes
    /\ kills \in 0..MaxKills /\ abandoned \in BOOLEAN
    /\ acked \in 0..Total /\ asked \subseteq 0..Total

Init ==
    /\ sidecar = "never" /\ spool = <<>> /\ touched = 0 /\ stored = <<>>
    /\ lock = Nil
    /\ at = [h \in Handlers |-> "free"]
    /\ job = [h \in Handlers |-> NoJob]
    /\ pc = [c \in Clients |-> "idle"]
    /\ off = [c \in Clients |-> 0]
    /\ tries = [c \in Clients |-> 0]
    /\ conn = [c \in Clients |-> Nil]
    /\ pending = FALSE
    /\ now = 0 /\ faults = 0 /\ crashes = 0 /\ kills = 0 /\ abandoned = FALSE
    /\ acked = 0 /\ asked = {0}

Fault == faults < MaxFaults /\ faults' = faults + 1
NoFault == UNCHANGED faults

-------------------------------------------------------------------------------
(***************************************************************************)
(* Files.                                                                  *)
(***************************************************************************)

\* A write of x at position i fills what lies between with zeros; so does a
\* Truncate beyond the end.
At(s, i) == IF i \in DOMAIN s THEN s[i] ELSE 0
Written(s, i, x) == [j \in 1..Max({i, Len(s)}) |-> IF j = i THEN x ELSE At(s, j)]
Truncated(s, n) == [j \in 1..n |-> At(s, j)]

\* Handlers keep their file descriptor when the directory entry goes: what they
\* write then reaches nobody.
OnSpool(s) == spool' = IF spool = Gone THEN Gone ELSE s

\* removeSession, by whoever calls it.  Mutant: the spool file is emptied and
\* the session left to the sweep.
EmptySession == spool' = <<>> /\ UNCHANGED sidecar
RemoveSession == sidecar' = "removed" /\ spool' = Gone

\* openSession accepts the session; or finds it past its TTL and removes it.
Open == sidecar = "present" /\ now <= TTL
Expired == sidecar = "present" /\ now > TTL

\* What HEAD reports: the size of the spool file, whoever is writing it.
StatusKnown == Open /\ spool # Gone

-------------------------------------------------------------------------------
(***************************************************************************)
(* Answers.                                                                *)
(***************************************************************************)

\* A failed attempt: UploadSession gives up, or waits and resynchronises.
Retry(c) ==
    /\ tries' = [tries EXCEPT ![c] = @ + 1]
    /\ pc' = [pc EXCEPT ![c] = IF tries[c] + 1 >= Attempts THEN "failed" ELSE "resync"]

\* What sendChunk makes of an answer to h's request, by status: 204 with a new
\* offset, 409 with the server's offset, 408 or 5xx, another 4xx, 200 with the
\* link.
Hear(c, answer, n) ==
    /\ conn' = [conn EXCEPT ![c] = Nil]
    /\ CASE answer = "continue" ->
              /\ off' = [off EXCEPT ![c] = n]
              /\ tries' = [tries EXCEPT ![c] = 0]
              /\ pc' = [pc EXCEPT ![c] = "sending"]
         [] answer = "conflict" -> off' = [off EXCEPT ![c] = n] /\ Retry(c)
         [] answer = "again" -> Retry(c) /\ UNCHANGED off
         [] answer = "refused" -> pc' = [pc EXCEPT ![c] = "failed"] /\ UNCHANGED <<off, tries>>
         [] answer = "link" -> pc' = [pc EXCEPT ![c] = "done"] /\ UNCHANGED <<off, tries>>
    /\ pending' = (pending /\ answer # "link")

\* h answers and ends; its client hears it unless the connection is gone.
Answer(h, answer, n) ==
    /\ at' = [at EXCEPT ![h] = "free"]
    /\ job' = [job EXCEPT ![h] = NoJob]
    /\ IF \E c \in Clients : conn[c] = h
       THEN \E c \in Clients : conn[c] = h /\ Hear(c, answer, n)
       ELSE UNCHANGED client
    /\ acked' = IF answer \in {"continue", "conflict"} /\ n > acked THEN n ELSE acked
    /\ UNCHANGED <<asked, bounds>>

\* Mutant: the deferred unlock is missing.
KeepLocked == UNCHANGED lock
Unlock == lock' = Nil

\* The handler goes on, the clients hear nothing.
Proceed(h, place) ==
    /\ at' = [at EXCEPT ![h] = place]
    /\ UNCHANGED <<client, bounds, acked, asked>>

-------------------------------------------------------------------------------
(***************************************************************************)
(* The handlers.                                                           *)
(***************************************************************************)

\* s.lock(sessionLockToken, id) would return.  Mutant: there is no lock.
NotLocked == TRUE
LockFree == lock = Nil

\* The chunk must start where the spool file ends.  Mutant: not checked.
AnyStart(h) == TRUE
StartsAtEnd(h) == job[h].start = Len(spool)

\* patchUploadSessionHandler up to the copy: the spool file is gone, the chunk
\* starts elsewhere, there is no spool space, or the copy begins.
Enter(h) ==
    /\ at[h] = "opened" /\ LockFree
    /\ \/ /\ spool = Gone /\ NoFault
          /\ Answer(h, "refused", 0) /\ UNCHANGED lock
       \/ /\ spool # Gone /\ ~StartsAtEnd(h) /\ NoFault
          /\ Answer(h, "conflict", Len(spool)) /\ UNCHANGED lock
       \/ /\ spool # Gone /\ StartsAtEnd(h) /\ Fault
          /\ Answer(h, "again", 0) /\ UNCHANGED lock
       \/ /\ spool # Gone /\ StartsAtEnd(h) /\ NoFault
          /\ lock' = h
          /\ job' = [job EXCEPT ![h].offset = Len(spool)]
          /\ Proceed(h, "copying")
    /\ UNCHANGED server

\* io.Copy appends one more unit of the body at the descriptor's position.
Copy(h) ==
    LET j == job[h] IN
    /\ at[h] = "copying" /\ j.got < j.want
    /\ OnSpool(Written(spool, j.offset + j.got + 1, j.start + j.got + 1))
    /\ touched' = now
    /\ job' = [job EXCEPT ![h].got = @ + 1]
    /\ Proceed(h, "copying")
    /\ UNCHANGED <<sidecar, stored, lock, faults>>

CutOff(h) == \A c \in Clients : conn[c] # h

\* Mutant: the whole file is dropped.
RollBackToStart(h) == OnSpool(Truncated(spool, 0))
RollBack(h) == OnSpool(Truncated(spool, job[h].offset))

\* The body ends early: the file is truncated to where the chunk started (or
\* is not, when that fails too) and the answer is 408.
CopyBreaks(h) ==
    /\ at[h] = "copying" /\ job[h].got < job[h].want
    /\ \/ CutOff(h) /\ NoFault /\ RollBack(h)
       \/ CutOff(h) /\ Fault /\ UNCHANGED spool
       \/ ~CutOff(h) /\ Fault /\ RollBack(h)
    /\ touched' = now
    /\ Answer(h, "again", 0) /\ Unlock
    /\ UNCHANGED <<sidecar, stored>>

\* The whole chunk has arrived.  A failing Close answers 500 and keeps it.
CopyDone(h) ==
    LET end == job[h].offset + job[h].want IN
    /\ at[h] = "copying" /\ job[h].got = job[h].want
    /\ \/ /\ Fault
          /\ Answer(h, "again", 0) /\ Unlock
       \/ /\ NoFault /\ end < Total
          /\ Answer(h, "continue", end) /\ Unlock
       \/ /\ NoFault /\ end >= Total
          /\ Proceed(h, "finishing") /\ UNCHANGED <<lock, job>>
    /\ UNCHANGED server

\* finishUploadSession up to the open spool file: the scan finds something (412)
\* or fails (500), the file is gone (500), the storage is full (507).
Finish(h) ==
    /\ at[h] = "finishing"
    /\ \/ /\ Fault
          /\ \E answer \in {"refused", "again"} : Answer(h, answer, 0)
          /\ RemoveSession /\ Unlock
       \/ /\ spool = Gone /\ NoFault
          /\ Answer(h, "again", 0) /\ Unlock /\ UNCHANGED <<sidecar, spool>>
       \/ /\ spool # Gone /\ Fault
          /\ Answer(h, "again", 0) /\ Unlock /\ UNCHANGED <<sidecar, spool>>
       \/ /\ spool # Gone /\ NoFault
          /\ job' = [job EXCEPT ![h].file = spool]
          /\ Proceed(h, "storing") /\ UNCHANGED <<lock, sidecar, spool>>
    /\ UNCHANGED <<touched, stored>>

\* store(): it fails with the backend, or with the client's context.
Store(h) ==
    /\ at[h] = "storing"
    /\ \/ /\ NoFault
          /\ stored' = Append(stored, job[h].file)
          /\ Proceed(h, "removing") /\ UNCHANGED <<lock, job>>
       \/ /\ Fault \/ (CutOff(h) /\ NoFault)
          /\ Answer(h, "again", 0) /\ Unlock /\ UNCHANGED stored
    /\ UNCHANGED <<sidecar, spool, touched>>

\* The session goes (os.Remove may fail, which is only logged), the link comes.
Remove(h) ==
    /\ at[h] = "removing"
    /\ \/ NoFault /\ RemoveSession
       \/ Fault /\ UNCHANGED <<sidecar, spool>>
    /\ Answer(h, "link", 0) /\ Unlock
    /\ UNCHANGED <<touched, stored>>

\* deleteUploadSessionHandler: openSession, then the lock, then removeSession.
OpenToAbandon(h) ==
    /\ MayAbandon /\ ~abandoned /\ at[h] = "free" /\ Open
    /\ abandoned' = TRUE
    /\ at' = [at EXCEPT ![h] = "abandoning"]
    /\ UNCHANGED <<server, lock, job, client, now, crashes, kills, faults, acked, asked>>

Abandon(h) ==
    /\ at[h] = "abandoning" /\ LockFree
    /\ RemoveSession
    /\ Proceed(h, "free")
    /\ UNCHANGED <<touched, stored, lock, job, faults>>

-------------------------------------------------------------------------------
(***************************************************************************)
(* The clients.                                                            *)
(***************************************************************************)
clientOnly == UNCHANGED <<server, handlers, acked, asked, now, crashes, abandoned>>

\* createUploadSessionHandler, and uploadResumable recording the session: the
\* answer may be lost, or the spool file not be created.
Create(c) ==
    /\ pc[c] = "idle" /\ sidecar = "never" /\ now = 0
    /\ \/ /\ NoFault
          /\ sidecar' = "present" /\ pending' = TRUE
          /\ pc' = [pc EXCEPT ![c] = "sending"] /\ UNCHANGED spool
       \/ /\ Fault
          /\ sidecar' = "present" /\ UNCHANGED <<spool, pending>>
          /\ pc' = [pc EXCEPT ![c] = "elsewhere"]
       \/ /\ Fault
          /\ RemoveSession /\ UNCHANGED pending
          /\ pc' = [pc EXCEPT ![c] = "elsewhere"]
    /\ UNCHANGED <<touched, stored, handlers, off, tries, conn, bounds, acked, asked>>

\* A run of the command: resumeSession asks for the session on record; without
\* one, or without an answer, uploadResumable opens another.
Rerun(c) ==
    /\ pc[c] \in {"idle", "failed", "lost"} /\ sidecar # "never"
    /\ kills < MaxKills /\ kills' = kills + 1
    /\ tries' = [tries EXCEPT ![c] = 0]
    /\ \/ /\ pending /\ StatusKnown /\ NoFault
          /\ off' = [off EXCEPT ![c] = Len(spool)]
          /\ pc' = [pc EXCEPT ![c] = "sending"] /\ UNCHANGED pending
       \/ /\ \/ (~pending \/ ~StatusKnown) /\ NoFault
             \/ pending /\ Fault
          /\ pending' = FALSE
          /\ off' = [off EXCEPT ![c] = 0]
          /\ pc' = [pc EXCEPT ![c] = "elsewhere"]
    /\ IF pending /\ Expired THEN RemoveSession ELSE UNCHANGED <<sidecar, spool>>
    /\ UNCHANGED <<touched, stored, handlers, conn, now, crashes, abandoned, acked, asked>>

\* The command is interrupted.
Kill(c) ==
    /\ pc[c] \in {"sending", "waiting", "resync"}
    /\ kills < MaxKills /\ kills' = kills + 1
    /\ pc' = [pc EXCEPT ![c] = "idle"]
    /\ conn' = [conn EXCEPT ![c] = Nil]
    /\ off' = [off EXCEPT ![c] = 0]
    /\ tries' = [tries EXCEPT ![c] = 0]
    /\ UNCHANGED <<pending, faults>> /\ clientOnly

\* UploadSession at the top of its loop, every byte being on the server.
GiveUp(c) ==
    /\ pc[c] = "sending" /\ off[c] >= Total
    /\ pc' = [pc EXCEPT ![c] = "lost"]
    /\ UNCHANGED <<off, tries, conn, pending, kills, faults>> /\ clientOnly

\* sendChunk, and openSession on the other side: 404 or 410, or past it.
Send(c, h) ==
    LET n == Min({ChunkSize, Total - off[c]}) IN
    /\ pc[c] = "sending" /\ off[c] < Total /\ at[h] = "free"
    /\ asked' = asked \cup {off[c], off[c] + n}
    /\ IF Open
       THEN /\ at' = [at EXCEPT ![h] = "opened"]
            /\ job' = [job EXCEPT ![h] = [NoJob EXCEPT !.start = off[c], !.want = n]]
            /\ conn' = [conn EXCEPT ![c] = h]
            /\ pc' = [pc EXCEPT ![c] = "waiting"]
            /\ UNCHANGED server
       ELSE /\ pc' = [pc EXCEPT ![c] = "failed"]
            /\ IF Expired THEN RemoveSession /\ UNCHANGED <<touched, stored>> ELSE UNCHANGED server
            /\ UNCHANGED <<at, job, conn>>
    /\ UNCHANGED <<lock, off, tries, pending, bounds, faults, acked>>

\* The connection breaks; the handler, if it has started, goes on.
ConnectionBreaks(c) ==
    /\ pc[c] = "waiting" /\ Fault
    /\ conn' = [conn EXCEPT ![c] = Nil]
    /\ Retry(c)
    /\ UNCHANGED <<off, pending, kills>> /\ clientOnly

\* SessionStatus before the next attempt; without an answer the offset stays.
Resync(c) ==
    /\ pc[c] = "resync"
    /\ pc' = [pc EXCEPT ![c] = "sending"]
    /\ \/ NoFault /\ StatusKnown /\ off' = [off EXCEPT ![c] = Len(spool)]
       \/ NoFault /\ ~StatusKnown /\ UNCHANGED off
       \/ Fault /\ UNCHANGED off
    /\ IF Expired THEN RemoveSession ELSE UNCHANGED <<sidecar, spool>>
    /\ UNCHANGED <<touched, stored, handlers, tries, conn, pending, bounds, acked, asked>>

-------------------------------------------------------------------------------
(***************************************************************************)
(* Time, the sweep, crashes.                                               *)
(***************************************************************************)
Tick ==
    /\ now < MaxTime /\ now' = now + 1
    /\ UNCHANGED <<server, handlers, client, crashes, kills, abandoned, faults, acked, asked>>

\* sweepSessions goes by the modification time of each file; the sidecar is
\* never written again.
Sweep ==
    /\ \/ Expired /\ sidecar' = "removed" /\ UNCHANGED spool
       \/ /\ sidecar # "never" /\ spool # Gone /\ now - touched > TTL
          /\ spool' = Gone /\ UNCHANGED sidecar
    /\ UNCHANGED <<touched, stored, handlers, client, bounds, faults, acked, asked>>

\* The server process dies and is started again.  What has been written stays.
Crash ==
    /\ crashes < MaxCrashes /\ crashes' = crashes + 1
    /\ lock' = Nil
    /\ at' = [h \in Handlers |-> "free"]
    /\ job' = [h \in Handlers |-> NoJob]
    /\ conn' = [c \in Clients |-> Nil]
    /\ tries' = [c \in Clients |-> IF conn[c] = Nil THEN tries[c] ELSE tries[c] + 1]
    /\ pc' = [c \in Clients |-> IF conn[c] = Nil THEN pc[c]
                                ELSE IF tries[c] + 1 >= Attempts THEN "failed" ELSE "resync"]
    /\ UNCHANGED <<server, off, pending, now, kills, abandoned, faults, acked, asked>>

HandlerStep(h) ==
    \/ Enter(h)
    \/ Copy(h)
    \/ CopyBreaks(h)
    \/ CopyDone(h)
    \/ Finish(h)
    \/ Store(h)
    \/ Remove(h)
    \/ Abandon(h)

ClientStep(c) ==
    \/ GiveUp(c)
    \/ Resync(c)
    \/ \E h \in Handlers : Send(c, h)

Next ==
    \/ \E h \in Handlers : HandlerStep(h) \/ OpenToAbandon(h)
    \/ \E c \in Clients : ClientStep(c) \/ Create(c) \/ Rerun(c) \/ Kill(c) \/ ConnectionBreaks(c)
    \/ Tick \/ Sweep \/ Crash

Spec == Init /\ [][Next]_vars

\* Handlers run, a lock that keeps being released is obtained (FileLock), and
\* a running client goes on.
Fairness ==
    /\ \A h \in Handlers : SF_vars(HandlerStep(h))
    /\ \A c \in Clients : SF_vars(ClientStep(c))

FairSpec == Spec /\ Fairness
-------------------------------------------------------------------------------
(***************************************************************************)
(* Properties.                                                             *)
(***************************************************************************)
Whole(s) == s = [i \in 1..Total |-> i]

\* What the session holds for good: while a handler copies, what it found.
Committed ==
    IF lock # Nil /\ at[lock] = "copying" THEN job[lock].offset ELSE Len(spool)

\* The spool file is a prefix of the client's file, whoever sent its pieces and
\* however often: no hole, no piece twice.
SpoolIsPrefix == spool # Gone => Len(spool) <= Total /\ \A i \in DOMAIN spool : spool[i] = i

\* An offset the server has answered with, in a 204 or a 409, stays: no
\* rollback of another chunk goes behind it.
AcknowledgedKept == spool # Gone => acked <= Committed

\* "A chunk is all-or-nothing" (resumable.go:381): what the session holds ends
\* where some client chose to end or start a chunk, whatever clients were cut
\* off, as long as the disk obeys and the server lives.
CommittedIsChosen ==
    spool # Gone /\ faults = 0 /\ crashes = 0 => Committed \in asked

\* All three: what a session holds is the client's, stays once acknowledged, and
\* ends between two chunks (patchUploadSessionHandler and its rollback).
SpoolFaithful == SpoolIsPrefix /\ AcknowledgedKept /\ CommittedIsChosen

\* A session puts the whole file into the storage, and does so once, although
\* its last chunk may be sent again after any failure.
StoredOnceAndWhole == Len(stored) <= 1 /\ \A i \in DOMAIN stored : Whole(stored[i])

\* The session as a resumable file: what is held only grows, it is stored once,
\* and a client that has the link has a stored upload.
Abstract == INSTANCE ResumableFile WITH
    held <- IF \E h \in Handlers : at[h] \in {"storing", "removing"} THEN Total
            ELSE IF spool = Gone THEN Gone ELSE Committed,
    stored <- stored # <<>>,
    told <- \E c \in Clients : pc[c] = "done"
ImplementsResumableFile == Abstract!Spec

\* UploadSession returns: with the link, or with an error.
UploadSessionReturns ==
    \A c \in Clients :
        pc[c] \in {"sending", "waiting", "resync"} ~>
            pc[c] \in {"idle", "done", "failed", "lost", "elsewhere"}

-------------------------------------------------------------------------------
(***************************************************************************)
(* What the documentation says and the code does not do.                   *)
(***************************************************************************)

\* "Every byte is on the server but no final response was seen: the completing
\* chunk's reply was lost" (client/resumable.go:211): then the file is stored.
LostMeansStored ==
    \A c \in Clients : pc[c] = "lost" /\ lock = Nil => stored # <<>>
===============================================================================
