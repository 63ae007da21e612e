----------------------------- MODULE SendTransfer -----------------------------
(***************************************************************************)
(* The transfers of the send command: get, which downloads into a .part    *)
(* file, resumes it and decrypts it (cmd/send/main.go, client/client.go),  *)
(* and put --e2e of a large file, which encrypts as it sends and resumes   *)
(* the stream of an earlier run (cmd/send/upload.go, client/resume.go).    *)
(* Another HTTP client asks for ranges and revalidates what it holds.      *)
(*                                                                         *)
(* Abstractions: one get and one put at a time; a connection delivers one  *)
(* cell after the other; UploadSession and its chunks are in               *)
(* ResumableUpload, here any number of cells arrives; a key or a nonce     *)
(* prefix is a number never used before.                                   *)
(***************************************************************************)
EXTENDS SendServer, E2EStream, ByteRange, FiniteSets, Functions

CONSTANTS
    Offers,     \* the uploads get is asked for: record of id -> upload
    Versions,   \* contents of the file to put, one after the other
    PutNames,   \* names it is put under
    Headers,    \* Range headers of the other client
    Absent,     \* no such file
    Nil         \* no key, no session, no answer

ASSUME TransferAssumption ==
    /\ Versions # <<>> /\ NoRange \in Headers
    /\ \A u \in DOMAIN Offers :
          DOMAIN Offers[u] = {"token", "name", "bytes", "plain", "encrypted", "key"}
\* What the server has: sequences that a signed integer of Width bits can measure,
\* each under a token of its own.  The ciphertext of the server adds to the plaintext, and
\* what it begins with does not come again.
ASSUME OfferAssumption ==
    /\ \A u \in DOMAIN Offers :
          LET o == Offers[u] IN
          /\ o.bytes \in Seq(Range(o.bytes)) /\ o.plain \in Seq(Range(o.plain))
          /\ Len(o.bytes) < Word \div 2 /\ o.encrypted \in BOOLEAN
          /\ o.encrypted => /\ Len(o.plain) < Len(o.bytes)
                            /\ \A i \in 2..Len(o.bytes) : o.bytes[i] # o.bytes[1]
    /\ \A u, v \in DOMAIN Offers : Offers[u].token = Offers[v].token => u = v
\* A link with a key is of what a put has sealed under it, any other of what it is.
Names == {Offers[u].name : u \in DOMAIN Offers}
ASSUME SealAssumption ==
    /\ \A name \in Names : name \in Seq(Range(name))
    /\ \A u \in DOMAIN Offers :
          LET o == Offers[u]
              stream == [key |-> o.key, prefix |-> o.bytes[1].seal.prefix,
                         name |-> SealedName(o.bytes)]
          IN
          \/ o.key = Nil /\ (o.encrypted \/ o.bytes = o.plain)
          \/ /\ o.key # Nil /\ ~o.encrypted
             /\ stream.name \in Names /\ o.bytes = Ciphertext(stream, o.plain)
ASSUME HeaderAssumption ==
    /\ Headers \subseteq {NoRange} \cup [start : 0..Word - 1, finish : 0..Word - 1 \cup {OpenEnd}]
    /\ NoRange \notin [start : 0..Word - 1, limit : 0..Word - 1]
                       \cup [start : 0..Word - 1, finish : {OpenEnd}]
    /\ OpenEnd \notin 0..Word - 1
ASSUME NilAssumption == Nil \notin Nat
ASSUME VersionAssumption ==
    /\ Versions \in Seq(Range(Versions))
    /\ \A v \in DOMAIN Versions : Versions[v] \in Seq(Range(Versions[v]))
    /\ \A name \in PutNames : name \in Seq(Range(name))

VARIABLES
    backend,   \* "local", "s3", or "plain": a server that knows no ranges
    part,      \* <name>.part
    dest,      \* <name>
    get,       \* the run of get
    file,      \* the version of the file to put: its modification time
    sessions,  \* the server's upload sessions, Nil when over; names is history:
               \* the names of the runs that made it and sent to it
    pending,   \* uploads.json
    put,       \* the run of put
    keys,      \* how many keys have been made; a nonce prefix goes with each
    sent,      \* what has been stored, and the link that was printed
    answer,    \* the answer the other client got last
    held,      \* what it holds: a validator and the body that came with it
    gets, puts, edits, probes  \* bounds: what may still happen

getVars == <<part, dest, get, gets>>
putVars == <<file, sessions, pending, put, keys, sent, puts, edits>>
probeVars == <<answer, held, probes>>
transferVars == <<backend, getVars, putVars, probeVars>>

NoGet == [stage |-> "idle"]
NoPut == [stage |-> "idle"]

TransferInit ==
    /\ part = [n \in Names |-> Absent] /\ dest = [n \in Names |-> Absent] /\ get = NoGet
    /\ file = 1 /\ sessions = <<>> /\ pending = {} /\ put = NoPut /\ keys = 0 /\ sent = {}
    /\ answer = Nil /\ held = {}

-----------------------------------------------------------------------------
(* get *)

\* The partial file is continued where it ends, unless --no-resume truncates it.
BeginGet(u, noResume) ==
    LET n == Offers[u].name
        start == IF noResume \/ part[n] = Absent THEN <<>> ELSE part[n]
    IN
    /\ get.stage \in {"idle", "saved", "failed"} /\ gets > 0
    /\ part' = [part EXCEPT ![n] = start]
    /\ get' = [stage |-> "asking", of |-> u, offset |-> Len(start)]
    /\ gets' = gets - 1
    /\ UNCHANGED <<backend, live, dest, putVars, probeVars>>

\* Client.Download sends a Range header for an offset only; anything but 2xx is
\* an error.
Requested == IF get.offset = 0 THEN NoRange ELSE [start |-> get.offset, finish |-> OpenEnd]

AnswerGet ==
    LET upload == Offers[get.of]
        reply == Reply(backend, upload, Requested, upload.encrypted, NoTags)
    IN
    /\ get.stage = "asking"
    /\ get' = IF get.of \in live /\ reply.status \in {200, 206}
              THEN [stage |-> "receiving", of |-> get.of, offset |-> get.offset,
                    resumed |-> reply.status = 206, whole |-> Complete(reply),
                    rest |-> reply.body]
              ELSE [stage |-> "failed", of |-> get.of]
    /\ UNCHANGED <<backend, live, part, dest, gets, putVars, probeVars>>

Receive ==
    /\ get.stage = "receiving" /\ get.rest # <<>>
    /\ part' = [part EXCEPT ![Offers[get.of].name] = Append(@, Head(get.rest))]
    /\ get' = [get EXCEPT !.rest = Tail(@)]
    /\ UNCHANGED <<backend, live, dest, gets, putVars, probeVars>>

\* The body is there.  A server that started over has been appended to what was
\* there: the check after Download drops it.  Mutant: there is no such check.
RestartUnnoticed == FALSE
Restarted == get.offset > 0 /\ ~get.resumed

\* Up to the rename, or up to decryptFile opening the destination: the header
\* has been read by then, and O_TRUNC has emptied what was there.
EndGet ==
    LET upload == Offers[get.of]
        n == upload.name
        whole == part[n]
        Fail == get' = [stage |-> "failed", of |-> get.of]
    IN
    /\ get.stage = "receiving" /\ get.rest = <<>>
    /\ \/ /\ ~get.whole
          /\ Fail /\ UNCHANGED <<part, dest>>
       \/ /\ get.whole /\ Restarted
          /\ Fail /\ part' = [part EXCEPT ![n] = Absent] /\ UNCHANGED dest
       \/ /\ get.whole /\ ~Restarted /\ upload.key = Nil
          /\ get' = [stage |-> "saved", of |-> get.of, to |-> n]
          /\ part' = [part EXCEPT ![n] = Absent] /\ dest' = [dest EXCEPT ![n] = whole]
       \/ /\ get.whole /\ ~Restarted /\ upload.key # Nil
          /\ IF HeaderOpens(whole, upload.key)
             THEN /\ get' = [stage |-> "decrypting", of |-> get.of, to |-> SealedName(whole)]
                  /\ dest' = [dest EXCEPT ![SealedName(whole)] = <<>>]
             ELSE Fail /\ UNCHANGED dest
          /\ UNCHANGED part
    /\ UNCHANGED <<backend, live, gets, putVars, probeVars>>

\* io.Copy of the plaintext; the partial file goes when it is whole.
DecryptFile ==
    LET n == Offers[get.of].name
        result == Decrypt(part[n], Offers[get.of].key)
    IN
    /\ get.stage = "decrypting"
    /\ \/ /\ result.ok
          /\ dest' = [dest EXCEPT ![get.to] = result.plain]
          /\ part' = [part EXCEPT ![n] = Absent]
          /\ get' = [get EXCEPT !.stage = "saved"]
       \/ /\ ~result.ok
          /\ dest' = [dest EXCEPT ![get.to] = Absent]
          /\ get' = [get EXCEPT !.stage = "failed"] /\ UNCHANGED part
    /\ UNCHANGED <<backend, live, gets, putVars, probeVars>>

\* The connection breaks, or the run is interrupted: the files stay as they are.
BreakGet ==
    /\ get.stage \in {"asking", "receiving", "decrypting"}
    /\ get' = [stage |-> "failed", of |-> get.of]
    /\ UNCHANGED <<backend, live, part, dest, gets, putVars, probeVars>>

-----------------------------------------------------------------------------
(* put *)

\* A small file, or a server without upload sessions: uploadStream declares the
\* length of the ciphertext, and the server refuses a body of another length.
PutWhole(e2e, name) ==
    LET plain == Versions[file]
        key == IF e2e THEN keys + 1 ELSE Nil
        bytes == IF e2e THEN Ciphertext([key |-> key, prefix |-> key, name |-> name], plain)
                 ELSE plain
    IN
    /\ put.stage = "idle" /\ puts > 0
    /\ e2e => Len(bytes) = EncryptedSize(Len(plain), name)
    /\ keys' = keys + 1 /\ puts' = puts - 1
    /\ sent' = sent \cup {[version |-> file, key |-> key, names |-> {name}, bytes |-> bytes]}
    /\ UNCHANGED <<backend, live, getVars, file, sessions, pending, put, edits, probeVars>>

\* PendingKey: server, path and size are the same here, the modification time
\* tells the versions apart.
SameKey(entry) == entry.version = file

\* resumeSession: the entry of this file, if it was encrypted as this run is, its
\* session is still there, and it has the length the entry names.
Resumable(entry, e2e) ==
    /\ SameKey(entry) /\ (entry.key # Nil) = e2e
    /\ sessions[entry.session] # Nil /\ sessions[entry.session].length = entry.length

\* The stream of a run: with the recorded key and prefix, and the name of now.
StreamOf(entry, name) == [key |-> entry.key, prefix |-> entry.prefix, name |-> name]

ResumePut(e2e, name) ==
    /\ put.stage = "idle" /\ puts > 0
    /\ \E entry \in pending :
          /\ Resumable(entry, e2e)
          /\ put' = [stage |-> "sending", entry |-> entry, stream |-> StreamOf(entry, name)]
    /\ puts' = puts - 1
    /\ UNCHANGED <<backend, live, getVars, file, sessions, pending, keys, sent,
                   edits, probeVars>>

\* A fresh key and prefix, a session of the length of the ciphertext, an entry.
StartPut(e2e, name) ==
    LET size == Len(Versions[file])
        length == IF e2e THEN EncryptedSize(size, name) ELSE size
        key == IF e2e THEN keys + 1 ELSE Nil
        entry == [version |-> file, session |-> Len(sessions) + 1, length |-> length,
                  key |-> key, prefix |-> key]
    IN
    /\ put.stage = "idle" /\ puts > 0
    /\ \A old \in pending : ~Resumable(old, e2e)
    /\ sessions' = Append(sessions, [length |-> length, cells |-> <<>>, names |-> {name}])
    /\ pending' = {old \in pending : ~SameKey(old)} \cup {entry}
    /\ put' = [stage |-> "sending", entry |-> entry, stream |-> StreamOf(entry, name)]
    /\ keys' = keys + 1 /\ puts' = puts - 1
    /\ UNCHANGED <<backend, live, getVars, file, sent, edits, probeVars>>

\* src(offset): what the run reads from the offset the server has.
Source(offset) ==
    IF put.entry.key = Nil THEN From(Versions[file], offset)
    ELSE ReaderFrom(put.stream, Versions[file], offset)

SendCells ==
    LET id == put.entry.session
        offset == Len(sessions[id].cells)
        rest == Source(offset)
        room == sessions[id].length - offset
    IN
    /\ put.stage = "sending" /\ sessions[id] # Nil
    /\ \E k \in 1..Len(rest) :
          /\ k <= room
          /\ sessions' = [sessions EXCEPT ![id].cells = @ \o FirstOf(rest, k),
                                       ![id].names = @ \cup {put.stream.name}]
    /\ UNCHANGED <<backend, live, getVars, keys, file, pending, put, sent, puts,
                   edits, probeVars>>

\* The last chunk commits the upload and ends the session; then the run drops its
\* entry and prints the link, with the key.
CommitPut ==
    LET session == sessions[put.entry.session] IN
    /\ put.stage = "sending" /\ session # Nil /\ Len(session.cells) = session.length
    /\ sessions' = [sessions EXCEPT ![put.entry.session] = Nil]
    /\ sent' = sent \cup {[version |-> file, key |-> put.entry.key,
                           names |-> session.names, bytes |-> session.cells]}
    /\ put' = [put EXCEPT !.stage = "stored"]
    /\ UNCHANGED <<backend, live, getVars, keys, file, pending, puts, edits, probeVars>>
FinishPut ==
    /\ put.stage = "stored"
    /\ pending' = {old \in pending : ~SameKey(old)}
    /\ put' = NoPut
    /\ UNCHANGED <<backend, live, getVars, keys, file, sessions, sent, puts, edits,
                   probeVars>>

\* Interrupted: "run the same command again to resume".
BreakPut ==
    /\ put.stage # "idle" /\ put' = NoPut
    /\ UNCHANGED <<backend, live, getVars, keys, file, sessions, pending, sent, puts,
                   edits, probeVars>>

\* The file changes between two runs; the server forgets a session.
EditFile ==
    /\ put.stage = "idle" /\ edits > 0 /\ file < Len(Versions)
    /\ file' = file + 1 /\ edits' = edits - 1
    /\ UNCHANGED <<backend, live, getVars, keys, sessions, pending, put, sent, puts,
                   probeVars>>
ForgetSession ==
    /\ edits > 0 /\ edits' = edits - 1
    /\ \E id \in DOMAIN sessions :
          sessions[id] # Nil /\ sessions' = [sessions EXCEPT ![id] = Nil]
    /\ UNCHANGED <<backend, live, getVars, keys, file, pending, put, sent, puts, probeVars>>

-----------------------------------------------------------------------------
(* another HTTP client *)

\* It may name the validators of what it holds, or any.
Probe(u, header, password) ==
    /\ probes > 0 /\ u \in live
    /\ \E mine \in SUBSET held, any \in BOOLEAN :
          LET reply == Reply(backend, Offers[u], header, password,
                             [any |-> any, tags |-> {h.etag : h \in mine}])
          IN  /\ answer' = [of |-> u, header |-> header, password |-> password, mine |-> mine,
                            any |-> any, status |-> reply.status, body |-> reply.body,
                            whole |-> Complete(reply)]
              /\ held' = IF reply.status = 200 /\ Complete(reply)
                         THEN held \cup {[etag |-> ETag(Offers[u].token, password),
                                          body |-> reply.body]}
                         ELSE held
    /\ probes' = probes - 1
    /\ UNCHANGED <<backend, live, getVars, putVars>>

-----------------------------------------------------------------------------
(* Safety *)

\* What get says it saved is the plaintext of the link it was given, whatever was
\* in the partial file, whoever interrupted it and whatever the server does with
\* a range (cmd/send/main.go, runGet, "rather than hand back a corrupt file").
SavedIsRequested == get.stage = "saved" => dest[get.to] = Offers[get.of].plain

\* What a put has stored, over however many runs, sessions and versions of the
\* file, the key of its link turns back into one version of the file
\* (client/e2e.go: a resumed upload "continues the ciphertext").  Only when the
\* runs were given different --name values need it not: the stream of a run
\* seals the name of that run (see the README).
UploadDecrypts ==
    \A s \in sent :
        IF s.key = Nil THEN s.bytes = Versions[s.version]
        ELSE \A name \in s.names : s.names = {name} =>
                LET result == Decrypt(s.bytes, s.key)
                IN  result.ok /\ result.plain = Versions[s.version] /\ result.name = name

\* An answer that arrives complete is what was asked: all of the upload, stored or
\* decrypted as the password says; the bytes a 206 was asked for; and a 304 only
\* for who names that very content among what it holds, or sent "*", which asks
\* for one whatever it holds (storage/common.go, server/caching.go).
Content(u, password) == IF password THEN Offers[u].plain ELSE Offers[u].bytes
AnswersFit ==
    answer # Nil =>
        LET content == Content(answer.of, answer.password) IN
        /\ answer.status = 200 /\ answer.whole => answer.body = content
        /\ answer.status = 206 /\ answer.whole =>
              LET after == From(content, answer.header.start) IN
              answer.body = IF answer.header.finish = OpenEnd THEN after
                            ELSE FirstOf(after, answer.header.finish - answer.header.start + 1)
        /\ answer.status = 304 => answer.any \/ \E h \in answer.mine : h.body = content
===============================================================================
