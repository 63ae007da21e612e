# A verification project for send.to

send.to is a file sharing server (Go, `server/`), with storage on a local
directory or on S3 (`server/storage/`), a client library and the `send` command
(`client/`, `cmd/send/`), and a web front end (`web/`). This directory holds
TLA+ models of its core, the TLC configurations that check them, and proofs for
TLAPS. Paths below are relative to the repository.

## 1. Inventory

| Component | State | Operations | What is hard about it | What makes it correct |
|---|---|---|---|---|
| Per-upload locks, `server/handlers.go:423-463` | map from key to a reference-counted mutex, guarded by `locksMu` | `lock`, `unlock` | entries are created and dropped while goroutines sleep on them; upload and session locks nest an owner-index lock | mutual exclusion per key; entries neither leak nor vanish under a waiter; no deadlock |
| Upload life cycle, `upload.go`, `download.go`, `handlers.go` | two objects per upload (metadata sidecar, payload), the number of downloads inside the sidecar | PUT/POST, GET/HEAD/preview, archive entries, DELETE, purge on the last download or past the date | check before the transfer, count after it; two-object writes and removals with no transaction; cancelled contexts; crashes | no count is lost; the budget bounds the downloads; good uploads stay (but for a sidecar cut in its rewrite); removed ones are served no more |
| Storage backends, `storage/local.go`, `storage/s3.go` | objects | Head, Get, Put, Delete, Purge, Usage | local `Put` truncates first; local `Delete` ignores a failure of its first half, S3 gives up; S3 reports success for what is not there | what the handlers above assume of them |
| Storage and spool quotas, `quota.go` | one atomic counter; a directory walk for the spool | allows/add/sub, reseed after a purge | check-then-add; give-back on several paths; reseed while uploads run; 64-bit sums | the counter stays close to the storage |
| Resumable uploads, server, `resumable.go` | session sidecar and spool file | POST, PATCH, HEAD, DELETE, finish, sweep | a retry meets its first attempt; HEAD, `openSession` and the sweep take no lock; three files change one after the other at the end | the spool is a prefix of the file; it is stored once and whole |
| Resumable uploads, client, `client/resumable.go`, `client/resume.go`, `cmd/send/upload.go` | offset, attempts, a record on disk | `UploadSession`, `SessionStatus`, `resumeSession` | lost answers, conflicts, restarts of the command, two commands for one file | it returns; a link means a stored file |
| Purge sweep, `handlers.go:577`, `Purge` of the backends | modification times | hourly sweep, reseed | each file goes by its own time; directories are removed under writers | a sweep takes whole, old uploads |
| Owner index, `owner.go` | one JSON object per owner | record, forget, list | read-modify-write under the owner's lock; pruned by any error of `Head` | lists exactly the live uploads |
| Collections, `collection.go`, archives, `archive.go` | one JSON object per collection | create, list (prunes), archive, delete | read-prune-write without a lock | members drop off only when they are gone |
| Byte ranges and caching, `storage/common.go`, `caching.go` | none | parse, clamp, Content-Range | 64-bit offsets, ranges past the end | the bytes sent are those announced |
| Rate limits and upload budget, `server.go:510-621`, `quota.go` | token buckets per address | allow, evict | the time is read before the map's mutex, the bucket charged after it | no more than burst and rate passes, whatever is evicted |
| Virus scan, `clamav.go`, `internal/clamd` | a connection, a channel | scan with timeout | the timeout covers the connection and not the verdict; a nil reply panics | nothing unscanned is stored, no spool file is left, requests end |
| Client-side encryption, `client/e2e.go`, `web/src/lib/e2e.ts` | chunk counter, prefix | seal, open, resume at an offset | last-chunk flag, resumption inside a chunk | resuming yields the same bytes |
| Downloads of the command line, `cmd/send/main.go`, `client/client.go` | `<name>.part`, `<name>` | get, resume, decrypt | a partial file of another run; a server that ignores ranges; interruptions | what is saved is what the link names |
| Command-line records, `client/history.go`, `client/owner.go`, `cmd/send/remote.go` | `history.json`, `owner.key`, the server's list | put, rm, ls --prune | whole-file rewrites by overlapping runs, kills in between | a printed link can be deleted; rm removes what it was asked to |
| Access control, `auth.go`, `ip_filter.go` | htpasswd and filter, loaded once | check, toggle | lists that overlap, lazy loading | the filter means what its lists say |
| Start-up and shutdown, `server.go:624-944` | listeners | Run | draining requests | running requests end |
| Observability, messages, tokens, helpers | counters | | | (formatting: not modelled) |
| Web front end, `web/src` | upload queue | | retries in the browser | like the client |

How they interact: every handler that reads or rewrites a sidecar takes the
lock of `token/filename`; sessions use the key `.sessions/<id>` of the same map
and owner indexes a key per owner, taken while an upload or session lock is
held. `store()` is the common end of PUT, POST and a finished session; it alone
adds to the quota counter, and the purge and DELETE paths subtract from it.
Collections and owner indexes refer to uploads by token and see them through
`checkMetadata` and `Head`. The command-line client drives sessions over HTTP
and keeps its own record of them, so the two sides share no lock, only answers
that may be lost.

`PROJECT.json` lists the hazards this gives rise to at their source lines,
with the properties that cover them.

## 2. Modules

| Module | Models | Instance |
|---|---|---|
| `Mutex` | abstract: one mutex per key | – |
| `FileLock` | the lock map, one step per `locksMu` section or mutex operation | `MCFileLock` |
| `FileLockProofs` | its theorems | – |
| `UploadLifecycle` | PUT, download, count, expiry, DELETE, quota counter, faults, crashes | `MCUploadLifecycle` |
| `UploadLifecycleProofs` | its theorems: counts and budgets, what is kept, cleaned up and accounted for | – |
| `ResumableFile` | abstract: a prefix that grows, stored at most once | – |
| `ResumableUpload` | session handlers, client retries, repeated commands | `MCResumableUpload` |
| `ResumableUploadProofs` | its theorems, the refinement of `ResumableFile` among them | – |
| `Listings` | the owner index and collections, over uploads that come and go | `MCListings` |
| `ListingsProofs` | its theorems | – |
| `StorageQuota` | the quota counter with its swap loop, the purge sweep, empty directories, `Usage`, the reseed | `MCStorageQuota` |
| `StorageQuotaProofs` | its theorems | – |
| `AccessControl` | operators: IP filters, who may use the upload routes | (in `Edge`) |
| `Edge` | what a request meets before `store()`: filters, buckets, spool space, scan; the process around it | `MCEdge` |
| `EdgeProofs` | its theorems | – |
| `ByteRange` | operators: Range header, `Get` of the backends, decryption, validator, answer of a GET | (in `SendTransfer`) |
| `E2EStream` | operators: the client-side encryption format | (in `SendTransfer`) |
| `SendServer` | the uploads the server has, shared by the next two | – |
| `SendTransfer` | get with its partial file; put, resumed and encrypted; another HTTP client | – |
| `SendRecords` | history.json, owner.key and the server's list under put, rm, ls --prune | – |
| `Send` | composes `SendTransfer` and `SendRecords` | `MCSend` |
| `SendTransferProofs` | theorems of `Send` about transfers, and about the operators of `ByteRange` and `E2EStream` | – |
| `SendProofs` | theorems of `Send` about the records | – |

### FileLock

`locks` is `Server.locks`; `refs` and `mu` are the fields of the `fileLock`
object at each heap address; `ptr` is the local variable `l`. `ClaimEntry` and
`CreateEntry` are the two outcomes of the `locksMu` section of `lock()`,
`Acquire` its `l.mu.Lock()`, `DropClaim` and `Release` the two halves of
`unlock()`, which looks the entry up a second time. Addresses are reused once
nothing refers to them, as the collector does, so that confusing an old mutex
with a new one would show. `Inner` says which keys callers nest.

### UploadLifecycle

A PUT is `Admit` (`checkStorageQuota`), `PutMetadata`, `PutPayload`, on failure
`RollbackMetadata` and `RollbackPayload`, else `Publish` (`quota.add`). A
download is `CheckMetadata`, `OpenPayload`, `Sent`, `ReadForCount` and
`RecordDownload` (the two storage calls of `increaseDownload`). A removal,
whether by `deleteHandler` (after `CheckDeletionToken`, with no lock) or by
`purgeExpired` (with the lock held), is `RemoveMetadata`, `RemovePayload`,
`Account` (`quota.sub`). Any storage call may fail while `faults` allows, and
`Local` decides what a failure means: the local backend leaves a truncated
object and ignores a failing removal of the sidecar, S3 replaces whole objects,
stops at the first failing removal and never reports that an object is missing.
`Crash` empties the memory, may cut a local file in the middle of its write and
measures the counter anew, which counts every object, sidecars (`SidecarSize`) too.
`Archives` are the requests that serve entries of an archive: they count with the
request's own context, so that on S3 a client that leaves makes the count fail
(`HangUp`). The lock is the abstract mutex: `FileLock` shows that
the lock map implements it.

Abstracted: payload sizes (one unit), the sidecar's constant fields,
deletion-token mismatches and decryption errors (answers that change nothing),
owner index updates. Files are not removed one by one by age: `StorageQuota` has the
sweep. The ghosts `doubled`, `missed` and `measured` count what the properties name as
exceptions: bytes given back twice, archive entries never counted, sidecars measured
at the start.

### ResumableUpload

One session, whose file is the sequence `1..Total`: a spooled unit names the
place it came from, so a hole or a misplaced piece shows. A handler is `Send`
(the client's request reaching `openSession`), `Enter` (lock, size check),
`Copy` per unit, `CopyBreaks` (rollback) or `CopyDone`, then `Finish`, `Store`,
`Remove`. A client is `UploadSession`'s loop (`Send`, `Hear`, `Retry`, `Resync`,
`GiveUp`) inside runs of the command (`Create`, `Rerun`, `Kill`). A connection
that breaks leaves the handler running. `Sweep` and expiry inside `openSession`
remove files without the lock; a handler keeps its file descriptor.

Abstracted: `Create` is atomic; a client that starts over on another session
leaves the model ("elsewhere"); the wait between attempts takes no time.

### Listings

The owner index and a collection are both one JSON object that names uploads, is
rewritten whole, and is pruned by whoever reads it; they differ in that the index
is read and written under the owner's lock (`RecordOwnership`, `ForgetOwnership`,
`ListOwned` to `EndEntries`) and a collection under none (`OpenCollection`,
`CheckMember`, `EndMembers`, `CheckCollectionToken`, `RemoveCollection`). They share
the uploads: a collection's reader that finds an expired member removes it
(`BeginPurge`, `RemoveUpload`) and takes it off the owner's list before it looks at
the next one. Removal is not the end of a sidecar: a download that is being counted
(`ReadForCount`, `WriteCount`) writes it back after a DELETE, a removal whose first
half failed leaves it, and the `Sweep` passes over one that was written lately. Such
uploads are `lingering`: `Head` and `checkMetadata` take them for there, `RemoveUpload`
and expiry go on from that, and nobody forgets what the sweep took. Writing is two steps on the local backend, since its `Put` truncates
first: `TruncateIndex` and `SaveIndex`, `TruncateCollection` and `SaveCollection`. A
reader without a lock, a failed write and a crash all meet the truncated object
(`Torn`). A collection deleted while its file is open keeps the descriptor good and
loses the write.

Abstracted: one owner (indexes of two share nothing), entries and members reduced
to the upload they name, an upload reduced to whether its sidecar is there (the steps
of its removal and torn sidecars are in `UploadLifecycle`), views and parsing of
references, the archive redirect (a read like any other).

### StorageQuota

Every object is its modification time. An upload is `Admit` (`checkStorageQuota`),
`MakeDir`, `PutMetadata`, `MakeDir`, `PutPayload`, `Add`; a removal is
`RemoveMetadata`, `RemovePayload`, `Load` and `Sub`, the two halves of an iteration
of `sub()`'s compare-and-swap loop. The purge goroutine walks: `EnterPurge` reads
the names of one directory (one page on S3), `PurgeFile` visits a name read before,
`PurgePage` deletes a page, `StartPrune` and `RemoveEmptyDir` are
`removeEmptyTokenDirs`, `EnterUsage` and `AddFile` add up, `Reseed` stores the sum. On
the local backend a name that is gone ends the deleting walk with an error, and the
measuring walk with the partial sum, as the code does.

Abstracted: sizes are equal; the upload locks and the download count, which
`UploadLifecycle` has (`CountDownload` only renews a sidecar's time).

### AccessControl and Edge

`NewFilter` builds a filter as `newIPFilter` does (blocked entries first, allowed
after, the last word on an entry wins) and `NetAllowed` asks it; `Meant` says without
any order what two lists mean. In `Edge` a request is `Arrive` (filter, authentication),
for a limited route `Lookup` (the section under `rl.mu`: find, stamp, evict) and
`Granted` or `Refused` (the bucket of `golang.org/x/time/rate`, modelled by how the
code uses it), then the handler: `Spool`, `StartScan`, `Connected`, `DialFails` or
`ScanTimeout`, `VerdictOK` or `NotOK` (nil replies and the panic included),
`ChargeUpload` (the hourly budget, which asks another bucket), `Store`. Around it are
`Serve`, `Signal`, `Drained`, `ForcedStop` and `Restart`. `level` is an ideal meter
and `slip` the time by which requests used a clock reading late; `MaxLate` is how late
one request may be. `Routes` groups the routes of `Run` by the middleware around them:
the owner's list is protected and limited, HEAD and DELETE of a session protected.
`Meant` follows the code where `ip_filter.go:23` ("Allowed takes precedence over
Blocked") does not: a blocked address inside an allowed subnet is blocked.

### ByteRange, E2EStream, SendTransfer

Bytes are numbers in a sequence. `ByteRange` keeps integers at `Width` bits, so the
subtraction of `AcceptLength` wraps as it does at 2^64, and tells the local backend
(which seeks whether or not it accepts) from S3 (which cuts, or fails) and from a
server without ranges. `LimitReader` takes its limit as a signed integer, as
`getHandler` converts it. A validator is that of a token and of whether it is
decrypted; a header is a list of them, which may hold `*`, and `*` matches any upload. In `E2EStream` a sealed chunk is one cell for each unit of its
plaintext and one for the tag, each naming key, prefix, counter and final flag: it
opens only when all of its cells are there in order under the expected nonce.
`Chunks` and `Decrypt` lay pieces of one size after each other (`EndToEnd`), so that a
place in a stream is a quotient and a remainder, as it is for `ReaderFrom`.

`SendTransfer` runs one get at a time: `BeginGet` (open or truncate `<name>.part`),
`AnswerGet`, `Receive` cell by cell, `EndGet` (the check for a restarted transfer, the
rename, or the header of an encrypted file), `DecryptFile`, and `BreakGet` anywhere.
One put at a time: `PutWhole` (`uploadStream`), or `ResumePut`/`StartPut`
(`resumeSession` and what follows when it finds nothing), `SendCells`, `CommitPut`,
`FinishPut`, `BreakPut`; between runs the file may be edited (an edit under a running
put, whose bytes are then of neither version, is left out) and sessions forgotten.
`Probe` is another client that sends ranges, passwords and validators.

Abstracted: `UploadSession`'s chunks and retries (`ResumableUpload`); `--output`,
standard input and output; one put and one get at a time; a fresh key is a new number.
The named assumptions say what an offered upload is: its token is its own, its bytes
fit the width of an integer, the first of a server-encrypted one does not come again
(`OfferAssumption`), and a link with a key is of what some put has sealed under it
(`SealAssumption`). TLC evaluates them on both instances.

### SendRecords and Send

A run of the command is `Begin`, `ReadKey`, on first use `MakeKey` and `WriteKey`, and
`Load` (put resolves its token first and then reads the history, rm the other way
round), then `UploadOne` per file and `UploadFails`, or
`FetchIndex` and `Delete` per target, or nothing (ls --prune), then `Save`, which
empties the file, and `WriteHistory`. `Torn` is a file between the two, which
`LoadHistory` takes for an empty history and `masterOwnerKey` for a corrupt key.
`Kill` ends a run anywhere. A run that is over keeps nothing (`NoRun`). A key is named
by the run that made it, so that two first runs make two; the server keeps the newest
`IndexLimit` uploads of each token, which is less than the history keeps. `Shared` is a
key that this machine was given by another one, whose uploads are all older and which
does nothing meanwhile. `Send` composes the two, so that an upload may be removed or
expire under a download.

## 3. Runs

| Run | Instance | What it shows |
|---|---|---|
| `lock` | 3 goroutines, an upload key and an owner key nested in it, 3 addresses, fairness | types, `LockMapSound` (exclusion, everyone unlocks his own, entries neither leak nor vanish), refinement of `Mutex`, `EveryCallReturns` |
| `upload_local` | local backend, an upload with budget 2 and one without, 3 requests, expiry, DELETE, 2 faults, 1 crash | `NoLostCount`, `WithinBudget`, `KeptWhileGood` (only a cut rewrite of a limited upload's sidecar takes away what is good), `PairsUnderLock`, `RollbackCleans` |
| `upload_s3` | S3, an upload with budget 2, 2 requests, one of them an archive, expiry, DELETE, 2 faults, 1 client that leaves, 1 crash, fairness | types, `QuotaAccounted` (counter and payloads agree up to sidecars measured and bytes given back twice), `TransfersAccounted` (every transfer counts, the excess is bounded), `NoTransferAfterDelete`, `RequestsEnd`, `SpentIsRemoved` |
| `resumable_shared` | 2 commands, 2 handlers, 3 units in chunks of 2, 3 attempts, 2 faults, 1 crash, 1 interruption or repetition, DELETE, TTL | types, `SpoolFaithful` (a prefix, acknowledged bytes kept, what is committed was chosen), `StoredOnceAndWhole`, refinement of `ResumableFile` |
| `resumable_fair` | the same with 1 command, fairness | `UploadSessionReturns` |
| `listings_pruned` | local backend, 3 uploads (one is counted, may run out, be deleted and be swept; one more may be in a collection; one is listed only), an index of 2, a collection of up to 2, 2 requests, 1 failing call or crash | types, `IndexFaithful` (no live entry lost, newest first), `ForgottenWhenGone`, `RepliesAreFresh`, `MembersKept` |
| `quota` | both backends, 3 uploads of 2 units under a limit of 2, 2 requests, 1 sweep, 1 removal, 1 fault or crash | types, `OvershootBounded`, `NoLostAdjustment`, `SweepSparesYoung`, `SweptClean` |
| `edge` | 2 requests; three configurations: a rate limit with burst 2, late clocks and eviction; an upload budget behind a filter that blocks by default; both filters (an address on both lists, one blocked inside an allowed subnet, a blocked subnet), htpasswd, scans, shutdown and a crash | types, `RateBounded`, `ScanIsSafe`, `FilterDecides`, `RequestsEnd` |
| `client` | five plans, below | `SavedIsRequested`, `UploadDecrypts`, `AnswersFit`, `Deletable`, `DeletesOnlyAsked` |
| `upload_dropsoff` | | *violated*: `DeletedDropsOff` |
| `resumable_lost` | | *violated*: `LostMeansStored` |
| `client_mixed` | two plain links with one file name, 2 gets | *violated*: `SavedIsRequested` |

**Bounds.** Three goroutines are a holder, a waiter and a newcomer; two keys are
needed for nesting, and three addresses let every goroutine refer to a
different object (a fourth would never be in use when a third is free). A budget
of 2 with three requests has a first, a last and an excess download overlapping; with
two, one of them an archive, it has an uncounted entry, an excess and, on S3, a DELETE
sent twice; a sidecar as large as a payload makes what is measured visible.
Two faults allow a failing call whose cleanup fails too; one crash suffices
because it resets all but the storage and the fault counter, which stays free to
fail again afterwards. Three units in chunks of two give a full and a short
chunk, and a chunk that can break in its middle; two handlers are a first attempt
and its retry. `Attempts` is 3 for the code's 5, enough for success, conflict and
exhaustion; TTL is 0 with a clock of 0..1: young and expired. Three uploads
and an index of two let the oldest entry fall off and be pruned past; one of them can end in every way there is, and does so between the looks
that two readers of one collection take; a third request would repeat what two already
do, because each object is read and written by one request at a time and overwritten
by one other.

`quota`: a limit of one upload and two requests let the check overshoot by the one
upload it may, and a third upload meets what the first two did to the counter;
`Days` 0 with a clock of 0..1 makes objects young and old. `edge`: a burst of 2, three
ticks, a request that is one tick late and a slip of 1 let a bucket empty, refill, be evicted and be charged with a
time that goes back; two requests are one at the bucket and one that evicts it.
`Costs` is one burst, so that one upload uses a budget up; the first scan of a pair
fills the spool. `client` splits what a behaviour may do into plans, because
transfers and records only meet in `live`: three gets of four uploads (two encrypted
ones with one file name, a plain one, a password-protected one) against three kinds
of server; two probes with start and end in, at the end of and beyond a file of 3 or 4
bytes and at the top of a 5-bit word (so that the local backend seeks past the end of
what it does not accept, S3 refuses, and a limit is negative as a signed integer), with
validators they were given or `*`; a get while two runs may remove or let expire; three puts of
a file with two versions under two names, with one edit or forgotten session; three
runs with one mishap, a history of two entries, a server's list of one and three
uploads, so that entries fall off both, on a machine that has no key yet or was given
one. Three runs are needed for put, a second put or prune that loads an older
file, and the rm that has to find the link; the one mishap is a kill, an overlap (two first runs at once among them), a
failed record, a failed upload, a list that cannot be fetched or a failed DELETE.

**Deadlock** is checked for the locks. In the other modules a behaviour may
really end (the upload is gone, the commands are over, the server serves nobody),
so it is not.

**Fairness.** `FileLock`: a goroutine that is in a call goes on (strong fairness,
since Go's mutex hands itself to a goroutine that keeps waiting), and leaves a
critical section it is inside of; asking for a lock is not fair. `UploadLifecycle`
and `ResumableUpload`: a handler or client that runs goes on running, which
includes being granted a lock that keeps being released; nothing is assumed
about new requests, faults, crashes, expiry or the clock. The network and the
storage answer or fail, because transfers end and calls have timeouts. `Edge`: a
request that can go on does, the scan timeout included, and a clamd that took the
command answers or closes. The code does not make that so: nothing bounds the wait for
the verdict (`clamav.go:101`), and with a daemon that goes silent there the request
never ends; `RequestsEnd` shows that this is the only place. That a connection to it succeeds or fails is not assumed.
`RequestsEnd` needs the timeout for exactly that case.

**Mutants.** Every property has a mutated definition in its module (a comment
says `Mutant:`), the way a bug in that code would look, under which the same run
finds the property violated.

### What the violated properties show

- `DeletedDropsOff`. `deleteHandler` deletes outside the lock; an
  `increaseDownload` that has read the sidecar before writes it back after. The
  sidecar of a deleted upload goes on resolving. `NoTransferAfterDelete` shows that
  nothing is served from it.
- `LostMeansStored`. If `store()` fails at the last chunk the session stays, full;
  the client takes the full length for a lost confirmation and says the upload is
  complete. Repeating the command ends the same way until the session expires.
- `SavedIsRequested` (`client_mixed`). The partial file is named by the last element
  of the link alone, so the interrupted get of one link is continued by the get of
  another of the same name: the server answers 206 and two halves of two files are
  saved as one. In the `client` run, where the two links of one name are encrypted,
  the chunks do not authenticate and nothing wrong is saved.

### Noted while modelling

Not runs of their own, but what a reader of the models should know. Server:

- Downloads that overlap all pass the Max-Downloads check before any is counted
  (`download.go:264`; `README.md:306` says "Cap downloads at N"). `TransfersAccounted`
  gives the extent: fewer extra downloads than overlapping requests.
- An archive counts its entries with the request's context (`archive.go:63`), a plain
  download without its cancellation (`download.go:389`). On S3 a client that leaves
  when an entry is complete is never counted, as often as it likes, so the budget can
  be exceeded without any overlap (`missed` in `TransfersAccounted`).
- On the local backend `increaseDownload` rewrites the sidecar of a live upload by
  truncating it (`local.go:166`). A full disk or a crash in between loses the upload:
  it does not decode and every request answers 404 from then on. `KeptWhileGood` names
  this as its one exception; unlimited uploads are never rewritten.
- A download counted while its upload is deleted writes the sidecar back
  (`handlers.go:511-527`): the violated `DeletedDropsOff`. Lists and collections then
  name it again, against `README.md:403`; `RepliesAreFresh` says that nothing else
  brings an upload back.
- A reader of a collection that has found a member dead writes the pruned list back
  after a DELETE has succeeded, and the link answers again (`collection.go:321`).
  `MembersKept` leaves out collections whose DELETE was answered.
- The owner's list looks for the sidecar only (`owner.go:210`), so an upload past its
  date stays listed until another request reads its metadata, although
  `README.md:433` speaks of expired uploads disappearing from it.
- Two DELETEs of one upload both reach `quota.sub` on S3, where deleting nothing
  succeeds: the counter falls below what is stored until the next reseed.
- The reseed stores a sum taken over time. An upload stored and counted behind the
  walk is forgotten; one that the walk has seen and that is added after the store
  counts twice. `Usage` of the local backend takes any missing file for a missing
  base directory and returns the partial sum without an error (`local.go:196`).
- `Usage` counts sidecars, which removals do not give back: after a restart the counter
  stays above what is stored by the sidecars there were (`measured` in
  `QuotaAccounted`), until the next reseed.
- A transient error of `Head` or `checkMetadata` counts as "gone" and prunes a live
  upload from its list or collection for good (`IndexFaithful` and `MembersKept` are
  stated for behaviours without failures). An index torn by a crash never decodes
  again and is not rewritten.
- The rollback in `store()` uses the request's context and ignores its own failure
  (`RollbackCleans` covers one failure, not two).
- HEAD of a session reports the size of the spool in the middle of a chunk; the size
  check of the next PATCH corrects it. `sessionTTL` is documented as the life of an
  *untouched* session but runs from its creation.
- Spool files of a process that died are counted by `tempUsage` and removed by
  nobody; `/scan` spools without asking `checkTempQuota`; the timeout of a scan ends
  with the connection, so that a daemon that goes silent after the command keeps the
  request for ever (`clamav.go:101`); the hourly budget's buckets are evicted after exactly their
  window (`EdgeIdle` is the assumption that this is not too early). PUT to the fixed
  names (favicon.ico, robots.txt, health.html) is authenticated and not rate limited.
  A signal that comes before `Run` installs its handler ends the process at once.
- The comment at `ip_filter.go:23` ("Allowed takes precedence over Blocked") does not
  hold for a blocked address inside an allowed subnet, which is blocked: addresses are
  looked up before subnets. `FilterDecides` compares with what the code does.
- `If-None-Match: *` answers 304 also to a client that holds nothing (`caching.go:69`;
  `caching_test.go:270` asks for it). A range longer than 2^63 that the bucket accepts
  is a negative limit (`download.go:303-304`) and gives an empty body of the announced
  length.
- On the local backend a range that reaches past the end answers 200 with the length
  of the file and, for a start above zero, a shorter body: an error to the reader,
  which is why `AnswersFit` speaks of answers that arrive complete. A password with
  `bytes=0-` answers 206 with the Content-Range of the ciphertext.

Command line:

- `resumeSession` does not compare the name. An encrypted put resumed under another
  `--name` seals a header of another name or length over the bytes the server has,
  and what is stored cannot be decrypted by anybody, although the run reports success
  (`cmd/send/upload.go:160`; `client/resume.go:7` says a resumed transfer "has to
  continue the exact same ciphertext"). `UploadDecrypts` is stated for uploads whose
  runs were all given one name, and the model lets them differ.
- `decryptFile` writes straight to the destination: a run killed meanwhile leaves a
  truncated file under the final name, against the comment at `main.go:496-498`. The
  partial file is kept, so the next get repairs it.
- Two first runs at once may each write an `owner.key` (`client/owner.go:61-87`);
  uploads recorded under the losing one are on no list any more, and one of the two
  histories is overwritten: this alone costs the means to delete an upload, the only
  single mishap that does. `Begin` admits it, as "first runs", and `Deletable` names it
  as its exception.
- The server's list keeps 200 uploads (`owner.go:105`), the history 500
  (`history.go:14`). What is older than the 200 has one record only, so a kill inside
  `Save` costs it; `Deletable` therefore speaks of the newest `HistoryLimit` before a
  mishap and of the newest `IndexLimit` after one.
- A put of several files that fails at a later one does not save the history; the
  links it printed are deletable through the server's list only. `Deletable` holds
  for one mishap of any kind, not for two (such as this and a failed record).
- `printUploadSummary` suggests `send rm` of the link without its key
  (`main.go:412`). History has the link with the key, so the run falls back to the
  server's list and leaves the entry in the history.
- Two gets of one link at once append to one partial file. A complete partial file
  asks for a range that begins at the end, which S3 refuses; only `--no-resume` goes
  on. `E2EStream.ReaderFrom` at the very end of a file whose length is a multiple of
  the chunk yields one more, empty chunk; nothing asks for it there.

## 4. Proofs

All hold for every value of the constants, from the named assumptions in the
modules: finite sets of goroutines, requests and uploads; `Nil`, `Absent`, `Torn`,
`Gone`, `NoRange` and `OpenEnd` distinct from data; budgets -1 or positive; sizes and attempts positive; in
`Edge` a request late by no more than half the idle time after which a bucket is thrown away
(`EdgeSlip`, server.go:510-560; each request on its own, however many are late) and an idle time in which every bucket refills
(`EdgeIdle`). Each inductive invariant was checked by TLC on the instances above
before it was proved.

`FileLockProofs` proves `TypeOK`, `MutualExclusion`, `UnlocksItsOwn` and
`EntryIffClaimed`, together `LockMapSound`, and that the lock map implements `Mutex`. The inductive
invariant adds what the safety properties do not say: no two keys share an
object (`OneKeyPerObject`), an object's counter is the number of goroutines
that wait for or hold its key (`RefsCountClaimants`), and each local variable
points where its place in the code says (`LocalsPoint`). Then an entry is
deleted only when its count reaches zero, when nobody can be asleep on it, so
the object of the second lookup in `unlock()` is the one that was locked. The
work is in the cardinalities: adding and removing one claimant.

`UploadLifecycleProofs` proves `TypeOK`, `NoLostCount`, `WithinBudget` and
`NoTransferAfterDelete`, with any number of faults and crashes and for both
backends. The invariant: requests refer to published uploads (`RequestsRefer`),
a held lock is held by a request about that upload inside its critical section
(`LocksHeld`), a request about to write the count holds the lock and has read the
number recorded, still below the budget (`RecordingKnows`), and nothing is
recorded before publication (`UnpublishedUncounted`). For DELETE: once
`storage.Delete` has succeeded the payload is gone for good (`RemovedIsGone`),
since only an unfinished PUT writes a payload.

The same module goes on from that invariant to `KeptWhileGood`,
`PairsUnderLock`, `RollbackCleans`, `QuotaAccounted` and `TransfersAccounted`. The
first has the exception its definition names: the local backend, a limited upload, and
something that has failed.
What the properties do not say and the proof needs: a request removes an upload
without its lock only when it is condemned by DELETE, and with the lock only when it
is expired or its budget is recorded as spent (`RemovalJustified`); an unfinished PUT
is known to be uncounted, unserved and, after its rollback, gone (`PutKnows`). The
counter is bounded from both sides by counting payloads that have been added to it and
not yet taken off together with the requests about to take one off (`UsedIsCovered`);
sidecars measured by the last start are what it may exceed them by, and removals that
found no payload what it may fall short by. The transfers are known by two regimes: as long as the upload resolves, what is served is what is
recorded plus what waits to be; once a request holding the lock has begun to remove
it nothing resolves again, so the excess can only shrink (`TransfersKnown`).

`StorageQuotaProofs` proves `TypeOK`, `OvershootBounded` (counted with the uploads in
flight, so that the addition only moves an upload from one side to the other),
`NoLostAdjustment` (an upload is counted once, since nobody else builds it and only
what was counted is given back: `RequestsRefer`, `GivenWasAdded`), `SweptClean` and
`SweepSparesYoung`. The last two need the walk while it is under way: what is older
than the cutoff is in a directory still to be entered or among the names still to be
visited (`Unswept`), a page of the bucket names only what was old or is being removed
(`Condemned`), and a young upload keeps the sidecar it began with, so that its directory
is never empty when directories are pruned (`YoungKept`, `Births`).

`EdgeProofs` proves `TypeOK`, `RateBounded`, `ScanIsSafe` and `FilterDecides`. The bound
is not inductive: the meter has to be compared with what the bucket would hold now
rather than with what it holds, and a request that read its clock earlier may set the
stamp back, so the invariant keeps room for the distance between the stamp and the time
of every request that holds the bucket (`Metered`). A bucket that a request holds has
been looked up recently (`HeldBuckets`), hence one that is evicted has been idle, is
full, and starting again with a full one grants nothing extra. For the scan it suffices
to know which requests can have a spool file and which have been vetted
(`NotSpooledYet`, `VettedAhead`). The filter is a fold over two lists of any length. The
library's induction theorems take an operator that the provers cannot instantiate, so
`Induct` derives induction from well-foundedness (`WFMin`), over the set of the lengths up to which the fold is defined,
and then over the set of those up to which the filter holds the last word on each entry
(`OneByOne`, `ListLists`); `FilterMeans` compares the two lists with what `NetAllowed`
finds. It assumes that addresses are finitely many.

`ResumableUploadProofs` proves `TypeOK`, `SpoolFaithful`, `StoredOnceAndWhole` and that
the session implements `ResumableFile`, for any number of commands, retries, crashes
and faults. A handler acts on an offset it found and a chunk chosen before; so the
invariant says which handler is inside the lock (`LocksHeld`), that every chunk fits
the file and has ends some client chose (`ChunksFit`), and how long the spool file is
at each place of the handler (`Progress`). A file is not stored twice because a stored
one leaves its spool file full or gone (`StoredLast`), where no chunk can start. The
refinement maps a crash or a broken copy to growth, an expiry that meets `store()` to
a stutter, and a failed `store()` to a stutter or to the session's end.

`ListingsProofs` proves all five invariants of `Listings`. What they share is `Places`:
which values go with which place in a handler, that the owner lock is held exactly
inside its section, what a request knows of the upload it is about, and that an upload
is recorded by one request. For the index, `IndexFaithful` and `ForgottenWhenGone` are
about the moments when nobody holds the lock, so `IndexInv` says the same of what a
request is about to write and of what a listing has kept and not looked at yet: both
are lists of recorded uploads, newest first (`ListsSound`), and if nothing has failed
they miss nobody (`AllKept`). The limit needs the strongest form: the i-th entry has
i - 1 newer ones at least, so an entry pushed off has `IndexLimit` newer ones. What may
be listed is what nothing was removed of, or what the sweep took (`Due`); a sidecar
that was written back or left behind belongs to an upload that was removed before
(`Lingers`), and nobody records that again. `RepliesAreFresh` has to follow it, though:
what a reader found missing is still missing or was written back since
(`GhostsSound`, `revived`). For
collections no lock helps. `MembersKept` holds because being alive (`Alive`: nothing
removed, not expired) ends for good: each
reader that will write has every live member in what it kept or has not looked at
(`Has`), although it may write back dead ones that another reader has dropped. A
collection without members belongs to the request that creates it (`Creation`).

`SendProofs` proves `DeletesOnlyAsked` and, for plans with at most one mishap,
`Deletable`. For the first it is enough that what rm has still to delete is what it
was given or what this machine made (`AskedFor`), for every torn file and overlap. The
second rests on two ways to an upload, the server's list under the key on file, which
every put uses (`Listed`), and the history with the run that is about to write it
(`Kept`). Each reaches as far back as its limit. `OneWayLeft` says that both are open
until the mishap and one of them after it: an upload the server could not record or a
key left half written closes the first, anything else the second. Two first runs close
both, and are excepted. The hypothesis of one mishap is the bound of the run; with two
the property is false (see "Noted while modelling").

`SendTransferProofs` proves `AnswersFit`, `UploadDecrypts` and `SavedIsRequested`, at
every width of an integer, chunk size, file, name, header and backend.

- `AnswersFit`: what either backend reads is a piece of the upload that begins where
  the range does, also where `AcceptLength` wraps; only what begins at the start
  decrypts; a limit that is negative as a signed integer leaves nothing, which is not
  complete; a validator tells uploads apart, and a 304 goes to who names one it holds or
  asks for any with `*`. The invariant is what a client holds
  (`HeldFit`).
- `UploadDecrypts` needs the format. The k-th cell of chunk c of a ciphertext is known
  from its place (`ChunksAre`); so decrypting what was sealed gives the file and the
  name (`RoundTrip`), `ReaderFrom` at any offset before the end is the rest of the
  same ciphertext (`ReaderFromIs`), and `EncryptedSize` is its length (`SizeIsRight`).
  Then a session whose runs were all given one name holds a beginning of the ciphertext
  that its entry describes, of the length the session was made with (`PutInv`), over
  interruptions, edits of the file and lost sessions.
- `SavedIsRequested` is proved under `NamesApart`: links that share a file name are of
  sealed uploads with a key each. It needs some hypothesis, since `client_mixed`
  violates the property without one. Under it a partial file holds a beginning of a
  plain link, or, of sealed ones, pieces that may come from any link of the name
  (`PartFits`, `Arriving`); whatever opens under a link's key, in order and with a final
  chunk, is the file of that link (`OpenedIsOwn`). A server that ignores the offset
  spoils the file, and the check for a restarted transfer is what keeps it from being
  saved.

Model-checked only: all liveness and deadlock freedom (fairness and `ENABLED` are
outside this prover's reach). `SavedIsRequested` without `NamesApart` is false, and
`Deletable` with more than one mishap too.

## 5. Plan

What could follow: a form of `Deletable` without the bound on mishaps, naming the
combinations that cost an upload as its exceptions, and its proof; an edit under a
running put; several
sessions of one upload by one command, so that "elsewhere" goes on instead of leaving
the model; two owners whose lists name one collection's members.

### Not modelled

The browser's upload queue and its own implementation of the
encryption format (`web/src`, a second client of what is modelled here); profiles,
`info`, listings and argument parsing of the command; freshness lifetimes
(`cacheControl`) and caches between client and server; the HTTPS redirect, TLS, CORS,
previews, page rendering, messages and metrics; random tokens (taken as unique); the
cryptography of OpenPGP and AES; VirusTotal (one proxied request); clamd commands
other than a scan. They have no state that two actors share, or are configuration.
