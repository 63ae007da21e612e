--------------------------------- MODULE Edge ---------------------------------
(***************************************************************************)
(* What a request meets before its upload is stored, and the life of the   *)
(* process around it: IP filter, authentication, the token buckets of the  *)
(* rate limit and of the upload budget, spool space, the ClamAV scan with  *)
(* its timeout, recovery from a panic, start-up, graceful shutdown, crash. *)
(*                                                                         *)
(* A bucket refills one unit for each tick of the clock.  The time is read *)
(* before the limiter's mutex is taken and the bucket is charged after it  *)
(* is released, so the three are steps of their own.                       *)
(*                                                                         *)
(* Abstractions: a spool file is one unit of space; redirects, headers and *)
(* logging are left out; a handler of another component does nothing here, *)
(* and so does VirusTotal's.  A scan goroutine whose request timed out can *)
(* reach nobody and is not kept.                                           *)
(***************************************************************************)
EXTENDS Integers, AccessControl

CONSTANTS
    Requests,  \* request goroutines
    Unparsed,  \* a remote address that net.ParseIP refuses
    Callers,   \* remote addresses of requests
    Configs,   \* configurations to check: records as in Init
    Burst,     \* units a bucket of each kind holds; also its window in ticks
    IdleTTL,   \* ticks without use after which a bucket is evicted
    Costs,     \* kilobytes an upload may have
    MaxTemp,   \* maxTempSize, in spool files
    MaxClock,  \* bound: ticks
    MaxLate,   \* ticks by which a request may run late
    MaxSlip,   \* bound: ticks by which requests run late, in all
    Nil        \* none

Kinds == {"requests", "kilobytes"}

ASSUME EdgeSets == IsFiniteSet(Requests) /\ Unparsed \notin Addresses
                   /\ Callers \subseteq Addresses \cup {Unparsed}
ASSUME EdgeConfigs == \A c \in Configs : c.ipFilter \in Options \cup {NoFilter}
ASSUME EdgeBurst == Burst \in [Kinds -> Nat \ {0}] /\ Costs \subseteq Nat \ {0}
ASSUME EdgeIdle == IdleTTL \in [Kinds -> Nat] /\ \A k \in Kinds : IdleTTL[k] >= Burst[k]
ASSUME EdgeBounds == {MaxTemp, MaxClock, MaxLate, MaxSlip} \subseteq Nat
\* Two late requests, of which one stamps a bucket that the other holds, are not
\* so late that it is evicted meanwhile: at ten minutes or more they are not.
ASSUME EdgeSlip == \A k \in Kinds : 2 * MaxLate <= IdleTTL[k]

\* A token bucket of golang.org/x/time/rate, and when its address was last seen.
Buckets == [tokens : Nat, last : Int, seen : Nat]

ASSUME EdgeNil == Nil \notin Callers /\ Nil \notin Buckets

VARIABLES
    config,    \* the configuration in force
    server,    \* "starting", "serving", "draining" or "stopped"
    filter,    \* the IP filter Run has built
    htpasswd,  \* the htpasswd file has been loaded
    at,        \* where each request is
    route,     \* its route, Nil when idle
    from,      \* its remote address, Nil when idle
    now,       \* the time it read for the bucket it asks
    asks,      \* which bucket that is, Nil when none
    units,     \* what it wants from it
    bucket,    \* limiters: for each kind and address Nil or a bucket
    lastGC,    \* when each limiter was last swept
    spooled,   \* requests that hold a spool file
    orphans,   \* spool files whose request died with the process
    clock, stops

\* What happened, for the properties.
VARIABLES
    level,     \* an ideal meter of each bucket: filled by what is granted, it
               \* drains one unit a tick
    slip,      \* how late, in all, requests used the time they had read
    vetted,    \* requests whose own spool file clamd called OK
    stored     \* of each upload that reached store(), whether it was vetted

requestVars == <<at, route, from, now, asks, units>>
limitVars == <<bucket, lastGC, level, slip>>
processVars == <<config, server, filter, htpasswd, clock, stops, orphans>>
scanVars == <<vetted, stored>>
vars == <<config, server, filter, htpasswd, at, route, from, now, asks, units, bucket,
          lastGC, spooled, orphans, clock, stops, level, slip, vetted, stored>>

\* The routes of Run, by the middleware around them: PUT and POST of uploads, PUT
\* of a scan, PUT of the three fixed names, other protected and limited routes
\* (the owner's list, a new collection, POST and PATCH of a session), HEAD and
\* DELETE of a session, the limited GETs, and what is neither protected nor
\* limited (HEAD and DELETE of an upload, previews, health, static files).
Routes == {"put", "scan", "putFixed", "owner", "session", "get", "open"}
Protected == Routes \ {"get", "open"}
RateLimited == {"put", "scan", "owner", "get"}
Uploading == {"put", "putFixed"}

\* A request: none; holding the time for a bucket; holding the bucket; past the
\* middleware (a handler modelled elsewhere stays there); spool file filled;
\* clamd being dialled; waiting for its verdict; storing.
Place == {"idle", "asking", "charging", "begun", "spooled", "dialling", "awaiting",
          "storing"}

TypeOK ==
    /\ config \in Configs
    /\ server \in {"starting", "serving", "draining", "stopped"}
    /\ htpasswd \in BOOLEAN
    /\ at \in [Requests -> Place]
    /\ route \in [Requests -> Routes \cup {Nil}]
    /\ from \in [Requests -> Callers \cup {Nil}]
    /\ now \in [Requests -> 0..MaxClock] /\ units \in [Requests -> Nat]
    /\ asks \in [Requests -> Kinds \cup {Nil}]
    /\ bucket \in [Kinds -> [Callers -> Buckets \cup {Nil}]]
    /\ \A k \in Kinds, a \in Callers :
           bucket[k][a] # Nil => bucket[k][a].tokens <= Burst[k]
    /\ lastGC \in [Kinds -> 0..MaxClock]
    /\ spooled \subseteq Requests /\ orphans \in Nat
    /\ clock \in 0..MaxClock /\ stops \in Nat
    /\ level \in [Kinds -> [Callers -> Nat]] /\ slip \in Nat
    /\ vetted \subseteq Requests
    /\ stored \subseteq BOOLEAN

\* A configuration: the filters (Addresses lists or NoFilter), the protection of
\* the upload routes, the limiters in force, and whether uploads are scanned; and
\* bounds, the routes that clients use, from where, and how often the process ends.
Init ==
    /\ config \in Configs
    /\ server = "starting" /\ filter = NoFilter /\ htpasswd = FALSE
    /\ at = [r \in Requests |-> "idle"]
    /\ route = [r \in Requests |-> Nil] /\ from = [r \in Requests |-> Nil]
    /\ now = [r \in Requests |-> 0] /\ units = [r \in Requests |-> 0]
    /\ asks = [r \in Requests |-> Nil]
    /\ bucket = [k \in Kinds |-> [a \in Callers |-> Nil]]
    /\ lastGC = [k \in Kinds |-> 0]
    /\ spooled = {} /\ orphans = 0
    /\ clock = 0 /\ stops = 0
    /\ level = [k \in Kinds |-> [a \in Callers |-> 0]]
    /\ slip = 0
    /\ vetted = {} /\ stored = {}

Max0(n) == IF n < 0 THEN 0 ELSE n
Least(a, b) == IF a < b THEN a ELSE b

Goto(r, place) == at' = [at EXCEPT ![r] = place]

StopAsking(r) ==
    /\ asks' = [asks EXCEPT ![r] = Nil]
    /\ now' = [now EXCEPT ![r] = 0] /\ units' = [units EXCEPT ![r] = 0]

\* The request is answered: its locals are gone, and so is the spool file that
\* cleanTmpFile was deferred for.
Finish(r) ==
    /\ Goto(r, "idle")
    /\ route' = [route EXCEPT ![r] = Nil] /\ from' = [from EXCEPT ![r] = Nil]
    /\ StopAsking(r)
    /\ spooled' = spooled \ {r} /\ vetted' = vetted \ {r}

\* allowN up to its reading of the clock.  More than a bucket holds is refused
\* without touching one.
Ask(r, k, n) ==
    /\ Goto(r, "asking")
    /\ asks' = [asks EXCEPT ![r] = k]
    /\ now' = [now EXCEPT ![r] = clock] /\ units' = [units EXCEPT ![r] = n]

-------------------------------------------------------------------------------
(***************************************************************************)
(* The middleware chain of Run.                                            *)
(***************************************************************************)

\* htpasswd.New reads the file on the first protected request; a file that
\* cannot be read answers 500 and is tried again on the next one.
LoadsHtpasswd(rt) == rt \in Protected /\ config.auth = "htpasswd" /\ ~htpasswd

MayPass(rt, ip, credentials) ==
    rt \in Protected => Authorized(config.auth, config.authFilter, ip, credentials)

\* A request that the filter and the authentication let through; a refused one
\* changes nothing but htpasswd.
Arrive(r, rt, ip, credentials) ==
    /\ server = "serving" /\ at[r] = "idle"
    /\ rt \in config.routes /\ ip \in config.callers
    /\ PassesFilter(filter, ip) /\ MayPass(rt, ip, credentials)
    /\ htpasswd' = (htpasswd \/ LoadsHtpasswd(rt))
    /\ route' = [route EXCEPT ![r] = rt] /\ from' = [from EXCEPT ![r] = ip]
    /\ IF rt \in RateLimited /\ "requests" \in config.limits
       THEN Ask(r, "requests", 1)
       ELSE Goto(r, "begun") /\ UNCHANGED <<now, asks, units>>
    /\ UNCHANGED <<config, server, filter, clock, stops, orphans, limitVars, spooled,
                   scanVars>>

LoadHtpasswd ==
    /\ server = "serving" /\ config.auth = "htpasswd" /\ ~htpasswd
    /\ htpasswd' = TRUE
    /\ UNCHANGED <<config, server, filter, clock, stops, orphans, requestVars, limitVars,
                   spooled, scanVars>>

-------------------------------------------------------------------------------
(***************************************************************************)
(* ipRateLimiter.allowN, and the token bucket of golang.org/x/time/rate.   *)
(***************************************************************************)

\* A new bucket is full whenever it is first charged.
FullBucket(k, t) == [tokens |-> Burst[k], last |-> -Burst[k], seen |-> t]

\* Eviction must not come before the bucket would have refilled.  Mutant: it
\* does not look at the age of a bucket, only that nobody is about to charge it.
AnyAge(k, b, t) == b # Nil /\ \A r \in Requests : at[r] # "charging"
Idle(k, b, t) == b # Nil /\ t - b.seen > IdleTTL[k]

\* The section under rl.mu: find or make the entry, stamp it, and at most once
\* per IdleTTL sweep the map.
Lookup(r) ==
    LET k == asks[r] a == from[r] t == now[r]
        b == bucket[k][a]
        sweep == t - lastGC[k] > IdleTTL[k]
        stamped == IF b = Nil THEN FullBucket(k, t) ELSE [b EXCEPT !.seen = t]
    IN
    /\ at[r] = "asking"
    /\ bucket' = [bucket EXCEPT ![k] =
           [x \in Callers |->
               IF x = a THEN stamped
               ELSE IF sweep /\ Idle(k, bucket[k][x], t) THEN Nil
               ELSE bucket[k][x]]]
    /\ lastGC' = [lastGC EXCEPT ![k] = IF sweep THEN t ELSE @]
    /\ slip' = slip + (clock - t)
    /\ Goto(r, "charging")
    /\ UNCHANGED <<processVars, route, from, now, asks, units, level, spooled, scanVars>>

\* rate.Limiter.advance: what the bucket holds at time t.  Mutant: it may hold
\* more than its burst.
TokensUncapped(k, b, t) == b.tokens + Max0(t - b.last)
TokensAt(k, b, t) == Least(Burst[k], b.tokens + Max0(t - b.last))

\* Limiter.AllowN: a grant takes the tokens and moves the bucket's time to t,
\* even back; a refusal leaves the bucket alone and answers 429.
Granted(r) ==
    LET k == asks[r] a == from[r] t == now[r] b == bucket[k][a] IN
    /\ at[r] = "charging" /\ TokensAt(k, b, t) >= units[r]
    /\ bucket' = [bucket EXCEPT ![k][a] =
           [@ EXCEPT !.tokens = TokensAt(k, b, t) - units[r], !.last = t]]
    /\ level' = [level EXCEPT ![k][a] = @ + units[r]]
    /\ slip' = slip + (clock - t)
    /\ Goto(r, IF k = "requests" THEN "begun" ELSE "storing")
    /\ StopAsking(r)
    /\ UNCHANGED <<processVars, route, from, lastGC, spooled, scanVars>>

Refused(r) ==
    /\ at[r] = "charging"
    /\ TokensAt(asks[r], bucket[asks[r]][from[r]], now[r]) < units[r]
    /\ Finish(r)
    /\ UNCHANGED <<processVars, limitVars, stored>>

-------------------------------------------------------------------------------
(***************************************************************************)
(* Spool, scan, charge, store: putHandler and scanHandler.                 *)
(***************************************************************************)
handlerUnchanged == UNCHANGED <<processVars, limitVars>>
localsUnchanged == UNCHANGED <<route, from, now, asks, units>>

\* checkTempQuota asks for room, for none at all when the request declares no
\* length; scanHandler does not ask.
tempUsage == Cardinality(spooled) + orphans

Spool(r) ==
    /\ at[r] = "begun" /\ route[r] \in Uploading \cup {"scan"}
    /\ route[r] \in Uploading => tempUsage <= MaxTemp
    /\ spooled' = spooled \cup {r}
    /\ Goto(r, "spooled")
    /\ UNCHANGED scanVars /\ localsUnchanged /\ handlerUnchanged

\* 507, a client that goes away, an entity too large, an upload that fails or
\* succeeds: the handler returns.
Return(r) ==
    /\ at[r] \in {"begun", "spooled", "storing"}
    /\ Finish(r)
    /\ UNCHANGED stored /\ handlerUnchanged

\* checkUploadBudget, or straight to the store.  More than the bucket holds is
\* refused.
ChargeUpload(r) ==
    \/ /\ "kilobytes" \in config.limits
       /\ \E n \in Costs : n <= Burst["kilobytes"] /\ Ask(r, "kilobytes", n)
       /\ UNCHANGED <<route, from>>
    \/ "kilobytes" \notin config.limits /\ Goto(r, "storing") /\ localsUnchanged

\* Without a scan, from the spool file or straight from the body.
SkipScan(r) ==
    /\ at[r] \in {"begun", "spooled"} /\ route[r] \in Uploading /\ ~config.prescan
    /\ ChargeUpload(r)
    /\ UNCHANGED <<spooled, scanVars>> /\ handlerUnchanged

\* performScan starts its goroutine and waits for it or for the timeout.
StartScan(r) ==
    /\ at[r] = "spooled" /\ (route[r] = "scan" \/ config.prescan)
    /\ Goto(r, "dialling")
    /\ UNCHANGED <<spooled, scanVars>> /\ localsUnchanged /\ handlerUnchanged

\* The command is sent and the goroutine hands over the channel of replies; from
\* here on the request waits without a timeout.
Connected(r) ==
    /\ at[r] = "dialling"
    /\ Goto(r, "awaiting")
    /\ UNCHANGED <<spooled, scanVars>> /\ localsUnchanged /\ handlerUnchanged

\* clamd cannot be reached, or the command cannot be sent.
DialFails(r) ==
    /\ at[r] = "dialling"
    /\ Finish(r)
    /\ UNCHANGED stored /\ handlerUnchanged

\* Sixty seconds without a connection.  Both channels are unbuffered, so the
\* goroutine blocks for ever on whichever it comes to use.  Mutant: there is no
\* timeout.
ScanTimeoutNever(r) == FALSE
ScanTimeout(r) ==
    /\ at[r] = "dialling"
    /\ Finish(r)
    /\ UNCHANGED stored /\ handlerUnchanged

\* The first line of the reply.  scanHandler reports it, prescan refuses
\* whatever is not OK.
VerdictOK(r) ==
    /\ at[r] = "awaiting"
    /\ IF route[r] = "scan"
       THEN Finish(r) /\ UNCHANGED stored
       ELSE /\ vetted' = vetted \cup {r}
            /\ ChargeUpload(r)
            /\ UNCHANGED <<spooled, stored>>
    /\ handlerUnchanged

\* Another verdict.  A connection that closes without a line yields a nil reply,
\* whose use panics: panicHandler answers 500 after the deferred clean-up.
\* Mutant: the panic skips the clean-up.
PanicLeavesFile(r) ==
    /\ at[r] = "awaiting"
    /\ Goto(r, "idle")
    /\ route' = [route EXCEPT ![r] = Nil] /\ from' = [from EXCEPT ![r] = Nil]
    /\ UNCHANGED <<now, asks, units, spooled, scanVars>> /\ handlerUnchanged
NotOK(r) ==
    /\ at[r] = "awaiting"
    /\ Finish(r)
    /\ UNCHANGED stored /\ handlerUnchanged

\* store(): the rest is UploadLifecycle's.
Store(r) ==
    /\ at[r] = "storing"
    /\ stored' = stored \cup {r \in vetted}
    /\ Finish(r)
    /\ handlerUnchanged

-------------------------------------------------------------------------------
(***************************************************************************)
(* The process: Run from its checks to its shutdown, and a crash.          *)
(***************************************************************************)
Serve ==
    /\ server = "starting" /\ server' = "serving"
    /\ filter' = BuildFilter(config.ipFilter)
    /\ UNCHANGED <<config, htpasswd, clock, stops, orphans, requestVars, limitVars,
                   spooled, scanVars>>

\* SIGINT or SIGTERM: Shutdown closes the listeners.
Signal ==
    /\ server = "serving" /\ stops < config.stops /\ server' = "draining"
    /\ UNCHANGED <<config, filter, htpasswd, clock, stops, orphans, requestVars,
                   limitVars, spooled, scanVars>>

\* The process is gone, with the requests it had; their files stay.
Stop ==
    /\ server' = "stopped" /\ stops' = stops + 1
    /\ filter' = NoFilter /\ htpasswd' = FALSE
    /\ at' = [r \in Requests |-> "idle"]
    /\ route' = [r \in Requests |-> Nil] /\ from' = [r \in Requests |-> Nil]
    /\ now' = [r \in Requests |-> 0] /\ units' = [r \in Requests |-> 0]
    /\ asks' = [r \in Requests |-> Nil]
    /\ bucket' = [k \in Kinds |-> [a \in Callers |-> Nil]]
    /\ lastGC' = [k \in Kinds |-> clock]
    /\ level' = [k \in Kinds |-> [a \in Callers |-> 0]]
    /\ slip' = 0
    /\ orphans' = orphans + Cardinality(spooled)
    /\ spooled' = {} /\ vetted' = {}
    /\ UNCHANGED <<config, clock, stored>>

\* Shutdown returns once no connection is active.
Drained == server = "draining" /\ (\A r \in Requests : at[r] = "idle") /\ Stop

\* The shutdown timeout, then Close; a signal that comes before Run asks for
\* it; or the process is killed.
ForcedStop == server # "stopped" /\ stops < config.stops /\ Stop

Restart ==
    /\ server = "stopped" /\ server' = "starting"
    /\ UNCHANGED <<config, filter, htpasswd, clock, stops, orphans, requestVars,
                   limitVars, spooled, scanVars>>

\* Time passes, which only the limiters see.  No request holds the time it has
\* read for ever, and the bound on slip keeps the lateness of all of them small.
Tick ==
    /\ config.limits # {} /\ clock < MaxClock /\ clock' = clock + 1
    /\ \A r \in Requests : at[r] \in {"asking", "charging"} =>
           clock' - now[r] <= MaxLate /\ slip + (clock' - now[r]) <= MaxSlip
    /\ level' = [k \in Kinds |-> [a \in Callers |-> Max0(level[k][a] - 1)]]
    /\ UNCHANGED <<config, server, filter, htpasswd, stops, orphans, requestVars,
                   bucket, lastGC, slip, spooled, scanVars>>

Handle(r) ==
    \/ Lookup(r) \/ Granted(r) \/ Refused(r)
    \/ Spool(r) \/ Return(r) \/ SkipScan(r) \/ StartScan(r)
    \/ ScanTimeout(r) \/ Store(r)

Dial(r) == Connected(r) \/ DialFails(r)
Verdict(r) == VerdictOK(r) \/ NotOK(r)

Next ==
    \/ \E r \in Requests : Handle(r) \/ Dial(r) \/ Verdict(r)
    \/ \E r \in Requests, rt \in Routes, ip \in Callers,
          c \in {"none", "good", "bad"} : Arrive(r, rt, ip, c)
    \/ LoadHtpasswd \/ Serve \/ Signal \/ Drained \/ ForcedStop \/ Restart \/ Tick

\* The runtime schedules every goroutine and fires the timeout; a daemon that
\* may be dialled for ever is not relied on, but one that took the command has
\* to answer or close: nothing else ends the wait for its verdict.
Fairness == \A r \in Requests : WF_vars(Handle(r)) /\ WF_vars(Verdict(r))

Spec == Init /\ [][Next]_vars /\ Fairness

-------------------------------------------------------------------------------
(***************************************************************************)
(* Safety.                                                                 *)
(***************************************************************************)

\* An address is never granted more than an ideal meter of Burst units that
\* drains in real time allows, except for the time by which requests were late
\* to use what they had read of the clock: the comment on rateLimiterIdleTTL
\* promises that eviction hands out no fresh burst, and a bucket whose time
\* moves back (server.go:570, 592) refills twice over that time only.
RateBounded ==
    \A k \in Kinds, a \in Callers : level[k][a] <= Burst[k] + slip

\* With the prescan on, what reaches store() was called clean by clamd for this
\* very request.
CleanStored == config.prescan => FALSE \notin stored

\* Every spool file belongs to a request that still needs it.
SpoolOwned ==
    \A r \in spooled : at[r] \in {"spooled", "dialling", "awaiting", "asking",
                                  "charging", "storing"}

\* Whatever verdicts, timeouts, refused connections and panics come in between,
\* no upload is stored unscanned and no spool file stays behind its request:
\* the deferred cleanTmpFile runs on every way out of the handlers.
ScanIsSafe == CleanStored /\ SpoolOwned

\* While the server serves, the filter it has built decides what its two lists
\* mean: an entry for the address before any subnet, an allowed entry before a
\* blocked one, and nothing for an address that does not parse.
FilterDecides ==
    server = "serving" /\ config.ipFilter # NoFilter =>
        \A ip \in Addresses \cup {Unparsed} :
            PassesFilter(filter, ip) <=> Meant(config.ipFilter, ip)

(***************************************************************************)
(* Liveness.                                                               *)
(***************************************************************************)

\* Every request ends, scans included, provided clamd answers.
RequestsEnd == \A r \in Requests : at[r] # "idle" ~> at[r] = "idle"
===============================================================================
