------------------------------- MODULE FileLock -------------------------------
(***************************************************************************)
(* The per-upload lock of server/handlers.go: a map from keys to           *)
(* reference-counted mutexes, guarded by locksMu.  An entry exists only    *)
(* while somebody holds or waits for it, so mutex objects come and go, and *)
(* at any moment the object a goroutine sleeps on must still be the one    *)
(* the map hands to newcomers.                                             *)
(*                                                                         *)
(* A step is either one locksMu section (pure memory, hence atomic) or one *)
(* operation of a fileLock's own mutex, which happens outside locksMu.     *)
(* Objects are addresses; Go's collector makes an address available again  *)
(* once neither the map nor a goroutine's local variable refers to it.     *)
(***************************************************************************)
EXTENDS Naturals, FiniteSets

CONSTANTS
    Goroutines,  \* request handlers and the purge loop
    Keys,        \* path.Join(token, filename) of every lock() call
    Addresses,   \* heap addresses of fileLock objects
    Inner,       \* Inner[k] : keys a goroutine may lock while it holds k
    Nil          \* no object, no holder

ASSUME GoroutinesFinite == IsFiniteSet(Goroutines)
ASSUME NilAssumption == Nil \notin Addresses /\ Nil \notin Goroutines
ASSUME InnerAssumption == Inner \in [Keys -> SUBSET Keys]

VARIABLES
    locks,   \* Server.locks : key -> address, Nil where the map has no entry
    refs,    \* fileLock.refs of the object at each address
    mu,      \* holder of fileLock.mu of the object at each address
    at,      \* where goroutine g is with key k
    ptr      \* the local variable l of g's running lock(k) or unlock(k)

vars == <<locks, refs, mu, at, ptr>>

\* "out": not interested; "waiting": in lock(), at l.mu.Lock(); "inside":
\* lock() has returned; "leaving": in unlock(), at l.mu.Unlock().
Place == {"out", "waiting", "inside", "leaving"}

TypeOK ==
    /\ locks \in [Keys -> Addresses \cup {Nil}]
    /\ refs \in [Addresses -> Nat]
    /\ mu \in [Addresses -> Goroutines \cup {Nil}]
    /\ at \in [Goroutines -> [Keys -> Place]]
    /\ ptr \in [Goroutines -> [Keys -> Addresses \cup {Nil}]]

Init ==
    /\ locks = [k \in Keys |-> Nil]
    /\ refs = [a \in Addresses |-> 0]
    /\ mu = [a \in Addresses |-> Nil]
    /\ at = [g \in Goroutines |-> [k \in Keys |-> "out"]]
    /\ ptr = [g \in Goroutines |-> [k \in Keys |-> Nil]]

\* Nothing refers to the object at a: the allocator may hand a out.
Unreferenced(a) ==
    /\ \A k \in Keys : locks[k] # a
    /\ \A g \in Goroutines, k \in Keys : ptr[g][k] # a

\* g runs straight-line code between its lock calls: it asks for k only when
\* it is not already in a call, and nests only as the callers do.
MayAsk(g, k) ==
    /\ at[g][k] = "out"
    /\ \A j \in Keys : at[g][j] # "out" => at[g][j] = "inside" /\ k \in Inner[j]

\* Mutant: the reference is not taken before locksMu is released.
ClaimEntryUncounted(g, k) ==
    /\ MayAsk(g, k)
    /\ locks[k] # Nil
    /\ ptr' = [ptr EXCEPT ![g][k] = locks[k]]
    /\ at' = [at EXCEPT ![g][k] = "waiting"]
    /\ UNCHANGED <<locks, refs, mu>>

\* lock(), the locksMu section, entry found: claim a reference to it.
ClaimEntry(g, k) ==
    /\ MayAsk(g, k)
    /\ locks[k] # Nil
    /\ refs' = [refs EXCEPT ![locks[k]] = @ + 1]
    /\ ptr' = [ptr EXCEPT ![g][k] = locks[k]]
    /\ at' = [at EXCEPT ![g][k] = "waiting"]
    /\ UNCHANGED <<locks, mu>>

\* Mutant: the goroutine that creates an entry takes no reference.
CreateEntryUncounted(g, k) ==
    /\ MayAsk(g, k)
    /\ locks[k] = Nil
    /\ \E a \in Addresses :
        /\ Unreferenced(a)
        /\ locks' = [locks EXCEPT ![k] = a]
        /\ refs' = [refs EXCEPT ![a] = 0]
        /\ mu' = [mu EXCEPT ![a] = Nil]
        /\ ptr' = [ptr EXCEPT ![g][k] = a]
    /\ at' = [at EXCEPT ![g][k] = "waiting"]

\* lock(), the locksMu section, no entry: insert &fileLock{} and claim it.
CreateEntry(g, k) ==
    /\ MayAsk(g, k)
    /\ locks[k] = Nil
    /\ \E a \in Addresses :
        /\ Unreferenced(a)
        /\ locks' = [locks EXCEPT ![k] = a]
        /\ refs' = [refs EXCEPT ![a] = 1]
        /\ mu' = [mu EXCEPT ![a] = Nil]
        /\ ptr' = [ptr EXCEPT ![g][k] = a]
    /\ at' = [at EXCEPT ![g][k] = "waiting"]

\* lock(), l.mu.Lock() returns.
Acquire(g, k) ==
    /\ at[g][k] = "waiting"
    /\ mu[ptr[g][k]] = Nil
    /\ mu' = [mu EXCEPT ![ptr[g][k]] = g]
    /\ at' = [at EXCEPT ![g][k] = "inside"]
    /\ ptr' = [ptr EXCEPT ![g][k] = Nil]
    /\ UNCHANGED <<locks, refs>>

\* Nested locks are released innermost first (defer).
MayLeave(g, k) ==
    /\ at[g][k] = "inside"
    /\ \A j \in Inner[k] : at[g][j] = "out"

\* Mutant: unlock() drops the entry in any case, and returns without
\* unlocking the mutex when others still refer to it.
DropClaimReturnsEarly(g, k) ==
    /\ MayLeave(g, k)
    /\ locks' = [locks EXCEPT ![k] = Nil]
    /\ IF locks[k] = Nil \/ refs[locks[k]] > 1
       THEN at' = [at EXCEPT ![g][k] = "out"] /\ UNCHANGED ptr
       ELSE /\ ptr' = [ptr EXCEPT ![g][k] = locks[k]]
            /\ at' = [at EXCEPT ![g][k] = "leaving"]
    /\ UNCHANGED <<refs, mu>>

\* unlock(), the locksMu section: the entry is looked up again, l is whatever
\* is there; give one reference back and drop the entry with the last one.
\* Were there no entry, unlock() would return with the mutex still locked.
DropClaim(g, k) ==
    /\ MayLeave(g, k)
    /\ IF locks[k] = Nil
       THEN /\ at' = [at EXCEPT ![g][k] = "out"]
            /\ UNCHANGED <<locks, refs, ptr>>
       ELSE /\ refs' = [refs EXCEPT ![locks[k]] = @ - 1]
            /\ locks' = [locks EXCEPT ![k] = IF refs[@] = 1 THEN Nil ELSE @]
            /\ ptr' = [ptr EXCEPT ![g][k] = locks[k]]
            /\ at' = [at EXCEPT ![g][k] = "leaving"]
    /\ UNCHANGED mu

\* unlock(), l.mu.Unlock(): of whichever object the second lookup gave.
Release(g, k) ==
    /\ at[g][k] = "leaving"
    /\ mu' = [mu EXCEPT ![ptr[g][k]] = Nil]
    /\ ptr' = [ptr EXCEPT ![g][k] = Nil]
    /\ at' = [at EXCEPT ![g][k] = "out"]
    /\ UNCHANGED <<locks, refs>>

Step(g, k) ==
    \/ ClaimEntry(g, k)
    \/ CreateEntry(g, k)
    \/ Acquire(g, k)
    \/ DropClaim(g, k)
    \/ Release(g, k)

Next == \E g \in Goroutines, k \in Keys : Step(g, k)

Spec == Init /\ [][Next]_vars

\* A goroutine in a call, or inside, goes on: it makes finitely many nested
\* calls, its storage calls return, and the unlock is deferred.  sync.Mutex
\* hands a mutex that keeps being released to a goroutine that keeps waiting
\* (starvation mode), hence strong fairness.
Fairness ==
    \A g \in Goroutines :
        /\ SF_vars(\E k \in Keys : Acquire(g, k) \/ Release(g, k))
        /\ \A k \in Keys : SF_vars(DropClaim(g, k))

FairSpec == Spec /\ Fairness
-------------------------------------------------------------------------------
(***************************************************************************)
(* Properties.                                                             *)
(***************************************************************************)

\* Goroutines with a reference to k's entry.
Claimants(k) == {g \in Goroutines : at[g][k] \in {"waiting", "inside"}}

\* Two handlers are never between lock(k) and unlock(k) at once, although the
\* mutex object may have been replaced in between: what checkMetadata,
\* increaseDownload, the owner index and the upload sessions rely on.
MutualExclusion ==
    \A g, h \in Goroutines, k \in Keys :
        at[g][k] = "inside" /\ at[h][k] = "inside" => g = h

\* unlock() looks the entry up anew; the object it then unlocks is the one its
\* caller locked (anything else is a fatal error of sync.Mutex, or opens
\* somebody else's critical section).
UnlocksItsOwn ==
    \A g \in Goroutines, k \in Keys :
        /\ at[g][k] = "leaving" => mu[ptr[g][k]] = g
        /\ at[g][k] = "inside" => locks[k] # Nil /\ mu[locks[k]] = g

\* "so unlock() cannot delete the entry out from under a goroutine that is
\* about to wait on it" (handlers.go:438), and "so the entry can be dropped
\* once it is idle" (handlers.go:424): an entry exists exactly while claimed.
EntryIffClaimed == \A k \in Keys : locks[k] # Nil <=> Claimants(k) # {}

\* The lock map does its work: one goroutine at a time between lock() and
\* unlock(), the object it unlocks is the one it locked, and no entry is stranded.
LockMapSound == MutualExclusion /\ UnlocksItsOwn /\ EntryIffClaimed

\* The lock table implements one mutex per key.
Abstract == INSTANCE Mutex WITH
    wanting <- [k \in Keys |-> {g \in Goroutines : at[g][k] = "waiting"}],
    inside <- [k \in Keys |-> {g \in Goroutines : at[g][k] = "inside"}]
ImplementsMutex == Abstract!Spec

\* Every lock() call returns: waiters are neither forgotten when entries are
\* replaced nor deadlocked by the nesting upload -> owner, session -> owner.
EveryCallReturns ==
    \A g \in Goroutines, k \in Keys : at[g][k] = "waiting" ~> at[g][k] = "inside"
===============================================================================
