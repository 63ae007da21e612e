---------------------------- MODULE FileLockProofs ----------------------------
(***************************************************************************)
(* Mutual exclusion of the per-upload lock, for any number of goroutines,  *)
(* keys and mutex objects, and that the lock table implements one mutex    *)
(* per key.                                                                *)
(***************************************************************************)
EXTENDS FileLock, FiniteSetTheorems, TLAPS

\* The strengthening.  An address belongs to one key at a time, so the object
\* found by the second lookup of unlock() can only be the object of its key;
\* refs counts the claimants, so that object is still in the map.
OneKeyPerObject ==
    \A a \in Addresses, j, k \in Keys, g, h \in Goroutines :
        /\ locks[j] = a /\ locks[k] = a => j = k
        /\ ptr[g][j] = a /\ locks[k] = a => j = k
        /\ ptr[g][j] = a /\ ptr[h][k] = a => j = k

RefsCountClaimants ==
    \A k \in Keys :
        IF locks[k] = Nil
        THEN Claimants(k) = {}
        ELSE refs[locks[k]] = Cardinality(Claimants(k)) /\ Claimants(k) # {}

LocalsPoint ==
    \A g \in Goroutines, k \in Keys :
        /\ at[g][k] = "waiting" => ptr[g][k] = locks[k] /\ locks[k] # Nil
        /\ at[g][k] = "leaving" => ptr[g][k] # Nil
        /\ at[g][k] \in {"out", "inside"} => ptr[g][k] = Nil

IInv ==
    /\ TypeOK
    /\ OneKeyPerObject
    /\ RefsCountClaimants
    /\ LocalsPoint
    /\ UnlocksItsOwn

USE GoroutinesFinite, NilAssumption, InnerAssumption

\* Facts about Claimants used below: it is a finite set of goroutines, and a
\* change of one goroutine's place adds or removes that goroutine only.
LEMMA ClaimantsFinite ==
    ASSUME NEW k \in Keys
    PROVE  /\ Claimants(k) \subseteq Goroutines
           /\ IsFiniteSet(Claimants(k))
           /\ Cardinality(Claimants(k)) \in Nat
           /\ Cardinality(Claimants(k)) = 0 <=> Claimants(k) = {}
<1>1. Claimants(k) \subseteq Goroutines
  BY DEF Claimants
<1>2. IsFiniteSet(Claimants(k))
  BY <1>1, FS_Subset
<1> QED BY <1>1, <1>2, FS_CardinalityType, FS_EmptySet

LEMMA InitInv == Init => IInv
<1> SUFFICES ASSUME Init PROVE IInv
  OBVIOUS
<1>1. TypeOK
  BY DEF Init, TypeOK, Place
<1>2. OneKeyPerObject
  BY DEF Init, OneKeyPerObject
<1>3. RefsCountClaimants
  BY DEF Init, RefsCountClaimants, Claimants
<1>4. LocalsPoint
  BY DEF Init, LocalsPoint
<1>5. UnlocksItsOwn
  BY DEF Init, UnlocksItsOwn
<1> QED BY <1>1, <1>2, <1>3, <1>4, <1>5 DEF IInv

LEMMA ClaimEntryInv ==
    ASSUME NEW g \in Goroutines, NEW k \in Keys, IInv, ClaimEntry(g, k)
    PROVE  IInv'
<1> DEFINE a == locks[k]
<1>0. a \in Addresses /\ a # Nil /\ at[g][k] = "out"
  BY DEF IInv, TypeOK, ClaimEntry, MayAsk
<1>1. TypeOK'
  BY <1>0 DEF IInv, TypeOK, Place, ClaimEntry
<1>2. OneKeyPerObject'
  BY <1>0 DEF IInv, TypeOK, OneKeyPerObject, ClaimEntry
<1>3. RefsCountClaimants'
  <2>1. Claimants(k)' = Claimants(k) \cup {g} /\ g \notin Claimants(k)
    BY <1>0 DEF Claimants, IInv, TypeOK, ClaimEntry
  <2>2. \A j \in Keys \ {k} : Claimants(j)' = Claimants(j) /\ locks[j] # a
    BY <1>0 DEF Claimants, IInv, TypeOK, ClaimEntry, OneKeyPerObject
  <2>3. Cardinality(Claimants(k)') = Cardinality(Claimants(k)) + 1
    BY <2>1, ClaimantsFinite, FS_AddElement
  <2>4. /\ refs[a] = Cardinality(Claimants(k))
        /\ refs'[a] = refs[a] + 1
        /\ locks' = locks
    BY <1>0 DEF IInv, RefsCountClaimants, ClaimEntry, TypeOK
  <2>5. ASSUME NEW j \in Keys, j # k, locks[j] # Nil
        PROVE  refs'[locks[j]] = refs[locks[j]]
    BY <2>2, <2>5, <1>0 DEF IInv, TypeOK, ClaimEntry
  <2>6. ASSUME NEW j \in Keys
        PROVE  IF locks'[j] = Nil
               THEN Claimants(j)' = {}
               ELSE refs'[locks'[j]] = Cardinality(Claimants(j)') /\ Claimants(j)' # {}
    <3>1. CASE j = k
      BY <3>1, <1>0, <2>1, <2>3, <2>4
    <3>2. CASE j # k
      BY <3>2, <2>2, <2>4, <2>5 DEF IInv, RefsCountClaimants
    <3> QED BY <3>1, <3>2
  <2> QED BY <2>6 DEF RefsCountClaimants
<1>4. LocalsPoint'
  BY <1>0 DEF IInv, TypeOK, LocalsPoint, ClaimEntry
<1>5. UnlocksItsOwn'
  BY <1>0 DEF IInv, TypeOK, UnlocksItsOwn, ClaimEntry
<1> QED BY <1>1, <1>2, <1>3, <1>4, <1>5 DEF IInv

LEMMA CreateEntryInv ==
    ASSUME NEW g \in Goroutines, NEW k \in Keys, IInv, CreateEntry(g, k)
    PROVE  IInv'
<1> PICK a \in Addresses :
        /\ Unreferenced(a)
        /\ locks' = [locks EXCEPT ![k] = a]
        /\ refs' = [refs EXCEPT ![a] = 1]
        /\ mu' = [mu EXCEPT ![a] = Nil]
        /\ ptr' = [ptr EXCEPT ![g][k] = a]
  BY DEF CreateEntry
<1>0. /\ a # Nil /\ at[g][k] = "out" /\ locks[k] = Nil
      /\ at' = [at EXCEPT ![g][k] = "waiting"]
  BY DEF CreateEntry, MayAsk
<1>1. TypeOK'
  BY <1>0 DEF IInv, TypeOK, Place
<1>2. OneKeyPerObject'
  BY <1>0 DEF IInv, TypeOK, OneKeyPerObject, Unreferenced
<1>3. RefsCountClaimants'
  <2>1. Claimants(k)' = {g}
    BY <1>0 DEF Claimants, IInv, TypeOK, RefsCountClaimants
  <2>2. \A j \in Keys \ {k} : Claimants(j)' = Claimants(j) /\ locks[j] # a
    BY <1>0 DEF Claimants, IInv, TypeOK, Unreferenced
  <2>3. Cardinality(Claimants(k)') = 1
    BY <2>1, FS_Singleton
  <2>4. ASSUME NEW j \in Keys
        PROVE  IF locks'[j] = Nil
               THEN Claimants(j)' = {}
               ELSE refs'[locks'[j]] = Cardinality(Claimants(j)') /\ Claimants(j)' # {}
    <3>1. CASE j = k
      BY <3>1, <1>0, <2>1, <2>3 DEF IInv, TypeOK
    <3>2. CASE j # k
      BY <3>2, <1>0, <2>2 DEF IInv, TypeOK, RefsCountClaimants
    <3> QED BY <3>1, <3>2
  <2> QED BY <2>4 DEF RefsCountClaimants
<1>4. LocalsPoint'
  <2>1. ASSUME NEW h \in Goroutines, NEW j \in Keys
        PROVE  /\ at'[h][j] = "waiting" => ptr'[h][j] = locks'[j] /\ locks'[j] # Nil
               /\ at'[h][j] = "leaving" => ptr'[h][j] # Nil
               /\ at'[h][j] \in {"out", "inside"} => ptr'[h][j] = Nil
    <3>1. CASE h = g /\ j = k
      BY <3>1, <1>0 DEF IInv, TypeOK
    <3>2. CASE h # g /\ j = k
      <4>1. at[h][k] # "waiting"
        BY <1>0, <3>2 DEF IInv, LocalsPoint
      <4> QED BY <4>1, <3>2, <1>0 DEF IInv, TypeOK, LocalsPoint
    <3>3. CASE j # k
      BY <3>3, <1>0 DEF IInv, TypeOK, LocalsPoint
    <3> QED BY <3>1, <3>2, <3>3
  <2> QED BY <2>1 DEF LocalsPoint
<1>5. UnlocksItsOwn'
  <2>1. ASSUME NEW h \in Goroutines, NEW j \in Keys
        PROVE  /\ at'[h][j] = "leaving" => mu'[ptr'[h][j]] = h
               /\ at'[h][j] = "inside" => locks'[j] # Nil /\ mu'[locks'[j]] = h
    <3>1. at'[h][j] \in {"leaving", "inside"} => at'[h][j] = at[h][j] /\ ~(h = g /\ j = k)
      BY <1>0 DEF IInv, TypeOK
    <3>2. at'[h][j] = "leaving" => ptr'[h][j] = ptr[h][j] /\ ptr[h][j] \in Addresses \ {a}
      BY <3>1 DEF IInv, TypeOK, LocalsPoint, Unreferenced
    <3>3. at'[h][j] = "inside" => locks[j] # Nil /\ locks'[j] = locks[j] /\ locks[j] \in Addresses \ {a}
      BY <3>1, <1>0 DEF IInv, TypeOK, UnlocksItsOwn, Unreferenced
    <3> QED BY <3>1, <3>2, <3>3 DEF IInv, TypeOK, UnlocksItsOwn
  <2> QED BY <2>1 DEF UnlocksItsOwn
<1> QED BY <1>1, <1>2, <1>3, <1>4, <1>5 DEF IInv

LEMMA AcquireInv ==
    ASSUME NEW g \in Goroutines, NEW k \in Keys, IInv, Acquire(g, k)
    PROVE  IInv'
<1> DEFINE a == ptr[g][k]
<1>0. /\ a = locks[k] /\ a \in Addresses /\ a # Nil /\ mu[a] = Nil
      /\ at[g][k] = "waiting"
  BY DEF IInv, TypeOK, LocalsPoint, Acquire
<1>1. TypeOK'
  BY <1>0 DEF IInv, TypeOK, Place, Acquire
<1>2. OneKeyPerObject'
  BY <1>0 DEF IInv, TypeOK, OneKeyPerObject, Acquire
<1>3. RefsCountClaimants'
  <2>1. \A j \in Keys : Claimants(j)' = Claimants(j)
    BY <1>0 DEF Claimants, IInv, TypeOK, Acquire
  <2> QED BY <2>1 DEF RefsCountClaimants, IInv, Acquire
<1>4. LocalsPoint'
  BY <1>0 DEF IInv, TypeOK, LocalsPoint, Acquire
<1>5. UnlocksItsOwn'
  BY <1>0 DEF IInv, TypeOK, UnlocksItsOwn, Acquire, LocalsPoint
<1> QED BY <1>1, <1>2, <1>3, <1>4, <1>5 DEF IInv

LEMMA DropClaimInv ==
    ASSUME NEW g \in Goroutines, NEW k \in Keys, IInv, DropClaim(g, k)
    PROVE  IInv'
<1> DEFINE a == locks[k]
<1>0. /\ a \in Addresses /\ a # Nil /\ mu[a] = g /\ at[g][k] = "inside"
      /\ refs' = [refs EXCEPT ![a] = @ - 1]
      /\ locks' = [locks EXCEPT ![k] = IF refs[a] = 1 THEN Nil ELSE @]
      /\ ptr' = [ptr EXCEPT ![g][k] = a]
      /\ at' = [at EXCEPT ![g][k] = "leaving"]
      /\ mu' = mu
  BY DEF IInv, TypeOK, UnlocksItsOwn, DropClaim, MayLeave
<1>a. /\ refs[a] = Cardinality(Claimants(k))
      /\ g \in Claimants(k)
      /\ Cardinality(Claimants(k)) \in Nat \ {0}
  BY <1>0, ClaimantsFinite DEF IInv, RefsCountClaimants, Claimants
<1>b. /\ Claimants(k)' = Claimants(k) \ {g}
      /\ Cardinality(Claimants(k)') = Cardinality(Claimants(k)) - 1
  <2>1. Claimants(k)' = Claimants(k) \ {g}
    BY <1>0 DEF Claimants, IInv, TypeOK
  <2> QED BY <2>1, <1>a, ClaimantsFinite, FS_RemoveElement
<1>c. Claimants(k)' = {} <=> refs[a] = 1
  <2>1. IsFiniteSet(Claimants(k)')
    BY <1>b, ClaimantsFinite, FS_Subset
  <2>2. Cardinality(Claimants(k)') = 0 <=> Claimants(k)' = {}
    BY <2>1, FS_EmptySet
  <2> QED BY <2>2, <1>a, <1>b
<1>1. TypeOK'
  <2>1. refs[a] - 1 \in Nat
    BY <1>a
  <2>2. refs' \in [Addresses -> Nat]
    BY <2>1, <1>0 DEF IInv, TypeOK
  <2> QED BY <2>2, <1>0 DEF IInv, TypeOK, Place
<1>2. OneKeyPerObject'
  BY <1>0 DEF IInv, TypeOK, OneKeyPerObject
<1>3. RefsCountClaimants'
  <2>1. \A j \in Keys \ {k} : Claimants(j)' = Claimants(j) /\ locks[j] # a
    BY <1>0 DEF Claimants, IInv, TypeOK, OneKeyPerObject
  <2>2. ASSUME NEW j \in Keys
        PROVE  IF locks'[j] = Nil
               THEN Claimants(j)' = {}
               ELSE refs'[locks'[j]] = Cardinality(Claimants(j)') /\ Claimants(j)' # {}
    <3>1. CASE j = k
      BY <3>1, <1>0, <1>a, <1>b, <1>c DEF IInv, TypeOK
    <3>2. CASE j # k
      BY <3>2, <1>0, <2>1 DEF IInv, TypeOK, RefsCountClaimants
    <3> QED BY <3>1, <3>2
  <2> QED BY <2>2 DEF RefsCountClaimants
<1>4. LocalsPoint'
  <2>1. ASSUME NEW h \in Goroutines, NEW j \in Keys
        PROVE  /\ at'[h][j] = "waiting" => ptr'[h][j] = locks'[j] /\ locks'[j] # Nil
               /\ at'[h][j] = "leaving" => ptr'[h][j] # Nil
               /\ at'[h][j] \in {"out", "inside"} => ptr'[h][j] = Nil
    <3>1. CASE h = g /\ j = k
      BY <3>1, <1>0 DEF IInv, TypeOK
    <3>2. CASE h # g /\ j = k
      <4>1. at[h][k] = "waiting" => refs[a] # 1
        <5>1. at[h][k] = "waiting" => h \in Claimants(k)'
          BY <3>2, <1>0 DEF Claimants, IInv, TypeOK
        <5> QED BY <5>1, <1>c
      <4> QED BY <4>1, <3>2, <1>0 DEF IInv, TypeOK, LocalsPoint
    <3>3. CASE j # k
      BY <3>3, <1>0 DEF IInv, TypeOK, LocalsPoint
    <3> QED BY <3>1, <3>2, <3>3
  <2> QED BY <2>1 DEF LocalsPoint
<1>5. UnlocksItsOwn'
  <2>1. ASSUME NEW h \in Goroutines, NEW j \in Keys
        PROVE  /\ at'[h][j] = "leaving" => mu'[ptr'[h][j]] = h
               /\ at'[h][j] = "inside" => locks'[j] # Nil /\ mu'[locks'[j]] = h
    <3>1. CASE h = g /\ j = k
      BY <3>1, <1>0 DEF IInv, TypeOK
    <3>2. CASE h # g /\ j = k
      BY <3>2, <1>0 DEF IInv, TypeOK, UnlocksItsOwn
    <3>3. CASE j # k
      BY <3>3, <1>0 DEF IInv, TypeOK, UnlocksItsOwn
    <3> QED BY <3>1, <3>2, <3>3
  <2> QED BY <2>1 DEF UnlocksItsOwn
<1> QED BY <1>1, <1>2, <1>3, <1>4, <1>5 DEF IInv

LEMMA ReleaseInv ==
    ASSUME NEW g \in Goroutines, NEW k \in Keys, IInv, Release(g, k)
    PROVE  IInv'
<1> DEFINE a == ptr[g][k]
<1>0. /\ a \in Addresses /\ a # Nil /\ mu[a] = g /\ at[g][k] = "leaving"
  BY DEF IInv, TypeOK, LocalsPoint, UnlocksItsOwn, Release
<1>1. TypeOK'
  BY <1>0 DEF IInv, TypeOK, Place, Release
<1>2. OneKeyPerObject'
  BY <1>0 DEF IInv, TypeOK, OneKeyPerObject, Release
<1>3. RefsCountClaimants'
  <2>1. \A j \in Keys : Claimants(j)' = Claimants(j)
    BY <1>0 DEF Claimants, IInv, TypeOK, Release
  <2> QED BY <2>1 DEF RefsCountClaimants, IInv, Release
<1>4. LocalsPoint'
  BY <1>0 DEF IInv, TypeOK, LocalsPoint, Release
<1>5. UnlocksItsOwn'
  <2>1. ASSUME NEW h \in Goroutines, NEW j \in Keys
        PROVE  /\ at'[h][j] = "leaving" => mu'[ptr'[h][j]] = h
               /\ at'[h][j] = "inside" => locks'[j] # Nil /\ mu'[locks'[j]] = h
    <3>1. at'[h][j] \in {"leaving", "inside"} => at'[h][j] = at[h][j] /\ ~(h = g /\ j = k)
      BY <1>0 DEF IInv, TypeOK, Release
    <3>2. at'[h][j] = "leaving" => ptr'[h][j] = ptr[h][j] /\ ptr[h][j] \in Addresses \ {a}
      <4> SUFFICES ASSUME at'[h][j] = "leaving"
                   PROVE  ptr'[h][j] = ptr[h][j] /\ ptr[h][j] \in Addresses \ {a}
        OBVIOUS
      <4>1. ptr'[h][j] = ptr[h][j] /\ ptr[h][j] \in Addresses /\ mu[ptr[h][j]] = h
        BY <3>1 DEF IInv, TypeOK, LocalsPoint, UnlocksItsOwn, Release
      <4>2. ptr[h][j] # a
        BY <4>1, <3>1, <1>0 DEF IInv, OneKeyPerObject
      <4> QED BY <4>1, <4>2
    <3>3. at'[h][j] = "inside" => locks[j] # Nil /\ locks[j] \in Addresses \ {a}
      <4> SUFFICES ASSUME at'[h][j] = "inside"
                   PROVE  locks[j] # Nil /\ locks[j] \in Addresses \ {a}
        OBVIOUS
      <4>1. locks[j] # Nil /\ locks[j] \in Addresses /\ mu[locks[j]] = h
        BY <3>1 DEF IInv, TypeOK, UnlocksItsOwn
      <4>2. locks[j] # a
        BY <4>1, <3>1, <1>0 DEF IInv, OneKeyPerObject
      <4> QED BY <4>1, <4>2
    <3> QED BY <3>1, <3>2, <3>3 DEF IInv, TypeOK, UnlocksItsOwn, Release
  <2> QED BY <2>1 DEF UnlocksItsOwn
<1> QED BY <1>1, <1>2, <1>3, <1>4, <1>5 DEF IInv

LEMMA StepInv == IInv /\ [Next]_vars => IInv'
<1> SUFFICES ASSUME IInv, [Next]_vars PROVE IInv'
  OBVIOUS
<1>1. CASE UNCHANGED vars
  <2>1. \A k \in Keys : Claimants(k)' = Claimants(k)
    BY <1>1 DEF vars, Claimants
  <2>2. RefsCountClaimants'
    BY <1>1, <2>1 DEF vars, IInv, RefsCountClaimants
  <2> QED BY <1>1, <2>2 DEF vars, IInv, TypeOK, OneKeyPerObject, LocalsPoint, UnlocksItsOwn
<1>2. ASSUME NEW g \in Goroutines, NEW k \in Keys, Step(g, k) PROVE IInv'
  BY <1>2, ClaimEntryInv, CreateEntryInv, AcquireInv, DropClaimInv, ReleaseInv
     DEF Step
<1> QED BY <1>1, <1>2 DEF Next

LEMMA Invariance == Spec => []IInv
  BY InitInv, StepInv, PTL DEF Spec

\* Every variable of the lock table keeps its type: refs never goes below zero.
THEOREM TypeCorrect == Spec => []TypeOK
<1>1. IInv => TypeOK
  BY DEF IInv
<1> QED BY <1>1, Invariance, PTL

\* unlock() releases the very object its caller acquired.
THEOREM UnlockIsOwn == Spec => []UnlocksItsOwn
<1>1. IInv => UnlocksItsOwn
  BY DEF IInv
<1> QED BY <1>1, Invariance, PTL

\* At most one goroutine is between lock(k) and unlock(k), however often the
\* entry of k was dropped and created again.
THEOREM LockExcludes == Spec => []MutualExclusion
<1>1. IInv => MutualExclusion
  BY DEF IInv, MutualExclusion, UnlocksItsOwn
<1> QED BY <1>1, Invariance, PTL

\* The map holds an entry for a key exactly while some goroutine claims it.
THEOREM EntriesAreClaimed == Spec => []EntryIffClaimed
<1>1. IInv => EntryIffClaimed
  BY DEF IInv, EntryIffClaimed, RefsCountClaimants
<1> QED BY <1>1, Invariance, PTL

\* The three together: what the callers of lock() and unlock() rely on.
THEOREM LockMapIsSound == Spec => []LockMapSound
<1>1. MutualExclusion /\ UnlocksItsOwn /\ EntryIffClaimed => LockMapSound
  BY DEF LockMapSound
<1> QED BY <1>1, LockExcludes, UnlockIsOwn, EntriesAreClaimed, PTL

\* The abstract view of a step: the goroutines waiting for and inside each key.
waiting(k) == {g \in Goroutines : at[g][k] = "waiting"}
holding(k) == {g \in Goroutines : at[g][k] = "inside"}

LEMMA OtherKeysKeep ==
    ASSUME NEW g \in Goroutines, NEW k \in Keys, NEW p \in Place, TypeOK,
           at' = [at EXCEPT ![g][k] = p]
    PROVE  /\ \A j \in Keys \ {k} : waiting(j)' = waiting(j) /\ holding(j)' = holding(j)
           /\ waiting(k)' = IF p = "waiting" THEN waiting(k) \cup {g} ELSE waiting(k) \ {g}
           /\ holding(k)' = IF p = "inside" THEN holding(k) \cup {g} ELSE holding(k) \ {g}
  BY DEF TypeOK, waiting, holding, Place

LEMMA StepImplements ==
    ASSUME IInv, NEW g \in Goroutines, NEW k \in Keys, Step(g, k)
    PROVE  [Abstract!Next]_(Abstract!vars)
<1> DEFINE W == [j \in Keys |-> waiting(j)]
           H == [j \in Keys |-> holding(j)]
<1>0. TypeOK
  BY DEF IInv
<1>1. CASE ClaimEntry(g, k) \/ CreateEntry(g, k)
  <2>1. at' = [at EXCEPT ![g][k] = "waiting"] /\ at[g][k] = "out"
    BY <1>1 DEF ClaimEntry, CreateEntry, MayAsk
  <2>2. g \notin waiting(k) \cup holding(k) /\ "waiting" \in Place
    BY <2>1 DEF waiting, holding, Place
  <2>3. /\ \A j \in Keys : holding(j)' = holding(j)
        /\ \A j \in Keys : waiting(j)' = IF j = k THEN waiting(k) \cup {g} ELSE waiting(j)
    <3>1. \A j \in Keys \ {k} : waiting(j)' = waiting(j) /\ holding(j)' = holding(j)
      BY <2>1, <2>2, <1>0, OtherKeysKeep
    <3>2. waiting(k)' = waiting(k) \cup {g} /\ holding(k)' = holding(k) \ {g}
      BY <2>1, <2>2, <1>0, OtherKeysKeep
    <3> QED BY <3>1, <3>2, <2>2
  <2>4. W' = [W EXCEPT ![k] = @ \cup {g}] /\ H' = H
    BY <2>3
  <2> QED BY <2>2, <2>4 DEF Abstract!Next, Abstract!Want, waiting, holding
<1>2. CASE Acquire(g, k)
  <2>1. at' = [at EXCEPT ![g][k] = "inside"] /\ at[g][k] = "waiting"
    BY <1>2 DEF Acquire
  <2>2. g \in waiting(k) /\ "inside" \in Place
    BY <2>1 DEF waiting, Place
  <2>3. holding(k) = {}
    BY <1>2 DEF Acquire, IInv, LocalsPoint, UnlocksItsOwn, holding, TypeOK
  <2>4. W' = [W EXCEPT ![k] = @ \ {g}] /\ H' = [H EXCEPT ![k] = {g}]
    BY <2>1, <2>2, <2>3, <1>0, OtherKeysKeep
  <2> QED BY <2>2, <2>3, <2>4 DEF Abstract!Next, Abstract!Enter, waiting, holding
<1>3. CASE DropClaim(g, k)
  <2>1. at' = [at EXCEPT ![g][k] = "leaving"] /\ at[g][k] = "inside"
    BY <1>3 DEF DropClaim, MayLeave, IInv, UnlocksItsOwn
  <2>2. g \in holding(k) /\ g \notin waiting(k) /\ "leaving" \in Place
    BY <2>1 DEF holding, waiting, Place
  <2>3. /\ \A j \in Keys : waiting(j)' = waiting(j)
        /\ \A j \in Keys : holding(j)' = IF j = k THEN holding(k) \ {g} ELSE holding(j)
    <3>1. \A j \in Keys \ {k} : waiting(j)' = waiting(j) /\ holding(j)' = holding(j)
      BY <2>1, <2>2, <1>0, OtherKeysKeep
    <3>2. waiting(k)' = waiting(k) \ {g} /\ holding(k)' = holding(k) \ {g}
      BY <2>1, <2>2, <1>0, OtherKeysKeep
    <3> QED BY <3>1, <3>2, <2>2
  <2>4. W' = W /\ H' = [H EXCEPT ![k] = @ \ {g}]
    BY <2>3
  <2> QED BY <2>2, <2>4 DEF Abstract!Next, Abstract!Leave, waiting, holding
<1>4. CASE Release(g, k)
  <2>1. at' = [at EXCEPT ![g][k] = "out"] /\ at[g][k] = "leaving"
    BY <1>4 DEF Release
  <2>2. g \notin holding(k) /\ g \notin waiting(k) /\ "out" \in Place
    BY <2>1 DEF holding, waiting, Place
  <2>3. \A j \in Keys : waiting(j)' = waiting(j) /\ holding(j)' = holding(j)
    <3>1. \A j \in Keys \ {k} : waiting(j)' = waiting(j) /\ holding(j)' = holding(j)
      BY <2>1, <2>2, <1>0, OtherKeysKeep
    <3>2. waiting(k)' = waiting(k) \ {g} /\ holding(k)' = holding(k) \ {g}
      BY <2>1, <2>2, <1>0, OtherKeysKeep
    <3> QED BY <3>1, <3>2, <2>2
  <2>4. W' = W /\ H' = H
    BY <2>3
  <2> QED BY <2>4 DEF Abstract!vars, waiting, holding
<1> QED BY <1>1, <1>2, <1>3, <1>4 DEF Step

\* The table of reference-counted mutexes implements one abstract mutex per key.
THEOREM LockImplementsMutex == Spec => ImplementsMutex
<1>1. Init => Abstract!Init
  BY DEF Init, Abstract!Init
<1>2. IInv /\ [Next]_vars => [Abstract!Next]_(Abstract!vars)
  <2> SUFFICES ASSUME IInv, [Next]_vars PROVE [Abstract!Next]_(Abstract!vars)
    OBVIOUS
  <2>1. CASE UNCHANGED vars
    BY <2>1 DEF vars, Abstract!vars
  <2> QED BY <2>1, StepImplements DEF Next
<1> QED BY <1>1, <1>2, Invariance, PTL DEF Spec, ImplementsMutex, Abstract!Spec
===============================================================================
