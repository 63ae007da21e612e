-------------------------------- MODULE Mutex --------------------------------
(***************************************************************************)
(* What Server.lock and Server.unlock promise their callers: one critical  *)
(* section per key, entered by a goroutine that asked for it and left by   *)
(* the goroutine that is in it.  No lock table, no reference counts.       *)
(***************************************************************************)
CONSTANTS Goroutines, Keys

VARIABLES wanting, inside
    \* wanting[k] : the goroutines whose call to lock(k) has not returned
    \* inside[k]  : the goroutines between lock(k) and unlock(k)

vars == <<wanting, inside>>

Init ==
    /\ wanting = [k \in Keys |-> {}]
    /\ inside = [k \in Keys |-> {}]

Want(g, k) ==
    /\ g \notin wanting[k] \cup inside[k]
    /\ wanting' = [wanting EXCEPT ![k] = @ \cup {g}]
    /\ UNCHANGED inside

Enter(g, k) ==
    /\ g \in wanting[k]
    /\ inside[k] = {}
    /\ wanting' = [wanting EXCEPT ![k] = @ \ {g}]
    /\ inside' = [inside EXCEPT ![k] = {g}]

Leave(g, k) ==
    /\ g \in inside[k]
    /\ inside' = [inside EXCEPT ![k] = @ \ {g}]
    /\ UNCHANGED wanting

Next == \E g \in Goroutines, k \in Keys : Want(g, k) \/ Enter(g, k) \/ Leave(g, k)

Spec == Init /\ [][Next]_vars
==============================================================================
