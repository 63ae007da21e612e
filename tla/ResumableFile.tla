----------------------------- MODULE ResumableFile -----------------------------
(***************************************************************************)
(* What a resumable upload promises to whoever sends the file: the server  *)
(* holds a prefix of it that only ever grows, or nothing at all once the   *)
(* session is dropped; the file is stored at most once, and only when all  *)
(* of it is there; and the sender is told so only after that.              *)
(***************************************************************************)
EXTENDS Naturals

CONSTANTS
    Total,  \* length of the file
    Gone    \* there is no session any more

VARIABLES
    held,    \* length of the prefix the session holds, or Gone
    stored,  \* the file is in the storage backend
    told     \* the sender has its link

vars == <<held, stored, told>>

Init ==
    /\ held = 0
    /\ stored = FALSE
    /\ told = FALSE

Extend ==
    /\ held # Gone
    /\ held' \in {n \in 0..Total : n > held}
    /\ UNCHANGED <<stored, told>>

Store ==
    /\ held = Total
    /\ ~stored
    /\ stored' = TRUE
    /\ UNCHANGED <<held, told>>

Drop ==
    /\ held # Gone
    /\ held' = Gone
    /\ UNCHANGED <<stored, told>>

\* The session may end with the answer.
Tell ==
    /\ stored
    /\ told' = TRUE
    /\ held' \in {held, Gone}
    /\ UNCHANGED stored

Next == Extend \/ Store \/ Drop \/ Tell

Spec == Init /\ [][Next]_vars
===============================================================================
