------------------------------ MODULE SendServer ------------------------------
(***************************************************************************)
(* What the two halves of the send command share: the uploads the server   *)
(* has.  An upload that is removed or expires is gone for whoever is       *)
(* downloading it.                                                         *)
(***************************************************************************)
VARIABLE live  \* ids of the uploads the server has
===============================================================================
