--------------------------- MODULE MCResumableUpload ---------------------------
(***************************************************************************)
(* Instances of ResumableUpload: a file of three units in chunks of two.   *)
(***************************************************************************)
EXTENDS ResumableUpload, TLC

Symmetry == Permutations(Clients) \cup Permutations(Handlers)
===============================================================================
