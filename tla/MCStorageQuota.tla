--------------------------- MODULE MCStorageQuota ---------------------------
(***************************************************************************)
(* Instances of StorageQuota: interchangeable uploads and requests.        *)
(***************************************************************************)
EXTENDS StorageQuota, TLC

Symmetry == Permutations(Requests) \cup Permutations(Uploads)
===============================================================================
