-------------------------- MODULE MCUploadLifecycle --------------------------
(***************************************************************************)
(* Instances of UploadLifecycle: a limited upload, and an unlimited one.   *)
(***************************************************************************)
EXTENDS UploadLifecycle, TLC

CONSTANTS limited, unlimited, Budget

MCMaxDownloads == [u \in Uploads |-> IF u = limited THEN Budget ELSE -1]

Symmetry == Permutations(Requests)
===============================================================================
