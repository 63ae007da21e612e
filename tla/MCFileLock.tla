------------------------------ MODULE MCFileLock ------------------------------
(***************************************************************************)
(* An instance of FileLock: the key of an upload, and the key of an owner  *)
(* index that purgeExpired locks while it holds the upload.                *)
(***************************************************************************)
EXTENDS FileLock, TLC

CONSTANTS upload, owner

MCInner == [k \in Keys |-> IF k = owner THEN {} ELSE {owner}]
===============================================================================
