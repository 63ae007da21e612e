------------------------------ MODULE MCListings ------------------------------
(***************************************************************************)
(* Instances of Listings: an upload that is counted, may run out, be       *)
(* deleted and be swept away; one more that may be in a collection; and    *)
(* one that is listed only.                                                *)
(***************************************************************************)
EXTENDS Listings, TLC

Symmetry == Permutations(Requests)
===============================================================================
