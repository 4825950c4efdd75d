------------------------------ MODULE MCSwapd ------------------------------
(***************************************************************************)
(* An instance of Swapd for TLC: two requests for the same hash.           *)
(***************************************************************************)
EXTENDS Swapd

OneHash == [r \in Reqs |-> "hash"]
=============================================================================
