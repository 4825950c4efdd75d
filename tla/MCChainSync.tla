----------------------------- MODULE MCChainSync -----------------------------
(***************************************************************************)
(* Instances of ChainSync for TLC.  The tree has three branches that       *)
(* overtake each other, one of them from a block above Birthday:           *)
(*                                                                         *)
(*     g -- a1 -- a2 -- a3                                                 *)
(*      \     \                                                            *)
(*       \     c2 -- c3                                                    *)
(*        b1 -- b2                                                         *)
(*                                                                         *)
(* The run for stale blocks leaves c2 and c3 out.  The deposit is          *)
(* confirmed on every branch and spent in a3: by a claim if the output of  *)
(* the spend is watched, by the user's refund if not.                      *)
(***************************************************************************)
EXTENDS ChainSync

MCParent == [b \in Blocks |->
    CASE b \in {"g", "a1", "b1"} -> "g" [] b \in {"a2", "c2"} -> "a1"
      [] b = "a3" -> "a2" [] b = "b2" -> "b1" [] b = "c3" -> "c2"]
MCHeight == [b \in Blocks |->
    CASE b = "g" -> 0 [] b \in {"a1", "b1"} -> 1 [] b \in {"a2", "b2", "c2"} -> 2
      [] b \in {"a3", "c3"} -> 3]

MCTxs == {"deposit", "spend"}
MCTxsIn == [b \in Blocks |->
    CASE b \in {"a1", "b2"} -> {"deposit"} [] b = "a3" -> {"spend"} [] OTHER -> {}]
MCSpends == [t \in MCTxs |-> IF t = "spend" THEN {"deposit"} ELSE {}]
=============================================================================
