-------------------------- MODULE MCOrderPipeline --------------------------
(***************************************************************************)
(* Small instances of OrderPipeline for TLC: o1 is an entry, i1 an         *)
(* increase, c1 the first exit attempt, k1 a copied exit, d1 a copied      *)
(* decrease, r1 a redemption.                                              *)
(***************************************************************************)
EXTENDS OrderPipeline

CONSTANTS o1, i1, c1, k1, d1, r1

MCModeOf == [l \in Leg |-> "sim"]

MCReasonOf ==
    [s \in Sig |-> CASE s = o1 -> "OPEN"
                     [] s = i1 -> "INCREASE"
                     [] s \in {c1, k1} -> "CLOSE"
                     [] s = d1 -> "DECREASE"
                     [] OTHER -> "REDEMPTION"]

MCLegOf == [s \in Sig |-> CHOOSE l \in Leg : TRUE]

MCSeqOf == [s \in Sig |-> IF s = c1 THEN 1 ELSE 0]
=============================================================================
