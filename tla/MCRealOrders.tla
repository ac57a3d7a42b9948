---------------------------- MODULE MCRealOrders ----------------------------
(***************************************************************************)
(* A small instance of RealOrders for TLC: o1 is an entry of one share, c1 *)
(* an exit attempt, on one real leg.                                       *)
(***************************************************************************)
EXTENDS RealOrders

CONSTANTS o1, c1

MCModeOf == [l \in Leg |-> "real"]

MCReasonOf == [s \in Sig |-> IF s = o1 THEN "OPEN" ELSE "CLOSE"]

MCLegOf == [s \in Sig |-> CHOOSE l \in Leg : TRUE]

MCSizeOf == [s \in {t \in Sig : t = o1} |-> 1]
=============================================================================
