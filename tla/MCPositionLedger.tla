-------------------------- MODULE MCPositionLedger --------------------------
(***************************************************************************)
(* Small instances of PositionLedger for TLC.  The model values name what  *)
(* they are: on the simulated leg o1 is an entry signal, i1 an increase,   *)
(* c1 a total exit, r1 a redemption; on the real leg o2 and o3 are         *)
(* entries, c2 a total exit, d2 a partial exit, r2 a redemption.           *)
(***************************************************************************)
EXTENDS PositionLedger, TLC

CONSTANTS o1, i1, c1, r1, o2, o3, c2, d2, r2, simLeg, realLeg

MCModeOf == [l \in Leg |-> IF l = realLeg THEN "real" ELSE "sim"]

MCReasonOf ==
    [s \in Sig |-> CASE s \in {o1, o2, o3} -> "OPEN"
                     [] s = i1 -> "INCREASE"
                     [] s \in {c1, c2} -> "CLOSE"
                     [] s = d2 -> "DECREASE"
                     [] OTHER -> "REDEMPTION"]

MCLegOf ==
    [s \in Sig |-> IF s \in {o1, i1, c1, r1} THEN simLeg ELSE realLeg]

=============================================================================
