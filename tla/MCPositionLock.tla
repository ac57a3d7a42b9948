--------------------------- MODULE MCPositionLock ---------------------------
(***************************************************************************)
(* Small instances of PositionLock for TLC: calls a, b, c lock m; d locks  *)
(* n.                                                                      *)
(***************************************************************************)
EXTENDS PositionLock, TLC

CONSTANTS a, b, c, d, m, n

MCPositionOf == [t \in Task |-> IF t = d THEN n ELSE m]
=============================================================================
