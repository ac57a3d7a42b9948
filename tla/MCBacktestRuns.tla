--------------------------- MODULE MCBacktestRuns ---------------------------
(* BacktestRuns with two runs that one user may ask for. *)
EXTENDS BacktestRuns, TLC

CONSTANTS r1, r2

MCUserOf == r1 :> "ann" @@ r2 :> "ann"
=============================================================================
