-------------------------- MODULE MCStrategyExits ---------------------------
(* StrategyExits with a queue of a few slots. *)
EXTENDS StrategyExits, TLC
=============================================================================
