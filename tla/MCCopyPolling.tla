--------------------------- MODULE MCCopyPolling ----------------------------
\* A small trader for TLC: up to two shares of t1, one of t2, in one mode.
EXTENDS CopyPolling

CONSTANTS t1, t2, sim

MCPortfolio == {p \in [Asset -> 0 .. 2] : p[t2] < 2}
=============================================================================
