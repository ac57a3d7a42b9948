------------------------- MODULE PositionLifecycle --------------------------
(***************************************************************************)
(* What the position ledger promises of one copied position, whatever      *)
(* happens to the signals, results and timers around it: it is entered     *)
(* once, its shares grow by fills only and shrink by exits only, it is     *)
(* dropped without ever having held a share or settled with none left, and *)
(* a settled position is never seen again.  PositionLedger implements it.  *)
(***************************************************************************)
EXTENDS Naturals

CONSTANTS
    Pos,        \* the positions
    MaxShares   \* bound on the shares one fill brings

VARIABLES
    life,       \* the stage of each position
    shares      \* the shares it holds

vars == <<life, shares>>

Stages == {"absent", "entering", "live", "dropped", "settled"}

TypeOK ==
    /\ life \in [Pos -> Stages]
    /\ shares \in [Pos -> Nat]

Init ==
    /\ life = [p \in Pos |-> "absent"]
    /\ shares = [p \in Pos |-> 0]

Enter(p) ==
    /\ life[p] = "absent"
    /\ life' = [life EXCEPT ![p] = "entering"]
    /\ UNCHANGED shares

\* The janitor drops every overdue entry in one step.
Abandon(P) ==
    /\ \A p \in P : life[p] = "entering"
    /\ life' = [p \in Pos |-> IF p \in P THEN "dropped" ELSE life[p]]
    /\ UNCHANGED shares

\* A dropped entry may turn out to have been filled after all.
Acquire(p, n) ==
    /\ life[p] \in {"entering", "live", "dropped"}
    /\ life' = [life EXCEPT ![p] = "live"]
    /\ shares' = [shares EXCEPT ![p] = @ + n]

Reduce(p, left) ==
    /\ life[p] = "live"
    /\ shares' = [shares EXCEPT ![p] = left]
    /\ UNCHANGED life

Settle(p) ==
    /\ life[p] = "live"
    /\ life' = [life EXCEPT ![p] = "settled"]
    /\ shares' = [shares EXCEPT ![p] = 0]

Next ==
    \/ \E p \in Pos : \/ Enter(p) \/ Settle(p)
                      \/ \E n \in 1 .. MaxShares : Acquire(p, n)
                      \/ \E left \in 1 .. shares[p] : Reduce(p, left)
    \/ \E P \in SUBSET Pos : Abandon(P)

Spec == Init /\ [][Next]_vars
=============================================================================
