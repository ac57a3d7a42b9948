-------------------------- MODULE SimSessionProofs --------------------------
(***************************************************************************)
(* Proofs about SimSession, for any positions, any number of reset         *)
(* requests and of faults: what is typed stays typed, what was wiped holds  *)
(* nothing again, and the cash is that of the session.                     *)
(***************************************************************************)
EXTENDS SimSession, TLAPS

\* The signals of a position, and the position of a signal.
LEMMA SigParts ==
    /\ \A p \in Pos : Entry(p) \in Sig /\ Exit(p) \in Sig
    /\ \A s \in Sig : s.pos \in Pos
BY DEF Sig, Entry, Exit

\* An empty repair has read nothing.
LEMMA NoRowType == NoRow \in Balances
BY DEF NoRow, Balances

\* Every step keeps the types.
LEMMA TypeOKStep ==
    ASSUME TypeOK, [Next]_vars
    PROVE  TypeOK'
<1>1. ASSUME NEW p \in Pos, Reserve(p)
      PROVE  TypeOK'
  BY <1>1, SigParts DEF Reserve, TypeOK, LedgerTypeOK, CashTypeOK, JobsTypeOK,
     ResetTypeOK, Leave, Fault, Results, ledger, jobs, janitors, start, resets
<1>2. ASSUME NEW p \in Pos, FindReservation(p)
      PROVE  TypeOK'
  BY <1>2, SigParts DEF FindReservation, TypeOK, LedgerTypeOK, CashTypeOK, JobsTypeOK,
     ResetTypeOK, Leave, Fault, Results, ledger, jobs, janitors, start, resets
<1>3. ASSUME NEW p \in Pos, RejectExpired(p)
      PROVE  TypeOK'
  <2>0. Entry(p) \in Sig /\ [sig |-> Entry(p), ok |-> "no"] \in Results
    BY SigParts DEF Results
  <2>1. LedgerTypeOK'
    BY <1>3 DEF RejectExpired, TypeOK, LedgerTypeOK, ledger
  <2>2. CashTypeOK'
    BY <1>3 DEF RejectExpired, TypeOK, CashTypeOK, start
  <2>3. JobsTypeOK'
    BY <1>3, <2>0 DEF RejectExpired, Leave, TypeOK, JobsTypeOK, janitors, start
  <2>4. ResetTypeOK'
    BY <1>3 DEF RejectExpired, TypeOK, ResetTypeOK, resets
  <2> QED
    BY <2>1, <2>2, <2>3, <2>4 DEF TypeOK
<1>4. ASSUME NEW p \in Pos, BeginClose(p)
      PROVE  TypeOK'
  BY <1>4, SigParts DEF BeginClose, TypeOK, LedgerTypeOK, CashTypeOK, JobsTypeOK,
     ResetTypeOK, Leave, Fault, Results, ledger, jobs, janitors, start, resets
<1>5. ASSUME NEW p \in Pos, Collide(p)
      PROVE  TypeOK'
  <2>0. Entry(p) \in Sig /\ [sig |-> Entry(p), ok |-> "no"] \in Results
    BY SigParts DEF Results
  <2>1. LedgerTypeOK'
    BY <1>5 DEF Collide, TypeOK, LedgerTypeOK, ledger
  <2>2. CashTypeOK'
    BY <1>5 DEF Collide, TypeOK, CashTypeOK, start
  <2>3. JobsTypeOK'
    BY <1>5, <2>0 DEF Collide, Leave, TypeOK, JobsTypeOK, janitors, start
  <2>4. ResetTypeOK'
    BY <1>5 DEF Collide, TypeOK, ResetTypeOK, resets
  <2> QED
    BY <2>1, <2>2, <2>3, <2>4 DEF TypeOK
<1>6. ASSUME NEW p \in Pos, JanitorReads(p)
      PROVE  TypeOK'
  BY <1>6, SigParts DEF JanitorReads, TypeOK, LedgerTypeOK, CashTypeOK, JobsTypeOK,
     ResetTypeOK, Leave, Fault, Results, ledger, jobs, janitors, start, resets
<1>7. ASSUME NEW p \in Pos, JanitorSaves(p)
      PROVE  TypeOK'
  BY <1>7, SigParts DEF JanitorSaves, TypeOK, LedgerTypeOK, CashTypeOK, JobsTypeOK,
     ResetTypeOK, Leave, Fault, Results, ledger, jobs, janitors, start, resets
<1>8. ASSUME NEW s \in Sig, Send(s)
      PROVE  TypeOK'
  BY <1>8, SigParts DEF Send, TypeOK, LedgerTypeOK, CashTypeOK, JobsTypeOK,
     ResetTypeOK, Leave, Fault, Results, ledger, jobs, janitors, start, resets
<1>9. ASSUME NEW s \in Sig, Take(s)
      PROVE  TypeOK'
  BY <1>9, SigParts DEF Take, TypeOK, LedgerTypeOK, CashTypeOK, JobsTypeOK,
     ResetTypeOK, Leave, Fault, Results, ledger, jobs, janitors, start, resets
<1>10. ASSUME NEW s \in Sig, Claim(s)
      PROVE  TypeOK'
  BY <1>10, SigParts DEF Claim, TypeOK, LedgerTypeOK, CashTypeOK, JobsTypeOK,
     ResetTypeOK, Leave, Fault, Results, ledger, jobs, janitors, start, resets
<1>11. ASSUME NEW s \in Sig, LeaveClaimed(s)
      PROVE  TypeOK'
  BY <1>11, SigParts DEF LeaveClaimed, TypeOK, LedgerTypeOK, CashTypeOK, JobsTypeOK,
     ResetTypeOK, Leave, Fault, Results, ledger, jobs, janitors, start, resets
<1>12. ASSUME NEW s \in Sig, Settle(s)
      PROVE  TypeOK'
  BY <1>12, SigParts DEF Settle, TypeOK, LedgerTypeOK, CashTypeOK, JobsTypeOK,
     ResetTypeOK, Leave, Fault, Results, ledger, jobs, janitors, start, resets
<1>13. ASSUME NEW s \in Sig, JobFails(s)
      PROVE  TypeOK'
  BY <1>13, SigParts DEF JobFails, TypeOK, LedgerTypeOK, CashTypeOK, JobsTypeOK,
     ResetTypeOK, Leave, Fault, Results, ledger, jobs, janitors, start, resets
<1>14. ASSUME NEW s \in Sig, PlacingJanitorFails(s)
      PROVE  TypeOK'
  <2>1. LedgerTypeOK'
    BY <1>14, SigParts DEF PlacingJanitorFails, FailRows, TypeOK, LedgerTypeOK, ledger
  <2>2. CashTypeOK'
    BY <1>14 DEF PlacingJanitorFails, TypeOK, CashTypeOK, start
  <2>3. JobsTypeOK'
    BY <1>14 DEF PlacingJanitorFails, TypeOK, JobsTypeOK, jobs, janitors, start
  <2>4. ResetTypeOK'
    BY <1>14 DEF PlacingJanitorFails, TypeOK, ResetTypeOK, resets
  <2> QED
    BY <2>1, <2>2, <2>3, <2>4 DEF TypeOK
<1>15. ASSUME NEW x \in results, DropResult(x)
      PROVE  TypeOK'
  BY <1>15, SigParts DEF DropResult, TypeOK, LedgerTypeOK, CashTypeOK, JobsTypeOK,
     ResetTypeOK, Leave, Fault, Results, ledger, jobs, janitors, start, resets
<1>16. ASSUME NEW x \in results, BookFailure(x)
      PROVE  TypeOK'
  <2>0. x.sig \in Sig /\ x.sig.pos \in Pos
    BY SigParts DEF TypeOK, JobsTypeOK, Results
  <2>1. LedgerTypeOK'
    BY <1>16, <2>0 DEF BookFailure, FailRows, TypeOK, LedgerTypeOK, ledger
  <2>2. CashTypeOK'
    BY <1>16 DEF BookFailure, TypeOK, CashTypeOK, start
  <2>3. JobsTypeOK'
    BY <1>16 DEF BookFailure, TypeOK, JobsTypeOK, jobs, janitors, start
  <2>4. ResetTypeOK'
    BY <1>16 DEF BookFailure, TypeOK, ResetTypeOK, resets
  <2> QED
    BY <2>1, <2>2, <2>3, <2>4 DEF TypeOK
<1>17. ASSUME NEW x \in results, BeginFill(x)
      PROVE  TypeOK'
  <2>1. LedgerTypeOK'
    BY <1>17 DEF BeginFill, TypeOK, LedgerTypeOK, ledger
  <2>2. CashTypeOK'
    <3>1. [res |-> x, row |-> balance] \in [res : Results, row : Balances]
      BY DEF TypeOK, JobsTypeOK, CashTypeOK
    <3> QED
      BY <1>17, <3>1 DEF BeginFill, TypeOK, CashTypeOK, start
  <2>3. JobsTypeOK'
    BY <1>17 DEF BeginFill, TypeOK, JobsTypeOK, jobs, janitors, start
  <2>4. ResetTypeOK'
    BY <1>17 DEF BeginFill, TypeOK, ResetTypeOK, resets
  <2> QED
    BY <2>1, <2>2, <2>3, <2>4 DEF TypeOK
<1>18. ASSUME NEW f \in filling, CommitFill(f)
      PROVE  TypeOK'
  <2>0. /\ f.res.sig \in Sig /\ f.res.sig.pos \in Pos
        /\ f.row.fills \subseteq Sig /\ f.row.since \in Nat
    BY <1>18, SigParts DEF CommitFill, TypeOK, CashTypeOK, Results, Balances
  <2>1. LedgerTypeOK'
    BY <1>18, <2>0 DEF CommitFill, TypeOK, LedgerTypeOK
  <2>2. CashTypeOK'
    BY <1>18, <2>0 DEF CommitFill, SaveBalance, TypeOK, CashTypeOK, Balances, start
  <2>3. JobsTypeOK'
    BY <1>18 DEF CommitFill, TypeOK, JobsTypeOK, jobs, janitors, start
  <2>4. ResetTypeOK'
    BY <1>18 DEF CommitFill, TypeOK, ResetTypeOK, resets
  <2> QED
    BY <2>1, <2>2, <2>3, <2>4 DEF TypeOK
<1>19. ASSUME NEW r \in Request, Acquire(r)
      PROVE  TypeOK'
  BY <1>19, SigParts DEF Acquire, TypeOK, LedgerTypeOK, CashTypeOK, JobsTypeOK,
     ResetTypeOK, Leave, Fault, Results, ledger, jobs, janitors, start, resets
<1>20. ASSUME NEW r \in Request, List(r)
      PROVE  TypeOK'
  BY <1>20, SigParts DEF List, TypeOK, LedgerTypeOK, CashTypeOK, JobsTypeOK,
     ResetTypeOK, Leave, Fault, Results, ledger, jobs, janitors, start, resets
<1>21. ASSUME NEW r \in Request, Wipe(r)
      PROVE  TypeOK'
  BY <1>21, SigParts DEF Wipe, TypeOK, LedgerTypeOK, CashTypeOK, JobsTypeOK,
     ResetTypeOK, Leave, Fault, Results, ledger, jobs, janitors, start, resets
<1>22. ASSUME NEW r \in Request, Commit(r)
      PROVE  TypeOK'
  <2>1. LedgerTypeOK'
    BY <1>22 DEF Commit, TypeOK, LedgerTypeOK, ledger
  <2>2. CashTypeOK'
    <3> DEFINE n == session + 1
    <3>1. n \in Nat /\ session' = n /\ balance' = [fills |-> {}, since |-> n]
      BY <1>22 DEF Commit, TypeOK, CashTypeOK
    <3>2. [fills |-> {}, since |-> n] \in Balances
      BY <3>1 DEF Balances
    <3>3. mixed' \in BOOLEAN /\ UNCHANGED <<repair, filling>>
      BY <1>22 DEF Commit, start
    <3> HIDE DEF n
    <3> QED
      BY <3>1, <3>2, <3>3 DEF TypeOK, CashTypeOK, Balances
  <2>3. JobsTypeOK'
    BY <1>22 DEF Commit, TypeOK, JobsTypeOK, jobs, janitors, start
  <2>4. ResetTypeOK'
    BY <1>22 DEF Commit, TypeOK, ResetTypeOK, resets
  <2> QED
    BY <2>1, <2>2, <2>3, <2>4 DEF TypeOK
<1>23. ASSUME NEW r \in Request, Abort(r)
      PROVE  TypeOK'
  BY <1>23, SigParts DEF Abort, TypeOK, LedgerTypeOK, CashTypeOK, JobsTypeOK,
     ResetTypeOK, Leave, Fault, Results, ledger, jobs, janitors, start, resets
<1>24. ASSUME NEW r \in Request, Purge(r)
      PROVE  TypeOK'
  BY <1>24, SigParts DEF Purge, TypeOK, LedgerTypeOK, CashTypeOK, JobsTypeOK,
     ResetTypeOK, Leave, Fault, Results, ledger, jobs, janitors, start, resets
<1>25. ASSUME NEW r \in Request, Tell(r)
      PROVE  TypeOK'
  BY <1>25, SigParts DEF Tell, TypeOK, LedgerTypeOK, CashTypeOK, JobsTypeOK,
     ResetTypeOK, Leave, Fault, Results, ledger, jobs, janitors, start, resets
<1>26. ASSUME NEW r \in Request, Unlock(r)
      PROVE  TypeOK'
  BY <1>26, SigParts DEF Unlock, TypeOK, LedgerTypeOK, CashTypeOK, JobsTypeOK,
     ResetTypeOK, Leave, Fault, Results, ledger, jobs, janitors, start, resets
<1>27. ASSUME PlacingJanitorLoads
      PROVE  TypeOK'
  <2>1. LedgerTypeOK'
    BY <1>27 DEF PlacingJanitorLoads, TypeOK, LedgerTypeOK, ledger
  <2>2. CashTypeOK'
    BY <1>27 DEF PlacingJanitorLoads, TypeOK, CashTypeOK, start
  <2>3. JobsTypeOK'
    BY <1>27 DEF PlacingJanitorLoads, Orphans, TypeOK, JobsTypeOK, jobs, start
  <2>4. ResetTypeOK'
    BY <1>27 DEF PlacingJanitorLoads, TypeOK, ResetTypeOK, resets
  <2> QED
    BY <2>1, <2>2, <2>3, <2>4 DEF TypeOK
<1>28. ASSUME Expire
      PROVE  TypeOK'
  BY <1>28, SigParts DEF Expire, TypeOK, LedgerTypeOK, CashTypeOK, JobsTypeOK,
     ResetTypeOK, Leave, Fault, Results, ledger, jobs, janitors, start, resets
<1>29. ASSUME Stop
      PROVE  TypeOK'
  <2>1. LedgerTypeOK'
    BY <1>29 DEF Stop, TypeOK, LedgerTypeOK, ledger
  <2>2. CashTypeOK'
    BY <1>29, NoRowType DEF Stop, TypeOK, CashTypeOK
  <2>3. JobsTypeOK'
    BY <1>29 DEF Stop, TypeOK, JobsTypeOK, jobs, janitors, start
  <2>4. ResetTypeOK'
    BY <1>29 DEF Stop, Fault, TypeOK, ResetTypeOK, resets
  <2> QED
    BY <2>1, <2>2, <2>3, <2>4 DEF TypeOK
<1>30. ASSUME RepairReads
      PROVE  TypeOK'
  <2>1. LedgerTypeOK'
    BY <1>30 DEF RepairReads, TypeOK, LedgerTypeOK, ledger
  <2>2. CashTypeOK'
    BY <1>30 DEF RepairReads, Filled, TypeOK, CashTypeOK, Balances
  <2>3. JobsTypeOK'
    BY <1>30 DEF RepairReads, TypeOK, JobsTypeOK, jobs, janitors, start
  <2>4. ResetTypeOK'
    BY <1>30 DEF RepairReads, TypeOK, ResetTypeOK, resets
  <2> QED
    BY <2>1, <2>2, <2>3, <2>4 DEF TypeOK
<1>31. ASSUME RepairSaves
      PROVE  TypeOK'
  <2>1. LedgerTypeOK'
    BY <1>31 DEF RepairSaves, TypeOK, LedgerTypeOK, ledger
  <2>2. CashTypeOK'
    BY <1>31, NoRowType DEF RepairSaves, SaveBalance, TypeOK, CashTypeOK, Balances
  <2>3. JobsTypeOK'
    BY <1>31 DEF RepairSaves, TypeOK, JobsTypeOK, jobs, janitors
  <2>4. ResetTypeOK'
    BY <1>31 DEF RepairSaves, TypeOK, ResetTypeOK, resets
  <2> QED
    BY <2>1, <2>2, <2>3, <2>4 DEF TypeOK
<1>32. CASE UNCHANGED vars
  BY <1>32 DEF TypeOK, LedgerTypeOK, CashTypeOK, JobsTypeOK, ResetTypeOK,
     vars, ledger, jobs, janitors, start, resets
<1> QED
  BY <1>1, <1>2, <1>3, <1>4, <1>5, <1>6, <1>7, <1>8, <1>9, <1>10, <1>11,
     <1>12, <1>13, <1>14, <1>15, <1>16, <1>17, <1>18, <1>19, <1>20, <1>21,
     <1>22, <1>23, <1>24, <1>25, <1>26, <1>27, <1>28, <1>29, <1>30, <1>31,
     <1>32 DEF Next, Job, Book, Reset
-----------------------------------------------------------------------------
\* A fill that is being booked has the position under its lock: it holds, or is
\* to hold, shares, and no reset is deleting it.
FillHolds ==
    \A f \in filling :
        /\ status[f.res.sig.pos] \in {"pending", "open", "closing"}
        /\ f.res.sig.pos \notin Wiping

Settled == {s \in Sig : exec[s] \in {"filled", "failed"}}

\* A balance that was read is of a session that has begun; while no other was
\* saved over it, one of the current session counts settled executions.
Fresh(row) ==
    /\ row.since <= session
    /\ ~mixed /\ row.since = balance.since => row.fills \subseteq Settled

CashInv ==
    /\ Fresh(balance) /\ Fresh(repair)
    /\ \A f \in filling : Fresh(f.row)

\* The position of a fill that is being booked.
LEMMA FillingPos ==
    ASSUME TypeOK, NEW f \in filling
    PROVE  f.res.sig \in Sig /\ f.res.sig.pos \in Pos /\ f.row \in Balances
BY SigParts DEF TypeOK, CashTypeOK, Results

\* A step on other positions.
LEMMA KeepsHold ==
    ASSUME FillHolds, UNCHANGED <<filling, phase, listed>>,
           \A f \in filling : status'[f.res.sig.pos] = status[f.res.sig.pos]
    PROVE  FillHolds'
BY DEF FillHolds, Wiping

\* A position with a fill on its way keeps its row.
LEMMA FillHoldsStep ==
    ASSUME TypeOK, FillHolds, [Next]_vars
    PROVE  FillHolds'
<1>1. ASSUME NEW p \in Pos, Reserve(p)
      PROVE  FillHolds'
  BY <1>1, SigParts DEF Reserve, FillHolds, Wiping, TypeOK, LedgerTypeOK,
     ResetTypeOK, CashTypeOK,
     Results, Leave, Fault, ledger, jobs, janitors, start, resets
<1>2. ASSUME NEW p \in Pos, FindReservation(p)
      PROVE  FillHolds'
  BY <1>2, SigParts DEF FindReservation, FillHolds, Wiping, TypeOK, LedgerTypeOK,
     ResetTypeOK, CashTypeOK,
     Results, Leave, Fault, ledger, jobs, janitors, start, resets
<1>3. ASSUME NEW p \in Pos, RejectExpired(p)
      PROVE  FillHolds'
  <2>1. ASSUME NEW f \in filling
        PROVE  status'[f.res.sig.pos] = status[f.res.sig.pos]
    BY <1>3, <2>1, FillingPos DEF RejectExpired, Free, TypeOK, LedgerTypeOK
  <2> QED
    BY <1>3, <2>1, KeepsHold DEF RejectExpired, resets
<1>4. ASSUME NEW p \in Pos, BeginClose(p)
      PROVE  FillHolds'
  BY <1>4, SigParts DEF BeginClose, FillHolds, Wiping, TypeOK, LedgerTypeOK,
     ResetTypeOK, CashTypeOK,
     Results, Leave, Fault, ledger, jobs, janitors, start, resets
<1>5. ASSUME NEW p \in Pos, Collide(p)
      PROVE  FillHolds'
  <2>1. ASSUME NEW f \in filling
        PROVE  status'[f.res.sig.pos] = status[f.res.sig.pos]
    BY <1>5, <2>1, FillingPos DEF Collide, Free, TypeOK, LedgerTypeOK
  <2> QED
    BY <1>5, <2>1, KeepsHold DEF Collide, resets
<1>6. ASSUME NEW p \in Pos, JanitorReads(p)
      PROVE  FillHolds'
  BY <1>6, SigParts DEF JanitorReads, FillHolds, Wiping, TypeOK, LedgerTypeOK,
     ResetTypeOK, CashTypeOK,
     Results, Leave, Fault, ledger, jobs, janitors, start, resets
<1>7. ASSUME NEW p \in Pos, JanitorSaves(p)
      PROVE  FillHolds'
  <2>1. ASSUME NEW f \in filling
        PROVE  status'[f.res.sig.pos] = status[f.res.sig.pos]
    BY <1>7, <2>1, FillingPos DEF JanitorSaves, Free, TypeOK, LedgerTypeOK
  <2> QED
    BY <1>7, <2>1, KeepsHold DEF JanitorSaves, resets
<1>8. ASSUME NEW s \in Sig, Send(s)
      PROVE  FillHolds'
  BY <1>8, SigParts DEF Send, FillHolds, Wiping, TypeOK, LedgerTypeOK,
     ResetTypeOK, CashTypeOK,
     Results, Leave, Fault, ledger, jobs, janitors, start, resets
<1>9. ASSUME NEW s \in Sig, Take(s)
      PROVE  FillHolds'
  BY <1>9, SigParts DEF Take, FillHolds, Wiping, TypeOK, LedgerTypeOK,
     ResetTypeOK, CashTypeOK,
     Results, Leave, Fault, ledger, jobs, janitors, start, resets
<1>10. ASSUME NEW s \in Sig, Claim(s)
      PROVE  FillHolds'
  BY <1>10, SigParts DEF Claim, FillHolds, Wiping, TypeOK, LedgerTypeOK,
     ResetTypeOK, CashTypeOK,
     Results, Leave, Fault, ledger, jobs, janitors, start, resets
<1>11. ASSUME NEW s \in Sig, LeaveClaimed(s)
      PROVE  FillHolds'
  BY <1>11, SigParts DEF LeaveClaimed, FillHolds, Wiping, TypeOK, LedgerTypeOK,
     ResetTypeOK, CashTypeOK,
     Results, Leave, Fault, ledger, jobs, janitors, start, resets
<1>12. ASSUME NEW s \in Sig, Settle(s)
      PROVE  FillHolds'
  BY <1>12, SigParts DEF Settle, FillHolds, Wiping, TypeOK, LedgerTypeOK,
     ResetTypeOK, CashTypeOK,
     Results, Leave, Fault, ledger, jobs, janitors, start, resets
<1>13. ASSUME NEW s \in Sig, JobFails(s)
      PROVE  FillHolds'
  BY <1>13, SigParts DEF JobFails, FillHolds, Wiping, TypeOK, LedgerTypeOK,
     ResetTypeOK, CashTypeOK,
     Results, Leave, Fault, ledger, jobs, janitors, start, resets
<1>14. ASSUME NEW s \in Sig, PlacingJanitorFails(s)
      PROVE  FillHolds'
  <2>1. ASSUME NEW f \in filling
        PROVE  status'[f.res.sig.pos] = status[f.res.sig.pos]
    <3>1. CASE status' = status
      BY <3>1
    <3>2. CASE FailRows(s) /\ Free(s.pos)
      <4>1. f.res.sig.pos /= s.pos
        BY <3>2 DEF Free
      <4> QED
        BY <3>2, <4>1, FillingPos, SigParts DEF FailRows, TypeOK, LedgerTypeOK
    <3> QED
      BY <1>14, <3>1, <3>2 DEF PlacingJanitorFails, ledger
  <2> QED
    BY <1>14, <2>1, KeepsHold DEF PlacingJanitorFails, resets
<1>15. ASSUME NEW x \in results, DropResult(x)
      PROVE  FillHolds'
  BY <1>15, SigParts DEF DropResult, FillHolds, Wiping, TypeOK, LedgerTypeOK,
     ResetTypeOK, CashTypeOK,
     Results, Leave, Fault, ledger, jobs, janitors, start, resets
<1>16. ASSUME NEW x \in results, BookFailure(x)
      PROVE  FillHolds'
  BY <1>16 DEF BookFailure, Handles, FillHolds
<1>17. ASSUME NEW x \in results, BeginFill(x)
      PROVE  FillHolds'
  <2>1. status[x.sig.pos] \in {"pending", "open", "closing"} /\ x.sig.pos \notin Wiping
    BY <1>17 DEF BeginFill, Accepts, Free
  <2>2. UNCHANGED <<status, phase, listed>> /\ \A f \in filling' : f.res = x
    BY <1>17 DEF BeginFill, ledger, resets
  <2> QED
    BY <2>1, <2>2 DEF FillHolds, Wiping
<1>18. ASSUME NEW f \in filling, CommitFill(f)
      PROVE  FillHolds'
  BY <1>18, SigParts DEF CommitFill, FillHolds, Wiping, TypeOK, LedgerTypeOK,
     ResetTypeOK, CashTypeOK,
     Results, Leave, Fault, ledger, jobs, janitors, start, resets
<1>19. ASSUME NEW r \in Request, Acquire(r)
      PROVE  FillHolds'
  BY <1>19, SigParts DEF Acquire, FillHolds, Wiping, TypeOK, LedgerTypeOK,
     ResetTypeOK, CashTypeOK,
     Results, Leave, Fault, ledger, jobs, janitors, start, resets
<1>20. ASSUME NEW r \in Request, List(r)
      PROVE  FillHolds'
  BY <1>20, SigParts DEF List, FillHolds, Wiping, TypeOK, LedgerTypeOK,
     ResetTypeOK, CashTypeOK,
     Results, Leave, Fault, ledger, jobs, janitors, start, resets
<1>21. ASSUME NEW r \in Request, Wipe(r)
      PROVE  FillHolds'
  <2>1. UNCHANGED <<status, filling, listed>> /\ phase' = [phase EXCEPT ![r] = "wiping"]
    BY <1>21 DEF Wipe, ledger
  <2>2. ASSUME NEW f \in filling, NEW q \in Request, phase'[q] = "wiping"
        PROVE  f.res.sig.pos \notin listed[q]
    <3>1. q = r
      BY <1>21, <2>1, <2>2 DEF Wipe, TypeOK, ResetTypeOK
    <3> QED
      BY <1>21, <2>2, <3>1 DEF Wipe, Free
  <2> QED
    BY <2>1, <2>2 DEF FillHolds, Wiping
<1>22. ASSUME NEW r \in Request, Commit(r)
      PROVE  FillHolds'
  BY <1>22, SigParts DEF Commit, FillHolds, Wiping, TypeOK, LedgerTypeOK,
     ResetTypeOK, CashTypeOK,
     Results, Leave, Fault, ledger, jobs, janitors, start, resets
<1>23. ASSUME NEW r \in Request, Abort(r)
      PROVE  FillHolds'
  BY <1>23, SigParts DEF Abort, FillHolds, Wiping, TypeOK, LedgerTypeOK,
     ResetTypeOK, CashTypeOK,
     Results, Leave, Fault, ledger, jobs, janitors, start, resets
<1>24. ASSUME NEW r \in Request, Purge(r)
      PROVE  FillHolds'
  BY <1>24, SigParts DEF Purge, FillHolds, Wiping, TypeOK, LedgerTypeOK,
     ResetTypeOK, CashTypeOK,
     Results, Leave, Fault, ledger, jobs, janitors, start, resets
<1>25. ASSUME NEW r \in Request, Tell(r)
      PROVE  FillHolds'
  BY <1>25, SigParts DEF Tell, FillHolds, Wiping, TypeOK, LedgerTypeOK,
     ResetTypeOK, CashTypeOK,
     Results, Leave, Fault, ledger, jobs, janitors, start, resets
<1>26. ASSUME NEW r \in Request, Unlock(r)
      PROVE  FillHolds'
  BY <1>26, SigParts DEF Unlock, FillHolds, Wiping, TypeOK, LedgerTypeOK,
     ResetTypeOK, CashTypeOK,
     Results, Leave, Fault, ledger, jobs, janitors, start, resets
<1>27. ASSUME PlacingJanitorLoads
      PROVE  FillHolds'
  BY <1>27, SigParts DEF PlacingJanitorLoads, FillHolds, Wiping, TypeOK, LedgerTypeOK,
     ResetTypeOK, CashTypeOK,
     Results, Leave, Fault, ledger, jobs, janitors, start, resets
<1>28. ASSUME Expire
      PROVE  FillHolds'
  BY <1>28, SigParts DEF Expire, FillHolds, Wiping, TypeOK, LedgerTypeOK,
     ResetTypeOK, CashTypeOK,
     Results, Leave, Fault, ledger, jobs, janitors, start, resets
<1>29. ASSUME Stop
      PROVE  FillHolds'
  BY <1>29, SigParts DEF Stop, FillHolds, Wiping, TypeOK, LedgerTypeOK,
     ResetTypeOK, CashTypeOK,
     Results, Leave, Fault, ledger, jobs, janitors, start, resets
<1>30. ASSUME RepairReads
      PROVE  FillHolds'
  BY <1>30, SigParts DEF RepairReads, FillHolds, Wiping, TypeOK, LedgerTypeOK,
     ResetTypeOK, CashTypeOK,
     Results, Leave, Fault, ledger, jobs, janitors, start, resets
<1>31. ASSUME RepairSaves
      PROVE  FillHolds'
  BY <1>31, SigParts DEF RepairSaves, FillHolds, Wiping, TypeOK, LedgerTypeOK,
     ResetTypeOK, CashTypeOK,
     Results, Leave, Fault, ledger, jobs, janitors, start, resets
<1>32. CASE UNCHANGED vars
  BY <1>32 DEF FillHolds, Wiping, vars, ledger, jobs, janitors, start, resets
<1> QED
  BY <1>1, <1>2, <1>3, <1>4, <1>5, <1>6, <1>7, <1>8, <1>9, <1>10, <1>11,
     <1>12, <1>13, <1>14, <1>15, <1>16, <1>17, <1>18, <1>19, <1>20, <1>21,
     <1>22, <1>23, <1>24, <1>25, <1>26, <1>27, <1>28, <1>29, <1>30, <1>31,
     <1>32 DEF Next, Job, Book, Reset

\* A step that leaves balance, fills and session alone, and wipes nothing.
LEMMA KeepsCash ==
    ASSUME TypeOK, CashInv, UNCHANGED <<balance, session, filling, repair, mixed>>,
           Settled \subseteq Settled'
    PROVE  CashInv'
BY DEF CashInv, Fresh

\* What save() leaves in the balance's row.
LEMMA SavedFresh ==
    ASSUME TypeOK, CashInv, NEW row \in Balances, Fresh(row), NEW fills,
           SaveBalance(row, fills), session' = session, Settled \subseteq Settled',
           ~mixed /\ row.since = balance.since => fills \subseteq Settled'
    PROVE  Fresh(balance)' /\ \A other \in Balances : Fresh(other) => Fresh(other)'
<1>1. balance'.fills = fills /\ balance'.since \in {row.since, balance.since}
  BY DEF SaveBalance
<1>2. ~mixed' => ~mixed /\ row.since = balance.since
  BY Zenon DEF SaveBalance
<1>3. ~mixed' => balance'.since = balance.since
  BY <1>1, <1>2
<1> QED
  BY <1>1, <1>2, <1>3 DEF CashInv, Fresh

\* Every step keeps the cash in step with the executions.
LEMMA CashStep ==
    ASSUME TypeOK, CashInv, [Next]_vars
    PROVE  CashInv'
<1>1. ASSUME NEW p \in Pos, Reserve(p)
      PROVE  CashInv'
  BY <1>1, KeepsCash DEF Reserve, Settled, ledger, jobs, janitors, start, resets
<1>2. ASSUME NEW p \in Pos, FindReservation(p)
      PROVE  CashInv'
  BY <1>2, KeepsCash DEF FindReservation, Settled, ledger, jobs, janitors, start, resets
<1>3. ASSUME NEW p \in Pos, RejectExpired(p)
      PROVE  CashInv'
  BY <1>3, KeepsCash DEF RejectExpired, Settled, ledger, jobs, janitors, start, resets
<1>4. ASSUME NEW p \in Pos, BeginClose(p)
      PROVE  CashInv'
  BY <1>4, KeepsCash DEF BeginClose, Settled, ledger, jobs, janitors, start, resets
<1>5. ASSUME NEW p \in Pos, Collide(p)
      PROVE  CashInv'
  BY <1>5, KeepsCash DEF Collide, Settled, ledger, jobs, janitors, start, resets
<1>6. ASSUME NEW p \in Pos, JanitorReads(p)
      PROVE  CashInv'
  BY <1>6, KeepsCash DEF JanitorReads, Settled, ledger, jobs, janitors, start, resets
<1>7. ASSUME NEW p \in Pos, JanitorSaves(p)
      PROVE  CashInv'
  BY <1>7, KeepsCash DEF JanitorSaves, Settled, ledger, jobs, janitors, start, resets
<1>8. ASSUME NEW s \in Sig, Send(s)
      PROVE  CashInv'
  BY <1>8, KeepsCash DEF Send, Settled, ledger, jobs, janitors, start, resets
<1>9. ASSUME NEW s \in Sig, Take(s)
      PROVE  CashInv'
  BY <1>9, KeepsCash DEF Take, Settled, ledger, jobs, janitors, start, resets
<1>10. ASSUME NEW s \in Sig, Claim(s)
      PROVE  CashInv'
  BY <1>10, KeepsCash DEF Claim, Settled, TypeOK, LedgerTypeOK, start
<1>11. ASSUME NEW s \in Sig, LeaveClaimed(s)
      PROVE  CashInv'
  BY <1>11, KeepsCash DEF LeaveClaimed, Settled, ledger, jobs, janitors, start, resets
<1>12. ASSUME NEW s \in Sig, Settle(s)
      PROVE  CashInv'
  BY <1>12, KeepsCash DEF Settle, Settled, ledger, jobs, janitors, start, resets
<1>13. ASSUME NEW s \in Sig, JobFails(s)
      PROVE  CashInv'
  BY <1>13, KeepsCash DEF JobFails, Settled, ledger, jobs, janitors, start, resets
<1>14. ASSUME NEW s \in Sig, PlacingJanitorFails(s)
      PROVE  CashInv'
  <2>1. Settled \subseteq Settled'
    BY <1>14 DEF PlacingJanitorFails, FailRows, Settled, TypeOK, LedgerTypeOK, ledger
  <2> QED
    BY <1>14, <2>1, KeepsCash DEF PlacingJanitorFails, start
<1>15. ASSUME NEW x \in results, DropResult(x)
      PROVE  CashInv'
  BY <1>15, KeepsCash DEF DropResult, Settled, ledger, jobs, janitors, start, resets
<1>16. ASSUME NEW x \in results, BookFailure(x)
      PROVE  CashInv'
  <2>1. Settled \subseteq Settled'
    BY <1>16 DEF BookFailure, FailRows, Settled, TypeOK, LedgerTypeOK, ledger
  <2> QED
    BY <1>16, <2>1, KeepsCash DEF BookFailure, start
<1>17. ASSUME NEW x \in results, BeginFill(x)
      PROVE  CashInv'
  BY <1>17 DEF BeginFill, CashInv, Fresh, Settled, ledger, start
<1>18. ASSUME NEW f \in filling, CommitFill(f)
      PROVE  CashInv'
  <2>1. Settled \subseteq Settled' /\ f.res.sig \in Settled' /\ f.row \in Balances
    BY <1>18, FillingPos DEF CommitFill, Settled, TypeOK, LedgerTypeOK
  <2>2. ~mixed /\ f.row.since = balance.since => f.row.fills \cup {f.res.sig} \subseteq Settled'
    BY <1>18, <2>1 DEF CommitFill, CashInv, Fresh
  <2>3. Fresh(balance)' /\ \A row \in Balances : Fresh(row) => Fresh(row)'
    BY <1>18, <2>1, <2>2, SavedFresh DEF CommitFill, CashInv
  <2> QED
    BY <1>18, <2>3 DEF CommitFill, CashInv, TypeOK, CashTypeOK, start
<1>19. ASSUME NEW r \in Request, Acquire(r)
      PROVE  CashInv'
  BY <1>19, KeepsCash DEF Acquire, Settled, ledger, jobs, janitors, start, resets
<1>20. ASSUME NEW r \in Request, List(r)
      PROVE  CashInv'
  BY <1>20, KeepsCash DEF List, Settled, ledger, jobs, janitors, start, resets
<1>21. ASSUME NEW r \in Request, Wipe(r)
      PROVE  CashInv'
  BY <1>21, KeepsCash DEF Wipe, Settled, ledger, jobs, janitors, start, resets
<1>22. ASSUME NEW r \in Request, Commit(r)
      PROVE  CashInv'
  <2>1. /\ session \in Nat /\ session' = session + 1 /\ ~mixed'
        /\ balance'.fills = {} /\ balance'.since = session'
        /\ UNCHANGED <<filling, repair>>
    BY <1>22 DEF Commit, TypeOK, CashTypeOK, start
  <2>2. \A row \in Balances : Fresh(row) => Fresh(row)'
    BY <2>1 DEF Fresh, Balances
  <2>3. Fresh(balance)'
    BY <2>1 DEF Fresh
  <2> QED
    BY <2>1, <2>2, <2>3 DEF CashInv, TypeOK, CashTypeOK
<1>23. ASSUME NEW r \in Request, Abort(r)
      PROVE  CashInv'
  BY <1>23, KeepsCash DEF Abort, Settled, ledger, jobs, janitors, start, resets
<1>24. ASSUME NEW r \in Request, Purge(r)
      PROVE  CashInv'
  BY <1>24, KeepsCash DEF Purge, Settled, ledger, jobs, janitors, start, resets
<1>25. ASSUME NEW r \in Request, Tell(r)
      PROVE  CashInv'
  BY <1>25, KeepsCash DEF Tell, Settled, ledger, jobs, janitors, start, resets
<1>26. ASSUME NEW r \in Request, Unlock(r)
      PROVE  CashInv'
  BY <1>26, KeepsCash DEF Unlock, Settled, ledger, jobs, janitors, start, resets
<1>27. ASSUME PlacingJanitorLoads
      PROVE  CashInv'
  BY <1>27, KeepsCash DEF PlacingJanitorLoads, Settled, ledger, jobs, janitors, start, resets
<1>28. ASSUME Expire
      PROVE  CashInv'
  BY <1>28, KeepsCash DEF Expire, Settled, ledger, jobs, janitors, start, resets
<1>29. ASSUME Stop
      PROVE  CashInv'
  <2>1. repair'.since <= session' /\ repair'.fills \subseteq Settled'
    BY <1>29 DEF Stop, NoRow, TypeOK, CashTypeOK
  <2> QED
    BY <1>29, <2>1 DEF Stop, CashInv, Fresh, Settled, ledger
<1>30. ASSUME RepairReads
      PROVE  CashInv'
  BY <1>30 DEF RepairReads, CashInv, Fresh, Filled, Settled, ledger
<1>31. ASSUME RepairSaves
      PROVE  CashInv'
  <2>1. UNCHANGED <<exec, session, filling>> /\ repair' = NoRow
    BY <1>31 DEF RepairSaves, ledger
  <2>2. Settled = Settled' /\ repair \in Balances
    BY <2>1 DEF Settled, TypeOK, CashTypeOK
  <2>3. Fresh(balance)' /\ \A row \in Balances : Fresh(row) => Fresh(row)'
    BY <1>31, <2>1, <2>2, SavedFresh DEF RepairSaves, CashInv, Fresh
  <2>4. Fresh(repair)'
    BY <2>1 DEF Fresh, NoRow, TypeOK, CashTypeOK
  <2> QED
    BY <2>1, <2>3, <2>4 DEF CashInv, TypeOK, CashTypeOK
<1>32. CASE UNCHANGED vars
  BY <1>32, KeepsCash DEF Settled, vars, ledger, jobs, janitors, start, resets
<1> QED
  BY <1>1, <1>2, <1>3, <1>4, <1>5, <1>6, <1>7, <1>8, <1>9, <1>10, <1>11,
     <1>12, <1>13, <1>14, <1>15, <1>16, <1>17, <1>18, <1>19, <1>20, <1>21,
     <1>22, <1>23, <1>24, <1>25, <1>26, <1>27, <1>28, <1>29, <1>30, <1>31,
     <1>32 DEF Next, Job, Book, Reset

-----------------------------------------------------------------------------
\* The fills that are being booked, and every balance that was read, stay in
\* step with the rows, whatever resets, janitors and restarts do.
THEOREM SessionInvariantHolds == Spec => [](TypeOK /\ FillHolds /\ CashInv)
<1>1. Init => TypeOK /\ FillHolds /\ CashInv
  <2> SUFFICES ASSUME Init PROVE TypeOK /\ FillHolds /\ CashInv
    OBVIOUS
  <2>1. LedgerTypeOK /\ JobsTypeOK /\ ResetTypeOK
    BY DEF Init, LedgerTypeOK, JobsTypeOK, ResetTypeOK
  <2>2. CashTypeOK
    BY DEF Init, CashTypeOK, Balances, NoRow
  <2>3. FillHolds /\ CashInv
    BY DEF Init, FillHolds, CashInv, Fresh, NoRow
  <2> QED
    BY <2>1, <2>2, <2>3 DEF TypeOK
<1>2. TypeOK /\ FillHolds /\ CashInv /\ [Next]_vars => (TypeOK /\ FillHolds /\ CashInv)'
  BY TypeOKStep, FillHoldsStep, CashStep
<1> QED
  BY <1>1, <1>2, PTL DEF Spec

\* The cash of a session counts fills whose executions are still there, unless a
\* balance read before the reset was saved after it.
THEOREM CashBelongsToSession == Spec => []CashOfSession
<1>1. CashInv => CashOfSession
  BY DEF CashInv, Fresh, Settled, CashOfSession
<1> QED
  BY <1>1, SessionInvariantHolds, PTL

\* A step that fills nothing of a position that was wiped or cancelled.
StaysWiped(p) ==
    /\ status'[p] \in {"gone", "cancelled"}
    /\ \A s \in {Entry(p), Exit(p)} : exec'[s] = "filled" => exec[s] = "filled"

\* No step fills what was wiped or cancelled.
LEMMA WipedStep ==
    ASSUME TypeOK, FillHolds, NEW q \in Pos, status[q] \in {"gone", "cancelled"}, [Next]_vars
    PROVE  StaysWiped(q)
<1>1. ASSUME NEW p \in Pos, Reserve(p)
      PROVE  StaysWiped(q)
  BY <1>1, SigParts DEF Reserve, StaysWiped, TypeOK, LedgerTypeOK, Leave, Fault,
     ledger, jobs, janitors, start, resets
<1>2. ASSUME NEW p \in Pos, FindReservation(p)
      PROVE  StaysWiped(q)
  BY <1>2, SigParts DEF FindReservation, StaysWiped, TypeOK, LedgerTypeOK, Leave, Fault,
     ledger, jobs, janitors, start, resets
<1>3. ASSUME NEW p \in Pos, RejectExpired(p)
      PROVE  StaysWiped(q)
  BY <1>3, SigParts DEF RejectExpired, StaysWiped, TypeOK, LedgerTypeOK, Leave, Fault,
     ledger, jobs, janitors, start, resets
<1>4. ASSUME NEW p \in Pos, BeginClose(p)
      PROVE  StaysWiped(q)
  BY <1>4, SigParts DEF BeginClose, StaysWiped, TypeOK, LedgerTypeOK, Leave, Fault,
     ledger, jobs, janitors, start, resets
<1>5. ASSUME NEW p \in Pos, Collide(p)
      PROVE  StaysWiped(q)
  BY <1>5, SigParts DEF Collide, StaysWiped, TypeOK, LedgerTypeOK, Leave, Fault,
     ledger, jobs, janitors, start, resets
<1>6. ASSUME NEW p \in Pos, JanitorReads(p)
      PROVE  StaysWiped(q)
  BY <1>6, SigParts DEF JanitorReads, StaysWiped, TypeOK, LedgerTypeOK, Leave, Fault,
     ledger, jobs, janitors, start, resets
<1>7. ASSUME NEW p \in Pos, JanitorSaves(p)
      PROVE  StaysWiped(q)
  BY <1>7, SigParts DEF JanitorSaves, StaysWiped, TypeOK, LedgerTypeOK, Leave, Fault,
     ledger, jobs, janitors, start, resets
<1>8. ASSUME NEW s \in Sig, Send(s)
      PROVE  StaysWiped(q)
  BY <1>8, SigParts DEF Send, StaysWiped, TypeOK, LedgerTypeOK, Leave, Fault,
     ledger, jobs, janitors, start, resets
<1>9. ASSUME NEW s \in Sig, Take(s)
      PROVE  StaysWiped(q)
  BY <1>9, SigParts DEF Take, StaysWiped, TypeOK, LedgerTypeOK, Leave, Fault,
     ledger, jobs, janitors, start, resets
<1>10. ASSUME NEW s \in Sig, Claim(s)
      PROVE  StaysWiped(q)
  BY <1>10, SigParts DEF Claim, StaysWiped, TypeOK, LedgerTypeOK, Leave, Fault,
     ledger, jobs, janitors, start, resets
<1>11. ASSUME NEW s \in Sig, LeaveClaimed(s)
      PROVE  StaysWiped(q)
  BY <1>11, SigParts DEF LeaveClaimed, StaysWiped, TypeOK, LedgerTypeOK, Leave, Fault,
     ledger, jobs, janitors, start, resets
<1>12. ASSUME NEW s \in Sig, Settle(s)
      PROVE  StaysWiped(q)
  BY <1>12, SigParts DEF Settle, StaysWiped, TypeOK, LedgerTypeOK, Leave, Fault,
     ledger, jobs, janitors, start, resets
<1>13. ASSUME NEW s \in Sig, JobFails(s)
      PROVE  StaysWiped(q)
  BY <1>13, SigParts DEF JobFails, StaysWiped, TypeOK, LedgerTypeOK, Leave, Fault,
     ledger, jobs, janitors, start, resets
<1>14. ASSUME NEW s \in Sig, PlacingJanitorFails(s)
      PROVE  StaysWiped(q)
  BY <1>14, SigParts DEF PlacingJanitorFails, FailRows, StaysWiped, TypeOK, LedgerTypeOK, ledger
<1>15. ASSUME NEW x \in results, DropResult(x)
      PROVE  StaysWiped(q)
  BY <1>15, SigParts DEF DropResult, StaysWiped, TypeOK, LedgerTypeOK, Leave, Fault,
     ledger, jobs, janitors, start, resets
<1>16. ASSUME NEW x \in results, BookFailure(x)
      PROVE  StaysWiped(q)
  <2>1. x.sig \in Sig /\ x.sig.pos \in Pos
    BY SigParts DEF TypeOK, JobsTypeOK, Results
  <2> QED
    BY <1>16, <2>1, SigParts DEF BookFailure, FailRows, StaysWiped, TypeOK, LedgerTypeOK, ledger
<1>17. ASSUME NEW x \in results, BeginFill(x)
      PROVE  StaysWiped(q)
  BY <1>17, SigParts DEF BeginFill, StaysWiped, TypeOK, LedgerTypeOK, Leave, Fault,
     ledger, jobs, janitors, start, resets
<1>18. ASSUME NEW f \in filling, CommitFill(f)
      PROVE  StaysWiped(q)
  <2> DEFINE s == f.res.sig
  <2>1. s \in Sig /\ s.pos \in Pos /\ s.pos /= q
    BY FillingPos DEF FillHolds
  <2>2. Entry(q) /= s /\ Exit(q) /= s
    BY <2>1 DEF Entry, Exit
  <2> QED
    BY <1>18, <2>1, <2>2, SigParts DEF CommitFill, StaysWiped, TypeOK, LedgerTypeOK
<1>19. ASSUME NEW r \in Request, Acquire(r)
      PROVE  StaysWiped(q)
  BY <1>19, SigParts DEF Acquire, StaysWiped, TypeOK, LedgerTypeOK, Leave, Fault,
     ledger, jobs, janitors, start, resets
<1>20. ASSUME NEW r \in Request, List(r)
      PROVE  StaysWiped(q)
  BY <1>20, SigParts DEF List, StaysWiped, TypeOK, LedgerTypeOK, Leave, Fault,
     ledger, jobs, janitors, start, resets
<1>21. ASSUME NEW r \in Request, Wipe(r)
      PROVE  StaysWiped(q)
  BY <1>21, SigParts DEF Wipe, StaysWiped, TypeOK, LedgerTypeOK, Leave, Fault,
     ledger, jobs, janitors, start, resets
<1>22. ASSUME NEW r \in Request, Commit(r)
      PROVE  StaysWiped(q)
  BY <1>22, SigParts DEF Commit, StaysWiped, TypeOK, LedgerTypeOK, Leave, Fault,
     ledger, jobs, janitors, start, resets
<1>23. ASSUME NEW r \in Request, Abort(r)
      PROVE  StaysWiped(q)
  BY <1>23, SigParts DEF Abort, StaysWiped, TypeOK, LedgerTypeOK, Leave, Fault,
     ledger, jobs, janitors, start, resets
<1>24. ASSUME NEW r \in Request, Purge(r)
      PROVE  StaysWiped(q)
  BY <1>24, SigParts DEF Purge, StaysWiped, TypeOK, LedgerTypeOK, Leave, Fault,
     ledger, jobs, janitors, start, resets
<1>25. ASSUME NEW r \in Request, Tell(r)
      PROVE  StaysWiped(q)
  BY <1>25, SigParts DEF Tell, StaysWiped, TypeOK, LedgerTypeOK, Leave, Fault,
     ledger, jobs, janitors, start, resets
<1>26. ASSUME NEW r \in Request, Unlock(r)
      PROVE  StaysWiped(q)
  BY <1>26, SigParts DEF Unlock, StaysWiped, TypeOK, LedgerTypeOK, Leave, Fault,
     ledger, jobs, janitors, start, resets
<1>27. ASSUME PlacingJanitorLoads
      PROVE  StaysWiped(q)
  BY <1>27, SigParts DEF PlacingJanitorLoads, StaysWiped, TypeOK, LedgerTypeOK, Leave, Fault,
     ledger, jobs, janitors, start, resets
<1>28. ASSUME Expire
      PROVE  StaysWiped(q)
  BY <1>28, SigParts DEF Expire, StaysWiped, TypeOK, LedgerTypeOK, Leave, Fault,
     ledger, jobs, janitors, start, resets
<1>29. ASSUME Stop
      PROVE  StaysWiped(q)
  BY <1>29, SigParts DEF Stop, StaysWiped, TypeOK, LedgerTypeOK, Leave, Fault,
     ledger, jobs, janitors, start, resets
<1>30. ASSUME RepairReads
      PROVE  StaysWiped(q)
  BY <1>30, SigParts DEF RepairReads, StaysWiped, TypeOK, LedgerTypeOK, Leave, Fault,
     ledger, jobs, janitors, start, resets
<1>31. ASSUME RepairSaves
      PROVE  StaysWiped(q)
  BY <1>31, SigParts DEF RepairSaves, StaysWiped, TypeOK, LedgerTypeOK, Leave, Fault,
     ledger, jobs, janitors, start, resets
<1>32. CASE UNCHANGED vars
  BY <1>32 DEF StaysWiped, vars, ledger
<1> QED
  BY <1>1, <1>2, <1>3, <1>4, <1>5, <1>6, <1>7, <1>8, <1>9, <1>10, <1>11,
     <1>12, <1>13, <1>14, <1>15, <1>16, <1>17, <1>18, <1>19, <1>20, <1>21,
     <1>22, <1>23, <1>24, <1>25, <1>26, <1>27, <1>28, <1>29, <1>30, <1>31,
     <1>32 DEF Next, Job, Book, Reset

\* What a reset wiped, or a janitor cancelled, never holds shares again.
THEOREM WipedStaysWiped == Spec => WipedHoldNothing
<1>1. TypeOK /\ FillHolds /\ CashInv /\ [Next]_vars =>
        [\A p \in Pos : status[p] \in {"gone", "cancelled"} =>
            /\ status'[p] \in {"gone", "cancelled"}
            /\ \A s \in {Entry(p), Exit(p)} : exec'[s] = "filled" => exec[s] = "filled"
        ]_vars
  BY WipedStep DEF StaysWiped
<1> QED
  BY <1>1, SessionInvariantHolds, PTL DEF Spec, WipedHoldNothing
=============================================================================
