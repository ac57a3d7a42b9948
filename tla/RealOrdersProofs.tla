-------------------------- MODULE RealOrdersProofs --------------------------
(***************************************************************************)
(* Proofs about RealOrders, for any set of positions, legs and signals and *)
(* any number of faults: every step is one of the ledger's, a real order   *)
(* is posted once, and no fill is booked that the exchange did not make.   *)
(***************************************************************************)
EXTENDS RealOrders, PositionLedgerProofs

\* An executor that is somewhere in a job works on a market order's signal.
LEMMA SigIn ==
    ASSUME RealTypeOK, NEW p \in Pos, active[p].at # "idle"
    PROVE  active[p].sig \in MarketSig /\ active[p].sig \in Sig
BY DEF RealTypeOK, Idle, MarketSig

\* What a look-up finds is within the bound.
LEMMA FoundType ==
    ASSUME RealTypeOK, NEW s \in MarketSig, NEW id
    PROVE  Found(s, id) \in Shares
BY BoundAssumption DEF RealTypeOK, Found, MarketSig, Shares

\* Whatever finalize() does to an execution is a transaction of the ledger.
LEMMA FinalizeIsStep ==
    ASSUME NEW s \in MarketSig, NEW n \in Shares, Finalize(s, n)
    PROVE  [Next]_vars
<1>1. s \in Sig
  BY DEF MarketSig
<1>2. CASE n = 0 /\ FinalizeFailed(s)
  BY <1>1, <1>2 DEF Next, ExecutionStep
<1>3. CASE n > 0 /\ (FillBuy(s, n) \/ FillSell(s, n) \/ RejectFill(s))
  <2>1. n \in 1 .. MaxQty
    BY <1>3, BoundAssumption DEF Shares
  <2> QED
    BY <1>1, <1>3, <2>1 DEF Next, ExecutionStep
<1> QED
  BY <1>2, <1>3 DEF Finalize

\* The executors, the channel and the passes do to the ledger what its
\* transactions allow, and nothing else.
LEMMA LedgerStep ==
    ASSUME RealTypeOK, [RealNext]_allVars
    PROVE  [Next]_vars
<1>1. ASSUME NEW s \in Sig, NEW p \in Pos, Reserve(s, p)
      PROVE  [Next]_vars
  BY <1>1 DEF Reserve, Next, ReservationStep
<1>2. ASSUME NEW s \in Sig, NEW p \in Pos, SendEntry(s, p)
      PROVE  [Next]_vars
  BY <1>2 DEF SendEntry, Queue
<1>3. ASSUME NEW s \in Sig, NEW p \in Pos, SendExit(s, p)
      PROVE  [Next]_vars
  BY <1>3 DEF SendExit, Queue
<1>4. ASSUME NEW p \in Pos, CancelStuck(p)
      PROVE  [Next]_vars
  BY <1>4 DEF CancelStuck, Next, ExecutionStep
<1>5. ASSUME NEW p \in Pos, FailStuck(p)
      PROVE  [Next]_vars
  BY <1>5 DEF FailStuck, Next, CloseStep
<1>6. ASSUME NEW p \in Pos, StartExit(p)
      PROVE  [Next]_vars
  BY <1>6 DEF StartExit, Next, CloseStep
<1>7. ASSUME NEW p \in Pos, Claim(p)
      PROVE  [Next]_vars
  <2> DEFINE s == active[p].sig
  <2>1. s \in Sig
    BY <1>7, SigIn DEF Claim, Step
  <2>2. CASE ClaimBuy(s, p)
    BY <2>1, <2>2 DEF Next, ExecutionStep
  <2>3. CASE ClaimSell(s, p, size[s])
    <3>1. size[s] \in 1 .. MaxQty
      BY <2>1, <2>3, BoundAssumption DEF ClaimSell, RealTypeOK, Shares
    <3> QED
      BY <2>1, <2>3, <3>1 DEF Next, ExecutionStep
  <2> QED
    BY <1>7, <2>2, <2>3 DEF Claim
<1>8. ASSUME NEW p \in Pos, RefuseEntry(p)
      PROVE  [Next]_vars
  <2>1. active[p].sig \in Sig
    BY <1>8 DEF RefuseEntry, BuySig
  <2> QED
    BY <1>8, <2>1 DEF RefuseEntry, TryRelease, Next, ReservationStep
<1>9. ASSUME NEW p \in Pos, DropExit(p)
      PROVE  [Next]_vars
  BY <1>9 DEF DropExit, OnlyPlace
<1>10. ASSUME NEW p \in Pos, Resume(p)
      PROVE  [Next]_vars
  <2> DEFINE s == active[p].sig
  <2>1. s \in MarketSig
    BY <1>10, SigIn DEF Resume, Step
  <2>2. Found(s, s \in orderId) \in Shares
    BY <2>1, FoundType
  <2> QED
    BY <1>10, <2>1, <2>2, FinalizeIsStep DEF Resume, Book
<1>11. ASSUME NEW p \in Pos, FailEarly(p)
      PROVE  [Next]_vars
  BY <1>11 DEF FailEarly, OnlyPlace
<1>12. ASSUME NEW p \in Pos, Post(p)
      PROVE  [Next]_vars
  BY <1>12 DEF Post, OnlyPlace
<1>13. ASSUME NEW p \in Pos, PostFails(p)
      PROVE  [Next]_vars
  BY <1>13 DEF PostFails, OnlyPlace
<1>14. ASSUME NEW p \in Pos, Answer(p)
      PROVE  [Next]_vars
  BY <1>14 DEF Answer, OnlyPlace
<1>15. ASSUME NEW p \in Pos, RecordId(p)
      PROVE  [Next]_vars
  BY <1>15 DEF RecordId, OnlyPlace
<1>16. ASSUME NEW p \in Pos, Parse(p)
      PROVE  [Next]_vars
  BY <1>16 DEF Parse, OnlyPlace
<1>17. ASSUME NEW p \in Pos, Leave(p)
      PROVE  [Next]_vars
  BY <1>17 DEF Leave, OnlyPlace
<1>18. ASSUME NEW s \in Sig, NEW p \in Pos, Take(s, p)
      PROVE  [Next]_vars
  BY <1>18 DEF Take, OnlyPlace
<1>19. ASSUME NEW s \in Sig, GiveUp(s)
      PROVE  [Next]_vars
  BY <1>19 DEF GiveUp, Next, ReservationStep
<1>20. ASSUME NEW s \in MarketSig, Kill(s)
      PROVE  [Next]_vars
  BY <1>20 DEF Kill, OnlyPlace
<1>21. ASSUME NEW s \in MarketSig, NEW n \in 1 .. MaxQty, Match(s, n)
      PROVE  [Next]_vars
  BY <1>21 DEF Match, OnlyPlace
<1>22. ASSUME NEW r \in results, HandleResult(r)
      PROVE  [Next]_vars
  <2>1. r.sig \in MarketSig /\ r.qty \in Shares
    BY DEF RealTypeOK, Fills
  <2> QED
    BY <1>22, <2>1, FinalizeIsStep DEF HandleResult, Book
<1>23. ASSUME NEW e \in channel, Receive(e)
      PROVE  [Next]_vars
  BY <1>23 DEF Receive, OnlyPlace
<1>24. ASSUME NEW e \in handling, Apply(e)
      PROVE  [Next]_vars
  <2>1. e.sig \in MarketSig /\ e.qty \in Shares
    BY DEF RealTypeOK, Fills
  <2>2. CASE FinalizeFailed(e.sig)
    BY <2>1, <2>2 DEF Next, ExecutionStep, MarketSig
  <2>3. CASE Finalize(e.sig, e.qty)
    BY <2>1, <2>3, FinalizeIsStep
  <2> QED
    BY <1>24, <2>2, <2>3 DEF Apply, Book
<1>25. ASSUME NEW x \in listed, LookUp(x)
      PROVE  [Next]_vars
  BY <1>25 DEF LookUp, OnlyPlace
<1>26. ASSUME NEW f \in found, BookFound(f)
      PROVE  [Next]_vars
  <2>1. f.sig \in MarketSig /\ f.qty \in Shares
    BY DEF RealTypeOK, Fills
  <2> QED
    BY <1>26, <2>1, FinalizeIsStep DEF BookFound, Book
<1>27. ASSUME Sync
      PROVE  [Next]_vars
  BY <1>27 DEF Sync, OnlyPlace
<1>28. ASSUME Disconnect
      PROVE  [Next]_vars
  BY <1>28 DEF Disconnect, OnlyPlace
<1>29. ASSUME Reconnect
      PROVE  [Next]_vars
  BY <1>29 DEF Reconnect, OnlyPlace
<1>30. ASSUME Crash
      PROVE  [Next]_vars
  BY <1>30 DEF Crash, OnlyPlace
<1>31. ASSUME Restart
      PROVE  [Next]_vars
  BY <1>31 DEF Restart, OnlyPlace
<1>32. ASSUME Serve
      PROVE  [Next]_vars
  BY <1>32 DEF Serve, OnlyPlace
<1>33. CASE UNCHANGED allVars
  BY <1>33 DEF allVars, vars
<1> QED
  BY <1>1, <1>2, <1>3, <1>4, <1>5, <1>6, <1>7, <1>8, <1>9, <1>10,
     <1>11, <1>12, <1>13, <1>14, <1>15, <1>16, <1>17, <1>18, <1>19,
     <1>20, <1>21, <1>22, <1>23, <1>24, <1>25, <1>26, <1>27, <1>28,
     <1>29, <1>30, <1>31, <1>32, <1>33
     DEF RealNext, Produce, Execute, Exchange, Reconcile

\* finalize() credits the execution it is called for, and only with a fill.
LEMMA BookFills ==
    ASSUME TypeOK, NEW s \in MarketSig, NEW n \in Shares,
           Finalize(s, n) \/ UNCHANGED fillQuantity, NEW t \in Sig
    PROVE  fillQuantity'[t] = fillQuantity[t] \/ (t = s /\ n > 0)
BY DEF TypeOK, Finalize, FinalizeFailed, FillBuy, FillSell, RejectFill, vars,
       execVars, MarketSig

\* No transaction asks for or records more than the bound.
LEMMA BoundKept ==
    ASSUME TypeOK, ExecutionHasPosition, FillsBounded, [Next]_vars
    PROVE  FillsBounded'
<1> USE BoundAssumption DEF TypeOK, FillsBounded, Shares
<1>1. ASSUME NEW s \in Sig, NEW n \in 1 .. MaxQty, FillBuy(s, n)
      PROVE  FillsBounded'
  BY <1>1 DEF FillBuy
<1>2. ASSUME NEW s \in Sig, NEW n \in 1 .. MaxQty, FillSell(s, n)
      PROVE  FillsBounded'
  <2> DEFINE add == Lesser(Lesser(n, quantity[execPosition[s]]),
                 IF requestedQty[s] > fillQuantity[s]
                   THEN requestedQty[s] - fillQuantity[s] ELSE 0)
  <2>1. fillQuantity' = [fillQuantity EXCEPT ![s] =
                           Lesser(@ + add, requestedQty[s])]
    BY <1>2 DEF FillSell
  <2>2. requestedQty' = requestedQty
    BY <1>2 DEF FillSell
  <2>3. CASE execPosition[s] \in Pos
    <3>1. quantity[execPosition[s]] \in Nat
      BY <2>3
    <3>2. add \in Nat
      BY <3>1 DEF Lesser
    <3>3. Lesser(fillQuantity[s] + add, requestedQty[s]) \in Shares
      BY <3>2 DEF Lesser
    <3> QED
      BY <2>1, <2>2, <3>3
  <2> QED
    BY <1>2, <2>3 DEF FillSell, AcceptsFill, ExecutionHasPosition
<1>3. ASSUME NEW s \in Sig, NEW p \in Pos, NEW n \in 1 .. MaxQty, ClaimSell(s, p, n)
      PROVE  FillsBounded'
  BY <1>3 DEF ClaimSell, InsertExecution
<1>4. ASSUME NEW s \in Sig, NEW p \in Pos, ClaimBuy(s, p)
      PROVE  FillsBounded'
  BY <1>4 DEF ClaimBuy, InsertExecution
<1>5. ASSUME Next,
             \A s \in Sig, n \in 1 .. MaxQty : ~FillBuy(s, n) /\ ~FillSell(s, n),
             \A s \in Sig, p \in Pos : ~ClaimBuy(s, p),
             \A s \in Sig, p \in Pos, n \in 1 .. MaxQty : ~ClaimSell(s, p, n)
      PROVE  fillQuantity' = fillQuantity /\ requestedQty' = requestedQty
  BY <1>5 DEF Next, ReservationStep, ExecutionStep, CloseStep, ReserveOpen,
     ReserveIncrease, UpdateOrderSignalId, Release, ReservationAges,
     ReservationJanitor, RedemptionTimeout, RearmRedemption, FinalizeFailed,
     RejectFill, FailActiveForPosition, BeginClose, RevertClose, MarkFailed,
     MarkPendingResolution, MoveStatus, CommitReservation, execVars
<1>6. CASE UNCHANGED vars
  BY <1>6 DEF vars, execVars
<1> QED
  BY <1>1, <1>2, <1>3, <1>4, <1>5, <1>6

\* An execution that exists goes on existing, for the same position.
LEMMA ExecutionStays ==
    ASSUME TypeOK, [Next]_vars, NEW s \in Sig, execStatus[s] # "none"
    PROVE  execStatus'[s] # "none" /\ execPosition'[s] = execPosition[s]
<1> USE DEF TypeOK
<1>1. CASE ReservationStep
  BY <1>1 DEF ReservationStep, ReserveOpen, ReserveIncrease, CommitReservation,
     UpdateOrderSignalId, Release, ReservationAges, ReservationJanitor, execVars
<1>2. CASE ExecutionStep
  BY <1>2 DEF ExecutionStep, ClaimBuy, ClaimSell, InsertExecution,
     RedemptionTimeout, RearmRedemption, FinalizeFailed, RejectFill, FillBuy,
     FillSell, FailActiveForPosition, SetExecStatus
<1>3. CASE CloseStep
  BY <1>3 DEF CloseStep, BeginClose, RevertClose, MarkFailed,
     MarkPendingResolution, MoveStatus, execVars
<1>4. CASE UNCHANGED vars
  BY <1>4 DEF vars, execVars
<1> QED
  BY <1>1, <1>2, <1>3, <1>4 DEF Next

\* A look-up finds shares only where the exchange matched an order like it.
LEMMA FoundTraded ==
    ASSUME RealTypeOK, NEW s \in MarketSig, NEW id, Found(s, id) > 0
    PROVE  Traded(s)
BY DEF Found, Alike, Traded, RealTypeOK, MarketSig, Shares

\* No handler, queue or pass of the real orders holds what is not of its type.
LEMMA RealTypeKept ==
    ASSUME RealTypeOK, TypeOK, FillsBounded', [RealNext]_allVars
    PROVE  RealTypeOK'
<1>0. Needed \subseteq Leg \cup {NoLeg}
  BY LegAssumption DEF Needed, MarketSig, TypeOK
<1>00. ToReconcile \subseteq [sig : MarketSig, row : {"anonymous", "known", "failed"}]
  BY DEF ToReconcile, MarketSig
<1>1. ASSUME NEW s \in Sig, NEW p \in Pos, Reserve(s, p)
      PROVE  RealTypeOK'
  BY <1>1, BoundAssumption DEF Reserve, realVars, queues, exchange, rows, events, pass, process,
         RealTypeOK, Fills, MarketSig, Places, Shares, Idle
<1>2. ASSUME NEW s \in Sig, NEW p \in Pos, SendEntry(s, p)
      PROVE  RealTypeOK'
  BY <1>2, BoundAssumption DEF SendEntry, Queue, realVars, queues, exchange, rows, events, pass,
         process, RealTypeOK, Fills, MarketSig, Places, Shares, Idle,
         BuySig, RedemptionSig
<1>3. ASSUME NEW s \in Sig, NEW p \in Pos, SendExit(s, p)
      PROVE  RealTypeOK'
  BY <1>3, BoundAssumption DEF SendExit, Queue, realVars, queues, exchange, rows, events, pass,
         process, RealTypeOK, Fills, MarketSig, Places, Shares, Idle
<1>4. ASSUME NEW p \in Pos, CancelStuck(p)
      PROVE  RealTypeOK'
  BY <1>4, BoundAssumption DEF CancelStuck, realVars, queues, exchange, rows, events, pass,
         process, RealTypeOK, Fills, MarketSig, Places, Shares, Idle
<1>5. ASSUME NEW p \in Pos, FailStuck(p)
      PROVE  RealTypeOK'
  BY <1>5, BoundAssumption DEF FailStuck, realVars, queues, exchange, rows, events, pass,
         process, RealTypeOK, Fills, MarketSig, Places, Shares, Idle
<1>6. ASSUME NEW p \in Pos, StartExit(p)
      PROVE  RealTypeOK'
  BY <1>6, BoundAssumption DEF StartExit, Step, OnlyPlace, realVars, queues, exchange, rows,
         events, pass, process, RealTypeOK, Fills, MarketSig, Places,
         Shares, Idle
<1>7. ASSUME NEW p \in Pos, Claim(p)
      PROVE  RealTypeOK'
  BY <1>7, BoundAssumption DEF Claim, Step, OnlyPlace, realVars, queues, exchange, rows, events,
         pass, process, RealTypeOK, Fills, MarketSig, Places, Shares, Idle
<1>8. ASSUME NEW p \in Pos, RefuseEntry(p)
      PROVE  RealTypeOK'
  <2>1. active[p].sig \in MarketSig /\ active[p].sig \in Sig
    BY <1>8, SigIn DEF RefuseEntry, Step
  <2> QED
    BY <1>8, BoundAssumption, <2>1 DEF RefuseEntry, Step, Result, realVars, queues, exchange, rows,
         events, pass, process, RealTypeOK, Fills, MarketSig, Places,
         Shares, Idle
<1>9. ASSUME NEW p \in Pos, DropExit(p)
      PROVE  RealTypeOK'
  BY <1>9, BoundAssumption DEF DropExit, Step, OnlyPlace, realVars, queues, exchange, rows,
         events, pass, process, RealTypeOK, Fills, MarketSig, Places,
         Shares, Idle
<1>10. ASSUME NEW p \in Pos, Resume(p)
      PROVE  RealTypeOK'
  <2>1. active[p].sig \in MarketSig /\ active[p].sig \in Sig
    BY <1>10, SigIn DEF Resume, Step
  <2>2. fillQuantity'[active[p].sig] \in Shares
    BY <2>1 DEF FillsBounded
  <2> QED
    BY <1>10, <2>1, <2>2 DEF Resume, Step, Book, Result, realVars, queues, exchange, rows,
         events, pass, process, RealTypeOK, Fills, MarketSig, Places,
         Shares, Idle
<1>11. ASSUME NEW p \in Pos, FailEarly(p)
      PROVE  RealTypeOK'
  <2>1. active[p].sig \in MarketSig /\ active[p].sig \in Sig
    BY <1>11, SigIn DEF FailEarly, Step, Settle
  <2> QED
    BY <1>11, BoundAssumption, <2>1 DEF FailEarly, Step, Settle, Result, realVars, queues, exchange, rows,
         events, pass, process, RealTypeOK, Fills, MarketSig, Places,
         Shares, Idle
<1>12. ASSUME NEW p \in Pos, Post(p)
      PROVE  RealTypeOK'
  <2>1. active[p].sig \in MarketSig /\ active[p].sig \in Sig
    BY <1>12, SigIn DEF Post, Step
  <2> QED
    BY <1>12, BoundAssumption, <2>1 DEF Post, Step, realVars, queues, exchange, rows, events, pass,
         process, RealTypeOK, Fills, MarketSig, Places, Shares, Idle
<1>13. ASSUME NEW p \in Pos, PostFails(p)
      PROVE  RealTypeOK'
  <2>1. active[p].sig \in MarketSig /\ active[p].sig \in Sig
    BY <1>13, SigIn DEF PostFails, Step, Settle
  <2> QED
    BY <1>13, BoundAssumption, <2>1 DEF PostFails, Step, Settle, Result, Fault, realVars, queues,
         exchange, rows, events, pass, process, RealTypeOK, Fills,
         MarketSig, Places, Shares, Idle
<1>14. ASSUME NEW p \in Pos, Answer(p)
      PROVE  RealTypeOK'
  <2>1. active[p].sig \in MarketSig /\ active[p].sig \in Sig
    BY <1>14, SigIn DEF Answer
  <2> QED
    BY <1>14, BoundAssumption, <2>1 DEF Answer, realVars, queues, exchange, rows, events, pass, process,
         RealTypeOK, Fills, MarketSig, Places, Shares, Idle
<1>15. ASSUME NEW p \in Pos, RecordId(p)
      PROVE  RealTypeOK'
  <2>1. active[p].sig \in MarketSig /\ active[p].sig \in Sig
    BY <1>15, SigIn DEF RecordId, Step
  <2> QED
    BY <1>15, BoundAssumption, <2>1 DEF RecordId, Step, Fault, realVars, queues, exchange, rows, events,
         pass, process, RealTypeOK, Fills, MarketSig, Places, Shares, Idle
<1>16. ASSUME NEW p \in Pos, Parse(p)
      PROVE  RealTypeOK'
  <2>1. active[p].sig \in MarketSig /\ active[p].sig \in Sig
    BY <1>16, SigIn DEF Parse, Step, Settle
  <2> QED
    BY <1>16, BoundAssumption, <2>1 DEF Parse, Step, Settle, Result, realVars, queues, exchange, rows,
         events, pass, process, RealTypeOK, Fills, MarketSig, Places,
         Shares, Idle
<1>17. ASSUME NEW p \in Pos, Leave(p)
      PROVE  RealTypeOK'
  BY <1>17, BoundAssumption DEF Leave, realVars, queues, exchange, rows, events, pass, process,
         RealTypeOK, Fills, MarketSig, Places, Shares, Idle
<1>18. ASSUME NEW s \in Sig, NEW p \in Pos, Take(s, p)
      PROVE  RealTypeOK'
  BY <1>18, BoundAssumption DEF Take, realVars, queues, exchange, rows, events, pass, process,
         RealTypeOK, Fills, MarketSig, Places, Shares, Idle
<1>19. ASSUME NEW s \in Sig, GiveUp(s)
      PROVE  RealTypeOK'
  BY <1>19, BoundAssumption DEF GiveUp, realVars, queues, exchange, rows, events, pass, process,
         RealTypeOK, Fills, MarketSig, Places, Shares, Idle
<1>20. ASSUME NEW s \in MarketSig, Kill(s)
      PROVE  RealTypeOK'
  BY <1>20, BoundAssumption DEF Kill, Tell, Result, realVars, queues, exchange, rows, events,
         pass, process, RealTypeOK, Fills, MarketSig, Places, Shares, Idle
<1>21. ASSUME NEW s \in MarketSig, NEW n \in 1 .. MaxQty, Match(s, n)
      PROVE  RealTypeOK'
  BY <1>21, BoundAssumption DEF Match, Tell, Result, realVars, queues, exchange, rows, events,
         pass, process, RealTypeOK, Fills, MarketSig, Places, Shares, Idle
<1>22. ASSUME NEW r \in results, HandleResult(r)
      PROVE  RealTypeOK'
  BY <1>22, BoundAssumption DEF HandleResult, Book, Fault, realVars, queues, exchange, rows,
         events, pass, process, RealTypeOK, Fills, MarketSig, Places,
         Shares, Idle
<1>23. ASSUME NEW e \in channel, Receive(e)
      PROVE  RealTypeOK'
  BY <1>23, BoundAssumption DEF Receive, realVars, queues, exchange, rows, events, pass, process,
         RealTypeOK, Fills, MarketSig, Places, Shares, Idle
<1>24. ASSUME NEW e \in handling, Apply(e)
      PROVE  RealTypeOK'
  BY <1>24, BoundAssumption DEF Apply, Book, realVars, queues, exchange, rows, events, pass,
         process, RealTypeOK, Fills, MarketSig, Places, Shares, Idle
<1>25. ASSUME NEW x \in listed, LookUp(x)
      PROVE  RealTypeOK'
  <2>1. x.sig \in MarketSig
    BY DEF RealTypeOK
  <2>2. Found(x.sig, x.row # "anonymous") \in Shares
    BY <2>1, FoundType
  <2> QED
    BY <1>25, <2>1, <2>2 DEF LookUp, Result, realVars, queues, exchange, rows, events, pass, process,
         RealTypeOK, Fills
<1>26. ASSUME NEW f \in found, BookFound(f)
      PROVE  RealTypeOK'
  BY <1>26, BoundAssumption DEF BookFound, Book, realVars, queues, exchange, rows, events, pass,
         process, RealTypeOK, Fills, MarketSig, Places, Shares, Idle
<1>27. ASSUME Sync
      PROVE  RealTypeOK'
  BY <1>27, BoundAssumption, <1>0 DEF Sync, Needed, realVars, queues, exchange, rows, events, pass,
         process, RealTypeOK, Fills, MarketSig, Places, Shares, Idle
<1>28. ASSUME Disconnect
      PROVE  RealTypeOK'
  BY <1>28, BoundAssumption DEF Disconnect, Fault, realVars, queues, exchange, rows, events, pass,
         process, RealTypeOK, Fills, MarketSig, Places, Shares, Idle
<1>29. ASSUME Reconnect
      PROVE  RealTypeOK'
  BY <1>29, BoundAssumption, <1>00 DEF Reconnect, ToReconcile, realVars, queues, exchange, rows, events,
         pass, process, RealTypeOK, Fills, MarketSig, Places, Shares, Idle
<1>30. ASSUME Crash
      PROVE  RealTypeOK'
  <2>1. \A q \in Pos : ~LockFree(q) => active[q].sig \in MarketSig
    BY AbsentAssumption DEF LockFree, RealTypeOK, Idle
  <2>2. {<<active[q].sig, q>> : q \in {r \in Pos : ~LockFree(r)}} \subseteq MarketSig \X Pos
    BY <2>1
  <2>3. orders' \subseteq MarketSig \X Pos
    BY <1>30, <2>2 DEF Crash, RealTypeOK
  <2>4. active' \in [Pos -> {Idle}]
    BY <1>30 DEF Crash
  <2> QED
    BY <1>30, <2>3, <2>4 DEF Crash, Fault, rows, exchange, RealTypeOK, Fills, MarketSig, Places, Shares, Idle
<1>31. ASSUME Restart
      PROVE  RealTypeOK'
  BY <1>31, BoundAssumption, <1>00 DEF Restart, ToReconcile, realVars, queues, exchange, rows, events,
         pass, process, RealTypeOK, Fills, MarketSig, Places, Shares, Idle
<1>32. ASSUME Serve
      PROVE  RealTypeOK'
  BY <1>32, BoundAssumption, <1>0 DEF Serve, Fault, Needed, realVars, queues, exchange, rows, events,
         pass, process, RealTypeOK, Fills, MarketSig, Places, Shares, Idle
<1>33. CASE UNCHANGED allVars
  BY <1>33, BoundAssumption DEF allVars, realVars, queues, exchange, rows, events, pass, process,
         RealTypeOK, Fills, MarketSig, Places, Shares, Idle
<1> QED
  BY <1>1, <1>2, <1>3, <1>4, <1>5, <1>6, <1>7, <1>8, <1>9, <1>10,
     <1>11, <1>12, <1>13, <1>14, <1>15, <1>16, <1>17, <1>18, <1>19,
     <1>20, <1>21, <1>22, <1>23, <1>24, <1>25, <1>26, <1>27, <1>28,
     <1>29, <1>30, <1>31, <1>32, <1>33
     DEF RealNext, Produce, Execute, Exchange, Reconcile

\* Between the claim and the post an order belongs to one executor; only its
\* claim, which needs a signal that was never claimed, leads to a post.
LEMMA PostedKept ==
    ASSUME RealTypeOK, TypeOK, PostedOnce, PostedWhenClaimed,
           [RealNext]_allVars, [Next]_vars
    PROVE  PostedOnce' /\ PostedWhenClaimed'
<1>0. \A s \in Sig : execStatus[s] # "none" =>
        execStatus'[s] # "none" /\ execPosition'[s] = execPosition[s]
  BY ExecutionStays
<1>1. ASSUME NEW s \in Sig, NEW p \in Pos, Reserve(s, p)
      PROVE  PostedOnce' /\ PostedWhenClaimed'
  BY <1>1, <1>0 DEF Reserve, realVars, queues, exchange, rows, events, pass, process,
         RealTypeOK, Fills, MarketSig, Places, Shares, Idle, PostedOnce,
         PostedWhenClaimed
<1>2. ASSUME NEW s \in Sig, NEW p \in Pos, SendEntry(s, p)
      PROVE  PostedOnce' /\ PostedWhenClaimed'
  BY <1>2, <1>0 DEF SendEntry, Queue, realVars, queues, exchange, rows, events, pass,
         process, RealTypeOK, Fills, MarketSig, Places, Shares, Idle,
         PostedOnce, PostedWhenClaimed
<1>3. ASSUME NEW s \in Sig, NEW p \in Pos, SendExit(s, p)
      PROVE  PostedOnce' /\ PostedWhenClaimed'
  BY <1>3, <1>0 DEF SendExit, Queue, realVars, queues, exchange, rows, events, pass,
         process, RealTypeOK, Fills, MarketSig, Places, Shares, Idle,
         PostedOnce, PostedWhenClaimed
<1>4. ASSUME NEW p \in Pos, CancelStuck(p)
      PROVE  PostedOnce' /\ PostedWhenClaimed'
  BY <1>4, <1>0 DEF CancelStuck, realVars, queues, exchange, rows, events, pass,
         process, RealTypeOK, Fills, MarketSig, Places, Shares, Idle,
         PostedOnce, PostedWhenClaimed
<1>5. ASSUME NEW p \in Pos, FailStuck(p)
      PROVE  PostedOnce' /\ PostedWhenClaimed'
  BY <1>5, <1>0 DEF FailStuck, realVars, queues, exchange, rows, events, pass,
         process, RealTypeOK, Fills, MarketSig, Places, Shares, Idle,
         PostedOnce, PostedWhenClaimed
<1>6. ASSUME NEW p \in Pos, StartExit(p)
      PROVE  PostedOnce' /\ PostedWhenClaimed'
  BY <1>6, <1>0 DEF StartExit, Step, OnlyPlace, realVars, queues, exchange, rows,
         events, pass, process, RealTypeOK, Fills, MarketSig, Places,
         Shares, Idle, PostedOnce, PostedWhenClaimed
<1>7. ASSUME NEW p \in Pos, Claim(p)
      PROVE  PostedOnce' /\ PostedWhenClaimed'
  <2> DEFINE s == active[p].sig
  <2>1. s \in MarketSig /\ s \in Sig
    BY <1>7, SigIn DEF Claim, Step
  <2>2. execStatus[s] = "none" /\ execStatus'[s] = "placing" /\ execPosition'[s] = p
    BY <1>7, <2>1 DEF Claim, ClaimBuy, ClaimSell, InsertExecution, TypeOK
  <2>3. posted' = posted /\ posted[s] = 0
    BY <1>7, <2>1, <2>2 DEF Claim, OnlyPlace, RealTypeOK, PostedOnce, PostedWhenClaimed
  <2>4. active' = [active EXCEPT ![p].at = "post"]
    BY <1>7 DEF Claim, Step
  <2>5. ASSUME NEW q \in Pos, active'[q].at = "post"
        PROVE  /\ posted'[active'[q].sig] = 0 /\ execStatus'[active'[q].sig] # "none"
               /\ execPosition'[active'[q].sig] = q
    <3>1. CASE q = p
      <4>1. active'[q].sig = s
        BY <2>4, <3>1 DEF RealTypeOK, Idle
      <4> QED
        BY <2>2, <2>3, <3>1, <4>1
    <3>2. CASE q # p
      <4>1. active'[q] = active[q]
        BY <2>4, <3>2 DEF RealTypeOK
      <4>2. active[q].sig \in Sig
        BY <2>5, <4>1, SigIn
      <4> QED
        BY <1>0, <2>3, <2>5, <4>1, <4>2 DEF PostedWhenClaimed
    <3> QED
      BY <3>1, <3>2
  <2> QED
    BY <1>0, <2>3, <2>5 DEF PostedOnce, PostedWhenClaimed
<1>8. ASSUME NEW p \in Pos, RefuseEntry(p)
      PROVE  PostedOnce' /\ PostedWhenClaimed'
  BY <1>8, <1>0 DEF RefuseEntry, Step, realVars, queues, exchange, rows, events, pass,
         process, RealTypeOK, Fills, MarketSig, Places, Shares, Idle,
         PostedOnce, PostedWhenClaimed
<1>9. ASSUME NEW p \in Pos, DropExit(p)
      PROVE  PostedOnce' /\ PostedWhenClaimed'
  BY <1>9, <1>0 DEF DropExit, Step, OnlyPlace, realVars, queues, exchange, rows,
         events, pass, process, RealTypeOK, Fills, MarketSig, Places,
         Shares, Idle, PostedOnce, PostedWhenClaimed
<1>10. ASSUME NEW p \in Pos, Resume(p)
      PROVE  PostedOnce' /\ PostedWhenClaimed'
  BY <1>10, <1>0 DEF Resume, Step, Book, realVars, queues, exchange, rows, events,
         pass, process, RealTypeOK, Fills, MarketSig, Places, Shares, Idle,
         PostedOnce, PostedWhenClaimed
<1>11. ASSUME NEW p \in Pos, FailEarly(p)
      PROVE  PostedOnce' /\ PostedWhenClaimed'
  BY <1>11, <1>0 DEF FailEarly, Step, Settle, realVars, queues, exchange, rows, events,
         pass, process, RealTypeOK, Fills, MarketSig, Places, Shares, Idle,
         PostedOnce, PostedWhenClaimed
<1>12. ASSUME NEW p \in Pos, Post(p)
      PROVE  PostedOnce' /\ PostedWhenClaimed'
  <2>1. active[p].sig \in MarketSig /\ active[p].sig \in Sig
    BY <1>12, SigIn DEF Post, Step
  <2> QED
    BY <1>12, <2>1, <1>0 DEF Post, Step, realVars, queues, exchange, rows, events, pass,
         process, RealTypeOK, Fills, MarketSig, Places, Shares, Idle,
         PostedOnce, PostedWhenClaimed
<1>13. ASSUME NEW p \in Pos, PostFails(p)
      PROVE  PostedOnce' /\ PostedWhenClaimed'
  BY <1>13, <1>0 DEF PostFails, Step, Settle, Fault, realVars, queues, exchange, rows,
         events, pass, process, RealTypeOK, Fills, MarketSig, Places,
         Shares, Idle, PostedOnce, PostedWhenClaimed
<1>14. ASSUME NEW p \in Pos, Answer(p)
      PROVE  PostedOnce' /\ PostedWhenClaimed'
  BY <1>14, <1>0 DEF Answer, realVars, queues, exchange, rows, events, pass, process,
         RealTypeOK, Fills, MarketSig, Places, Shares, Idle, PostedOnce,
         PostedWhenClaimed
<1>15. ASSUME NEW p \in Pos, RecordId(p)
      PROVE  PostedOnce' /\ PostedWhenClaimed'
  BY <1>15, <1>0 DEF RecordId, Step, Fault, realVars, queues, exchange, rows, events,
         pass, process, RealTypeOK, Fills, MarketSig, Places, Shares, Idle,
         PostedOnce, PostedWhenClaimed
<1>16. ASSUME NEW p \in Pos, Parse(p)
      PROVE  PostedOnce' /\ PostedWhenClaimed'
  BY <1>16, <1>0 DEF Parse, Step, Settle, realVars, queues, exchange, rows, events,
         pass, process, RealTypeOK, Fills, MarketSig, Places, Shares, Idle,
         PostedOnce, PostedWhenClaimed
<1>17. ASSUME NEW p \in Pos, Leave(p)
      PROVE  PostedOnce' /\ PostedWhenClaimed'
  BY <1>17, <1>0 DEF Leave, realVars, queues, exchange, rows, events, pass, process,
         RealTypeOK, Fills, MarketSig, Places, Shares, Idle, PostedOnce,
         PostedWhenClaimed
<1>18. ASSUME NEW s \in Sig, NEW p \in Pos, Take(s, p)
      PROVE  PostedOnce' /\ PostedWhenClaimed'
  BY <1>18, <1>0 DEF Take, realVars, queues, exchange, rows, events, pass, process,
         RealTypeOK, Fills, MarketSig, Places, Shares, Idle, PostedOnce,
         PostedWhenClaimed
<1>19. ASSUME NEW s \in Sig, GiveUp(s)
      PROVE  PostedOnce' /\ PostedWhenClaimed'
  BY <1>19, <1>0 DEF GiveUp, realVars, queues, exchange, rows, events, pass, process,
         RealTypeOK, Fills, MarketSig, Places, Shares, Idle, PostedOnce,
         PostedWhenClaimed
<1>20. ASSUME NEW s \in MarketSig, Kill(s)
      PROVE  PostedOnce' /\ PostedWhenClaimed'
  BY <1>20, <1>0 DEF Kill, Tell, realVars, queues, exchange, rows, events, pass,
         process, RealTypeOK, Fills, MarketSig, Places, Shares, Idle,
         PostedOnce, PostedWhenClaimed
<1>21. ASSUME NEW s \in MarketSig, NEW n \in 1 .. MaxQty, Match(s, n)
      PROVE  PostedOnce' /\ PostedWhenClaimed'
  BY <1>21, <1>0 DEF Match, Tell, realVars, queues, exchange, rows, events, pass,
         process, RealTypeOK, Fills, MarketSig, Places, Shares, Idle,
         PostedOnce, PostedWhenClaimed
<1>22. ASSUME NEW r \in results, HandleResult(r)
      PROVE  PostedOnce' /\ PostedWhenClaimed'
  BY <1>22, <1>0 DEF HandleResult, Book, Fault, realVars, queues, exchange, rows,
         events, pass, process, RealTypeOK, Fills, MarketSig, Places,
         Shares, Idle, PostedOnce, PostedWhenClaimed
<1>23. ASSUME NEW e \in channel, Receive(e)
      PROVE  PostedOnce' /\ PostedWhenClaimed'
  BY <1>23, <1>0 DEF Receive, realVars, queues, exchange, rows, events, pass, process,
         RealTypeOK, Fills, MarketSig, Places, Shares, Idle, PostedOnce,
         PostedWhenClaimed
<1>24. ASSUME NEW e \in handling, Apply(e)
      PROVE  PostedOnce' /\ PostedWhenClaimed'
  BY <1>24, <1>0 DEF Apply, Book, realVars, queues, exchange, rows, events, pass,
         process, RealTypeOK, Fills, MarketSig, Places, Shares, Idle,
         PostedOnce, PostedWhenClaimed
<1>25. ASSUME NEW x \in listed, LookUp(x)
      PROVE  PostedOnce' /\ PostedWhenClaimed'
  BY <1>25, <1>0 DEF LookUp, realVars, queues, exchange, rows, events, pass, process,
         RealTypeOK, Fills, MarketSig, Places, Shares, Idle, PostedOnce,
         PostedWhenClaimed
<1>26. ASSUME NEW f \in found, BookFound(f)
      PROVE  PostedOnce' /\ PostedWhenClaimed'
  BY <1>26, <1>0 DEF BookFound, Book, realVars, queues, exchange, rows, events, pass,
         process, RealTypeOK, Fills, MarketSig, Places, Shares, Idle,
         PostedOnce, PostedWhenClaimed
<1>27. ASSUME Sync
      PROVE  PostedOnce' /\ PostedWhenClaimed'
  BY <1>27, <1>0 DEF Sync, realVars, queues, exchange, rows, events, pass, process,
         RealTypeOK, Fills, MarketSig, Places, Shares, Idle, PostedOnce,
         PostedWhenClaimed
<1>28. ASSUME Disconnect
      PROVE  PostedOnce' /\ PostedWhenClaimed'
  BY <1>28, <1>0 DEF Disconnect, Fault, realVars, queues, exchange, rows, events, pass,
         process, RealTypeOK, Fills, MarketSig, Places, Shares, Idle,
         PostedOnce, PostedWhenClaimed
<1>29. ASSUME Reconnect
      PROVE  PostedOnce' /\ PostedWhenClaimed'
  BY <1>29, <1>0 DEF Reconnect, realVars, queues, exchange, rows, events, pass,
         process, RealTypeOK, Fills, MarketSig, Places, Shares, Idle,
         PostedOnce, PostedWhenClaimed
<1>30. ASSUME Crash
      PROVE  PostedOnce' /\ PostedWhenClaimed'
  BY <1>30, <1>0 DEF Crash, Fault, realVars, queues, exchange, rows, events, pass,
         process, RealTypeOK, Fills, MarketSig, Places, Shares, Idle,
         PostedOnce, PostedWhenClaimed
<1>31. ASSUME Restart
      PROVE  PostedOnce' /\ PostedWhenClaimed'
  BY <1>31, <1>0 DEF Restart, realVars, queues, exchange, rows, events, pass, process,
         RealTypeOK, Fills, MarketSig, Places, Shares, Idle, PostedOnce,
         PostedWhenClaimed
<1>32. ASSUME Serve
      PROVE  PostedOnce' /\ PostedWhenClaimed'
  BY <1>32, <1>0 DEF Serve, Fault, realVars, queues, exchange, rows, events, pass,
         process, RealTypeOK, Fills, MarketSig, Places, Shares, Idle,
         PostedOnce, PostedWhenClaimed
<1>33. CASE UNCHANGED allVars
  BY <1>33, <1>0 DEF allVars, realVars, queues, exchange, rows, events, pass, process,
         RealTypeOK, Fills, MarketSig, Places, Shares, Idle, PostedOnce,
         PostedWhenClaimed
<1> QED
  BY <1>1, <1>2, <1>3, <1>4, <1>5, <1>6, <1>7, <1>8, <1>9, <1>10,
     <1>11, <1>12, <1>13, <1>14, <1>15, <1>16, <1>17, <1>18, <1>19,
     <1>20, <1>21, <1>22, <1>23, <1>24, <1>25, <1>26, <1>27, <1>28,
     <1>29, <1>30, <1>31, <1>32, <1>33
     DEF RealNext, Produce, Execute, Exchange, Reconcile

\* A fill on its way to a row comes from a trade, and stays one.
LEMMA TradesKept ==
    ASSUME RealTypeOK, TypeOK, BookedFromTrade, FillsFromTrades,
           [RealNext]_allVars
    PROVE  BookedFromTrade' /\ FillsFromTrades'
<1>1. ASSUME NEW s \in Sig, NEW p \in Pos, Reserve(s, p)
      PROVE  BookedFromTrade' /\ FillsFromTrades'
  BY <1>1 DEF Reserve, ReserveOpen, CommitReservation, realVars, queues,
         exchange, rows, events, pass, process, vars, execVars, RealTypeOK,
         Idle, Traded, FillsFromTrades, BookedFromTrade
<1>2. ASSUME NEW s \in Sig, NEW p \in Pos, SendEntry(s, p)
      PROVE  BookedFromTrade' /\ FillsFromTrades'
  BY <1>2 DEF SendEntry, Queue, realVars, queues, exchange, rows, events, pass,
         process, vars, execVars, RealTypeOK, Idle, Traded,
         FillsFromTrades, BookedFromTrade
<1>3. ASSUME NEW s \in Sig, NEW p \in Pos, SendExit(s, p)
      PROVE  BookedFromTrade' /\ FillsFromTrades'
  BY <1>3 DEF SendExit, Queue, realVars, queues, exchange, rows, events, pass,
         process, vars, execVars, RealTypeOK, Idle, Traded,
         FillsFromTrades, BookedFromTrade
<1>4. ASSUME NEW p \in Pos, CancelStuck(p)
      PROVE  BookedFromTrade' /\ FillsFromTrades'
  BY <1>4 DEF CancelStuck, FailActiveForPosition, realVars, queues, exchange,
         rows, events, pass, process, vars, execVars, RealTypeOK, Idle,
         Traded, FillsFromTrades, BookedFromTrade
<1>5. ASSUME NEW p \in Pos, FailStuck(p)
      PROVE  BookedFromTrade' /\ FillsFromTrades'
  BY <1>5 DEF FailStuck, MarkFailed, MoveStatus, realVars, queues, exchange,
         rows, events, pass, process, vars, execVars, RealTypeOK, Idle,
         Traded, FillsFromTrades, BookedFromTrade
<1>6. ASSUME NEW p \in Pos, StartExit(p)
      PROVE  BookedFromTrade' /\ FillsFromTrades'
  BY <1>6 DEF StartExit, Step, OnlyPlace, BeginClose, MoveStatus, realVars,
         queues, exchange, rows, events, pass, process, vars, execVars,
         RealTypeOK, Idle, Traded, FillsFromTrades, BookedFromTrade
<1>7. ASSUME NEW p \in Pos, Claim(p)
      PROVE  BookedFromTrade' /\ FillsFromTrades'
  BY <1>7 DEF Claim, Step, OnlyPlace, ClaimBuy, ClaimSell, InsertExecution,
         realVars, queues, exchange, rows, events, pass, process, vars,
         execVars, RealTypeOK, Idle, Traded, FillsFromTrades,
         BookedFromTrade
<1>8. ASSUME NEW p \in Pos, RefuseEntry(p)
      PROVE  BookedFromTrade' /\ FillsFromTrades'
  BY <1>8 DEF RefuseEntry, Step, Result, TryRelease, Release, realVars, queues,
         exchange, rows, events, pass, process, vars, execVars, RealTypeOK,
         Idle, Traded, FillsFromTrades, BookedFromTrade
<1>9. ASSUME NEW p \in Pos, DropExit(p)
      PROVE  BookedFromTrade' /\ FillsFromTrades'
  BY <1>9 DEF DropExit, Step, OnlyPlace, realVars, queues, exchange, rows,
         events, pass, process, vars, execVars, RealTypeOK, Idle, Traded,
         FillsFromTrades, BookedFromTrade
<1>10. ASSUME NEW p \in Pos, Resume(p)
      PROVE  BookedFromTrade' /\ FillsFromTrades'
  <2> DEFINE s == active[p].sig
             n == Found(s, s \in orderId)
  <2>1. s \in MarketSig /\ n \in Shares
    BY <1>10, SigIn, FoundType DEF Resume, Step
  <2>2. n > 0 => Traded(s)
    BY <2>1, FoundTraded
  <2>3. (n # 0 /\ Finalize(s, n)) \/ UNCHANGED fillQuantity
    BY <1>10 DEF Resume, Book, vars, execVars
  <2>4. \A t \in Sig : fillQuantity'[t] = fillQuantity[t] \/ (t = s /\ n > 0)
    BY <2>1, <2>3, BookFills
  <2>5. matched' = matched
    BY <1>10 DEF Resume, exchange
  <2>6. BookedFromTrade'
    BY <2>2, <2>4, <2>5 DEF BookedFromTrade, Traded, MarketSig
  <2> HIDE DEF s, n
  <2> QED
    BY <1>10, <2>1, <2>2, <2>4, <2>5, <2>6 DEF Resume, Step, Result, queues, events, pass, RealTypeOK, Fills,
         Idle, Shares, MarketSig, FillsFromTrades, BookedFromTrade, Traded
<1>11. ASSUME NEW p \in Pos, FailEarly(p)
      PROVE  BookedFromTrade' /\ FillsFromTrades'
  BY <1>11 DEF FailEarly, Step, Settle, Result, realVars, queues, exchange, rows,
         events, pass, process, vars, execVars, RealTypeOK, Idle, Traded,
         FillsFromTrades, BookedFromTrade
<1>12. ASSUME NEW p \in Pos, Post(p)
      PROVE  BookedFromTrade' /\ FillsFromTrades'
  BY <1>12 DEF Post, Step, realVars, queues, exchange, rows, events, pass,
         process, vars, execVars, RealTypeOK, Idle, Traded,
         FillsFromTrades, BookedFromTrade
<1>13. ASSUME NEW p \in Pos, PostFails(p)
      PROVE  BookedFromTrade' /\ FillsFromTrades'
  BY <1>13 DEF PostFails, Step, Settle, Result, realVars, queues, exchange, rows,
         events, pass, process, vars, execVars, RealTypeOK, Idle, Traded,
         FillsFromTrades, BookedFromTrade
<1>14. ASSUME NEW p \in Pos, Answer(p)
      PROVE  BookedFromTrade' /\ FillsFromTrades'
  <2>1. active[p].sig \in MarketSig /\ active[p].sig \in Sig
    BY <1>14, SigIn DEF Answer
  <2>2. matched[active[p].sig] > 0 => Traded(active[p].sig)
    BY <2>1 DEF Traded
  <2>3. UNCHANGED <<results, channel, handling, found, matched, fillQuantity>>
    BY <1>14 DEF Answer, queues, events, pass, exchange, vars, execVars
  <2> QED
    BY <1>14, <2>1, <2>2, <2>3 DEF Answer, RealTypeOK, FillsFromTrades, BookedFromTrade, Traded
<1>15. ASSUME NEW p \in Pos, RecordId(p)
      PROVE  BookedFromTrade' /\ FillsFromTrades'
  BY <1>15 DEF RecordId, Step, realVars, queues, exchange, rows, events, pass,
         process, vars, execVars, RealTypeOK, Idle, Traded,
         FillsFromTrades, BookedFromTrade
<1>16. ASSUME NEW p \in Pos, Parse(p)
      PROVE  BookedFromTrade' /\ FillsFromTrades'
  BY <1>16 DEF Parse, Step, Settle, Result, realVars, queues, exchange, rows,
         events, pass, process, vars, execVars, RealTypeOK, Idle, Traded,
         FillsFromTrades, BookedFromTrade
<1>17. ASSUME NEW p \in Pos, Leave(p)
      PROVE  BookedFromTrade' /\ FillsFromTrades'
  BY <1>17 DEF Leave, realVars, queues, exchange, rows, events, pass, process,
         vars, execVars, RealTypeOK, Idle, Traded, FillsFromTrades,
         BookedFromTrade
<1>18. ASSUME NEW s \in Sig, NEW p \in Pos, Take(s, p)
      PROVE  BookedFromTrade' /\ FillsFromTrades'
  BY <1>18 DEF Take, realVars, queues, exchange, rows, events, pass, process,
         vars, execVars, RealTypeOK, Idle, Traded, FillsFromTrades,
         BookedFromTrade
<1>19. ASSUME NEW s \in Sig, GiveUp(s)
      PROVE  BookedFromTrade' /\ FillsFromTrades'
  BY <1>19 DEF GiveUp, Release, realVars, queues, exchange, rows, events, pass,
         process, vars, execVars, RealTypeOK, Idle, Traded,
         FillsFromTrades, BookedFromTrade
<1>20. ASSUME NEW s \in MarketSig, Kill(s)
      PROVE  BookedFromTrade' /\ FillsFromTrades'
  BY <1>20 DEF Kill, Tell, Result, realVars, queues, exchange, rows, events,
         pass, process, vars, execVars, RealTypeOK, Idle, Traded,
         FillsFromTrades, BookedFromTrade
<1>21. ASSUME NEW s \in MarketSig, NEW n \in 1 .. MaxQty, Match(s, n)
      PROVE  BookedFromTrade' /\ FillsFromTrades'
  <2>1. matched \in [Sig -> Nat] /\ n \in Nat /\ n > 0
    BY BoundAssumption DEF RealTypeOK, Shares
  <2>2. \A t \in MarketSig : matched[t] > 0 => matched'[t] > 0
    BY <1>21, <2>1 DEF Match, MarketSig
  <2>3. s \in MarketSig => Traded(s)'
    BY <1>21, <2>1 DEF Match, Traded, MarketSig
  <2>4. \A t : Traded(t) => Traded(t)'
    BY <2>2 DEF Traded
  <2>5. UNCHANGED <<results, active, handling, found, fillQuantity>>
    BY <1>21 DEF Match, queues, pass, vars, execVars
  <2>6. \A f \in channel' : f.qty > 0 => f \in channel \/ f.sig = s
    BY <1>21 DEF Match, Tell, Result
  <2>7. \A f \in channel' : f.qty > 0 => Traded(f.sig)'
    BY <2>3, <2>4, <2>6 DEF FillsFromTrades
  <2>8. BookedFromTrade'
    BY <2>4, <2>5 DEF BookedFromTrade
  <2> QED
    BY <2>4, <2>5, <2>7, <2>8 DEF FillsFromTrades
<1>22. ASSUME NEW r \in results, HandleResult(r)
      PROVE  BookedFromTrade' /\ FillsFromTrades'
  <2> DEFINE s == r.sig
             n == r.qty
  <2>1. s \in MarketSig /\ n \in Shares
    BY DEF RealTypeOK, Fills
  <2>2. n > 0 => Traded(s)
    BY DEF FillsFromTrades
  <2>3. Finalize(s, n)
    BY <1>22 DEF HandleResult, Book
  <2>4. \A t \in Sig : fillQuantity'[t] = fillQuantity[t] \/ (t = s /\ n > 0)
    BY <2>1, <2>3, BookFills
  <2>5. matched' = matched
    BY <1>22 DEF HandleResult, exchange
  <2>6. BookedFromTrade'
    BY <2>2, <2>4, <2>5 DEF BookedFromTrade, Traded, MarketSig
  <2> HIDE DEF s, n
  <2> QED
    BY <1>22, <2>1, <2>2, <2>4, <2>5, <2>6 DEF HandleResult, queues, events, pass, RealTypeOK, Fills, Idle,
         Shares, MarketSig, FillsFromTrades, BookedFromTrade, Traded
<1>23. ASSUME NEW e \in channel, Receive(e)
      PROVE  BookedFromTrade' /\ FillsFromTrades'
  BY <1>23 DEF Receive, realVars, queues, exchange, rows, events, pass, process,
         vars, execVars, RealTypeOK, Idle, Traded, FillsFromTrades,
         BookedFromTrade
<1>24. ASSUME NEW e \in handling, Apply(e)
      PROVE  BookedFromTrade' /\ FillsFromTrades'
  <2> DEFINE s == e.sig
             n == e.qty
  <2>1. s \in MarketSig /\ n \in Shares
    BY DEF RealTypeOK, Fills
  <2>2. n > 0 => Traded(s)
    BY DEF FillsFromTrades
  <2>3. Finalize(s, n) \/ UNCHANGED fillQuantity
    BY <1>24 DEF Apply, Book, FinalizeFailed
  <2>4. \A t \in Sig : fillQuantity'[t] = fillQuantity[t] \/ (t = s /\ n > 0)
    BY <2>1, <2>3, BookFills
  <2>5. matched' = matched
    BY <1>24 DEF Apply, exchange
  <2>6. BookedFromTrade'
    BY <2>2, <2>4, <2>5 DEF BookedFromTrade, Traded, MarketSig
  <2> HIDE DEF s, n
  <2> QED
    BY <1>24, <2>1, <2>2, <2>4, <2>5, <2>6 DEF Apply, queues, events, pass, RealTypeOK, Fills, Idle, Shares,
         MarketSig, FillsFromTrades, BookedFromTrade, Traded
<1>25. ASSUME NEW x \in listed, LookUp(x)
      PROVE  BookedFromTrade' /\ FillsFromTrades'
  <2>1. x.sig \in MarketSig
    BY DEF RealTypeOK
  <2>2. Found(x.sig, x.row # "anonymous") > 0 => Traded(x.sig)
    BY <2>1, FoundTraded
  <2>3. matched' = matched /\ fillQuantity' = fillQuantity
    BY <1>25 DEF LookUp, exchange, vars, execVars
  <2> QED
    BY <1>25, <2>2, <2>3 DEF LookUp, Result, realVars, queues, exchange, rows, events, pass, process,
         FillsFromTrades, BookedFromTrade, Traded
<1>26. ASSUME NEW f \in found, BookFound(f)
      PROVE  BookedFromTrade' /\ FillsFromTrades'
  <2> DEFINE s == f.sig
             n == f.qty
  <2>1. s \in MarketSig /\ n \in Shares
    BY DEF RealTypeOK, Fills
  <2>2. n > 0 => Traded(s)
    BY DEF FillsFromTrades
  <2>3. Finalize(s, n)
    BY <1>26 DEF BookFound, Book
  <2>4. \A t \in Sig : fillQuantity'[t] = fillQuantity[t] \/ (t = s /\ n > 0)
    BY <2>1, <2>3, BookFills
  <2>5. matched' = matched
    BY <1>26 DEF BookFound, exchange
  <2>6. BookedFromTrade'
    BY <2>2, <2>4, <2>5 DEF BookedFromTrade, Traded, MarketSig
  <2> HIDE DEF s, n
  <2> QED
    BY <1>26, <2>1, <2>2, <2>4, <2>5, <2>6 DEF BookFound, queues, events, pass, RealTypeOK, Fills, Idle, Shares,
         MarketSig, FillsFromTrades, BookedFromTrade, Traded
<1>27. ASSUME Sync
      PROVE  BookedFromTrade' /\ FillsFromTrades'
  BY <1>27 DEF Sync, realVars, queues, exchange, rows, events, pass, process,
         vars, execVars, RealTypeOK, Idle, Traded, FillsFromTrades,
         BookedFromTrade
<1>28. ASSUME Disconnect
      PROVE  BookedFromTrade' /\ FillsFromTrades'
  BY <1>28 DEF Disconnect, realVars, queues, exchange, rows, events, pass,
         process, vars, execVars, RealTypeOK, Idle, Traded,
         FillsFromTrades, BookedFromTrade
<1>29. ASSUME Reconnect
      PROVE  BookedFromTrade' /\ FillsFromTrades'
  BY <1>29 DEF Reconnect, realVars, queues, exchange, rows, events, pass,
         process, vars, execVars, RealTypeOK, Idle, Traded,
         FillsFromTrades, BookedFromTrade
<1>30. ASSUME Crash
      PROVE  BookedFromTrade' /\ FillsFromTrades'
  BY <1>30 DEF Crash, realVars, queues, exchange, rows, events, pass, process,
         vars, execVars, RealTypeOK, Idle, Traded, FillsFromTrades,
         BookedFromTrade
<1>31. ASSUME Restart
      PROVE  BookedFromTrade' /\ FillsFromTrades'
  BY <1>31 DEF Restart, realVars, queues, exchange, rows, events, pass, process,
         vars, execVars, RealTypeOK, Idle, Traded, FillsFromTrades,
         BookedFromTrade
<1>32. ASSUME Serve
      PROVE  BookedFromTrade' /\ FillsFromTrades'
  BY <1>32 DEF Serve, realVars, queues, exchange, rows, events, pass, process,
         vars, execVars, RealTypeOK, Idle, Traded, FillsFromTrades,
         BookedFromTrade
<1>33. CASE UNCHANGED allVars
  BY <1>33 DEF allVars, realVars, queues, exchange, rows, events, pass, process,
         vars, execVars, RealTypeOK, Idle, Traded, FillsFromTrades,
         BookedFromTrade
<1> QED
  BY <1>1, <1>2, <1>3, <1>4, <1>5, <1>6, <1>7, <1>8, <1>9, <1>10,
     <1>11, <1>12, <1>13, <1>14, <1>15, <1>16, <1>17, <1>18, <1>19,
     <1>20, <1>21, <1>22, <1>23, <1>24, <1>25, <1>26, <1>27, <1>28,
     <1>29, <1>30, <1>31, <1>32, <1>33
     DEF RealNext, Produce, Execute, Exchange, Reconcile

\* The system starts within the invariant.
LEMMA RealInitInv == RealInit => RealInv
<1> SUFFICES ASSUME RealInit PROVE RealInv
  OBVIOUS
<1>1. IInv
  BY InitInv DEF RealInit
<1>2. RealTypeOK
  BY BoundAssumption DEF RealInit, NobodyActive, RealTypeOK, Fills, Shares
<1>3. PostedOnce /\ PostedWhenClaimed
  BY DEF RealInit, NobodyActive, PostedOnce, PostedWhenClaimed, Idle
<1>4. BookedFromTrade /\ FillsFromTrades /\ FillsBounded
  BY BoundAssumption DEF RealInit, Init, NobodyActive, BookedFromTrade,
     FillsFromTrades, FillsBounded, Shares, Idle, MarketSig
<1> QED
  BY <1>1, <1>2, <1>3, <1>4 DEF RealInv

\* No step of an executor, a handler, a pass or the exchange leaves it.
LEMMA RealStepInv == RealInv /\ [RealNext]_allVars => RealInv'
<1> SUFFICES ASSUME RealInv, [RealNext]_allVars PROVE RealInv'
  OBVIOUS
<1>1. RealTypeOK /\ IInv /\ TypeOK /\ ExecutionHasPosition
  BY DEF RealInv, IInv, RowsAgree
<1>2. [Next]_vars
  BY <1>1, LedgerStep
<1>3. IInv'
  BY <1>1, <1>2, StepInv
<1>4. FillsBounded'
  BY <1>1, <1>2, BoundKept DEF RealInv
<1>5. RealTypeOK'
  BY <1>1, <1>4, RealTypeKept
<1>6. PostedOnce' /\ PostedWhenClaimed'
  BY <1>1, <1>2, PostedKept DEF RealInv
<1>7. BookedFromTrade' /\ FillsFromTrades'
  BY <1>1, TradesKept DEF RealInv
<1> QED
  BY <1>3, <1>4, <1>5, <1>6, <1>7 DEF RealInv

\* The real orders keep the ledger's invariant and their own.
THEOREM RealInvariantHolds == RealSpec => []RealInv
<1>1. RealInit => RealInv
  BY RealInitInv
<1>2. RealInv /\ [RealNext]_allVars => RealInv'
  BY RealStepInv
<1> QED
  BY <1>1, <1>2, PTL DEF RealSpec

\* However often a job is delivered, a post left unanswered or an order found
\* in flight: it is posted once.
THEOREM RealOrderPostedOnce == RealSpec => []PostedOnce
BY RealInvariantHolds, PTL DEF RealInv

\* No fill is booked for which the exchange matched nothing.
THEOREM RealFillsAreTrades == RealSpec => []BookedFromTrade
BY RealInvariantHolds, PTL DEF RealInv

\* The executor, the channel and the passes respect the transactions of the
\* ledger, so that everything proved of the ledger holds for real trading.
THEOREM RealOrdersUseLedger == RealSpec => LedgerSpec
<1>1. RealInit => Init
  BY DEF RealInit
<1>2. RealInv /\ [RealNext]_allVars => [Next]_vars
  BY LedgerStep DEF RealInv
<1> QED
  BY <1>1, <1>2, RealInvariantHolds, PTL DEF RealSpec, LedgerSpec, Spec
=============================================================================
