------------------------ MODULE OrderPipelineProofs ------------------------
(***************************************************************************)
(* Proofs about OrderPipeline, for any positions, signals, bounds and      *)
(* number of faults: the actors of the pipeline use the ledger as          *)
(* PositionLedger describes, place each order once, and neither create nor *)
(* lose shares.  They rest on the invariant of PositionLedgerProofs.       *)
(***************************************************************************)
EXTENDS OrderPipeline, PositionLedgerProofs, FiniteSetTheorems, TLAPS

(***************************************************************************)
(*                    The pipeline and the ledger                          *)
(***************************************************************************)

\* What a step of the pipeline does to the ledger: a step without a fill ...
NoFill ==
    UNCHANGED vars \/ (Next /\ UNCHANGED <<quantity, fillQuantity>>)

\* ... or one fill, which for a redemption is that of a queued result.
OneFill ==
    \E s \in Sig, n \in 1 .. MaxQty :
        \/ FillBuy(s, n)
        \/ FillSell(s, n) /\ (s \in RedemptionSig => Result(s, n) \in results)

\* Either is a step of the ledger.
LEMMA FillsAreLedgerSteps ==
    ASSUME NoFill \/ OneFill
    PROVE  [Next]_vars
BY DEF NoFill, OneFill, Next, ExecutionStep

\* An executor that moves on keeps its signal, and the others stay where they are.
LEMMA StepMoves ==
    ASSUME PipelineTypeOK, NEW p \in Pos, NEW from, NEW to \in Places,
           Step(p, from, to)
    PROVE  /\ active[p].at = from /\ active'[p].at = to
           /\ active'[p].sig = active[p].sig
           /\ \A q \in Pos \ {p} : active'[q] = active[q]
           /\ active' \in [Pos -> [sig : Sig \cup {NoSig},
                                   at : Places \cup {"idle"}]]
BY DEF PipelineTypeOK, Step

\* Whoever settles an order: the result is booked in one step of the ledger.
LEMMA FinalizeStep ==
    ASSUME TypeOK, NEW s \in Sig, NEW n \in Nat, Finalize(s, n),
           s \in SellSig => n <= MaxQty,
           s \in RedemptionSig => n = 0 \/ Result(s, n) \in results
    PROVE  NoFill \/ OneFill
<1> USE BoundAssumption
<1>1. CASE FinalizeFailed(s)
  BY <1>1 DEF FinalizeFailed, NoFill, Next, ExecutionStep
<1>2. CASE n > 0 /\ RejectFill(s)
  BY <1>2 DEF RejectFill, NoFill, Next, ExecutionStep, positionVars
<1>3. CASE n > 0 /\ FillBuy(s, n)
  <2>1. fillQuantity[s] \in Nat /\ fillQuantity[s] + n <= MaxQty
    BY <1>3 DEF FillBuy, TypeOK
  <2>2. n \in 1 .. MaxQty
    BY <1>3, <2>1
  <2> QED
    BY <1>3, <2>2 DEF OneFill
<1>4. CASE n > 0 /\ FillSell(s, n)
  <2>1. n \in 1 .. MaxQty
    BY <1>4 DEF FillSell
  <2> QED
    BY <1>4, <2>1 DEF OneFill
<1> QED
  BY <1>1, <1>2, <1>3, <1>4 DEF Finalize, NoFill

\* A status update of the position is a step of the ledger, or finds nothing to
\* update.
LEMMA MoveStep ==
    ASSUME NEW p \in Pos,
           \/ BeginClose(p) \/ RevertClose(p) \/ MarkFailed(p)
           \/ MarkPendingResolution(p) \/ FailActiveForPosition(p)
           \/ EnsureFailed(p) \/ EnsureReverted(p)
    PROVE  NoFill
<1>1. ASSUME BeginClose(p) \/ RevertClose(p) \/ MarkFailed(p)
               \/ MarkPendingResolution(p)
      PROVE  NoFill
  BY <1>1 DEF BeginClose, RevertClose, MarkFailed, MarkPendingResolution,
     MoveStatus, NoFill, Next, CloseStep, execVars
<1>2. ASSUME FailActiveForPosition(p)
      PROVE  NoFill
  BY <1>2 DEF FailActiveForPosition, NoFill, Next, ExecutionStep, positionVars
<1> QED
  BY <1>1, <1>2 DEF EnsureFailed, EnsureReverted, NoFill

\* A release is a step of the ledger, or finds nothing to release.
LEMMA ReleaseStep ==
    ASSUME NEW s \in Sig, TryRelease(s) \/ Release(s)
    PROVE  NoFill
BY DEF TryRelease, Release, NoFill, Next, ReservationStep, execVars

\* A claim is a step of the ledger.
LEMMA ClaimStep ==
    ASSUME NEW s \in Sig, NEW p \in Pos,
           ClaimBuy(s, p) \/ \E n \in 1 .. MaxQty : ClaimSell(s, p, n)
    PROVE  NoFill
BY DEF ClaimBuy, ClaimSell, InsertExecution, NoFill, Next, ExecutionStep, positionVars

\* What an executor places is within the bound.
LEMMA FillBounds ==
    ASSUME PipelineTypeOK, NEW s \in Sig, NEW n \in Fills(s)
    PROVE  n \in Nat /\ (s \in SellSig => n <= MaxQty)
<1>1. requestedQty[s] \in 0 .. MaxQty /\ MaxQty \in Nat /\ MaxFill \in Nat
  BY BoundAssumption, PipelineBounds DEF PipelineTypeOK
<1> QED
  BY <1>1 DEF Fills, SellSig

\* The pipeline makes the ledger's steps, one at a time.
LEMMA PipelineLedgerStep ==
    ASSUME PipelineTypeOK, QueuesInOrder, [PipelineNext]_allVars
    PROVE  NoFill \/ OneFill
<1> USE DEF NoFill
<1>0. TypeOK
  BY DEF PipelineTypeOK
<1>1. ASSUME NEW p \in Pos, NEW s \in Sig,
             Reserve(s, p) \/ SendEntry(s, p) \/ SendExit(s, p)
      PROVE  NoFill
  BY <1>1 DEF Reserve, SendEntry, SendExit, ReserveOpen, ReserveIncrease, Next,
     ReservationStep, execVars, positionVars
<1>2. ASSUME NEW p \in Pos, NEW s \in Sig, ManualClose(s, p)
      PROVE  NoFill
  BY <1>2, MoveStep DEF ManualClose
<1>3. ASSUME NEW p \in Pos, ManualPush(p) \/ ManualPushFails(p) \/ BackendCrash(p)
      PROVE  NoFill
  BY <1>3, MoveStep DEF ManualPush, ManualPushFails, BackendCrash
<1>4. ASSUME NEW p \in Pos, active[p].at # "idle"
      PROVE  active[p].sig \in Sig \ RedemptionSig
  BY <1>4 DEF QueuesInOrder, Working, Idle
<1>5. ASSUME NEW p \in Pos, StartExit(p) \/ CheckMinimum(p)
      PROVE  NoFill
  BY <1>5, MoveStep DEF StartExit, CheckMinimum
<1>6. ASSUME NEW p \in Pos, CheckEntry(p) \/ Refuse(p) \/ Finish(p)
      PROVE  NoFill
  BY <1>6 DEF CheckEntry, Refuse, Finish
<1>7. ASSUME NEW p \in Pos, ReleaseRefused(p)
      PROVE  NoFill
  BY <1>4, <1>7, ReleaseStep DEF ReleaseRefused, Step
<1>8. ASSUME NEW p \in Pos, Claim(p)
      PROVE  NoFill
  <2>1. active[p].sig \in Sig
    BY <1>4, <1>8 DEF Claim
  <2> QED
    BY <1>8, <2>1, ClaimStep DEF Claim
<1>9. ASSUME NEW p \in Pos, Collide(p)
      PROVE  NoFill
  BY <1>9, ReleaseStep DEF Collide
<1>10. ASSUME NEW p \in Pos, Place(p) \/ PlaceUnsettled(p)
       PROVE  NoFill
  BY <1>10 DEF Place, PlaceUnsettled
<1>11. ASSUME NEW p \in Pos, PlaceUnqueued(p)
       PROVE  NoFill \/ OneFill
  <2>1. active[p].sig \in Sig \ RedemptionSig
    BY <1>4, <1>11 DEF PlaceUnqueued, Step
  <2>2. PICK n \in Fills(active[p].sig) : Finalize(active[p].sig, n)
    BY <1>11 DEF PlaceUnqueued
  <2> QED
    BY <1>0, <2>1, <2>2, FillBounds, FinalizeStep
<1>12. ASSUME NEW p \in Pos, Watch(p)
       PROVE  NoFill
  BY <1>12, MoveStep DEF Watch, ListStuck, CancelStuck, FailStuck
<1>13. ASSUME NEW p \in Pos, MarkResolved(p) \/ RevertAtStart(p) \/ CancelReverted(p)
       PROVE  NoFill
  BY <1>13, MoveStep DEF MarkResolved, RevertAtStart, CancelReverted
<1>14. ASSUME NEW p \in Pos,
              \/ ListRedeemable(p)
              \/ \E s \in Sig : TimeOutRedemption(s, p) \/ SendRedemption(s, p)
       PROVE  NoFill
  BY <1>14 DEF ListRedeemable, TimeOutRedemption, SendRedemption
<1>15. ASSUME NEW p \in Pos, NEW s \in Sig, ClaimRedemption(s, p)
       PROVE  NoFill
  <2>1. CASE ClaimSell(s, p, redeemQty[p])
    <3>1. redeemQty[p] \in 1 .. MaxQty
      BY <2>1, BoundAssumption DEF ClaimSell, PipelineTypeOK
    <3> QED
      BY <2>1, <3>1, ClaimStep
  <2>2. CASE RearmRedemption(s)
    BY <2>2 DEF RearmRedemption, Next, ExecutionStep, positionVars
  <2> QED
    BY <1>15, <2>1, <2>2 DEF ClaimRedemption
<1>16. ASSUME NEW s \in Sig, NEW p \in Pos, Take(s, p)
       PROVE  NoFill
  BY <1>16 DEF Take
<1>17. ASSUME NEW s \in Sig, GiveUp(s)
       PROVE  NoFill
  BY <1>17, ReleaseStep DEF GiveUp
<1>18. ASSUME NEW s \in Sig, FailOrphan(s)
       PROVE  NoFill \/ OneFill
  BY <1>0, <1>18, FinalizeStep, BoundAssumption DEF FailOrphan
<1>19. ASSUME NEW r \in results, HandleResult(r)
       PROVE  NoFill \/ OneFill
  <2>1. /\ r.sig \in Sig /\ r.qty \in Nat /\ Result(r.sig, r.qty) = r
        /\ Finalize(r.sig, r.qty) /\ (r.sig \in SellSig => r.qty <= MaxQty)
    BY <1>19 DEF HandleResult, PipelineTypeOK, Result, QueuesInOrder
  <2> QED
    BY <1>0, <2>1, FinalizeStep
<1>20. CASE (\E l \in Leg : MarketResolves(l)) \/ LoseJob \/ Crash \/ Restart
              \/ ListOrphans
  BY <1>20 DEF MarketResolves, LoseJob, Crash, Restart, ListOrphans
<1>21. CASE ReservationTime
  BY <1>21 DEF ReservationTime, ReservationAges, ReservationJanitor, Next,
     ReservationStep, positionVars, execVars
<1>22. CASE UNCHANGED allVars
  BY <1>22 DEF allVars
<1> QED
  BY <1>1, <1>2, <1>3, <1>5, <1>6, <1>7, <1>8, <1>9, <1>10, <1>11, <1>12,
     <1>13, <1>14, <1>15, <1>16, <1>17, <1>18, <1>19, <1>20, <1>21, <1>22
     DEF PipelineNext, Produce, Execute, Redeem

\* Claims, fills and exits keep the shares of positions and orders bounded.
LEMMA LedgerBounds ==
    ASSUME PipelineTypeOK, ExecutionHasPosition, NoFill \/ OneFill
    PROVE  /\ quantity' \in [Pos -> 0 .. MaxQty]
           /\ requestedQty' \in [Sig -> 0 .. MaxQty]
<1> USE BoundAssumption DEF PipelineTypeOK, TypeOK
<1>1. quantity' \in [Pos -> 0 .. MaxQty]
  <2>1. CASE NoFill
    BY <2>1 DEF NoFill, vars, positionVars
  <2>2. ASSUME NEW s \in Sig, NEW n \in 1 .. MaxQty, FillBuy(s, n)
        PROVE  quantity' \in [Pos -> 0 .. MaxQty]
    <3> DEFINE q == execPosition[s]
               k == IF status[q] = "open" THEN quantity[q] + n
                    ELSE fillQuantity[s] + n
    <3>1. quantity' = [quantity EXCEPT ![q] = k]
      BY <2>2 DEF FillBuy
    <3>2. q \in Pos
      BY <2>2 DEF FillBuy, AcceptsFill, ExecutionHasPosition
    <3>3. k \in 0 .. MaxQty
      BY <2>2, <3>2 DEF FillBuy
    <3> QED
      BY <3>1, <3>2, <3>3
  <2>3. ASSUME NEW s \in Sig, NEW n \in 1 .. MaxQty, FillSell(s, n)
        PROVE  quantity' \in [Pos -> 0 .. MaxQty]
    <3> DEFINE q == execPosition[s]
               left == quantity[q] - Lesser(n, quantity[q])
    <3>1. \E k \in {0, left} : quantity' = [quantity EXCEPT ![q] = k]
      BY <2>3 DEF FillSell
    <3>2. q \in Pos
      BY <2>3 DEF FillSell, AcceptsFill, ExecutionHasPosition
    <3>3. left \in 0 .. MaxQty
      BY <3>2 DEF Lesser
    <3> QED
      BY <3>1, <3>2, <3>3
  <2> QED
    BY <2>1, <2>2, <2>3 DEF OneFill
<1>2. requestedQty' \in [Sig -> 0 .. MaxQty]
  <2>1. ASSUME NEW s \in Sig, NEW p \in Pos, NEW n \in 0 .. MaxQty,
               InsertExecution(s, p, n)
        PROVE  requestedQty' \in [Sig -> 0 .. MaxQty]
    BY <2>1 DEF InsertExecution
  <2>2. CASE ReservationStep
    BY <2>2 DEF ReservationStep, ReserveOpen, ReserveIncrease, UpdateOrderSignalId,
       Release, ReservationAges, ReservationJanitor, execVars
  <2>3. CASE CloseStep
    BY <2>3 DEF CloseStep, BeginClose, RevertClose, MarkFailed,
       MarkPendingResolution, MoveStatus, execVars
  <2>4. CASE ExecutionStep
    <3>1. ASSUME NEW s \in Sig, NEW p \in Pos,
                 ClaimBuy(s, p) \/ \E n \in 1 .. MaxQty : ClaimSell(s, p, n)
          PROVE  requestedQty' \in [Sig -> 0 .. MaxQty]
      BY <2>1, <3>1 DEF ClaimBuy, ClaimSell
    <3>2. ASSUME NEW s \in Sig,
                 \/ RedemptionTimeout(s) \/ RearmRedemption(s)
                 \/ FinalizeFailed(s) \/ RejectFill(s)
                 \/ \E n \in 1 .. MaxQty : FillBuy(s, n) \/ FillSell(s, n)
          PROVE  requestedQty' = requestedQty
      BY <3>2 DEF RedemptionTimeout, RearmRedemption, FinalizeFailed, RejectFill,
         FillBuy, FillSell
    <3>3. ASSUME NEW p \in Pos, FailActiveForPosition(p)
          PROVE  requestedQty' = requestedQty
      BY <3>3 DEF FailActiveForPosition
    <3> QED
      BY <2>4, <3>1, <3>2, <3>3 DEF ExecutionStep
  <2>5. CASE UNCHANGED vars
    BY <2>5 DEF vars, execVars
  <2> QED
    BY <2>2, <2>3, <2>4, <2>5, FillsAreLedgerSteps DEF Next
<1> QED
  BY <1>1, <1>2

\* Every actor leaves values of their types in the queues, and only redemption
\* results and the fills of orders carry shares.
LEMMA PipelineTypePreserved ==
    ASSUME PipelineTypeOK, QueuesInOrder, IInv, IInv', [PipelineNext]_allVars
    PROVE  PipelineTypeOK'
<1> DEFINE Queues == orders' \subseteq Sig \X Pos
                     /\ results' \subseteq [sig : Sig, qty : Nat]
           Worker == active' \in [Pos -> [sig : Sig \cup {NoSig},
                                          at : Places \cup {"idle"}]]
                     /\ up' \in BOOLEAN
           Timed == suspects' \subseteq Sig
                    /\ watch' \in [Pos -> {"none", "listed", "cancelled", "reverted"}]
           Others == /\ manual' \in [Pos -> CloseSig \cup {NoSig}]
                     /\ redemption' \in [Pos -> {"none", "listed", "claimed"}]
                     /\ redeemQty' \in [Pos -> 0 .. MaxQty]
                     /\ resolved' \subseteq Leg
           Counts == placed' \in [Sig -> Nat] /\ sent' \in [Sig -> Nat] /\ faults' \in Nat
           Goal == Queues /\ Worker /\ Timed /\ Others /\ Counts
<1>0. /\ orders \subseteq Sig \X Pos /\ results \subseteq [sig : Sig, qty : Nat]
      /\ active \in [Pos -> [sig : Sig \cup {NoSig}, at : Places \cup {"idle"}]]
      /\ up \in BOOLEAN /\ suspects \subseteq Sig
      /\ watch \in [Pos -> {"none", "listed", "cancelled", "reverted"}]
      /\ manual \in [Pos -> CloseSig \cup {NoSig}]
      /\ redemption \in [Pos -> {"none", "listed", "claimed"}]
      /\ redeemQty \in [Pos -> 0 .. MaxQty] /\ resolved \subseteq Leg
      /\ placed \in [Sig -> Nat] /\ sent \in [Sig -> Nat] /\ faults \in Nat
      /\ quantity \in [Pos -> 0 .. MaxQty] /\ MaxQty \in Nat
  BY BoundAssumption DEF PipelineTypeOK
<1>a. ASSUME NEW p \in Pos, NEW from, NEW to \in Places, Step(p, from, to)
      PROVE  Worker /\ active[p].at = from
  BY <1>0, <1>a, StepMoves DEF Step
<1>b. /\ UNCHANGED queues => Queues
      /\ UNCHANGED worker => Worker
      /\ UNCHANGED watchdogs => Timed
      /\ UNCHANGED others => Others
      /\ UNCHANGED counters => Counts
  BY <1>0 DEF queues, worker, watchdogs, others, redeeming, counters
<1>c. ASSUME NEW s \in Sig, NEW p \in Pos, Send(s, p), UNCHANGED <<results, placed, faults>>
      PROVE  Queues /\ Counts
  BY <1>0, <1>c DEF Send
<1>d. Fault /\ UNCHANGED <<placed, sent>> => Counts
  BY <1>0 DEF Fault
<1>e. ASSUME NEW p \in Pos, active[p].at # "idle"  PROVE active[p].sig \in Sig
  BY <1>e DEF QueuesInOrder, Working, Idle
<1>f. \A s \in Sig, n \in Nat : Result(s, n) \in [sig : Sig, qty : Nat]
  BY DEF Result
<1>g. {"begin", "mos", "check", "release", "refuse", "claim", "collide", "place",
       "done"} = Places
  BY DEF Places
<1> HIDE DEF Queues, Worker, Timed, Others, Counts
<1>1. ASSUME NEW p \in Pos, NEW s \in Sig, Reserve(s, p)  PROVE Goal
  BY <1>1, <1>b DEF Reserve, pipelineVars
<1>2. ASSUME NEW p \in Pos, NEW s \in Sig, SendEntry(s, p) \/ SendExit(s, p)
      PROVE  Goal
  BY <1>2, <1>b, <1>c DEF SendEntry, SendExit
<1>3. ASSUME NEW p \in Pos, NEW s \in Sig, ManualClose(s, p)  PROVE Goal
  <2>1. Others
    BY <1>0, <1>3 DEF ManualClose, Others, redeeming
  <2> QED
    BY <1>3, <1>b, <2>1 DEF ManualClose
<1>4. ASSUME NEW p \in Pos, ManualPush(p)  PROVE Goal
  <2>1. Others
    BY <1>0, <1>4 DEF ManualPush, Others, redeeming
  <2>2. manual[p] \in Sig
    BY <1>0, <1>4 DEF ManualPush, CloseSig
  <2> QED
    BY <1>4, <1>b, <1>c, <2>1, <2>2 DEF ManualPush
<1>5. ASSUME NEW p \in Pos, ManualPushFails(p) \/ BackendCrash(p)  PROVE Goal
  <2>1. Others
    BY <1>0, <1>5 DEF ManualPushFails, BackendCrash, Others, redeeming
  <2> QED
    BY <1>5, <1>b, <1>d, <2>1 DEF ManualPushFails, BackendCrash
<1>6. ASSUME NEW p \in Pos,
             \/ StartExit(p) \/ CheckMinimum(p) \/ CheckEntry(p)
             \/ ReleaseRefused(p) \/ Claim(p) \/ Collide(p)
      PROVE  Goal
  <2>1. Worker
    BY <1>6, <1>a, <1>g DEF StartExit, CheckMinimum, CheckEntry, ReleaseRefused,
       Claim, Collide
  <2> QED
    BY <1>6, <1>b, <2>1 DEF StartExit, CheckMinimum, CheckEntry, ReleaseRefused,
       Claim, Collide, OnlyLedger
<1>7. ASSUME NEW p \in Pos, Refuse(p)  PROVE Goal
  <2>1. Worker /\ active[p].sig \in Sig
    BY <1>7, <1>a, <1>e, <1>g DEF Refuse
  <2>2. Queues
    BY <1>0, <1>7, <1>f, <2>1 DEF Refuse, Queues
  <2> QED
    BY <1>7, <1>b, <2>1, <2>2 DEF Refuse
<1>8. ASSUME NEW p \in Pos, Place(p) \/ PlaceUnqueued(p) \/ PlaceUnsettled(p)
      PROVE  Goal
  <2>1. Worker /\ active[p].sig \in Sig
    BY <1>8, <1>a, <1>e, <1>g DEF Place, PlaceUnqueued, PlaceUnsettled
  <2>2. Queues
    <3>1. \A n \in Fills(active[p].sig) : n \in Nat
      BY <2>1, FillBounds
    <3> QED
      BY <1>0, <1>8, <1>f, <2>1, <3>1 DEF Place, PlaceUnqueued, PlaceUnsettled,
         queues, Queues
  <2>3. Counts
    BY <1>0, <1>8, <2>1 DEF Place, PlaceUnqueued, PlaceUnsettled, CountPlaced,
       Fault, Counts
  <2> QED
    BY <1>8, <1>b, <2>1, <2>2, <2>3 DEF Place, PlaceUnqueued, PlaceUnsettled
<1>9. ASSUME NEW p \in Pos, Finish(p)  PROVE Goal
  <2>1. Worker
    BY <1>0, <1>9 DEF Finish, Idle, Worker
  <2> QED
    BY <1>9, <1>b, <2>1 DEF Finish
<1>10. ASSUME NEW p \in Pos, ListStuck(p) \/ CancelStuck(p) \/ FailStuck(p)
                \/ RevertAtStart(p) \/ CancelReverted(p)
       PROVE  Goal
  <2>1. Timed
    BY <1>0, <1>10 DEF ListStuck, CancelStuck, FailStuck, RevertAtStart,
       CancelReverted, Timed
  <2> QED
    BY <1>10, <1>b, <2>1 DEF ListStuck, CancelStuck, FailStuck, RevertAtStart,
       CancelReverted
<1>11. ASSUME NEW p \in Pos, ListRedeemable(p)  PROVE Goal
  <2>1. Others
    BY <1>0, <1>11 DEF ListRedeemable, Others
  <2> QED
    BY <1>11, <1>b, <2>1 DEF ListRedeemable
<1>12. ASSUME NEW p \in Pos, NEW s \in Sig, ClaimRedemption(s, p) \/ TimeOutRedemption(s, p)
       PROVE  Goal
  <2>1. Others
    BY <1>0, <1>12 DEF ClaimRedemption, TimeOutRedemption, Others
  <2> QED
    BY <1>12, <1>b, <2>1 DEF ClaimRedemption, TimeOutRedemption
<1>13. ASSUME NEW p \in Pos, NEW s \in Sig, SendRedemption(s, p)  PROVE Goal
  <2>1. Others
    BY <1>0, <1>13 DEF SendRedemption, Others
  <2>2. Queues
    <3>1. redeemQty[p] \in Nat
      BY <1>0
    <3> QED
      BY <1>0, <1>13, <1>f, <3>1 DEF SendRedemption, Queues
  <2> QED
    BY <1>13, <1>b, <2>1, <2>2 DEF SendRedemption
<1>14. ASSUME NEW p \in Pos, MarkResolved(p)  PROVE Goal
  BY <1>14, <1>b DEF MarkResolved, pipelineVars
<1>15. ASSUME NEW s \in Sig, NEW p \in Pos, Take(s, p)  PROVE Goal
  <2>1. Worker
    BY <1>0, <1>15, <1>g DEF Take, FirstPlace, Worker
  <2>2. Queues
    BY <1>0, <1>15 DEF Take, Queues
  <2> QED
    BY <1>15, <1>b, <2>1, <2>2 DEF Take
<1>16. ASSUME NEW s \in Sig, GiveUp(s)  PROVE Goal
  BY <1>16, <1>b DEF GiveUp, pipelineVars
<1>17. ASSUME NEW s \in Sig, FailOrphan(s)  PROVE Goal
  <2>1. Timed
    BY <1>0, <1>17 DEF FailOrphan, Timed
  <2> QED
    BY <1>17, <1>b, <2>1 DEF FailOrphan
<1>18. ASSUME NEW r \in results, HandleResult(r)  PROVE Goal
  <2>1. Queues
    BY <1>0, <1>18 DEF HandleResult, Queues
  <2>2. Counts
    BY <1>0, <1>18 DEF HandleResult, Fault, Counts
  <2> QED
    BY <1>18, <1>b, <2>1, <2>2 DEF HandleResult
<1>19. ASSUME NEW l \in Leg, MarketResolves(l)  PROVE Goal
  <2>1. Others
    BY <1>0, <1>19 DEF MarketResolves, redeeming, Others
  <2> QED
    BY <1>19, <1>b, <2>1 DEF MarketResolves
<1>20. ASSUME LoseJob  PROVE Goal
  <2>1. Queues
    BY <1>0, <1>20 DEF LoseJob, Queues
  <2>2. Counts /\ UNCHANGED <<worker, watchdogs, others>>
    BY <1>20, <1>d DEF LoseJob
  <2> QED
    BY <1>b, <2>1, <2>2
<1>21. ASSUME Crash  PROVE Goal
  <2>1. Queues
    <3>1. \A p \in Working : p \in Pos /\ active[p].sig \in Sig \cup {NoSig}
      BY <1>0 DEF Working
    <3>2. /\ orders' = orders \cup {<<active[p].sig, p>> : p \in Working}
          /\ results' = results
      BY <1>21 DEF Crash
    <3>3. \A p \in Working : active[p].sig \in Sig
      BY DEF QueuesInOrder
    <3> QED
      BY <1>0, <3>1, <3>2, <3>3 DEF Queues
  <2>2. Worker /\ Timed
    BY <1>0, <1>21 DEF Crash, Idle, Worker, Timed
  <2>3. Others
    BY <1>0, <1>21 DEF Crash, Others
  <2>4. Counts
    BY <1>21, <1>d DEF Crash
  <2> QED
    BY <2>1, <2>2, <2>3, <2>4
<1>22. ASSUME Restart  PROVE Goal
  <2>1. Worker
    BY <1>0, <1>22 DEF Restart, Worker
  <2>2. UNCHANGED <<queues, watchdogs, others, counters>>
    BY <1>22 DEF Restart
  <2> QED
    BY <1>b, <2>1, <2>2
<1>23. ASSUME ReservationTime  PROVE Goal
  <2>1. UNCHANGED pipelineVars
    BY <1>23 DEF ReservationTime
  <2> QED
    BY <1>b, <2>1 DEF pipelineVars
<1>24. ASSUME ListOrphans  PROVE Goal
  <2>1. Timed
    BY <1>0, <1>24 DEF ListOrphans, Timed
  <2>2. UNCHANGED <<queues, worker, others, counters>>
    BY <1>24 DEF ListOrphans
  <2> QED
    BY <1>b, <2>1, <2>2
<1>25. ASSUME UNCHANGED allVars  PROVE Goal
  <2>1. UNCHANGED pipelineVars
    BY <1>25 DEF allVars
  <2> QED
    BY <1>b, <2>1 DEF pipelineVars
<1>26. Goal
  BY <1>1, <1>2, <1>3, <1>4, <1>5, <1>6, <1>7, <1>8, <1>9, <1>10, <1>11, <1>12,
     <1>13, <1>14, <1>15, <1>16, <1>17, <1>18, <1>19, <1>20, <1>21, <1>22, <1>23,
     <1>24, <1>25 DEF PipelineNext, Produce, Execute, Watch, Redeem
<1>27. TypeOK' /\ quantity' \in [Pos -> 0 .. MaxQty]
       /\ requestedQty' \in [Sig -> 0 .. MaxQty]
  BY PipelineLedgerStep, LedgerBounds DEF IInv, RowsAgree
<1> QED
  BY <1>26, <1>27 DEF PipelineTypeOK, Queues, Worker, Timed, Others, Counts

\* Redemptions and other signals keep apart: a redemption is never queued as an
\* order, and a queued result fills no more than the bound.
LEMMA QueuesPreserved ==
    ASSUME PipelineTypeOK, PipelineTypeOK', QueuesInOrder, IInv,
           [PipelineNext]_allVars
    PROVE  QueuesInOrder'
<1> DEFINE Ordered == \A o \in orders' : o[1] \notin RedemptionSig
           Worked == \A p \in Pos : active'[p] # Idle =>
                       active'[p].sig \in Sig \ RedemptionSig
           Bounded == \A r \in results' : r.sig \in SellSig => r.qty <= MaxQty
           Goal == Ordered /\ Worked /\ Bounded
<1>0. /\ orders \subseteq Sig \X Pos
      /\ manual \in [Pos -> CloseSig \cup {NoSig}]
      /\ redeemQty \in [Pos -> 0 .. MaxQty] /\ MaxQty \in Nat
      /\ CloseSig \cap RedemptionSig = {} /\ BuySig \cap RedemptionSig = {}
      /\ RedemptionSig \subseteq SellSig
  BY BoundAssumption DEF PipelineTypeOK, CloseSig, BuySig, RedemptionSig, SellSig
<1>a. ASSUME NEW p \in Pos, NEW from \in Places, NEW to \in Places, Step(p, from, to)
      PROVE  Worked /\ active[p].sig \in Sig \ RedemptionSig
  <2>1. /\ active[p].at = from /\ active'[p].sig = active[p].sig
        /\ \A q \in Pos \ {p} : active'[q] = active[q]
    BY <1>a, StepMoves
  <2>2. active[p] # Idle
    BY <2>1 DEF Idle, Places
  <2> QED
    BY <2>1, <2>2 DEF QueuesInOrder, Working
<1>b. /\ UNCHANGED orders => Ordered
      /\ UNCHANGED active => Worked
      /\ UNCHANGED results => Bounded
  BY DEF QueuesInOrder, Working
<1>c. ASSUME NEW s \in Sig \ RedemptionSig, NEW p \in Pos, Send(s, p)
      PROVE  Ordered
  BY <1>c DEF Send, QueuesInOrder
<1>g. {"begin", "mos", "check", "release", "refuse", "claim", "collide", "place",
       "done"} = Places
  BY DEF Places
<1> HIDE DEF Ordered, Worked, Bounded
<1>1. ASSUME NEW p \in Pos, NEW s \in Sig, Reserve(s, p)  PROVE Goal
  BY <1>1, <1>b DEF Reserve, pipelineVars, queues, worker
<1>2. ASSUME NEW p \in Pos, NEW s \in Sig, SendEntry(s, p)  PROVE Goal
  <2>1. s \in Sig \ RedemptionSig
    <3>1. reservedFor[s] = p
      BY <1>2 DEF SendEntry
    <3>2. RowsIssued /\ issued \subseteq BuySig \X Pos
      BY DEF IInv, RowsAgree, TypeOK
    <3>3. <<s, p>> \in issued
      BY <3>1, <3>2 DEF RowsIssued
    <3>4. s \in BuySig
      BY <3>2, <3>3
    <3> QED
      BY <1>0, <3>4
  <2> QED
    BY <1>2, <1>b, <1>c, <2>1 DEF SendEntry, worker
<1>3. ASSUME NEW p \in Pos, NEW s \in Sig, SendExit(s, p)  PROVE Goal
  BY <1>3, <1>b, <1>c DEF SendExit, worker, SellSig
<1>4. ASSUME NEW p \in Pos, NEW s \in Sig, ManualClose(s, p)  PROVE Goal
  BY <1>4, <1>b DEF ManualClose, queues, worker
<1>5. ASSUME NEW p \in Pos, ManualPush(p)  PROVE Goal
  <2>1. manual[p] \in Sig \ RedemptionSig
    BY <1>0, <1>5 DEF ManualPush, CloseSig
  <2> QED
    BY <1>5, <1>b, <1>c, <2>1 DEF ManualPush, worker
<1>6. ASSUME NEW p \in Pos, ManualPushFails(p) \/ BackendCrash(p)  PROVE Goal
  BY <1>6, <1>b DEF ManualPushFails, BackendCrash, queues, worker
<1>7. ASSUME NEW p \in Pos,
             \/ StartExit(p) \/ CheckMinimum(p) \/ CheckEntry(p)
             \/ ReleaseRefused(p) \/ Claim(p) \/ Collide(p) \/ PlaceUnsettled(p)
      PROVE  Goal
  <2>1. Worked
    BY <1>7, <1>a, <1>g DEF StartExit, CheckMinimum, CheckEntry, ReleaseRefused,
       Claim, Collide, PlaceUnsettled
  <2> QED
    BY <1>7, <1>b, <2>1 DEF StartExit, CheckMinimum, CheckEntry, ReleaseRefused,
       Claim, Collide, PlaceUnsettled, OnlyLedger, queues
<1>8. ASSUME NEW p \in Pos, Refuse(p)  PROVE Goal
  <2>1. Worked
    BY <1>8, <1>a, <1>g DEF Refuse
  <2>2. Bounded
    BY <1>0, <1>8 DEF Refuse, Bounded, Result, QueuesInOrder
  <2> QED
    BY <1>8, <1>b, <2>1, <2>2 DEF Refuse
<1>9. ASSUME NEW p \in Pos, Place(p) \/ PlaceUnqueued(p)  PROVE Goal
  <2>1. Worked /\ active[p].sig \in Sig
    BY <1>9, <1>a, <1>g DEF Place, PlaceUnqueued
  <2>2. Bounded
    <3>1. \A n \in Fills(active[p].sig) : active[p].sig \in SellSig => n <= MaxQty
      BY <2>1, FillBounds
    <3>2. \A r \in results' : r \in results \/ \E n \in Fills(active[p].sig) :
                                                r = Result(active[p].sig, n)
      BY <1>9 DEF Place, PlaceUnqueued
    <3> QED
      BY <3>1, <3>2 DEF Bounded, Result, QueuesInOrder
  <2> QED
    BY <1>9, <1>b, <2>1, <2>2 DEF Place, PlaceUnqueued
<1>10. ASSUME NEW p \in Pos, Finish(p)  PROVE Goal
  <2>1. Worked
    BY <1>10 DEF Finish, Worked, QueuesInOrder, Working, PipelineTypeOK
  <2> QED
    BY <1>10, <1>b, <2>1 DEF Finish, queues
<1>11. ASSUME NEW p \in Pos, ListStuck(p) \/ CancelStuck(p) \/ FailStuck(p)
                \/ RevertAtStart(p) \/ CancelReverted(p)
       PROVE  Goal
  BY <1>11, <1>b DEF ListStuck, CancelStuck, FailStuck, RevertAtStart,
     CancelReverted, queues, worker
<1>12. ASSUME NEW p \in Pos,
              \/ ListRedeemable(p)
              \/ \E s \in Sig : ClaimRedemption(s, p) \/ TimeOutRedemption(s, p)
       PROVE  Goal
  BY <1>12, <1>b DEF ListRedeemable, ClaimRedemption, TimeOutRedemption, queues,
     worker
<1>13. ASSUME NEW p \in Pos, NEW s \in Sig, SendRedemption(s, p)  PROVE Goal
  <2>1. redeemQty[p] <= MaxQty
    BY <1>0
  <2>2. Bounded
    BY <1>13, <2>1 DEF SendRedemption, Bounded, Result, QueuesInOrder
  <2> QED
    BY <1>13, <1>b, <2>2 DEF SendRedemption, worker
<1>14. ASSUME NEW p \in Pos, MarkResolved(p)  PROVE Goal
  BY <1>14, <1>b DEF MarkResolved, pipelineVars, queues, worker
<1>15. ASSUME NEW s \in Sig, NEW p \in Pos, Take(s, p)  PROVE Goal
  <2>1. s \notin RedemptionSig
    BY <1>15 DEF Take, QueuesInOrder
  <2>2. Worked
    BY <1>15, <2>1 DEF Take, Worked, QueuesInOrder, Working, PipelineTypeOK
  <2>3. Ordered
    BY <1>15 DEF Take, Ordered, QueuesInOrder
  <2> QED
    BY <1>15, <1>b, <2>2, <2>3 DEF Take
<1>16. ASSUME NEW s \in Sig, GiveUp(s)  PROVE Goal
  BY <1>16, <1>b DEF GiveUp, pipelineVars, queues, worker
<1>17. ASSUME NEW s \in Sig, FailOrphan(s)  PROVE Goal
  BY <1>17, <1>b DEF FailOrphan, queues, worker
<1>18. ASSUME NEW r \in results, HandleResult(r)  PROVE Goal
  <2>1. results' \subseteq results
    BY <1>18 DEF HandleResult
  <2>2. Bounded
    BY <2>1 DEF Bounded, QueuesInOrder
  <2> QED
    BY <1>18, <1>b, <2>2 DEF HandleResult, worker
<1>19. ASSUME NEW l \in Leg, MarketResolves(l)  PROVE Goal
  BY <1>19, <1>b DEF MarketResolves, queues, worker
<1>20. ASSUME LoseJob  PROVE Goal
  <2>1. orders' \subseteq orders /\ results' \subseteq results /\ UNCHANGED active
    BY <1>20 DEF LoseJob, worker
  <2> QED
    BY <1>b, <2>1 DEF Ordered, Bounded, QueuesInOrder
<1>21. ASSUME Crash  PROVE Goal
  <2>1. /\ orders' = orders \cup {<<active[p].sig, p>> : p \in Working}
        /\ active' = [p \in Pos |-> Idle] /\ results' = results
    BY <1>21 DEF Crash
  <2>2. Ordered
    BY <2>1 DEF Ordered, QueuesInOrder
  <2> QED
    BY <1>b, <2>1, <2>2 DEF Worked
<1>22. ASSUME Restart \/ ListOrphans \/ ReservationTime \/ UNCHANGED allVars
       PROVE  Goal
  <2>1. UNCHANGED <<orders, results, active>>
    BY <1>22 DEF Restart, ListOrphans, ReservationTime, allVars, pipelineVars,
       queues, worker
  <2> QED
    BY <1>b, <2>1
<1>23. Goal
  BY <1>1, <1>2, <1>3, <1>4, <1>5, <1>6, <1>7, <1>8, <1>9, <1>10, <1>11, <1>12,
     <1>13, <1>14, <1>15, <1>16, <1>17, <1>18, <1>19, <1>20, <1>21, <1>22
     DEF PipelineNext, Produce, Execute, Watch, Redeem
<1> QED
  BY <1>23 DEF QueuesInOrder, Working, Ordered, Worked, Bounded

(***************************************************************************)
(*                      Orders are placed once                             *)
(***************************************************************************)

\* An execution is claimed for a position, or keeps the one it has and what was
\* requested of it.
LEMMA ExecutionsStay ==
    ASSUME TypeOK, [Next]_vars, NEW x \in Sig
    PROVE  \/ /\ execPosition'[x] = execPosition[x]
              /\ requestedQty'[x] = requestedQty[x]
           \/ \E p \in Pos : \/ ClaimBuy(x, p)
                             \/ \E n \in 1 .. MaxQty : ClaimSell(x, p, n)
<1> DEFINE Stays == /\ execPosition'[x] = execPosition[x]
                    /\ requestedQty'[x] = requestedQty[x]
<1>1. ASSUME NEW s \in Sig \ {x}, NEW p \in Pos, NEW n, InsertExecution(s, p, n)
      PROVE  Stays
  BY <1>1 DEF InsertExecution, TypeOK
<1>2. CASE ReservationStep
  BY <1>2 DEF ReservationStep, ReserveOpen, ReserveIncrease, UpdateOrderSignalId,
     Release, ReservationAges, ReservationJanitor, execVars
<1>3. CASE CloseStep
  BY <1>3 DEF CloseStep, BeginClose, RevertClose, MarkFailed,
     MarkPendingResolution, MoveStatus, execVars
<1>4. CASE ExecutionStep
  <2>1. ASSUME NEW s \in Sig \ {x}, NEW p \in Pos,
               ClaimBuy(s, p) \/ \E n \in 1 .. MaxQty : ClaimSell(s, p, n)
        PROVE  Stays
    BY <1>1, <2>1 DEF ClaimBuy, ClaimSell
  <2>2. ASSUME NEW s \in Sig,
               \/ RedemptionTimeout(s) \/ RearmRedemption(s)
               \/ FinalizeFailed(s) \/ RejectFill(s)
               \/ \E n \in 1 .. MaxQty : FillBuy(s, n) \/ FillSell(s, n)
        PROVE  UNCHANGED <<execPosition, requestedQty>>
    BY <2>2 DEF RedemptionTimeout, RearmRedemption, FinalizeFailed, RejectFill,
       FillBuy, FillSell
  <2>3. ASSUME NEW p \in Pos, FailActiveForPosition(p)
        PROVE  UNCHANGED <<execPosition, requestedQty>>
    BY <2>3 DEF FailActiveForPosition
  <2> QED
    BY <1>4, <2>1, <2>2, <2>3 DEF ExecutionStep
<1>5. CASE UNCHANGED vars
  BY <1>5 DEF vars, execVars
<1> QED
  BY <1>2, <1>3, <1>4, <1>5 DEF Next

\* An execution that names a position keeps it.
LEMMA ClaimsStay ==
    ASSUME TypeOK, ExecutionHasPosition, [Next]_vars, NEW x \in Sig,
           execPosition[x] \in Pos
    PROVE  /\ execPosition'[x] = execPosition[x]
           /\ requestedQty'[x] = requestedQty[x]
BY ExecutionsStay DEF ExecutionHasPosition, ClaimBuy, ClaimSell, InsertExecution

\* Nobody comes to the book, and nothing is placed there.
LEMMA NothingPlaced ==
    ASSUME PipelineTypeOK, QueuesInOrder, IInv, IInv', [Next]_vars,
           PlacersHoldClaims, UNCHANGED placed,
           \A q \in Pos : active'[q].at = "place" => active'[q] = active[q]
    PROVE  PlacersHoldClaims'
<1>0. TypeOK /\ ExecutionHasPosition /\ ExecutionHasPosition'
  BY DEF IInv, RowsAgree
<1>1. \A s \in Sig : execPosition[s] \in Pos => execPosition'[s] = execPosition[s]
  BY <1>0, ClaimsStay
<1>2. \A s \in Sig : execStatus'[s] = "none" => execStatus[s] = "none"
  BY <1>0, <1>1 DEF ExecutionHasPosition, TypeOK, ExecutionStatuses
<1>3. \A q \in Pos : active[q].at = "place" => active[q].sig \in Sig
  BY DEF QueuesInOrder, Working, Idle
<1>4. \A q \in Pos : active'[q].at = "place" =>
        execPosition'[active'[q].sig] = q /\ placed'[active'[q].sig] = 0
  BY <1>1, <1>3 DEF PlacersHoldClaims
<1> QED
  BY <1>2, <1>4 DEF PlacersHoldClaims, OrderPlacedOnce

\* An executor comes to the book with the execution it has just claimed, and
\* leaves it when it has placed the order; nobody else holds that execution.
LEMMA PlacersPreserved ==
    ASSUME PipelineTypeOK, PipelineTypeOK', QueuesInOrder, IInv, IInv',
           [Next]_vars, PlacersHoldClaims, [PipelineNext]_allVars
    PROVE  PlacersHoldClaims'
<1> DEFINE Stays == UNCHANGED placed /\
                    \A q \in Pos : active'[q].at = "place" => active'[q] = active[q]
<1>0. /\ TypeOK /\ ExecutionHasPosition /\ ExecutionHasPosition'
      /\ placed \in [Sig -> Nat]
  BY DEF IInv, RowsAgree, PipelineTypeOK
<1>a. Stays => PlacersHoldClaims'
  BY NothingPlaced
<1>b. ASSUME NEW p \in Pos, NEW from \in Places, NEW to \in Places, Step(p, from, to),
             to # "place", UNCHANGED placed
      PROVE  Stays
  BY <1>b, StepMoves
<1>c. UNCHANGED <<active, placed>> => Stays
  OBVIOUS
<1>d. \A s \in Sig : execPosition[s] \in Pos => execPosition'[s] = execPosition[s]
  BY <1>0, ClaimsStay
<1>e. \A q \in Pos : active[q].at = "place" =>
        active[q].sig \in Sig /\ execPosition[active[q].sig] = q
  BY DEF QueuesInOrder, Working, Idle, PlacersHoldClaims
<1>g. {"begin", "mos", "check", "release", "refuse", "claim", "collide", "place",
       "done"} = Places
  BY DEF Places
<1> HIDE DEF Stays
<1>1. ASSUME NEW p \in Pos, Claim(p)  PROVE PlacersHoldClaims'
  <2> DEFINE s == active[p].sig
  <2>1. CASE \E to \in Places : Step(p, "claim", to) /\ to # "place"
    BY <1>1, <1>a, <1>b, <1>g, <2>1 DEF Claim, OnlyLedger, counters
  <2>2. CASE /\ Step(p, "claim", "place")
             /\ ClaimBuy(s, p) \/ \E n \in 1 .. MaxQty : ClaimSell(s, p, n)
    <3>1. /\ s \in Sig /\ active'[p].at = "place" /\ active'[p].sig = s
          /\ \A q \in Pos \ {p} : active'[q] = active[q]
      BY <1>g, <2>2, StepMoves DEF QueuesInOrder, Working, Idle
    <3>2. execStatus[s] = "none" /\ execPosition'[s] = p
      BY <1>0, <2>2, <3>1 DEF ClaimBuy, ClaimSell, InsertExecution, TypeOK
    <3>3. UNCHANGED placed /\ placed[s] = 0
      BY <1>1, <3>1, <3>2 DEF Claim, OnlyLedger, counters, PlacersHoldClaims
    <3>4. \A q \in Pos : active'[q].at = "place" =>
            execPosition'[active'[q].sig] = q /\ placed'[active'[q].sig] = 0
      BY <1>d, <1>e, <3>1, <3>2, <3>3 DEF PlacersHoldClaims
    <3>5. \A t \in Sig : execStatus'[t] = "none" => execStatus[t] = "none"
      BY <1>0, <1>d DEF ExecutionHasPosition, TypeOK, ExecutionStatuses
    <3> QED
      BY <3>3, <3>4, <3>5 DEF PlacersHoldClaims, OrderPlacedOnce
  <2> QED
    BY <1>1, <1>g, <2>1, <2>2 DEF Claim
<1>2. ASSUME NEW p \in Pos, Step(p, "place", "done"), CountPlaced(active[p].sig)
      PROVE  PlacersHoldClaims'
  <2> DEFINE s == active[p].sig
  <2>1. /\ active[p].at = "place" /\ active'[p].at = "done"
        /\ \A q \in Pos \ {p} : active'[q] = active[q]
    BY <1>2, <1>g, StepMoves
  <2>2. s \in Sig /\ execPosition[s] = p /\ placed[s] = 0
    BY <1>e, <2>1 DEF PlacersHoldClaims
  <2>3. \A t \in Sig : placed'[t] = IF t = s THEN 1 ELSE placed[t]
    BY <1>0, <1>2, <2>2 DEF CountPlaced
  <2>4. \A q \in Pos : active'[q].at = "place" =>
          execPosition'[active'[q].sig] = q /\ placed'[active'[q].sig] = 0
    BY <1>d, <1>e, <2>1, <2>2, <2>3 DEF PlacersHoldClaims
  <2>5. execPosition'[s] = p /\ execStatus'[s] # "none"
    BY <1>0, <1>d, <2>2 DEF ExecutionHasPosition
  <2>6. \A t \in Sig : execStatus'[t] = "none" => placed'[t] = 0
    <3>1. \A t \in Sig : execStatus'[t] = "none" => execStatus[t] = "none"
      BY <1>0, <1>d DEF ExecutionHasPosition, TypeOK, ExecutionStatuses
    <3> QED
      BY <2>3, <2>5, <3>1 DEF PlacersHoldClaims
  <2> QED
    BY <2>3, <2>4, <2>6 DEF PlacersHoldClaims, OrderPlacedOnce
<1>3. ASSUME NEW p \in Pos, Place(p) \/ PlaceUnqueued(p) \/ PlaceUnsettled(p)
      PROVE  PlacersHoldClaims'
  BY <1>2, <1>3 DEF Place, PlaceUnqueued, PlaceUnsettled
<1>4. ASSUME NEW p \in Pos,
             StartExit(p) \/ CheckMinimum(p) \/ CheckEntry(p) \/ ReleaseRefused(p)
               \/ Refuse(p) \/ Collide(p)
      PROVE  Stays
  BY <1>4, <1>b, <1>g DEF StartExit, CheckMinimum, CheckEntry, ReleaseRefused,
     Refuse, Collide, OnlyLedger, counters
<1>5. ASSUME NEW p \in Pos, Finish(p)  PROVE Stays
  BY <1>5 DEF Finish, Stays, PipelineTypeOK, Idle, counters
<1>6. ASSUME NEW s \in Sig, NEW p \in Pos, Take(s, p)  PROVE Stays
  BY <1>6 DEF Take, FirstPlace, Stays, PipelineTypeOK, counters
<1>7. ASSUME Crash  PROVE Stays
  <2>1. active' = [p \in Pos |-> Idle] /\ UNCHANGED placed
    BY <1>7 DEF Crash
  <2> QED
    BY <2>1 DEF Stays, Idle
<1>8. ASSUME NEW p \in Pos,
             \/ Produce(p) \/ Watch(p) \/ Redeem(p) \/ MarkResolved(p)
             \/ RevertAtStart(p) \/ CancelReverted(p)
      PROVE  Stays
  <2>1. ASSUME NEW s \in Sig, \/ Reserve(s, p) \/ SendEntry(s, p)
                              \/ SendExit(s, p) \/ ManualClose(s, p)
        PROVE  Stays
    BY <2>1, <1>c DEF Reserve, SendEntry, SendExit, ManualClose, pipelineVars,
       worker, counters
  <2>2. CASE ManualPush(p) \/ ManualPushFails(p) \/ BackendCrash(p)
    BY <2>2, <1>c DEF ManualPush, ManualPushFails, BackendCrash, worker
  <2>3. CASE Watch(p)
    BY <2>3, <1>c DEF Watch, ListStuck, CancelStuck, FailStuck, worker, counters
  <2>4. CASE Redeem(p)
    BY <2>4, <1>c DEF Redeem, ListRedeemable, ClaimRedemption, TimeOutRedemption,
       SendRedemption, worker, counters
  <2>5. CASE MarkResolved(p) \/ RevertAtStart(p) \/ CancelReverted(p)
    BY <2>5, <1>c DEF MarkResolved, RevertAtStart, CancelReverted, pipelineVars,
       worker, counters
  <2> QED
    BY <1>8, <2>1, <2>2, <2>3, <2>4, <2>5 DEF Produce
<1>9. ASSUME \/ \E s \in Sig : GiveUp(s) \/ FailOrphan(s)
             \/ \E r \in results : HandleResult(r)
             \/ \E l \in Leg : MarketResolves(l)
      PROVE  Stays
  BY <1>9, <1>c DEF GiveUp, FailOrphan, HandleResult, MarketResolves,
     pipelineVars, worker, counters
<1>10. ASSUME LoseJob \/ Restart \/ ReservationTime \/ ListOrphans \/ UNCHANGED allVars
       PROVE  Stays
  <2>1. UNCHANGED <<active, placed>>
    BY <1>10 DEF LoseJob, Restart, ReservationTime, ListOrphans, allVars,
       pipelineVars, worker, counters
  <2> QED
    BY <1>c, <2>1
<1> QED
  BY <1>a, <1>1, <1>3, <1>4, <1>5, <1>6, <1>7, <1>8, <1>9, <1>10
     DEF PipelineNext, Execute

(***************************************************************************)
(*                         Shares are conserved                            *)
(***************************************************************************)

\* A position does not return to its entry.
LEMMA EnteredStays ==
    ASSUME IInv, [Next]_vars, NEW q \in Pos, Entered(q)
    PROVE  Entered(q)'
<1> USE DEF Entered
<1>0. TypeOK /\ ExecutionHasPosition /\ status \in [Pos -> PositionStatuses]
  BY DEF IInv, RowsAgree, TypeOK
<1>1. ASSUME NEW s \in Sig, NEW p \in Pos, ReserveOpen(s, p)  PROVE Entered(q)'
  BY <1>0, <1>1 DEF ReserveOpen
<1>2. ASSUME NEW s \in Sig, Release(s)  PROVE Entered(q)'
  BY <1>0, <1>2 DEF Release
<1>3. ASSUME ReservationJanitor  PROVE Entered(q)'
  BY <1>3 DEF ReservationJanitor, LostEntries
<1>4. ASSUME NEW s \in Sig, FinalizeFailed(s)  PROVE Entered(q)'
  BY <1>0, <1>4 DEF FinalizeFailed
<1>5. ASSUME NEW s \in Sig, NEW n, FillBuy(s, n) \/ FillSell(s, n)
      PROVE  Entered(q)'
  BY <1>0, <1>5 DEF FillBuy, FillSell
<1>6. ASSUME NEW p \in Pos, \/ BeginClose(p) \/ RevertClose(p) \/ MarkFailed(p)
                            \/ MarkPendingResolution(p)
      PROVE  Entered(q)'
  BY <1>0, <1>6 DEF BeginClose, RevertClose, MarkFailed, MarkPendingResolution,
     MoveStatus
<1>7. ASSUME UNCHANGED status  PROVE Entered(q)'
  BY <1>7
<1>8. ASSUME NEW s \in Sig, NEW p \in Pos,
             \/ ReserveIncrease(s, p) \/ ClaimBuy(s, p)
             \/ \E n \in 1 .. MaxQty : ClaimSell(s, p, n)
      PROVE  UNCHANGED status
  BY <1>8 DEF ReserveIncrease, ClaimBuy, ClaimSell, InsertExecution, positionVars
<1>9. ASSUME \/ \E s \in Sig : \/ ReservationAges(s) \/ RedemptionTimeout(s)
                               \/ RearmRedemption(s) \/ RejectFill(s)
             \/ \E s, t \in Sig : UpdateOrderSignalId(s, t)
             \/ \E p \in Pos : FailActiveForPosition(p)
             \/ UNCHANGED vars
      PROVE  UNCHANGED status
  BY <1>9 DEF ReservationAges, RedemptionTimeout, RearmRedemption, RejectFill,
     UpdateOrderSignalId, FailActiveForPosition, positionVars, vars
<1> QED
  BY <1>1, <1>2, <1>3, <1>4, <1>5, <1>6, <1>7, <1>8, <1>9
     DEF Next, ReservationStep, ExecutionStep, CloseStep

\* A position that holds shares or is closed has been entered.
LEMMA HoldersEntered ==
    ASSUME IInv, NEW p \in Pos, quantity[p] > 0
    PROVE  Entered(p)
BY DEF IInv, HoldingIffShares, Entered, HoldingStatuses

\* The redemption handler reads the position, keeps what it read, or is done.
LEMMA RedemptionReads ==
    ASSUME PipelineTypeOK, [PipelineNext]_allVars, NEW p \in Pos,
           redemption'[p] # "none"
    PROVE  \/ redemption[p] # "none" /\ redeemQty'[p] = redeemQty[p]
           \/ redeemQty'[p] = quantity[p] /\ quantity[p] > 0 /\ UNCHANGED vars
<1> DEFINE Kept == redemption[p] # "none" /\ redeemQty'[p] = redeemQty[p]
<1>0. /\ redemption \in [Pos -> {"none", "listed", "claimed"}]
      /\ redeemQty \in [Pos -> 0 .. MaxQty]
  BY DEF PipelineTypeOK
<1>1. ASSUME UNCHANGED redeeming  PROVE Kept
  BY <1>1 DEF redeeming
<1>2. ASSUME NEW q \in Pos, ListRedeemable(q)
      PROVE  Kept \/ (redeemQty'[p] = quantity[p] /\ quantity[p] > 0 /\ UNCHANGED vars)
  BY <1>0, <1>2 DEF ListRedeemable
<1>3. ASSUME NEW q \in Pos, NEW s \in Sig,
             ClaimRedemption(s, q) \/ TimeOutRedemption(s, q) \/ SendRedemption(s, q)
      PROVE  Kept
  BY <1>0, <1>3 DEF ClaimRedemption, TimeOutRedemption, SendRedemption
<1>4. ASSUME Crash  PROVE FALSE
  BY <1>4 DEF Crash
<1>5. ASSUME NEW q \in Pos, NEW s \in Sig,
             Reserve(s, q) \/ SendEntry(s, q) \/ SendExit(s, q) \/ ManualClose(s, q)
      PROVE  UNCHANGED redeeming
  BY <1>5 DEF Reserve, SendEntry, SendExit, ManualClose, pipelineVars, others
<1>6. ASSUME NEW q \in Pos,
             ManualPush(q) \/ ManualPushFails(q) \/ BackendCrash(q) \/ Execute(q)
      PROVE  UNCHANGED redeeming
  BY <1>6 DEF ManualPush, ManualPushFails, BackendCrash, Execute, StartExit,
     CheckMinimum, CheckEntry, ReleaseRefused, Refuse, Claim, Collide, Place,
     Finish, OnlyLedger, others
<1>7. ASSUME NEW q \in Pos,
             \/ Watch(q) \/ PlaceUnqueued(q) \/ PlaceUnsettled(q)
             \/ MarkResolved(q) \/ RevertAtStart(q) \/ CancelReverted(q)
      PROVE  UNCHANGED redeeming
  BY <1>7 DEF Watch, ListStuck, CancelStuck, FailStuck, PlaceUnqueued,
     PlaceUnsettled, MarkResolved, RevertAtStart, CancelReverted, pipelineVars,
     others
<1>8. ASSUME \/ \E s \in Sig, q \in Pos : Take(s, q)
             \/ \E s \in Sig : GiveUp(s) \/ FailOrphan(s)
             \/ \E r \in results : HandleResult(r)
             \/ \E l \in Leg : MarketResolves(l)
      PROVE  UNCHANGED redeeming
  BY <1>8 DEF Take, GiveUp, FailOrphan, HandleResult, MarketResolves,
     pipelineVars, others
<1>9. ASSUME LoseJob \/ Restart \/ ReservationTime \/ ListOrphans \/ UNCHANGED allVars
      PROVE  UNCHANGED redeeming
  BY <1>9 DEF LoseJob, Restart, ReservationTime, ListOrphans, allVars,
     pipelineVars, others
<1> HIDE DEF Kept
<1>10. ASSUME UNCHANGED redeeming \/ Kept  PROVE Kept
  BY <1>1, <1>10
<1> QED
  BY <1>2, <1>3, <1>4, <1>5, <1>6, <1>7, <1>8, <1>9, <1>10
     DEF PipelineNext, Produce, Redeem, Kept

\* A redemption's result with shares is one the handler just sent, or was there.
LEMMA RedemptionReports ==
    ASSUME PipelineTypeOK, QueuesInOrder, [PipelineNext]_allVars,
           NEW r \in results', r.sig \in RedemptionSig, r.qty > 0
    PROVE  \/ r \in results
           \/ \E p \in Pos : /\ redemption[p] # "none" /\ execPosition[r.sig] = p
                             /\ r.qty = redeemQty[p] /\ UNCHANGED vars
<1> DEFINE Sent == \E p \in Pos : /\ redemption[p] # "none"
                                  /\ execPosition[r.sig] = p
                                  /\ r.qty = redeemQty[p] /\ UNCHANGED vars
<1>1. ASSUME NEW q \in Pos, NEW s \in Sig, SendRedemption(s, q)
      PROVE  r \in results \/ Sent
  BY <1>1 DEF SendRedemption, Result
<1>2. ASSUME NEW q \in Pos, Refuse(q)  PROVE r \in results
  BY <1>2 DEF Refuse, Result
<1>3. ASSUME NEW q \in Pos, Place(q) \/ PlaceUnqueued(q)  PROVE r \in results
  <2>1. active[q].sig \notin RedemptionSig
    BY <1>3 DEF Place, PlaceUnqueued, Step, QueuesInOrder, Working, Idle
  <2>2. r \in results \/ \E n \in Fills(active[q].sig) : r = Result(active[q].sig, n)
    BY <1>3 DEF Place, PlaceUnqueued
  <2> QED
    BY <2>1, <2>2 DEF Result
<1>4. ASSUME UNCHANGED results  PROVE r \in results
  BY <1>4
<1>5. ASSUME NEW q \in Pos, NEW s \in Sig,
             Reserve(s, q) \/ SendEntry(s, q) \/ SendExit(s, q) \/ ManualClose(s, q)
      PROVE  UNCHANGED results
  BY <1>5 DEF Reserve, SendEntry, SendExit, ManualClose, pipelineVars, queues
<1>6. ASSUME NEW q \in Pos,
             \/ ManualPush(q) \/ ManualPushFails(q) \/ BackendCrash(q)
             \/ StartExit(q) \/ CheckMinimum(q) \/ CheckEntry(q)
             \/ ReleaseRefused(q) \/ Claim(q) \/ Collide(q) \/ Finish(q)
      PROVE  UNCHANGED results
  BY <1>6 DEF ManualPush, ManualPushFails, BackendCrash, StartExit,
     CheckMinimum, CheckEntry, ReleaseRefused, Claim, Collide, Finish,
     OnlyLedger, queues
<1>7. ASSUME NEW q \in Pos,
             \/ Watch(q) \/ PlaceUnsettled(q) \/ ListRedeemable(q)
             \/ MarkResolved(q) \/ RevertAtStart(q) \/ CancelReverted(q)
             \/ \E s \in Sig : ClaimRedemption(s, q) \/ TimeOutRedemption(s, q)
      PROVE  UNCHANGED results
  BY <1>7 DEF Watch, ListStuck, CancelStuck, FailStuck, PlaceUnsettled,
     ListRedeemable, ClaimRedemption, TimeOutRedemption, MarkResolved,
     RevertAtStart, CancelReverted, pipelineVars, queues
<1>8. ASSUME \/ \E s \in Sig, q \in Pos : Take(s, q)
             \/ \E s \in Sig : GiveUp(s) \/ FailOrphan(s)
             \/ \E l \in Leg : MarketResolves(l)
      PROVE  UNCHANGED results
  BY <1>8 DEF Take, GiveUp, FailOrphan, MarketResolves, pipelineVars, queues
<1>9. ASSUME Crash \/ Restart \/ ReservationTime \/ ListOrphans \/ UNCHANGED allVars
      PROVE  UNCHANGED results
  BY <1>9 DEF Crash, Restart, ReservationTime, ListOrphans, allVars,
     pipelineVars, queues
<1>10. ASSUME LoseJob \/ \E x \in results : HandleResult(x)
       PROVE  r \in results
  BY <1>10 DEF LoseJob, HandleResult
<1> HIDE DEF Sent
<1>11. r \in results \/ Sent
  BY <1>1, <1>2, <1>3, <1>4, <1>5, <1>6, <1>7, <1>8, <1>9, <1>10
     DEF PipelineNext, Produce, Execute, Redeem
<1> QED
  BY <1>11 DEF Sent

\* Settling, releasing and moving a position claim nothing.
LEMMA NothingClaimed ==
    ASSUME \/ \E s \in Sig, n \in Nat : Finalize(s, n)
           \/ \E s \in Sig : TryRelease(s) \/ Release(s) \/ ReservationAges(s)
           \/ \E s \in Sig, p \in Pos : ReserveOpen(s, p) \/ ReserveIncrease(s, p)
           \/ ReservationJanitor
           \/ \E p \in Pos : \/ BeginClose(p) \/ RevertClose(p) \/ MarkFailed(p)
                             \/ MarkPendingResolution(p)
                             \/ FailActiveForPosition(p)
                             \/ EnsureFailed(p) \/ EnsureReverted(p)
           \/ \E s \in RedemptionSig : RearmRedemption(s)
           \/ UNCHANGED vars
    PROVE  UNCHANGED <<execPosition, requestedQty>>
<1> DEFINE Goal == UNCHANGED <<execPosition, requestedQty>>
<1>1. ASSUME UNCHANGED vars \/ UNCHANGED execVars  PROVE Goal
  BY <1>1 DEF vars, execVars
<1>2. ASSUME NEW s \in Sig, NEW n \in Nat, Finalize(s, n)  PROVE Goal
  BY <1>1, <1>2 DEF Finalize, FinalizeFailed, FillBuy, FillSell, RejectFill
<1>3. ASSUME NEW s \in Sig, TryRelease(s) \/ Release(s) \/ ReservationAges(s)
      PROVE  Goal
  BY <1>1, <1>3 DEF TryRelease, Release, ReservationAges
<1>4. ASSUME \/ \E s \in Sig, p \in Pos : ReserveOpen(s, p) \/ ReserveIncrease(s, p)
             \/ ReservationJanitor
      PROVE  Goal
  BY <1>1, <1>4 DEF ReserveOpen, ReserveIncrease, ReservationJanitor
<1>5. ASSUME NEW p \in Pos, \/ BeginClose(p) \/ RevertClose(p) \/ MarkFailed(p)
                            \/ MarkPendingResolution(p)
      PROVE  Goal
  BY <1>1, <1>5 DEF BeginClose, RevertClose, MarkFailed, MarkPendingResolution,
     MoveStatus
<1>6. ASSUME NEW p \in Pos, EnsureFailed(p) \/ EnsureReverted(p)  PROVE Goal
  BY <1>1, <1>5, <1>6 DEF EnsureFailed, EnsureReverted
<1>7. ASSUME \/ \E p \in Pos : FailActiveForPosition(p)
             \/ \E s \in RedemptionSig : RearmRedemption(s)
      PROVE  Goal
  BY <1>7 DEF FailActiveForPosition, RearmRedemption
<1> QED
  BY <1>1, <1>2, <1>3, <1>4, <1>5, <1>6, <1>7

\* A redemption is claimed by the handler only, for the shares it read.
LEMMA RedemptionClaims ==
    ASSUME PipelineTypeOK, QueuesInOrder, [PipelineNext]_allVars,
           NEW x \in RedemptionSig
    PROVE  \/ /\ execPosition'[x] = execPosition[x]
              /\ requestedQty'[x] = requestedQty[x]
           \/ \E p \in Pos : /\ redemption[p] # "none"
                             /\ ClaimSell(x, p, redeemQty[p])
<1> DEFINE Kept == /\ execPosition'[x] = execPosition[x]
                   /\ requestedQty'[x] = requestedQty[x]
           Claimed == \E p \in Pos : /\ redemption[p] # "none"
                                     /\ ClaimSell(x, p, redeemQty[p])
           Quiet == UNCHANGED <<execPosition, requestedQty>>
<1>0. /\ execPosition \in [Sig -> Pos \cup {NoPos}] /\ requestedQty \in [Sig -> Nat]
      /\ \A r \in results : r.sig \in Sig /\ r.qty \in Nat
      /\ \A s \in Sig : \A n \in Fills(s) : n \in Nat
  BY FillBounds DEF PipelineTypeOK, TypeOK
<1>1. ASSUME Quiet  PROVE Kept
  BY <1>1
<1>2. ASSUME NEW s \in Sig \ {x}, NEW p \in Pos, NEW n, InsertExecution(s, p, n)
      PROVE  Kept
  BY <1>0, <1>2 DEF InsertExecution
<1>e. ASSUME NEW p \in Pos, active[p].at # "idle"
      PROVE  active[p].sig \in Sig \ RedemptionSig
  BY <1>e DEF QueuesInOrder, Working, Idle
<1> USE DEF OnlyLedger
<1>3. ASSUME NEW p \in Pos, Claim(p)  PROVE Kept
  <2>1. active[p].sig \in Sig \ {x}
    BY <1>3, <1>e DEF Claim
  <2> QED
    BY <1>1, <1>2, <1>3, <2>1, NothingClaimed DEF Claim, ClaimBuy, ClaimSell
<1>4. ASSUME NEW p \in Pos, NEW s \in Sig, ClaimRedemption(s, p)
      PROVE  Kept \/ Claimed
  <2>1. CASE ClaimSell(s, p, redeemQty[p])
    BY <1>2, <1>4, <2>1 DEF ClaimRedemption, ClaimSell
  <2>2. CASE RearmRedemption(s) \/ UNCHANGED vars
    BY <1>1, <1>4, <2>2, NothingClaimed DEF ClaimRedemption
  <2> QED
    BY <1>4, <2>1, <2>2 DEF ClaimRedemption
<1> HIDE DEF Kept, Claimed, Quiet
<1>5. ASSUME NEW p \in Pos, NEW s \in Sig,
             \/ Reserve(s, p) \/ SendEntry(s, p) \/ SendExit(s, p)
             \/ ManualClose(s, p)
      PROVE  Quiet
  BY <1>5, NothingClaimed DEF Reserve, SendEntry, SendExit, ManualClose, Quiet
<1>6. ASSUME NEW p \in Pos,
             ManualPush(p) \/ ManualPushFails(p) \/ BackendCrash(p)
      PROVE  Quiet
  BY <1>6, NothingClaimed DEF ManualPush, ManualPushFails, BackendCrash, Quiet
<1>7. ASSUME NEW p \in Pos,
             \/ StartExit(p) \/ CheckMinimum(p) \/ CheckEntry(p) \/ Refuse(p)
             \/ Collide(p) \/ Place(p) \/ PlaceUnsettled(p) \/ Finish(p)
      PROVE  Quiet
  BY <1>7, NothingClaimed DEF StartExit, CheckMinimum, CheckEntry, Refuse,
     Collide, Place, PlaceUnsettled, Finish, Quiet
<1>8. ASSUME NEW p \in Pos, ReleaseRefused(p)  PROVE Quiet
  BY <1>8, <1>e, NothingClaimed DEF ReleaseRefused, Step, Quiet
<1>9. ASSUME NEW p \in Pos, PlaceUnqueued(p)  PROVE Quiet
  <2>1. active[p].sig \in Sig
    BY <1>9, <1>e DEF PlaceUnqueued, Step
  <2>2. \E n \in Nat : Finalize(active[p].sig, n)
    BY <1>0, <1>9, <2>1 DEF PlaceUnqueued
  <2> QED
    BY <2>1, <2>2, NothingClaimed DEF Quiet
<1>10. ASSUME NEW p \in Pos,
              \/ Watch(p) \/ ListRedeemable(p) \/ MarkResolved(p)
              \/ RevertAtStart(p) \/ CancelReverted(p)
              \/ \E s \in Sig : TimeOutRedemption(s, p) \/ SendRedemption(s, p)
       PROVE  Quiet
  BY <1>10, NothingClaimed DEF Watch, ListStuck, CancelStuck, FailStuck,
     ListRedeemable, MarkResolved, RevertAtStart, CancelReverted,
     TimeOutRedemption, SendRedemption, Quiet
<1>11. ASSUME \/ \E s \in Sig, p \in Pos : Take(s, p)
              \/ \E s \in Sig : GiveUp(s) \/ FailOrphan(s)
              \/ \E l \in Leg : MarketResolves(l)
       PROVE  Quiet
  BY <1>11, NothingClaimed DEF Take, GiveUp, FailOrphan, MarketResolves, Quiet
<1>12. ASSUME NEW r \in results, HandleResult(r)  PROVE Quiet
  BY <1>0, <1>12, NothingClaimed DEF HandleResult, Quiet
<1>13. ASSUME LoseJob \/ Crash \/ Restart \/ ListOrphans \/ UNCHANGED allVars
       PROVE  Quiet
  <2>1. UNCHANGED vars
    BY <1>13 DEF LoseJob, Crash, Restart, ListOrphans, allVars
  <2> QED
    BY <2>1, NothingClaimed DEF Quiet
<1>14. ASSUME ReservationTime  PROVE Quiet
  <2>1. (\E s \in Sig : ReservationAges(s)) \/ ReservationJanitor
    BY <1>14 DEF ReservationTime
  <2> QED
    BY <2>1, NothingClaimed DEF Quiet
<1>15. Kept \/ Claimed
  BY <1>1, <1>3, <1>4, <1>5, <1>6, <1>7, <1>8, <1>9, <1>10, <1>11, <1>12, <1>13,
     <1>14 DEF PipelineNext, Produce, Execute, Redeem
<1> QED
  BY <1>15 DEF Kept, Claimed

\* Shares are a position's as long as its executions are and nothing is filled.
LEMMA SharesStay ==
    ASSUME NEW S, NEW p,
           \A s \in S :
              \/ execPosition'[s] = execPosition[s] /\ fillQuantity'[s] = fillQuantity[s]
              \/ fillQuantity'[s] = 0 /\ fillQuantity[s] = 0
              \/ execPosition'[s] # p /\ execPosition[s] # p
    PROVE  Shares(S, p)' = Shares(S, p)
<1>1. \A x, s : x \in {s} \X (1 .. 0) => FALSE
  OBVIOUS
<1>2. ASSUME NEW x
      PROVE  (\E s \in S : execPosition'[s] = p /\ x \in {s} \X (1 .. fillQuantity'[s]))
         <=> (\E s \in S : execPosition[s] = p /\ x \in {s} \X (1 .. fillQuantity[s]))
  BY <1>1
<1> QED
  BY <1>2 DEF Shares

\* The first fill of an execution adds its shares to those of its position.
LEMMA SharesAdded ==
    ASSUME NEW S, NEW p, NEW s \in S, NEW n \in Nat,
           execPosition[s] = p, UNCHANGED execPosition, fillQuantity[s] = 0,
           fillQuantity'[s] = n, \A t \in S \ {s} : fillQuantity'[t] = fillQuantity[t],
           IsFiniteSet(Shares(S, p))
    PROVE  /\ IsFiniteSet(Shares(S, p)')
           /\ Cardinality(Shares(S, p)') = Cardinality(Shares(S, p)) + n
<1> DEFINE New == {s} \X (1 .. n)
<1>1. Shares(S, p)' = Shares(S, p) \cup New
  <2>1. ASSUME NEW x
        PROVE  (\E t \in S : execPosition'[t] = p /\ x \in {t} \X (1 .. fillQuantity'[t]))
           <=> \/ \E t \in S : execPosition[t] = p /\ x \in {t} \X (1 .. fillQuantity[t])
               \/ x \in New
    <3>1. x \notin {s} \X (1 .. 0)
      OBVIOUS
    <3> QED
      BY <3>1
  <2> QED
    BY <2>1 DEF Shares
<1>2. Shares(S, p) \cap New = {}
  <2>1. ASSUME NEW x \in New, NEW t \in S, x \in {t} \X (1 .. fillQuantity[t])
        PROVE  FALSE
    <3>1. t = s
      BY <2>1
    <3> QED
      BY <2>1, <3>1
  <2> QED
    BY <2>1 DEF Shares
<1>3. IsFiniteSet(New) /\ Cardinality(New) = n
  <2>1. IsFiniteSet(1 .. n) /\ Cardinality(1 .. n) = n
    BY FS_Interval
  <2>2. IsFiniteSet({s}) /\ Cardinality({s}) = 1
    BY FS_Singleton
  <2> DEFINE One == {s}
             Many == 1 .. n
  <2> HIDE DEF One, Many
  <2>3. IsFiniteSet(One \X Many) /\ Cardinality(One \X Many) = 1 * n
    <3>1. IsFiniteSet(One) /\ Cardinality(One) = 1 /\ IsFiniteSet(Many)
          /\ Cardinality(Many) = n
      BY <2>1, <2>2 DEF One, Many
    <3> QED
      BY <3>1, FS_Product
  <2> QED
    BY <2>3 DEF One, Many
<1>4. Cardinality(Shares(S, p)) \in Nat
  BY FS_CardinalityType
<1> HIDE DEF New
<1>5. /\ IsFiniteSet(Shares(S, p) \cup New)
      /\ Cardinality(Shares(S, p) \cup New) =
           Cardinality(Shares(S, p)) + Cardinality(New) - Cardinality({})
  BY <1>2, <1>3, FS_Union
<1> QED
  BY <1>1, <1>3, <1>4, <1>5, FS_EmptySet

\* What increases bought is finite too, and the counts are numbers.
LEMMA CountTypes ==
    ASSUME SharesFinite, NEW p \in Pos
    PROVE  /\ IsFiniteSet(Shares(BuySig \ OpenSig, p))
           /\ Bought(p) \in Nat /\ Increased(p) \in Nat /\ Sold(p) \in Nat
<1>1. Shares(BuySig \ OpenSig, p) \in SUBSET Shares(BuySig, p)
  BY DEF Shares
<1>2. IsFiniteSet(Shares(BuySig \ OpenSig, p))
  BY <1>1, FS_Subset DEF SharesFinite
<1> QED
  BY <1>2, FS_CardinalityType DEF SharesFinite, Bought, Increased, Sold

\* All orders of the pipeline are simulated.
LEMMA AllSimulated ==
    ASSUME NEW s \in Sig
    PROVE  ~IsReal(s)
BY SimulatedAssumption, LegAssumption DEF IsReal

\* An execution that takes a fill has none yet.
LEMMA FirstFill ==
    ASSUME IInv, NEW s \in Sig, NEW n, FillBuy(s, n) \/ FillSell(s, n)
    PROVE  fillQuantity[s] = 0 /\ execStatus[s] = "placing"
           /\ execPosition[s] \in Pos
<1>1. /\ execStatus[s] = "placing" /\ execPosition[s] \in Pos
      /\ fillQuantity[s] \in Nat
  BY AllSimulated DEF FillBuy, FillSell, AcceptsFill, IInv, RowsAgree,
     ExecutionHasPosition, TypeOK
<1>2. CASE FillBuy(s, n)
  BY <1>1, <1>2, AllSimulated DEF FillBuy, IInv, SimFillSettled, BuySig, RedemptionSig
<1>3. CASE FillSell(s, n)
  BY <1>1, <1>3, AllSimulated DEF FillSell, CanSell, IInv, SimFillSettled
<1> QED
  BY <1>1, <1>2, <1>3

\* Without a fill the counts of a position stay what they are.
LEMMA NoFillCounts ==
    ASSUME IInv, [Next]_vars, UNCHANGED fillQuantity, NEW S \in SUBSET Sig,
           NEW p \in Pos
    PROVE  Shares(S, p)' = Shares(S, p)
<1>1. ASSUME NEW s \in S
      PROVE  execPosition'[s] = execPosition[s] \/ fillQuantity[s] = 0
  <2>1. TypeOK /\ ExecutionHasPosition /\ execPosition[s] \in Pos \cup {NoPos}
    BY DEF IInv, RowsAgree, TypeOK
  <2>2. CASE execPosition[s] \in Pos
    BY <2>1, <2>2, ClaimsStay
  <2>3. CASE execPosition[s] \notin Pos
    <3>1. execStatus[s] = "none" /\ fillQuantity[s] \in Nat
      BY <2>1, <2>3 DEF ExecutionHasPosition, TypeOK
    <3> QED
      BY <3>1, AllSimulated DEF IInv, SimFillSettled
  <2> QED
    BY <2>2, <2>3
<1> QED
  BY <1>1, SharesStay

\* A fill of n shares for an entry or an increase.
LEMMA BuyCounts ==
    ASSUME IInv, SharesFinite, NEW s \in Sig, NEW n \in 1 .. MaxQty, FillBuy(s, n),
           NEW p \in Pos
    PROVE  /\ IsFiniteSet(Shares(BuySig, p)') /\ IsFiniteSet(Shares(SellSig, p)')
           /\ Sold(p)' = Sold(p)
           /\ Bought(p)' = IF execPosition[s] = p THEN Bought(p) + n ELSE Bought(p)
           /\ Increased(p)' = IF execPosition[s] = p /\ s \notin OpenSig
                              THEN Increased(p) + n ELSE Increased(p)
<1>1. /\ fillQuantity[s] = 0 /\ s \in BuySig /\ UNCHANGED execPosition
      /\ fillQuantity'[s] = n
      /\ \A t \in Sig \ {s} : fillQuantity'[t] = fillQuantity[t]
  <2>1. fillQuantity[s] = 0
    BY FirstFill
  <2>2. /\ fillQuantity' = [fillQuantity EXCEPT ![s] = fillQuantity[s] + n]
        /\ s \in BuySig /\ UNCHANGED execPosition
    BY DEF FillBuy
  <2>3. fillQuantity \in [Sig -> Nat]
    BY DEF IInv, TypeOK
  <2> QED
    BY <2>1, <2>2, <2>3
<1>2. ASSUME NEW S \in SUBSET Sig, s \notin S \/ execPosition[s] # p
      PROVE  Shares(S, p)' = Shares(S, p)
  BY <1>1, <1>2, SharesStay
<1>3. SellSig \in SUBSET Sig /\ BuySig \in SUBSET Sig /\ s \notin SellSig
  BY <1>1 DEF SellSig, BuySig
<1>4. IsFiniteSet(Shares(SellSig, p)') /\ Sold(p)' = Sold(p)
  BY <1>2, <1>3 DEF Sold, SharesFinite
<1>5. /\ IsFiniteSet(Shares(BuySig, p)')
      /\ Bought(p)' = IF execPosition[s] = p THEN Bought(p) + n ELSE Bought(p)
  <2>1. CASE execPosition[s] = p
    BY <1>1, <1>3, <2>1, SharesAdded DEF Bought, SharesFinite
  <2>2. CASE execPosition[s] # p
    BY <1>2, <1>3, <2>2 DEF Bought, SharesFinite
  <2> QED
    BY <2>1, <2>2
<1>6. Increased(p)' = IF execPosition[s] = p /\ s \notin OpenSig
                      THEN Increased(p) + n ELSE Increased(p)
  <2>1. CASE execPosition[s] = p /\ s \notin OpenSig
    <3>1. s \in BuySig \ OpenSig /\ n \in Nat
      BY <1>1, <2>1
    <3>2. IsFiniteSet(Shares(BuySig \ OpenSig, p))
      BY CountTypes
    <3>3. \A t \in (BuySig \ OpenSig) \ {s} : fillQuantity'[t] = fillQuantity[t]
      BY <1>1, <1>3
    <3> QED
      BY <1>1, <2>1, <3>1, <3>2, <3>3, SharesAdded DEF Increased
  <2>2. CASE ~(execPosition[s] = p /\ s \notin OpenSig)
    BY <1>2, <1>3, <2>2 DEF Increased
  <2> QED
    BY <2>1, <2>2
<1> QED
  BY <1>4, <1>5, <1>6

\* A fill of an exit: its execution records what it sold, up to what it asked for.
LEMMA SellCounts ==
    ASSUME IInv, SharesFinite, NEW s \in Sig, NEW n \in 1 .. MaxQty, FillSell(s, n),
           NEW p \in Pos
    PROVE  /\ IsFiniteSet(Shares(BuySig, p)') /\ IsFiniteSet(Shares(SellSig, p)')
           /\ Bought(p)' = Bought(p) /\ Increased(p)' = Increased(p)
           /\ Sold(p)' = IF execPosition[s] = p
                         THEN Sold(p) + Lesser(Lesser(n, quantity[p]), requestedQty[s])
                         ELSE Sold(p)
<1> DEFINE k == Lesser(Lesser(n, quantity[execPosition[s]]), requestedQty[s])
<1>0. /\ TypeOK /\ fillQuantity[s] = 0 /\ execPosition[s] \in Pos
      /\ quantity[execPosition[s]] \in Nat /\ requestedQty[s] \in Nat
  BY FirstFill DEF IInv, TypeOK
<1>1. /\ s \in SellSig /\ UNCHANGED execPosition
      /\ fillQuantity'[s] = k
      /\ \A t \in Sig \ {s} : fillQuantity'[t] = fillQuantity[t]
      /\ k \in Nat
  <2>1. fillQuantity' = [fillQuantity EXCEPT ![s] = k]
    <3> DEFINE sold == Lesser(n, quantity[execPosition[s]])
               wanted == IF requestedQty[s] > fillQuantity[s]
                           THEN requestedQty[s] - fillQuantity[s] ELSE 0
    <3>1. fillQuantity' = [fillQuantity EXCEPT ![s] =
                  Lesser(fillQuantity[s] + Lesser(sold, wanted), requestedQty[s])]
      BY DEF FillSell
    <3>2. sold \in Nat
      BY <1>0 DEF Lesser
    <3> HIDE DEF sold
    <3>3. Lesser(fillQuantity[s] + Lesser(sold, wanted), requestedQty[s])
            = Lesser(sold, requestedQty[s])
      BY <1>0, <3>2 DEF Lesser
    <3> QED
      BY <3>1, <3>3 DEF sold
  <2>2. k \in Nat
    BY <1>0 DEF Lesser
  <2> QED
    BY <1>0, <2>1, <2>2 DEF FillSell, TypeOK
<1> HIDE DEF k
<1>2. ASSUME NEW S \in SUBSET Sig, s \notin S \/ execPosition[s] # p
      PROVE  Shares(S, p)' = Shares(S, p)
  BY <1>1, <1>2, SharesStay
<1>3. SellSig \in SUBSET Sig /\ BuySig \in SUBSET Sig /\ s \notin BuySig
  BY <1>1 DEF SellSig, BuySig
<1>4. /\ IsFiniteSet(Shares(BuySig, p)') /\ Bought(p)' = Bought(p)
      /\ Increased(p)' = Increased(p)
  BY <1>2, <1>3 DEF Bought, Increased, SharesFinite
<1>5. CASE execPosition[s] = p
  BY <1>0, <1>1, <1>3, <1>4, <1>5, SharesAdded DEF Sold, SharesFinite, k
<1>6. CASE execPosition[s] # p
  BY <1>2, <1>3, <1>4, <1>6 DEF Sold, SharesFinite
<1> QED
  BY <1>5, <1>6

\* What a fill of an entry or increase does to positions: its own gets the shares,
\* and if that has been entered before, the order is an increase.
LEMMA BuyPositions ==
    ASSUME IInv, NEW s \in Sig, NEW n \in 1 .. MaxQty, FillBuy(s, n),
           NEW p \in Pos
    PROVE  /\ execPosition[s] # p => status'[p] = status[p] /\ quantity'[p] = quantity[p]
           /\ execPosition[s] = p =>
                /\ status[p] \in {"pending", "open"} /\ status'[p] = "open"
                /\ quantity'[p] = quantity[p] + n
                /\ Entered(p) => s \notin OpenSig
<1>1. /\ fillQuantity[s] = 0 /\ execStatus[s] = "placing" /\ execPosition[s] \in Pos
  BY FirstFill
<1>2. /\ TypeOK /\ status \in [Pos -> PositionStatuses] /\ quantity \in [Pos -> Nat]
      /\ RowsIssued /\ EnteredByOwnOrder /\ HoldingIffShares
  BY DEF IInv, RowsAgree, TypeOK
<1>3. /\ status' = [status EXCEPT ![execPosition[s]] = "open"]
      /\ quantity' = [quantity EXCEPT ![execPosition[s]] =
                        IF status[execPosition[s]] = "open"
                          THEN quantity[execPosition[s]] + n ELSE fillQuantity[s] + n]
      /\ s \in BuySig /\ CanBuy(s, execPosition[s])
  BY DEF FillBuy
<1>4. CASE execPosition[s] # p
  BY <1>2, <1>3, <1>4
<1>5. CASE execPosition[s] = p
  <2>1. status[p] \in {"pending", "open"}
    BY <1>1, <1>3, <1>5 DEF CanBuy, LateFill
  <2>2. status[p] = "pending" => quantity[p] = 0
    BY <1>2 DEF HoldingIffShares, HoldingStatuses
  <2>3. quantity'[p] = quantity[p] + n
    BY <1>1, <1>2, <1>3, <1>5, <2>1, <2>2
  <2>4. Entered(p) => s \notin OpenSig
    BY <1>1, <1>2, <1>3, <1>5 DEF Entered, RowsIssued, EnteredByOwnOrder
  <2> QED
    BY <1>2, <1>3, <1>5, <2>1, <2>3, <2>4
<1> QED
  BY <1>4, <1>5

\* What a fill of an exit does to positions: its own gives up what was sold, and is
\* closed by a redemption and when it keeps less than the minimum.
LEMMA SellPositions ==
    ASSUME IInv, NEW s \in Sig, NEW n \in 1 .. MaxQty, FillSell(s, n),
           NEW p \in Pos
    PROVE  /\ execPosition[s] # p => status'[p] = status[p] /\ quantity'[p] = quantity[p]
           /\ s \notin RedemptionSig => n <= requestedQty[s]
           /\ execPosition[s] = p =>
                LET left == quantity[p] - Lesser(n, quantity[p])
                    done == s \in RedemptionSig \/ left < MinOrderShares
                IN  /\ status[p] # "closed"
                    /\ quantity'[p] = IF done THEN 0 ELSE left
                    /\ status'[p] = "closed" <=> done
<1> DEFINE q == execPosition[s]
           left == quantity[q] - Lesser(n, quantity[q])
           done == s \in RedemptionSig \/ left < MinOrderShares
<1>1. /\ status \in [Pos -> PositionStatuses] /\ quantity \in [Pos -> Nat] /\ q \in Pos
  BY FirstFill DEF IInv, TypeOK
<1>2. /\ quantity' = [quantity EXCEPT ![q] = IF done THEN 0 ELSE left]
      /\ status' = [status EXCEPT ![q] =
                      IF done THEN "closed"
                      ELSE IF status[q] = "closing" THEN "open" ELSE status[q]]
      /\ status[q] # "closed"
      /\ s \notin RedemptionSig => n <= requestedQty[s]
  BY AllSimulated DEF FillSell, CanSell, HonestFill
<1> HIDE DEF left, done
<1>3. CASE q # p
  BY <1>1, <1>2, <1>3
<1>4. CASE q = p
  <2>1. /\ quantity'[q] = IF done THEN 0 ELSE left
        /\ status'[q] = "closed" <=> done
    BY <1>1, <1>2
  <2> QED
    BY <1>2, <1>4, <2>1 DEF left, done
<1> QED
  BY <1>3, <1>4

\* Once a position has been entered, it gets shares from increases only.
LEMMA CoversStays ==
    ASSUME IInv, SharesFinite, NoFill \/ OneFill, NEW p \in Pos, Entered(p),
           NEW n \in Nat, Covers(n, p)
    PROVE  quantity'[p] <= n + Increased(p)'
<1>1. quantity[p] \in Nat /\ Increased(p) \in Nat /\ quantity[p] <= n + Increased(p)
  BY CountTypes DEF IInv, TypeOK, Covers
<1>2. CASE NoFill
  <2>1. quantity'[p] = quantity[p] /\ UNCHANGED fillQuantity
    BY <1>2 DEF NoFill, vars, positionVars, execVars
  <2>2. Increased(p)' = Increased(p)
    BY <2>1, FillsAreLedgerSteps, NoFillCounts DEF Increased, BuySig
  <2> QED
    BY <1>1, <2>1, <2>2
<1>3. ASSUME NEW s \in Sig, NEW m \in 1 .. MaxQty, FillBuy(s, m)
      PROVE  quantity'[p] <= n + Increased(p)'
  <2>1. CASE execPosition[s] = p
    <3>1. quantity'[p] = quantity[p] + m /\ Increased(p)' = Increased(p) + m
      BY <1>3, <2>1, BuyPositions, BuyCounts
    <3> QED
      BY <1>1, <3>1
  <2>2. CASE execPosition[s] # p
    <3>1. quantity'[p] = quantity[p] /\ Increased(p)' = Increased(p)
      BY <1>3, <2>2, BuyPositions, BuyCounts
    <3> QED
      BY <1>1, <3>1
  <2> QED
    BY <2>1, <2>2
<1>4. ASSUME NEW s \in Sig, NEW m \in 1 .. MaxQty, FillSell(s, m)
      PROVE  quantity'[p] <= n + Increased(p)'
  <2>1. Increased(p)' = Increased(p)
    BY <1>4, SellCounts
  <2>2. \/ quantity'[p] \in {quantity[p], 0}
        \/ quantity'[p] = quantity[p] - Lesser(m, quantity[p])
    BY <1>4, SellPositions
  <2>3. Lesser(m, quantity[p]) \in Nat
    BY <1>1 DEF Lesser
  <2> QED
    BY <1>1, <2>1, <2>2, <2>3
<1> QED
  BY <1>2, <1>3, <1>4 DEF OneFill

\* Positions are sold and redeemed after their entry.
LEMMA ExitsPreserved ==
    ASSUME PipelineTypeOK, IInv, ExitsAreLate, [Next]_vars, [PipelineNext]_allVars
    PROVE  ExitsAreLate'
<1>1. ASSUME NEW s \in SellSig, NEW p \in Pos, execPosition'[s] = p
      PROVE  Entered(p)'
  <2>1. s \in Sig /\ s \notin BuySig
    BY DEF SellSig
  <2>2. Entered(p)
    <3>1. CASE execPosition'[s] = execPosition[s]
      BY <1>1, <3>1 DEF ExitsAreLate
    <3>2. ASSUME NEW q \in Pos, ClaimBuy(s, q)  PROVE FALSE
      BY <2>1, <3>2 DEF ClaimBuy, IInv, TypeOK
    <3>3. ASSUME NEW q \in Pos, NEW n \in 1 .. MaxQty, ClaimSell(s, q, n)
          PROVE  Entered(p)
      <4>1. q = p /\ quantity[q] > 0
        BY <1>1, <2>1, <3>3 DEF ClaimSell, InsertExecution, IInv, TypeOK
      <4> QED
        BY <4>1, HoldersEntered
    <3> QED
      BY <2>1, <3>1, <3>2, <3>3, ExecutionsStay DEF IInv
  <2> QED
    BY <2>2, EnteredStays
<1>2. ASSUME NEW p \in Pos, redemption'[p] # "none"
      PROVE  Entered(p)'
  <2>1. Entered(p)
    BY <1>2, RedemptionReads, HoldersEntered DEF ExitsAreLate
  <2> QED
    BY <2>1, EnteredStays
<1> QED
  BY <1>1, <1>2 DEF ExitsAreLate, Entered

\* What a redemption read, claimed or reported falls behind by increases only.
LEMMA RedemptionsPreserved ==
    ASSUME PipelineTypeOK, QueuesInOrder, IInv, SharesFinite, ExitsAreLate,
           RedemptionsCover, NoFill \/ OneFill, [PipelineNext]_allVars
    PROVE  RedemptionsCover'
<1>0. /\ TypeOK /\ ExecutionHasPosition /\ [Next]_vars
      /\ redeemQty \in [Pos -> Nat] /\ requestedQty \in [Sig -> Nat]
      /\ quantity \in [Pos -> Nat]
      /\ results \subseteq [sig : Sig, qty : Nat]
      /\ RedemptionSig \subseteq SellSig /\ RedemptionSig \subseteq Sig
  BY FillsAreLedgerSteps, BoundAssumption
     DEF IInv, RowsAgree, PipelineTypeOK, TypeOK, RedemptionSig, SellSig, BuySig
<1>1. ASSUME NEW p \in Pos, redemption'[p] # "none"
      PROVE  Covers(redeemQty[p], p)'
  <2>1. CASE redemption[p] # "none" /\ redeemQty'[p] = redeemQty[p]
    <3>1. Entered(p) /\ Covers(redeemQty[p], p) /\ redeemQty[p] \in Nat
      BY <1>0, <2>1 DEF ExitsAreLate, RedemptionsCover
    <3>2. quantity'[p] <= redeemQty[p] + Increased(p)'
      BY <3>1, CoversStays
    <3> QED
      BY <2>1, <3>2 DEF Covers
  <2>2. CASE redeemQty'[p] = quantity[p] /\ UNCHANGED vars
    <3>1. quantity'[p] = redeemQty'[p] /\ redeemQty'[p] \in Nat
      BY <1>0, <2>2 DEF vars, positionVars
    <3>2. Increased(p)' = Increased(p) /\ Increased(p) \in Nat
      BY <1>0, <2>2, CountTypes, NoFillCounts DEF Increased, BuySig, vars, execVars
    <3> QED
      BY <3>1, <3>2 DEF Covers
  <2> QED
    BY <1>1, <2>1, <2>2, RedemptionReads
<1>2. ASSUME NEW r \in RedemptionSig, NEW p \in Pos, execPosition'[r] = p
      PROVE  Covers(requestedQty[r], p)'
  <2>1. CASE execPosition'[r] = execPosition[r] /\ requestedQty'[r] = requestedQty[r]
    <3>1. Entered(p) /\ Covers(requestedQty[r], p) /\ requestedQty[r] \in Nat
      BY <1>0, <1>2, <2>1 DEF ExitsAreLate, RedemptionsCover
    <3>2. quantity'[p] <= requestedQty[r] + Increased(p)'
      BY <3>1, CoversStays
    <3> QED
      BY <2>1, <3>2 DEF Covers
  <2>2. ASSUME NEW q \in Pos, redemption[q] # "none", ClaimSell(r, q, redeemQty[q])
        PROVE  Covers(requestedQty[r], p)'
    <3>1. q = p /\ requestedQty'[r] = redeemQty[q]
      BY <1>0, <1>2, <2>2 DEF ClaimSell, InsertExecution, TypeOK
    <3>2. Entered(p) /\ Covers(redeemQty[p], p) /\ redeemQty[p] \in Nat
      BY <1>0, <2>2, <3>1 DEF ExitsAreLate, RedemptionsCover
    <3>3. quantity'[p] <= redeemQty[p] + Increased(p)'
      BY <3>2, CoversStays
    <3> QED
      BY <3>1, <3>3 DEF Covers
  <2> QED
    BY <2>1, <2>2, RedemptionClaims
<1>3. ASSUME NEW r \in results', r.sig \in RedemptionSig, r.qty > 0
      PROVE  execPosition'[r.sig] \in Pos /\ Covers(r.qty, execPosition[r.sig])'
  <2>1. ASSUME r \in results
        PROVE  /\ execPosition[r.sig] \in Pos /\ r.qty \in Nat
               /\ Covers(r.qty, execPosition[r.sig])
    BY <1>0, <1>3, <2>1 DEF RedemptionsCover
  <2>2. ASSUME NEW p \in Pos, redemption[p] # "none", execPosition[r.sig] = p,
               r.qty = redeemQty[p]
        PROVE  /\ execPosition[r.sig] \in Pos /\ r.qty \in Nat
               /\ Covers(r.qty, execPosition[r.sig])
    BY <1>0, <2>2 DEF RedemptionsCover
  <2>3. /\ execPosition[r.sig] \in Pos /\ r.qty \in Nat
        /\ Covers(r.qty, execPosition[r.sig])
    BY <1>3, <2>1, <2>2, RedemptionReports
  <2>4. execPosition'[r.sig] = execPosition[r.sig] /\ Entered(execPosition[r.sig])
    BY <1>0, <1>3, <2>3, ClaimsStay DEF ExitsAreLate
  <2>5. PICK p \in Pos : p = execPosition[r.sig]
    BY <2>3
  <2>6. quantity'[p] <= r.qty + Increased(p)'
    BY <2>3, <2>4, <2>5, CoversStays
  <2>7. Covers(r.qty, execPosition[r.sig])'
    BY <2>4, <2>5, <2>6 DEF Covers, Increased, Shares
  <2> QED
    BY <2>4, <2>5, <2>7
<1> QED
  BY <1>1, <1>2, <1>3 DEF RedemptionsCover

\* Fills are finite, and what they do not add stays.
LEMMA FinitePreserved ==
    ASSUME IInv, SharesFinite, NoFill \/ OneFill
    PROVE  SharesFinite'
<1>1. ASSUME NEW p \in Pos
      PROVE  IsFiniteSet(Shares(BuySig, p)') /\ IsFiniteSet(Shares(SellSig, p)')
  <2>1. CASE NoFill
    <3>1. UNCHANGED fillQuantity /\ BuySig \in SUBSET Sig /\ SellSig \in SUBSET Sig
      BY <2>1 DEF NoFill, vars, execVars, BuySig, SellSig
    <3>2. /\ Shares(BuySig, p)' = Shares(BuySig, p)
          /\ Shares(SellSig, p)' = Shares(SellSig, p)
      BY <2>1, <3>1, FillsAreLedgerSteps, NoFillCounts
    <3> QED
      BY <3>2 DEF SharesFinite
  <2>2. CASE OneFill
    BY <2>2, BuyCounts, SellCounts DEF OneFill
  <2> QED
    BY <2>1, <2>2
<1> QED
  BY <1>1 DEF SharesFinite

\* Without a fill a position that closes is not missing any share.
LEMMA ConservedWithoutFill ==
    ASSUME IInv, IInv', SharesFinite, SharesConserved, NoFill, NEW p \in Pos
    PROVE  IF status'[p] # "closed" THEN Missing(p)' = 0
           ELSE \/ Missing(p)' \in 0 .. MinOrderShares - 1
                \/ /\ \E r \in RedemptionSig : execPosition'[r] = p
                   /\ Missing(p)' \in 0 .. Increased(p)'
<1>1. /\ [Next]_vars /\ UNCHANGED <<quantity, fillQuantity>>
      /\ TypeOK /\ ExecutionHasPosition
  BY FillsAreLedgerSteps DEF NoFill, vars, positionVars, execVars, IInv, RowsAgree
<1>2. /\ Bought(p)' = Bought(p) /\ Increased(p)' = Increased(p) /\ Sold(p)' = Sold(p)
  BY <1>1, NoFillCounts DEF Bought, Increased, Sold, BuySig, SellSig
<1>3. Missing(p)' = Missing(p)
  BY <1>1, <1>2 DEF Missing
<1>4. \A r \in RedemptionSig : execPosition[r] = p => execPosition'[r] = p
  BY <1>1, ClaimsStay DEF RedemptionSig
<1>5. status[p] = "closed" => status'[p] = "closed"
  BY <1>1, ClosedStep
<1>6. 0 \in 0 .. MinOrderShares - 1
  BY BoundAssumption
<1>7. CASE status[p] = "closed"
  BY <1>2, <1>3, <1>4, <1>5, <1>7 DEF SharesConserved
<1>8. CASE status[p] # "closed"
  BY <1>3, <1>6, <1>8 DEF SharesConserved
<1> QED
  BY <1>7, <1>8

\* A buy adds to the count what it adds to the position.
LEMMA ConservedByBuy ==
    ASSUME IInv, IInv', SharesFinite, SharesConserved, NEW s \in Sig,
           NEW n \in 1 .. MaxQty, FillBuy(s, n), NEW p \in Pos
    PROVE  IF status'[p] # "closed" THEN Missing(p)' = 0
           ELSE \/ Missing(p)' \in 0 .. MinOrderShares - 1
                \/ /\ \E r \in RedemptionSig : execPosition'[r] = p
                   /\ Missing(p)' \in 0 .. Increased(p)'
<1>1. /\ quantity[p] \in Nat /\ Bought(p) \in Nat /\ Sold(p) \in Nat
      /\ UNCHANGED execPosition
  BY CountTypes DEF IInv, TypeOK, FillBuy
<1>2. CASE execPosition[s] = p
  <2>1. /\ status[p] # "closed" /\ status'[p] # "closed"
        /\ quantity'[p] = quantity[p] + n
        /\ Bought(p)' = Bought(p) + n /\ Sold(p)' = Sold(p)
    BY <1>2, BuyPositions, BuyCounts
  <2>2. Missing(p) = 0
    BY <2>1 DEF SharesConserved
  <2>3. Missing(p)' = 0
    BY <1>1, <2>1, <2>2 DEF Missing
  <2> QED
    BY <2>1, <2>3
<1>3. CASE execPosition[s] # p
  <2>1. /\ status'[p] = status[p] /\ quantity'[p] = quantity[p]
        /\ Bought(p)' = Bought(p) /\ Sold(p)' = Sold(p) /\ Increased(p)' = Increased(p)
    BY <1>3, BuyPositions, BuyCounts
  <2>2. Missing(p)' = Missing(p)
    BY <2>1 DEF Missing
  <2> QED
    BY <1>1, <2>1, <2>2 DEF SharesConserved
<1> QED
  BY <1>2, <1>3

\* A sale adds to the count what the position gives up.  What a closed position
\* writes off is below the minimum, or was bought since its redemption read it.
LEMMA ConservedBySell ==
    ASSUME IInv, IInv', SharesFinite, SharesConserved, RedemptionsCover, NEW s \in Sig,
           NEW n \in 1 .. MaxQty, FillSell(s, n), NEW p \in Pos,
           s \in RedemptionSig => Result(s, n) \in results
    PROVE  IF status'[p] # "closed" THEN Missing(p)' = 0
           ELSE \/ Missing(p)' \in 0 .. MinOrderShares - 1
                \/ /\ \E r \in RedemptionSig : execPosition'[r] = p
                   /\ Missing(p)' \in 0 .. Increased(p)'
<1>1. /\ quantity[p] \in Nat /\ requestedQty[s] \in Nat
      /\ Bought(p) \in Nat /\ Sold(p) \in Nat /\ Increased(p) \in Nat
      /\ MinOrderShares \in Nat \ {0} /\ UNCHANGED execPosition
  BY CountTypes, BoundAssumption DEF IInv, TypeOK, FillSell
<1>2. CASE execPosition[s] = p
  <2> DEFINE sold == Lesser(n, quantity[p])
             left == quantity[p] - sold
             done == s \in RedemptionSig \/ left < MinOrderShares
  <2>1. /\ status[p] # "closed" /\ (status'[p] = "closed" <=> done)
        /\ quantity'[p] = IF done THEN 0 ELSE left
        /\ s \notin RedemptionSig => n <= requestedQty[s]
    BY <1>2, SellPositions
  <2>2. /\ Bought(p)' = Bought(p) /\ Increased(p)' = Increased(p)
        /\ Sold(p)' = Sold(p) + Lesser(sold, requestedQty[s])
    BY <1>2, SellCounts
  <2>3. Bought(p) - Sold(p) - quantity[p] = 0
    BY <2>1 DEF SharesConserved, Missing
  <2>4. Missing(p)' = Bought(p) - (Sold(p) + Lesser(sold, requestedQty[s]))
                        - quantity'[p]
    BY <2>2 DEF Missing
  <2>5. sold \in 0 .. quantity[p] /\ sold <= n /\ left \in 0 .. quantity[p]
    BY <1>1 DEF Lesser
  <2>6. CASE s \notin RedemptionSig
    <3>1. Lesser(sold, requestedQty[s]) = sold
      BY <1>1, <2>1, <2>5, <2>6 DEF Lesser
    <3>2. CASE done
      <4>1. Missing(p)' = left
        BY <1>1, <2>1, <2>3, <2>4, <2>5, <3>1, <3>2
      <4> QED
        BY <1>1, <2>1, <2>5, <2>6, <3>2, <4>1
    <3>3. CASE ~done
      <4>1. Missing(p)' = 0
        BY <1>1, <2>1, <2>3, <2>4, <2>5, <3>1, <3>3
      <4> QED
        BY <2>1, <3>3, <4>1
    <3> QED
      BY <3>2, <3>3
  <2>7. CASE s \in RedemptionSig
    <3>1. Covers(requestedQty[s], p)
      BY <1>2, <2>7 DEF RedemptionsCover
    <3>2. Covers(n, p)
      <4>1. /\ Result(s, n) \in results /\ Result(s, n).sig = s /\ Result(s, n).qty = n
            /\ n > 0
        BY <2>7 DEF Result
      <4> QED
        BY <1>2, <2>7, <4>1 DEF RedemptionsCover
    <3>3. quantity[p] - Lesser(sold, requestedQty[s]) \in 0 .. Increased(p)
      BY <1>1, <2>5, <3>1, <3>2 DEF Covers, Lesser
    <3>4. Missing(p)' = quantity[p] - Lesser(sold, requestedQty[s])
      <4>1. Lesser(sold, requestedQty[s]) \in Nat /\ quantity'[p] = 0
        BY <1>1, <2>1, <2>5, <2>7 DEF Lesser
      <4> QED
        BY <1>1, <2>3, <2>4, <4>1
    <3> QED
      BY <1>1, <1>2, <2>1, <2>2, <2>7, <3>3, <3>4
  <2> QED
    BY <2>6, <2>7
<1>3. CASE execPosition[s] # p
  <2>1. /\ status'[p] = status[p] /\ quantity'[p] = quantity[p]
        /\ Bought(p)' = Bought(p) /\ Sold(p)' = Sold(p) /\ Increased(p)' = Increased(p)
    BY <1>3, SellPositions, SellCounts
  <2>2. Missing(p)' = Missing(p)
    BY <2>1 DEF Missing
  <2> QED
    BY <1>1, <2>1, <2>2 DEF SharesConserved
<1> QED
  BY <1>2, <1>3

\* So shares are conserved by every step of the ledger the pipeline makes.
LEMMA ConservedPreserved ==
    ASSUME IInv, IInv', SharesFinite, SharesConserved, RedemptionsCover,
           NoFill \/ OneFill
    PROVE  SharesConserved'
<1>1. CASE NoFill
  BY <1>1, ConservedWithoutFill DEF SharesConserved
<1>2. ASSUME NEW s \in Sig, NEW n \in 1 .. MaxQty, FillBuy(s, n)
      PROVE  SharesConserved'
  BY <1>2, ConservedByBuy DEF SharesConserved
<1>3. ASSUME NEW s \in Sig, NEW n \in 1 .. MaxQty, FillSell(s, n),
             s \in RedemptionSig => Result(s, n) \in results
      PROVE  SharesConserved'
  BY <1>3, ConservedBySell DEF SharesConserved
<1> QED
  BY <1>1, <1>2, <1>3 DEF OneFill

(***************************************************************************)
(*                             The theorems                                *)
(***************************************************************************)

\* Nothing is queued, placed or bought at the start.
LEMMA PipelineInitInv == PipelineInit => PipelineInv
<1> SUFFICES ASSUME PipelineInit
             PROVE  PipelineInv
  OBVIOUS
<1>1. IInv
  BY InitInv DEF PipelineInit
<1>2. /\ execStatus = [s \in Sig |-> "none"] /\ execPosition = [s \in Sig |-> NoPos]
      /\ quantity = [p \in Pos |-> 0] /\ requestedQty = [s \in Sig |-> 0]
      /\ status = [p \in Pos |-> "none"] /\ NoPos \notin Pos
      /\ MaxQty \in Nat /\ MinOrderShares \in Nat \ {0}
  BY AbsentAssumption, BoundAssumption DEF PipelineInit, Init
<1>3. PipelineTypeOK
  <2>1. TypeOK /\ quantity \in [Pos -> 0 .. MaxQty] /\ requestedQty \in [Sig -> 0 .. MaxQty]
    BY <1>1, <1>2 DEF IInv
  <2>2. active \in [Pos -> [sig : Sig \cup {NoSig}, at : Places \cup {"idle"}]]
    BY DEF PipelineInit, NobodyActive, Idle
  <2>3. redeemQty \in [Pos -> 0 .. MaxQty] /\ up \in BOOLEAN
    BY <1>2 DEF PipelineInit
  <2>4. /\ orders \subseteq Sig \X Pos /\ results \subseteq [sig : Sig, qty : Nat]
        /\ suspects \subseteq Sig
        /\ watch \in [Pos -> {"none", "listed", "cancelled", "reverted"}]
        /\ manual \in [Pos -> CloseSig \cup {NoSig}]
        /\ redemption \in [Pos -> {"none", "listed", "claimed"}]
        /\ resolved \subseteq Leg
        /\ placed \in [Sig -> Nat] /\ sent \in [Sig -> Nat] /\ faults \in Nat
    BY DEF PipelineInit
  <2> QED
    BY <2>1, <2>2, <2>3, <2>4 DEF PipelineTypeOK
<1>4. QueuesInOrder
  BY DEF PipelineInit, NobodyActive, QueuesInOrder, Working
<1>5. PlacersHoldClaims
  <2>1. placed = [s \in Sig |-> 0] /\ active = [p \in Pos |-> Idle]
    BY DEF PipelineInit, NobodyActive
  <2> QED
    BY <2>1 DEF PlacersHoldClaims, OrderPlacedOnce, Idle
<1>6. /\ \A s \in Sig, p \in Pos : execPosition[s] # p
      /\ \A p \in Pos : redemption[p] = "none"
      /\ results = {}
  BY <1>2 DEF PipelineInit
<1>7. ExitsAreLate /\ RedemptionsCover
  BY <1>6 DEF ExitsAreLate, RedemptionsCover, SellSig, RedemptionSig
<1>8. \A S \in SUBSET Sig, p \in Pos : Shares(S, p) = {}
  BY <1>6 DEF Shares
<1>9. BuySig \in SUBSET Sig /\ SellSig \in SUBSET Sig
  BY DEF BuySig, SellSig
<1>10. SharesFinite
  BY <1>8, <1>9, FS_EmptySet DEF SharesFinite
<1>11. SharesConserved
  <2>1. \A p \in Pos : Bought(p) = 0 /\ Sold(p) = 0
    BY <1>8, <1>9, FS_EmptySet DEF Bought, Sold
  <2> QED
    BY <1>2, <2>1 DEF SharesConserved, Missing
<1> QED
  BY <1>1, <1>3, <1>4, <1>5, <1>7, <1>10, <1>11 DEF PipelineInv

\* Every step of every actor preserves the invariant.
LEMMA PipelineStepInv == PipelineInv /\ [PipelineNext]_allVars => PipelineInv'
<1> SUFFICES ASSUME PipelineInv, [PipelineNext]_allVars
             PROVE  PipelineInv'
  OBVIOUS
<1> USE DEF PipelineInv
<1>1. NoFill \/ OneFill
  BY PipelineLedgerStep
<1>2. [Next]_vars
  BY <1>1, FillsAreLedgerSteps
<1>3. IInv'
  BY <1>2, StepInv
<1>4. PipelineTypeOK'
  BY <1>3, PipelineTypePreserved
<1>5. QueuesInOrder'
  BY <1>4, QueuesPreserved
<1>6. PlacersHoldClaims'
  BY <1>2, <1>3, <1>4, PlacersPreserved
<1>7. ExitsAreLate'
  BY <1>2, ExitsPreserved
<1>8. SharesFinite'
  BY <1>1, FinitePreserved
<1>9. RedemptionsCover'
  BY <1>1, RedemptionsPreserved
<1>10. SharesConserved'
  BY <1>1, <1>3, ConservedPreserved
<1> QED
  BY <1>3, <1>4, <1>5, <1>6, <1>7, <1>8, <1>9, <1>10

\* The invariant holds throughout, whatever is lost, repeated or restarted.
THEOREM PipelineInvariant == PipelineSpec => []PipelineInv
BY PipelineInitInv, PipelineStepInv, PTL DEF PipelineSpec

\* Executors, consumer, backend, watchdogs and redemptions use the ledger's
\* transactions as it allows.  What is proved of the ledger holds of the pipeline.
THEOREM PipelineUsesLedger == PipelineSpec => LedgerSpec
<1>1. PipelineInit => Init
  BY DEF PipelineInit
<1>2. PipelineInv /\ [PipelineNext]_allVars => [Next]_vars
  BY PipelineLedgerStep, FillsAreLedgerSteps DEF PipelineInv
<1> QED
  BY <1>1, <1>2, PipelineInvariant, PTL DEF PipelineSpec, LedgerSpec, Spec

\* So simulated trading takes a position through its lifecycle and nothing else.
THEOREM PipelineImplementsLifecycle == PipelineSpec => ImplementsLifecycle
BY PipelineUsesLedger, LedgerImplementsLifecycle, PTL DEF LedgerSpec

\* However often its job comes back, an order goes to the book once.
THEOREM OrdersPlacedOnce == PipelineSpec => []OrderPlacedOnce
BY PipelineInvariant, PTL DEF PipelineInv, PlacersHoldClaims

\* No job, result, crash, janitor or second attempt makes shares or loses them, but
\* for the dust of a close and what a redemption does not know of.
THEOREM SharesAreConserved == PipelineSpec => []SharesConserved
BY PipelineInvariant, PTL DEF PipelineInv
=============================================================================
