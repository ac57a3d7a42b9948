------------------------ MODULE PositionLedgerProofs ------------------------
(***************************************************************************)
(* Proofs about PositionLedger, for any set of positions, legs and order   *)
(* signals.                                                                *)
(***************************************************************************)
EXTENDS PositionLedger, TLAPS

\* No transaction of the ledger stores a value outside its column's type.
LEMMA TypePreserved ==
    ASSUME TypeOK, ExecutionHasPosition, [Next]_vars
    PROVE  TypeOK'
<1> USE BoundAssumption, ReasonAssumption, LegAssumption DEF TypeOK
<1>1. ASSUME NEW s \in Sig, NEW p \in Pos, ReserveOpen(s, p)
      PROVE  TypeOK'
  BY <1>1 DEF ReserveOpen, CommitReservation, execVars, OpenSig, BuySig, PositionStatuses, Ages
<1>2. ASSUME NEW s \in Sig, NEW p \in Pos, ReserveIncrease(s, p)
      PROVE  TypeOK'
  BY <1>2 DEF ReserveIncrease, CommitReservation, execVars, positionVars, OpenSig, BuySig, Ages
<1>3. ASSUME NEW s \in Sig, NEW t \in Sig, UpdateOrderSignalId(s, t)
      PROVE  TypeOK'
  BY <1>3 DEF UpdateOrderSignalId, Renamable, execVars, positionVars, OpenSig, BuySig, Ages
<1>4. ASSUME NEW s \in Sig, Release(s)
      PROVE  TypeOK'
  BY <1>4 DEF Release, ClearReservation, execVars, PositionStatuses, Ages
<1>5. ASSUME NEW s \in Sig, ReservationAges(s)
      PROVE  TypeOK'
  BY <1>5 DEF ReservationAges, execVars, positionVars, Ages
<1>6. ASSUME ReservationJanitor
      PROVE  TypeOK'
  BY <1>6 DEF ReservationJanitor, LostEntries, ExpiredReservations, execVars, PositionStatuses, Ages
<1>7. ASSUME NEW s \in Sig, NEW p \in Pos, ClaimBuy(s, p)
      PROVE  TypeOK'
  BY <1>7 DEF ClaimBuy, InsertExecution, positionVars, reservationVars, ExecutionStatuses
<1>8. ASSUME NEW s \in Sig, NEW p \in Pos, NEW n \in 1 .. MaxQty, ClaimSell(s, p, n)
      PROVE  TypeOK'
  BY <1>8 DEF ClaimSell, InsertExecution, positionVars, reservationVars, ExecutionStatuses
<1>9. ASSUME NEW s \in Sig, RedemptionTimeout(s)
      PROVE  TypeOK'
  BY <1>9 DEF RedemptionTimeout, SetExecStatus, positionVars, reservationVars, ExecutionStatuses
<1>10. ASSUME NEW s \in Sig, RearmRedemption(s)
      PROVE  TypeOK'
  BY <1>10 DEF RearmRedemption, SetExecStatus, positionVars, reservationVars, ExecutionStatuses
<1>11. ASSUME NEW s \in Sig, FinalizeFailed(s)
      PROVE  TypeOK'
  BY <1>11 DEF FinalizeFailed, SetExecStatus, ClearReservation, ExecutionStatuses, PositionStatuses, HoldingStatuses, Ages
<1>12. ASSUME NEW s \in Sig, RejectFill(s)
      PROVE  TypeOK'
  BY <1>12 DEF RejectFill, SetExecStatus, positionVars, reservationVars, ExecutionStatuses
<1>13. ASSUME NEW s \in Sig, NEW n \in 1 .. MaxQty, FillBuy(s, n)
      PROVE  TypeOK'
  <2> DEFINE p == execPosition[s]
  <2>1. n \in Nat /\ s \in Sig /\ fillQuantity[s] \in Nat
    OBVIOUS
  <2>2. quantity' \in [Pos -> Nat]
    <3>1. p \in Pos => quantity[p] + n \in Nat /\ fillQuantity[s] + n \in Nat
      BY <2>1
    <3> QED
      BY <1>13, <3>1 DEF FillBuy
  <2>3. fillQuantity' \in [Sig -> Nat]
    BY <1>13, <2>1 DEF FillBuy
  <2>4. status' \in [Pos -> PositionStatuses]
    BY <1>13 DEF FillBuy, PositionStatuses, HoldingStatuses
  <2> QED
    BY <1>13, <2>2, <2>3, <2>4
       DEF FillBuy, SetExecStatus, ClearReservation, ExecutionStatuses, Ages
<1>14. ASSUME NEW s \in Sig, NEW n \in 1 .. MaxQty, FillSell(s, n)
      PROVE  TypeOK'
  <2> DEFINE p == execPosition[s]
             sold == Lesser(n, quantity[p])
             left == quantity[p] - sold
             wanted == IF requestedQty[s] > fillQuantity[s]
                         THEN requestedQty[s] - fillQuantity[s] ELSE 0
  <2>1. n \in Nat /\ fillQuantity[s] \in Nat /\ requestedQty[s] \in Nat
    OBVIOUS
  <2>2. p \in Pos => sold \in Nat /\ left \in Nat
    BY <2>1 DEF Lesser
  <2>3. p \in Pos =>
          Lesser(fillQuantity[s] + Lesser(sold, wanted), requestedQty[s]) \in Nat
    BY <2>1, <2>2 DEF Lesser
  <2>4. p \in Pos
    BY <1>14 DEF FillSell, AcceptsFill, ExecutionHasPosition
  <2>5. quantity' \in [Pos -> Nat] /\ fillQuantity' \in [Sig -> Nat]
    BY <1>14, <2>2, <2>3, <2>4 DEF FillSell
  <2>6. status' \in [Pos -> PositionStatuses]
    BY <1>14 DEF FillSell, PositionStatuses, HoldingStatuses
  <2> QED
    BY <1>14, <2>5, <2>6
       DEF FillSell, SetExecStatus, ExecutionStatuses, reservationVars
<1>15. ASSUME NEW p \in Pos, FailActiveForPosition(p)
      PROVE  TypeOK'
  BY <1>15 DEF FailActiveForPosition, positionVars, reservationVars, ExecutionStatuses
<1>16. ASSUME NEW p \in Pos, BeginClose(p)
      PROVE  TypeOK'
  BY <1>16 DEF BeginClose, MoveStatus, execVars, reservationVars, PositionStatuses, HoldingStatuses
<1>17. ASSUME NEW p \in Pos, RevertClose(p)
      PROVE  TypeOK'
  BY <1>17 DEF RevertClose, MoveStatus, execVars, reservationVars, PositionStatuses, HoldingStatuses
<1>18. ASSUME NEW p \in Pos, MarkFailed(p)
      PROVE  TypeOK'
  BY <1>18 DEF MarkFailed, MoveStatus, execVars, reservationVars, PositionStatuses, HoldingStatuses
<1>19. ASSUME NEW p \in Pos, MarkPendingResolution(p)
      PROVE  TypeOK'
  BY <1>19 DEF MarkPendingResolution, MoveStatus, execVars, reservationVars, PositionStatuses, HoldingStatuses
<1>20. CASE UNCHANGED vars
  BY <1>20 DEF vars, positionVars, execVars, reservationVars
<1> QED
  BY <1>1, <1>2, <1>3, <1>4, <1>5, <1>6, <1>7, <1>8, <1>9, <1>10, <1>11, <1>12, <1>13, <1>14, <1>15, <1>16, <1>17, <1>18, <1>19, <1>20
     DEF Next, ReservationStep, ExecutionStep, CloseStep

\* Execution rows are inserted with their position and never lose it: claim()
\* is the only insert, every other write saves an existing row.
LEMMA ExecutionPreserved ==
    ASSUME TypeOK, ExecutionHasPosition, [Next]_vars
    PROVE  ExecutionHasPosition'
<1> USE AbsentAssumption DEF TypeOK, ExecutionHasPosition, ExecutionStatuses
<1>1. ASSUME NEW s \in Sig, NEW p \in Pos, ReserveOpen(s, p)
      PROVE  ExecutionHasPosition'
  BY <1>1 DEF ReserveOpen, CommitReservation, execVars
<1>2. ASSUME NEW s \in Sig, NEW p \in Pos, ReserveIncrease(s, p)
      PROVE  ExecutionHasPosition'
  BY <1>2 DEF ReserveIncrease, CommitReservation, execVars, positionVars
<1>3. ASSUME NEW s \in Sig, NEW t \in Sig, UpdateOrderSignalId(s, t)
      PROVE  ExecutionHasPosition'
  BY <1>3 DEF UpdateOrderSignalId, Renamable, execVars, positionVars
<1>4. ASSUME NEW s \in Sig, Release(s)
      PROVE  ExecutionHasPosition'
  BY <1>4 DEF Release, ClearReservation, execVars
<1>5. ASSUME NEW s \in Sig, ReservationAges(s)
      PROVE  ExecutionHasPosition'
  BY <1>5 DEF ReservationAges, execVars, positionVars
<1>6. ASSUME ReservationJanitor
      PROVE  ExecutionHasPosition'
  BY <1>6 DEF ReservationJanitor, LostEntries, ExpiredReservations, execVars
<1>7. ASSUME NEW s \in Sig, NEW p \in Pos, ClaimBuy(s, p)
      PROVE  ExecutionHasPosition'
  BY <1>7 DEF ClaimBuy, InsertExecution, positionVars, reservationVars
<1>8. ASSUME NEW s \in Sig, NEW p \in Pos, NEW n \in 1 .. MaxQty, ClaimSell(s, p, n)
      PROVE  ExecutionHasPosition'
  BY <1>8 DEF ClaimSell, InsertExecution, positionVars, reservationVars
<1>9. ASSUME NEW s \in Sig, RedemptionTimeout(s)
      PROVE  ExecutionHasPosition'
  BY <1>9 DEF RedemptionTimeout, SetExecStatus, positionVars, reservationVars
<1>10. ASSUME NEW s \in Sig, RearmRedemption(s)
      PROVE  ExecutionHasPosition'
  BY <1>10 DEF RearmRedemption, SetExecStatus, positionVars, reservationVars
<1>11. ASSUME NEW s \in Sig, FinalizeFailed(s)
      PROVE  ExecutionHasPosition'
  BY <1>11 DEF FinalizeFailed, SetExecStatus, ClearReservation
<1>12. ASSUME NEW s \in Sig, RejectFill(s)
      PROVE  ExecutionHasPosition'
  BY <1>12 DEF RejectFill, SetExecStatus, positionVars, reservationVars, AcceptsFill
<1>13. ASSUME NEW s \in Sig, NEW n \in 1 .. MaxQty, FillBuy(s, n)
      PROVE  ExecutionHasPosition'
  BY <1>13 DEF FillBuy, SetExecStatus, ClearReservation, AcceptsFill
<1>14. ASSUME NEW s \in Sig, NEW n \in 1 .. MaxQty, FillSell(s, n)
      PROVE  ExecutionHasPosition'
  BY <1>14 DEF FillSell, SetExecStatus, reservationVars, AcceptsFill
<1>15. ASSUME NEW p \in Pos, FailActiveForPosition(p)
      PROVE  ExecutionHasPosition'
  BY <1>15 DEF FailActiveForPosition, positionVars, reservationVars
<1>16. ASSUME NEW p \in Pos, BeginClose(p)
      PROVE  ExecutionHasPosition'
  BY <1>16 DEF BeginClose, MoveStatus, execVars, reservationVars
<1>17. ASSUME NEW p \in Pos, RevertClose(p)
      PROVE  ExecutionHasPosition'
  BY <1>17 DEF RevertClose, MoveStatus, execVars, reservationVars
<1>18. ASSUME NEW p \in Pos, MarkFailed(p)
      PROVE  ExecutionHasPosition'
  BY <1>18 DEF MarkFailed, MoveStatus, execVars, reservationVars
<1>19. ASSUME NEW p \in Pos, MarkPendingResolution(p)
      PROVE  ExecutionHasPosition'
  BY <1>19 DEF MarkPendingResolution, MoveStatus, execVars, reservationVars
<1>20. CASE UNCHANGED vars
  BY <1>20 DEF vars, positionVars, execVars, reservationVars
<1> QED
  BY <1>1, <1>2, <1>3, <1>4, <1>5, <1>6, <1>7, <1>8, <1>9, <1>10, <1>11,
     <1>12, <1>13, <1>14, <1>15, <1>16, <1>17, <1>18, <1>19, <1>20
     DEF Next, ReservationStep, ExecutionStep, CloseStep

\* Fills and settlements change the status and the shares of a position
\* together; every other transaction moves between statuses of one kind.
LEMMA HoldingPreserved ==
    ASSUME TypeOK, ExecutionHasPosition, HoldingIffShares, [Next]_vars
    PROVE  HoldingIffShares'
<1> USE AbsentAssumption, BoundAssumption DEF TypeOK, HoldingIffShares, HoldingStatuses
<1>1. ASSUME NEW s \in Sig, NEW p \in Pos, ReserveOpen(s, p)
      PROVE  HoldingIffShares'
  BY <1>1 DEF ReserveOpen, CommitReservation, execVars
<1>2. ASSUME NEW s \in Sig, NEW p \in Pos, ReserveIncrease(s, p)
      PROVE  HoldingIffShares'
  BY <1>2 DEF ReserveIncrease, CommitReservation, execVars, positionVars
<1>3. ASSUME NEW s \in Sig, NEW t \in Sig, UpdateOrderSignalId(s, t)
      PROVE  HoldingIffShares'
  BY <1>3 DEF UpdateOrderSignalId, Renamable, execVars, positionVars
<1>4. ASSUME NEW s \in Sig, Release(s)
      PROVE  HoldingIffShares'
  BY <1>4 DEF Release, ClearReservation, execVars
<1>5. ASSUME NEW s \in Sig, ReservationAges(s)
      PROVE  HoldingIffShares'
  BY <1>5 DEF ReservationAges, execVars, positionVars
<1>6. ASSUME ReservationJanitor
      PROVE  HoldingIffShares'
  BY <1>6 DEF ReservationJanitor, LostEntries, ExpiredReservations, execVars
<1>7. ASSUME NEW s \in Sig, NEW p \in Pos, ClaimBuy(s, p)
      PROVE  HoldingIffShares'
  BY <1>7 DEF ClaimBuy, InsertExecution, positionVars, reservationVars
<1>8. ASSUME NEW s \in Sig, NEW p \in Pos, NEW n \in 1 .. MaxQty, ClaimSell(s, p, n)
      PROVE  HoldingIffShares'
  BY <1>8 DEF ClaimSell, InsertExecution, positionVars, reservationVars
<1>9. ASSUME NEW s \in Sig, RedemptionTimeout(s)
      PROVE  HoldingIffShares'
  BY <1>9 DEF RedemptionTimeout, SetExecStatus, positionVars, reservationVars
<1>10. ASSUME NEW s \in Sig, RearmRedemption(s)
      PROVE  HoldingIffShares'
  BY <1>10 DEF RearmRedemption, SetExecStatus, positionVars, reservationVars
<1>11. ASSUME NEW s \in Sig, FinalizeFailed(s)
      PROVE  HoldingIffShares'
  BY <1>11 DEF FinalizeFailed, SetExecStatus, ClearReservation
<1>12. ASSUME NEW s \in Sig, RejectFill(s)
      PROVE  HoldingIffShares'
  BY <1>12 DEF RejectFill, SetExecStatus, positionVars, reservationVars
<1>13. ASSUME NEW s \in Sig, NEW n \in 1 .. MaxQty, FillBuy(s, n)
      PROVE  HoldingIffShares'
  BY <1>13 DEF FillBuy, SetExecStatus, ClearReservation, AcceptsFill, CanBuy, ExecutionHasPosition
<1>14. ASSUME NEW s \in Sig, NEW n \in 1 .. MaxQty, FillSell(s, n)
      PROVE  HoldingIffShares'
  BY <1>14 DEF FillSell, SetExecStatus, reservationVars, AcceptsFill, CanSell, ExecutionHasPosition, Lesser
<1>15. ASSUME NEW p \in Pos, FailActiveForPosition(p)
      PROVE  HoldingIffShares'
  BY <1>15 DEF FailActiveForPosition, positionVars, reservationVars
<1>16. ASSUME NEW p \in Pos, BeginClose(p)
      PROVE  HoldingIffShares'
  BY <1>16 DEF BeginClose, MoveStatus, execVars, reservationVars
<1>17. ASSUME NEW p \in Pos, RevertClose(p)
      PROVE  HoldingIffShares'
  BY <1>17 DEF RevertClose, MoveStatus, execVars, reservationVars
<1>18. ASSUME NEW p \in Pos, MarkFailed(p)
      PROVE  HoldingIffShares'
  BY <1>18 DEF MarkFailed, MoveStatus, execVars, reservationVars
<1>19. ASSUME NEW p \in Pos, MarkPendingResolution(p)
      PROVE  HoldingIffShares'
  BY <1>19 DEF MarkPendingResolution, MoveStatus, execVars, reservationVars
<1>20. CASE UNCHANGED vars
  BY <1>20 DEF vars, positionVars, execVars, reservationVars
<1> QED
  BY <1>1, <1>2, <1>3, <1>4, <1>5, <1>6, <1>7, <1>8, <1>9, <1>10, <1>11,
     <1>12, <1>13, <1>14, <1>15, <1>16, <1>17, <1>18, <1>19, <1>20
     DEF Next, ReservationStep, ExecutionStep, CloseStep

\* Only claim() adds a market exit in flight, after checking there is none;
\* re-arming puts only redemptions back in flight.
LEMMA OneActiveSellPreserved ==
    ASSUME TypeOK, ExecutionHasPosition, OneActiveSell, [Next]_vars
    PROVE  OneActiveSell'
<1> USE AbsentAssumption DEF TypeOK, OneActiveSell, ActiveSells, ExecutionHasPosition, SellSig, BuySig, RedemptionSig
<1>1. ASSUME NEW s \in Sig, NEW p \in Pos, ReserveOpen(s, p)
      PROVE  OneActiveSell'
  BY <1>1 DEF ReserveOpen, CommitReservation, execVars
<1>2. ASSUME NEW s \in Sig, NEW p \in Pos, ReserveIncrease(s, p)
      PROVE  OneActiveSell'
  BY <1>2 DEF ReserveIncrease, CommitReservation, execVars, positionVars
<1>3. ASSUME NEW s \in Sig, NEW t \in Sig, UpdateOrderSignalId(s, t)
      PROVE  OneActiveSell'
  BY <1>3 DEF UpdateOrderSignalId, Renamable, execVars, positionVars
<1>4. ASSUME NEW s \in Sig, Release(s)
      PROVE  OneActiveSell'
  BY <1>4 DEF Release, ClearReservation, execVars
<1>5. ASSUME NEW s \in Sig, ReservationAges(s)
      PROVE  OneActiveSell'
  BY <1>5 DEF ReservationAges, execVars, positionVars
<1>6. ASSUME ReservationJanitor
      PROVE  OneActiveSell'
  BY <1>6 DEF ReservationJanitor, LostEntries, ExpiredReservations, execVars
<1>7. ASSUME NEW s \in Sig, NEW p \in Pos, ClaimBuy(s, p)
      PROVE  OneActiveSell'
  BY <1>7 DEF ClaimBuy, InsertExecution, positionVars, reservationVars
<1>8. ASSUME NEW s \in Sig, NEW p \in Pos, NEW n \in 1 .. MaxQty, ClaimSell(s, p, n)
      PROVE  OneActiveSell'
  BY <1>8 DEF ClaimSell, InsertExecution, positionVars, reservationVars
<1>9. ASSUME NEW s \in Sig, RedemptionTimeout(s)
      PROVE  OneActiveSell'
  BY <1>9 DEF RedemptionTimeout, SetExecStatus, positionVars, reservationVars
<1>10. ASSUME NEW s \in Sig, RearmRedemption(s)
      PROVE  OneActiveSell'
  BY <1>10 DEF RearmRedemption, SetExecStatus, positionVars, reservationVars
<1>11. ASSUME NEW s \in Sig, FinalizeFailed(s)
      PROVE  OneActiveSell'
  BY <1>11 DEF FinalizeFailed, SetExecStatus, ClearReservation
<1>12. ASSUME NEW s \in Sig, RejectFill(s)
      PROVE  OneActiveSell'
  BY <1>12 DEF RejectFill, SetExecStatus, positionVars, reservationVars
<1>13. ASSUME NEW s \in Sig, NEW n \in 1 .. MaxQty, FillBuy(s, n)
      PROVE  OneActiveSell'
  BY <1>13 DEF FillBuy, SetExecStatus, ClearReservation
<1>14. ASSUME NEW s \in Sig, NEW n \in 1 .. MaxQty, FillSell(s, n)
      PROVE  OneActiveSell'
  BY <1>14 DEF FillSell, SetExecStatus, reservationVars
<1>15. ASSUME NEW p \in Pos, FailActiveForPosition(p)
      PROVE  OneActiveSell'
  BY <1>15 DEF FailActiveForPosition, positionVars, reservationVars
<1>16. ASSUME NEW p \in Pos, BeginClose(p)
      PROVE  OneActiveSell'
  BY <1>16 DEF BeginClose, MoveStatus, execVars, reservationVars
<1>17. ASSUME NEW p \in Pos, RevertClose(p)
      PROVE  OneActiveSell'
  BY <1>17 DEF RevertClose, MoveStatus, execVars, reservationVars
<1>18. ASSUME NEW p \in Pos, MarkFailed(p)
      PROVE  OneActiveSell'
  BY <1>18 DEF MarkFailed, MoveStatus, execVars, reservationVars
<1>19. ASSUME NEW p \in Pos, MarkPendingResolution(p)
      PROVE  OneActiveSell'
  BY <1>19 DEF MarkPendingResolution, MoveStatus, execVars, reservationVars
<1>20. CASE UNCHANGED vars
  BY <1>20 DEF vars, positionVars, execVars, reservationVars
<1> QED
  BY <1>1, <1>2, <1>3, <1>4, <1>5, <1>6, <1>7, <1>8, <1>9, <1>10, <1>11,
     <1>12, <1>13, <1>14, <1>15, <1>16, <1>17, <1>18, <1>19, <1>20
     DEF Next, ReservationStep, ExecutionStep, CloseStep

\* A reservation, a renamed reservation and a claim all stay within the pairs
\* of signal and position that reserve() committed.
LEMMA RowsIssuedPreserved ==
    ASSUME TypeOK, ExecutionHasPosition, HoldingIffShares, RowsIssued, [Next]_vars
    PROVE  RowsIssued'
<1> USE AbsentAssumption DEF TypeOK, ExecutionHasPosition, OpenSig, BuySig, RowsIssued
<1>1. ASSUME NEW s \in Sig, NEW p \in Pos, ReserveOpen(s, p)
      PROVE  RowsIssued'
  BY <1>1 DEF ReserveOpen, CommitReservation, execVars
<1>2. ASSUME NEW s \in Sig, NEW p \in Pos, ReserveIncrease(s, p)
      PROVE  RowsIssued'
  BY <1>2 DEF ReserveIncrease, CommitReservation, execVars, positionVars
<1>3. ASSUME NEW s \in Sig, NEW t \in Sig, UpdateOrderSignalId(s, t)
      PROVE  RowsIssued'
  <2> DEFINE p == reservedFor[s]
  <2>1. s # t /\ p \in Pos /\ <<s, p>> \in issued
    BY <1>3 DEF UpdateOrderSignalId, Renamable
  <2>2. issued' = (issued \ {<<s, p>>}) \cup {<<t, p>>}
    BY <1>3 DEF UpdateOrderSignalId, Renamable
  <2>3. execPosition' = execPosition /\ leg' = leg /\ status' = status
    BY <1>3 DEF UpdateOrderSignalId, Renamable, execVars, positionVars
  <2>4. \A u \in BuySig : execPosition'[u] \in Pos => <<u, execPosition'[u]>> \in issued'
    BY <1>3, <2>2, <2>3 DEF UpdateOrderSignalId, Renamable
  <2>5. \A u \in Sig : reservedFor'[u] \in Pos => <<u, reservedFor'[u]>> \in issued'
    <3> SUFFICES ASSUME NEW u \in Sig, reservedFor'[u] \in Pos
                PROVE  <<u, reservedFor'[u]>> \in issued'
      OBVIOUS
    <3>1. CASE u = t
      BY <1>3, <2>1, <2>2, <3>1 DEF UpdateOrderSignalId, Renamable
    <3>2. CASE u = s
      BY <1>3, <2>1, <3>2 DEF UpdateOrderSignalId, Renamable
    <3>3. CASE u \notin {s, t}
      BY <1>3, <2>1, <2>2, <3>3 DEF UpdateOrderSignalId, Renamable
    <3> QED
      BY <3>1, <3>2, <3>3
  <2>6. leg[p] = LegOf[t]
    BY <1>3, <2>1 DEF UpdateOrderSignalId, Renamable
  <2>7. \A u \in Sig, q \in Pos : <<u, q>> \in issued' => leg'[q] = LegOf[u]
    BY <2>2, <2>3, <2>6
  <2>8. \A u \in Sig, q \in Pos : status'[q] = "none" =>
          <<u, q>> \notin issued' /\ execPosition'[u] # q
    BY <2>1, <2>2, <2>3
  <2> QED
    BY <2>4, <2>5, <2>7, <2>8
<1>4. ASSUME NEW s \in Sig, Release(s)
      PROVE  RowsIssued'
  BY <1>4 DEF Release, ClearReservation, execVars
<1>5. ASSUME NEW s \in Sig, ReservationAges(s)
      PROVE  RowsIssued'
  BY <1>5 DEF ReservationAges, execVars, positionVars
<1>6. ASSUME ReservationJanitor
      PROVE  RowsIssued'
  BY <1>6 DEF ReservationJanitor, LostEntries, ExpiredReservations, execVars
<1>7. ASSUME NEW s \in Sig, NEW p \in Pos, ClaimBuy(s, p)
      PROVE  RowsIssued'
  BY <1>7 DEF ClaimBuy, InsertExecution, positionVars, reservationVars
<1>8. ASSUME NEW s \in Sig, NEW p \in Pos, NEW n \in 1 .. MaxQty, ClaimSell(s, p, n)
      PROVE  RowsIssued'
  BY <1>8 DEF ClaimSell, InsertExecution, positionVars, reservationVars, SellSig
<1>9. ASSUME NEW s \in Sig, RedemptionTimeout(s)
      PROVE  RowsIssued'
  BY <1>9 DEF RedemptionTimeout, SetExecStatus, positionVars, reservationVars
<1>10. ASSUME NEW s \in Sig, RearmRedemption(s)
      PROVE  RowsIssued'
  BY <1>10 DEF RearmRedemption, SetExecStatus, positionVars, reservationVars
<1>11. ASSUME NEW s \in Sig, FinalizeFailed(s)
      PROVE  RowsIssued'
  BY <1>11 DEF FinalizeFailed, SetExecStatus, ClearReservation, SellSig
<1>12. ASSUME NEW s \in Sig, RejectFill(s)
      PROVE  RowsIssued'
  BY <1>12 DEF RejectFill, SetExecStatus, positionVars, reservationVars, AcceptsFill
<1>13. ASSUME NEW s \in Sig, NEW n \in 1 .. MaxQty, FillBuy(s, n)
      PROVE  RowsIssued'
  BY <1>13 DEF FillBuy, SetExecStatus, ClearReservation, AcceptsFill, CanBuy
<1>14. ASSUME NEW s \in Sig, NEW n \in 1 .. MaxQty, FillSell(s, n)
      PROVE  RowsIssued'
  BY <1>14 DEF FillSell, SetExecStatus, reservationVars, AcceptsFill, CanSell, HoldingIffShares, HoldingStatuses, SellSig
<1>15. ASSUME NEW p \in Pos, FailActiveForPosition(p)
      PROVE  RowsIssued'
  BY <1>15 DEF FailActiveForPosition, positionVars, reservationVars
<1>16. ASSUME NEW p \in Pos, BeginClose(p)
      PROVE  RowsIssued'
  BY <1>16 DEF BeginClose, MoveStatus, execVars, reservationVars
<1>17. ASSUME NEW p \in Pos, RevertClose(p)
      PROVE  RowsIssued'
  BY <1>17 DEF RevertClose, MoveStatus, execVars, reservationVars
<1>18. ASSUME NEW p \in Pos, MarkFailed(p)
      PROVE  RowsIssued'
  BY <1>18 DEF MarkFailed, MoveStatus, execVars, reservationVars
<1>19. ASSUME NEW p \in Pos, MarkPendingResolution(p)
      PROVE  RowsIssued'
  BY <1>19 DEF MarkPendingResolution, MoveStatus, execVars, reservationVars
<1>20. CASE UNCHANGED vars
  BY <1>20 DEF vars, positionVars, execVars, reservationVars
<1> QED
  BY <1>1, <1>2, <1>3, <1>4, <1>5, <1>6, <1>7, <1>8, <1>9, <1>10, <1>11,
     <1>12, <1>13, <1>14, <1>15, <1>16, <1>17, <1>18, <1>19, <1>20
     DEF Next, ReservationStep, ExecutionStep, CloseStep

\* A second entry id is never issued for a position: reserve() creates the
\* position with the first, and the renaming replaces it.
LEMMA OneEntryIdPreserved ==
    ASSUME TypeOK, ExecutionHasPosition, RowsIssued, HoldingIffShares, OneEntryId, [Next]_vars
    PROVE  OneEntryId'
<1> USE AbsentAssumption DEF TypeOK, ExecutionHasPosition, OpenSig, BuySig, OneEntryId, RowsIssued
<1>1. ASSUME NEW s \in Sig, NEW p \in Pos, ReserveOpen(s, p)
      PROVE  OneEntryId'
  BY <1>1 DEF ReserveOpen, CommitReservation, execVars
<1>2. ASSUME NEW s \in Sig, NEW p \in Pos, ReserveIncrease(s, p)
      PROVE  OneEntryId'
  BY <1>2 DEF ReserveIncrease, CommitReservation, execVars, positionVars
<1>3. ASSUME NEW s \in Sig, NEW t \in Sig, UpdateOrderSignalId(s, t)
      PROVE  OneEntryId'
  BY <1>3 DEF UpdateOrderSignalId, Renamable, execVars, positionVars
<1>4. ASSUME NEW s \in Sig, Release(s)
      PROVE  OneEntryId'
  BY <1>4 DEF Release, ClearReservation, execVars
<1>5. ASSUME NEW s \in Sig, ReservationAges(s)
      PROVE  OneEntryId'
  BY <1>5 DEF ReservationAges, execVars, positionVars
<1>6. ASSUME ReservationJanitor
      PROVE  OneEntryId'
  BY <1>6 DEF ReservationJanitor, LostEntries, ExpiredReservations, execVars
<1>7. ASSUME NEW s \in Sig, NEW p \in Pos, ClaimBuy(s, p)
      PROVE  OneEntryId'
  BY <1>7 DEF ClaimBuy, InsertExecution, positionVars, reservationVars
<1>8. ASSUME NEW s \in Sig, NEW p \in Pos, NEW n \in 1 .. MaxQty, ClaimSell(s, p, n)
      PROVE  OneEntryId'
  BY <1>8 DEF ClaimSell, InsertExecution, positionVars, reservationVars
<1>9. ASSUME NEW s \in Sig, RedemptionTimeout(s)
      PROVE  OneEntryId'
  BY <1>9 DEF RedemptionTimeout, SetExecStatus, positionVars, reservationVars
<1>10. ASSUME NEW s \in Sig, RearmRedemption(s)
      PROVE  OneEntryId'
  BY <1>10 DEF RearmRedemption, SetExecStatus, positionVars, reservationVars
<1>11. ASSUME NEW s \in Sig, FinalizeFailed(s)
      PROVE  OneEntryId'
  BY <1>11 DEF FinalizeFailed, SetExecStatus, ClearReservation, SellSig
<1>12. ASSUME NEW s \in Sig, RejectFill(s)
      PROVE  OneEntryId'
  BY <1>12 DEF RejectFill, SetExecStatus, positionVars, reservationVars
<1>13. ASSUME NEW s \in Sig, NEW n \in 1 .. MaxQty, FillBuy(s, n)
      PROVE  OneEntryId'
  BY <1>13 DEF FillBuy, SetExecStatus, ClearReservation, AcceptsFill, CanBuy
<1>14. ASSUME NEW s \in Sig, NEW n \in 1 .. MaxQty, FillSell(s, n)
      PROVE  OneEntryId'
  BY <1>14 DEF FillSell, SetExecStatus, reservationVars, AcceptsFill, CanSell, HoldingIffShares, HoldingStatuses, SellSig
<1>15. ASSUME NEW p \in Pos, FailActiveForPosition(p)
      PROVE  OneEntryId'
  BY <1>15 DEF FailActiveForPosition, positionVars, reservationVars
<1>16. ASSUME NEW p \in Pos, BeginClose(p)
      PROVE  OneEntryId'
  BY <1>16 DEF BeginClose, MoveStatus, execVars, reservationVars
<1>17. ASSUME NEW p \in Pos, RevertClose(p)
      PROVE  OneEntryId'
  BY <1>17 DEF RevertClose, MoveStatus, execVars, reservationVars
<1>18. ASSUME NEW p \in Pos, MarkFailed(p)
      PROVE  OneEntryId'
  BY <1>18 DEF MarkFailed, MoveStatus, execVars, reservationVars
<1>19. ASSUME NEW p \in Pos, MarkPendingResolution(p)
      PROVE  OneEntryId'
  BY <1>19 DEF MarkPendingResolution, MoveStatus, execVars, reservationVars
<1>20. CASE UNCHANGED vars
  BY <1>20 DEF vars, positionVars, execVars, reservationVars
<1> QED
  BY <1>1, <1>2, <1>3, <1>4, <1>5, <1>6, <1>7, <1>8, <1>9, <1>10, <1>11,
     <1>12, <1>13, <1>14, <1>15, <1>16, <1>17, <1>18, <1>19, <1>20
     DEF Next, ReservationStep, ExecutionStep, CloseStep

\* Only finalize() of the position's own claimed entry takes it past pending
\* or cancelled, and leaves that execution filled.
LEMMA EnteredByOwnOrderPreserved ==
    ASSUME TypeOK, ExecutionHasPosition, RowsIssued, OneEntryId, HoldingIffShares, EnteredByOwnOrder, [Next]_vars
    PROVE  EnteredByOwnOrder'
<1> USE AbsentAssumption DEF TypeOK, ExecutionHasPosition, OpenSig, BuySig, EnteredByOwnOrder, OneEntryId, RowsIssued
<1>1. ASSUME NEW s \in Sig, NEW p \in Pos, ReserveOpen(s, p)
      PROVE  EnteredByOwnOrder'
  BY <1>1 DEF ReserveOpen, CommitReservation, execVars
<1>2. ASSUME NEW s \in Sig, NEW p \in Pos, ReserveIncrease(s, p)
      PROVE  EnteredByOwnOrder'
  BY <1>2 DEF ReserveIncrease, CommitReservation, execVars, positionVars
<1>3. ASSUME NEW s \in Sig, NEW t \in Sig, UpdateOrderSignalId(s, t)
      PROVE  EnteredByOwnOrder'
  <2> DEFINE p == reservedFor[s]
  <2>1. p \in Pos /\ <<s, p>> \in issued /\ s \in OpenSig
    BY <1>3 DEF UpdateOrderSignalId, Renamable
  <2>2. issued' = (issued \ {<<s, p>>}) \cup {<<t, p>>}
    BY <1>3 DEF UpdateOrderSignalId, Renamable
  <2>3. execPosition' = execPosition /\ execStatus' = execStatus /\ status' = status
    BY <1>3 DEF UpdateOrderSignalId, Renamable, execVars, positionVars
  <2>4. status[p] \in {"pending", "cancelled"}
    BY <1>3, <2>1 DEF UpdateOrderSignalId, Renamable
  <2> QED
    BY <2>2, <2>3, <2>4
<1>4. ASSUME NEW s \in Sig, Release(s)
      PROVE  EnteredByOwnOrder'
  BY <1>4 DEF Release, ClearReservation, execVars
<1>5. ASSUME NEW s \in Sig, ReservationAges(s)
      PROVE  EnteredByOwnOrder'
  BY <1>5 DEF ReservationAges, execVars, positionVars
<1>6. ASSUME ReservationJanitor
      PROVE  EnteredByOwnOrder'
  BY <1>6 DEF ReservationJanitor, LostEntries, ExpiredReservations, execVars
<1>7. ASSUME NEW s \in Sig, NEW p \in Pos, ClaimBuy(s, p)
      PROVE  EnteredByOwnOrder'
  BY <1>7 DEF ClaimBuy, InsertExecution, positionVars, reservationVars
<1>8. ASSUME NEW s \in Sig, NEW p \in Pos, NEW n \in 1 .. MaxQty, ClaimSell(s, p, n)
      PROVE  EnteredByOwnOrder'
  BY <1>8 DEF ClaimSell, InsertExecution, positionVars, reservationVars, SellSig
<1>9. ASSUME NEW s \in Sig, RedemptionTimeout(s)
      PROVE  EnteredByOwnOrder'
  BY <1>9 DEF RedemptionTimeout, SetExecStatus, positionVars, reservationVars, RedemptionSig
<1>10. ASSUME NEW s \in Sig, RearmRedemption(s)
      PROVE  EnteredByOwnOrder'
  BY <1>10 DEF RearmRedemption, SetExecStatus, positionVars, reservationVars, RedemptionSig
<1>11. ASSUME NEW s \in Sig, FinalizeFailed(s)
      PROVE  EnteredByOwnOrder'
  BY <1>11 DEF FinalizeFailed, SetExecStatus, ClearReservation, SellSig
<1>12. ASSUME NEW s \in Sig, RejectFill(s)
      PROVE  EnteredByOwnOrder'
  BY <1>12 DEF RejectFill, SetExecStatus, positionVars, reservationVars
<1>13. ASSUME NEW s \in Sig, NEW n \in 1 .. MaxQty, FillBuy(s, n)
      PROVE  EnteredByOwnOrder'
  <2> DEFINE p == execPosition[s]
  <2>1. p \in Pos /\ <<s, p>> \in issued
    BY <1>13 DEF FillBuy, AcceptsFill
  <2>2. issued' = issued /\ execPosition' = execPosition
    BY <1>13 DEF FillBuy
  <2>3. execStatus' = [execStatus EXCEPT ![s] = "filled"]
    BY <1>13 DEF FillBuy, SetExecStatus
  <2>4. status' = [status EXCEPT ![p] = "open"]
    BY <1>13 DEF FillBuy
  <2> SUFFICES ASSUME NEW u \in OpenSig, NEW q \in Pos, <<u, q>> \in issued'
              PROVE  \/ status'[q] \in {"pending", "cancelled"}
                      \/ /\ execPosition'[u] = q
                         /\ execStatus'[u] \in {"filled", "failed"}
    OBVIOUS
  <2>5. CASE q # p
    BY <2>1, <2>2, <2>3, <2>4, <2>5
  <2>6. CASE q = p /\ status[p] \in {"pending", "cancelled"}
    <3>1. s \in OpenSig
      BY <1>13, <2>1, <2>6 DEF FillBuy
    <3>2. u = s
      BY <2>1, <2>2, <2>6, <3>1
    <3> QED
      BY <2>2, <2>3, <2>6, <3>2
  <2>7. CASE q = p /\ status[p] \notin {"pending", "cancelled"}
    BY <2>1, <2>2, <2>3, <2>7
  <2> QED
    BY <2>5, <2>6, <2>7
<1>14. ASSUME NEW s \in Sig, NEW n \in 1 .. MaxQty, FillSell(s, n)
      PROVE  EnteredByOwnOrder'
  BY <1>14 DEF FillSell, SetExecStatus, reservationVars, AcceptsFill, CanSell, HoldingIffShares, HoldingStatuses, SellSig
<1>15. ASSUME NEW p \in Pos, FailActiveForPosition(p)
      PROVE  EnteredByOwnOrder'
  BY <1>15 DEF FailActiveForPosition, positionVars, reservationVars
<1>16. ASSUME NEW p \in Pos, BeginClose(p)
      PROVE  EnteredByOwnOrder'
  BY <1>16 DEF BeginClose, MoveStatus, execVars, reservationVars
<1>17. ASSUME NEW p \in Pos, RevertClose(p)
      PROVE  EnteredByOwnOrder'
  BY <1>17 DEF RevertClose, MoveStatus, execVars, reservationVars
<1>18. ASSUME NEW p \in Pos, MarkFailed(p)
      PROVE  EnteredByOwnOrder'
  BY <1>18 DEF MarkFailed, MoveStatus, execVars, reservationVars
<1>19. ASSUME NEW p \in Pos, MarkPendingResolution(p)
      PROVE  EnteredByOwnOrder'
  BY <1>19 DEF MarkPendingResolution, MoveStatus, execVars, reservationVars
<1>20. CASE UNCHANGED vars
  BY <1>20 DEF vars, positionVars, execVars, reservationVars
<1> QED
  BY <1>1, <1>2, <1>3, <1>4, <1>5, <1>6, <1>7, <1>8, <1>9, <1>10, <1>11,
     <1>12, <1>13, <1>14, <1>15, <1>16, <1>17, <1>18, <1>19, <1>20
     DEF Next, ReservationStep, ExecutionStep, CloseStep

\* Whatever takes a position out of pending deletes its OPEN reservation too.
LEMMA OpenReservationPreserved ==
    ASSUME TypeOK, HoldingIffShares, RowsAgree, OpenReservationIsPending, [Next]_vars
    PROVE  OpenReservationIsPending'
<1> USE AbsentAssumption DEF TypeOK, RowsAgree, ExecutionHasPosition, OpenSig, BuySig, RowsIssued, OneEntryId, OpenReservationIsPending
<1>1. ASSUME NEW s \in Sig, NEW p \in Pos, ReserveOpen(s, p)
      PROVE  OpenReservationIsPending'
  BY <1>1 DEF ReserveOpen, CommitReservation, execVars
<1>2. ASSUME NEW s \in Sig, NEW p \in Pos, ReserveIncrease(s, p)
      PROVE  OpenReservationIsPending'
  BY <1>2 DEF ReserveIncrease, CommitReservation, execVars, positionVars
<1>3. ASSUME NEW s \in Sig, NEW t \in Sig, UpdateOrderSignalId(s, t)
      PROVE  OpenReservationIsPending'
  BY <1>3 DEF UpdateOrderSignalId, Renamable, execVars, positionVars
<1>4. ASSUME NEW s \in Sig, Release(s)
      PROVE  OpenReservationIsPending'
  BY <1>4 DEF Release, ClearReservation, execVars
<1>5. ASSUME NEW s \in Sig, ReservationAges(s)
      PROVE  OpenReservationIsPending'
  BY <1>5 DEF ReservationAges, execVars, positionVars
<1>6. ASSUME ReservationJanitor
      PROVE  OpenReservationIsPending'
  BY <1>6 DEF ReservationJanitor, LostEntries, ExpiredReservations, execVars
<1>7. ASSUME NEW s \in Sig, NEW p \in Pos, ClaimBuy(s, p)
      PROVE  OpenReservationIsPending'
  BY <1>7 DEF ClaimBuy, InsertExecution, positionVars, reservationVars
<1>8. ASSUME NEW s \in Sig, NEW p \in Pos, NEW n \in 1 .. MaxQty, ClaimSell(s, p, n)
      PROVE  OpenReservationIsPending'
  BY <1>8 DEF ClaimSell, InsertExecution, positionVars, reservationVars
<1>9. ASSUME NEW s \in Sig, RedemptionTimeout(s)
      PROVE  OpenReservationIsPending'
  BY <1>9 DEF RedemptionTimeout, SetExecStatus, positionVars, reservationVars
<1>10. ASSUME NEW s \in Sig, RearmRedemption(s)
      PROVE  OpenReservationIsPending'
  BY <1>10 DEF RearmRedemption, SetExecStatus, positionVars, reservationVars
<1>11. ASSUME NEW s \in Sig, FinalizeFailed(s)
      PROVE  OpenReservationIsPending'
  <2> DEFINE p == execPosition[s]
  <2>1. p \in Pos /\ leg' = leg /\ issued' = issued
    BY <1>11 DEF FinalizeFailed
  <2>2. CASE s \in BuySig /\ status[p] = "pending"
    <3>1. s \in OpenSig /\ <<s, p>> \in issued
      BY <2>1, <2>2
    <3>2. \A u \in OpenSig \ {s} : reservedFor[u] # p
      BY <2>1, <3>1
    <3>3. /\ status' = [status EXCEPT ![p] = "cancelled"]
          /\ reservedFor' = [reservedFor EXCEPT ![s] = NoPos]
      BY <1>11, <2>2 DEF FinalizeFailed, ClearReservation, SellSig
    <3> QED
      BY <2>1, <3>1, <3>2, <3>3
  <2>3. CASE s \in SellSig /\ status[p] = "closing"
    <3>1. /\ status' = [status EXCEPT ![p] = "open"]
          /\ reservedFor' = reservedFor
      BY <1>11, <2>3 DEF FinalizeFailed, SellSig
    <3> QED
      BY <2>1, <2>3, <3>1
  <2>4. CASE status' = status /\ reservedFor' = reservedFor
    BY <2>4
  <2> QED
    BY <1>11, <2>2, <2>3, <2>4 DEF FinalizeFailed
<1>12. ASSUME NEW s \in Sig, RejectFill(s)
      PROVE  OpenReservationIsPending'
  BY <1>12 DEF RejectFill, SetExecStatus, positionVars, reservationVars
<1>13. ASSUME NEW s \in Sig, NEW n \in 1 .. MaxQty, FillBuy(s, n)
      PROVE  OpenReservationIsPending'
  <2> DEFINE p == execPosition[s]
  <2>1. p \in Pos /\ <<s, p>> \in issued
    BY <1>13 DEF FillBuy, AcceptsFill
  <2>2. /\ status' = [status EXCEPT ![p] = "open"]
        /\ reservedFor' = [reservedFor EXCEPT ![s] = NoPos]
    BY <1>13 DEF FillBuy, ClearReservation
  <2>3. \A u \in OpenSig \ {s} : reservedFor[u] # p
    <3> SUFFICES ASSUME NEW u \in OpenSig, reservedFor[u] = p
                PROVE  u = s
      OBVIOUS
    <3>1. status[p] = "pending" /\ <<u, p>> \in issued
      BY <2>1
    <3>2. s \in OpenSig
      BY <1>13, <2>1, <3>1 DEF FillBuy
    <3> QED
      BY <2>1, <3>1, <3>2
  <2> QED
    BY <2>1, <2>2, <2>3
<1>14. ASSUME NEW s \in Sig, NEW n \in 1 .. MaxQty, FillSell(s, n)
      PROVE  OpenReservationIsPending'
  BY <1>14 DEF FillSell, SetExecStatus, reservationVars, AcceptsFill, CanSell, HoldingIffShares, HoldingStatuses, SellSig
<1>15. ASSUME NEW p \in Pos, FailActiveForPosition(p)
      PROVE  OpenReservationIsPending'
  BY <1>15 DEF FailActiveForPosition, positionVars, reservationVars
<1>16. ASSUME NEW p \in Pos, BeginClose(p)
      PROVE  OpenReservationIsPending'
  BY <1>16 DEF BeginClose, MoveStatus, execVars, reservationVars
<1>17. ASSUME NEW p \in Pos, RevertClose(p)
      PROVE  OpenReservationIsPending'
  BY <1>17 DEF RevertClose, MoveStatus, execVars, reservationVars
<1>18. ASSUME NEW p \in Pos, MarkFailed(p)
      PROVE  OpenReservationIsPending'
  BY <1>18 DEF MarkFailed, MoveStatus, execVars, reservationVars
<1>19. ASSUME NEW p \in Pos, MarkPendingResolution(p)
      PROVE  OpenReservationIsPending'
  BY <1>19 DEF MarkPendingResolution, MoveStatus, execVars, reservationVars
<1>20. CASE UNCHANGED vars
  BY <1>20 DEF vars, positionVars, execVars, reservationVars
<1> QED
  BY <1>1, <1>2, <1>3, <1>4, <1>5, <1>6, <1>7, <1>8, <1>9, <1>10, <1>11,
     <1>12, <1>13, <1>14, <1>15, <1>16, <1>17, <1>18, <1>19, <1>20
     DEF Next, ReservationStep, ExecutionStep, CloseStep

\* A reservation goes away only together with the pending status of its
\* position, or because its signal id was claimed for another position.
LEMMA PendingPreserved ==
    ASSUME TypeOK, RowsAgree, OpenReservationIsPending, PendingIsReserved,
           HoldingIffShares, [Next]_vars
    PROVE  PendingIsReserved'
<1> USE AbsentAssumption DEF TypeOK, RowsAgree, ExecutionHasPosition
<1> SUFFICES ASSUME NEW q \in Pos, status'[q] = "pending"
            PROVE  HasReservation(q)' \/ ClaimedElsewhere(q)'
  BY DEF PendingIsReserved
<1> DEFINE Goal == HasReservation(q)' \/ ClaimedElsewhere(q)'
<1>a. ASSUME status[q] = "pending", reservedFor' = reservedFor,
             issued' = issued, execPosition' = execPosition
      PROVE  Goal
  BY <1>a DEF PendingIsReserved, HasReservation, ClaimedElsewhere, IsReal
<1>b. status[q] = "pending" => HasReservation(q) \/ ClaimedElsewhere(q)
  BY DEF PendingIsReserved
\* A pending position whose entry is claimed under s lost its reservation to
\* another one only if s is real.
<1>c. ASSUME NEW s \in OpenSig, NEW p \in Pos, execPosition[s] = p,
             status[p] = "pending", reservedFor[s] = q, q # p
      PROVE  IsReal(s) /\ <<s, q>> \in issued
  <2>1. <<s, p>> \in issued /\ <<s, q>> \in issued
    BY <1>c DEF RowsIssued, OpenSig, BuySig
  <2>2. ~HasReservation(p)
    BY <1>c, <2>1 DEF HasReservation, RowsIssued, OneEntryId, OpenSig
  <2>3. PICK u \in OpenSig : <<u, p>> \in issued /\ IsReal(u)
    BY <1>c, <2>2 DEF PendingIsReserved, ClaimedElsewhere
  <2> QED
    BY <2>1, <2>3 DEF OneEntryId
<1>1. ASSUME NEW s \in Sig, NEW p \in Pos, ReserveOpen(s, p)
      PROVE  Goal
  <2>1. /\ reservedFor[s] = NoPos /\ s \in OpenSig
        /\ reservedFor' = [reservedFor EXCEPT ![s] = p]
        /\ issued' = issued \cup {<<s, p>>} /\ execPosition' = execPosition
        /\ status' = [status EXCEPT ![p] = "pending"]
    BY <1>1 DEF ReserveOpen, CommitReservation, execVars
  <2>2. CASE q = p
    BY <2>1, <2>2 DEF HasReservation, OpenSig
  <2>3. CASE q # p /\ HasReservation(q)
    BY <2>1, <2>3 DEF HasReservation, OpenSig
  <2>4. CASE q # p /\ ClaimedElsewhere(q)
    BY <2>1, <2>4 DEF ClaimedElsewhere, IsReal
  <2> QED
    BY <1>b, <2>1, <2>2, <2>3, <2>4
<1>2. ASSUME NEW s \in Sig, NEW p \in Pos, ReserveIncrease(s, p)
      PROVE  Goal
  BY <1>2 DEF ReserveIncrease, CommitReservation, execVars, positionVars,
          PendingIsReserved, OpenReservationIsPending, HasReservation,
          ClaimedElsewhere, IsReal, OpenSig, BuySig
<1>3. ASSUME NEW s \in Sig, NEW t \in Sig, UpdateOrderSignalId(s, t)
      PROVE  Goal
  <2> DEFINE p == reservedFor[s]
  <2>1. /\ s \in OpenSig /\ t \in OpenSig /\ p \in Pos /\ reservedFor[t] = NoPos
        /\ reservedFor' = [reservedFor EXCEPT ![s] = NoPos, ![t] = p]
        /\ issued' = (issued \ {<<s, p>>}) \cup {<<t, p>>}
        /\ execPosition' = execPosition /\ status' = status
    BY <1>3 DEF UpdateOrderSignalId, Renamable, execVars, positionVars
  <2>2. s # t
    BY <2>1
  <2>3. CASE q = p
    BY <2>1, <2>2, <2>3 DEF HasReservation, OpenSig
  <2>4. CASE q # p /\ HasReservation(q)
    <3>1. PICK u \in OpenSig : reservedFor[u] = q
      BY <2>4 DEF HasReservation
    <3>2. u # s /\ u # t
      BY <2>1, <2>4, <3>1
    <3> QED
      BY <2>1, <3>1, <3>2 DEF HasReservation, OpenSig
  <2>5. CASE q # p /\ ClaimedElsewhere(q)
    BY <2>1, <2>5 DEF ClaimedElsewhere, IsReal
  <2> QED
    BY <1>b, <2>1, <2>3, <2>4, <2>5
<1>4. ASSUME NEW s \in Sig, Release(s)
      PROVE  Goal
  <2> DEFINE p == reservedFor[s]
  <2>1. /\ p \in Pos /\ reservedFor' = [reservedFor EXCEPT ![s] = NoPos]
        /\ issued' = issued /\ execPosition' = execPosition
        /\ status' = IF s \in OpenSig /\ status[p] = "pending"
                       THEN [status EXCEPT ![p] = "cancelled"] ELSE status
    BY <1>4 DEF Release, ClearReservation, execVars
  <2>2. status[q] = "pending"
    BY <2>1
  <2>3. CASE HasReservation(q)
    <3>1. PICK u \in OpenSig : reservedFor[u] = q
      BY <2>3 DEF HasReservation
    <3>2. u # s
      BY <2>1, <2>2, <3>1
    <3> QED
      BY <2>1, <3>1, <3>2 DEF HasReservation, OpenSig
  <2>4. CASE ClaimedElsewhere(q)
    BY <2>1, <2>4 DEF ClaimedElsewhere, IsReal
  <2> QED
    BY <1>b, <2>2, <2>3, <2>4
<1>5. ASSUME NEW s \in Sig, ReservationAges(s)
      PROVE  Goal
  BY <1>a, <1>5 DEF ReservationAges, execVars, positionVars
<1>6. ASSUME ReservationJanitor
      PROVE  Goal
  BY <1>6 DEF ReservationJanitor, LostEntries, ExpiredReservations, execVars,
          PendingIsReserved, OpenReservationIsPending, HasReservation,
          ClaimedElsewhere, IsReal, OpenSig, BuySig
<1>7. ASSUME NEW s \in Sig, NEW p \in Pos, ClaimBuy(s, p)
      PROVE  Goal
  <2>1. /\ execStatus[s] = "none" /\ status' = status
        /\ execPosition' = [execPosition EXCEPT ![s] = p]
        /\ reservedFor' = reservedFor /\ issued' = issued
    BY <1>7 DEF ClaimBuy, InsertExecution, positionVars, reservationVars
  <2>2. execPosition[s] = NoPos
    BY <2>1
  <2>3. CASE HasReservation(q)
    BY <2>1, <2>3 DEF HasReservation
  <2>4. CASE ClaimedElsewhere(q)
    BY <2>1, <2>2, <2>4 DEF ClaimedElsewhere, IsReal, OpenSig
  <2> QED
    BY <1>b, <2>1, <2>3, <2>4
<1>8. ASSUME NEW s \in Sig, NEW p \in Pos, NEW n \in 1 .. MaxQty, ClaimSell(s, p, n)
      PROVE  Goal
  <2>1. /\ execStatus[s] = "none" /\ status' = status
        /\ execPosition' = [execPosition EXCEPT ![s] = p]
        /\ reservedFor' = reservedFor /\ issued' = issued
    BY <1>8 DEF ClaimSell, InsertExecution, positionVars, reservationVars
  <2>2. execPosition[s] = NoPos
    BY <2>1
  <2>3. CASE HasReservation(q)
    BY <2>1, <2>3 DEF HasReservation
  <2>4. CASE ClaimedElsewhere(q)
    BY <2>1, <2>2, <2>4 DEF ClaimedElsewhere, IsReal, OpenSig
  <2> QED
    BY <1>b, <2>1, <2>3, <2>4
<1>9. ASSUME NEW s \in Sig, RedemptionTimeout(s)
      PROVE  Goal
  BY <1>a, <1>9 DEF RedemptionTimeout, SetExecStatus, positionVars, reservationVars
<1>10. ASSUME NEW s \in Sig, RearmRedemption(s)
      PROVE  Goal
  BY <1>a, <1>10 DEF RearmRedemption, SetExecStatus, positionVars, reservationVars
<1>11. ASSUME NEW s \in Sig, FinalizeFailed(s)
      PROVE  Goal
  <2> DEFINE p == execPosition[s]
  <2>1. p \in Pos /\ issued' = issued /\ execPosition' = execPosition
    BY <1>11 DEF FinalizeFailed
  <2>2. CASE s \in BuySig /\ status[p] = "pending"
    <3>1. /\ status' = [status EXCEPT ![p] = "cancelled"]
          /\ reservedFor' = [reservedFor EXCEPT ![s] = NoPos]
      BY <1>11, <2>2 DEF FinalizeFailed, ClearReservation, SellSig
    <3>2. q # p /\ status[q] = "pending"
      BY <2>1, <3>1
    <3>3. s \in OpenSig
      BY <2>1, <2>2 DEF RowsIssued, OneEntryId
    <3>4. CASE ClaimedElsewhere(q)
      BY <2>1, <3>4 DEF ClaimedElsewhere, IsReal
    <3>5. CASE reservedFor[s] = q
      BY <1>c, <2>1, <2>2, <3>2, <3>3, <3>5 DEF ClaimedElsewhere, IsReal
    <3>6. CASE HasReservation(q) /\ reservedFor[s] # q
      BY <3>1, <3>6 DEF HasReservation, OpenSig
    <3> QED
      BY <1>b, <3>2, <3>4, <3>5, <3>6
  <2>3. CASE reservedFor' = reservedFor
    <3>1. status[q] = "pending"
      BY <1>11, <2>1 DEF FinalizeFailed
    <3> QED
      BY <1>a, <2>1, <2>3, <3>1
  <2> QED
    BY <1>11, <2>2, <2>3 DEF FinalizeFailed
<1>12. ASSUME NEW s \in Sig, RejectFill(s)
      PROVE  Goal
  BY <1>a, <1>12 DEF RejectFill, SetExecStatus, positionVars, reservationVars
<1>13. ASSUME NEW s \in Sig, NEW n \in 1 .. MaxQty, FillBuy(s, n)
      PROVE  Goal
  <2> DEFINE p == execPosition[s]
  <2>1. p \in Pos /\ s \in BuySig
    BY <1>13 DEF FillBuy, AcceptsFill
  <2>2. /\ status' = [status EXCEPT ![p] = "open"]
        /\ reservedFor' = [reservedFor EXCEPT ![s] = NoPos]
        /\ issued' = issued /\ execPosition' = execPosition
    BY <1>13 DEF FillBuy, ClearReservation
  <2>3. q # p /\ status[q] = "pending"
    BY <2>1, <2>2
  <2>4. CASE ClaimedElsewhere(q)
    BY <2>2, <2>4 DEF ClaimedElsewhere, IsReal
  <2>5. CASE HasReservation(q) /\ ~(s \in OpenSig /\ reservedFor[s] = q)
    BY <2>2, <2>5 DEF HasReservation, OpenSig
  <2>6. CASE s \in OpenSig /\ reservedFor[s] = q
    <3>1. <<s, q>> \in issued /\ <<s, p>> \in issued
      BY <2>1, <2>6 DEF RowsIssued, OpenSig
    <3>2. IsReal(s)
      <4>1. CASE execStatus[s] = "failed"
        BY <1>13, <4>1 DEF FillBuy, AcceptsFill
      <4>2. CASE execStatus[s] = "placing"
        <5>1. status[p] = "pending"
          BY <1>13, <2>1, <2>6, <3>1, <4>2
             DEF FillBuy, CanBuy, LateFill, EnteredByOwnOrder
        <5> QED
          BY <1>c, <2>1, <2>3, <2>6, <5>1
      <4> QED
        BY <1>13, <4>1, <4>2 DEF FillBuy, AcceptsFill
    <3> QED
      BY <2>1, <2>2, <2>3, <2>6, <3>1, <3>2 DEF ClaimedElsewhere, IsReal
  <2> QED
    BY <1>b, <2>3, <2>4, <2>5, <2>6
<1>14. ASSUME NEW s \in Sig, NEW n \in 1 .. MaxQty, FillSell(s, n)
      PROVE  Goal
  BY <1>a, <1>14 DEF FillSell, SetExecStatus, reservationVars, AcceptsFill, CanSell
<1>15. ASSUME NEW p \in Pos, FailActiveForPosition(p)
      PROVE  Goal
  BY <1>a, <1>15 DEF FailActiveForPosition, positionVars, reservationVars
<1>16. ASSUME NEW p \in Pos, BeginClose(p)
      PROVE  Goal
  BY <1>a, <1>16 DEF BeginClose, MoveStatus, execVars, reservationVars
<1>17. ASSUME NEW p \in Pos, RevertClose(p)
      PROVE  Goal
  BY <1>a, <1>17 DEF RevertClose, MoveStatus, execVars, reservationVars
<1>18. ASSUME NEW p \in Pos, MarkFailed(p)
      PROVE  Goal
  BY <1>a, <1>18 DEF MarkFailed, MoveStatus, execVars, reservationVars
<1>19. ASSUME NEW p \in Pos, MarkPendingResolution(p)
      PROVE  Goal
  BY <1>a, <1>19 DEF MarkPendingResolution, MoveStatus, execVars, reservationVars
<1>20. CASE UNCHANGED vars
  BY <1>a, <1>20 DEF vars, positionVars, execVars, reservationVars
<1> QED
  BY <1>1, <1>2, <1>3, <1>4, <1>5, <1>6, <1>7, <1>8, <1>9, <1>10, <1>11,
     <1>12, <1>13, <1>14, <1>15, <1>16, <1>17, <1>18, <1>19, <1>20
     DEF Next, ReservationStep, ExecutionStep, CloseStep

\* A simulated execution leaves placing with its fill; it can be placing again
\* only as a redemption, which a fill settles for good.
LEMMA SimFillSettledPreserved ==
    ASSUME TypeOK, RowsAgree, SimFillSettled, [Next]_vars
    PROVE  SimFillSettled'
<1> USE AbsentAssumption DEF TypeOK, RowsAgree, ExecutionHasPosition, SimFillSettled, IsReal, RedemptionSig, SellSig, BuySig
<1>1. ASSUME NEW s \in Sig, NEW p \in Pos, ReserveOpen(s, p)
      PROVE  SimFillSettled'
  BY <1>1 DEF ReserveOpen, CommitReservation, execVars
<1>2. ASSUME NEW s \in Sig, NEW p \in Pos, ReserveIncrease(s, p)
      PROVE  SimFillSettled'
  BY <1>2 DEF ReserveIncrease, CommitReservation, execVars, positionVars
<1>3. ASSUME NEW s \in Sig, NEW t \in Sig, UpdateOrderSignalId(s, t)
      PROVE  SimFillSettled'
  BY <1>3 DEF UpdateOrderSignalId, Renamable, execVars, positionVars
<1>4. ASSUME NEW s \in Sig, Release(s)
      PROVE  SimFillSettled'
  BY <1>4 DEF Release, ClearReservation, execVars
<1>5. ASSUME NEW s \in Sig, ReservationAges(s)
      PROVE  SimFillSettled'
  BY <1>5 DEF ReservationAges, execVars, positionVars
<1>6. ASSUME ReservationJanitor
      PROVE  SimFillSettled'
  BY <1>6 DEF ReservationJanitor, LostEntries, ExpiredReservations, execVars
<1>7. ASSUME NEW s \in Sig, NEW p \in Pos, ClaimBuy(s, p)
      PROVE  SimFillSettled'
  BY <1>7 DEF ClaimBuy, InsertExecution, positionVars, reservationVars
<1>8. ASSUME NEW s \in Sig, NEW p \in Pos, NEW n \in 1 .. MaxQty, ClaimSell(s, p, n)
      PROVE  SimFillSettled'
  BY <1>8 DEF ClaimSell, InsertExecution, positionVars, reservationVars
<1>9. ASSUME NEW s \in Sig, RedemptionTimeout(s)
      PROVE  SimFillSettled'
  BY <1>9 DEF RedemptionTimeout, SetExecStatus, positionVars, reservationVars
<1>10. ASSUME NEW s \in Sig, RearmRedemption(s)
      PROVE  SimFillSettled'
  BY <1>10 DEF RearmRedemption, SetExecStatus, positionVars, reservationVars, RedemptionSig
<1>11. ASSUME NEW s \in Sig, FinalizeFailed(s)
      PROVE  SimFillSettled'
  BY <1>11 DEF FinalizeFailed, SetExecStatus, ClearReservation
<1>12. ASSUME NEW s \in Sig, RejectFill(s)
      PROVE  SimFillSettled'
  BY <1>12 DEF RejectFill, SetExecStatus, positionVars, reservationVars, AcceptsFill
<1>13. ASSUME NEW s \in Sig, NEW n \in 1 .. MaxQty, FillBuy(s, n)
      PROVE  SimFillSettled'
  BY <1>13 DEF FillBuy, SetExecStatus, ClearReservation, AcceptsFill, CanBuy, LateFill, IsReal
<1>14. ASSUME NEW s \in Sig, NEW n \in 1 .. MaxQty, FillSell(s, n)
      PROVE  SimFillSettled'
  BY <1>14 DEF FillSell, SetExecStatus, reservationVars, AcceptsFill, CanSell
<1>15. ASSUME NEW p \in Pos, FailActiveForPosition(p)
      PROVE  SimFillSettled'
  BY <1>15 DEF FailActiveForPosition, positionVars, reservationVars
<1>16. ASSUME NEW p \in Pos, BeginClose(p)
      PROVE  SimFillSettled'
  BY <1>16 DEF BeginClose, MoveStatus, execVars, reservationVars
<1>17. ASSUME NEW p \in Pos, RevertClose(p)
      PROVE  SimFillSettled'
  BY <1>17 DEF RevertClose, MoveStatus, execVars, reservationVars
<1>18. ASSUME NEW p \in Pos, MarkFailed(p)
      PROVE  SimFillSettled'
  BY <1>18 DEF MarkFailed, MoveStatus, execVars, reservationVars
<1>19. ASSUME NEW p \in Pos, MarkPendingResolution(p)
      PROVE  SimFillSettled'
  BY <1>19 DEF MarkPendingResolution, MoveStatus, execVars, reservationVars
<1>20. CASE UNCHANGED vars
  BY <1>20 DEF vars, positionVars, execVars, reservationVars
<1> QED
  BY <1>1, <1>2, <1>3, <1>4, <1>5, <1>6, <1>7, <1>8, <1>9, <1>10, <1>11,
     <1>12, <1>13, <1>14, <1>15, <1>16, <1>17, <1>18, <1>19, <1>20
     DEF Next, ReservationStep, ExecutionStep, CloseStep

\* The empty tables satisfy the inductive invariant.
LEMMA InitInv == Init => IInv
BY AbsentAssumption
   DEF Init, IInv, TypeOK, RowsAgree, ExecutionHasPosition, RowsIssued,
       OneEntryId, EnteredByOwnOrder, HoldingIffShares, HoldingStatuses,
       OpenReservationIsPending, PendingIsReserved, OneActiveSell, ActiveSells,
       SimFillSettled, PositionStatuses, ExecutionStatuses, Ages, OpenSig,
       BuySig, SellSig

\* Every transaction preserves the inductive invariant.
LEMMA StepInv == IInv /\ [Next]_vars => IInv'
<1> SUFFICES ASSUME IInv, [Next]_vars
            PROVE  IInv'
  OBVIOUS
<1>1. TypeOK'
  BY TypePreserved DEF IInv, RowsAgree
<1>2. RowsAgree'
  BY ExecutionPreserved, RowsIssuedPreserved, OneEntryIdPreserved,
     EnteredByOwnOrderPreserved
     DEF IInv, RowsAgree
<1>3. HoldingIffShares' /\ OneActiveSell'
  BY HoldingPreserved, OneActiveSellPreserved DEF IInv, RowsAgree
<1>4. OpenReservationIsPending' /\ PendingIsReserved' /\ SimFillSettled'
  BY OpenReservationPreserved, PendingPreserved, SimFillSettledPreserved
     DEF IInv
<1> QED
  BY <1>1, <1>2, <1>3, <1>4 DEF IInv

(***************************************************************************)
(* The ledger's invariants, for every set of positions, legs and signals.  *)
(***************************************************************************)
THEOREM InvariantHolds == Spec => []IInv
<1>1. Init => IInv
  BY InitInv
<1>2. IInv /\ [Next]_vars => IInv'
  BY StepInv
<1> QED
  BY <1>1, <1>2, PTL DEF Spec

\* Every column of the three tables keeps its type.
THEOREM TypeCorrect == Spec => []TypeOK
BY InvariantHolds, PTL DEF IInv

\* No transaction of reserve, claim, finalize, close, janitor or watchdog leaves
\* a dead position with shares or an active one without.
THEOREM SharesMatchStatus == Spec => []HoldingIffShares
BY InvariantHolds, PTL DEF IInv

\* A pending position keeps the reservation that will settle it, but for real
\* entries whose signal id was claimed for an earlier position.
THEOREM PendingKeepsReservation == Spec => []PendingIsReserved
BY InvariantHolds, PTL DEF IInv

\* Capital is held only for entries still pending, and once for each.
THEOREM ReservationsArePending == Spec => []OpenReservationIsPending
BY InvariantHolds, PTL DEF IInv

\* Executions, positions and reservations written by different services name
\* each other consistently.
THEOREM TablesAgree == Spec => []RowsAgree
BY InvariantHolds, PTL DEF IInv

\* The same shares are never offered by two market exits at a time.
THEOREM ExitsExclude == Spec => []OneActiveSell
BY InvariantHolds, PTL DEF IInv

\* A fill cannot touch a closed position, and no status change starts there.
LEMMA ClosedStep ==
    ASSUME IInv, IInv', [Next]_vars, NEW q \in Pos, status[q] = "closed"
    PROVE  status'[q] = "closed" /\ quantity'[q] = 0
<1> USE DEF TypeOK, ExecutionHasPosition
<1>0. TypeOK /\ TypeOK' /\ HoldingIffShares' /\ ExecutionHasPosition
  BY DEF IInv, RowsAgree
<1>a. SUFFICES status'[q] = "closed"
  BY <1>0 DEF HoldingIffShares, HoldingStatuses
<1>1. ASSUME NEW s \in Sig, NEW p \in Pos, ReserveOpen(s, p)
      PROVE  status'[q] = "closed"
  BY <1>0, <1>1 DEF ReserveOpen, CommitReservation, execVars
<1>2. ASSUME NEW s \in Sig, NEW p \in Pos, ReserveIncrease(s, p)
      PROVE  status'[q] = "closed"
  BY <1>0, <1>2 DEF ReserveIncrease, CommitReservation, execVars, positionVars
<1>3. ASSUME NEW s \in Sig, NEW t \in Sig, UpdateOrderSignalId(s, t)
      PROVE  status'[q] = "closed"
  BY <1>0, <1>3 DEF UpdateOrderSignalId, Renamable, execVars, positionVars
<1>4. ASSUME NEW s \in Sig, Release(s)
      PROVE  status'[q] = "closed"
  BY <1>0, <1>4 DEF Release, ClearReservation, execVars
<1>5. ASSUME NEW s \in Sig, ReservationAges(s)
      PROVE  status'[q] = "closed"
  BY <1>0, <1>5 DEF ReservationAges, execVars, positionVars
<1>6. ASSUME ReservationJanitor
      PROVE  status'[q] = "closed"
  BY <1>0, <1>6 DEF ReservationJanitor, LostEntries, ExpiredReservations, execVars
<1>7. ASSUME NEW s \in Sig, NEW p \in Pos, ClaimBuy(s, p)
      PROVE  status'[q] = "closed"
  BY <1>0, <1>7 DEF ClaimBuy, InsertExecution, positionVars, reservationVars
<1>8. ASSUME NEW s \in Sig, NEW p \in Pos, NEW n \in 1 .. MaxQty, ClaimSell(s, p, n)
      PROVE  status'[q] = "closed"
  BY <1>0, <1>8 DEF ClaimSell, InsertExecution, positionVars, reservationVars
<1>9. ASSUME NEW s \in Sig, RedemptionTimeout(s)
      PROVE  status'[q] = "closed"
  BY <1>0, <1>9 DEF RedemptionTimeout, SetExecStatus, positionVars, reservationVars
<1>10. ASSUME NEW s \in Sig, RearmRedemption(s)
      PROVE  status'[q] = "closed"
  BY <1>0, <1>10 DEF RearmRedemption, SetExecStatus, positionVars, reservationVars
<1>11. ASSUME NEW s \in Sig, FinalizeFailed(s)
      PROVE  status'[q] = "closed"
  BY <1>0, <1>11 DEF FinalizeFailed, SetExecStatus, ClearReservation
<1>12. ASSUME NEW s \in Sig, RejectFill(s)
      PROVE  status'[q] = "closed"
  BY <1>0, <1>12 DEF RejectFill, SetExecStatus, positionVars, reservationVars
<1>13. ASSUME NEW s \in Sig, NEW n \in 1 .. MaxQty, FillBuy(s, n)
      PROVE  status'[q] = "closed"
  BY <1>0, <1>13 DEF FillBuy, SetExecStatus, ClearReservation, AcceptsFill, CanBuy
<1>14. ASSUME NEW s \in Sig, NEW n \in 1 .. MaxQty, FillSell(s, n)
      PROVE  status'[q] = "closed"
  BY <1>0, <1>14 DEF FillSell, SetExecStatus, reservationVars, AcceptsFill, CanSell
<1>15. ASSUME NEW p \in Pos, FailActiveForPosition(p)
      PROVE  status'[q] = "closed"
  BY <1>0, <1>15 DEF FailActiveForPosition, positionVars, reservationVars
<1>16. ASSUME NEW p \in Pos, BeginClose(p)
      PROVE  status'[q] = "closed"
  BY <1>0, <1>16 DEF BeginClose, MoveStatus, execVars, reservationVars
<1>17. ASSUME NEW p \in Pos, RevertClose(p)
      PROVE  status'[q] = "closed"
  BY <1>0, <1>17 DEF RevertClose, MoveStatus, execVars, reservationVars
<1>18. ASSUME NEW p \in Pos, MarkFailed(p)
      PROVE  status'[q] = "closed"
  BY <1>0, <1>18 DEF MarkFailed, MoveStatus, execVars, reservationVars
<1>19. ASSUME NEW p \in Pos, MarkPendingResolution(p)
      PROVE  status'[q] = "closed"
  BY <1>0, <1>19 DEF MarkPendingResolution, MoveStatus, execVars, reservationVars
<1>20. CASE UNCHANGED vars
  BY <1>20 DEF vars, positionVars
<1> QED
  BY <1>1, <1>2, <1>3, <1>4, <1>5, <1>6, <1>7, <1>8, <1>9, <1>10, <1>11,
     <1>12, <1>13, <1>14, <1>15, <1>16, <1>17, <1>18, <1>19, <1>20
     DEF Next, ReservationStep, ExecutionStep, CloseStep

\* A closed position is never reopened and never gets shares again.
THEOREM ClosedStaysClosed == Spec => ClosedIsFinal
<1>1. IInv /\ IInv' /\ [Next]_vars =>
        [\A p \in Pos : status[p] = "closed" =>
           status'[p] = "closed" /\ quantity'[p] = 0]_vars
  BY ClosedStep
<1> QED
  BY <1>1, InvariantHolds, PTL DEF Spec, ClosedIsFinal

\* The one way out of cancelled is a late real fill of the position's entry.
LEMMA CancelledStep ==
    ASSUME IInv, [Next]_vars, NEW q \in Pos, status[q] = "cancelled"
    PROVE  \/ status'[q] = "cancelled"
           \/ /\ status'[q] = "open"
              /\ \E s \in BuySig :
                   /\ execPosition[s] = q /\ IsReal(s)
                   /\ execStatus[s] = "failed" /\ execStatus'[s] = "filled"
<1> USE DEF TypeOK, ExecutionHasPosition
<1> DEFINE Goal == \/ status'[q] = "cancelled"
                   \/ /\ status'[q] = "open"
                      /\ \E s \in BuySig :
                           /\ execPosition[s] = q /\ IsReal(s)
                           /\ execStatus[s] = "failed" /\ execStatus'[s] = "filled"
<1>0. TypeOK /\ ExecutionHasPosition
  BY DEF IInv, RowsAgree
<1>1. ASSUME NEW s \in Sig, NEW p \in Pos, ReserveOpen(s, p)
      PROVE  Goal
  BY <1>0, <1>1 DEF ReserveOpen, CommitReservation, execVars
<1>2. ASSUME NEW s \in Sig, NEW p \in Pos, ReserveIncrease(s, p)
      PROVE  Goal
  BY <1>0, <1>2 DEF ReserveIncrease, CommitReservation, execVars, positionVars
<1>3. ASSUME NEW s \in Sig, NEW t \in Sig, UpdateOrderSignalId(s, t)
      PROVE  Goal
  BY <1>0, <1>3 DEF UpdateOrderSignalId, Renamable, execVars, positionVars
<1>4. ASSUME NEW s \in Sig, Release(s)
      PROVE  Goal
  BY <1>0, <1>4 DEF Release, ClearReservation, execVars
<1>5. ASSUME NEW s \in Sig, ReservationAges(s)
      PROVE  Goal
  BY <1>0, <1>5 DEF ReservationAges, execVars, positionVars
<1>6. ASSUME ReservationJanitor
      PROVE  Goal
  BY <1>0, <1>6 DEF ReservationJanitor, LostEntries, ExpiredReservations, execVars
<1>7. ASSUME NEW s \in Sig, NEW p \in Pos, ClaimBuy(s, p)
      PROVE  Goal
  BY <1>0, <1>7 DEF ClaimBuy, InsertExecution, positionVars, reservationVars
<1>8. ASSUME NEW s \in Sig, NEW p \in Pos, NEW n \in 1 .. MaxQty, ClaimSell(s, p, n)
      PROVE  Goal
  BY <1>0, <1>8 DEF ClaimSell, InsertExecution, positionVars, reservationVars
<1>9. ASSUME NEW s \in Sig, RedemptionTimeout(s)
      PROVE  Goal
  BY <1>0, <1>9 DEF RedemptionTimeout, SetExecStatus, positionVars, reservationVars
<1>10. ASSUME NEW s \in Sig, RearmRedemption(s)
      PROVE  Goal
  BY <1>0, <1>10 DEF RearmRedemption, SetExecStatus, positionVars, reservationVars
<1>11. ASSUME NEW s \in Sig, FinalizeFailed(s)
      PROVE  Goal
  BY <1>0, <1>11 DEF FinalizeFailed, SetExecStatus, ClearReservation
<1>12. ASSUME NEW s \in Sig, RejectFill(s)
      PROVE  Goal
  BY <1>0, <1>12 DEF RejectFill, SetExecStatus, positionVars, reservationVars
<1>13. ASSUME NEW s \in Sig, NEW n \in 1 .. MaxQty, FillBuy(s, n)
      PROVE  Goal
  BY <1>0, <1>13 DEF FillBuy, SetExecStatus, ClearReservation, AcceptsFill, CanBuy, LateFill, BuySig
<1>14. ASSUME NEW s \in Sig, NEW n \in 1 .. MaxQty, FillSell(s, n)
      PROVE  Goal
  BY <1>0, <1>14 DEF FillSell, SetExecStatus, reservationVars, AcceptsFill, CanSell
<1>15. ASSUME NEW p \in Pos, FailActiveForPosition(p)
      PROVE  Goal
  BY <1>0, <1>15 DEF FailActiveForPosition, positionVars, reservationVars
<1>16. ASSUME NEW p \in Pos, BeginClose(p)
      PROVE  Goal
  BY <1>0, <1>16 DEF BeginClose, MoveStatus, execVars, reservationVars
<1>17. ASSUME NEW p \in Pos, RevertClose(p)
      PROVE  Goal
  BY <1>0, <1>17 DEF RevertClose, MoveStatus, execVars, reservationVars
<1>18. ASSUME NEW p \in Pos, MarkFailed(p)
      PROVE  Goal
  BY <1>0, <1>18 DEF MarkFailed, MoveStatus, execVars, reservationVars
<1>19. ASSUME NEW p \in Pos, MarkPendingResolution(p)
      PROVE  Goal
  BY <1>0, <1>19 DEF MarkPendingResolution, MoveStatus, execVars, reservationVars
<1>20. CASE UNCHANGED vars
  BY <1>20 DEF vars, positionVars
<1> QED
  BY <1>1, <1>2, <1>3, <1>4, <1>5, <1>6, <1>7, <1>8, <1>9, <1>10, <1>11,
     <1>12, <1>13, <1>14, <1>15, <1>16, <1>17, <1>18, <1>19, <1>20
     DEF Next, ReservationStep, ExecutionStep, CloseStep

\* A cancelled entry reopens only by a late fill of its own real order.
THEOREM CancelledStaysCancelled == Spec => CancelledRevivedByLateFill
<1>1. IInv /\ [Next]_vars =>
        [\A p \in Pos : status[p] = "cancelled" =>
           \/ status'[p] = "cancelled"
           \/ /\ status'[p] = "open"
              /\ \E s \in BuySig :
                   /\ execPosition[s] = p /\ IsReal(s)
                   /\ execStatus[s] = "failed" /\ execStatus'[s] = "filled"]_vars
  BY CancelledStep
<1> QED
  BY <1>1, InvariantHolds, PTL DEF Spec, CancelledRevivedByLateFill

\* finalize() ignores a filled simulated execution and drops the fill of a
\* redemption whose position is closed.
LEMMA SimFillStep ==
    ASSUME IInv, [Next]_vars, NEW x \in Sig, ~IsReal(x), fillQuantity[x] > 0
    PROVE  fillQuantity'[x] = fillQuantity[x]
<1> USE DEF TypeOK
<1>0. TypeOK /\ SimFillSettled
  BY DEF IInv
<1>1. ASSUME NEW s \in Sig, NEW n \in 1 .. MaxQty, FillBuy(s, n)
      PROVE  fillQuantity'[x] = fillQuantity[x]
  <2>1. x # s
    BY <1>0, <1>1 DEF FillBuy, AcceptsFill, SimFillSettled, BuySig, RedemptionSig
  <2> QED
    BY <1>0, <1>1, <2>1 DEF FillBuy
<1>2. ASSUME NEW s \in Sig, NEW n \in 1 .. MaxQty, FillSell(s, n)
      PROVE  fillQuantity'[x] = fillQuantity[x]
  <2>1. x # s
    BY <1>0, <1>2 DEF FillSell, AcceptsFill, CanSell, SimFillSettled
  <2> QED
    BY <1>0, <1>2, <2>1 DEF FillSell
<1>3. ASSUME Next,
             \A s \in Sig, n \in 1 .. MaxQty : ~FillBuy(s, n) /\ ~FillSell(s, n)
      PROVE  fillQuantity' = fillQuantity
  BY <1>3 DEF Next, ReservationStep, ExecutionStep, CloseStep, ReserveOpen,
     ReserveIncrease, UpdateOrderSignalId, Release, ReservationAges,
     ReservationJanitor, ClaimBuy, ClaimSell, InsertExecution,
     RedemptionTimeout, RearmRedemption, FinalizeFailed, RejectFill,
     FailActiveForPosition, BeginClose, RevertClose, MarkFailed,
     MarkPendingResolution, MoveStatus, execVars
<1>4. CASE UNCHANGED vars
  BY <1>4 DEF vars, execVars
<1> QED
  BY <1>1, <1>2, <1>3, <1>4

\* A simulated fill is credited once, however often it is delivered.
THEOREM SimFillsCountOnce == Spec => SimFillCountsOnce
<1>1. IInv /\ [Next]_vars =>
        [\A s \in Sig : ~IsReal(s) /\ fillQuantity[s] > 0 =>
           fillQuantity'[s] = fillQuantity[s]]_vars
  BY SimFillStep
<1> QED
  BY <1>1, InvariantHolds, PTL DEF Spec, SimFillCountsOnce

-----------------------------------------------------------------------------
(***************************************************************************)
(* The ledger implements the lifecycle.                                    *)
(***************************************************************************)

\* The stage of each status in the abstract lifecycle.
LEMMA StageValues ==
    /\ StageOf["none"] = "absent"
    /\ StageOf["pending"] = "entering"
    /\ StageOf["cancelled"] = "dropped"
    /\ StageOf["closed"] = "settled"
    /\ \A st \in HoldingStatuses : StageOf[st] = "live"
BY DEF StageOf, HoldingStatuses

\* A step that changes one position's stage at most, and no shares, is a
\* stutter when the stage stays the same.
LEMMA SameStage ==
    ASSUME TypeOK, UNCHANGED quantity,
           \A p \in Pos : StageOf[status'[p]] = StageOf[status[p]]
    PROVE  UNCHANGED Lifecycle!vars
BY DEF Lifecycle!vars, TypeOK

\* Each transaction is one step of the lifecycle of one position, of all the
\* entries the janitor drops, or of none.
LEMMA LifecycleStep ==
    ASSUME IInv, IInv', [Next]_vars
    PROVE  [Lifecycle!Next]_(Lifecycle!vars)
<1> USE StageValues DEF TypeOK, ExecutionHasPosition
<1> DEFINE Goal == [Lifecycle!Next]_(Lifecycle!vars)
<1>0. /\ TypeOK /\ TypeOK' /\ HoldingIffShares /\ HoldingIffShares'
      /\ ExecutionHasPosition
  BY DEF IInv, RowsAgree
<1>a. ASSUME status' = status, quantity' = quantity
      PROVE  Goal
  BY <1>a, <1>0, SameStage
<1>b. ASSUME NEW P \in SUBSET Pos, Lifecycle!Abandon(P)
      PROVE  Goal
  BY <1>b, Zenon DEF Lifecycle!Next
<1>c. ASSUME NEW p \in Pos, NEW m \in 1 .. MaxQty, Lifecycle!Acquire(p, m)
      PROVE  Goal
  BY <1>c, Zenon DEF Lifecycle!Next
<1>d. ASSUME NEW p \in Pos, Lifecycle!Settle(p)
      PROVE  Goal
  BY <1>d, Zenon DEF Lifecycle!Next
<1>e. ASSUME NEW p \in Pos, NEW left \in 1 .. quantity[p],
             Lifecycle!Reduce(p, left)
      PROVE  Goal
  BY <1>e, Zenon DEF Lifecycle!Next
<1>1. ASSUME NEW s \in Sig, NEW p \in Pos, ReserveOpen(s, p)
      PROVE  Goal
  <2>1. Lifecycle!Enter(p)
    BY <1>0, <1>1
       DEF ReserveOpen, Lifecycle!Enter, PositionStatuses, HoldingStatuses
  <2> QED
    BY <2>1 DEF Lifecycle!Next
<1>2. ASSUME NEW s \in Sig, NEW p \in Pos, ReserveIncrease(s, p)
      PROVE  Goal
  BY <1>a, <1>2 DEF ReserveIncrease, CommitReservation, execVars, positionVars
<1>3. ASSUME NEW s \in Sig, NEW t \in Sig, UpdateOrderSignalId(s, t)
      PROVE  Goal
  BY <1>a, <1>3 DEF UpdateOrderSignalId, Renamable, execVars, positionVars
<1>4. ASSUME NEW s \in Sig, Release(s)
      PROVE  Goal
  <2>1. CASE status' = status
    BY <1>a, <1>4, <2>1 DEF Release
  <2>2. CASE status' # status
    <3>1. PICK p \in Pos : /\ status[p] = "pending"
                           /\ status' = [status EXCEPT ![p] = "cancelled"]
                           /\ UNCHANGED quantity
      BY <1>0, <1>4, <2>2 DEF Release
    <3>2. Lifecycle!Abandon({p})
      BY <1>0, <3>1 DEF Lifecycle!Abandon
    <3> QED
      BY <3>1, <3>2, <1>b
  <2> QED
    BY <2>1, <2>2
<1>5. ASSUME NEW s \in Sig, ReservationAges(s)
      PROVE  Goal
  BY <1>a, <1>5 DEF ReservationAges, execVars, positionVars
<1>6. ASSUME ReservationJanitor
      PROVE  Goal
  <2> DEFINE lost ==
        {p \in Pos : /\ status[p] = "pending"
                     /\ \E s \in ExpiredReservations \cap OpenSig :
                          reservedFor[s] = p}
  <2>1. /\ status' = [p \in Pos |->
                        IF p \in lost THEN "cancelled" ELSE status[p]]
        /\ UNCHANGED quantity
    BY <1>6 DEF ReservationJanitor, LostEntries
  <2>2. \A p \in lost : p \in Pos /\ status[p] = "pending"
    OBVIOUS
  <2>3. PICK P \in SUBSET Pos : P = lost
    OBVIOUS
  <2> HIDE DEF lost
  <2>4. Lifecycle!Abandon(P)
    BY <1>0, <2>1, <2>2, <2>3 DEF Lifecycle!Abandon
  <2> QED
    BY <2>4, <1>b
<1>7. ASSUME NEW s \in Sig, NEW p \in Pos, ClaimBuy(s, p)
      PROVE  Goal
  BY <1>a, <1>7 DEF ClaimBuy, InsertExecution, positionVars, reservationVars
<1>8. ASSUME NEW s \in Sig, NEW p \in Pos, NEW n \in 1 .. MaxQty, ClaimSell(s, p, n)
      PROVE  Goal
  BY <1>a, <1>8 DEF ClaimSell, InsertExecution, positionVars, reservationVars
<1>9. ASSUME NEW s \in Sig, RedemptionTimeout(s)
      PROVE  Goal
  BY <1>a, <1>9 DEF RedemptionTimeout, SetExecStatus, positionVars, reservationVars
<1>10. ASSUME NEW s \in Sig, RearmRedemption(s)
      PROVE  Goal
  BY <1>a, <1>10 DEF RearmRedemption, SetExecStatus, positionVars, reservationVars
<1>11. ASSUME NEW s \in Sig, FinalizeFailed(s)
      PROVE  Goal
  <2>0. PICK p \in Pos : p = execPosition[s]
    BY <1>0, <1>11 DEF FinalizeFailed
  <2>1. UNCHANGED quantity
    BY <1>11 DEF FinalizeFailed
  <2>2. CASE s \in BuySig /\ status[p] = "pending"
    <3>1. status' = [status EXCEPT ![p] = "cancelled"]
      BY <1>11, <2>0, <2>2 DEF FinalizeFailed, SellSig
    <3>2. Lifecycle!Abandon({p})
      BY <1>0, <2>1, <2>2, <3>1 DEF Lifecycle!Abandon
    <3> QED
      BY <2>1, <3>2, <1>b
  <2>3. CASE ~(s \in BuySig /\ status[p] = "pending")
    <3>1. \/ status' = status
          \/ status[p] = "closing" /\ status' = [status EXCEPT ![p] = "open"]
      BY <1>11, <2>0, <2>3 DEF FinalizeFailed
    <3> QED
      BY <1>0, <2>1, <3>1, SameStage DEF HoldingStatuses
  <2> QED
    BY <2>2, <2>3
<1>12. ASSUME NEW s \in Sig, RejectFill(s)
      PROVE  Goal
  BY <1>a, <1>12 DEF RejectFill, SetExecStatus, positionVars, reservationVars
<1>13. ASSUME NEW s \in Sig, NEW n \in 1 .. MaxQty, FillBuy(s, n)
      PROVE  Goal
  <2>0. PICK p \in Pos : p = execPosition[s]
    BY <1>0, <1>13 DEF FillBuy, AcceptsFill
  <2>1. /\ n \in Nat /\ n > 0
        /\ status[p] \in {"pending", "open", "cancelled"}
        /\ status' = [status EXCEPT ![p] = "open"]
    BY <1>0, <1>13, <2>0 DEF FillBuy, AcceptsFill, CanBuy
  <2>2. StageOf[status[p]] \in {"entering", "live", "dropped"}
    BY <2>1 DEF HoldingStatuses
  <2>3. status[p] # "open" => quantity[p] = 0
    BY <1>0, <2>1 DEF HoldingIffShares, HoldingStatuses
  <2>4. quantity' = [quantity EXCEPT ![p] =
          IF status[p] = "open" THEN @ + n ELSE fillQuantity[s] + n]
    BY <1>13, <2>0 DEF FillBuy
  <2>5. quantity[p] + n <= MaxQty /\ fillQuantity[s] + n <= MaxQty
    BY <1>13, <2>0 DEF FillBuy
  <2>6. PICK m \in 1 .. MaxQty : quantity' = [quantity EXCEPT ![p] = @ + m]
    <3>1. quantity[p] \in Nat /\ fillQuantity[s] \in Nat /\ MaxQty \in Nat
      BY <1>0, BoundAssumption
    <3>2. CASE status[p] = "open"
      <4>1. n \in 1 .. MaxQty
        BY <2>1, <2>5, <3>1
      <4> QED
        BY <2>4, <3>2, <4>1
    <3>3. CASE status[p] # "open"
      <4> DEFINE m == fillQuantity[s] + n
      <4>1. m \in 1 .. MaxQty /\ quantity[p] + m = m
        BY <2>1, <2>3, <2>5, <3>1, <3>3
      <4>2. quantity' = [quantity EXCEPT ![p] = m]
        BY <2>4, <3>3
      <4> HIDE DEF m
      <4> QED
        BY <4>1, <4>2
    <3> QED
      BY <3>2, <3>3
  <2>7. Lifecycle!Acquire(p, m)
    BY <1>0, <2>1, <2>2, <2>6 DEF Lifecycle!Acquire, HoldingStatuses
  <2> QED
    BY <2>7, <1>c
<1>14. ASSUME NEW s \in Sig, NEW n \in 1 .. MaxQty, FillSell(s, n)
      PROVE  Goal
  <2> DEFINE rest == quantity[execPosition[s]]
                       - Lesser(n, quantity[execPosition[s]])
             done == s \in RedemptionSig \/ rest < MinOrderShares
  <2>0. PICK p \in Pos : p = execPosition[s]
    BY <1>0, <1>14 DEF FillSell, AcceptsFill
  <2>1. /\ n \in Nat /\ n > 0
        /\ quantity[p] \in Nat /\ quantity[p] > 0
    BY <1>0, <1>14, <2>0 DEF FillSell, CanSell
  <2>2. /\ quantity' = [quantity EXCEPT ![p] = IF done THEN 0 ELSE rest]
        /\ status' = [status EXCEPT ![p] =
             IF done THEN "closed" ELSE IF @ = "closing" THEN "open" ELSE @]
    BY <1>14, <2>0 DEF FillSell
  <2>3. status[p] \in HoldingStatuses
    BY <1>0, <2>1 DEF HoldingIffShares
  <2>4. rest \in 0 .. quantity[p]
    BY <2>0, <2>1 DEF Lesser
  <2>5. ~done => rest \in 1 .. quantity[p]
    BY <2>1, <2>4, BoundAssumption
  <2> HIDE DEF rest, done
  <2>6. CASE done
    <3>1. Lifecycle!Settle(p)
      BY <1>0, <2>1, <2>2, <2>3, <2>6 DEF Lifecycle!Settle
    <3> QED
      BY <2>1, <3>1, <1>d
  <2>7. CASE ~done
    <3>1. \A q \in Pos : StageOf[status'[q]] = StageOf[status[q]]
      BY <1>0, <2>1, <2>2, <2>3, <2>7 DEF HoldingStatuses
    <3>2. PICK left \in 1 .. quantity[p] : left = rest
      BY <2>5, <2>7
    <3>3. Lifecycle!Reduce(p, left)
      BY <1>0, <2>1, <2>2, <2>3, <2>7, <3>1, <3>2 DEF Lifecycle!Reduce
    <3> QED
      BY <3>3, <1>e
  <2> QED
    BY <2>6, <2>7
<1>15. ASSUME NEW p \in Pos, FailActiveForPosition(p)
      PROVE  Goal
  BY <1>a, <1>15 DEF FailActiveForPosition, positionVars, reservationVars
<1>16. ASSUME NEW p \in Pos, BeginClose(p)
      PROVE  Goal
  BY <1>0, <1>16, SameStage DEF BeginClose, MoveStatus, HoldingStatuses
<1>17. ASSUME NEW p \in Pos, RevertClose(p)
      PROVE  Goal
  BY <1>0, <1>17, SameStage DEF RevertClose, MoveStatus, HoldingStatuses
<1>18. ASSUME NEW p \in Pos, MarkFailed(p)
      PROVE  Goal
  BY <1>0, <1>18, SameStage DEF MarkFailed, MoveStatus, HoldingStatuses
<1>19. ASSUME NEW p \in Pos, MarkPendingResolution(p)
      PROVE  Goal
  BY <1>0, <1>19, SameStage DEF MarkPendingResolution, MoveStatus, HoldingStatuses
<1>20. CASE UNCHANGED vars
  BY <1>a, <1>20 DEF vars, positionVars
<1> QED
  BY <1>1, <1>2, <1>3, <1>4, <1>5, <1>6, <1>7, <1>8, <1>9, <1>10, <1>11,
     <1>12, <1>13, <1>14, <1>15, <1>16, <1>17, <1>18, <1>19, <1>20
     DEF Next, ReservationStep, ExecutionStep, CloseStep

\* Whatever the callers do, each position goes through its lifecycle.
THEOREM LedgerImplementsLifecycle == Spec => ImplementsLifecycle
<1>1. Init => Lifecycle!Init
  BY StageValues DEF Init, Lifecycle!Init
<1>2. IInv /\ IInv' /\ [Next]_vars => [Lifecycle!Next]_(Lifecycle!vars)
  BY LifecycleStep
<1> QED
  BY <1>1, <1>2, InvariantHolds, PTL DEF Spec, ImplementsLifecycle, Lifecycle!Spec
=============================================================================
