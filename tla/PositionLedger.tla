--------------------------- MODULE PositionLedger ---------------------------
(***************************************************************************)
(* The position ledger of Polywatch: the rows of copied_positions,         *)
(* position_reservations and executions, and the transactions of           *)
(* ReservationService, ExecutionService and CopiedPositionService that     *)
(* change them (src/packages/core/src/services).  Every copy, algo or      *)
(* weather trade, simulated or real, goes through these transactions.      *)
(*                                                                         *)
(* One action is one database transaction (or one single UPDATE).  Who     *)
(* calls it is left open here: an order signal may be delivered again, a   *)
(* result may come late or twice, a watchdog may act on a list it read     *)
(* earlier.  OrderPipeline models the callers of simulated trading.        *)
(*                                                                         *)
(* Abstractions.                                                           *)
(*  - Fees, prices, PnL and the exit-attempt counters are left out,        *)
(*    and so is the simulated balance.                                     *)
(*  - The risk limits of reserve() (max positions, size, exposure, trading *)
(*    switches) may always refuse; only the checks on positions are kept.  *)
(*  - The statuses partial and live_on_clob are never written by any       *)
(*    caller; cancelled executions behave as failed ones and no_payout     *)
(*    ones as filled ones, so each pair is one status here.                *)
(*  - Elapsed time is the choice to take the step it enables, except for   *)
(*    a reservation, whose age is state: fresh, stale (older than the      *)
(*    60 s of SIM_BUY_PLACING_STALE_MS) or expired (RESERVATION_TTL_MS).   *)
(***************************************************************************)
EXTENDS Naturals, FiniteSets

CONSTANTS
    Pos,            \* identifiers the copied_positions table may hand out
    NoPos,          \* "no position": a reservation or execution row is absent
    Leg,            \* (watchlist, condition, asset, mode) tuples one can trade
    NoLeg,          \* leg of a position that does not exist yet
    Sig,            \* order signal identifiers
    ModeOf,         \* the trading mode of a leg: "sim" or "real"
    ReasonOf,       \* the reason an order signal carries
    LegOf,          \* the leg it trades: every signal id is a hash of the
                    \* move, candle or position it stems from, and the mode
    MinOrderShares, \* MIN_ORDER_SHARES, in share units
    MaxQty,         \* bound on the shares of a position
    MaxSeq          \* bound on closing attempts of a position

Reasons == {"OPEN", "INCREASE", "CLOSE", "DECREASE", "REDEMPTION"}

ASSUME ModeAssumption == ModeOf \in [Leg -> {"sim", "real"}]
ASSUME ReasonAssumption == ReasonOf \in [Sig -> Reasons]
ASSUME LegAssumption == LegOf \in [Sig -> Leg]
ASSUME AbsentAssumption == NoPos \notin Pos /\ NoLeg \notin Leg
ASSUME BoundAssumption ==
    MinOrderShares \in Nat \ {0} /\ MaxQty \in Nat /\ MaxSeq \in Nat

OpenSig == {s \in Sig : ReasonOf[s] = "OPEN"}
BuySig == {s \in Sig : ReasonOf[s] \in {"OPEN", "INCREASE"}}
SellSig == Sig \ BuySig
RedemptionSig == {s \in Sig : ReasonOf[s] = "REDEMPTION"}

ActiveStatuses == {"pending", "open", "closing", "pending_resolution"}
HoldingStatuses == {"open", "closing", "failed", "pending_resolution"}
PositionStatuses ==
    {"none", "pending", "closed", "cancelled"} \cup HoldingStatuses
ExecutionStatuses == {"none", "placing", "filled", "failed"}
Ages == {"fresh", "stale", "expired"}
-----------------------------------------------------------------------------
VARIABLES
    status,         \* copied_positions.status, "none" before the row exists
    leg,            \* the position's leg
    quantity,       \* copied_positions.quantity
    closingSeq,     \* copied_positions.closing_attempt_seq
    execStatus,     \* executions.status of the row keyed by a signal
    execPosition,   \* executions.copied_position_id
    requestedQty,   \* executions.requested_qty (of sells)
    fillQuantity,   \* executions.fill_quantity
    reservedFor,    \* position_reservations.copied_position_id of the row
                    \* keyed by a signal, NoPos when there is no row
    reservationAge, \* age of that row
    issued          \* <<signal, position>> of the entry orders that may be
                    \* queued: a reservation was committed for them

positionVars == <<status, leg, quantity, closingSeq>>
execVars == <<execStatus, execPosition, requestedQty, fillQuantity>>
reservationVars == <<reservedFor, reservationAge, issued>>
vars == <<positionVars, execVars, reservationVars>>

TypeOK ==
    /\ status \in [Pos -> PositionStatuses]
    /\ leg \in [Pos -> Leg \cup {NoLeg}]
    /\ quantity \in [Pos -> Nat]
    /\ closingSeq \in [Pos -> Nat]
    /\ execStatus \in [Sig -> ExecutionStatuses]
    /\ execPosition \in [Sig -> Pos \cup {NoPos}]
    /\ requestedQty \in [Sig -> Nat]
    /\ fillQuantity \in [Sig -> Nat]
    /\ reservedFor \in [Sig -> Pos \cup {NoPos}]
    /\ reservationAge \in [Sig -> Ages]
    /\ issued \subseteq BuySig \X Pos

Init ==
    /\ status = [p \in Pos |-> "none"]
    /\ leg = [p \in Pos |-> NoLeg]
    /\ quantity = [p \in Pos |-> 0]
    /\ closingSeq = [p \in Pos |-> 0]
    /\ execStatus = [s \in Sig |-> "none"]
    /\ execPosition = [s \in Sig |-> NoPos]
    /\ requestedQty = [s \in Sig |-> 0]
    /\ fillQuantity = [s \in Sig |-> 0]
    /\ reservedFor = [s \in Sig |-> NoPos]
    /\ reservationAge = [s \in Sig |-> "fresh"]
    /\ issued = {}
-----------------------------------------------------------------------------
IsReal(s) == ModeOf[LegOf[s]] = "real"

\* Faulty variant: the other one.
Greater(a, b) == IF a < b THEN b ELSE a

Lesser(a, b) == IF a < b THEN a ELSE b

HasReservation(p) == \E s \in OpenSig : reservedFor[s] = p

\* ReservationService.hasInFlightBuy and ExecutionService.hasInFlightBuy
HasInFlightBuy(p) ==
    \E s \in BuySig : execPosition[s] = p /\ execStatus[s] = "placing"

ActiveSells(p) ==
    {s \in SellSig : execPosition[s] = p /\ execStatus[s] = "placing"}

ClearReservation(s) ==
    /\ reservedFor' = [reservedFor EXCEPT ![s] = NoPos]
    /\ reservationAge' = [reservationAge EXCEPT ![s] = "fresh"]

CommitReservation(s, p) ==
    /\ reservedFor[s] = NoPos
    /\ reservedFor' = [reservedFor EXCEPT ![s] = p]
    /\ reservationAge' = [reservationAge EXCEPT ![s] = "fresh"]
    /\ issued' = issued \cup {<<s, p>>}

\* reserve() of an OPEN entry: a pending position on a leg with no active one.
ReserveOpen(s, p) ==
    /\ s \in OpenSig
    /\ status[p] = "none"
    /\ \A q \in Pos : leg[q] = LegOf[s] => status[q] \notin ActiveStatuses
    /\ status' = [status EXCEPT ![p] = "pending"]
    /\ leg' = [leg EXCEPT ![p] = LegOf[s]]
    /\ CommitReservation(s, p)
    /\ UNCHANGED <<quantity, closingSeq, execVars>>

\* reserve() of an INCREASE: attaches to an open position of the leg.
ReserveIncrease(s, p) ==
    /\ s \in BuySig \ OpenSig
    /\ leg[p] = LegOf[s] /\ status[p] = "open"
    /\ CommitReservation(s, p)
    /\ UNCHANGED <<positionVars, execVars>>

Renamable(s, t) ==
    /\ s \in OpenSig /\ t \in OpenSig /\ LegOf[s] = LegOf[t]
    /\ reservedFor[s] # NoPos /\ reservedFor[t] = NoPos
    /\ \A u \in BuySig : execPosition[u] # reservedFor[s]
    /\ execStatus[t] = "none"

\* updateOrderSignalId(): an algo entry reserves under its logical key, then
\* renames the row to the hash that includes the new position's id and only
\* then queues the order.
UpdateOrderSignalId(s, t) ==
    /\ Renamable(s, t)
    /\ reservedFor' =
         [reservedFor EXCEPT ![s] = NoPos, ![t] = reservedFor[s]]
    /\ reservationAge' =
         [reservationAge EXCEPT ![s] = "fresh", ![t] = reservationAge[s]]
    /\ issued' = (issued \ {<<s, reservedFor[s]>>})
                    \cup {<<t, reservedFor[s]>>}
    /\ UNCHANGED <<positionVars, execVars>>

\* release(): a no-op while a BUY of the position is in flight.
Release(s) ==
    LET p == reservedFor[s] IN
    /\ p # NoPos
    /\ ~HasInFlightBuy(p)
    /\ status' = IF s \in OpenSig /\ status[p] = "pending"
                   THEN [status EXCEPT ![p] = "cancelled"] ELSE status
    /\ ClearReservation(s)
    /\ UNCHANGED <<leg, quantity, closingSeq, execVars, issued>>

\* release() without a row, or with a BUY in flight, does nothing.
TryRelease(s) ==
    \/ Release(s)
    \/ /\ IF reservedFor[s] = NoPos THEN TRUE ELSE HasInFlightBuy(reservedFor[s])
       /\ UNCHANGED vars

ReservationAges(s) ==
    /\ reservedFor[s] # NoPos
    /\ \/ /\ reservationAge[s] = "fresh"
          /\ reservationAge' = [reservationAge EXCEPT ![s] = "stale"]
       \/ /\ reservationAge[s] = "stale"
          /\ reservationAge' = [reservationAge EXCEPT ![s] = "expired"]
    /\ UNCHANGED <<positionVars, execVars, reservedFor, issued>>

ExpiredReservations ==
    {s \in Sig : reservedFor[s] # NoPos /\ reservationAge[s] = "expired"}

\* Faulty variant: the janitor deletes rows but forgets their positions.
LostEntriesForgotten == {}

LostEntries ==
    {p \in Pos : /\ status[p] = "pending"
                 /\ \E s \in ExpiredReservations \cap OpenSig : reservedFor[s] = p}

\* janitor(): unlike release(), it does not look for a BUY in flight.
ReservationJanitor ==
    LET lapsed == ExpiredReservations IN
    /\ lapsed # {}
    /\ status' =
         [p \in Pos |-> IF p \in LostEntries THEN "cancelled" ELSE status[p]]
    /\ reservedFor' =
         [s \in Sig |-> IF s \in lapsed THEN NoPos ELSE reservedFor[s]]
    /\ reservationAge' =
         [s \in Sig |-> IF s \in lapsed THEN "fresh" ELSE reservationAge[s]]
    /\ UNCHANGED <<leg, quantity, closingSeq, execVars, issued>>
-----------------------------------------------------------------------------
InsertExecution(s, p, n) ==
    /\ execStatus[s] = "none"
    /\ execStatus' = [execStatus EXCEPT ![s] = "placing"]
    /\ execPosition' = [execPosition EXCEPT ![s] = p]
    /\ requestedQty' = [requestedQty EXCEPT ![s] = n]
    /\ UNCHANGED <<positionVars, fillQuantity, reservationVars>>

\* claim() of an entry: the position is the one the order signal names.  The
\* executor checked the reservation in an earlier transaction.
ClaimBuy(s, p) ==
    /\ <<s, p>> \in issued
    /\ InsertExecution(s, p, 0)

\* Faulty variant: an exit is claimed whatever else is in flight.
ClaimSellUnchecked(s, p, n) ==
    /\ s \in SellSig /\ leg[p] = LegOf[s] /\ n > 0
    /\ status[p] \notin {"none", "closed", "cancelled"} /\ quantity[p] > 0
    /\ InsertExecution(s, p, n)

\* claim() of an exit of n shares; a redemption's signal id is derived from
\* its position.
ClaimSell(s, p, n) ==
    /\ s \in SellSig
    /\ leg[p] = LegOf[s] /\ n > 0
    /\ status[p] \notin {"none", "closed", "cancelled"} /\ quantity[p] > 0
    /\ ActiveSells(p) = {}
    /\ s \in RedemptionSig =>
         \A t \in RedemptionSig : execPosition[t] # p
    /\ InsertExecution(s, p, n)

SetExecStatus(s, st) == execStatus' = [execStatus EXCEPT ![s] = st]

\* claimUnlessFilled(): a redemption that has been placing for five minutes is
\* first saved as failed ...
RedemptionTimeout(s) ==
    /\ s \in RedemptionSig /\ execStatus[s] = "placing"
    /\ SetExecStatus(s, "failed")
    /\ UNCHANGED <<positionVars, execPosition, requestedQty, fillQuantity,
                   reservationVars>>

\* ... and a failed one is saved as placing again, without claim()'s checks.
RearmRedemption(s) ==
    /\ s \in RedemptionSig /\ execStatus[s] = "failed"
    /\ SetExecStatus(s, "placing")
    /\ UNCHANGED <<positionVars, execPosition, requestedQty, fillQuantity,
                   reservationVars>>

\* finalize() with a failed result.  Only an execution that already failed
\* makes it return early: a filled one is overwritten.
FinalizeFailed(s) ==
    LET p == execPosition[s] IN
    /\ execStatus[s] \in {"placing", "filled"}
    /\ SetExecStatus(s, "failed")
    /\ \/ /\ s \in BuySig /\ status[p] = "pending"
          /\ status' = [status EXCEPT ![p] = "cancelled"]
          /\ ClearReservation(s)
       \/ /\ s \in SellSig /\ status[p] = "closing"
          /\ status' = [status EXCEPT ![p] = "open"]
          /\ UNCHANGED <<reservedFor, reservationAge>>
       \/ /\ IF s \in BuySig THEN status[p] # "pending" ELSE status[p] # "closing"
          /\ UNCHANGED <<status, reservedFor, reservationAge>>
    /\ UNCHANGED <<leg, quantity, closingSeq, execPosition, requestedQty,
                   fillQuantity, issued>>

\* Faulty variant: a failed simulated execution takes a late fill too.
AcceptsAnyLateFill(s) == execStatus[s] \in {"placing", "failed"}

\* A filled result is ignored by a filled execution, and by a failed one
\* unless it is real.
AcceptsFill(s) ==
    \/ execStatus[s] = "placing"
    \/ execStatus[s] = "failed" /\ IsReal(s)

\* Faulty variant: the status the execution had is not looked at.
LateFillAssumed(s) == TRUE

LateFill(s) == execStatus[s] = "failed"

\* Faulty variant: a closed position takes a late fill like a cancelled one.
CanBuyClosed(s, p) ==
    \/ status[p] \in {"pending", "open"}
    \/ status[p] \in {"cancelled", "closed"} /\ LateFill(s)

\* A cancelled position takes a late real fill as if it were still pending.
CanBuy(s, p) ==
    \/ status[p] \in {"pending", "open"}
    \/ status[p] = "cancelled" /\ LateFill(s)

CanSell(p) == status[p] \notin {"closed", "cancelled"} /\ quantity[p] > 0

\* finalize() of a BUY that filled n shares.
FillBuy(s, n) ==
    LET p == execPosition[s] IN
    /\ s \in BuySig /\ n > 0
    /\ AcceptsFill(s) /\ CanBuy(s, p)
    /\ quantity[p] + n <= MaxQty /\ fillQuantity[s] + n <= MaxQty
    /\ SetExecStatus(s, "filled")
    /\ fillQuantity' = [fillQuantity EXCEPT ![s] = @ + n]
    /\ status' = [status EXCEPT ![p] = "open"]
    /\ quantity' = [quantity EXCEPT ![p] =
                      IF status[p] = "open" THEN @ + n ELSE fillQuantity[s] + n]
    /\ ClearReservation(s)
    /\ UNCHANGED <<leg, closingSeq, execPosition, requestedQty, issued>>

\* A simulated market exit never fills more than was requested; the CLOB may,
\* by rounding, and a redemption armed again carries a newer quantity.
HonestFill(s, n) ==
    IsReal(s) \/ s \in RedemptionSig \/ n <= requestedQty[s]

\* finalize() of a SELL that filled n shares: the position gives up what it
\* has, the execution records no more than it requested.
FillSell(s, n) ==
    LET p == execPosition[s]
        sold == Lesser(n, quantity[p])
        left == quantity[p] - sold
        wanted == IF requestedQty[s] > fillQuantity[s]
                    THEN requestedQty[s] - fillQuantity[s] ELSE 0
        done == s \in RedemptionSig \/ left < MinOrderShares
    IN  /\ s \in SellSig /\ n > 0
        /\ AcceptsFill(s) /\ CanSell(p) /\ HonestFill(s, n)
        /\ SetExecStatus(s, "filled")
        /\ fillQuantity' = [fillQuantity EXCEPT ![s] =
                              Lesser(@ + Lesser(sold, wanted), requestedQty[s])]
        /\ quantity' = [quantity EXCEPT ![p] = IF done THEN 0 ELSE left]
        /\ status' = [status EXCEPT ![p] =
                        IF done THEN "closed" ELSE IF @ = "closing" THEN "open" ELSE @]
        /\ UNCHANGED <<leg, closingSeq, execPosition, requestedQty,
                       reservationVars>>

\* finalize() with a fill the position cannot take: invalid_buy_state or
\* position_already_closed.  The fill is dropped.
RejectFill(s) ==
    LET p == execPosition[s] IN
    /\ AcceptsFill(s)
    /\ IF s \in BuySig THEN ~CanBuy(s, p) ELSE ~CanSell(p)
    /\ SetExecStatus(s, "failed")
    /\ UNCHANGED <<positionVars, execPosition, requestedQty, fillQuantity,
                   reservationVars>>

\* finalize(), whatever the execution's state.
Ignored(s, n) ==
    IF n = 0 THEN execStatus[s] \in {"none", "failed"} ELSE ~AcceptsFill(s)

Finalize(s, n) ==
    \/ n = 0 /\ FinalizeFailed(s)
    \/ n > 0 /\ (FillBuy(s, n) \/ FillSell(s, n) \/ RejectFill(s))
    \/ Ignored(s, n) /\ UNCHANGED vars

\* A result that filled qty shares, or failed when qty is 0.
Result(s, n) == [sig |-> s, qty |-> n]

\* failActiveForPosition(): the closing watchdog, on a position it saw closing.
FailActiveForPosition(p) ==
    /\ closingSeq[p] > 0
    /\ execStatus' = [s \in Sig |->
         IF execPosition[s] = p /\ execStatus[s] = "placing"
           THEN "failed" ELSE execStatus[s]]
    /\ UNCHANGED <<positionVars, execPosition, requestedQty, fillQuantity,
                   reservationVars>>
-----------------------------------------------------------------------------
MoveStatus(p, from, to) ==
    /\ status[p] \in from
    /\ status' = [status EXCEPT ![p] = to]
    /\ UNCHANGED <<leg, quantity, execVars, reservationVars>>

\* Faulty variant: a pending entry can be closed.
BeginCloseAnyActive(p) ==
    /\ closingSeq[p] < MaxSeq
    /\ MoveStatus(p, {"open", "failed", "pending"}, "closing")
    /\ closingSeq' = [closingSeq EXCEPT ![p] = @ + 1]

BeginClose(p) ==
    /\ closingSeq[p] < MaxSeq
    /\ MoveStatus(p, {"open", "failed"}, "closing")
    /\ closingSeq' = [closingSeq EXCEPT ![p] = @ + 1]

RevertClose(p) == MoveStatus(p, {"closing"}, "open") /\ UNCHANGED closingSeq

MarkFailed(p) == MoveStatus(p, {"closing"}, "failed") /\ UNCHANGED closingSeq

\* Faulty variant: a market that resolves takes its closed positions along.
MarkPendingResolutionClosed(p) ==
    /\ MoveStatus(p, {"open", "closing", "failed", "closed"},
                  "pending_resolution")
    /\ UNCHANGED closingSeq

MarkPendingResolution(p) ==
    /\ MoveStatus(p, {"open", "closing", "failed"}, "pending_resolution")
    /\ UNCHANGED closingSeq
-----------------------------------------------------------------------------
ReservationStep ==
    \/ \E s \in Sig, p \in Pos :
         ReserveOpen(s, p) \/ ReserveIncrease(s, p)
    \/ \E s, t \in Sig : UpdateOrderSignalId(s, t)
    \/ \E s \in Sig : Release(s) \/ ReservationAges(s)
    \/ ReservationJanitor

ExecutionStep ==
    \/ \E s \in Sig, p \in Pos :
         ClaimBuy(s, p) \/ \E n \in 1 .. MaxQty : ClaimSell(s, p, n)
    \/ \E s \in Sig : \/ RedemptionTimeout(s) \/ RearmRedemption(s)
                      \/ FinalizeFailed(s) \/ RejectFill(s)
    \/ \E s \in Sig, n \in 1 .. MaxQty : FillBuy(s, n) \/ FillSell(s, n)
    \/ \E p \in Pos : FailActiveForPosition(p)

CloseStep ==
    \E p \in Pos : \/ BeginClose(p) \/ RevertClose(p)
                   \/ MarkFailed(p) \/ MarkPendingResolution(p)

Next == ReservationStep \/ ExecutionStep \/ CloseStep

Spec == Init /\ [][Next]_vars
-----------------------------------------------------------------------------
\* The signal id of p's real entry was claimed for another position: a copied
\* move that is retried after its entry was released keeps its id, because
\* hashCopyOrderSignalId does not contain the position.
ClaimedElsewhere(p) ==
    \E s \in OpenSig : /\ <<s, p>> \in issued /\ IsReal(s)
                       /\ execPosition[s] \notin {p, NoPos}

\* A pending position always has the reservation that a release, a janitor or
\* the entry's own result will settle it by; without one it stays pending and
\* blocks its leg.  The exception is a real entry whose signal id was claimed
\* for an earlier position: a late fill of that position deletes, by signal
\* id, the reservation of this one.
PendingIsReserved ==
    \A p \in Pos : status[p] = "pending" =>
        HasReservation(p) \/ ClaimedElsewhere(p)

\* The capital an OPEN reservation holds belongs to a position still waiting
\* for its entry, and to one reservation only: reserve(), release(), the
\* janitor and finalize() each delete the row in the transaction that moves
\* the position on.
OpenReservationIsPending ==
    \A s \in OpenSig : reservedFor[s] # NoPos =>
        /\ status[reservedFor[s]] = "pending"
        /\ \A t \in OpenSig : reservedFor[t] = reservedFor[s] => t = s

\* A position holds shares exactly when its status says so: no exit, late
\* fill, watchdog or redemption leaves a dead position with shares or an
\* active one with none.
HoldingIffShares ==
    \A p \in Pos : status[p] \in HoldingStatuses <=> quantity[p] > 0

\* claim() never lets two market exits of one position be in flight, so the
\* same shares are not sold twice (redemptions apart, which can be re-armed).
OneActiveSell ==
    \A p \in Pos : \A s, t \in ActiveSells(p) \ RedemptionSig : s = t

\* An execution row exists exactly when it names a position.
ExecutionHasPosition ==
    \A s \in Sig : execStatus[s] # "none" <=> execPosition[s] \in Pos

\* Entries are claimed and reserved under the id they were issued with, for a
\* position of their leg, and no row names a position that was not created.
RowsIssued ==
    /\ \A s \in BuySig : execPosition[s] \in Pos => <<s, execPosition[s]>> \in issued
    /\ \A s \in Sig : reservedFor[s] \in Pos => <<s, reservedFor[s]>> \in issued
    /\ \A s \in Sig, p \in Pos : <<s, p>> \in issued => leg[p] = LegOf[s]
    /\ \A s \in Sig, p \in Pos : status[p] = "none" =>
         <<s, p>> \notin issued /\ execPosition[s] # p

\* A position has one entry id; increases are issued only once it was open.
OneEntryId ==
    /\ \A s, t \in OpenSig, p \in Pos :
         <<s, p>> \in issued /\ <<t, p>> \in issued => s = t
    /\ \A s \in BuySig \ OpenSig, p \in Pos : <<s, p>> \in issued =>
         status[p] \notin {"pending", "cancelled"}

\* A position got past its entry by a fill of its own entry order, which is
\* therefore no longer in flight.
EnteredByOwnOrder ==
    \A s \in OpenSig, p \in Pos : <<s, p>> \in issued =>
        \/ status[p] \in {"pending", "cancelled"}
        \/ execPosition[s] = p /\ execStatus[s] \in {"filled", "failed"}

\* The three tables agree: what the invariants above rest on.
RowsAgree ==
    ExecutionHasPosition /\ RowsIssued /\ OneEntryId /\ EnteredByOwnOrder

\* A simulated execution that was credited is settled; only a redemption can be
\* armed again, and then its position is closed and takes no second fill.
SimFillSettled ==
    \A s \in Sig : ~IsReal(s) /\ fillQuantity[s] > 0 =>
        /\ execStatus[s] # "none"
        /\ \/ s \notin RedemptionSig /\ execStatus[s] # "placing"
           \/ s \in RedemptionSig /\ status[execPosition[s]] = "closed"

\* The inductive invariant.
IInv ==
    /\ TypeOK
    /\ RowsAgree
    /\ HoldingIffShares
    /\ OpenReservationIsPending
    /\ PendingIsReserved
    /\ OneActiveSell
    /\ SimFillSettled

\* A closed position is settled for good: no late fill, redelivered result,
\* retry of a close or second redemption brings it back or gives it shares.
ClosedIsFinal ==
    [][\A p \in Pos : status[p] = "closed" =>
         status'[p] = "closed" /\ quantity'[p] = 0]_vars

\* A cancelled entry comes back in one way only: a real execution of its own
\* that had failed reports a fill, and the position opens in that same step.
CancelledRevivedByLateFill ==
    [][\A p \in Pos : status[p] = "cancelled" =>
         \/ status'[p] = "cancelled"
         \/ /\ status'[p] = "open"
            /\ \E s \in BuySig :
                 /\ execPosition[s] = p /\ IsReal(s)
                 /\ execStatus[s] = "failed" /\ execStatus'[s] = "filled"]_vars

\* However often its result is delivered, a simulated execution is credited at
\* most once: not even a failed result that overwrites it, nor the re-arming of
\* a redemption that this makes possible, opens the way to a second fill.
SimFillCountsOnce ==
    [][\A s \in Sig : ~IsReal(s) /\ fillQuantity[s] > 0 =>
         fillQuantity'[s] = fillQuantity[s]]_vars
-----------------------------------------------------------------------------
StageOf ==
    [none |-> "absent", pending |-> "entering", cancelled |-> "dropped",
     closed |-> "settled", open |-> "live", closing |-> "live",
     failed |-> "live", pending_resolution |-> "live"]

Lifecycle ==
    INSTANCE PositionLifecycle
        WITH life <- [p \in Pos |-> StageOf[status[p]]],
             shares <- quantity, MaxShares <- MaxQty

\* Reservations, claims, results, janitors and watchdogs together never take a
\* position through a step its lifecycle does not have.
ImplementsLifecycle == Lifecycle!Spec
=============================================================================
