--------------------------- MODULE OrderPipeline ---------------------------
(***************************************************************************)
(* The order pipeline of simulated trading, on top of the transactions of  *)
(* PositionLedger: entry and exit signals are queued, an executor takes    *)
(* them through the checks, the claim and the simulated fill, its results  *)
(* are queued again and booked by the results consumer, and redemptions    *)
(* and watchdogs act besides (src/packages/worker/src: processors,         *)
(* watchdogs and index.ts).                                                *)
(*                                                                         *)
(* One action is what happens between two awaits that another actor can    *)
(* come between: one transaction, one push.  Executors and the results     *)
(* consumer hold the position's lock (PositionLock) throughout a job; the  *)
(* backend, the watchdogs and the redemption handler do not take it.       *)
(*                                                                         *)
(* Abstractions.                                                           *)
(*  - A queue is the set of its jobs: RedisQueue shows in which order and  *)
(*    how often a job can come out.  The worker may stop between any two   *)
(*    actions; what it was working on is in a queue again when it is back. *)
(*  - One executor works per position; that a consumer takes one job at a  *)
(*    time only restricts it further.                                      *)
(*  - Functions that outlive the lock's timeout are not modelled, nor is   *)
(*    the renaming of an algo reservation before its order is sent.        *)
(***************************************************************************)
EXTENDS PositionLedger

CONSTANTS
    NoSig,
    SeqOf,      \* the closingAttemptSeq an exit signal carries, 0 when it has
                \* none (copied exits)
    MaxFill,    \* bound on the shares one entry buys
    MaxSent,    \* bound on the times one signal is queued
    MaxFaults   \* bound on crashes, lost jobs and failing pushes

ASSUME SimulatedAssumption == \A l \in Leg : ModeOf[l] = "sim"
ASSUME NoSigAssumption == NoSig \notin Sig
ASSUME SeqAssumption == SeqOf \in [Sig -> Nat]
ASSUME PipelineBounds == {MaxFill, MaxSent, MaxFaults} \subseteq Nat

CloseSig == {s \in Sig : ReasonOf[s] = "CLOSE"}

VARIABLES
    orders,     \* <<signal, position>> in the order and close queues
    results,    \* what execution-results holds
    active,     \* per position: the signal an executor works on, and where
    up,         \* the worker's consumers and timers run
    suspects,   \* executions the placing janitor is about to fail
    watch,      \* per position: how far the closing watchdog is
    manual,     \* per position: the exit signal the backend is about to queue
    redemption, \* per position: how far the redemption handler is
    redeemQty,  \* and the shares it read
    resolved,   \* legs whose market is resolved
    placed,     \* how often each order was placed in a book (history)
    sent,       \* how often each signal was queued (history)
    faults      \* faults so far

queues == <<orders, results>>
worker == <<active, up>>
watchdogs == <<suspects, watch>>
redeeming == <<redemption, redeemQty>>
counters == <<placed, sent, faults>>
others == <<manual, redeeming, resolved>>
pipelineVars == <<queues, worker, watchdogs, others, counters>>
allVars == <<vars, pipelineVars>>

Idle == [sig |-> NoSig, at |-> "idle"]

Places == {"begin", "mos", "check", "release", "refuse", "claim", "collide",
           "place", "done"}

NobodyActive == active = [p \in Pos |-> Idle]

PipelineInit ==
    /\ Init
    /\ orders = {} /\ results = {}
    /\ NobodyActive /\ up = TRUE
    /\ suspects = {} /\ watch = [p \in Pos |-> "none"]
    /\ manual = [p \in Pos |-> NoSig]
    /\ redemption = [p \in Pos |-> "none"] /\ redeemQty = [p \in Pos |-> 0]
    /\ resolved = {}
    /\ placed = [s \in Sig |-> 0] /\ sent = [s \in Sig |-> 0] /\ faults = 0
-----------------------------------------------------------------------------
Fault == faults < MaxFaults /\ faults' = faults + 1

Send(s, p) ==
    /\ sent[s] < MaxSent
    /\ orders' = orders \cup {<<s, p>>}
    /\ sent' = [sent EXCEPT ![s] = @ + 1]

\* The copy, algo and weather pipelines reserve; later, a pipeline that is
\* called again or the janitor of pending entries may give the entry up ...
Reserve(s, p) ==
    /\ LegOf[s] \notin resolved
    /\ ReserveOpen(s, p) \/ ReserveIncrease(s, p)
    /\ UNCHANGED pipelineVars

GiveUp(s) == Release(s) /\ UNCHANGED pipelineVars

\* ... or queue its order, once more when they still see the reservation.
SendEntry(s, p) ==
    /\ reservedFor[s] = p
    /\ Send(s, p)
    /\ UNCHANGED <<vars, results, worker, watchdogs, others, placed, faults>>

\* Strategies, the kill switch and weather exits close what they see open or
\* failed; a copied exit, which carries no sequence number, what it sees open.
SendExit(s, p) ==
    /\ s \in SellSig \ RedemptionSig /\ LegOf[s] = leg[p]
    /\ \/ SeqOf[s] = 0 /\ status[p] = "open"
       \/ SeqOf[s] = closingSeq[p] + 1 /\ status[p] \in {"open", "failed"}
    /\ Send(s, p)
    /\ UNCHANGED <<vars, results, worker, watchdogs, others, placed, faults>>

\* markFailed() and revertClose() update nothing when the position has moved on.
\* (Faulty variant: they do not look.)
FailUnchecked(p) ==
    /\ status' = [status EXCEPT ![p] = "failed"]
    /\ UNCHANGED <<leg, quantity, closingSeq, execVars, reservationVars>>

EnsureFailed(p) == MarkFailed(p) \/ (status[p] # "closing" /\ UNCHANGED vars)

EnsureReverted(p) == RevertClose(p) \/ (status[p] # "closing" /\ UNCHANGED vars)

\* POST /positions/:id/close moves the position first and queues the signal
\* after that; when the push fails it marks the position failed.
ManualClose(s, p) ==
    /\ s \in CloseSig /\ LegOf[s] = leg[p] /\ SeqOf[s] = closingSeq[p] + 1
    /\ manual[p] = NoSig /\ BeginClose(p)
    /\ manual' = [manual EXCEPT ![p] = s]
    /\ UNCHANGED <<queues, worker, watchdogs, redeeming, resolved, counters>>

ManualPush(p) ==
    /\ manual[p] # NoSig
    /\ Send(manual[p], p)
    /\ manual' = [manual EXCEPT ![p] = NoSig]
    /\ UNCHANGED <<vars, results, worker, watchdogs, redeeming, resolved,
                   placed, faults>>

ManualPushFails(p) ==
    /\ manual[p] # NoSig /\ Fault
    /\ EnsureFailed(p)
    /\ manual' = [manual EXCEPT ![p] = NoSig]
    /\ UNCHANGED <<queues, worker, watchdogs, redeeming, resolved, placed, sent>>

BackendCrash(p) ==
    /\ manual[p] # NoSig /\ Fault
    /\ manual' = [manual EXCEPT ![p] = NoSig]
    /\ UNCHANGED <<vars, queues, worker, watchdogs, redeeming, resolved,
                   placed, sent>>
-----------------------------------------------------------------------------
FirstPlace(s) ==
    IF s \in CloseSig THEN "begin" ELSE IF s \in BuySig THEN "check" ELSE "claim"

\* Executor.handle(): the lock is free, so no result of p is being booked.
Take(s, p) ==
    /\ up /\ active[p] = Idle /\ <<s, p>> \in orders
    /\ orders' = orders \ {<<s, p>>}
    /\ active' = [active EXCEPT ![p] = [sig |-> s, at |-> FirstPlace(s)]]
    /\ UNCHANGED <<vars, results, up, watchdogs, others, counters>>

Step(p, from, to) ==
    /\ active[p].at = from
    /\ active' = [active EXCEPT ![p].at = to]
    /\ UNCHANGED up

\* A step that changes the ledger and nothing else of the pipeline.
OnlyLedger == UNCHANGED <<queues, watchdogs, others, counters>>

\* beginClose(): an attempt may resume the one it started before a restart.
ResumesClose(s, p) ==
    status[p] = "closing" /\ SeqOf[s] > 0 /\ SeqOf[s] = closingSeq[p]

StartExit(p) ==
    LET s == active[p].sig IN
    /\ \/ Step(p, "begin", "mos") /\ BeginClose(p)
       \/ Step(p, "begin", "mos") /\ ResumesClose(s, p) /\ UNCHANGED vars
       \/ /\ Step(p, "begin", "done") /\ UNCHANGED vars
          /\ status[p] \notin {"open", "failed"} /\ ~ResumesClose(s, p)
    /\ OnlyLedger

\* The quantity may be below the market's minimum order size.
CheckMinimum(p) ==
    /\ \/ Step(p, "mos", "claim") /\ UNCHANGED vars
       \/ /\ Step(p, "mos", "done")
          /\ EnsureReverted(p)
    /\ OnlyLedger

ReservationLive(s) == reservedFor[s] # NoPos /\ reservationAge[s] # "expired"

\* A trading switch may be off at any time, and then the entry is refused too.
CheckEntry(p) ==
    /\ \/ Step(p, "check", "claim") /\ ReservationLive(active[p].sig)
       \/ Step(p, "check", "release")
    /\ UNCHANGED vars /\ OnlyLedger

ReleaseRefused(p) ==
    Step(p, "release", "refuse") /\ TryRelease(active[p].sig) /\ OnlyLedger

\* The failed result of a refused entry goes straight to the queue.
Refuse(p) ==
    /\ Step(p, "refuse", "done")
    /\ results' = results \cup {Result(active[p].sig, 0)}
    /\ UNCHANGED <<vars, orders, watchdogs, others, counters>>

Claimable(s, p) ==
    /\ execStatus[s] = "none"
    /\ s \in SellSig =>
         /\ status[p] \notin {"closed", "cancelled"} /\ quantity[p] > 0
         /\ ActiveSells(p) = {}

\* Faulty variant: an order that was claimed before is placed again.
ClaimDuplicate(p) ==
    LET s == active[p].sig IN
    /\ active[p].at = "claim"
    /\ \/ /\ ClaimBuy(s, p) \/ \E n \in 1 .. MaxQty : ClaimSell(s, p, n)
          /\ Step(p, "claim", "place")
       \/ /\ ~Claimable(s, p) /\ UNCHANGED vars
          /\ Step(p, "claim",
                  IF execStatus[s] = "placing" THEN "place" ELSE "done")
    /\ OnlyLedger

\* claim(): the quantity is the one the signal was built with.
Claim(p) ==
    LET s == active[p].sig
        seen == execStatus[s] \in {"filled", "failed"} IN
    /\ active[p].at = "claim"
    /\ \/ /\ ClaimBuy(s, p) \/ \E n \in 1 .. MaxQty : ClaimSell(s, p, n)
          /\ Step(p, "claim", "place")
       \/ /\ ~Claimable(s, p) /\ UNCHANGED vars
          /\ Step(p, "claim", IF s \in BuySig /\ seen THEN "collide" ELSE "done")
    /\ OnlyLedger

\* already_claimed: releaseByCopiedPositionId(), then a failed result under
\* the id of the execution that is there already.
Collide(p) ==
    /\ Step(p, "collide", "refuse")
    /\ \/ \E s \in Sig : reservedFor[s] = p /\ TryRelease(s)
       \/ p \notin {reservedFor[s] : s \in Sig} /\ UNCHANGED vars
    /\ OnlyLedger

\* The book of a resolved market is empty; otherwise the order fills, or not.
Fills(s) ==
    {0} \cup IF LegOf[s] \in resolved THEN {}
             ELSE IF s \in BuySig THEN 1 .. MaxFill ELSE 1 .. requestedQty[s]

CountPlaced(s) == placed' = [placed EXCEPT ![s] = @ + 1]

Place(p) ==
    LET s == active[p].sig IN
    /\ Step(p, "place", "done")
    /\ \E n \in Fills(s) : results' = results \cup {Result(s, n)}
    /\ CountPlaced(s)
    /\ UNCHANGED <<vars, orders, watchdogs, others, sent, faults>>

\* settleTerminal() when three pushes fail: the result is booked on the spot,
\* and may be in the queue all the same.
PlaceUnqueued(p) ==
    LET s == active[p].sig IN
    /\ Fault
    /\ Step(p, "place", "done")
    /\ \E n \in Fills(s) :
         /\ Finalize(s, n)
         /\ results' \in {results, results \cup {Result(s, n)}}
    /\ CountPlaced(s)
    /\ UNCHANGED <<orders, watchdogs, others, sent>>

\* The local booking fails as well: the execution stays placing.
PlaceUnsettled(p) ==
    /\ Fault
    /\ Step(p, "place", "done")
    /\ CountPlaced(active[p].sig)
    /\ UNCHANGED <<vars, queues, watchdogs, others, sent>>

\* The handler returned: LREM.
Finish(p) ==
    /\ active[p].at = "done"
    /\ active' = [active EXCEPT ![p] = Idle]
    /\ UNCHANGED <<vars, queues, up, watchdogs, others, counters>>
-----------------------------------------------------------------------------
\* ResultsConsumer.handle().  The result comes again when the worker stops
\* before the LREM.
HandleResult(r) ==
    /\ up /\ r \in results
    /\ execPosition[r.sig] # NoPos => active[execPosition[r.sig]] = Idle
    /\ Finalize(r.sig, r.qty)
    /\ \/ results' = results \ {r} /\ UNCHANGED faults
       \/ Fault /\ UNCHANGED results
    /\ UNCHANGED <<orders, worker, watchdogs, others, placed, sent>>

\* A job is dead-lettered, or lost between two commands of RedisQueue.
LoseJob ==
    /\ Fault
    /\ \/ \E o \in orders : orders' = orders \ {o} /\ UNCHANGED results
       \/ \E r \in results : results' = results \ {r} /\ UNCHANGED orders
    /\ UNCHANGED <<vars, worker, watchdogs, others, placed, sent>>

Working == {p \in Pos : active[p] # Idle}

\* recoverOrphans() puts back what executors were working on.
Crash ==
    /\ up /\ Fault
    /\ up' = FALSE
    /\ orders' = orders \cup {<<active[p].sig, p>> : p \in Working}
    /\ active' = [p \in Pos |-> Idle]
    /\ suspects' = {} /\ watch' = [p \in Pos |-> "none"]
    /\ redemption' = [p \in Pos |-> "none"] /\ redeemQty' = [p \in Pos |-> 0]
    /\ UNCHANGED <<vars, results, manual, resolved, placed, sent>>

\* At startup, positions closing on a market that takes no orders are opened
\* again, and then their executions are cancelled.
RevertAtStart(p) ==
    /\ ~up /\ watch[p] = "none" /\ RevertClose(p)
    /\ watch' = [watch EXCEPT ![p] = "reverted"]
    /\ UNCHANGED <<queues, worker, suspects, others, counters>>

CancelReverted(p) ==
    /\ watch[p] = "reverted" /\ FailActiveForPosition(p)
    /\ watch' = [watch EXCEPT ![p] = "none"]
    /\ UNCHANGED <<queues, worker, suspects, others, counters>>

Restart ==
    /\ ~up /\ up' = TRUE
    /\ \A p \in Pos : watch[p] # "reverted"
    /\ UNCHANGED <<vars, queues, active, watchdogs, others, counters>>
-----------------------------------------------------------------------------
ReservationTime ==
    /\ \/ \E s \in Sig : ReservationAges(s)
       \/ up /\ ReservationJanitor
    /\ UNCHANGED pipelineVars

\* Faulty variant: only the exits are searched.
OrphanExit(s) ==
    LET p == execPosition[s] IN
    /\ execStatus[s] = "placing"
    /\ \/ s \in RedemptionSig /\ status[p] # "pending_resolution"
       \/ s \in SellSig \ RedemptionSig /\ status[p] # "closing"

\* loadOrphanPlacingSim()
Orphan(s) ==
    LET p == execPosition[s] IN
    /\ execStatus[s] = "placing"
    /\ \/ s \in BuySig /\ status[p] # "pending"
       \/ /\ s \in BuySig /\ status[p] = "pending"
          /\ reservedFor[s] = NoPos \/ reservationAge[s] # "fresh"
       \/ s \in RedemptionSig /\ status[p] # "pending_resolution"
       \/ s \in SellSig \ RedemptionSig /\ status[p] # "closing"

\* PlacingJanitor.run() reads a list and then fails its executions in turn.
ListOrphans ==
    /\ up /\ suspects = {}
    /\ suspects' = {s \in Sig : Orphan(s)}
    /\ suspects' # {}
    /\ UNCHANGED <<vars, queues, worker, watch, others, counters>>

FailOrphan(s) ==
    /\ s \in suspects
    /\ Finalize(s, 0)
    /\ suspects' = suspects \ {s}
    /\ UNCHANGED <<queues, worker, watch, others, counters>>

\* ClosingWatchdog.run(), on a position that has been closing for 3 minutes.
ListStuck(p) ==
    /\ up /\ watch[p] = "none" /\ status[p] = "closing"
    /\ watch' = [watch EXCEPT ![p] = "listed"]
    /\ UNCHANGED <<vars, queues, worker, suspects, others, counters>>

CancelStuck(p) ==
    /\ watch[p] = "listed" /\ FailActiveForPosition(p)
    /\ watch' = [watch EXCEPT ![p] = "cancelled"]
    /\ UNCHANGED <<queues, worker, suspects, others, counters>>

\* Faulty variant: the position is not moved on.
FailStuckForgotten(p) ==
    /\ watch[p] = "cancelled" /\ UNCHANGED vars
    /\ watch' = [watch EXCEPT ![p] = "none"]
    /\ UNCHANGED <<queues, worker, suspects, others, counters>>

FailStuck(p) ==
    /\ watch[p] = "cancelled"
    /\ EnsureFailed(p)
    /\ watch' = [watch EXCEPT ![p] = "none"]
    /\ UNCHANGED <<queues, worker, suspects, others, counters>>
-----------------------------------------------------------------------------
MarketResolves(l) ==
    /\ l \notin resolved
    /\ resolved' = resolved \cup {l}
    /\ UNCHANGED <<vars, queues, worker, watchdogs, manual, redeeming, counters>>

MarkResolved(p) ==
    /\ leg[p] \in resolved /\ MarkPendingResolution(p)
    /\ UNCHANGED pipelineVars

\* RedemptionHandler.processAll() reads the positions and redeems them.
ListRedeemable(p) ==
    /\ up /\ redemption[p] = "none" /\ leg[p] \in resolved
    /\ status[p] \in {"pending_resolution", "failed"} /\ quantity[p] > 0
    /\ redemption' = [redemption EXCEPT ![p] = "listed"]
    /\ redeemQty' = [redeemQty EXCEPT ![p] = quantity[p]]
    /\ UNCHANGED <<vars, queues, worker, watchdogs, manual, resolved, counters>>

\* claimUnlessFilled(): claimed for the first time or again, or left to the
\* attempt that is in flight, or refused with already_claimed ...
ClaimRedemption(s, p) ==
    /\ s \in RedemptionSig /\ LegOf[s] = leg[p] /\ redemption[p] = "listed"
    /\ execPosition[s] \in {p, NoPos}
    /\ \/ /\ ClaimSell(s, p, redeemQty[p]) \/ RearmRedemption(s)
          /\ redemption' = [redemption EXCEPT ![p] = "claimed"]
       \/ /\ execStatus[s] # "failed" /\ ~Claimable(s, p) /\ UNCHANGED vars
          /\ redemption' = [redemption EXCEPT ![p] = "none"]
    /\ UNCHANGED <<queues, worker, watchdogs, manual, redeemQty, resolved,
                   counters>>

\* Faulty variant: an attempt in flight is waited for, however old it is.
WaitForRedemption(s, p) ==
    /\ s \in RedemptionSig /\ execPosition[s] = p /\ redemption[p] = "listed"
    /\ execStatus[s] = "placing"
    /\ redemption' = [redemption EXCEPT ![p] = "none"]
    /\ UNCHANGED <<vars, queues, worker, watchdogs, manual, redeemQty, resolved,
                   counters>>

\* ... or timed out: an attempt that is five minutes old is saved as failed
\* and, by the same call, as placing again (the ledger keeps the two apart).
TimeOutRedemption(s, p) ==
    /\ s \in RedemptionSig /\ execPosition[s] = p /\ redemption[p] = "listed"
    /\ execStatus[s] = "placing"
    /\ redemption' = [redemption EXCEPT ![p] = "claimed"]
    /\ UNCHANGED <<vars, queues, worker, watchdogs, manual, redeemQty, resolved,
                   counters>>

SendRedemption(s, p) ==
    /\ s \in RedemptionSig /\ execPosition[s] = p /\ redemption[p] = "claimed"
    /\ results' = results \cup {Result(s, redeemQty[p])}
    /\ redemption' = [redemption EXCEPT ![p] = "none"]
    /\ redeemQty' = [redeemQty EXCEPT ![p] = 0]
    /\ UNCHANGED <<vars, orders, worker, watchdogs, manual, resolved, counters>>
-----------------------------------------------------------------------------
Produce(p) ==
    \/ \E s \in Sig : Reserve(s, p) \/ SendEntry(s, p) \/ SendExit(s, p)
                        \/ ManualClose(s, p)
    \/ ManualPush(p) \/ ManualPushFails(p) \/ BackendCrash(p)

Execute(p) ==
    \/ StartExit(p) \/ CheckMinimum(p) \/ CheckEntry(p) \/ ReleaseRefused(p)
    \/ Refuse(p) \/ Claim(p) \/ Collide(p) \/ Place(p) \/ Finish(p)

Watch(p) == ListStuck(p) \/ CancelStuck(p) \/ FailStuck(p)

Redeem(p) ==
    \/ ListRedeemable(p)
    \/ \E s \in Sig : \/ ClaimRedemption(s, p) \/ TimeOutRedemption(s, p)
                      \/ SendRedemption(s, p)

PipelineNext ==
    \/ \E p \in Pos : Produce(p) \/ Execute(p) \/ Watch(p) \/ Redeem(p)
    \/ \E p \in Pos : \/ PlaceUnqueued(p) \/ PlaceUnsettled(p) \/ MarkResolved(p)
                      \/ RevertAtStart(p) \/ CancelReverted(p)
    \/ \E s \in Sig, p \in Pos : Take(s, p)
    \/ \E s \in Sig : GiveUp(s) \/ FailOrphan(s)
    \/ \E r \in results : HandleResult(r)
    \/ \E l \in Leg : MarketResolves(l)
    \/ LoseJob \/ Crash \/ Restart \/ ReservationTime \/ ListOrphans

PipelineSpec == PipelineInit /\ [][PipelineNext]_allVars

\* The worker is restarted and its timers fire.
Timers ==
    /\ WF_allVars(Restart) /\ WF_allVars(ReservationTime)
    /\ WF_allVars(ListOrphans) /\ \A s \in Sig : WF_allVars(FailOrphan(s))
    /\ \A p \in Pos : WF_allVars(Watch(p)) /\ WF_allVars(CancelReverted(p))

\* Executors finish what they began, results are consumed, redemptions are
\* polled for, and the attempt a poll finds in flight gets too old in the end.
Consumers ==
    /\ \A p \in Pos : WF_allVars(Execute(p))
    /\ \A s \in Sig, n \in 0 .. MaxQty : WF_allVars(HandleResult(Result(s, n)))
    /\ \A p \in Pos : /\ WF_allVars(ListRedeemable(p))
                      /\ WF_allVars(\E s \in Sig : ClaimRedemption(s, p))
                      /\ WF_allVars(\E s \in Sig : SendRedemption(s, p))
                      /\ SF_allVars(\E s \in Sig : TimeOutRedemption(s, p))

\* Nothing is assumed of executors and consumers: watchdogs alone must do.
WatchedSpec == PipelineSpec /\ Timers

FairSpec == PipelineSpec /\ Timers /\ Consumers
-----------------------------------------------------------------------------
\* However often a signal is queued, delivered or taken up again after a
\* crash, its order is placed in the book once.
OrderPlacedOnce == \A s \in Sig : placed[s] <= 1

\* The shares filled by the executions of p among some signals.
Shares(S, p) ==
    UNION {{s} \X (1 .. fillQuantity[s]) : s \in {t \in S : execPosition[t] = p}}

Bought(p) == Cardinality(Shares(BuySig, p))
Increased(p) == Cardinality(Shares(BuySig \ OpenSig, p))
Sold(p) == Cardinality(Shares(SellSig, p))

\* What a position was bought, less what was sold of it and what it holds.
Missing(p) == Bought(p) - Sold(p) - quantity[p]

\* The shares of a position are those its entries bought less those its exits
\* sold.  Closing writes off dust below the minimum order, and a redemption also
\* what increases bought since it read the quantity.
SharesConserved ==
    \A p \in Pos :
        IF status[p] # "closed" THEN Missing(p) = 0
        ELSE \/ Missing(p) \in 0 .. MinOrderShares - 1
             \/ /\ \E r \in RedemptionSig : execPosition[r] = p
                /\ Missing(p) \in 0 .. Increased(p)

PipelineTypeOK ==
    /\ TypeOK
    /\ quantity \in [Pos -> 0 .. MaxQty] /\ requestedQty \in [Sig -> 0 .. MaxQty]
    /\ orders \subseteq Sig \X Pos
    /\ results \subseteq [sig : Sig, qty : Nat]
    /\ active \in [Pos -> [sig : Sig \cup {NoSig}, at : Places \cup {"idle"}]]
    /\ up \in BOOLEAN
    /\ suspects \subseteq Sig
    /\ watch \in [Pos -> {"none", "listed", "cancelled", "reverted"}]
    /\ manual \in [Pos -> CloseSig \cup {NoSig}]
    /\ redemption \in [Pos -> {"none", "listed", "claimed"}]
    /\ redeemQty \in [Pos -> 0 .. MaxQty]
    /\ resolved \subseteq Leg
    /\ placed \in [Sig -> Nat] /\ sent \in [Sig -> Nat] /\ faults \in Nat

\* Redemptions do not pass through the order queue, and what an exit or a
\* redemption sold is within the bound.
QueuesInOrder ==
    /\ \A o \in orders : o[1] \notin RedemptionSig
    /\ \A p \in Working : active[p].sig \in Sig \ RedemptionSig
    /\ \A r \in results : r.sig \in SellSig => r.qty <= MaxQty

\* An order is placed by the executor that claimed it for its position, which
\* has not placed it yet.
PlacersHoldClaims ==
    /\ \A p \in Pos : active[p].at = "place" =>
         execPosition[active[p].sig] = p /\ placed[active[p].sig] = 0
    /\ \A s \in Sig : execStatus[s] = "none" => placed[s] = 0
    /\ OrderPlacedOnce

\* The entry of a position is over: it is sold, watched and redeemed after that.
Entered(p) == status[p] \notin {"none", "pending", "cancelled"}

ExitsAreLate ==
    /\ \A s \in SellSig, p \in Pos : execPosition[s] = p => Entered(p)
    /\ \A p \in Pos : redemption[p] # "none" => Entered(p)

\* The shares a redemption of p read, claimed or reported are those p holds, but
\* for what increases have bought since.
Covers(n, p) == quantity[p] <= n + Increased(p)

RedemptionsCover ==
    /\ \A p \in Pos : redemption[p] # "none" => Covers(redeemQty[p], p)
    /\ \A r \in RedemptionSig, p \in Pos : execPosition[r] = p =>
         Covers(requestedQty[r], p)
    /\ \A r \in results : r.sig \in RedemptionSig /\ r.qty > 0 =>
         execPosition[r.sig] \in Pos /\ Covers(r.qty, execPosition[r.sig])

\* A position's executions have filled finitely many shares.
SharesFinite ==
    \A p \in Pos : IsFiniteSet(Shares(BuySig, p)) /\ IsFiniteSet(Shares(SellSig, p))

\* The inductive invariant, on top of the ledger's.
PipelineInv ==
    /\ IInv
    /\ PipelineTypeOK
    /\ QueuesInOrder
    /\ PlacersHoldClaims
    /\ ExitsAreLate
    /\ SharesFinite
    /\ RedemptionsCover
    /\ SharesConserved

\* The pipeline only makes steps the ledger allows: the executors, the
\* consumer, the backend and the watchdogs respect its preconditions.
LedgerSpec == Spec

\* A pending entry is settled, even when its order, its result or the process
\* is lost on the way ...
EntriesSettle ==
    \A p \in Pos : status[p] = "pending" ~> status[p] # "pending"

\* ... so is every simulated order that was claimed ...
OrdersSettle ==
    \A s \in Sig \ RedemptionSig :
        execStatus[s] = "placing" ~> execStatus[s] # "placing"

\* ... and a position does not stay in closing, where nobody may sell it.
ClosesEnd ==
    \A p \in Pos : status[p] = "closing" ~> status[p] # "closing"

\* A position whose market is resolved is redeemed in the end, whatever is
\* still in flight for it and whatever the redemption's own attempts meet.
ResolvedIsRedeemed ==
    \A p \in Pos : status[p] = "pending_resolution" ~> status[p] = "closed"

\* executor.ts:241-246 relies on finalize() being idempotent: what comes after
\* a fill was booked is a no-op.
FilledStaysFilled ==
    [][\A s \in Sig : execStatus[s] = "filled" => execStatus'[s] = "filled"]_allVars
=============================================================================
