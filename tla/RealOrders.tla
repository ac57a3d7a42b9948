----------------------------- MODULE RealOrders -----------------------------
(***************************************************************************)
(* Real orders on the CLOB, on top of the transactions of PositionLedger:  *)
(* an executor claims and posts an order, and three parties tell it how it *)
(* ended: the answer to the post, the user channel's events and a          *)
(* reconciliation pass over the executions (src/packages/worker/src/clob,  *)
(* processors/executor.ts, polymarket/websocket-user.ts).                  *)
(*                                                                         *)
(* The exchange is modelled by what this code sees of it: it takes an      *)
(* order or not, matches it in one step or several, gives up the rest, and *)
(* says so over the channel if that is connected and knows the market.     *)
(*                                                                         *)
(* The executor, the results consumer and the channel's handler finalise   *)
(* under the position's lock (PositionLock); the handler reads the         *)
(* execution before it asks for the lock, and a pass takes no lock.        *)
(*                                                                         *)
(* Abstractions.                                                           *)
(*  - Lost jobs and failing pushes are those of OrderPipeline; a signal is *)
(*    queued once, and comes again when the worker stops.                  *)
(*  - A pass that finds the one before still running adds to its list.     *)
(*  - Functions that outlive the lock's timeout are not modelled; that the *)
(*    timeout aborts a post is.  Reservations do not age here.             *)
(*  - An order that trades does so in one trade of its whole size, or is   *)
(*    left to the channel's updates; the wallet's credentials are there.   *)
(*  - Redemptions do not go over the CLOB and are left out.                *)
(***************************************************************************)
EXTENDS PositionLedger

CONSTANTS
    NoSig,
    SizeOf,     \* the shares an entry order asks for
    MaxFaults   \* bound on stops, lost connections, failing posts, results
                \* delivered twice and ids that could not be saved

ASSUME RealAssumption == \A l \in Leg : ModeOf[l] = "real"
ASSUME NoSigAssumption == NoSig \notin Sig
ASSUME SizeAssumption == SizeOf \in [BuySig -> Nat \ {0}]
ASSUME FaultsAssumption == MaxFaults \in Nat

VARIABLES
    orders,     \* <<signal, position>> in the order and close queues
    results,    \* what execution-results holds
    active,     \* per position: the signal an executor works on, and where
    size,       \* the shares a queued signal asks for, else 0
    orderId,    \* executions whose clob_order_id is set
    cancelled,  \* executions whose failed status reads "cancelled"
    posted,     \* how often each order was posted (history)
    venue,      \* the exchange's view of an order: none, live or done
    matched,    \* and the shares it has matched of it so far
    channel,    \* events on their way to the worker
    handling,   \* fills and cancellations waiting for the position's lock
    listed,     \* executions a reconciliation pass still has to look up
    found,      \* and what it is about to finalise
    worker,     \* "down", "starting" or "running"
    socket,     \* the user channel: "open", "lost" or "off" for good
    watched,    \* legs whose market the channel is subscribed to
    faults      \* faults so far

queues == <<orders, results>>
exchange == <<venue, matched>>
rows == <<orderId, cancelled>>
events == <<channel, handling>>
pass == <<listed, found>>
process == <<worker, socket, watched>>
realVars == <<queues, active, size, posted, exchange, rows, events, pass,
              process, faults>>
allVars == <<vars, realVars>>

Idle == [sig |-> NoSig, at |-> "idle", filled |-> 0]
Places == {"begin", "claim", "post", "wait", "record", "parse", "done"}
NobodyActive == active = [p \in Pos |-> Idle]

MarketSig == Sig \ RedemptionSig

Shares == 0 .. MaxQty

\* Fills and failures (0 shares): results, events, what a pass found.
Fills == [sig : MarketSig, qty : Shares]

RealTypeOK ==
    /\ orders \subseteq MarketSig \X Pos
    /\ results \subseteq Fills
    /\ active \in [Pos -> {Idle} \cup [sig : MarketSig, at : Places, filled : Shares]]
    /\ size \in [Sig -> Shares]
    /\ orderId \subseteq Sig /\ cancelled \subseteq Sig
    /\ posted \in [Sig -> Nat]
    /\ venue \in [Sig -> {"none", "live", "done"}]
    /\ matched \in [Sig -> Shares]
    /\ channel \subseteq Fills /\ handling \subseteq Fills /\ found \subseteq Fills
    /\ listed \subseteq [sig : MarketSig, row : {"anonymous", "known", "failed"}]
    /\ worker \in {"down", "starting", "running"}
    /\ socket \in {"open", "lost", "off"}
    /\ watched \subseteq Leg \cup {NoLeg}
    /\ faults \in Nat

RealInit ==
    /\ Init
    /\ orders = {} /\ results = {} /\ NobodyActive
    /\ size = [s \in Sig |-> 0] /\ posted = [s \in Sig |-> 0]
    /\ orderId = {} /\ cancelled = {}
    /\ venue = [s \in Sig |-> "none"] /\ matched = [s \in Sig |-> 0]
    /\ channel = {} /\ handling = {} /\ listed = {} /\ found = {}
    /\ worker = "running" /\ socket = "open" /\ watched = {}
    /\ faults = 0
-----------------------------------------------------------------------------
Fault == faults < MaxFaults /\ faults' = faults + 1

\* An entry is reserved, given up, or its order queued ...
Reserve(s, p) == ReserveOpen(s, p) /\ UNCHANGED realVars

GiveUp(s) == Release(s) /\ UNCHANGED realVars

Queue(s, p, n) ==
    /\ size[s] = 0 /\ n \in 1 .. MaxQty
    /\ orders' = orders \cup {<<s, p>>}
    /\ size' = [size EXCEPT ![s] = n]
    /\ UNCHANGED <<vars, results, active, posted, exchange, rows, events, pass,
                   process, faults>>

SendEntry(s, p) == s \in BuySig /\ reservedFor[s] = p /\ Queue(s, p, SizeOf[s])

\* ... and an exit is for what the position holds.
SendExit(s, p) ==
    /\ s \in MarketSig \cap SellSig /\ LegOf[s] = leg[p]
    /\ status[p] \in {"open", "failed"}
    /\ Queue(s, p, quantity[p])

\* The closing watchdog, three minutes into a close.
CancelStuck(p) ==
    status[p] = "closing" /\ FailActiveForPosition(p) /\ UNCHANGED realVars

\* Faulty variant: whatever became of the position meanwhile.
FailStuckUnchecked(p) ==
    /\ closingSeq[p] > 0 /\ status' = [status EXCEPT ![p] = "failed"]
    /\ UNCHANGED <<leg, quantity, closingSeq, execVars, reservationVars, realVars>>

FailStuck(p) == MarkFailed(p) /\ UNCHANGED realVars
-----------------------------------------------------------------------------
Step(p, from, to) == active[p].at = from /\ active' = [active EXCEPT ![p].at = to]

\* Nobody holds the lock of p.
LockFree(p) == p # NoPos => active[p] = Idle

Take(s, p) ==
    /\ worker = "running" /\ LockFree(p) /\ <<s, p>> \in orders
    /\ orders' = orders \ {<<s, p>>}
    /\ active' = [active EXCEPT ![p] =
         [sig |-> s, at |-> IF ReasonOf[s] = "CLOSE" THEN "begin" ELSE "claim",
          filled |-> 0]]
    /\ UNCHANGED <<vars, results, size, posted, exchange, rows, events, pass,
                   process, faults>>

\* What an executor's step leaves alone when it changes its place and the ledger.
OnlyPlace ==
    UNCHANGED <<queues, size, posted, exchange, rows, events, pass, process, faults>>

\* beginClose().  A redelivered exit whose close is under way may go on; the
\* attempt's number that decides is modelled in OrderPipeline.
StartExit(p) ==
    /\ \/ Step(p, "begin", "claim") /\ BeginClose(p)
       \/ Step(p, "begin", "claim") /\ status[p] = "closing" /\ UNCHANGED vars
       \/ /\ Step(p, "begin", "done") /\ UNCHANGED vars
          /\ status[p] \notin {"open", "failed"}
    /\ OnlyPlace

\* The reservation is looked up before the claim.
Claimable(s, p) ==
    IF s \in BuySig THEN reservedFor[s] # NoPos ELSE ActiveSells(p) = {}

Claim(p) ==
    LET s == active[p].sig IN
    /\ Step(p, "claim", "post")
    /\ Claimable(s, p)
    /\ ClaimBuy(s, p) \/ ClaimSell(s, p, size[s])
    /\ OnlyPlace

\* An entry is refused when its reservation is gone or its trading is switched
\* off, be its order on the CLOB already or not ...
RefuseEntry(p) ==
    LET s == active[p].sig IN
    /\ s \in BuySig /\ Step(p, "claim", "done")
    /\ TryRelease(s)
    /\ results' = results \cup {Result(s, 0)}
    /\ UNCHANGED <<orders, size, posted, exchange, rows, events, pass, process,
                   faults>>

\* ... and an exit when another is in flight or the position is gone.
DropExit(p) ==
    LET s == active[p].sig IN
    /\ s \in SellSig /\ Step(p, "claim", "done")
    /\ execStatus[s] # "placing" /\ UNCHANGED vars
    /\ OnlyPlace

\* Faulty variant: an order found in flight is posted again.
RepostInFlight(p) ==
    /\ Step(p, "claim", "post")
    /\ execStatus[active[p].sig] = "placing" /\ UNCHANGED vars
    /\ OnlyPlace

\* getTrades() is searched by asset, side and size: the trade that is found may
\* be another order's.
Alike(s, t) ==
    LegOf[s] = LegOf[t] /\ (s \in BuySig <=> t \in BuySig) /\ matched[t] = size[s]

\* Faulty variant: an order the CLOB knows is taken for filled.
FoundAssumed(s, id) ==
    IF id \/ \E t \in MarketSig : Alike(s, t) THEN size[s] ELSE 0

\* reconcileExecutionFromClob(): getOrder() by the id, then the trades.
Found(s, id) ==
    IF id /\ matched[s] > 0 THEN matched[s]
    ELSE IF \E t \in MarketSig : Alike(s, t) THEN size[s] ELSE 0

\* finalize(), with what it does to clob_order_id and to "cancelled".
Book(s, n) ==
    /\ Finalize(s, n)
    /\ orderId' = IF n > 0 /\ AcceptsFill(s) /\ execStatus'[s] = "filled"
                    THEN orderId \cup {s} ELSE orderId
    /\ cancelled' = IF n > 0 /\ AcceptsFill(s) THEN cancelled \ {s} ELSE cancelled

\* alreadyInFlight: the job came again after the worker stopped.  The order is
\* looked up and its fill booked; it is posted no more.
Resume(p) ==
    LET s == active[p].sig
        n == Found(s, s \in orderId) IN
    /\ Step(p, "claim", "done") /\ execStatus[s] = "placing"
    /\ IF n = 0 THEN UNCHANGED <<vars, rows, results>>
       ELSE /\ Book(s, n)
            /\ results' = results \cup {Result(s, fillQuantity'[s])}
    /\ UNCHANGED <<orders, size, posted, exchange, events, pass, process, faults>>

\* A result goes to the queue: no trading context, no book, no allowance ...
Settle(p, from, n) ==
    /\ Step(p, from, "done")
    /\ results' = results \cup {Result(active[p].sig, n)}

FailEarly(p) ==
    /\ Settle(p, "post", 0)
    /\ UNCHANGED <<vars, orders, size, posted, exchange, rows, events, pass,
                   process, faults>>

\* ... or the order is posted, and reaches the exchange or does not.
Post(p) ==
    LET s == active[p].sig IN
    /\ Step(p, "post", "wait")
    /\ posted' = [posted EXCEPT ![s] = @ + 1]
    /\ venue' \in {venue, [venue EXCEPT ![s] = "live"]}
    /\ UNCHANGED <<vars, queues, size, matched, rows, events, pass, process, faults>>

\* The post is not answered in time: the order is left to reconciliation.
\* Any other error, the lock's timeout among them, is a failed result.
PostFails(p) ==
    /\ Fault
    /\ \/ Settle(p, "wait", 0)
       \/ Step(p, "wait", "done") /\ UNCHANGED results
    /\ UNCHANGED <<vars, orders, size, posted, exchange, rows, events, pass,
                   process>>

\* The answer says what was matched by then, and is parsed after its id was
\* recorded; "delayed" is left to the channel.
Answer(p) ==
    LET s == active[p].sig IN
    /\ active[p].at = "wait"
    /\ active' = [active EXCEPT ![p] =
         [sig |-> s, at |-> IF venue[s] = "none" THEN "parse" ELSE "record",
          filled |-> matched[s]]]
    /\ UNCHANGED <<vars, queues, size, posted, exchange, rows, events, pass,
                   process, faults>>

\* recordPlacingClobOrderId(); the executor goes on without it.
RecordId(p) ==
    LET s == active[p].sig IN
    /\ Step(p, "record", "parse")
    /\ \/ /\ orderId' = IF execStatus[s] = "placing" THEN orderId \cup {s} ELSE orderId
          /\ UNCHANGED faults
       \/ Fault /\ UNCHANGED orderId
    /\ UNCHANGED <<vars, queues, size, posted, exchange, cancelled, events, pass,
                   process>>

\* parseFillResponse(): a fill, a delay while the order is live, or a failed
\* result, for a fill that is not plausible too.
Parse(p) ==
    LET s == active[p].sig
        n == active[p].filled IN
    /\ active[p].at = "parse"
    /\ \/ n > 0 /\ Settle(p, "parse", n)
       \/ venue[s] # "live" /\ Settle(p, "parse", 0)
       \/ n = 0 /\ venue[s] # "none" /\ Step(p, "parse", "done") /\ UNCHANGED results
    /\ UNCHANGED <<vars, orders, size, posted, exchange, rows, events, pass,
                   process, faults>>

\* The handler returned: LREM.
Leave(p) ==
    /\ active[p].at = "done"
    /\ active' = [active EXCEPT ![p] = Idle]
    /\ UNCHANGED <<vars, queues, size, posted, exchange, rows, events, pass,
                   process, faults>>

\* ResultsConsumer.handle(); the result comes again when the worker stops
\* before the LREM.
HandleResult(r) ==
    /\ worker = "running" /\ r \in results /\ LockFree(execPosition[r.sig])
    /\ Book(r.sig, r.qty)
    /\ \/ results' = results \ {r} /\ UNCHANGED faults
       \/ Fault /\ UNCHANGED results
    /\ UNCHANGED <<orders, active, size, posted, exchange, events, pass, process>>
-----------------------------------------------------------------------------
\* The exchange says what happens to an order, with what it has matched so far
\* or 0 for a cancellation, to a channel that is open and knows the market.
Tell(s, n) ==
    channel' = IF socket = "open" /\ LegOf[s] \in watched
                 THEN channel \cup {Result(s, n)} ELSE channel

Match(s, n) ==
    /\ venue[s] = "live" /\ matched[s] < n /\ n <= size[s]
    /\ matched' = [matched EXCEPT ![s] = n]
    /\ venue' = [venue EXCEPT ![s] = IF n = size[s] THEN "done" ELSE @]
    /\ Tell(s, n)
    /\ UNCHANGED <<vars, queues, active, size, posted, rows, handling, pass,
                   process, faults>>

Kill(s) ==
    /\ venue[s] = "live"
    /\ venue' = [venue EXCEPT ![s] = "done"]
    /\ Tell(s, 0)
    /\ UNCHANGED <<vars, queues, active, size, posted, matched, rows, handling,
                   pass, process, faults>>

\* findReconcilableRealByClobOrderId() and loadReconcilableReal()
Unfilled(s) ==
    execStatus[s] = "failed" /\ s \notin cancelled /\ fillQuantity[s] = 0

Reconcilable(s) == s \in orderId /\ (execStatus[s] = "placing" \/ Unfilled(s))

\* UserChannelHandler reads the execution, drops the event when that is not to
\* be reconciled, and asks for the lock.
Receive(e) ==
    /\ e \in channel
    /\ channel' = channel \ {e}
    /\ handling' = IF Reconcilable(e.sig) THEN handling \cup {e} ELSE handling
    /\ UNCHANGED <<vars, queues, active, size, posted, exchange, rows, pass,
                   process, faults>>

\* A cancellation of what was not failed before leaves a "cancelled" execution.
Apply(e) ==
    LET s == e.sig IN
    /\ e \in handling /\ LockFree(execPosition[s])
    /\ IF e.qty = 0 /\ execStatus[s] \in {"placing", "filled"}
         THEN FinalizeFailed(s) /\ cancelled' = cancelled \cup {s} /\ UNCHANGED orderId
         ELSE Book(s, e.qty)
    /\ handling' = handling \ {e}
    /\ UNCHANGED <<queues, active, size, posted, exchange, channel, pass, process,
                   faults>>

\* syncUserSubscriptions(): the markets of active positions and placing orders.
Needed ==
    {leg[p] : p \in {q \in Pos : status[q] \in {"open", "closing", "pending"}}}
      \cup {LegOf[s] : s \in {t \in MarketSig : execStatus[t] = "placing"}}

Sync ==
    /\ worker = "running" /\ socket # "off"
    /\ watched' = Needed
    /\ UNCHANGED <<vars, queues, active, size, posted, exchange, rows, events,
                   pass, worker, socket, faults>>

Disconnect ==
    /\ socket = "open" /\ Fault
    /\ socket' = "lost" /\ channel' = {}
    /\ UNCHANGED <<vars, queues, active, size, posted, exchange, rows, handling,
                   pass, worker, watched>>

\* Faulty variant: only what failed is reconciled.
UnfilledOnly ==
    {[sig |-> s, row |-> "failed"] :
        s \in {t \in MarketSig : t \in orderId /\ Unfilled(t)}}

\* What reconcilePlacingExecutions() loads.
ToReconcile ==
    {[sig |-> s, row |-> IF execStatus[s] = "failed" THEN "failed"
                         ELSE IF s \in orderId THEN "known" ELSE "anonymous"] :
        s \in {t \in MarketSig : execStatus[t] = "placing" \/
                                   (t \in orderId /\ Unfilled(t))}}

\* A connection that comes back starts a reconciliation pass.
Reconnect ==
    /\ socket = "lost" /\ socket' = "open"
    /\ listed' = listed \cup ToReconcile
    /\ UNCHANGED <<vars, queues, active, size, posted, exchange, rows, events,
                   found, worker, watched, faults>>

\* The pass asks the CLOB about each execution by the row it loaded ...
LookUp(x) ==
    LET n == Found(x.sig, x.row # "anonymous") IN
    /\ x \in listed
    /\ listed' = listed \ {x}
    /\ found' = IF n > 0 \/ x.row = "failed" THEN found \cup {Result(x.sig, n)} ELSE found
    /\ UNCHANGED <<vars, queues, active, size, posted, exchange, rows, events,
                   process, faults>>

\* ... and finalises it, with no lock; what had failed fails with no fill.
BookFound(f) ==
    /\ f \in found
    /\ Book(f.sig, f.qty)
    /\ found' = found \ {f}
    /\ UNCHANGED <<queues, active, size, posted, exchange, events, listed, process,
                   faults>>
-----------------------------------------------------------------------------
\* Everything in memory is gone; recoverOrphans() puts back what executors were
\* working on.
Crash ==
    /\ worker # "down" /\ Fault
    /\ worker' = "down" /\ socket' = "off" /\ watched' = {}
    /\ orders' = orders \cup {<<active[p].sig, p>> : p \in {q \in Pos : ~LockFree(q)}}
    /\ active' = [p \in Pos |-> Idle]
    /\ channel' = {} /\ handling' = {} /\ listed' = {} /\ found' = {}
    /\ UNCHANGED <<vars, results, size, posted, exchange, rows>>

\* At startup a pass comes before the consumers and the channel; a channel that
\* cannot be opened then stays off.
Restart ==
    /\ worker = "down" /\ worker' = "starting"
    /\ listed' = ToReconcile
    /\ UNCHANGED <<vars, queues, active, size, posted, exchange, rows, events,
                   found, socket, watched, faults>>

Serve ==
    /\ worker = "starting" /\ listed = {} /\ found = {}
    /\ worker' = "running"
    /\ \/ socket' = "open" /\ watched' = Needed /\ UNCHANGED faults
       \/ Fault /\ UNCHANGED <<socket, watched>>
    /\ UNCHANGED <<vars, queues, active, size, posted, exchange, rows, events, pass>>
-----------------------------------------------------------------------------
Produce(p) ==
    \/ \E s \in Sig : Reserve(s, p) \/ SendEntry(s, p) \/ SendExit(s, p)
    \/ CancelStuck(p) \/ FailStuck(p)

Execute(p) ==
    \/ StartExit(p) \/ Claim(p) \/ RefuseEntry(p) \/ DropExit(p) \/ Resume(p)
    \/ FailEarly(p) \/ Post(p) \/ PostFails(p) \/ Answer(p) \/ RecordId(p)
    \/ Parse(p) \/ Leave(p)

Exchange(s) == Kill(s) \/ \E n \in 1 .. MaxQty : Match(s, n)

Reconcile == (\E x \in listed : LookUp(x)) \/ (\E f \in found : BookFound(f))

RealNext ==
    \/ \E p \in Pos : Produce(p) \/ Execute(p)
    \/ \E s \in Sig, p \in Pos : Take(s, p)
    \/ \E s \in Sig : GiveUp(s)
    \/ \E s \in MarketSig : Exchange(s)
    \/ \E r \in results : HandleResult(r)
    \/ \E e \in channel : Receive(e)
    \/ \E e \in handling : Apply(e)
    \/ Reconcile \/ Sync \/ Disconnect \/ Reconnect
    \/ Crash \/ Restart \/ Serve

RealSpec == RealInit /\ [][RealNext]_allVars

\* The worker is restarted, its passes end and the channel is opened again.
ReconcilingSpec ==
    /\ RealSpec
    /\ WF_allVars(Restart) /\ WF_allVars(Serve)
    /\ WF_allVars(Reconnect) /\ WF_allVars(Reconcile)
-----------------------------------------------------------------------------
\* A real order is posted to the CLOB once: not again when its job is delivered
\* again, its post was not answered or its execution was found in flight.
PostedOnce == \A s \in Sig : posted[s] <= 1

\* The exchange matched some order of the signal's asset and side.
Traded(s) ==
    \E t \in MarketSig : /\ matched[t] > 0 /\ LegOf[t] = LegOf[s]
                         /\ (s \in BuySig <=> t \in BuySig)

\* Shares enter and leave a position only after the exchange matched an order
\* of that asset and side, whichever of the three parties books them.
BookedFromTrade == \A s \in MarketSig : fillQuantity[s] > 0 => Traded(s)

\* What PostedOnce rests on: an order is posted by the claim's only executor.
PostedWhenClaimed ==
    /\ \A s \in Sig : posted[s] = 1 => execStatus[s] # "none"
    /\ \A p \in Pos : active[p].at = "post" =>
         /\ posted[active[p].sig] = 0
         /\ execStatus[active[p].sig] # "none" /\ execPosition[active[p].sig] = p

\* What BookedFromTrade rests on: nobody makes up a fill on its way to the row.
FillsFromTrades ==
    /\ \A f \in results \cup channel \cup handling \cup found :
         f.qty > 0 => Traded(f.sig)
    /\ \A p \in Pos : active[p].filled > 0 => Traded(active[p].sig)

\* No execution asks for or records more than the bound.
FillsBounded ==
    \A s \in Sig : fillQuantity[s] \in Shares /\ requestedQty[s] \in Shares

\* The inductive invariant, with that of the ledger.
RealInv ==
    /\ IInv
    /\ RealTypeOK
    /\ PostedOnce /\ PostedWhenClaimed
    /\ BookedFromTrade /\ FillsFromTrades /\ FillsBounded

\* The executor, the channel and the passes make only steps the ledger allows.
LedgerSpec == Spec

\* An order that traded while nobody listened does not stay in flight: once the
\* worker starts or the channel is back, its fill is booked or refused.
MissedFillsSettle ==
    \A s \in MarketSig :
        (/\ s \in orderId /\ matched[s] > 0 /\ execStatus[s] = "placing"
         /\ \/ worker = "down"
            \/ worker = "running" /\ socket = "lost")
          ~> execStatus[s] # "placing"
=============================================================================
