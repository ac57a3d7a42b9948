--------------------------- MODULE StrategyExits ---------------------------
(***************************************************************************)
(* The exits a strategy forces on one open simulated position: an          *)
(* evaluator that confirms a stop loss, paces and counts the attempts; the  *)
(* executor that takes its signals; the results consumer that retries a     *)
(* failed one; the kill switch and the closing watchdog                    *)
(* (src/packages/worker/src/processors/strategy/position-exit-evaluator.ts, *)
(* kill-switch-monitor.ts, processors/strategy-processing.ts, executor.ts,  *)
(* results-consumer.ts, watchdogs/closing-watchdog.ts,                     *)
(* src/packages/core/src/orders/close-signal.ts).                          *)
(*                                                                         *)
(* The identity of a signal is the hash of its reason, the attempt it       *)
(* expects to be and its number as a retry: two signals built from the     *)
(* same row are one signal queued twice.                                   *)
(*                                                                         *)
(* Abstractions.                                                           *)
(*  - Which exit is due, and whether a bid can be named for it, is what    *)
(*    the market says at each evaluation, until it stays with one exit.    *)
(*    SL stands for the reason that must be confirmed, TP for the others.  *)
(*  - close-signals is as RedisQueue has it: the signal pushed last comes   *)
(*    out first.  The signals of other positions are left out.             *)
(*  - The 5 seconds of a cooldown may be over at any time, the 3 minutes   *)
(*    of the watchdog when nobody works on the position.  The shorter      *)
(*    window of a confirmation is over when its ticks are.                 *)
(*  - A simulated exit sells the whole position or nothing.  Other exits,  *)
(*    redemption and steps that fail in other ways are in OrderPipeline.   *)
(***************************************************************************)
EXTENDS Naturals, Sequences, FiniteSets

CONSTANTS
    MaxQueued,  \* bound on the signals waiting
    Exits,      \* the exits the market may call for, of "SL" and "TP"
    MaxRetries, \* slCloseMaxRetries
    Ticks,      \* slConfirmationTicks
    MaxFaults   \* bound on crashes, lost jobs, failing pushes, refusals and
                \* kill switches

ASSUME ParametersAssumption ==
    /\ {MaxQueued, MaxRetries, MaxFaults} \subseteq Nat
    /\ Ticks \in Nat \ {0} /\ Exits \subseteq {"SL", "TP"}

Reasons == {"SL", "TP", "KILL_SWITCH"}
Signal == [reason : Reasons, seq : Nat, retry : Nat]
NoSignal == [reason |-> "none", seq |-> 0, retry |-> 0]

VARIABLES
    status,     \* copied_positions.status
    seq,        \* closing_attempt_seq
    failed,     \* forced_exit_failed_attempts
    recent,     \* last_forced_exit_attempt_at is within the cooldown
    placing,    \* executions in flight
    filled,     \* filled
    dead,       \* and failed
    due,        \* the exit the market stays with, or "any"
    view,       \* the row the evaluator has loaded and not evaluated yet
    confirmed,  \* slConfirmations: evaluations that found a stop loss
    emitted,    \* lastForcedExitEmitAt is within the cooldown
    queue,      \* close-signals
    job, at,    \* the signal the executor works on, and where it is
    results,    \* execution-results
    booked,     \* the result that is booked and not handled yet
    faults

row == <<status, seq, failed, recent>>
executions == <<placing, filled, dead>>
evaluator == <<view, confirmed, emitted>>
executor == <<job, at>>
consumer == <<results, booked>>
vars == <<row, executions, due, evaluator, queue, executor, consumer, faults>>

\* What an evaluation uses of a row.
Views == [seq : Nat, failed : Nat, recent : {"yes", "no"}]
NoView == [seq |-> 0, failed |-> 0, recent |-> "none"]

\* A failed order is retryable ("missed") or not ("broken").
Results == [sig : Signal, outcome : {"filled", "missed", "broken"}]
NoResult == [sig |-> NoSignal, outcome |-> "none"]

\* What the results consumer goes by after booking a result: the result, and
\* the row it left.
Bookings == [res : Results, status : {"open", "closing", "closed", "failed"},
             seq : Nat, failed : Nat]
NothingBooked == [res |-> NoResult, status |-> "none", seq |-> 0, failed |-> 0]

RowTypeOK ==
    /\ status \in {"open", "closing", "closed", "failed"}
    /\ seq \in Nat /\ failed \in Nat /\ recent \in {"yes", "no"}
    /\ placing \subseteq Signal /\ filled \subseteq Signal /\ dead \subseteq Signal

WorkerTypeOK ==
    /\ due \in {"any"} \cup Exits
    /\ view \in Views \cup {NoView}
    /\ confirmed \in Nat /\ emitted \in {"yes", "no"}
    /\ queue \in Seq(Signal)
    /\ job \in Signal \cup {NoSignal}
    /\ at \in {"idle", "begin", "claim", "place", "done"}
    /\ results \subseteq Results
    /\ booked \in Bookings \cup {NothingBooked}
    /\ faults \in Nat

TypeOK == RowTypeOK /\ WorkerTypeOK

Init ==
    /\ status = "open" /\ seq = 0 /\ failed = 0 /\ recent = "no"
    /\ placing = {} /\ filled = {} /\ dead = {}
    /\ due = "any"
    /\ view = NoView /\ confirmed = 0 /\ emitted = "no"
    /\ queue = << >> /\ job = NoSignal /\ at = "idle"
    /\ results = {} /\ booked = NothingBooked
    /\ faults = 0

Fault == faults < MaxFaults /\ faults' = faults + 1

\* closeQueue.enqueue()
Push(s) ==
    Len(queue) < MaxQueued /\ queue' = Append(queue, s)

\* buildCloseOrderSignal(), for a row whose closing_attempt_seq is n
CloseSignal(reason, n, retry) == [reason |-> reason, seq |-> n + 1, retry |-> retry]
-----------------------------------------------------------------------------
MarketStays ==
    /\ due = "any" /\ due' \in Exits
    /\ UNCHANGED <<row, executions, evaluator, queue, executor, consumer, faults>>

\* Five seconds have passed since the last signal and the last failed attempt;
\* the gate asks for both.
CoolDown ==
    /\ "yes" \in {emitted, recent, view.recent}
    /\ emitted' = "no" /\ recent' = "no"
    /\ view' = IF view = NoView THEN view ELSE [view EXCEPT !.recent = "no"]
    /\ UNCHANGED <<status, seq, failed, executions, due, confirmed, queue,
                   executor, consumer, faults>>

\* runEvaluateAll() loads the rows, and comes to this one later.  Only open
\* positions are evaluated.
Load ==
    /\ view = NoView /\ status = "open"
    /\ view' = [seq |-> seq, failed |-> failed, recent |-> recent]
    /\ UNCHANGED <<row, executions, due, confirmed, emitted, queue, executor,
                   consumer, faults>>

\* A stop loss has been found Ticks times in a row.
Confirms(n) == n >= Ticks

\* forcedEmitGate()
Gate ==
    /\ view.failed < MaxRetries
    /\ view.recent = "no" /\ emitted = "no"

EvaluationEnds ==
    /\ view' = NoView
    /\ UNCHANGED <<row, executions, due, executor, consumer>>

\* evaluateCloseLogic() returns before it looks for a reason (an order in
\* flight, a stale book), or finds none, ...
SeesNoExit ==
    /\ view # NoView /\ due = "any"
    /\ confirmed' \in {confirmed, 0}
    /\ EvaluationEnds
    /\ UNCHANGED <<emitted, queue, faults>>

\* ... or a stop loss that is not confirmed yet, ...
AwaitsConfirmation ==
    /\ view # NoView /\ "SL" \in Exits /\ due \in {"any", "SL"}
    /\ ~Confirms(confirmed + 1)
    /\ confirmed' = confirmed + 1
    /\ EvaluationEnds
    /\ UNCHANGED <<emitted, queue, faults>>

Finds(reason) ==
    /\ view # NoView /\ due \in {"any", reason}
    /\ \/ reason = "SL" /\ Confirms(confirmed + 1)
       \/ reason = "TP"
    /\ confirmed' = 0
    /\ EvaluationEnds

\* ... or holds the exit back, for want of a bid or by the gate, ...
HoldsBack ==
    /\ \E reason \in Exits : Finds(reason)
    /\ due = "any" \/ ~Gate
    /\ UNCHANGED <<emitted, queue, faults>>

\* ... or queues its signal; when the push fails no cooldown begins.
Emit ==
    /\ Gate
    /\ \E reason \in Exits :
         /\ Finds(reason)
         /\ \/ /\ Push(CloseSignal(reason, view.seq, 0))
               /\ emitted' = "yes" /\ UNCHANGED faults
            \/ Fault /\ UNCHANGED <<emitted, queue>>

\* forceCloseAllPositions() adds 1 to the row's number before it builds the
\* signal, and asks no gate.
KillSwitch ==
    /\ status = "open" /\ Fault
    /\ Push(CloseSignal("KILL_SWITCH", seq + 1, 0))
    /\ UNCHANGED <<row, executions, due, evaluator, executor, consumer>>
-----------------------------------------------------------------------------
Take ==
    /\ at = "idle" /\ queue # << >>
    /\ job' = queue[Len(queue)] /\ at' = "begin"
    /\ queue' = SubSeq(queue, 1, Len(queue) - 1)
    /\ UNCHANGED <<row, executions, due, evaluator, consumer, faults>>

Step(from, to) ==
    /\ at = from /\ at' = to
    /\ UNCHANGED <<due, evaluator, queue, job, consumer>>

\* The handler returns without a trace of the signal, and its job is removed.
Drop(from) ==
    /\ at = from /\ at' = "idle" /\ job' = NoSignal
    /\ UNCHANGED <<due, evaluator, queue, consumer>>

\* beginClose(): a new attempt, the one this signal expects, or none.
BeginClose ==
    /\ \/ /\ Step("begin", "claim") /\ status \in {"open", "failed"}
          /\ status' = "closing" /\ seq' = seq + 1
       \/ /\ Step("begin", "claim") /\ status = "closing" /\ seq = job.seq
          /\ UNCHANGED <<status, seq>>
       \/ /\ Drop("begin") /\ status \notin {"open", "failed"}
          /\ ~(status = "closing" /\ seq = job.seq)
          /\ UNCHANGED <<status, seq>>
    /\ UNCHANGED <<failed, recent, executions, faults>>

\* The market's minimum order size is above the quantity after all: revertClose().
RefuseSmall ==
    /\ Step("claim", "done") /\ Fault
    /\ status' = IF status = "closing" THEN "open" ELSE status
    /\ UNCHANGED <<seq, failed, recent, executions>>

\* claim()
Claimable(s) == placing = {} /\ s \notin filled \cup dead /\ status # "closed"

Claim ==
    /\ \/ /\ Step("claim", "place") /\ Claimable(job)
          /\ placing' = placing \cup {job}
       \/ /\ Drop("claim") /\ ~Claimable(job)
          /\ UNCHANGED placing
    /\ UNCHANGED <<row, filled, dead, faults>>

\* simulateFill() and the push of its result.  An order fails for a reason
\* that is retried, or, rarely, for another.
Place ==
    /\ at = "place" /\ at' = "done"
    /\ \/ \E o \in {"filled", "missed"} :
             /\ results' = results \cup {[sig |-> job, outcome |-> o]}
             /\ UNCHANGED faults
       \/ /\ Fault
          /\ results' = results \cup {[sig |-> job, outcome |-> "broken"]}
    /\ UNCHANGED <<row, executions, due, evaluator, queue, job, booked>>

Finish ==
    /\ at = "done" /\ at' = "idle"
    /\ job' = NoSignal
    /\ UNCHANGED <<row, executions, due, evaluator, queue, consumer, faults>>
-----------------------------------------------------------------------------
\* finalizeWithLock() of a failed result.  (Faulty variant: an execution that
\* is failed already fails again.)
BookFailureAgain(r) ==
    /\ r.outcome # "filled"
    /\ placing' = placing \ {r.sig} /\ dead' = dead \cup {r.sig}
    /\ status' = IF status = "closing" THEN "open" ELSE status
    /\ IF status = "closing" /\ r.outcome = "missed"
       THEN failed' = failed + 1 /\ recent' = "yes"
       ELSE UNCHANGED <<failed, recent>>
    /\ UNCHANGED <<seq, filled>>

BookFailure(r) ==
    /\ r.outcome # "filled" /\ r.sig \notin dead
    /\ placing' = placing \ {r.sig} /\ dead' = dead \cup {r.sig}
    /\ status' = IF status = "closing" THEN "open" ELSE status
    /\ IF status = "closing" /\ r.outcome = "missed"
       THEN failed' = failed + 1 /\ recent' = "yes"
       ELSE UNCHANGED <<failed, recent>>
    /\ UNCHANGED <<seq, filled>>

BookFill(r) ==
    /\ r.outcome = "filled" /\ r.sig \in placing
    /\ placing' = placing \ {r.sig} /\ filled' = filled \cup {r.sig}
    /\ status' = "closed" /\ failed' = 0 /\ recent' = "no"
    /\ UNCHANGED <<seq, dead>>

\* A result whose execution is settled changes nothing.
BookNothing(r) ==
    /\ r.sig \in IF r.outcome = "filled" THEN filled \cup dead ELSE dead
    /\ UNCHANGED <<row, executions>>

\* ResultsConsumer.handle(): finalize() under the position's lock, which gives
\* the row ...
Book(r) ==
    /\ r \in results /\ booked = NothingBooked /\ at \in {"idle", "done"}
    /\ BookFailure(r) \/ BookFill(r) \/ BookNothing(r)
    /\ booked' = [res |-> r, status |-> status', seq |-> seq', failed |-> failed']
    /\ UNCHANGED <<due, evaluator, queue, executor, results, faults>>

\* ... that maybeRetryForcedExitClose() decides by.
Retryable ==
    /\ booked.res.outcome = "missed" /\ booked.status = "open"
    /\ booked.failed < MaxRetries /\ booked.res.sig.retry < MaxRetries

\* The retry asks for a new bid, and is dropped when there is none.
Retry ==
    \/ /\ Retryable
       /\ Push(CloseSignal(booked.res.sig.reason, booked.seq,
                           booked.res.sig.retry + 1))
    \/ UNCHANGED queue

\* A position that is closed leaves the evaluator's memory.
Handled ==
    /\ booked # NothingBooked
    /\ Retry
    /\ IF booked.status = "closed"
       THEN confirmed' = 0 /\ emitted' = "no"
       ELSE UNCHANGED <<confirmed, emitted>>
    /\ results' = results \ {booked.res} /\ booked' = NothingBooked
    /\ UNCHANGED <<row, executions, due, view, executor, faults>>

\* The push of the retry fails: the result comes again.
HandlingFails ==
    /\ booked # NothingBooked /\ Retryable /\ Fault
    /\ booked' = NothingBooked
    /\ UNCHANGED <<row, executions, due, evaluator, queue, executor, results>>

\* A job is dead-lettered or lost.
LoseJob ==
    /\ Fault
    /\ \/ /\ \E k \in DOMAIN queue :
                queue' = SubSeq(queue, 1, k - 1) \o SubSeq(queue, k + 1, Len(queue))
          /\ UNCHANGED results
       \/ \E r \in results \ {booked.res} :
             results' = results \ {r} /\ UNCHANGED queue
    /\ UNCHANGED <<row, executions, due, evaluator, executor, booked>>

\* The worker stops and starts again: recoverOrphans() brings back what it was
\* working on.
Crash ==
    /\ Fault
    /\ view' = NoView /\ confirmed' = 0 /\ emitted' = "no"
    /\ queue' = IF at = "idle" THEN queue ELSE <<job>> \o queue
    /\ job' = NoSignal /\ at' = "idle" /\ booked' = NothingBooked
    /\ UNCHANGED <<row, executions, due, results>>

\* ClosingWatchdog.run()  (Faulty variant: failActiveForPosition() only.)
GiveUpOrders ==
    /\ status = "closing" /\ at = "idle" /\ results = {} /\ placing # {}
    /\ placing' = {} /\ dead' = dead \cup placing
    /\ UNCHANGED <<row, filled, due, evaluator, queue, executor, consumer, faults>>

GiveUp ==
    /\ status = "closing" /\ at = "idle" /\ results = {}
    /\ placing' = {} /\ dead' = dead \cup placing
    /\ status' = "failed"
    /\ UNCHANGED <<seq, failed, recent, filled, due, evaluator, queue, executor,
                   consumer, faults>>
-----------------------------------------------------------------------------
Evaluator == Load \/ SeesNoExit \/ AwaitsConfirmation \/ HoldsBack \/ Emit

Executor == Take \/ BeginClose \/ RefuseSmall \/ Claim \/ Place \/ Finish

ResultsConsumer == (\E r \in results : Book(r)) \/ Handled

Next ==
    \/ MarketStays \/ CoolDown \/ KillSwitch
    \/ Evaluator \/ Executor \/ ResultsConsumer \/ GiveUp
    \/ HandlingFails \/ LoseJob \/ Crash

Spec == Init /\ [][Next]_vars

\* The evaluator runs every 100 ms, the consumers and the watchdog's timer for
\* as long as the worker does, and time passes.
Fairness ==
    /\ WF_vars(CoolDown) /\ WF_vars(Evaluator) /\ WF_vars(Executor)
    /\ WF_vars(ResultsConsumer) /\ WF_vars(GiveUp)

FairSpec == Spec /\ Fairness
-----------------------------------------------------------------------------
\* An attempt is counted against the position only for an order of its own
\* that failed, however often its result is delivered: the strategy does not
\* park a position before slCloseMaxRetries orders have really failed.
AttemptsAreReal == failed <= Cardinality(dead)

\* An exit that stays due and has a bid is not forgotten, whatever is lost or
\* delivered twice and wherever the worker stops: the position is closed, its
\* attempts are used up, or the watchdog has marked it failed.
DueExitsEnd ==
    <>(due # "any")
        => <>(status \in {"closed", "failed"} \/ failed >= MaxRetries)
=============================================================================
