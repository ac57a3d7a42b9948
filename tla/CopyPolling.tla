---------------------------- MODULE CopyPolling -----------------------------
(***************************************************************************)
(* How the trades of a followed trader become moves to copy.  The copy-    *)
(* trading process polls the trader's portfolio, compares it with the      *)
(* snapshot rows, records the moves in one transaction, pushes them to     *)
(* the move-events queue, and takes them from there to decide, mode by     *)
(* mode, what to copy (move-detector.ts, poll-cycle.service.ts and         *)
(* copy-processor.ts).  The process may stop between any two steps; a new  *)
(* one puts back what was left (recoverOrphans, recoverOrphanMoves).       *)
(*                                                                         *)
(* One trader is modelled, since every row and move belongs to one.  One   *)
(* poll reads his portfolio at one instant, all of it or, when the pages   *)
(* run out, a part; what he does between two polls nobody sees.  The       *)
(* copied positions belong to PositionLedger: here they are a status that  *)
(* the worker changes at any time.                                         *)
(***************************************************************************)
EXTENDS Integers, Sequences, FiniteSets

CONSTANTS
    Asset,      \* tokens the trader may hold
    Mode,       \* sim, real
    NoMove,
    NoReport,
    NoJob,
    Portfolio,  \* bound: what he may hold when he is polled
    MaxSeq,     \* bound on the recorded cycles
    MaxFaults   \* bound on crashes and failures, below the retries of a job

ASSUME AssetAssumption == IsFiniteSet(Asset)

ASSUME BoundAssumption ==
    /\ Portfolio \subseteq [Asset -> Nat]
    /\ {MaxSeq, MaxFaults} \subseteq Nat

VARIABLES
    rows,       \* trader_snapshots.size of each asset, Absent without a row
    seq,        \* trader_snapshot_seq
    recorded,   \* the rows of move_events
    processed,  \* the ones marked processed
    poll,       \* the report the poll loop works on
    unsent,     \* recorded moves the poll loop has still to push
    queue,      \* the list move-events, both ends of work at its tail
    processing, \* the move in its processing list
    job,        \* the move the processor works on
    held,       \* the copied position of each asset and mode
    up,         \* the process runs
    faults,     \* crashes and failures so far
    missed      \* moves whose push failed since the last start (history)

trader == <<rows, seq, recorded>>
memory == <<poll, unsent, job>>
list == <<queue, processing>>
vars == <<trader, processed, memory, list, held, up, faults, missed>>

Absent == -1
Types == {"OPENED", "INCREASED", "DECREASED", "CLOSED"}
Move == [asset : Asset, type : Types, from : Nat, to : Nat, seq : Nat]

Report == [size : [Asset -> Nat \cup {Absent}], truncated : BOOLEAN,
           truth : Portfolio]

Job == [move : Move, todo : SUBSET Mode, stage : {"modes", "done", "failed"},
        threw : BOOLEAN]

Statuses == {"none", "pending", "open", "closing"}
Position == [status : Statuses, move : Move \cup {NoMove}, live : BOOLEAN]
At(status) == [status |-> status, move |-> NoMove, live |-> FALSE]

ASSUME NullAssumption ==
    NoMove \notin Move /\ NoReport \notin Report /\ NoJob \notin Job

TypeOK ==
    /\ rows \in [Asset -> Nat \cup {Absent}]
    /\ seq \in Nat
    /\ recorded \subseteq Move /\ processed \subseteq recorded
    /\ poll \in Report \cup {NoReport}
    /\ unsent \subseteq recorded
    /\ queue \in Seq(recorded)
    /\ processing \in recorded \cup {NoMove}
    /\ job \in Job \cup {NoJob}
    /\ job # NoJob => job.move \in recorded
    /\ held \in [Asset \X Mode -> Position]
    /\ up \in BOOLEAN /\ faults \in Nat
    /\ missed \subseteq recorded

Init ==
    /\ rows = [a \in Asset |-> Absent]
    /\ seq = 0
    /\ recorded = {} /\ processed = {}
    /\ poll = NoReport /\ unsent = {} /\ job = NoJob
    /\ queue = <<>> /\ processing = NoMove
    /\ held = [x \in Asset \X Mode |-> At("none")]
    /\ up = TRUE /\ faults = 0 /\ missed = {}

Fault == faults < MaxFaults /\ faults' = faults + 1
-----------------------------------------------------------------------------
(***************************************************************************)
(* The worker fills, drops and closes positions.                           *)
(***************************************************************************)
\* A fill, a failed or released entry, beginClose, the fill of an exit, and
\* revertClose.
Advances == {<<"pending", "open">>, <<"pending", "none">>, <<"open", "closing">>,
             <<"closing", "none">>, <<"closing", "open">>}

Advance(x) ==
    /\ \E step \in Advances : /\ held[x].status = step[1]
                              /\ held' = [held EXCEPT ![x] = At(step[2])]
    /\ UNCHANGED <<trader, processed, memory, list, up, faults, missed>>

\* The reservation passes its time; the janitor has not seen it yet.
Expire(x) ==
    /\ held[x].status = "pending" /\ held[x].live
    /\ held' = [held EXCEPT ![x].live = FALSE]
    /\ UNCHANGED <<trader, processed, memory, list, up, faults, missed>>
-----------------------------------------------------------------------------
(***************************************************************************)
(* The poll cycle.                                                         *)
(***************************************************************************)
\* He holds anything at the time of a poll.  An asset that he does not hold is
\* reported with size 0 or not at all; one that he holds is left out only when
\* the pages ran out.
Fetch ==
    /\ up /\ poll = NoReport /\ unsent = {} /\ seq < MaxSeq
    /\ \E portfolio \in Portfolio, out \in SUBSET Asset, cut \in BOOLEAN :
          /\ cut \/ \A a \in out : portfolio[a] = 0
          /\ poll' = [size |-> [a \in Asset |-> IF a \in out THEN Absent
                                                ELSE portfolio[a]],
                      truncated |-> cut, truth |-> portfolio]
    /\ UNCHANGED <<trader, processed, unsent, job, list, held, up, faults,
                   missed>>

\* Faulty variant: a position a truncated report leaves out counts as gone.
GoneFromPage(a) == poll.size[a] = Absent

Gone(a) == poll.size[a] = Absent /\ ~poll.truncated

\* computeTransitions().
Detects(a, type) ==
    LET was == rows[a]
        now == poll.size[a]
    IN \/ type = "OPENED"    /\ was = Absent /\ now > 0
       \/ type = "INCREASED" /\ was # Absent /\ now > was
       \/ type = "DECREASED" /\ 0 < now /\ now < was
       \/ type = "CLOSED"    /\ was > 0 /\ (now = 0 \/ Gone(a))

\* Faulty variant: a position counts only once it is filled.
CopiedOpen(a) == \E m \in Mode : held[<<a, m>>].status \in {"open", "closing"}

Copied(a) == \E m \in Mode : held[<<a, m>>].status \in {"open", "pending", "closing"}

NonNegative(n) == IF n = Absent THEN 0 ELSE n

MoveOf(a, type) ==
    [asset |-> a, type |-> type, from |-> NonNegative(rows[a]),
     to |-> NonNegative(poll.size[a]), seq |-> seq + 1]

\* All but OPENED are dropped unless a copied position is active.
NewMoves ==
    {MoveOf(x[1], x[2]) : x \in
        {y \in Asset \X Types : /\ Detects(y[1], y[2])
                                /\ y[2] = "OPENED" \/ Copied(y[1])}}

KnownTrader == \E a \in Asset : rows[a] # Absent

\* The first complete report becomes the baseline and emits nothing, in
\* runPollCycle() and, after a start, in reconcile().
Baseline ==
    /\ up /\ poll # NoReport /\ ~KnownTrader
    /\ rows' = IF poll.truncated THEN rows ELSE poll.size
    /\ poll' = NoReport
    /\ UNCHANGED <<seq, recorded, processed, unsent, job, list, held, up,
                   faults, missed>>

\* Faulty variant: the sequence number is not part of what a cycle saves.
SameSeq == seq

NextSeq == IF NewMoves = {} THEN seq ELSE seq + 1

\* A move whose id exists makes PostgreSQL refuse the whole transaction.
Record ==
    /\ up /\ poll # NoReport /\ KnownTrader
    /\ poll' = NoReport
    /\ IF NewMoves \cap recorded = {}
       THEN /\ recorded' = recorded \cup NewMoves
            /\ seq' = NextSeq
            /\ unsent' = NewMoves
            /\ rows' = [a \in Asset |->
                          IF poll.size[a] # Absent THEN poll.size[a]
                          ELSE IF rows[a] > 0 /\ Gone(a) THEN 0 ELSE rows[a]]
       ELSE UNCHANGED <<trader, unsent>>
    /\ UNCHANGED <<processed, job, list, held, up, faults, missed>>

Push(m) ==
    /\ up /\ m \in unsent
    /\ queue' = Append(queue, m)
    /\ unsent' = unsent \ {m}
    /\ UNCHANGED <<trader, processed, poll, job, processing, held, up, faults,
                   missed>>

\* A failing push ends the loop over the moves; pollAll() goes on.
PushFails ==
    /\ up /\ unsent # {} /\ Fault
    /\ unsent' = {}
    /\ missed' = missed \cup unsent
    /\ UNCHANGED <<trader, processed, poll, job, list, held, up>>
-----------------------------------------------------------------------------
(***************************************************************************)
(* The copy processor.                                                     *)
(***************************************************************************)
Take ==
    /\ up /\ job = NoJob /\ queue # <<>>
    /\ LET m == queue[Len(queue)] IN
          /\ job' = [move |-> m, todo |-> Mode, stage |-> "modes",
                     threw |-> FALSE]
          /\ processing' = m
    /\ queue' = SubSeq(queue, 1, Len(queue) - 1)
    /\ UNCHANGED <<trader, processed, poll, unsent, held, up, faults, missed>>

InMode(m) == up /\ job # NoJob /\ job.stage = "modes" /\ m \in job.todo

\* A refusal, or an order for a position that is open.  What orders do is the
\* subject of OrderPipeline.
Decide(m) ==
    /\ InMode(m)
    /\ job' = [job EXCEPT !.todo = @ \ {m}]
    /\ UNCHANGED <<trader, processed, poll, unsent, list, held, up, faults,
                   missed>>

\* reserve(), when no copied position is active.
Reserved(m) ==
    [held EXCEPT ![<<job.move.asset, m>>] =
        [status |-> "pending", move |-> job.move, live |-> TRUE]]

CanEnter(m) ==
    /\ InMode(m) /\ job.move.type = "OPENED"
    /\ held[<<job.move.asset, m>>].status = "none"

Enter(m) ==
    /\ CanEnter(m)
    /\ held' = Reserved(m)
    /\ job' = [job EXCEPT !.todo = @ \ {m}]
    /\ UNCHANGED <<trader, processed, poll, unsent, list, up, faults, missed>>

\* The entry of this move is found reserved and given up.
Abandon(m) ==
    /\ InMode(m) /\ job.move.type = "OPENED"
    /\ held[<<job.move.asset, m>>].status = "pending"
    /\ held[<<job.move.asset, m>>].move = job.move
    /\ held' = [held EXCEPT ![<<job.move.asset, m>>] = At("none")]
    /\ job' = [job EXCEPT !.todo = @ \ {m}]
    /\ UNCHANGED <<trader, processed, poll, unsent, list, up, faults, missed>>

\* One mode throws, and what it reserved is released, or stays when that fails
\* too; the others go on.
Throw(m) ==
    /\ InMode(m) /\ Fault
    /\ \/ UNCHANGED held
       \/ CanEnter(m) /\ held' = Reserved(m)
    /\ job' = [job EXCEPT !.todo = @ \ {m}, !.threw = TRUE]
    /\ UNCHANGED <<trader, processed, poll, unsent, list, up, missed>>

Mark ==
    /\ up /\ job # NoJob /\ job.stage = "modes" /\ job.todo = {} /\ ~job.threw
    /\ processed' = processed \cup {job.move}
    /\ job' = [job EXCEPT !.stage = "done"]
    /\ UNCHANGED <<trader, poll, unsent, list, held, up, faults, missed>>

\* LREM, after the handler returned ...
Finish ==
    /\ up /\ job # NoJob /\ job.stage = "done"
    /\ processing' = NoMove
    /\ job' = NoJob
    /\ UNCHANGED <<trader, processed, poll, unsent, queue, held, up, faults,
                   missed>>

\* ... or threw, and then RPUSH.
Fail ==
    /\ up /\ job # NoJob /\ job.stage = "modes" /\ job.todo = {} /\ job.threw
    /\ processing' = NoMove
    /\ job' = [job EXCEPT !.stage = "failed"]
    /\ UNCHANGED <<trader, processed, poll, unsent, queue, held, up, faults,
                   missed>>

Requeue ==
    /\ up /\ job # NoJob /\ job.stage = "failed"
    /\ queue' = Append(queue, job.move)
    /\ job' = NoJob
    /\ UNCHANGED <<trader, processed, poll, unsent, processing, held, up,
                   faults, missed>>
-----------------------------------------------------------------------------
Crash ==
    /\ up /\ Fault
    /\ up' = FALSE
    /\ poll' = NoReport /\ unsent' = {} /\ job' = NoJob
    /\ UNCHANGED <<trader, processed, list, held, missed>>

\* Processed moves whose entry is pending with no reservation in force.
Stale ==
    {m \in processed : \E x \in Asset \X Mode :
        held[x].status = "pending" /\ held[x].move = m /\ ~held[x].live}

\* Faulty variant: only the stale moves are loaded at start.
NoneUnprocessed == {}

Unprocessed == recorded \ processed

\* The sequences that list a set of moves, oldest cycle first.
Listings(S) ==
    {s \in [1 .. Cardinality(S) -> S] :
        /\ \A m \in S : \E i \in DOMAIN s : s[i] = m
        /\ \A i, j \in DOMAIN s : i < j => s[i].seq <= s[j].seq}

Restart ==
    /\ ~up /\ up' = TRUE
    /\ \E lost \in Listings(Unprocessed), stale \in Listings(Stale) :
          queue' = (IF processing = NoMove THEN <<>> ELSE <<processing>>)
                   \o queue \o lost \o stale
    /\ processing' = NoMove
    /\ processed' = processed \ Stale
    /\ missed' = {}
    /\ UNCHANGED <<trader, memory, held, faults>>
-----------------------------------------------------------------------------
Polling == Fetch \/ Baseline \/ Record \/ \E m \in unsent : Push(m)

Handling ==
    \/ Take \/ Mark \/ Finish \/ Fail \/ Requeue
    \/ \E m \in Mode : Decide(m) \/ Enter(m) \/ Abandon(m)

Next ==
    \/ Polling \/ PushFails
    \/ Handling \/ \E m \in Mode : Throw(m)
    \/ Crash \/ Restart
    \/ \E x \in Asset \X Mode : Advance(x) \/ Expire(x)

Spec == Init /\ [][Next]_vars

\* The loops of the process go on and a process that stopped is started
\* again.  Nothing makes the trader trade or an order fill.
FairSpec ==
    /\ Spec /\ WF_vars(Polling) /\ WF_vars(Handling) /\ WF_vars(Restart)
-----------------------------------------------------------------------------
\* A poll never meets the id of a move it has recorded, which PostgreSQL would
\* answer by refusing this poll and every later one.
NoDuplicateMove ==
    (poll # NoReport /\ KnownTrader) => NewMoves \cap recorded = {}

\* A recorded move ends at what the trader really held when he was polled: a
\* report that was cut off makes nobody sell.
MovesAreReal ==
    [][\A m \in recorded' \ recorded : m.to = poll.truth[m.asset]]_vars

\* While a position on an asset is copied in some mode, entering and closing
\* included, no change of its snapshot goes unrecorded: the row then takes the
\* value of a new move that starts where the row was.
CopiedChangesAreRecorded ==
    [][\A a \in Asset :
          (\E m \in Mode : held[<<a, m>>].status # "none") /\ rows'[a] # rows[a]
             => \E m \in recorded' \ recorded :
                   m.asset = a /\ m.from = NonNegative(rows[a]) /\ m.to = rows'[a]]_vars

\* Whatever crashes or throws, every recorded move is processed in the end,
\* but for moves whose push failed since the last start.
MovesAreHandled == <>[](recorded \ processed \subseteq missed)
=============================================================================
