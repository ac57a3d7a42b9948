----------------------------- MODULE SimSession -----------------------------
(***************************************************************************)
(* A simulation session of one algorithm: its cash, its positions and jobs, *)
(* and the reset that wipes them while the worker goes on                  *)
(* (src/packages/core/src/services/simulation.service.ts,                  *)
(* simulation-session.service.ts, redis/sim-reset-redis-hygiene.ts,        *)
(* src/packages/backend/src/routes/simulation.ts,                          *)
(* src/packages/worker/src/sim-reset-guard.ts).                            *)
(*                                                                         *)
(* The backend resets in one database transaction, then removes jobs from  *)
(* Redis, then tells the worker.  PostgreSQL runs each transaction at READ *)
(* COMMITTED: rows that are only read are not locked, and a row that is    *)
(* updated or deleted is, until the commit.                                *)
(*                                                                         *)
(* Abstractions.                                                           *)
(*  - A position has one entry and at most one exit at a time, both whole; *)
(*    PositionLedger has the rest of a position's life.                    *)
(*  - The cash is the set of fills it counts; the amounts, and the floor   *)
(*    of zero under them, are left out.                                    *)
(*  - Time: a reservation may expire, and a placing execution be stale, at *)
(*    any moment.  A result that cannot be booked is dropped at once, not  *)
(*    after its retries.                                                   *)
(*  - Failing pushes, and the fills an executor then books itself, are in   *)
(*    OrderPipeline.                                                       *)
(*  - The archive, the market data and the copied moves a reset also       *)
(*    clears have no part in this.                                         *)
(***************************************************************************)
EXTENDS Naturals, FiniteSets

CONSTANTS
    Pos,
    Request,    \* reset requests, each made once
    MaxFaults   \* bound on failing steps, stops and locks that expire

ASSUME FaultsAssumption == MaxFaults \in Nat

Entry(p) == [pos |-> p, kind |-> "entry"]
Exit(p) == [pos |-> p, kind |-> "exit"]
Sig == [pos : Pos, kind : {"entry", "exit"}]

VARIABLES
    status,     \* copied_positions: "none" before, "gone" after a wipe
    reserved,   \* positions with a reservation
    exec,       \* executions: "none" without a row
    balance,    \* the fills the cash counts, and the session it was opened for
    session,    \* the number of the active session
    queue,      \* jobs waiting
    processing, \* jobs taken and not removed
    at,         \* where the worker is with a job
    bumped,     \* jobs in work when the worker heard of a reset
    results,    \* results waiting for the results consumer
    filling,    \* the fill being booked, and the balance its transaction read
    read,       \* positions the reservation janitor has read as pending
    sweep,      \* executions the placing janitor has loaded
    worker,     \* "down", "repairing" its cash, or "running"
    repair,     \* the balance and the fills the repair has read
    phase,      \* per reset request
    listed,     \* the positions it found
    doomed,     \* executions a transaction has deleted and not committed yet
    unreserved, \* and reservations
    lock,       \* the request that set the reset lock
    mixed,      \* a balance read before a reset was saved after it (history)
    faults

ledger == <<status, reserved, exec>>
jobs == <<queue, processing, at, bumped, results>>
janitors == <<read, sweep>>
start == <<worker, repair>>
resets == <<phase, listed, doomed, unreserved, lock>>
vars == <<ledger, balance, session, jobs, filling, janitors, start, resets, mixed,
          faults>>

NoRow == [fills |-> {}, since |-> 0]
Balances == [fills : SUBSET Sig, since : Nat]
NoRequest == "none"
Results == [sig : Sig, ok : {"yes", "no"}]

LedgerTypeOK ==
    /\ status \in [Pos -> {"none", "pending", "open", "closing", "closed",
                           "cancelled", "gone"}]
    /\ reserved \subseteq Pos
    /\ exec \in [Sig -> {"none", "placing", "filled", "failed"}]

CashTypeOK ==
    /\ balance \in Balances /\ repair \in Balances
    /\ filling \subseteq [res : Results, row : Balances]
    /\ session \in Nat /\ mixed \in BOOLEAN

JobsTypeOK ==
    /\ queue \subseteq Sig /\ processing \subseteq Sig /\ bumped \subseteq Sig
    /\ at \in [Sig -> {"idle", "begin", "claim", "run"}]
    /\ results \subseteq Results
    /\ worker \in {"down", "repairing", "running"}
    /\ read \subseteq Pos /\ sweep \subseteq Sig

ResetTypeOK ==
    /\ phase \in [Request -> {"new", "locked", "listed", "wiping", "committed",
                              "purged", "told", "done"}]
    /\ listed \in [Request -> SUBSET Pos]
    /\ doomed \subseteq Sig /\ unreserved \subseteq Pos
    /\ lock \in Request \cup {NoRequest}
    /\ faults \in Nat

TypeOK == LedgerTypeOK /\ CashTypeOK /\ JobsTypeOK /\ ResetTypeOK

Init ==
    /\ status = [p \in Pos |-> "none"] /\ reserved = {}
    /\ exec = [s \in Sig |-> "none"]
    /\ balance = [fills |-> {}, since |-> 1] /\ session = 1
    /\ queue = {} /\ processing = {} /\ bumped = {} /\ results = {}
    /\ at = [s \in Sig |-> "idle"] /\ filling = {}
    /\ read = {} /\ sweep = {}
    /\ worker = "running" /\ repair = NoRow
    /\ phase = [r \in Request |-> "new"] /\ listed = [r \in Request |-> {}]
    /\ doomed = {} /\ unreserved = {} /\ lock = NoRequest
    /\ mixed = FALSE /\ faults = 0

Fault == faults < MaxFaults /\ faults' = faults + 1

Filled == {s \in Sig : exec[s] = "filled"}

\* Rows the transaction of a reset has deleted and not committed.
Wiping == UNION {listed[r] : r \in {q \in Request : phase[q] = "wiping"}}

\* A row exists and another transaction may lock it.
Exists(p) == status[p] \notin {"none", "gone"}
Free(p) ==
    p \notin Wiping /\ (\A f \in filling : f.res.sig.pos # p)

\* No job of p is in work: an executor holds the position's lock.
LockFree(p) == at[Entry(p)] = "idle" /\ at[Exit(p)] = "idle"
-----------------------------------------------------------------------------
\* reserve(): a pending position and its reservation.
Reserve(p) ==
    /\ status[p] = "none"
    /\ status' = [status EXCEPT ![p] = "pending"]
    /\ reserved' = reserved \cup {p}
    /\ UNCHANGED <<exec, balance, session, jobs, filling, janitors, start, resets,
                   mixed, faults>>

\* The push that follows, and that of the pending-entry janitor; an exit.
Send(s) ==
    /\ \/ s.kind = "entry" /\ status[s.pos] = "pending" /\ s.pos \in reserved
       \/ s.kind = "exit" /\ status[s.pos] = "open"
    /\ exec[s] = "none" /\ at[s] = "idle" /\ s \notin queue
    /\ queue' = queue \cup {s}
    /\ UNCHANGED <<ledger, balance, session, processing, at, bumped, results, filling,
                   janitors, start, resets, mixed, faults>>

\* One consumer takes the entries, another the exits.
Take(s) ==
    /\ worker = "running" /\ s \in queue
    /\ \A t \in Sig : t.kind = s.kind => at[t] = "idle"
    /\ LockFree(s.pos) /\ (\A f \in filling : f.res.sig.pos # s.pos)
    /\ queue' = queue \ {s} /\ processing' = processing \cup {s}
    /\ at' = [at EXCEPT ![s] = "begin"]
    /\ UNCHANGED <<ledger, balance, session, bumped, results, filling, janitors, start,
                   resets, mixed, faults>>

Leave(s) ==
    /\ at' = [at EXCEPT ![s] = "idle"]
    /\ processing' = processing \ {s} /\ bumped' = bumped \ {s}

\* The reservation of an entry is looked up ...
FindReservation(p) ==
    /\ at[Entry(p)] = "begin" /\ p \in reserved
    /\ at' = [at EXCEPT ![Entry(p)] = "claim"]
    /\ UNCHANGED <<ledger, balance, session, queue, processing, bumped, results, filling,
                   janitors, start, resets, mixed, faults>>

\* ... and released when it has expired; a failed result follows.
RejectExpired(p) ==
    LET s == Entry(p) IN
    /\ at[s] = "begin"
    /\ IF p \in reserved /\ exec[s] # "placing"
         THEN /\ Free(p)
              /\ reserved' = reserved \ {p}
              /\ status' = IF status[p] = "pending"
                             THEN [status EXCEPT ![p] = "cancelled"] ELSE status
         ELSE UNCHANGED <<status, reserved>>
    /\ results' = results \cup {[sig |-> s, ok |-> "no"]}
    /\ Leave(s)
    /\ UNCHANGED <<exec, balance, session, queue, filling, janitors, start, resets,
                   mixed, faults>>

\* beginClose()
BeginClose(p) ==
    LET s == Exit(p) IN
    /\ at[s] = "begin"
    /\ IF status[p] \in {"open", "closing"}
         THEN /\ Free(p)
              /\ status' = [status EXCEPT ![p] = "closing"]
              /\ at' = [at EXCEPT ![s] = "claim"]
              /\ UNCHANGED <<processing, bumped>>
         ELSE Leave(s) /\ UNCHANGED status
    /\ UNCHANGED <<reserved, exec, balance, session, queue, results, filling, janitors,
                   start, resets, mixed, faults>>

\* claim() asks only an exit for its position, and locks no row.
Claim(s) ==
    /\ at[s] = "claim" /\ exec[s] = "none"
    /\ s.kind = "exit" => status[s.pos] \in {"open", "closing"}
    /\ exec' = [exec EXCEPT ![s] = "placing"]
    /\ at' = [at EXCEPT ![s] = "run"]
    /\ UNCHANGED <<status, reserved, balance, session, queue, processing, bumped,
                   results, filling, janitors, start, resets, mixed, faults>>

\* An execution in flight is left alone, and so is an exit that cannot be claimed.
LeaveClaimed(s) ==
    /\ at[s] = "claim"
    /\ \/ exec[s] = "placing"
       \/ s.kind = "exit" /\ (exec[s] # "none" \/ status[s.pos] \notin {"open", "closing"})
    /\ Leave(s)
    /\ UNCHANGED <<ledger, balance, session, queue, results, filling, janitors, start,
                   resets, mixed, faults>>

\* An entry that was settled before gives up its reservation and fails.
Collide(p) ==
    LET s == Entry(p) IN
    /\ at[s] = "claim" /\ exec[s] \in {"filled", "failed"}
    /\ IF p \in reserved
         THEN /\ Free(p)
              /\ reserved' = reserved \ {p}
              /\ status' = IF status[p] = "pending"
                             THEN [status EXCEPT ![p] = "cancelled"] ELSE status
         ELSE UNCHANGED <<status, reserved>>
    /\ results' = results \cup {[sig |-> s, ok |-> "no"]}
    /\ Leave(s)
    /\ UNCHANGED <<exec, balance, session, queue, filling, janitors, start, resets,
                   mixed, faults>>

\* The simulated fill's result is queued.
Settle(s) ==
    /\ at[s] = "run"
    /\ \E ok \in {"yes", "no"} : results' = results \cup {[sig |-> s, ok |-> ok]}
    /\ Leave(s)
    /\ UNCHANGED <<ledger, balance, session, queue, filling, janitors, start, resets,
                   mixed, faults>>

\* A job fails before its claim: it is queued again, but not after a reset the
\* worker has heard of.
JobFails(s) ==
    /\ at[s] \in {"begin", "claim"} /\ Fault
    /\ queue' = IF s \in bumped THEN queue ELSE queue \cup {s}
    /\ Leave(s)
    /\ UNCHANGED <<ledger, balance, session, results, filling, janitors, start, resets,
                   mixed>>
-----------------------------------------------------------------------------
\* The results consumer takes one result after the other.
Handles(r) == worker = "running" /\ filling = {} /\ r \in results /\ LockFree(r.sig.pos)

\* One with no row to book: its job fails until it is given up.
DropResult(r) ==
    /\ Handles(r)
    /\ exec[r.sig] = "none" \/ ~Exists(r.sig.pos)
    /\ results' = results \ {r}
    /\ UNCHANGED <<ledger, balance, session, queue, processing, at, bumped, filling,
                   janitors, start, resets, mixed, faults>>

\* What a failed result does to the rows.
FailRows(s) ==
    LET p == s.pos IN
    /\ exec' = [exec EXCEPT ![s] = "failed"]
    /\ status' = IF s.kind = "entry" /\ status[p] = "pending"
                   THEN [status EXCEPT ![p] = "cancelled"]
                 ELSE IF s.kind = "exit" /\ status[p] = "closing"
                   THEN [status EXCEPT ![p] = "open"] ELSE status
    /\ reserved' = IF s.kind = "entry" /\ status[p] = "pending"
                     THEN reserved \ {p} ELSE reserved

\* Faulty variant: the position is not read under its lock.
AcceptsUnread(s) == exec[s] = "placing"

\* The states a fill is accepted in.
Accepts(s) ==
    IF s.kind = "entry" THEN status[s.pos] \in {"pending", "open"}
    ELSE status[s.pos] \in {"open", "closing"}

\* finalize() of a failure, whatever was filled before, or of a fill that is not
\* accepted; a second one changes nothing.
BookFailure(r) ==
    LET s == r.sig IN
    /\ Handles(r)
    /\ exec[s] # "none" /\ Exists(s.pos) /\ Free(s.pos)
    /\ IF exec[s] = "failed" \/ (r.ok = "yes" /\ exec[s] = "filled") THEN UNCHANGED ledger
       ELSE (r.ok = "yes" => ~Accepts(s)) /\ FailRows(s)
    /\ results' = results \ {r}
    /\ UNCHANGED <<balance, session, queue, processing, at, bumped, filling, janitors,
                   start, resets, mixed, faults>>

\* finalize() of a fill locks both rows and reads the balance ...
BeginFill(r) ==
    LET s == r.sig IN
    /\ Handles(r) /\ r.ok = "yes"
    /\ exec[s] = "placing" /\ Exists(s.pos) /\ Free(s.pos) /\ Accepts(s)
    /\ filling' = {[res |-> r, row |-> balance]}
    /\ UNCHANGED <<ledger, balance, session, jobs, janitors, start, resets, mixed,
                   faults>>

\* save() writes every column that differs from the stored row, so what was read
\* before another commit may overwrite that one's work; or, when the stored row
\* is compared before that commit, the amount alone.
SaveBalance(row, fills) ==
    /\ balance' \in {[fills |-> fills, since |-> row.since],
                     [fills |-> fills, since |-> balance.since]}
    /\ mixed' = (mixed \/ row.since # balance.since)

\* ... and commits the fill with the balance that follows from what it read.  The
\* balance row is locked while a reset writes it.
CommitFill(f) ==
    LET s == f.res.sig IN
    /\ f \in filling
    /\ \A q \in Request : phase[q] # "wiping"
    /\ exec' = [exec EXCEPT ![s] = "filled"]
    /\ status' = [status EXCEPT ![s.pos] = IF s.kind = "entry" THEN "open" ELSE "closed"]
    /\ reserved' = IF s.kind = "entry" THEN reserved \ {s.pos} ELSE reserved
    /\ SaveBalance(f.row, f.row.fills \cup {s})
    /\ results' = results \ {f.res}
    /\ filling' = {}
    /\ UNCHANGED <<session, queue, processing, at, bumped, janitors, start, resets,
                   faults>>
-----------------------------------------------------------------------------
\* ReservationService.janitor() reads a pending position without a lock ...
JanitorReads(p) ==
    /\ worker = "running" /\ p \in reserved /\ status[p] = "pending"
    /\ read' = read \cup {p}
    /\ UNCHANGED <<ledger, balance, session, jobs, filling, sweep, start, resets, mixed,
                   faults>>

\* ... and saves it as cancelled: over what it has become, and as a new row when
\* it was wiped.
JanitorSaves(p) ==
    /\ p \in read /\ Free(p)
    /\ read' = read \ {p}
    /\ status' = [status EXCEPT ![p] = "cancelled"]
    /\ reserved' = reserved \ {p}
    /\ UNCHANGED <<exec, balance, session, jobs, filling, sweep, start, resets, mixed,
                   faults>>

\* loadOrphanPlacingSim(): placing executions whose position is missing or in
\* another state, and entries that are stale.
Orphans ==
    {s \in Sig : /\ exec[s] = "placing"
                 /\ s.kind = "exit" => status[s.pos] # "closing"}

PlacingJanitorLoads ==
    /\ worker = "running" /\ sweep = {} /\ Orphans # {}
    /\ sweep' = Orphans
    /\ UNCHANGED <<ledger, balance, session, jobs, filling, read, start, resets, mixed,
                   faults>>

\* Each is finalised as failed; the first that has no position ends the pass.
PlacingJanitorFails(s) ==
    /\ worker = "running" /\ s \in sweep
    /\ IF exec[s] = "none" \/ ~Exists(s.pos)
         THEN sweep' = {} /\ UNCHANGED ledger
         ELSE /\ Free(s.pos)
              /\ sweep' = sweep \ {s}
              /\ IF exec[s] = "failed" THEN UNCHANGED ledger ELSE FailRows(s)
    /\ UNCHANGED <<balance, session, jobs, filling, read, start, resets, mixed, faults>>
-----------------------------------------------------------------------------
\* POST /simulation-balance/reset: SET NX with a time to live ...
Acquire(r) ==
    /\ phase[r] = "new" /\ lock = NoRequest
    /\ lock' = r
    /\ phase' = [phase EXCEPT ![r] = "locked"]
    /\ UNCHANGED <<ledger, balance, session, jobs, filling, janitors, start, listed,
                   doomed, unreserved, mixed, faults>>

\* ... which may end before the reset does ...
Expire ==
    /\ lock # NoRequest /\ Fault
    /\ lock' = NoRequest
    /\ UNCHANGED <<ledger, balance, session, jobs, filling, janitors, start, phase,
                   listed, doomed, unreserved, mixed>>

\* ... the positions to wipe are listed, for Redis and for the transaction ...
List(r) ==
    /\ phase[r] = "locked"
    /\ phase' = [phase EXCEPT ![r] = "listed"]
    /\ listed' = [listed EXCEPT ![r] = {p \in Pos : Exists(p)}]
    /\ UNCHANGED <<ledger, balance, session, jobs, filling, janitors, start, doomed,
                   unreserved, lock, mixed, faults>>

\* ... and what is there of them, and every reservation, is deleted when nobody
\* holds the rows; what is inserted from now on stays.
Wipe(r) ==
    /\ phase[r] = "listed"
    /\ \A q \in Request : phase[q] # "wiping"
    /\ \A p \in listed[r] \cup reserved : Free(p)
    /\ phase' = [phase EXCEPT ![r] = "wiping"]
    /\ doomed' = {s \in Sig : s.pos \in listed[r] /\ exec[s] # "none"}
    /\ unreserved' = reserved
    /\ UNCHANGED <<ledger, balance, session, jobs, filling, janitors, start, listed,
                   lock, mixed, faults>>

\* Faulty variant: the balance is left.
CommitKeepsCash(r) ==
    /\ phase[r] = "wiping"
    /\ phase' = [phase EXCEPT ![r] = "committed"]
    /\ status' = [p \in Pos |-> IF p \in listed[r] THEN "gone" ELSE status[p]]
    /\ exec' = [s \in Sig |-> IF s \in doomed THEN "none" ELSE exec[s]]
    /\ reserved' = reserved \ unreserved
    /\ session' = session + 1
    /\ balance' = [fills |-> balance.fills, since |-> session']
    /\ mixed' = FALSE
    /\ UNCHANGED <<jobs, filling, janitors, start, listed, doomed, unreserved, lock, faults>>

\* The balance is set, the session closed, the next one opened, and all of it
\* committed together.
Commit(r) ==
    /\ phase[r] = "wiping"
    /\ phase' = [phase EXCEPT ![r] = "committed"]
    /\ status' = [p \in Pos |-> IF p \in listed[r] THEN "gone" ELSE status[p]]
    /\ exec' = [s \in Sig |-> IF s \in doomed THEN "none" ELSE exec[s]]
    /\ reserved' = reserved \ unreserved
    /\ session' = session + 1
    /\ balance' = [fills |-> {}, since |-> session']
    /\ mixed' = FALSE
    /\ UNCHANGED <<jobs, filling, janitors, start, listed, doomed, unreserved, lock, faults>>

\* The backend stops or a statement fails: nothing of it happened.
Abort(r) ==
    /\ phase[r] \in {"locked", "listed", "wiping"} /\ Fault
    /\ phase' = [phase EXCEPT ![r] = "told"]
    /\ UNCHANGED <<ledger, balance, session, jobs, filling, janitors, start, listed,
                   doomed, unreserved, lock, mixed>>

\* purgeSimExecutionRedisState(): all entries and their results, the exits of what
\* was listed, and the results of those that still were in a list.
Purge(r) ==
    LET exits == {s \in queue \cup processing : s.kind = "exit" /\ s.pos \in listed[r]}
        gone == exits \cup {Entry(p) : p \in Pos} IN
    /\ phase[r] = "committed"
    /\ phase' = [phase EXCEPT ![r] = "purged"]
    /\ queue' = queue \ gone /\ processing' = processing \ gone
    /\ results' = {x \in results : x.sig \notin gone}
    /\ UNCHANGED <<ledger, balance, session, at, bumped, filling, janitors, start,
                   listed, doomed, unreserved, lock, mixed, faults>>

\* publishSimulationReset(), heard by a worker that is up.
Tell(r) ==
    /\ phase[r] = "purged"
    /\ phase' = [phase EXCEPT ![r] = "told"]
    /\ bumped' = IF worker = "down" THEN {} ELSE {s \in Sig : at[s] # "idle"}
    /\ UNCHANGED <<ledger, balance, session, queue, processing, at, results, filling,
                   janitors, start, listed, doomed, unreserved, lock, mixed, faults>>

\* The lock is deleted, whoever holds it by now.
Unlock(r) ==
    /\ phase[r] = "told"
    /\ phase' = [phase EXCEPT ![r] = "done"]
    /\ lock' = NoRequest
    /\ UNCHANGED <<ledger, balance, session, jobs, filling, janitors, start, listed,
                   doomed, unreserved, mixed, faults>>
-----------------------------------------------------------------------------
\* The worker stops: its transactions are rolled back, its jobs come back.
Stop ==
    /\ worker # "down" /\ Fault
    /\ worker' = "down" /\ repair' = NoRow
    /\ queue' = queue \cup processing /\ processing' = {} /\ bumped' = {}
    /\ at' = [s \in Sig |-> "idle"]
    /\ filling' = {} /\ read' = {} /\ sweep' = {}
    /\ UNCHANGED <<ledger, balance, session, results, resets, mixed>>

\* ensureCashIntegrity() at its start: the balance and the executions are read ...
RepairReads ==
    /\ worker = "down" /\ worker' = "repairing"
    /\ repair' = [fills |-> Filled, since |-> balance.since]
    /\ UNCHANGED <<ledger, balance, session, jobs, filling, janitors, resets, mixed,
                   faults>>

\* ... and the balance that follows from them is saved; then the worker serves.
RepairSaves ==
    /\ worker = "repairing"
    /\ \A q \in Request : phase[q] # "wiping"
    /\ worker' = "running" /\ repair' = NoRow
    /\ SaveBalance(repair, repair.fills)
    /\ UNCHANGED <<ledger, session, jobs, filling, janitors, resets, faults>>
-----------------------------------------------------------------------------
Job(s) ==
    Send(s) \/ Take(s) \/ Claim(s) \/ LeaveClaimed(s) \/ Settle(s) \/ JobFails(s)

Book(r) == DropResult(r) \/ BookFailure(r) \/ BeginFill(r)

Reset(r) ==
    \/ Acquire(r) \/ List(r) \/ Wipe(r) \/ Commit(r) \/ Abort(r) \/ Purge(r)
    \/ Tell(r) \/ Unlock(r)

Next ==
    \/ \E p \in Pos : \/ Reserve(p) \/ FindReservation(p) \/ RejectExpired(p)
                      \/ BeginClose(p) \/ Collide(p) \/ JanitorReads(p) \/ JanitorSaves(p)
    \/ \E s \in Sig : Job(s) \/ PlacingJanitorFails(s)
    \/ \E r \in results : Book(r)
    \/ \E f \in filling : CommitFill(f)
    \/ \E r \in Request : Reset(r)
    \/ PlacingJanitorLoads \/ Expire \/ Stop \/ RepairReads \/ RepairSaves

Spec == Init /\ [][Next]_vars
-----------------------------------------------------------------------------
\* A position that was wiped or cancelled never holds shares again, whatever its
\* jobs, results and janitors still do: no execution of it is filled any more.
WipedHoldNothing ==
    [][\A p \in Pos : status[p] \in {"gone", "cancelled"} =>
          /\ status'[p] \in {"gone", "cancelled"}
          /\ \A s \in {Entry(p), Exit(p)} : exec'[s] = "filled" => exec[s] = "filled"
      ]_vars

\* The cash counts only fills whose execution was not wiped, unless a balance read
\* before the reset was saved after it.
CashOfSession == mixed \/ \A s \in balance.fills : exec[s] \in {"filled", "failed"}
=============================================================================
