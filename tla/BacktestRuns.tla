--------------------------- MODULE BacktestRuns ----------------------------
(***************************************************************************)
(* The life of backtest runs: the routes that launch, cancel and delete     *)
(* them, the job that replays one inside the backend, and what a stop of   *)
(* the backend leaves behind                                               *)
(* (src/packages/core/src/services/backtest-run.service.ts,                *)
(* src/packages/backend/src/routes/backtest.ts,                            *)
(* src/packages/backend/src/routes/lib/backtest-run-tracker.ts,            *)
(* src/packages/backtest/src/engine/runner.ts).                            *)
(*                                                                         *)
(* A request to launch a run is named by the run it may insert.  Each      *)
(* await on the database is a step of its own.                             *)
(*                                                                         *)
(* Abstractions.                                                           *)
(*  - All runs are of one domain, and each belongs to a user.              *)
(*  - What is replayed, and the positions, equity points and statistics    *)
(*    that are stored, are left out: storing them is a step that may fail. *)
(*  - A call of the database that fails may have taken effect.             *)
(***************************************************************************)
EXTENDS Naturals

CONSTANTS
    Run,        \* the runs that may be asked for
    UserOf,     \* whose they are
    MaxFaults   \* bound on crashes, shutdowns and failing calls

ASSUME ParametersAssumption == MaxFaults \in Nat

Active == {"queued", "running"}
Ended == {"completed", "failed", "cancelled"}

\* From the insertion of a run to the write of its outcome.
Working == {"track", "start", "replay", "flush", "read", "mark"}

VARIABLES
    backend,    \* serving, closing (a signal was received) or down
    status,     \* backtest_runs.status; "none" before the insertion
    job,        \* where the request, and then the job of a run, is
    outcome,    \* how the job has decided to end
    tracked,    \* activeRuns of the tracker, ...
    cancelled,  \* ... those asked to stop
    late,       \* ... and those whose time is over
    cancelling, \* cancel requests that have read the run as active
    deleting,   \* delete requests that have read the run as ended
    faults

tracker == <<tracked, cancelled, late>>
requests == <<cancelling, deleting>>
vars == <<backend, status, job, outcome, tracker, requests, faults>>

TypeOK ==
    /\ backend \in {"serving", "closing", "down"}
    /\ status \in [Run -> {"none", "deleted"} \cup Active \cup Ended]
    /\ job \in [Run -> {"none", "create", "failing", "fail", "release"} \cup Working]
    /\ outcome \in [Run -> Ended]
    /\ tracked \subseteq Run /\ cancelled \subseteq tracked /\ late \subseteq tracked
    /\ cancelling \subseteq Run /\ deleting \subseteq Run
    /\ faults \in Nat

Init ==
    /\ backend = "serving"
    /\ status = [r \in Run |-> "none"] /\ job = [r \in Run |-> "none"]
    /\ outcome = [r \in Run |-> "failed"]
    /\ tracked = {} /\ cancelled = {} /\ late = {}
    /\ cancelling = {} /\ deleting = {}
    /\ faults = 0

Fault == faults < MaxFaults /\ faults' = faults + 1

Up == backend # "down"

\* hasActiveRun()
HasActive(u) == \E r \in Run : UserOf[r] = u /\ status[r] \in Active
-----------------------------------------------------------------------------
\* POST /runs looks for an active run of the user, ...
Check(r) ==
    /\ Up /\ job[r] = "none" /\ status[r] = "none"
    /\ ~HasActive(UserOf[r])
    /\ job' = [job EXCEPT ![r] = "create"]
    /\ UNCHANGED <<backend, status, outcome, tracker, requests, faults>>

\* ... reads the configuration and inserts; the unique index on the active runs
\* of a user refuses a second one.  (Faulty variant: no index.)
CreateUnindexed(r) ==
    /\ Up /\ job[r] = "create"
    /\ status' = [status EXCEPT ![r] = "queued"]
    /\ job' = [job EXCEPT ![r] = "track"]
    /\ UNCHANGED <<backend, outcome, tracker, requests, faults>>

Create(r) ==
    /\ Up /\ job[r] = "create"
    /\ \/ /\ ~HasActive(UserOf[r])
          /\ status' = [status EXCEPT ![r] = "queued"]
          /\ job' = [job EXCEPT ![r] = "track"]
       \/ /\ HasActive(UserOf[r])
          /\ job' = [job EXCEPT ![r] = "none"]
          /\ UNCHANGED status
    /\ UNCHANGED <<backend, outcome, tracker, requests, faults>>

\* The request fails, perhaps after the insertion: then no job will run it.
CreateFails(r) ==
    /\ Up /\ job[r] = "create" /\ Fault
    /\ \/ UNCHANGED status
       \/ /\ ~HasActive(UserOf[r])
          /\ status' = [status EXCEPT ![r] = "queued"]
    /\ job' = [job EXCEPT ![r] = "none"]
    /\ UNCHANGED <<backend, outcome, tracker, requests>>

\* tracker.track(), when the answer to the insertion has arrived
Track(r) ==
    /\ Up /\ job[r] = "track"
    /\ tracked' = tracked \cup {r}
    /\ job' = [job EXCEPT ![r] = "start"]
    /\ UNCHANGED <<backend, status, outcome, cancelled, late, requests, faults>>
-----------------------------------------------------------------------------
\* A step of the job: on, or, when its last call failed, to the catch clause.
Steps(r, from, to) ==
    /\ Up /\ job[r] = from
    /\ \/ job' = [job EXCEPT ![r] = to] /\ UNCHANGED faults
       \/ job' = [job EXCEPT ![r] = "failing"] /\ Fault

\* An UPDATE of the row, if it is still there.
Update(r, s) ==
    status' = [status EXCEPT ![r] = IF @ = "deleted" THEN @ ELSE s]

\* markStarted()
Start(r) ==
    /\ Steps(r, "start", "replay")
    /\ Update(r, "running")
    /\ UNCHANGED <<backend, outcome, tracker, requests>>

\* getAbortReason()
Aborted(r) == r \in cancelled \cup late

AbortReason(r) == IF r \in late THEN "failed" ELSE "cancelled"

\* The loop over the events, with the last look at the tracker when they are
\* exhausted.  (Faulty variant: without that look.)
ReplayUnlooked(r) ==
    /\ Steps(r, "replay", "flush")
    /\ \/ Aborted(r) /\ outcome' = [outcome EXCEPT ![r] = AbortReason(r)]
       \/ outcome' = [outcome EXCEPT ![r] = "completed"]
    /\ UNCHANGED <<backend, status, tracker, requests>>

Replay(r) ==
    /\ Steps(r, "replay", "flush")
    /\ \/ Aborted(r) /\ outcome' = [outcome EXCEPT ![r] = AbortReason(r)]
       \/ ~Aborted(r) /\ outcome' = [outcome EXCEPT ![r] = "completed"]
    /\ UNCHANGED <<backend, status, tracker, requests>>

\* finishRun(): progress, equity points, positions and excluded ticks, ...
Flush(r) ==
    /\ Steps(r, "flush", "read")
    /\ UNCHANGED <<backend, status, outcome, tracker, requests>>

\* ... then the read of markCompleted(), markCancelled() or markFailed(), ...
Refused(r) ==
    \/ status[r] = "deleted"
    \/ status[r] = "cancelled" /\ outcome[r] \in {"completed", "failed"}
    \/ status[r] = "failed" /\ outcome[r] \in {"completed", "cancelled"}

ReadRow(r) ==
    /\ Steps(r, "read", IF Refused(r) THEN "release" ELSE "mark")
    /\ UNCHANGED <<backend, status, outcome, tracker, requests>>

\* ... and its write.
Mark(r) ==
    /\ Steps(r, "mark", "release")
    /\ Update(r, outcome[r])
    /\ UNCHANGED <<backend, outcome, tracker, requests>>

\* A call that failed without effect.
Breaks(r) ==
    /\ Up /\ job[r] \in {"start", "mark"} /\ Fault
    /\ job' = [job EXCEPT ![r] = "failing"]
    /\ UNCHANGED <<backend, status, outcome, tracker, requests>>

\* The catch clause: markFailed() reads, ...  (Faulty variant: no look at the
\* status read.)
ReadFailingBlindly(r) ==
    /\ Up /\ job[r] = "failing"
    /\ job' = [job EXCEPT ![r] = "fail"]
    /\ UNCHANGED <<backend, status, outcome, tracker, requests, faults>>

ReadFailing(r) ==
    /\ Up /\ job[r] = "failing"
    /\ job' = [job EXCEPT ![r] =
                   IF status[r] \in {"deleted", "cancelled"} THEN "release" ELSE "fail"]
    /\ UNCHANGED <<backend, status, outcome, tracker, requests, faults>>

\* ... and writes.  A failure here is nobody's: the process ends (Crash).
Fail(r) ==
    /\ Up /\ job[r] = "fail"
    /\ Update(r, "failed")
    /\ job' = [job EXCEPT ![r] = "release"]
    /\ UNCHANGED <<backend, outcome, tracker, requests, faults>>

\* tracker.release()
Forget(r) ==
    /\ tracked' = tracked \ {r}
    /\ cancelled' = cancelled \ {r} /\ late' = late \ {r}

Release(r) ==
    /\ Up /\ job[r] = "release"
    /\ Forget(r)
    /\ job' = [job EXCEPT ![r] = "none"]
    /\ UNCHANGED <<backend, status, outcome, requests, faults>>

\* BACKTEST_TIMEOUT_MS have passed; a shutdown clears the timers.
TimeOut(r) ==
    /\ backend = "serving" /\ r \in tracked
    /\ late' = late \cup {r}
    /\ UNCHANGED <<backend, status, job, outcome, tracked, cancelled, requests, faults>>
-----------------------------------------------------------------------------
\* POST /runs/:id/cancel reads the run, and flags the job it knows of.
CancelRequest(r) ==
    /\ Up /\ status[r] \in Active
    /\ cancelling' = cancelling \cup {r}
    /\ UNCHANGED <<backend, status, job, outcome, tracker, deleting, faults>>

Cancel(r) ==
    /\ Up /\ r \in cancelling
    /\ cancelling' = cancelling \ {r}
    /\ cancelled' = cancelled \cup ({r} \cap tracked)
    /\ UNCHANGED <<backend, status, job, outcome, tracked, late, deleting, faults>>

\* DELETE /runs/:id refuses active runs.
DeleteRequest(r) ==
    /\ Up /\ status[r] \in Ended
    /\ deleting' = deleting \cup {r}
    /\ UNCHANGED <<backend, status, job, outcome, tracker, cancelling, faults>>

Delete(r) ==
    /\ Up /\ r \in deleting
    /\ deleting' = deleting \ {r}
    /\ status' = [status EXCEPT ![r] = "deleted"]
    /\ Forget(r)
    /\ UNCHANGED <<backend, job, outcome, cancelling, faults>>
-----------------------------------------------------------------------------
\* SIGTERM: cancelAllActiveBacktestRuns(), while requests are still served ...
ShutDown ==
    /\ backend = "serving" /\ Fault
    /\ backend' = "closing" /\ cancelled' = tracked
    /\ UNCHANGED <<status, job, outcome, tracked, late, requests>>

Stops ==
    /\ backend' = "down"
    /\ job' = [r \in Run |-> "none"]
    /\ tracked' = {} /\ cancelled' = {} /\ late' = {}
    /\ cancelling' = {} /\ deleting' = {}
    /\ UNCHANGED <<status, outcome>>

\* ... until the process exits.
Exit == backend = "closing" /\ Stops /\ UNCHANGED faults

Crash == Up /\ Fault /\ Stops

\* The boot: recoverOrphanedBacktestRuns().  (Faulty variant: only those that
\* had not started.)
RestartQueuedOnly ==
    /\ backend = "down" /\ backend' = "serving"
    /\ status' = [r \in Run |-> IF status[r] = "queued" THEN "failed" ELSE status[r]]
    /\ UNCHANGED <<job, outcome, tracker, requests, faults>>

Restart ==
    /\ backend = "down" /\ backend' = "serving"
    /\ status' = [r \in Run |-> IF status[r] \in Active THEN "failed" ELSE status[r]]
    /\ UNCHANGED <<job, outcome, tracker, requests, faults>>
-----------------------------------------------------------------------------
JobStep(r) ==
    \/ Track(r) \/ Start(r) \/ Replay(r) \/ Flush(r) \/ ReadRow(r) \/ Mark(r)
    \/ ReadFailing(r) \/ Fail(r) \/ Release(r)

RunStep(r) ==
    \/ Check(r) \/ Create(r) \/ CreateFails(r)
    \/ JobStep(r) \/ Breaks(r) \/ TimeOut(r)
    \/ CancelRequest(r) \/ Cancel(r) \/ DeleteRequest(r) \/ Delete(r)

Next == (\E r \in Run : RunStep(r)) \/ ShutDown \/ Exit \/ Crash \/ Restart

Spec == Init /\ [][Next]_vars

\* A job goes on while its process lives: its events are finitely many and the
\* database answers.  A process told to stop exits, and the container that has
\* stopped is started again (restart: unless-stopped).
Fairness ==
    /\ \A r \in Run : WF_vars(JobStep(r))
    /\ WF_vars(Exit) /\ WF_vars(Restart)

FairSpec == Spec /\ Fairness
-----------------------------------------------------------------------------
\* However its requests race, and whatever failed before, a user has at most
\* one run that is being replayed or whose results are being stored.
OneReplayPerUser ==
    \A r, q \in Run :
        r # q /\ UserOf[r] = UserOf[q] => ~(job[r] \in Working /\ job[q] \in Working)

\* A run that was ended as cancelled, with the results it had, is not turned
\* into a failed or completed one by a job, a retry or a restart that comes
\* later.
CancelledIsFinal ==
    [][\A r \in Run :
         status[r] = "cancelled" => status'[r] \in {"cancelled", "deleted"}]_vars

\* A cancellation that reaches a run while it is replayed, even during its last
\* event, is honoured: the run ends cancelled, or failed when something else
\* stopped it first.
CancelsEnd ==
    \A r \in Run :
        (r \in cancelled /\ job[r] = "replay") ~> status[r] \in {"cancelled", "failed"}

\* A run that a job has taken up does not stay active, whatever fails and
\* wherever the backend stops: its user is not locked out.
RunsEnd == \A r \in Run : job[r] \in Working ~> status[r] \notin Active
=============================================================================
