------------------------ MODULE BacktestRunsProofs -------------------------
(***************************************************************************)
(* Proofs about BacktestRuns, for any runs, users and number of faults:    *)
(* one replay for each user, and that a cancelled run stays cancelled.     *)
(***************************************************************************)
EXTENDS BacktestRuns, TLAPS

\* The row of a run agrees with where its job and its requests are: a job that
\* works has an active row, one about to write "failed" has not read
\* "cancelled", and only ended runs are deleted.
RowAgrees(r) ==
    /\ job[r] = "create" => status[r] = "none"
    /\ job[r] \in Working => status[r] \in Active
    /\ job[r] = "fail" => status[r] # "cancelled"
    /\ r \in deleting => status[r] \in Ended \cup {"deleted"}

\* What the unique index keeps.
OneActiveRow ==
    \A r, q \in Run :
        r # q /\ UserOf[r] = UserOf[q] => ~(status[r] \in Active /\ status[q] \in Active)

\* No job outlives its process.
StoppedIsIdle == backend = "down" => \A r \in Run : job[r] = "none"

IInv == TypeOK /\ (\A r \in Run : RowAgrees(r)) /\ OneActiveRow /\ StoppedIsIdle

\* The steps of the job and the requests of one run keep the types.
LEMMA TypeOKRunStep ==
    ASSUME TypeOK, NEW r \in Run, RunStep(r)
    PROVE  TypeOK'
<1> USE ParametersAssumption DEF TypeOK, tracker, requests, Fault, Active, Ended, Working
<1>1. CASE Check(r) \/ Create(r) \/ CreateFails(r) \/ Track(r)
  BY <1>1 DEF Check, Create, CreateFails, Track
<1>2. CASE Start(r) \/ Flush(r) \/ ReadRow(r) \/ Mark(r)
  BY <1>2 DEF Start, Flush, ReadRow, Mark, Steps, Update
<1>3. CASE Replay(r)
  BY <1>3 DEF Replay, Steps, AbortReason
<1>4. CASE ReadFailing(r) \/ Fail(r) \/ Release(r) \/ Breaks(r)
  BY <1>4 DEF ReadFailing, Fail, Release, Breaks, Update, Forget
<1>5. CASE TimeOut(r) \/ CancelRequest(r) \/ Cancel(r)
  BY <1>5 DEF TimeOut, CancelRequest, Cancel
<1>6. CASE DeleteRequest(r) \/ Delete(r)
  BY <1>6 DEF DeleteRequest, Delete, Forget
<1> QED
  BY <1>1, <1>2, <1>3, <1>4, <1>5, <1>6 DEF RunStep, JobStep

\* Shutdowns, stops and restarts keep them.
LEMMA TypeOKBackendStep ==
    ASSUME TypeOK, ShutDown \/ Exit \/ Crash \/ Restart \/ UNCHANGED vars
    PROVE  TypeOK'
<1> USE ParametersAssumption DEF TypeOK, tracker, requests, Fault, Active, Ended, Working
<1>1. CASE ShutDown
  BY <1>1 DEF ShutDown
<1>2. CASE Exit \/ Crash
  BY <1>2 DEF Exit, Crash, Stops
<1>3. CASE Restart
  BY <1>3 DEF Restart
<1>4. CASE UNCHANGED vars
  BY <1>4 DEF vars
<1> QED
  BY <1>1, <1>2, <1>3, <1>4

\* A step of one run touches no other.
LEMMA OthersStay ==
    ASSUME TypeOK, NEW r \in Run, RunStep(r), NEW q \in Run, q # r
    PROVE  /\ status'[q] = status[q] /\ job'[q] = job[q]
           /\ q \in deleting' <=> q \in deleting
<1> USE DEF TypeOK, requests
<1>1. CASE Check(r) \/ Create(r) \/ CreateFails(r) \/ Track(r)
  BY <1>1 DEF Check, Create, CreateFails, Track
<1>2. CASE Start(r) \/ Replay(r) \/ Flush(r) \/ ReadRow(r) \/ Mark(r)
  BY <1>2 DEF Start, Replay, Flush, ReadRow, Mark, Steps, Update
<1>3. CASE ReadFailing(r) \/ Fail(r) \/ Release(r) \/ Breaks(r)
  BY <1>3 DEF ReadFailing, Fail, Release, Breaks, Update
<1>4. CASE TimeOut(r) \/ CancelRequest(r) \/ Cancel(r) \/ DeleteRequest(r) \/ Delete(r)
  BY <1>4 DEF TimeOut, CancelRequest, Cancel, DeleteRequest, Delete
<1> QED
  BY <1>1, <1>2, <1>3, <1>4 DEF RunStep, JobStep

\* It is a step of a process that runs on.
LEMMA RunsOn ==
    ASSUME NEW r \in Run, RunStep(r)
    PROVE  backend # "down" /\ backend' = backend
BY DEF RunStep, JobStep, Check, Create, CreateFails, Track, Start, Replay, Flush, ReadRow,
   Mark, ReadFailing, Fail, Release, Breaks, TimeOut, CancelRequest, Cancel, DeleteRequest,
   Delete, Steps, Up

\* Its own row still agrees, and becomes active only when no other of the user
\* is.
LEMMA OwnRowAgrees ==
    ASSUME TypeOK, NEW r \in Run, RowAgrees(r), RunStep(r)
    PROVE  /\ RowAgrees(r)'
           /\ status'[r] \in Active => status[r] \in Active \/ ~HasActive(UserOf[r])
<1> USE DEF TypeOK, RowAgrees, requests, Active, Ended, Working
<1>1. CASE Check(r) \/ Create(r) \/ CreateFails(r) \/ Track(r)
  BY <1>1 DEF Check, Create, CreateFails, Track
<1>2. CASE Start(r) \/ Mark(r)
  BY <1>2 DEF Start, Mark, Steps, Update
<1>3. CASE Replay(r) \/ Flush(r) \/ ReadRow(r)
  BY <1>3 DEF Replay, Flush, ReadRow, Steps
<1>4. CASE ReadFailing(r) \/ Release(r) \/ Breaks(r)
  BY <1>4 DEF ReadFailing, Release, Breaks
<1>5. CASE Fail(r)
  BY <1>5 DEF Fail, Update
<1>6. CASE TimeOut(r) \/ CancelRequest(r) \/ Cancel(r)
  BY <1>6 DEF TimeOut, CancelRequest, Cancel
<1>7. CASE DeleteRequest(r) \/ Delete(r)
  BY <1>7 DEF DeleteRequest, Delete
<1> QED
  BY <1>1, <1>2, <1>3, <1>4, <1>5, <1>6, <1>7 DEF RunStep, JobStep

\* A step of one run keeps the invariant.
LEMMA RunStepKeeps ==
    ASSUME IInv, NEW r \in Run, RunStep(r)
    PROVE  IInv'
<1>1. TypeOK'
  BY TypeOKRunStep DEF IInv
<1>2. ASSUME NEW q \in Run
      PROVE  RowAgrees(q)'
  <2>1. CASE q = r
    BY <2>1, OwnRowAgrees DEF IInv
  <2>2. CASE q # r
    BY <2>2, OthersStay DEF IInv, RowAgrees
  <2> QED
    BY <2>1, <2>2
<1>3. ASSUME NEW p \in Run, NEW q \in Run, p # q, UserOf[p] = UserOf[q],
             status'[p] \in Active, status'[q] \in Active
      PROVE  FALSE
  <2>1. CASE p # r /\ q # r
    BY <1>3, <2>1, OthersStay DEF IInv, OneActiveRow
  <2>2. CASE p = r
    <3>1. status'[q] = status[q]
      BY <1>3, <2>2, OthersStay DEF IInv
    <3>2. status[r] \in Active \/ ~HasActive(UserOf[r])
      BY <1>3, <2>2, OwnRowAgrees DEF IInv
    <3> QED
      BY <1>3, <2>2, <3>1, <3>2 DEF IInv, OneActiveRow, HasActive
  <2>3. CASE q = r
    <3>1. status'[p] = status[p]
      BY <1>3, <2>3, OthersStay DEF IInv
    <3>2. status[r] \in Active \/ ~HasActive(UserOf[r])
      BY <1>3, <2>3, OwnRowAgrees DEF IInv
    <3> QED
      BY <1>3, <2>3, <3>1, <3>2 DEF IInv, OneActiveRow, HasActive
  <2> QED
    BY <2>1, <2>2, <2>3
<1>4. StoppedIsIdle'
  BY RunsOn DEF StoppedIsIdle
<1> QED
  BY <1>1, <1>2, <1>3, <1>4 DEF IInv, OneActiveRow

\* So does a stop of the backend and its next boot.
LEMMA BackendStepKeeps ==
    ASSUME IInv, ShutDown \/ Exit \/ Crash \/ Restart \/ UNCHANGED vars
    PROVE  IInv'
<1>1. TypeOK'
  BY TypeOKBackendStep DEF IInv
<1>2. \A r \in Run : status'[r] \in {status[r], "failed"}
  BY DEF IInv, TypeOK, ShutDown, Exit, Crash, Stops, Restart, vars
<1>3. OneActiveRow'
  BY <1>2 DEF IInv, OneActiveRow, Active
<1>4. ASSUME NEW r \in Run
      PROVE  RowAgrees(r)'
  <2> USE DEF IInv, TypeOK, RowAgrees, Working, Active, Ended
  <2>1. CASE ShutDown
    BY <2>1 DEF ShutDown, requests
  <2>2. CASE Exit \/ Crash
    BY <2>2 DEF Exit, Crash, Stops
  <2>3. CASE Restart
    BY <2>3 DEF Restart, requests, StoppedIsIdle
  <2>4. CASE UNCHANGED vars
    BY <2>4 DEF vars, requests
  <2> QED
    BY <2>1, <2>2, <2>3, <2>4
<1>5. StoppedIsIdle'
  BY DEF IInv, TypeOK, StoppedIsIdle, ShutDown, Exit, Crash, Stops, Restart, vars
<1> QED
  BY <1>1, <1>3, <1>4, <1>5 DEF IInv

\* The invariant of backtest runs, whatever fails and wherever the backend
\* stops.
THEOREM RunsInvariantHolds == Spec => []IInv
<1>1. Init => IInv
  BY ParametersAssumption DEF Init, IInv, TypeOK, RowAgrees, OneActiveRow, StoppedIsIdle, Active, Ended, Working
<1>2. IInv /\ [Next]_vars => IInv'
  BY RunStepKeeps, BackendStepKeeps DEF Next
<1> QED
  BY <1>1, <1>2, PTL DEF Spec

\* A user has one replay at a time, for every set of runs and users and however
\* the requests race (POST /runs and the index backtest_run_active_unique).
THEOREM OneReplayAtATime == Spec => []OneReplayPerUser
<1>1. IInv => OneReplayPerUser
  BY DEF IInv, RowAgrees, OneActiveRow, OneReplayPerUser
<1> QED
  BY <1>1, RunsInvariantHolds, PTL

\* A cancelled run is never turned into another outcome (markFailed(),
\* markCompleted() and the recovery at boot).
THEOREM CancelledStaysCancelled == Spec => CancelledIsFinal
<1> DEFINE Kept == \A r \in Run :
               status[r] = "cancelled" => status'[r] \in {"cancelled", "deleted"}
<1>1. ASSUME IInv, [Next]_vars
      PROVE  Kept
  <2>1. ASSUME NEW r \in Run, RunStep(r)
        PROVE  Kept
    <3>1. \A q \in Run \ {r} : status'[q] = status[q]
      BY <2>1, <1>1, OthersStay DEF IInv
    <3>2. ASSUME status[r] = "cancelled"
          PROVE  status'[r] \in {"cancelled", "deleted"}
      <4> USE <1>1, <3>2 DEF IInv, TypeOK, RowAgrees, Active, Working
      <4>1. job[r] \notin Working \cup {"create", "fail"}
        OBVIOUS
      <4>2. CASE CreateFails(r) \/ Create(r) \/ Start(r) \/ Mark(r) \/ Fail(r)
        BY <4>1, <4>2 DEF CreateFails, Create, Start, Mark, Fail, Steps
      <4>3. CASE Delete(r)
        BY <4>3 DEF Delete
      <4>4. CASE UNCHANGED status
        BY <4>4
      <4> QED
        BY <2>1, <4>2, <4>3, <4>4 DEF RunStep, JobStep, Check, Track, Replay, Flush,
           ReadRow, ReadFailing, Release, Breaks, TimeOut, CancelRequest, Cancel,
           DeleteRequest
    <3> QED
      BY <3>1, <3>2
  <2>2. CASE ShutDown \/ Exit \/ Crash \/ Restart \/ UNCHANGED vars
    BY <2>2, <1>1 DEF IInv, TypeOK, Active, ShutDown, Exit, Crash, Stops, Restart, vars
  <2> QED
    BY <1>1, <2>1, <2>2 DEF Next
<1>2. IInv /\ [Next]_vars => [Kept]_vars
  BY <1>1
<1> QED
  BY <1>2, RunsInvariantHolds, PTL DEF Spec, CancelledIsFinal
=============================================================================
