------------------------ MODULE StrategyExitsProofs ------------------------
(***************************************************************************)
(* Proofs about StrategyExits, for any bounds, confirmation length and     *)
(* number of faults: the types, and that attempts are counted only for     *)
(* orders that failed.                                                     *)
(***************************************************************************)
EXTENDS StrategyExits, FiniteSetTheorems, TLAPS

\* The signal built for a row is a signal.
LEMMA CloseSignalType ==
    ASSUME NEW reason \in Reasons, NEW n \in Nat, NEW retry \in Nat
    PROVE  CloseSignal(reason, n, retry) \in Signal
BY DEF CloseSignal, Signal

\* What stands for the absence of a view, a result or a booking is none of them.
LEMMA AbsentParts ==
    /\ NoView.recent = "none" /\ NoSignal.reason = "none"
    /\ NoView \notin Views /\ NothingBooked \notin Bookings
BY DEF NoView, Views, NothingBooked, Bookings, NoSignal

\* A queue that grows by a signal, or loses one, is a queue.
LEMMA QueueParts ==
    ASSUME NEW q \in Seq(Signal)
    PROVE  /\ \A s \in Signal : Append(q, s) \in Seq(Signal) /\ <<s>> \o q \in Seq(Signal)
           /\ q # << >> => /\ q[Len(q)] \in Signal
                           /\ SubSeq(q, 1, Len(q) - 1) \in Seq(Signal)
           /\ \A k \in DOMAIN q :
                 SubSeq(q, 1, k - 1) \o SubSeq(q, k + 1, Len(q)) \in Seq(Signal)
<1>1. \A s \in Signal : Append(q, s) \in Seq(Signal) /\ <<s>> \o q \in Seq(Signal)
  OBVIOUS
<1>2. q # << >> => /\ q[Len(q)] \in Signal
                   /\ SubSeq(q, 1, Len(q) - 1) \in Seq(Signal)
  OBVIOUS
<1>3. ASSUME NEW k \in DOMAIN q
      PROVE  SubSeq(q, 1, k - 1) \o SubSeq(q, k + 1, Len(q)) \in Seq(Signal)
  <2>1. k \in 1..Len(q)
    OBVIOUS
  <2>2. SubSeq(q, 1, k - 1) \in Seq(Signal) /\ SubSeq(q, k + 1, Len(q)) \in Seq(Signal)
    BY <2>1
  <2> QED
    BY <2>2
<1> QED
  BY <1>1, <1>2, <1>3

\* Every step of the evaluator, the kill switch and the clock keeps the types.
LEMMA TypeOKEvaluates ==
    ASSUME TypeOK, MarketStays \/ CoolDown \/ KillSwitch \/ Evaluator
    PROVE  TypeOK'
<1> USE ParametersAssumption
<1>0. Exits \subseteq Reasons /\ "KILL_SWITCH" \in Reasons
  BY DEF Reasons
<1>1. CASE MarketStays
  BY <1>1 DEF MarketStays, TypeOK, RowTypeOK, WorkerTypeOK, row, executions,
     evaluator, executor, consumer
<1>2. CASE CoolDown
  <2>1. view' \in Views \cup {NoView}
    <3>1. CASE view = NoView
      BY <1>2, <3>1 DEF CoolDown
    <3>2. CASE view # NoView
      BY <1>2, <3>2 DEF CoolDown, TypeOK, WorkerTypeOK, Views
    <3> QED
      BY <3>1, <3>2
  <2> QED
    BY <1>2, <2>1 DEF CoolDown, TypeOK, RowTypeOK, WorkerTypeOK, executions,
       executor, consumer
<1>3. CASE KillSwitch
  <2>1. CloseSignal("KILL_SWITCH", seq + 1, 0) \in Signal
    BY <1>0, CloseSignalType DEF TypeOK, RowTypeOK
  <2>2. queue' \in Seq(Signal) /\ faults' \in Nat
    BY <1>3, <2>1, QueueParts DEF KillSwitch, Push, Fault, TypeOK, WorkerTypeOK
  <2> QED
    BY <1>3, <2>2 DEF KillSwitch, TypeOK, RowTypeOK, WorkerTypeOK, row,
       executions, evaluator, executor, consumer
<1>4. CASE Load
  <2>1. [seq |-> seq, failed |-> failed, recent |-> recent] \in Views
    BY DEF TypeOK, RowTypeOK, Views
  <2> QED
    BY <1>4, <2>1 DEF Load, TypeOK, RowTypeOK, WorkerTypeOK, row, executions,
       executor, consumer
<1>5. CASE SeesNoExit
  BY <1>5 DEF SeesNoExit, EvaluationEnds, TypeOK, RowTypeOK, WorkerTypeOK, row,
     executions, executor, consumer
<1>6. CASE AwaitsConfirmation
  BY <1>6 DEF AwaitsConfirmation, EvaluationEnds, TypeOK, RowTypeOK, WorkerTypeOK,
     row, executions, executor, consumer
<1>7. CASE HoldsBack
  BY <1>7 DEF HoldsBack, Finds, EvaluationEnds, TypeOK, RowTypeOK, WorkerTypeOK,
     row, executions, executor, consumer
<1>8. CASE Emit
  <2>1. PICK reason \in Exits :
          /\ Finds(reason)
          /\ \/ /\ Push(CloseSignal(reason, view.seq, 0))
                /\ emitted' = "yes" /\ UNCHANGED faults
             \/ Fault /\ UNCHANGED <<emitted, queue>>
    BY <1>8 DEF Emit
  <2>2. view \in Views
    BY <2>1 DEF Finds, TypeOK, WorkerTypeOK
  <2>3. CloseSignal(reason, view.seq, 0) \in Signal
    BY <1>0, <2>2, CloseSignalType DEF Views
  <2>4. queue' \in Seq(Signal) /\ faults' \in Nat /\ emitted' \in {"yes", "no"}
    <3>1. queue \in Seq(Signal) /\ faults \in Nat /\ emitted \in {"yes", "no"}
      BY DEF TypeOK, WorkerTypeOK
    <3>2. Append(queue, CloseSignal(reason, view.seq, 0)) \in Seq(Signal)
      BY <2>3, <3>1, QueueParts
    <3>3. CASE Push(CloseSignal(reason, view.seq, 0)) /\ emitted' = "yes"
                 /\ UNCHANGED faults
      <4>1. queue' = Append(queue, CloseSignal(reason, view.seq, 0))
        BY <3>3 DEF Push
      <4>2. faults' = faults /\ emitted' = "yes"
        BY <3>3
      <4> QED
        BY <3>1, <3>2, <4>1, <4>2
    <3>4. CASE Fault /\ UNCHANGED <<emitted, queue>>
      BY <3>1, <3>4 DEF Fault
    <3> QED
      BY <2>1, <3>3, <3>4
  <2> QED
    BY <2>1, <2>4 DEF Finds, EvaluationEnds, TypeOK, RowTypeOK, WorkerTypeOK, row,
       executions, executor, consumer
<1> QED
  BY <1>1, <1>2, <1>3, <1>4, <1>5, <1>6, <1>7, <1>8 DEF Evaluator

\* The executor works on a signal whenever it is not idle.
ExecutorHasJob == at # "idle" => job \in Signal

\* It begins with a signal of the queue, and goes on with it.
LEMMA ExecutorHasJobStep ==
    ASSUME TypeOK, ExecutorHasJob, [Next]_vars
    PROVE  ExecutorHasJob'
<1>1. CASE Take
  BY <1>1, QueueParts DEF Take, TypeOK, WorkerTypeOK, ExecutorHasJob
<1>2. CASE UNCHANGED <<job, at>>
  BY <1>2 DEF ExecutorHasJob
<1>3. CASE BeginClose
  BY <1>3 DEF BeginClose, Step, Drop, ExecutorHasJob
<1>4. CASE RefuseSmall \/ Claim
  BY <1>4 DEF RefuseSmall, Claim, Step, Drop, ExecutorHasJob
<1>5. CASE Place \/ Finish
  BY <1>5 DEF Place, Finish, ExecutorHasJob
<1>6. CASE Crash
  BY <1>6 DEF Crash, ExecutorHasJob
<1>7. CASE MarketStays \/ CoolDown \/ KillSwitch \/ Evaluator
  BY <1>7, <1>2 DEF MarketStays, CoolDown, KillSwitch, Evaluator, Load, SeesNoExit,
     AwaitsConfirmation, HoldsBack, Emit, Finds, EvaluationEnds, executor
<1>8. CASE ResultsConsumer \/ GiveUp \/ HandlingFails \/ LoseJob
  BY <1>8, <1>2 DEF ResultsConsumer, Book, Handled, GiveUp, HandlingFails, LoseJob,
     executor
<1>9. CASE UNCHANGED vars
  BY <1>9, <1>2 DEF vars, executor
<1> QED
  BY <1>1, <1>3, <1>4, <1>5, <1>6, <1>7, <1>8, <1>9 DEF Next, Executor

\* Every step of the executor keeps the types.
LEMMA TypeOKExecutes ==
    ASSUME TypeOK, ExecutorHasJob, Executor
    PROVE  TypeOK'
<1>1. CASE Take
  <2>1. job' \in Signal /\ queue' \in Seq(Signal)
    BY <1>1, QueueParts DEF Take, TypeOK, WorkerTypeOK
  <2> QED
    BY <1>1, <2>1 DEF Take, TypeOK, RowTypeOK, WorkerTypeOK, row, executions,
       evaluator, consumer
<1>2. CASE BeginClose
  <2>1. RowTypeOK'
    BY <1>2 DEF BeginClose, TypeOK, RowTypeOK, executions
  <2>2. /\ UNCHANGED <<due, evaluator, queue, consumer, faults>>
        /\ job' \in {job, NoSignal} /\ at' \in {"claim", "idle"}
    BY <1>2 DEF BeginClose, Step, Drop
  <2>3. WorkerTypeOK'
    BY <2>2 DEF TypeOK, WorkerTypeOK, evaluator, consumer
  <2> QED
    BY <2>1, <2>3 DEF TypeOK
<1>3. CASE RefuseSmall
  BY <1>3 DEF RefuseSmall, Step, Fault, TypeOK, RowTypeOK, WorkerTypeOK,
     executions, evaluator, consumer
<1>4. CASE Claim
  <2>1. RowTypeOK'
    BY <1>4 DEF Claim, Step, Drop, TypeOK, RowTypeOK, ExecutorHasJob, row
  <2>2. WorkerTypeOK'
    BY <1>4 DEF Claim, Step, Drop, TypeOK, WorkerTypeOK, evaluator, consumer
  <2> QED
    BY <2>1, <2>2 DEF TypeOK
<1>5. CASE Place
  <2>1. job \in Signal
    BY <1>5 DEF Place, ExecutorHasJob
  <2>2. \A o \in {"filled", "missed", "broken"} : [sig |-> job, outcome |-> o] \in Results
    BY <2>1 DEF Results
  <2>3. results' \subseteq Results /\ faults' \in Nat
    BY <1>5, <2>2 DEF Place, Fault, TypeOK, WorkerTypeOK
  <2> QED
    BY <1>5, <2>3 DEF Place, TypeOK, RowTypeOK, WorkerTypeOK, row, executions, evaluator
<1>6. CASE Finish
  BY <1>6 DEF Finish, TypeOK, RowTypeOK, WorkerTypeOK, row, executions, evaluator,
     consumer
<1> QED
  BY <1>1, <1>2, <1>3, <1>4, <1>5, <1>6 DEF Executor

\* The rows after a result is booked.
LEMMA RowTypeOKBooks ==
    ASSUME TypeOK, NEW r \in results, BookFailure(r) \/ BookFill(r) \/ BookNothing(r)
    PROVE  RowTypeOK'
<1>0. r.sig \in Signal
  BY DEF TypeOK, WorkerTypeOK, Results
<1>1. CASE BookFailure(r)
  BY <1>0, <1>1 DEF BookFailure, TypeOK, RowTypeOK
<1>2. CASE BookFill(r)
  BY <1>0, <1>2 DEF BookFill, TypeOK, RowTypeOK
<1>3. CASE BookNothing(r)
  BY <1>3 DEF BookNothing, TypeOK, RowTypeOK, row, executions
<1> QED
  BY <1>1, <1>2, <1>3

\* Every step of the results consumer and the watchdog, and every fault, keeps
\* the types.
LEMMA TypeOKSettles ==
    ASSUME TypeOK, ExecutorHasJob,
           ResultsConsumer \/ GiveUp \/ HandlingFails \/ LoseJob \/ Crash
    PROVE  TypeOK'
<1>1. ASSUME NEW r \in results, Book(r)
      PROVE  TypeOK'
  <2>1. RowTypeOK'
    BY <1>1, RowTypeOKBooks DEF Book
  <2>2. booked' \in Bookings
    BY <1>1, <2>1 DEF Book, RowTypeOK, Bookings, TypeOK, WorkerTypeOK
  <2>3. WorkerTypeOK'
    BY <1>1, <2>2 DEF Book, TypeOK, WorkerTypeOK, evaluator, executor
  <2> QED
    BY <2>1, <2>3 DEF TypeOK
<1>2. CASE Handled
  <2>1. queue' \in Seq(Signal)
    <3>1. CASE Retryable /\ Push(CloseSignal(booked.res.sig.reason, booked.seq,
                                             booked.res.sig.retry + 1))
      <4>1. booked \in Bookings
        BY <1>2 DEF Handled, TypeOK, WorkerTypeOK
      <4>2. booked.res \in Results
        BY <3>1, <4>1 DEF Retryable, Bookings, NoResult
      <4>3. /\ booked.seq \in Nat /\ booked.res.sig.reason \in Reasons
            /\ booked.res.sig.retry + 1 \in Nat
        BY <4>1, <4>2 DEF Bookings, Results, Signal
      <4> QED
        BY <3>1, <4>3, CloseSignalType, QueueParts DEF Push, TypeOK, WorkerTypeOK
    <3>2. CASE UNCHANGED queue
      BY <3>2 DEF TypeOK, WorkerTypeOK
    <3> QED
      BY <1>2, <3>1, <3>2 DEF Handled, Retry
  <2> QED
    BY <1>2, <2>1 DEF Handled, TypeOK, RowTypeOK, WorkerTypeOK, row, executions, executor
<1>3. CASE GiveUp
  BY <1>3 DEF GiveUp, TypeOK, RowTypeOK, WorkerTypeOK, evaluator, executor, consumer
<1>4. CASE HandlingFails
  BY <1>4 DEF HandlingFails, Fault, TypeOK, RowTypeOK, WorkerTypeOK, row,
     executions, evaluator, executor
<1>5. CASE LoseJob
  <2>1. queue \in Seq(Signal) /\ results \subseteq Results /\ faults \in Nat
    BY DEF TypeOK, WorkerTypeOK
  <2>2. queue' \in Seq(Signal)
    <3>1. CASE UNCHANGED queue
      BY <2>1, <3>1
    <3>2. ASSUME NEW k \in DOMAIN queue,
                 queue' = SubSeq(queue, 1, k - 1) \o SubSeq(queue, k + 1, Len(queue))
          PROVE  queue' \in Seq(Signal)
      BY <2>1, <3>2, QueueParts
    <3> QED
      BY <1>5, <3>1, <3>2 DEF LoseJob
  <2>3. results' \subseteq Results /\ faults' \in Nat
    BY <1>5, <2>1 DEF LoseJob, Fault
  <2> QED
    BY <1>5, <2>2, <2>3 DEF LoseJob, TypeOK, RowTypeOK, WorkerTypeOK, row, executions,
       evaluator, executor
<1>6. CASE Crash
  <2>1. queue' \in Seq(Signal)
    BY <1>6, QueueParts DEF Crash, TypeOK, WorkerTypeOK, ExecutorHasJob
  <2> QED
    BY <1>6, <2>1 DEF Crash, Fault, TypeOK, RowTypeOK, WorkerTypeOK, row, executions
<1> QED
  BY <1>1, <1>2, <1>3, <1>4, <1>5, <1>6 DEF ResultsConsumer

\* Every step keeps the types.
LEMMA TypeOKStep ==
    ASSUME TypeOK, ExecutorHasJob, [Next]_vars
    PROVE  TypeOK'
<1>1. CASE MarketStays \/ CoolDown \/ KillSwitch \/ Evaluator
  BY <1>1, TypeOKEvaluates
<1>2. CASE Executor
  BY <1>2, TypeOKExecutes
<1>3. CASE ResultsConsumer \/ GiveUp \/ HandlingFails \/ LoseJob \/ Crash
  BY <1>3, TypeOKSettles
<1>4. CASE UNCHANGED vars
  BY <1>4 DEF vars, row, executions, evaluator, executor, consumer, TypeOK,
     RowTypeOK, WorkerTypeOK
<1> QED
  BY <1>1, <1>2, <1>3, <1>4 DEF Next

\* The failures that are booked are finitely many, and as many as are counted;
\* the orders in flight are finitely many, so that giving them up keeps that.
Counted ==
    /\ IsFiniteSet(placing) /\ IsFiniteSet(dead)
    /\ failed <= Cardinality(dead)

\* Booking a result counts an attempt only with a failure that is new.
LEMMA CountedBooks ==
    ASSUME TypeOK, Counted, NEW r \in results,
           BookFailure(r) \/ BookFill(r) \/ BookNothing(r)
    PROVE  Counted'
<1>0. failed \in Nat /\ Cardinality(dead) \in Nat
  BY FS_CardinalityType DEF TypeOK, RowTypeOK, Counted
<1>1. IsFiniteSet(placing \ {r.sig})
  BY FS_RemoveElement DEF Counted
<1>2. CASE BookFailure(r)
  <2>1. /\ IsFiniteSet(dead \cup {r.sig})
        /\ Cardinality(dead \cup {r.sig}) = Cardinality(dead) + 1
    BY <1>2, FS_AddElement DEF BookFailure, Counted
  <2>2. failed' \in {failed, failed + 1}
    BY <1>2 DEF BookFailure
  <2>3. dead' = dead \cup {r.sig} /\ placing' = placing \ {r.sig}
    BY <1>2 DEF BookFailure
  <2>4. failed' <= Cardinality(dead) + 1
    BY <1>0, <2>2 DEF Counted
  <2> QED
    BY <1>1, <2>1, <2>3, <2>4 DEF Counted
<1>3. CASE BookFill(r)
  BY <1>0, <1>1, <1>3 DEF BookFill, Counted
<1>4. CASE BookNothing(r)
  BY <1>4 DEF BookNothing, Counted, row, executions
<1> QED
  BY <1>2, <1>3, <1>4

\* Every step counts no more attempts than failures.
LEMMA CountedStep ==
    ASSUME TypeOK, Counted, [Next]_vars
    PROVE  Counted'
<1>0. failed \in Nat /\ Cardinality(dead) \in Nat
  BY FS_CardinalityType DEF TypeOK, RowTypeOK, Counted
<1>1. CASE UNCHANGED <<failed, placing, dead>>
  BY <1>1 DEF Counted
<1>2. CASE Claim
  <2>1. /\ UNCHANGED <<failed, dead>>
        /\ placing' \in {placing, placing \cup {job}}
    BY <1>2 DEF Claim, row
  <2>2. IsFiniteSet(placing \cup {job})
    BY FS_AddElement DEF Counted
  <2> QED
    BY <2>1, <2>2 DEF Counted
<1>3. ASSUME NEW r \in results, Book(r)
      PROVE  Counted'
  BY <1>3, CountedBooks DEF Book
<1>4. CASE GiveUp
  <2>1. IsFiniteSet(dead \cup placing)
    BY FS_Union DEF Counted
  <2>2. Cardinality(dead) <= Cardinality(dead \cup placing)
    BY <2>1, FS_Subset
  <2>3. Cardinality(dead \cup placing) \in Nat
    BY <2>1, FS_CardinalityType
  <2>4. failed <= Cardinality(dead \cup placing)
    BY <1>0, <2>2, <2>3 DEF Counted
  <2>5. placing' = {} /\ dead' = dead \cup placing /\ failed' = failed
    BY <1>4 DEF GiveUp
  <2> QED
    BY <2>1, <2>4, <2>5, FS_EmptySet DEF Counted
<1>5. CASE MarketStays \/ CoolDown \/ KillSwitch \/ Evaluator
  BY <1>5, <1>1 DEF MarketStays, CoolDown, KillSwitch, Evaluator, Load, SeesNoExit,
     AwaitsConfirmation, HoldsBack, Emit, Finds, EvaluationEnds, row, executions
<1>6. CASE Take \/ BeginClose \/ RefuseSmall \/ Place \/ Finish
  BY <1>6, <1>1 DEF Take, BeginClose, RefuseSmall, Place, Finish, row, executions
<1>7. CASE Handled \/ HandlingFails \/ LoseJob \/ Crash
  BY <1>7, <1>1 DEF Handled, HandlingFails, LoseJob, Crash, row, executions
<1>8. CASE UNCHANGED vars
  BY <1>8, <1>1 DEF vars, row, executions
<1> QED
  BY <1>2, <1>3, <1>4, <1>5, <1>6, <1>7, <1>8 DEF Next, Executor, ResultsConsumer

\* The inductive invariant of the exits of a position.
IInv == TypeOK /\ ExecutorHasJob /\ Counted

\* It holds of every behaviour, whatever fails, is lost or is delivered twice.
THEOREM ExitsInvariantHolds == Spec => []IInv
<1>1. Init => IInv
  <2> SUFFICES ASSUME Init PROVE IInv
    OBVIOUS
  <2>1. TypeOK /\ ExecutorHasJob
    BY DEF Init, TypeOK, RowTypeOK, WorkerTypeOK, ExecutorHasJob
  <2>2. Counted
    BY FS_EmptySet DEF Init, Counted
  <2> QED
    BY <2>1, <2>2 DEF IInv
<1>2. IInv /\ [Next]_vars => IInv'
  BY TypeOKStep, ExecutorHasJobStep, CountedStep DEF IInv
<1> QED
  BY <1>1, <1>2, PTL DEF Spec

\* A position is never parked for attempts that no order of its own failed
\* (AttemptsAreReal of StrategyExits: forced_exit_failed_attempts is
\* incremented by finalizeWithLock() only).
THEOREM AttemptsCountFailures == Spec => []AttemptsAreReal
<1>1. IInv => AttemptsAreReal
  BY DEF IInv, Counted, AttemptsAreReal
<1> QED
  BY <1>1, ExitsInvariantHolds, PTL
=============================================================================
