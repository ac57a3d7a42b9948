------------------------- MODULE CopyPollingProofs --------------------------
(***************************************************************************)
(* Proofs about CopyPolling, for any assets, modes, portfolios and bounds. *)
(* Moves are recorded under the next sequence number, and every asset of a *)
(* recorded move, of a move on its way and of a copied position has its    *)
(* row: that is what the properties of a cycle rest on.                    *)
(***************************************************************************)
EXTENDS CopyPolling, FiniteSetTheorems, SequenceTheorems, TLAPS

\* No move has a sequence number of a cycle that is not recorded.
SeqIsLatest == \A m \in recorded : m.seq <= seq

\* What has been a move, or is copied, has a row.
RowsKnown ==
    /\ \A m \in recorded : rows[m.asset] # Absent
    /\ \A x \in Asset \X Mode : held[x].status # "none" => rows[x[1]] # Absent

\* A report tells the truth of the assets it lists, and leaves out what is held
\* only when it is cut off.
ReportIsTrue ==
    poll # NoReport =>
        \A a \in Asset :
            IF poll.size[a] = Absent
            THEN poll.truncated \/ poll.truth[a] = 0
            ELSE poll.size[a] = poll.truth[a]

PollInv ==
    /\ TypeOK /\ IsFiniteSet(recorded)
    /\ SeqIsLatest /\ RowsKnown /\ ReportIsTrue

\* The new moves are moves of this cycle, on assets of the trader, that start
\* at the row and end at the report.
LEMMA NewMovesShape ==
    ASSUME TypeOK, poll # NoReport, NEW m \in NewMoves
    PROVE  /\ m \in Move
           /\ m.seq = seq + 1
           /\ m.from = NonNegative(rows[m.asset])
           /\ m.to = NonNegative(poll.size[m.asset])
           /\ Detects(m.asset, m.type)
<1>1. PICK a \in Asset, type \in Types :
          m = MoveOf(a, type) /\ Detects(a, type)
  BY DEF NewMoves
<1>2. /\ rows[a] \in Nat \cup {Absent}
      /\ poll.size[a] \in Nat \cup {Absent}
  BY DEF TypeOK, Report
<1>3. NonNegative(rows[a]) \in Nat /\ NonNegative(poll.size[a]) \in Nat
  BY <1>2 DEF NonNegative
<1> QED
  BY <1>1, <1>3 DEF MoveOf, Move, TypeOK

\* A cycle records finitely many moves.
LEMMA NewMovesFinite == IsFiniteSet(NewMoves)
<1> DEFINE D == {y \in Asset \X Types : /\ Detects(y[1], y[2])
                                        /\ y[2] = "OPENED" \/ Copied(y[1])}
           f == [x \in D |-> MoveOf(x[1], x[2])]
<1>1. IsFiniteSet(Types)
  <2>1. IsFiniteSet({"OPENED"} \cup {"INCREASED"})
    BY FS_Singleton, FS_AddElement
  <2>2. IsFiniteSet(({"OPENED"} \cup {"INCREASED"}) \cup {"DECREASED"})
    BY <2>1, FS_AddElement
  <2>3. IsFiniteSet((({"OPENED"} \cup {"INCREASED"}) \cup {"DECREASED"})
                        \cup {"CLOSED"})
    BY <2>2, FS_AddElement
  <2> QED
    BY <2>3, Zenon DEF Types
<1>2. IsFiniteSet(D)
  BY <1>1, AssetAssumption, FS_Product, FS_Subset
<1>3. f \in Surjection(D, NewMoves)
  BY DEF Surjection, NewMoves
<1> QED
  BY <1>2, <1>3, FS_Surjection

\* A list of finitely many moves is a sequence.
LEMMA ListingIsSeq ==
    ASSUME NEW S, IsFiniteSet(S), NEW s \in Listings(S)
    PROVE  s \in Seq(S)
BY FS_CardinalityType DEF Listings

LEMMA SeqGrows ==
    ASSUME NEW S, NEW T, S \subseteq T, NEW s \in Seq(S)
    PROVE  s \in Seq(T)
OBVIOUS

LEMMA InitPoll == Init => PollInv
<1> SUFFICES ASSUME Init  PROVE PollInv
  OBVIOUS
<1> USE DEF Init
<1>1. TypeOK
  BY DEF TypeOK, Position, Statuses, At
<1>2. IsFiniteSet(recorded)
  BY FS_EmptySet
<1> QED
  BY <1>1, <1>2 DEF PollInv, SeqIsLatest, RowsKnown, ReportIsTrue, At

\* Where no cycle writes, only a position that becomes active is new.
LEMMA UnlessRecorded ==
    ASSUME PollInv, TypeOK', UNCHANGED trader,
           \A x \in Asset \X Mode : held'[x].status # "none" =>
               held[x].status # "none" \/ \E m \in recorded : m.asset = x[1]
    PROVE  IsFiniteSet(recorded)' /\ SeqIsLatest' /\ RowsKnown'
BY DEF PollInv, SeqIsLatest, RowsKnown, trader
\* A cycle records its moves under the next number and with their rows.
LEMMA RecordStep ==
    ASSUME PollInv, Record
    PROVE  PollInv'
<1> USE DEF PollInv
<1>1. /\ poll \in Report /\ poll # NoReport /\ poll' = NoReport
      /\ UNCHANGED <<processed, job, queue, processing, held, up, faults, missed>>
  BY DEF Record, TypeOK, list
<1>2. CASE UNCHANGED <<trader, unsent>>
  <2>1. TypeOK'
    BY <1>1, <1>2 DEF TypeOK, trader
  <2> QED
    BY <1>1, <1>2, <2>1 DEF SeqIsLatest, RowsKnown, ReportIsTrue, trader
<1>3. CASE NewMoves \cap recorded = {}
  <2>1. /\ recorded' = recorded \cup NewMoves /\ seq' = NextSeq
        /\ unsent' = NewMoves
        /\ rows' = [a \in Asset |->
                      IF poll.size[a] # Absent THEN poll.size[a]
                      ELSE IF rows[a] > 0 /\ Gone(a) THEN 0 ELSE rows[a]]
    BY <1>3 DEF Record
  <2>2. NewMoves \subseteq Move
    BY <1>1, NewMovesShape
  <2>3. rows' \in [Asset -> Nat \cup {Absent}]
    BY <1>1, <2>1 DEF TypeOK, Report
  <2>4. seq' \in Nat
    BY <2>1 DEF NextSeq, TypeOK
  <2>5. queue' \in Seq(recorded')
    BY <1>1, <2>1, SeqGrows DEF TypeOK
  <2>6. TypeOK'
    BY <1>1, <2>1, <2>2, <2>3, <2>4, <2>5 DEF TypeOK
  <2>7. IsFiniteSet(recorded')
    BY <2>1, NewMovesFinite, FS_Union
  <2>8. SeqIsLatest'
    <3> SUFFICES ASSUME NEW m \in recorded'  PROVE m.seq <= seq'
      BY DEF SeqIsLatest
    <3>1. CASE m \in NewMoves
      BY <1>1, <2>1, <3>1, NewMovesShape DEF NextSeq, TypeOK
    <3>2. CASE m \in recorded
      <4>1. m.seq \in Nat /\ m.seq <= seq /\ seq \in Nat
        BY <3>2 DEF SeqIsLatest, TypeOK, Move
      <4> QED
        BY <2>1, <4>1 DEF NextSeq
    <3> QED
      BY <2>1, <3>1, <3>2
  <2>9. RowsKnown'
    <3>1. ASSUME NEW a \in Asset, rows[a] # Absent  PROVE rows'[a] # Absent
      BY <2>1, <3>1 DEF Absent
    <3>2. ASSUME NEW m \in NewMoves  PROVE rows'[m.asset] # Absent
      <4>1. m.asset \in Asset /\ Detects(m.asset, m.type)
        BY <1>1, <3>2, NewMovesShape DEF Move
      <4>2. /\ rows[m.asset] \in Nat \cup {Absent}
            /\ poll.size[m.asset] \in Nat \cup {Absent}
        BY <1>1, <4>1 DEF TypeOK, Report
      <4> QED
        BY <2>1, <4>1, <4>2 DEF Detects, Gone, Absent
    <3>3. ASSUME NEW m \in recorded  PROVE rows'[m.asset] # Absent
      BY <3>1, <3>3 DEF RowsKnown, TypeOK, Move
    <3>4. ASSUME NEW x \in Asset \X Mode, held'[x].status # "none"
          PROVE  rows'[x[1]] # Absent
      BY <1>1, <3>1, <3>4 DEF RowsKnown
    <3> QED
      BY <2>1, <3>2, <3>3, <3>4 DEF RowsKnown
  <2> QED
    BY <1>1, <2>6, <2>7, <2>8, <2>9 DEF ReportIsTrue
<1> QED
  BY <1>2, <1>3 DEF Record

\* The other steps of the poll loop.
LEMMA PollingStep ==
    ASSUME PollInv, Fetch \/ Baseline \/ (\E m \in unsent : Push(m)) \/ PushFails
    PROVE  PollInv'
<1> USE DEF PollInv
<1>1. CASE Fetch
  <2>1. PICK portfolio \in Portfolio, out \in SUBSET Asset, cut \in BOOLEAN :
            /\ cut \/ \A a \in out : portfolio[a] = 0
            /\ poll' = [size |-> [a \in Asset |-> IF a \in out THEN Absent
                                                  ELSE portfolio[a]],
                        truncated |-> cut, truth |-> portfolio]
    BY <1>1 DEF Fetch
  <2>2. portfolio \in [Asset -> Nat]
    BY BoundAssumption
  <2>3. poll' \in Report
    BY <2>1, <2>2 DEF Report
  <2>4. TypeOK'
    BY <1>1, <2>3 DEF Fetch, TypeOK, trader, list
  <2>5. ReportIsTrue'
    BY <2>1, <2>2 DEF ReportIsTrue, Absent
  <2> QED
    BY <1>1, <2>4, <2>5, UnlessRecorded DEF Fetch, TypeOK
<1>2. CASE Baseline
  <2>1. recorded = {} /\ \A x \in Asset \X Mode : held[x].status = "none"
    BY <1>2 DEF Baseline, KnownTrader, RowsKnown, TypeOK, Move
  <2>2. TypeOK'
    BY <1>2 DEF Baseline, TypeOK, Report, list
  <2> QED
    BY <1>2, <2>1, <2>2
    DEF Baseline, SeqIsLatest, RowsKnown, ReportIsTrue
<1>3. ASSUME NEW m \in unsent, Push(m)  PROVE PollInv'
  <2>1. queue' \in Seq(recorded)
    BY <1>3 DEF Push, TypeOK
  <2>2. TypeOK'
    BY <1>3, <2>1 DEF Push, TypeOK, trader
  <2> QED
    BY <1>3, <2>2 DEF Push, trader, SeqIsLatest, RowsKnown, ReportIsTrue
<1>4. CASE PushFails
  <2>1. TypeOK'
    BY <1>4 DEF PushFails, TypeOK, trader, list, Fault
  <2> QED
    BY <1>4, <2>1 DEF PushFails, trader, SeqIsLatest, RowsKnown, ReportIsTrue
<1> QED
  BY <1>1, <1>2, <1>3, <1>4

\* Taking a move off the end of the list leaves a list of recorded moves.
LEMMA TakenFromSeq ==
    ASSUME NEW S, NEW s \in Seq(S), s # <<>>
    PROVE  s[Len(s)] \in S /\ SubSeq(s, 1, Len(s) - 1) \in Seq(S)
<1>1. Len(s) \in Nat /\ Len(s) > 0
  OBVIOUS
<1>2. \A i \in 1 .. Len(s) - 1 : s[i] \in S
  BY <1>1
<1> QED
  BY <1>1, <1>2

\* The steps of the processor: an entry is reserved for a recorded move.
LEMMA HandlingStep ==
    ASSUME PollInv, Handling \/ (\E m \in Mode : Throw(m))
    PROVE  PollInv'
<1> USE DEF PollInv
<1>1. ASSUME UNCHANGED <<trader, poll>>, TypeOK',
             \A x \in Asset \X Mode : held'[x].status # "none" =>
                 held[x].status # "none" \/ \E m \in recorded : m.asset = x[1]
      PROVE  PollInv'
  BY <1>1, UnlessRecorded DEF ReportIsTrue, trader
<1>2. CASE Take
  <2>1. queue[Len(queue)] \in recorded /\ queue' \in Seq(recorded)
    BY <1>2, TakenFromSeq DEF Take, TypeOK
  <2>2. job' \in Job /\ job'.move \in recorded
    BY <1>2, <2>1 DEF Take, TypeOK, Job
  <2>3. TypeOK'
    BY <1>2, <2>1, <2>2 DEF Take, TypeOK, trader
  <2> QED
    BY <1>1, <1>2, <2>3 DEF Take
<1>3. CASE Mark
  <2>1. TypeOK'
    BY <1>3 DEF Mark, TypeOK, trader, list, Job
  <2> QED
    BY <1>1, <1>3, <2>1 DEF Mark
<1>4. CASE Finish
  <2>1. TypeOK'
    BY <1>4 DEF Finish, TypeOK, trader
  <2> QED
    BY <1>1, <1>4, <2>1 DEF Finish
<1>5. CASE Fail
  <2>1. TypeOK'
    BY <1>5 DEF Fail, TypeOK, trader, Job
  <2> QED
    BY <1>1, <1>5, <2>1 DEF Fail
<1>6. CASE Requeue
  <2>1. queue' \in Seq(recorded)
    BY <1>6 DEF Requeue, TypeOK
  <2>2. TypeOK'
    BY <1>6, <2>1 DEF Requeue, TypeOK, trader
  <2> QED
    BY <1>1, <1>6, <2>2 DEF Requeue
<1>8. ASSUME NEW m \in Mode, CanEnter(m), held' = Reserved(m)
      PROVE  /\ held' \in [Asset \X Mode -> Position]
             /\ \A x \in Asset \X Mode : held'[x].status # "none" =>
                   held[x].status # "none" \/ \E n \in recorded : n.asset = x[1]
  <2>1. job.move \in recorded /\ job.move \in Move
    BY <1>8 DEF CanEnter, InMode, TypeOK
  <2>2. job.move.asset \in Asset /\ <<job.move.asset, m>> \in Asset \X Mode
    BY <2>1 DEF Move
  <2>3. [status |-> "pending", move |-> job.move, live |-> TRUE] \in Position
    BY <2>1 DEF Position, Statuses
  <2> QED
    BY <1>8, <2>1, <2>2, <2>3 DEF Reserved, TypeOK
<1>9. ASSUME NEW m \in Mode, Decide(m)  PROVE PollInv'
  <2>1. TypeOK'
    BY <1>9 DEF Decide, InMode, TypeOK, trader, list, Job
  <2> QED
    BY <1>1, <1>9, <2>1 DEF Decide
<1>10. ASSUME NEW m \in Mode, Enter(m)  PROVE PollInv'
  <2>1. /\ held' \in [Asset \X Mode -> Position]
        /\ \A x \in Asset \X Mode : held'[x].status # "none" =>
              held[x].status # "none" \/ \E n \in recorded : n.asset = x[1]
    BY <1>8, <1>10 DEF Enter
  <2>2. TypeOK'
    BY <1>10, <2>1 DEF Enter, CanEnter, InMode, TypeOK, trader, list, Job
  <2> QED
    BY <1>1, <1>10, <2>1, <2>2 DEF Enter
<1>11. ASSUME NEW m \in Mode, Abandon(m)  PROVE PollInv'
  <2>1. At("none") \in Position
    BY DEF At, Position, Statuses
  <2>2. held' \in [Asset \X Mode -> Position]
    BY <1>11, <2>1 DEF Abandon, TypeOK
  <2>3. TypeOK'
    BY <1>11, <2>2 DEF Abandon, InMode, TypeOK, trader, list, Job
  <2> QED
    BY <1>1, <1>11, <2>3 DEF Abandon, At, TypeOK
<1>12. ASSUME NEW m \in Mode, Throw(m)  PROVE PollInv'
  <2>1. /\ held' \in [Asset \X Mode -> Position]
        /\ \A x \in Asset \X Mode : held'[x].status # "none" =>
              held[x].status # "none" \/ \E n \in recorded : n.asset = x[1]
    <3>1. CASE UNCHANGED held
      BY <3>1 DEF TypeOK
    <3>2. CASE CanEnter(m) /\ held' = Reserved(m)
      BY <1>8, <3>2
    <3> QED
      BY <1>12, <3>1, <3>2 DEF Throw
  <2>2. PICK todo \in SUBSET Mode : todo = job.todo \ {m}
    BY <1>12 DEF Throw, InMode, TypeOK, Job
  <2>3. job \in Job /\ job.move \in recorded
    BY <1>12 DEF Throw, InMode, TypeOK
  <2>4. job' = [job EXCEPT !.todo = todo, !.threw = TRUE]
    BY <1>12, <2>2 DEF Throw
  <2>5. job' = [move |-> job.move, todo |-> todo, stage |-> job.stage, threw |-> TRUE]
    BY <2>3, <2>4 DEF Job
  <2>6. job' \in Job /\ job'.move \in recorded
    BY <2>3, <2>5 DEF Job
  <2>7. /\ UNCHANGED <<rows, seq, recorded, processed, poll, unsent>>
        /\ UNCHANGED <<queue, processing, up, missed>>
        /\ faults' = faults + 1
    BY <1>12 DEF Throw, trader, list, Fault
  <2>8. TypeOK'
    BY <2>1, <2>6, <2>7 DEF TypeOK
  <2> QED
    BY <1>1, <2>1, <2>7, <2>8 DEF trader
<1> QED
  BY <1>2, <1>3, <1>4, <1>5, <1>6, <1>9, <1>10, <1>11, <1>12 DEF Handling

\* The worker's steps.
LEMMA WorkerStep ==
    ASSUME PollInv, NEW x \in Asset \X Mode, Advance(x) \/ Expire(x)
    PROVE  PollInv'
<1> USE DEF PollInv
<1>1. CASE Advance(x)
  <2>1. PICK step \in Advances : /\ held[x].status = step[1]
                                 /\ held' = [held EXCEPT ![x] = At(step[2])]
    BY <1>1 DEF Advance
  <2>2. held[x].status # "none" /\ At(step[2]) \in Position
    BY <2>1 DEF Advances, At, Position, Statuses
  <2>3. /\ held' \in [Asset \X Mode -> Position]
        /\ \A y \in Asset \X Mode : held'[y].status # "none" =>
                                       held[y].status # "none"
    BY <2>1, <2>2 DEF TypeOK
  <2>4. UNCHANGED <<trader, processed, memory, list, up, faults, missed>>
    BY <1>1 DEF Advance
  <2>5. TypeOK'
    BY <2>3, <2>4 DEF TypeOK, trader, memory, list
  <2> QED
    BY <2>3, <2>4, <2>5, UnlessRecorded DEF ReportIsTrue, memory
<1>2. CASE Expire(x)
  <2>1. /\ held[x].status = "pending" /\ held' = [held EXCEPT ![x].live = FALSE]
        /\ UNCHANGED <<trader, processed, memory, list, up, faults, missed>>
    BY <1>2 DEF Expire
  <2>2. /\ held' \in [Asset \X Mode -> Position]
        /\ \A y \in Asset \X Mode : held'[y].status = held[y].status
    BY <2>1 DEF TypeOK, Position
  <2>3. TypeOK'
    BY <2>1, <2>2 DEF TypeOK, trader, memory, list
  <2> QED
    BY <2>1, <2>2, <2>3, UnlessRecorded DEF ReportIsTrue, memory
<1> QED
  BY <1>1, <1>2

\* A crash forgets what is in memory; a start fills the list from what was
\* recorded.
LEMMA RestartStep ==
    ASSUME PollInv, Crash \/ Restart
    PROVE  PollInv'
<1> USE DEF PollInv
<1>1. CASE Crash
  <2>1. /\ UNCHANGED <<rows, seq, recorded, processed, queue, processing>>
        /\ UNCHANGED <<held, missed>>
        /\ poll' = NoReport /\ unsent' = {} /\ job' = NoJob
        /\ up' \in BOOLEAN /\ faults' = faults + 1
    BY <1>1 DEF Crash, trader, list, Fault
  <2>2. TypeOK'
    BY <2>1 DEF TypeOK
  <2> QED
    BY <2>1, <2>2, UnlessRecorded DEF ReportIsTrue, trader
<1>2. CASE Restart
  <2>1. PICK lost \in Listings(Unprocessed), stale \in Listings(Stale) :
            queue' = (IF processing = NoMove THEN <<>> ELSE <<processing>>)
                     \o queue \o lost \o stale
    BY <1>2 DEF Restart
  <2>2. /\ Unprocessed \subseteq recorded /\ Stale \subseteq recorded
        /\ IsFiniteSet(Unprocessed) /\ IsFiniteSet(Stale)
    BY FS_Subset DEF Unprocessed, Stale, TypeOK
  <2>3. lost \in Seq(recorded) /\ stale \in Seq(recorded)
    BY <2>2, ListingIsSeq, SeqGrows
  <2>4. (IF processing = NoMove THEN <<>> ELSE <<processing>>) \in Seq(recorded)
    BY DEF TypeOK
  <2>5. queue' \in Seq(recorded)
    BY <2>1, <2>3, <2>4, ConcatProperties DEF TypeOK
  <2>6. /\ UNCHANGED <<rows, seq, recorded, poll, unsent, job, held, faults>>
        /\ processed' = processed \ Stale
        /\ processing' = NoMove /\ missed' = {} /\ up' = TRUE
    BY <1>2 DEF Restart, trader, memory
  <2>7. TypeOK'
    BY <2>5, <2>6 DEF TypeOK
  <2> QED
    BY <2>6, <2>7, UnlessRecorded DEF ReportIsTrue, trader
<1> QED
  BY <1>1, <1>2

\* The invariant, which the theorems below rest on.
THEOREM PollInvariant == Spec => []PollInv
<1>1. PollInv /\ [Next]_vars => PollInv'
  <2> SUFFICES ASSUME PollInv, [Next]_vars  PROVE PollInv'
    OBVIOUS
  <2>1. CASE UNCHANGED vars
    BY <2>1 DEF vars, trader, memory, list, PollInv, TypeOK, SeqIsLatest,
       RowsKnown, ReportIsTrue
  <2> QED
    BY <2>1, RecordStep, PollingStep, HandlingStep, WorkerStep, RestartStep
    DEF Next, Polling
<1> QED
  BY <1>1, InitPoll, PTL DEF Spec

\* No step of the poll loop, the queue or the processor leaves a value of
\* another type, and what is queued or handled was recorded.
THEOREM TypeCorrect == Spec => []TypeOK
<1>1. PollInv => TypeOK
  BY DEF PollInv
<1> QED
  BY <1>1, PollInvariant, PTL

\* No poll meets the id of a move that it has recorded.
THEOREM MovesRecordedOnce == Spec => []NoDuplicateMove
<1>1. PollInv => NoDuplicateMove
  <2> SUFFICES ASSUME PollInv, poll # NoReport, NEW m \in NewMoves,
                      m \in recorded
               PROVE  FALSE
    BY DEF NoDuplicateMove
  <2>1. m.seq = seq + 1 /\ m.seq <= seq /\ seq \in Nat
    BY NewMovesShape DEF PollInv, SeqIsLatest, TypeOK
  <2> QED
    BY <2>1
<1> QED
  BY <1>1, PollInvariant, PTL

\* What a step records comes from a report and ends at what it says.
LEMMA RecordedByCycle ==
    ASSUME PollInv, [Next]_vars, recorded' # recorded \/ rows' # rows
    PROVE  Record \/ Baseline
BY DEF Next, Polling, Handling, Fetch, Push, PushFails, Take, Mark, Finish, Fail,
   Requeue, Decide, Enter, Abandon, Throw, Crash, Restart, Advance, Expire,
   trader, vars

\* Moves end at what the trader held, whatever the report leaves out.
THEOREM MovesTellTheTruth == Spec => MovesAreReal
<1>1. PollInv /\ [Next]_vars =>
          [\A m \in recorded' \ recorded : m.to = poll.truth[m.asset]]_vars
  <2> SUFFICES ASSUME PollInv, [Next]_vars, NEW m \in recorded' \ recorded
               PROVE  m.to = poll.truth[m.asset]
    BY Zenon
  <2>1. Record /\ m \in NewMoves /\ poll # NoReport
    BY RecordedByCycle DEF Record, Baseline, trader
  <2>2. /\ m.asset \in Asset /\ m.to = NonNegative(poll.size[m.asset])
        /\ Detects(m.asset, m.type)
    BY <2>1, NewMovesShape DEF PollInv, Move
  <2>3. /\ rows[m.asset] \in Nat \cup {Absent}
        /\ poll.size[m.asset] \in Nat \cup {Absent}
    BY <2>1, <2>2 DEF PollInv, TypeOK, Report
  <2>4. poll.size[m.asset] = Absent => ~poll.truncated
    BY <2>2, <2>3 DEF Detects, Gone, Absent
  <2> QED
    BY <2>1, <2>2, <2>4 DEF PollInv, ReportIsTrue, NonNegative
<1> QED
  BY <1>1, PollInvariant, PTL DEF Spec, MovesAreReal

\* While a position is copied, no change of its row goes unrecorded.
THEOREM NoChangeMissed == Spec => CopiedChangesAreRecorded
<1> DEFINE Told(a) ==
        (\E m \in Mode : held[<<a, m>>].status # "none") /\ rows'[a] # rows[a]
          => \E m \in recorded' \ recorded :
                m.asset = a /\ m.from = NonNegative(rows[a]) /\ m.to = rows'[a]
<1>1. PollInv /\ [Next]_vars => [\A a \in Asset : Told(a)]_vars
  <2> SUFFICES ASSUME PollInv, [Next]_vars, NEW a \in Asset,
                      NEW n \in Mode, held[<<a, n>>].status # "none",
                      rows'[a] # rows[a]
               PROVE  \E m \in recorded' \ recorded :
                         m.asset = a /\ m.from = NonNegative(rows[a])
                                     /\ m.to = rows'[a]
    BY Zenon
  <2> USE DEF PollInv
  <2>1. rows[a] # Absent /\ Copied(a)
    <3> DEFINE x == <<a, n>>
    <3>1. x \in Asset \X Mode /\ x[1] = a
      OBVIOUS
    <3>2. held[x].status # "none"
      OBVIOUS
    <3> HIDE DEF x
    <3>3. rows[a] # Absent
      BY <3>1, <3>2 DEF RowsKnown
    <3>4. held[x].status \in {"open", "pending", "closing"}
      BY <3>1, <3>2 DEF TypeOK, Position, Statuses
    <3> QED
      BY <3>3, <3>4 DEF Copied, x
  <2>2. Record
    <3>1. ~Baseline
      BY <2>1 DEF Baseline, KnownTrader
    <3> QED
      BY <3>1, RecordedByCycle
  <2>3. /\ poll \in Report /\ poll # NoReport
        /\ rows' = [b \in Asset |->
                      IF poll.size[b] # Absent THEN poll.size[b]
                      ELSE IF rows[b] > 0 /\ Gone(b) THEN 0 ELSE rows[b]]
        /\ recorded' = recorded \cup NewMoves /\ NewMoves \cap recorded = {}
    BY <2>2 DEF Record, trader, TypeOK
  <2>4. /\ rows[a] \in Nat /\ poll.size[a] \in Nat \cup {Absent}
        /\ rows'[a] = NonNegative(poll.size[a])
    <3>1. rows[a] \in Nat \cup {Absent} /\ poll.size[a] \in Nat \cup {Absent}
      BY <2>3 DEF TypeOK, Report
    <3> QED
      BY <2>1, <2>3, <3>1 DEF NonNegative
  <2>5. PICK type \in Types : Detects(a, type)
    <3>1. CASE poll.size[a] = Absent
      BY <2>3, <3>1 DEF Detects, Types
    <3>2. CASE poll.size[a] # Absent /\ poll.size[a] > rows[a]
      BY <2>1, <2>4, <3>2 DEF Detects, Types
    <3>3. CASE poll.size[a] # Absent /\ poll.size[a] < rows[a]
      BY <2>1, <2>4, <3>3 DEF Detects, Types, Absent
    <3> QED
      BY <2>3, <2>4, <3>1, <3>2, <3>3 DEF Absent
  <2>6. MoveOf(a, type) \in NewMoves
    <3> DEFINE x == <<a, type>>
    <3>1. /\ x \in Asset \X Types /\ x[1] = a /\ x[2] = type
          /\ Detects(x[1], x[2]) /\ Copied(x[1])
      BY <2>1, <2>5
    <3>2. MoveOf(x[1], x[2]) = MoveOf(a, type)
      BY <3>1
    <3> HIDE DEF x
    <3> QED
      BY <3>1, <3>2 DEF NewMoves
  <2> QED
    BY <2>3, <2>4, <2>6 DEF MoveOf
<1> QED
  BY <1>1, PollInvariant, PTL DEF Spec, CopiedChangesAreRecorded
=============================================================================
