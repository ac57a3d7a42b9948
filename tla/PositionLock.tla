---------------------------- MODULE PositionLock ----------------------------
(***************************************************************************)
(* PositionLockRegistry (src/packages/worker/src/clob/                     *)
(* position-lock-registry.ts): the in-memory mutex that executors A and B, *)
(* the results consumer and the user channel share.  runSequentially()     *)
(* chains a promise per position: a call waits for the promise the map     *)
(* held when it came, runs its function, and stops waiting for it after a  *)
(* timeout.  The function itself cannot be stopped: it may go on after     *)
(* that, or never return.                                                  *)
(***************************************************************************)
EXTENDS Naturals

CONSTANTS
    Task,       \* calls of runSequentially
    NoTask,
    Position,   \* copied positions
    PositionOf  \* the position a call locks

ASSUME NoTaskAssumption == NoTask \notin Task
ASSUME PositionAssumption == PositionOf \in [Task -> Position]

VARIABLES
    state,      \* how far each call is
    prev,       \* the call whose promise it waits for, NoTask if none
    tail,       \* locks: the call whose promise the map holds
    cleaned,    \* the calls whose "tracked" promise is resolved
    rank,       \* the order in which the calls came, from 1 (history)
    calls       \* how many came

lockVars == <<state, prev, tail, cleaned, rank, calls>>

\* "settled" and "overrun" are states of the promise next: it settled because
\* the function returned, or because of the timeout while the function runs.
\* "returned" is an overrun function that came back after all.
States == {"new", "waiting", "running", "settled", "overrun", "returned"}

LockTypeOK ==
    /\ state \in [Task -> States]
    /\ prev \in [Task -> Task \cup {NoTask}]
    /\ tail \in [Position -> Task \cup {NoTask}]
    /\ cleaned \subseteq Task
    /\ rank \in [Task -> Nat]
    /\ calls \in Nat

LockInit ==
    /\ state = [t \in Task |-> "new"]
    /\ prev = [t \in Task |-> NoTask]
    /\ tail = [p \in Position |-> NoTask]
    /\ cleaned = {}
    /\ rank = [t \in Task |-> 0]
    /\ calls = 0
-----------------------------------------------------------------------------
Move(t, from, to) ==
    /\ state[t] = from
    /\ state' = [state EXCEPT ![t] = to]

\* Faulty variant: the map keeps the first promise of the chain.
CallKeepsHead(t) ==
    LET p == PositionOf[t] IN
    /\ Move(t, "new", "waiting")
    /\ prev' = [prev EXCEPT ![t] = tail[p]]
    /\ tail' = [tail EXCEPT ![p] = IF @ = NoTask THEN t ELSE @]
    /\ calls' = calls + 1
    /\ rank' = [rank EXCEPT ![t] = calls + 1]
    /\ UNCHANGED cleaned

\* The synchronous part of runSequentially().
Call(t) ==
    LET p == PositionOf[t] IN
    /\ Move(t, "new", "waiting")
    /\ prev' = [prev EXCEPT ![t] = tail[p]]
    /\ tail' = [tail EXCEPT ![p] = t]
    /\ calls' = calls + 1
    /\ rank' = [rank EXCEPT ![t] = calls + 1]
    /\ UNCHANGED cleaned

Start(t) ==
    /\ prev[t] = NoTask \/ prev[t] \in cleaned
    /\ Move(t, "waiting", "running")
    /\ UNCHANGED <<prev, tail, cleaned, rank, calls>>

Return(t) ==
    /\ Move(t, "running", "settled")
    /\ UNCHANGED <<prev, tail, cleaned, rank, calls>>

\* Faulty variant: the timer aborts the signal and rejects nothing.
TimeOutOnlyAborts(t) ==
    /\ Move(t, "running", "running")
    /\ UNCHANGED <<prev, tail, cleaned, rank, calls>>

TimeOut(t) ==
    /\ Move(t, "running", "overrun")
    /\ UNCHANGED <<prev, tail, cleaned, rank, calls>>

ReturnLate(t) ==
    /\ Move(t, "overrun", "returned")
    /\ UNCHANGED <<prev, tail, cleaned, rank, calls>>

NextSettled(t) == state[t] \in {"settled", "overrun", "returned"}

\* Faulty variant: whoever is done deletes the map's entry.
CleanUpAlways(t) ==
    /\ NextSettled(t) /\ t \notin cleaned
    /\ tail' = [tail EXCEPT ![PositionOf[t]] = NoTask]
    /\ cleaned' = cleaned \cup {t}
    /\ UNCHANGED <<state, prev, rank, calls>>

\* Faulty variant: nobody deletes it.
CleanUpNever(t) ==
    /\ NextSettled(t) /\ t \notin cleaned
    /\ cleaned' = cleaned \cup {t}
    /\ UNCHANGED <<state, prev, tail, rank, calls>>

\* The callback behind "tracked".
CleanUp(t) ==
    LET p == PositionOf[t] IN
    /\ NextSettled(t) /\ t \notin cleaned
    /\ tail' = [tail EXCEPT ![p] = IF @ = t THEN NoTask ELSE @]
    /\ cleaned' = cleaned \cup {t}
    /\ UNCHANGED <<state, prev, rank, calls>>

LockNext ==
    \E t \in Task :
        \/ Call(t) \/ Start(t) \/ Return(t)
        \/ TimeOut(t) \/ ReturnLate(t) \/ CleanUp(t)

LockSpec == LockInit /\ [][LockNext]_lockVars

\* The event loop runs callbacks that are due and timers fire; a function may
\* hang, so nothing is assumed of Return.
FairLockSpec ==
    /\ LockSpec
    /\ \A t \in Task : WF_lockVars(Start(t)) /\ WF_lockVars(TimeOut(t))
                                         /\ WF_lockVars(CleanUp(t))
-----------------------------------------------------------------------------
Rivals(t, u) == t # u /\ PositionOf[t] = PositionOf[u]

Earlier(t, u) == Rivals(t, u) /\ rank[t] > 0 /\ rank[t] < rank[u]

Started(t) == state[t] \notin {"new", "waiting"}

\* Two functions that work on one position at the same time: one has been
\* given up by the timeout.
ExclusiveUnlessOverrun ==
    \A t, u \in Task : Rivals(t, u) =>
        ~(state[t] = "running" /\ state[u] = "running")

\* Calls for a position take their turn in the order in which they came: none
\* starts before every earlier one has settled and been cleaned up.
InOrder ==
    \A t, u \in Task : Started(u) /\ Earlier(t, u) => t \in cleaned

\* An idle entry is deleted, and only an idle one: a position without an entry
\* has nobody running or waiting.
EntryWhileBusy ==
    \A t \in Task : tail[PositionOf[t]] = NoTask =>
        state[t] = "new" \/ t \in cleaned

\* Each call has its own rank, none that is to come has one.
RanksDistinct ==
    /\ \A t \in Task : rank[t] > 0 <=> state[t] # "new"
    /\ \A t \in Task : rank[t] <= calls
    /\ \A t, u \in Task : rank[t] > 0 /\ rank[t] = rank[u] => t = u

\* The map holds the last call of a position, a call waits for the last one
\* before it, and a call without predecessor came when all was cleaned up.
Chained ==
    /\ \A p \in Position : tail[p] # NoTask =>
         /\ PositionOf[tail[p]] = p /\ state[tail[p]] # "new"
         /\ \A u \in Task : Rivals(u, tail[p]) => rank[u] <= rank[tail[p]]
    /\ \A t \in Task : state[t] # "new" =>
         \A u \in Task : Earlier(u, t) =>
            \/ prev[t] = NoTask /\ u \in cleaned
            \/ prev[t] # NoTask /\ (u = prev[t] \/ Earlier(u, prev[t]))

CleanedAreSettled == \A t \in cleaned : NextSettled(t)

\* The inductive invariant.
LockInv ==
    /\ LockTypeOK
    /\ RanksDistinct
    /\ Chained
    /\ CleanedAreSettled
    /\ InOrder
    /\ EntryWhileBusy

\* Every caller gets an answer within its turn, even when functions hang ...
EveryCallSettles == \A t \in Task : state[t] = "waiting" ~> NextSettled(t)

\* ... and the map forgets positions that are not worked on.
MapIsEmptied ==
    \A p \in Position : []<>(tail[p] = NoTask)
=============================================================================
