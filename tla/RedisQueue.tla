----------------------------- MODULE RedisQueue -----------------------------
(***************************************************************************)
(* RedisQueue<T> (src/packages/core/src/worker-shared/redis-queue.ts): the *)
(* list every pair of processes talks through, its processing and dead     *)
(* lists, and the one consumer that runs on it.                            *)
(*                                                                         *)
(* One action is one Redis command, or what the consumer does between two. *)
(* A job is its JSON text: two jobs with the same text share their retry   *)
(* counter, and LREM cannot tell them apart.  The handler may succeed,     *)
(* throw, or throw JobDiscardedError.  The process may stop anywhere; a    *)
(* new one recovers the processing list before it consumes.                *)
(***************************************************************************)
EXTENDS Naturals, Sequences, FiniteSets

CONSTANTS
    Job,            \* texts of jobs
    NoJob,
    MaxRetries,     \* MAX_RETRIES
    MaxEnqueued,    \* bound on the times one text is enqueued
    MaxCrashes,     \* bound on process crashes
    MaxExpiries,    \* bound on retry counters that reach their TTL
    MaxReplays      \* bound on the jobs an operator replays

ASSUME NoJobAssumption == NoJob \notin Job
ASSUME BoundAssumption ==
    /\ MaxRetries \in Nat \ {0}
    /\ {MaxEnqueued, MaxCrashes, MaxExpiries, MaxReplays} \subseteq Nat

VARIABLES
    list,       \* the queue; producers and the consumer both use its tail
    processing, \* name:processing, newest first
    dead,       \* name:dead
    retries,    \* the value of <job>::retries, 0 when the key is absent
    consumer,   \* where the consumer loop is
    current,    \* the job it works on
    replaying,  \* a job replayDead() popped and has not pushed yet
    accepted,   \* how often each job was enqueued (history)
    handled,    \* how often its handler succeeded (history)
    settled,    \* how often it was taken off after success or discard (history)
    crashes,    \* crashes so far
    expiries,   \* retry counters expired so far
    replays     \* jobs popped by replayDead() so far

lists == <<list, processing, dead>>
history == <<accepted, handled, settled>>
counters == <<crashes, expiries, replays>>
vars == <<lists, retries, consumer, current, replaying, history, counters>>

\* The places where processing still holds the current job ...
Held == {"handling", "succeeded", "discarded", "failed"}
\* ... and the ones after LREM where no list does.
Gap == {"removed", "counted"}

ConsumerStates == {"down", "recovering", "idle", "buried"} \cup Held \cup Gap

TypeOK ==
    /\ list \in Seq(Job) /\ processing \in Seq(Job) /\ dead \in Seq(Job)
    /\ retries \in [Job -> Nat]
    /\ consumer \in ConsumerStates
    /\ current \in Job \cup {NoJob} /\ replaying \in Job \cup {NoJob}
    /\ accepted \in [Job -> Nat] /\ handled \in [Job -> Nat]
    /\ settled \in [Job -> Nat]
    /\ crashes \in Nat /\ expiries \in Nat /\ replays \in Nat

Init ==
    /\ list = <<>> /\ processing = <<>> /\ dead = <<>>
    /\ retries = [j \in Job |-> 0]
    /\ consumer = "down" /\ current = NoJob /\ replaying = NoJob
    /\ accepted = [j \in Job |-> 0]
    /\ handled = [j \in Job |-> 0]
    /\ settled = [j \in Job |-> 0]
    /\ crashes = 0 /\ expiries = 0 /\ replays = 0
-----------------------------------------------------------------------------
Front(s) == SubSeq(s, 1, Len(s) - 1)
Last(s) == s[Len(s)]
Count(s, j) == Cardinality({i \in DOMAIN s : s[i] = j})

Goto(from, to) == consumer = from /\ consumer' = to

\* enqueue(): RPUSH.
Enqueue(j) ==
    /\ accepted[j] < MaxEnqueued
    /\ list' = Append(list, j)
    /\ accepted' = [accepted EXCEPT ![j] = @ + 1]
    /\ UNCHANGED <<processing, dead, retries, consumer, current, replaying,
                   handled, settled, counters>>

StartProcess ==
    /\ Goto("down", "recovering")
    /\ UNCHANGED <<lists, retries, current, replaying, history, counters>>

\* recoverOrphans(): RPOPLPUSH until the processing list is empty.
RecoverOrphan ==
    /\ consumer = "recovering" /\ processing # <<>>
    /\ list' = <<Last(processing)>> \o list
    /\ processing' = Front(processing)
    /\ UNCHANGED <<dead, retries, consumer, current, replaying, history,
                   counters>>

\* Faulty variant: the loop starts whether or not orphans are left.
RecoveredEarly ==
    /\ Goto("recovering", "idle")
    /\ UNCHANGED <<lists, retries, current, replaying, history, counters>>

Recovered ==
    /\ processing = <<>>
    /\ Goto("recovering", "idle")
    /\ UNCHANGED <<lists, retries, current, replaying, history, counters>>

\* Faulty variant: the job leaves the queue before it is in processing.
FetchNotAtomic ==
    /\ Goto("idle", "handling")
    /\ list # <<>>
    /\ current' = Last(list)
    /\ list' = Front(list)
    /\ UNCHANGED <<processing, dead, retries, replaying, history, counters>>

\* BRPOPLPUSH: the tail of the queue, so the job enqueued last.
Fetch ==
    /\ Goto("idle", "handling")
    /\ list # <<>>
    /\ current' = Last(list)
    /\ list' = Front(list)
    /\ processing' = <<Last(list)>> \o processing
    /\ UNCHANGED <<dead, retries, replaying, history, counters>>

\* Faulty variant: something after the handler's effects throws.
HandlerSucceedsThenThrows ==
    /\ Goto("handling", "failed")
    /\ handled' = [handled EXCEPT ![current] = @ + 1]
    /\ UNCHANGED <<lists, retries, current, replaying, accepted, settled,
                   counters>>

HandlerSucceeds ==
    /\ Goto("handling", "succeeded")
    /\ handled' = [handled EXCEPT ![current] = @ + 1]
    /\ UNCHANGED <<lists, retries, current, replaying, accepted, settled,
                   counters>>

HandlerThrows ==
    /\ consumer = "handling"
    /\ consumer' \in {"failed", "discarded"}
    /\ UNCHANGED <<lists, retries, current, replaying, history, counters>>

\* LREM of the first occurrence: processing holds one job while consuming.
RemoveCurrent == processing' = Tail(processing)

\* The LREM after success, or after a discard.
Settle ==
    /\ consumer \in {"succeeded", "discarded"} /\ consumer' = "idle"
    /\ RemoveCurrent
    /\ settled' = [settled EXCEPT ![current] = @ + 1]
    /\ current' = NoJob
    /\ UNCHANGED <<list, dead, retries, replaying, accepted, handled, counters>>

\* The LREM after a failure: from here to the next push only the consumer's
\* memory holds the job.
RemoveFailed ==
    /\ Goto("failed", "removed")
    /\ RemoveCurrent
    /\ UNCHANGED <<list, dead, retries, current, replaying, history, counters>>

\* Faulty variant: the counter is never written.
CountRetryForgotten ==
    /\ Goto("removed", "counted")
    /\ UNCHANGED <<lists, retries, current, replaying, history, counters>>

CountRetry ==
    /\ Goto("removed", "counted")
    /\ retries' = [retries EXCEPT ![current] = @ + 1]
    /\ UNCHANGED <<lists, current, replaying, history, counters>>

Requeue ==
    /\ Goto("counted", "idle")
    /\ retries[current] < MaxRetries
    /\ list' = Append(list, current)
    /\ current' = NoJob
    /\ UNCHANGED <<processing, dead, retries, replaying, history, counters>>

Bury ==
    /\ Goto("counted", "buried")
    /\ retries[current] >= MaxRetries
    /\ dead' = Append(dead, current)
    /\ UNCHANGED <<list, processing, retries, current, replaying, history,
                   counters>>

ForgetRetries ==
    /\ Goto("buried", "idle")
    /\ retries' = [retries EXCEPT ![current] = 0]
    /\ current' = NoJob
    /\ UNCHANGED <<lists, replaying, history, counters>>

RetryKeyExpires(j) ==
    /\ retries[j] > 0 /\ expiries < MaxExpiries
    /\ retries' = [retries EXCEPT ![j] = 0]
    /\ expiries' = expiries + 1
    /\ UNCHANGED <<lists, consumer, current, replaying, history, crashes,
                   replays>>

\* replayDead(), run by the backend: LPOP, then RPUSH.
PopDead ==
    /\ replaying = NoJob /\ dead # <<>> /\ replays < MaxReplays
    /\ replaying' = Head(dead)
    /\ dead' = Tail(dead)
    /\ replays' = replays + 1
    /\ UNCHANGED <<list, processing, retries, consumer, current, history,
                   crashes, expiries>>

PushReplayed ==
    /\ replaying # NoJob
    /\ list' = Append(list, replaying)
    /\ replaying' = NoJob
    /\ UNCHANGED <<processing, dead, retries, consumer, current, history,
                   counters>>

Crash ==
    /\ consumer # "down" /\ crashes < MaxCrashes
    /\ consumer' = "down" /\ current' = NoJob
    /\ crashes' = crashes + 1
    /\ UNCHANGED <<lists, retries, replaying, history, expiries, replays>>

BackendCrash ==
    /\ replaying # NoJob /\ crashes < MaxCrashes
    /\ replaying' = NoJob
    /\ crashes' = crashes + 1
    /\ UNCHANGED <<lists, retries, consumer, current, history, expiries,
                   replays>>
-----------------------------------------------------------------------------
Consume ==
    \/ StartProcess \/ RecoverOrphan \/ Recovered \/ Fetch
    \/ HandlerSucceeds \/ HandlerThrows \/ Settle
    \/ RemoveFailed \/ CountRetry \/ Requeue \/ Bury \/ ForgetRetries

Next ==
    \/ Consume
    \/ \E j \in Job : Enqueue(j) \/ RetryKeyExpires(j)
    \/ PopDead \/ PushReplayed \/ Crash \/ BackendCrash

Spec == Init /\ [][Next]_vars

\* The process is restarted by its supervisor and runs the loop; handlers
\* return, because what they await carries timeouts.
FairSpec == Spec /\ WF_vars(Consume) /\ WF_vars(PushReplayed)
-----------------------------------------------------------------------------
\* While it runs, processing holds the consumer's job and nothing else: the
\* orphans were drained first, so LREM by text never removes another job.
ProcessingIsCurrent ==
    /\ consumer \in Held => processing = <<current>> /\ current \in Job
    /\ consumer \in Gap \cup {"idle", "buried"} => processing = <<>>
    /\ consumer \in Gap \cup {"buried"} => current \in Job

\* A handler that succeeded runs again for the same delivery only after a
\* crash before the LREM: each crash costs one repetition at most.
RepeatsNeedCrashes ==
    \A j \in Job : handled[j] <= settled[j] + crashes +
        (IF consumer = "succeeded" /\ current = j THEN 1 ELSE 0)

\* Copies of j that some list, or a process about to push it, holds.
Copies(j) ==
    Count(list, j) + Count(processing, j) + Count(dead, j)
      + (IF consumer \in Gap /\ current = j THEN 1 ELSE 0)
      + (IF replaying = j THEN 1 ELSE 0)

\* A job that was accepted disappears unsettled in two ways only: the consumer
\* crashes between the LREM of a failed attempt and its push, or the backend
\* crashes between the two commands of replayDead().
LostOnlyInTheGap ==
    [][\A j \in Job :
         Copies(j)' + settled'[j] < Copies(j) + settled[j] =>
           /\ crashes' > crashes
           /\ (consumer \in Gap /\ current = j) \/ replaying = j]_vars

\* Attempts are limited: whatever fails, crashes or is replayed, a queue that
\* nobody adds to is emptied, and so is its processing list.
Drains == <>[](list = <<>> /\ processing = <<>>)
=============================================================================
