--------------------------- MODULE DeliveryProofs ---------------------------
(***************************************************************************)
(* Proofs about the ways by which work reaches a position: the queue that  *)
(* carries its jobs (RedisQueue), the mutex its workers share              *)
(* (PositionLock), and the pushes and resends of its entry (EntryRetries), *)
(* for any jobs, calls and positions, number of retries and bounds.        *)
(***************************************************************************)
EXTENDS RedisQueue, PositionLock, EntryRetries, SequenceTheorems,
        FiniteSetTheorems, TLAPS

(***************************************************************************)
(*                            RedisQueue                                   *)
(***************************************************************************)

\* RPOPLPUSH takes a job off one end of a list and leaves a list.
LEMMA LastAndFront ==
    ASSUME NEW s \in Seq(Job), s # <<>>
    PROVE  Last(s) \in Job /\ Front(s) \in Seq(Job)
<1>1. Len(s) \in Nat /\ Len(s) > 0
  OBVIOUS
<1>2. \A i \in 1 .. Len(s) - 1 : s[i] \in Job
  BY <1>1
<1> QED
  BY <1>1, <1>2 DEF Last, Front

\* Pushing a job on either end of a list leaves a list.
LEMMA PushedIsSeq ==
    ASSUME NEW s \in Seq(Job), NEW j \in Job
    PROVE  Append(s, j) \in Seq(Job) /\ <<j>> \o s \in Seq(Job)
<1>1. <<j>> \in Seq(Job)
  OBVIOUS
<1> QED
  BY <1>1, ConcatProperties

\* LREM of the only job of a list leaves none.
LEMMA TailOfOne ==
    ASSUME NEW j \in Job
    PROVE  Tail(<<j>>) = <<>>
OBVIOUS

\* No command leaves a value of another type in a list or a counter.
LEMMA TypePreserved ==
    ASSUME TypeOK, ProcessingIsCurrent, [Next]_vars
    PROVE  TypeOK'
<1> USE NoJobAssumption DEF TypeOK, lists, history, counters, Goto,
        ConsumerStates, Held, Gap
<1>1. ASSUME NEW j \in Job, Enqueue(j)  PROVE TypeOK'
  <2>1. list' \in Seq(Job)
    BY <1>1, PushedIsSeq DEF Enqueue
  <2> QED
    BY <1>1, <2>1, SMTT(60) DEF Enqueue
<1>2. CASE StartProcess
  BY <1>2 DEF StartProcess
<1>3. CASE RecoverOrphan
  <2>1. list' \in Seq(Job) /\ processing' \in Seq(Job)
    BY <1>3, LastAndFront, PushedIsSeq DEF RecoverOrphan
  <2> QED
    BY <1>3, <2>1 DEF RecoverOrphan
<1>4. CASE Recovered
  BY <1>4 DEF Recovered
<1>5. CASE Fetch
  <2>1. /\ list' \in Seq(Job) /\ processing' \in Seq(Job)
        /\ current' \in Job
    BY <1>5, LastAndFront, PushedIsSeq DEF Fetch
  <2> QED
    BY <1>5, <2>1 DEF Fetch
<1>6. CASE HandlerSucceeds
  BY <1>6 DEF HandlerSucceeds, ProcessingIsCurrent
<1>7. CASE HandlerThrows
  BY <1>7 DEF HandlerThrows
<1>8. CASE Settle
  <2>1. processing' = <<>> /\ current \in Job
    BY <1>8, TailOfOne DEF Settle, RemoveCurrent, ProcessingIsCurrent
  <2> QED
    BY <1>8, <2>1 DEF Settle
<1>9. CASE RemoveFailed
  <2>1. processing' = <<>> /\ current \in Job
    BY <1>9, TailOfOne DEF RemoveFailed, RemoveCurrent, ProcessingIsCurrent
  <2> QED
    BY <1>9, <2>1 DEF RemoveFailed
<1>10. CASE CountRetry
  BY <1>10 DEF CountRetry, ProcessingIsCurrent
<1>11. CASE Requeue
  BY <1>11 DEF Requeue, ProcessingIsCurrent
<1>12. CASE Bury
  BY <1>12 DEF Bury, ProcessingIsCurrent
<1>13. CASE ForgetRetries
  BY <1>13 DEF ForgetRetries, ProcessingIsCurrent
<1>14. ASSUME NEW j \in Job, RetryKeyExpires(j)  PROVE TypeOK'
  BY <1>14 DEF RetryKeyExpires
<1>15. CASE PopDead
  <2>1. Head(dead) \in Job /\ Tail(dead) \in Seq(Job)
    BY <1>15, HeadTailProperties DEF PopDead
  <2> QED
    BY <1>15, <2>1, SMTT(60) DEF PopDead
<1>16. CASE PushReplayed
  <2>1. list' \in Seq(Job)
    BY <1>16, PushedIsSeq DEF PushReplayed
  <2> QED
    BY <1>16, <2>1 DEF PushReplayed
<1>17. CASE Crash
  BY <1>17 DEF Crash
<1>18. CASE BackendCrash
  BY <1>18 DEF BackendCrash
<1>19. CASE UNCHANGED vars
  BY <1>19 DEF vars
<1> QED
  BY <1>1, <1>2, <1>3, <1>4, <1>5, <1>6, <1>7, <1>8, <1>9, <1>10, <1>11,
     <1>12, <1>13, <1>14, <1>15, <1>16, <1>17, <1>18, <1>19 DEF Next, Consume

\* The consumer fills processing with the job it fetches and empties it before
\* it fetches another; only a crash leaves a job there, and then the loop does
\* not start before the list is empty.
LEMMA ProcessingPreserved ==
    ASSUME TypeOK, ProcessingIsCurrent, [Next]_vars
    PROVE  ProcessingIsCurrent'
<1> USE DEF TypeOK, ProcessingIsCurrent, lists, Goto, Held, Gap
<1>1. ASSUME NEW j \in Job, Enqueue(j)  PROVE ProcessingIsCurrent'
  BY <1>1 DEF Enqueue
<1>2. CASE StartProcess
  BY <1>2 DEF StartProcess
<1>3. CASE RecoverOrphan
  BY <1>3 DEF RecoverOrphan
<1>4. CASE Recovered
  BY <1>4 DEF Recovered
<1>5. CASE Fetch
  <2>1. Last(list) \in Job
    BY <1>5, LastAndFront DEF Fetch
  <2>2. <<Last(list)>> \in Seq(Job)
    BY <2>1
  <2>3. processing' = <<Last(list)>>
    BY <1>5, <2>2, ConcatEmptySeq DEF Fetch
  <2> QED
    BY <1>5, <2>1, <2>3 DEF Fetch
<1>6. CASE HandlerSucceeds
  BY <1>6 DEF HandlerSucceeds
<1>7. CASE HandlerThrows
  BY <1>7 DEF HandlerThrows
<1>8. CASE Settle
  <2>1. processing' = <<>>
    BY <1>8, TailOfOne DEF Settle, RemoveCurrent
  <2> QED
    BY <1>8, <2>1 DEF Settle
<1>9. CASE RemoveFailed
  <2>1. processing' = <<>>
    BY <1>9, TailOfOne DEF RemoveFailed, RemoveCurrent
  <2> QED
    BY <1>9, <2>1 DEF RemoveFailed
<1>10. CASE CountRetry
  BY <1>10 DEF CountRetry
<1>11. CASE Requeue
  BY <1>11 DEF Requeue
<1>12. CASE Bury
  BY <1>12 DEF Bury
<1>13. CASE ForgetRetries
  BY <1>13 DEF ForgetRetries
<1>14. ASSUME NEW j \in Job, RetryKeyExpires(j)  PROVE ProcessingIsCurrent'
  BY <1>14 DEF RetryKeyExpires
<1>15. CASE PopDead
  BY <1>15 DEF PopDead
<1>16. CASE PushReplayed
  BY <1>16 DEF PushReplayed
<1>17. CASE Crash
  BY <1>17 DEF Crash
<1>18. CASE BackendCrash
  BY <1>18 DEF BackendCrash
<1>19. CASE UNCHANGED vars
  BY <1>19 DEF vars
<1> QED
  BY <1>1, <1>2, <1>3, <1>4, <1>5, <1>6, <1>7, <1>8, <1>9, <1>10, <1>11,
     <1>12, <1>13, <1>14, <1>15, <1>16, <1>17, <1>18, <1>19 DEF Next, Consume

\* A success is settled by the next command, or turned into one more
\* repetition by the crash that keeps that command from running.
LEMMA RepeatsPreserved ==
    ASSUME TypeOK, ProcessingIsCurrent, RepeatsNeedCrashes, [Next]_vars
    PROVE  RepeatsNeedCrashes'
<1> USE DEF TypeOK, RepeatsNeedCrashes, history, counters, Goto
<1> SUFFICES ASSUME NEW j \in Job
             PROVE  handled'[j] <= settled'[j] + crashes' +
                      (IF consumer' = "succeeded" /\ current' = j
                         THEN 1 ELSE 0)
  BY DEF RepeatsNeedCrashes
<1>0. /\ handled[j] \in Nat /\ settled[j] \in Nat /\ crashes \in Nat
      /\ handled[j] <= settled[j] + crashes + 1
  <2>1. CASE consumer = "succeeded" /\ current = j
    BY <2>1
  <2>2. CASE ~(consumer = "succeeded" /\ current = j)
    BY <2>2
  <2> QED
    BY <2>1, <2>2
<1>1. CASE HandlerSucceeds
  BY <1>1 DEF HandlerSucceeds
<1>2. CASE Settle
  <2>1. current \in Job
    BY <1>2 DEF Settle, ProcessingIsCurrent, Held
  <2> QED
    BY <1>2, <2>1 DEF Settle
<1>3. CASE Crash
  BY <1>0, <1>3 DEF Crash
<1>4. CASE BackendCrash
  BY <1>0, <1>4, SMTT(60) DEF BackendCrash
<1>5. CASE PopDead
  BY <1>5 DEF PopDead
<1>6. ASSUME NEW i \in Job, RetryKeyExpires(i)
      PROVE  /\ UNCHANGED <<handled, settled, crashes>>
             /\ UNCHANGED <<consumer, current>>
  BY <1>6 DEF RetryKeyExpires
<1>7. ASSUME NEW i \in Job, Enqueue(i)
      PROVE  /\ UNCHANGED <<handled, settled, crashes>>
             /\ UNCHANGED <<consumer, current>>
  BY <1>7 DEF Enqueue
<1>8. CASE PushReplayed
  BY <1>8 DEF PushReplayed
<1>9. ASSUME \/ StartProcess \/ RecoverOrphan \/ Recovered \/ Fetch \/ HandlerThrows
             \/ RemoveFailed \/ CountRetry \/ Requeue \/ Bury \/ ForgetRetries
      PROVE  UNCHANGED <<handled, settled, crashes>> /\ consumer' # "succeeded"
                                                     /\ consumer # "succeeded"
  BY <1>9 DEF StartProcess, RecoverOrphan, Recovered, Fetch, HandlerThrows,
     RemoveFailed, CountRetry, Requeue, Bury, ForgetRetries
<1>10. CASE UNCHANGED vars
  BY <1>10 DEF vars
<1> QED
  BY <1>1, <1>2, <1>3, <1>4, <1>5, <1>6, <1>7, <1>8, <1>9, <1>10
     DEF Next, Consume

\* The inductive invariant of the queue.
QueueInv == TypeOK /\ ProcessingIsCurrent /\ RepeatsNeedCrashes

\* The three invariants of the queue hold together.
THEOREM QueueInvariant == Spec => []QueueInv
<1>1. Init => QueueInv
  BY DEF Init, QueueInv, TypeOK, ProcessingIsCurrent, RepeatsNeedCrashes,
     ConsumerStates, Held, Gap
<1>2. QueueInv /\ [Next]_vars => QueueInv'
  BY TypePreserved, ProcessingPreserved, RepeatsPreserved DEF QueueInv
<1> QED
  BY <1>1, <1>2, PTL DEF Spec

\* Each LREM finds the consumer's own job: processing never holds another.
THEOREM OneJobInProcessing == Spec => []ProcessingIsCurrent
BY QueueInvariant, PTL DEF QueueInv

\* The handler of a job succeeds twice only if a process crashed in between.
THEOREM RepeatsBounded == Spec => []RepeatsNeedCrashes
BY QueueInvariant, PTL DEF QueueInv

\* The places of a job in a list are finitely many.
LEMMA CountType ==
    ASSUME NEW s \in Seq(Job), NEW j
    PROVE  IsFiniteSet({i \in DOMAIN s : s[i] = j}) /\ Count(s, j) \in Nat
<1>1. DOMAIN s = 1 .. Len(s) /\ Len(s) \in Nat
  OBVIOUS
<1>2. IsFiniteSet(1 .. Len(s))
  BY <1>1, FS_Interval
<1>3. {i \in DOMAIN s : s[i] = j} \in SUBSET (1 .. Len(s))
  BY <1>1
<1>4. IsFiniteSet({i \in DOMAIN s : s[i] = j})
  BY <1>2, <1>3, FS_Subset
<1> QED
  BY <1>4, FS_CardinalityType DEF Count

\* RPUSH adds one copy, of the job it pushes.
LEMMA CountAppend ==
    ASSUME NEW s \in Seq(Job), NEW x \in Job, NEW j
    PROVE  Count(Append(s, x), j) = Count(s, j) + (IF x = j THEN 1 ELSE 0)
<1> DEFINE old == {i \in DOMAIN s : s[i] = j}
           new == {i \in DOMAIN Append(s, x) : Append(s, x)[i] = j}
<1>1. Len(s) \in Nat /\ DOMAIN s = 1 .. Len(s)
      /\ DOMAIN Append(s, x) = 1 .. Len(s) + 1
      /\ (\A i \in 1 .. Len(s) : Append(s, x)[i] = s[i])
      /\ Append(s, x)[Len(s) + 1] = x
  BY AppendProperties
<1>2. new = IF x = j THEN old \cup {Len(s) + 1} ELSE old
  BY <1>1
<1>3. IsFiniteSet(old)
  BY CountType
<1>4. Len(s) + 1 \notin old
  BY <1>1
<1> HIDE DEF old, new
<1>5. Cardinality(new) = Cardinality(old) + (IF x = j THEN 1 ELSE 0)
  <2>1. Cardinality(old) \in Nat
    BY <1>3, FS_CardinalityType
  <2>2. Cardinality(old \cup {Len(s) + 1}) = Cardinality(old) + 1
    BY <1>3, <1>4, FS_AddElement
  <2> QED
    BY <1>2, <2>1, <2>2
<1> QED
  BY <1>5 DEF Count, old, new

\* So does a push at the other end.
LEMMA CountPrepend ==
    ASSUME NEW s \in Seq(Job), NEW x \in Job, NEW j
    PROVE  Count(<<x>> \o s, j) = Count(s, j) + (IF x = j THEN 1 ELSE 0)
<1> DEFINE old == {i \in DOMAIN s : s[i] = j}
           moved == {i + 1 : i \in old}
           all == <<x>> \o s
           new == {i \in DOMAIN all : all[i] = j}
<1>1. /\ Len(s) \in Nat /\ DOMAIN s = 1 .. Len(s)
      /\ DOMAIN all = 1 .. Len(s) + 1
      /\ all[1] = x
      /\ \A i \in 1 .. Len(s) : all[i + 1] = s[i]
  OBVIOUS
<1>2. new = IF x = j THEN moved \cup {1} ELSE moved
  <2>1. \A i \in 2 .. Len(s) + 1 : i - 1 \in 1 .. Len(s) /\ i = (i - 1) + 1
                                   /\ all[i] = s[i - 1]
    BY <1>1
  <2> HIDE DEF all
  <2>2. \A i : i \in moved => i \in 2 .. Len(s) + 1 /\ s[i - 1] = j
    BY <1>1
  <2>3. \A i \in 2 .. Len(s) + 1 : s[i - 1] = j => i \in moved
    BY <1>1, <2>1
  <2>4. \A i : i \in new <=> (i = 1 /\ x = j) \/ (i \in 2 .. Len(s) + 1 /\ s[i - 1] = j)
    BY <1>1, <2>1
  <2> HIDE DEF moved, new
  <2>5. ASSUME NEW i
        PROVE  i \in new <=> (i = 1 /\ x = j) \/ i \in moved
    BY <2>2, <2>3, <2>4
  <2> QED
    BY <2>5
<1>3. IsFiniteSet(old)
  BY CountType
<1>4. IsFiniteSet(moved) /\ Cardinality(moved) = Cardinality(old)
  <2> DEFINE shift == [i \in old |-> i + 1]
  <2>1. old \subseteq Nat
    BY <1>1
  <2>2. shift \in [old -> moved]
    OBVIOUS
  <2>3. \A a, b \in old : shift[a] = shift[b] => a = b
    BY <2>1
  <2>4. \A t \in moved : \E i \in old : shift[i] = t
    OBVIOUS
  <2> HIDE DEF old, moved, shift
  <2>5. shift \in Bijection(old, moved)
    BY <2>2, <2>3, <2>4 DEF Bijection, Injection, Surjection, IsInjective
  <2> QED
    BY <1>3, <2>5, FS_Bijection DEF ExistsBijection
<1>5. 1 \notin moved
  BY <1>1
<1> HIDE DEF old, moved, new
<1>6. Cardinality(new) = Cardinality(old) + (IF x = j THEN 1 ELSE 0)
  <2>1. Cardinality(old) \in Nat
    BY <1>3, FS_CardinalityType
  <2>2. Cardinality(moved \cup {1}) = Cardinality(moved) + 1
    BY <1>4, <1>5, FS_AddElement
  <2> QED
    BY <1>2, <1>4, <2>1, <2>2
<1> QED
  BY <1>6 DEF Count, old, new

\* RPOPLPUSH takes the copy at the tail.
LEMMA CountFront ==
    ASSUME NEW s \in Seq(Job), s # <<>>, NEW j
    PROVE  /\ Count(s, j) = Count(Front(s), j) + (IF Last(s) = j THEN 1 ELSE 0)
           /\ Count(Front(s), j) \in Nat
<1>1. Front(s) \in Seq(Job) /\ Last(s) \in Job
  BY LastAndFront
<1>2. s = Append(Front(s), Last(s))
  <2>1. Len(s) \in Nat /\ Len(s) > 0 /\ Len(Front(s)) = Len(s) - 1
        /\ \A i \in 1 .. Len(s) - 1 : Front(s)[i] = s[i]
    <3>1. Len(s) \in Nat /\ Len(s) > 0 /\ \A i \in 1 .. Len(s) - 1 : s[i] \in Job
      OBVIOUS
    <3> DEFINE n == Len(s) - 1
               f == SubSeq(s, 1, n)
    <3>2. n \in Nat
      BY <3>1
    <3> HIDE DEF n
    <3>3. /\ Len(f) = IF 1 <= n THEN n - 1 + 1 ELSE 0
          /\ \A i \in 1 .. n - 1 + 1 : f[i] = s[1 + i - 1]
      BY <3>1, <3>2, SubSeqProperties DEF n
    <3> HIDE DEF f
    <3>4. Len(f) = n /\ \A i \in 1 .. n : f[i] = s[i]
      <4>1. \A i \in 1 .. n : 1 + i - 1 = i /\ i \in 1 .. n - 1 + 1
        BY <3>2
      <4> QED
        BY <3>2, <3>3, <4>1
    <3> QED
      BY <3>1, <3>4 DEF f, n, Front
  <2>2. /\ Append(Front(s), Last(s)) \in Seq(Job)
        /\ Len(Append(Front(s), Last(s))) = Len(s)
        /\ \A i \in 1 .. Len(s) - 1 : Append(Front(s), Last(s))[i] = s[i]
        /\ Append(Front(s), Last(s))[Len(s)] = s[Len(s)]
    BY <1>1, <2>1, AppendProperties DEF Last
  <2>3. \A i \in 1 .. Len(s) : Append(Front(s), Last(s))[i] = s[i]
    BY <2>1, <2>2
  <2> QED
    BY <2>2, <2>3, SeqEqual
<1>3. Count(Append(Front(s), Last(s)), j)
        = Count(Front(s), j) + (IF Last(s) = j THEN 1 ELSE 0)
  BY <1>1, CountAppend
<1>4. Count(Front(s), j) \in Nat
  BY <1>1, CountType
<1>5. Count(s, j) = Count(Append(Front(s), Last(s)), j)
  BY <1>2
<1> QED
  BY <1>3, <1>4, <1>5

\* LPOP takes the copy at the head.
LEMMA CountTail ==
    ASSUME NEW s \in Seq(Job), s # <<>>, NEW j
    PROVE  /\ Count(s, j) = Count(Tail(s), j) + (IF Head(s) = j THEN 1 ELSE 0)
           /\ Count(Tail(s), j) \in Nat
<1>1. Tail(s) \in Seq(Job) /\ Head(s) \in Job /\ s = <<Head(s)>> \o Tail(s)
  BY HeadTailProperties
<1>2. Count(<<Head(s)>> \o Tail(s), j)
        = Count(Tail(s), j) + (IF Head(s) = j THEN 1 ELSE 0)
  BY <1>1, CountPrepend
<1>3. Count(Tail(s), j) \in Nat
  BY <1>1, CountType
<1>4. Count(s, j) = Count(<<Head(s)>> \o Tail(s), j)
  BY <1>1
<1> QED
  BY <1>2, <1>3, <1>4

\* No command but a crash makes a copy vanish, and a crash only the copy that the
\* process that stopped had taken off one list and not pushed to the other.
LEMMA LossStep ==
    ASSUME QueueInv, [Next]_vars, NEW j \in Job,
           Copies(j)' + settled'[j] < Copies(j) + settled[j]
    PROVE  /\ crashes' > crashes
           /\ (consumer \in Gap /\ current = j) \/ replaying = j
<1> DEFINE inGap == IF consumer \in Gap /\ current = j THEN 1 ELSE 0
           inReplay == IF replaying = j THEN 1 ELSE 0
           L == Count(list, j)
           P == Count(processing, j)
           D == Count(dead, j)
           Lost == L' + P' + D' + inGap' + inReplay' + settled'[j]
                     < L + P + D + inGap + inReplay + settled[j]
<1>0. /\ TypeOK /\ ProcessingIsCurrent
      /\ list \in Seq(Job) /\ processing \in Seq(Job) /\ dead \in Seq(Job)
      /\ settled \in [Job -> Nat] /\ crashes \in Nat
      /\ current \in Job \cup {NoJob} /\ replaying \in Job \cup {NoJob}
      /\ consumer \in ConsumerStates
      /\ NoJob # j
  BY NoJobAssumption DEF QueueInv, TypeOK
<1>1. L \in Nat /\ P \in Nat /\ D \in Nat /\ settled[j] \in Nat
      /\ inGap \in Nat /\ inReplay \in Nat
  BY <1>0, CountType
<1>2. Lost
  BY DEF Copies
<1>3. /\ UNCHANGED list => L' = L
      /\ UNCHANGED processing => P' = P
      /\ UNCHANGED dead => D' = D
      /\ UNCHANGED settled => settled'[j] = settled[j]
      /\ UNCHANGED replaying => inReplay' = inReplay
      /\ UNCHANGED <<consumer, current>> => inGap' = inGap
      /\ consumer \notin Gap => inGap = 0
      /\ consumer' \notin Gap => inGap' = 0
  OBVIOUS
<1>g. Gap = {"removed", "counted"} /\ "removed" \in Gap /\ "counted" \in Gap
  BY DEF Gap
<1> HIDE DEF L, P, D, inGap, inReplay
<1>4. ASSUME NEW k \in Job, Enqueue(k)  PROVE FALSE
  <2>1. L' = L + (IF k = j THEN 1 ELSE 0)
    BY <1>0, <1>4, CountAppend DEF Enqueue, L
  <2>2. P' = P /\ D' = D /\ settled'[j] = settled[j] /\ inReplay' = inReplay
        /\ inGap' = inGap
    BY <1>3, <1>4 DEF Enqueue
  <2> QED
    BY <1>1, <1>2, <2>1, <2>2
<1>5. ASSUME RecoverOrphan  PROVE FALSE
  <2> DEFINE x == Last(processing)
             k == IF x = j THEN 1 ELSE 0
  <2>1. x \in Job
    BY <1>0, <1>5, LastAndFront DEF RecoverOrphan
  <2>2. L' = L + k
    BY <1>0, <1>5, <2>1, CountPrepend DEF RecoverOrphan, L
  <2>3. P = P' + k /\ P' \in Nat
    BY <1>0, <1>5, CountFront DEF RecoverOrphan, P
  <2>4. D' = D /\ settled'[j] = settled[j] /\ inReplay' = inReplay /\ inGap' = inGap
    BY <1>3, <1>5 DEF RecoverOrphan, history
  <2>5. k \in Nat
    OBVIOUS
  <2> HIDE DEF k
  <2> QED
    BY <1>1, <1>2, <2>2, <2>3, <2>4, <2>5
<1>6. ASSUME Fetch  PROVE FALSE
  <2> DEFINE x == Last(list)
             k == IF x = j THEN 1 ELSE 0
  <2>1. x \in Job
    BY <1>0, <1>6, LastAndFront DEF Fetch
  <2>2. L = L' + k /\ L' \in Nat
    BY <1>0, <1>6, CountFront DEF Fetch, L
  <2>3. P' = P + k
    BY <1>0, <1>6, <2>1, CountPrepend DEF Fetch, P
  <2>4. D' = D /\ settled'[j] = settled[j] /\ inReplay' = inReplay
        /\ inGap' = 0 /\ inGap = 0
    BY <1>3, <1>6, <1>g DEF Fetch, history, Goto
  <2>5. k \in Nat
    OBVIOUS
  <2> HIDE DEF k
  <2> QED
    BY <1>1, <1>2, <2>2, <2>3, <2>4, <2>5
<1>7. ASSUME Settle \/ RemoveFailed
      PROVE  FALSE
  <2>1. processing = <<current>> /\ current \in Job /\ processing # <<>>
        /\ Head(processing) = current
    BY <1>0, <1>7 DEF Settle, RemoveFailed, Goto, ProcessingIsCurrent, Held
  <2> DEFINE k == IF current = j THEN 1 ELSE 0
  <2>2. P = P' + k /\ P' \in Nat
    BY <1>0, <1>7, <2>1, CountTail DEF Settle, RemoveFailed, RemoveCurrent, P
  <2>3. L' = L /\ D' = D /\ inReplay' = inReplay /\ inGap = 0
    BY <1>3, <1>7, <1>g DEF Settle, RemoveFailed, Goto
  <2>4. CASE Settle
    <3>1. settled'[j] = settled[j] + k
      BY <1>0, <2>1, <2>4 DEF Settle
    <3>2. inGap' = 0
      BY <1>3, <1>g, <2>4 DEF Settle
    <3>3. k \in Nat
      OBVIOUS
    <3> HIDE DEF k
    <3> QED
      BY <1>1, <1>2, <2>2, <2>3, <3>1, <3>2, <3>3
  <2>5. CASE RemoveFailed
    <3>1. settled'[j] = settled[j]
      BY <1>3, <2>5 DEF RemoveFailed, history
    <3>2. inGap' = k
      BY <1>g, <2>5 DEF RemoveFailed, Goto, inGap
    <3>3. k \in Nat
      OBVIOUS
    <3> HIDE DEF k
    <3> QED
      BY <1>1, <1>2, <2>2, <2>3, <3>1, <3>2, <3>3
  <2> QED
    BY <1>7, <2>4, <2>5
<1>8. ASSUME Requeue \/ Bury  PROVE FALSE
  <2> DEFINE k == IF current = j THEN 1 ELSE 0
  <2>1. current \in Job
    BY <1>0, <1>8, <1>g DEF Requeue, Bury, Goto, ProcessingIsCurrent
  <2>2. inGap = k /\ inGap' = 0
    BY <1>3, <1>8, <1>g DEF Requeue, Bury, Goto, inGap
  <2>3. P' = P /\ settled'[j] = settled[j] /\ inReplay' = inReplay
    BY <1>3, <1>8 DEF Requeue, Bury, history
  <2>4. (L' = L + k /\ D' = D) \/ (D' = D + k /\ L' = L)
    <3>1. CASE Requeue
      BY <1>0, <1>3, <2>1, <3>1, CountAppend DEF Requeue, L
    <3>2. CASE Bury
      BY <1>0, <1>3, <2>1, <3>2, CountAppend DEF Bury, D
    <3> QED
      BY <1>8, <3>1, <3>2
  <2>5. k \in Nat
    OBVIOUS
  <2> HIDE DEF k
  <2> QED
    BY <1>1, <1>2, <2>2, <2>3, <2>4, <2>5
<1>9. ASSUME PopDead  PROVE FALSE
  <2> DEFINE k == IF Head(dead) = j THEN 1 ELSE 0
  <2>1. D = D' + k /\ D' \in Nat
    BY <1>0, <1>9, CountTail DEF PopDead, D
  <2>2. inReplay' = k /\ inReplay = 0
    BY <1>0, <1>9 DEF PopDead, inReplay
  <2>3. L' = L /\ P' = P /\ settled'[j] = settled[j] /\ inGap' = inGap
    BY <1>3, <1>9 DEF PopDead, history
  <2>4. k \in Nat
    OBVIOUS
  <2> HIDE DEF k
  <2> QED
    BY <1>1, <1>2, <2>1, <2>2, <2>3, <2>4
<1>10. ASSUME PushReplayed  PROVE FALSE
  <2>1. replaying \in Job /\ list' = Append(list, replaying)
    BY <1>0, <1>10 DEF PushReplayed
  <2>2. L' = L + inReplay /\ inReplay' = 0
    BY <1>0, <1>10, <2>1, CountAppend DEF PushReplayed, L, inReplay
  <2>3. P' = P /\ D' = D /\ settled'[j] = settled[j] /\ inGap' = inGap
    BY <1>3, <1>10 DEF PushReplayed, history
  <2> QED
    BY <1>1, <1>2, <2>2, <2>3
<1>11. ASSUME Crash
       PROVE  crashes' > crashes /\ consumer \in Gap /\ current = j
  <2>1. L' = L /\ P' = P /\ D' = D /\ settled'[j] = settled[j]
        /\ inReplay' = inReplay /\ inGap' = 0
    BY <1>3, <1>11, <1>g DEF Crash, lists, history
  <2>2. inGap > 0
    BY <1>1, <1>2, <2>1
  <2> QED
    BY <1>0, <1>11, <2>2 DEF Crash, inGap
<1>12. ASSUME BackendCrash
       PROVE  crashes' > crashes /\ replaying = j
  <2>1. L' = L /\ P' = P /\ D' = D /\ settled'[j] = settled[j] /\ inGap' = inGap
    BY <1>3, <1>12 DEF BackendCrash, lists, history
  <2>2. inReplay' = 0
    BY <1>0, <1>12 DEF BackendCrash, inReplay
  <2>3. inReplay > 0
    BY <1>1, <1>2, <2>1, <2>2
  <2> QED
    BY <1>0, <1>12, <2>3 DEF BackendCrash, inReplay
<1>13. ASSUME UNCHANGED <<lists, settled, replaying>>,
              inGap' = inGap
       PROVE  FALSE
  <2>1. L' = L /\ P' = P /\ D' = D /\ settled'[j] = settled[j]
        /\ inReplay' = inReplay
    BY <1>3, <1>13 DEF lists
  <2> QED
    BY <1>1, <1>2, <1>13, <2>1
<1>14. ASSUME StartProcess \/ Recovered \/ HandlerSucceeds \/ HandlerThrows
       PROVE  FALSE
  <2>1. consumer \notin Gap /\ consumer' \notin Gap
    BY <1>14, <1>g DEF StartProcess, Recovered, HandlerSucceeds, HandlerThrows, Goto
  <2>2. UNCHANGED <<lists, settled, replaying>>
    BY <1>14 DEF StartProcess, Recovered, HandlerSucceeds, HandlerThrows, history
  <2> QED
    BY <1>3, <1>13, <2>1, <2>2
<1>15. ASSUME CountRetry \/ ForgetRetries  PROVE FALSE
  <2>1. inGap' = inGap
    BY <1>15, <1>g DEF CountRetry, ForgetRetries, Goto, inGap
  <2>2. UNCHANGED <<lists, settled, replaying>>
    BY <1>15 DEF CountRetry, ForgetRetries, history
  <2> QED
    BY <1>13, <2>1, <2>2
<1>16. ASSUME NEW k \in Job, RetryKeyExpires(k)  PROVE FALSE
  <2>1. UNCHANGED <<lists, settled, replaying, consumer, current>>
    BY <1>16 DEF RetryKeyExpires, history
  <2> QED
    BY <1>3, <1>13, <2>1
<1>17. ASSUME UNCHANGED vars  PROVE FALSE
  <2>1. UNCHANGED <<lists, settled, replaying, consumer, current>>
    BY <1>17 DEF vars, history
  <2> QED
    BY <1>3, <1>13, <2>1
<1> QED
  BY <1>4, <1>5, <1>6, <1>7, <1>8, <1>9, <1>10, <1>11, <1>12, <1>14, <1>15,
     <1>16, <1>17 DEF Next, Consume

\* A job that was accepted is lost in the two gaps only, whatever fails or stops.
THEOREM JobsLostInTheGaps == Spec => LostOnlyInTheGap
<1>1. QueueInv /\ [Next]_vars =>
        [\A j \in Job :
           Copies(j)' + settled'[j] < Copies(j) + settled[j] =>
             /\ crashes' > crashes
             /\ (consumer \in Gap /\ current = j) \/ replaying = j]_vars
  BY LossStep
<1> QED
  BY <1>1, QueueInvariant, PTL DEF Spec, LostOnlyInTheGap

-----------------------------------------------------------------------------
(***************************************************************************)
(*                           PositionLock                                  *)
(***************************************************************************)

\* The registry starts empty.
LEMMA InitLock == LockInit => LockInv
BY NoTaskAssumption DEF LockInit, LockInv, LockTypeOK, States, RanksDistinct, Chained,
   CleanedAreSettled, InOrder, EntryWhileBusy, Started, Earlier, Rivals

\* runSequentially() joins the chain at its end.
LEMMA CallStep ==
    ASSUME LockInv, NEW x \in Task, Call(x)
    PROVE  LockInv'
<1> USE NoTaskAssumption, PositionAssumption DEF LockInv, LockTypeOK, Call, Move
<1> DEFINE p == PositionOf[x]
<1>0. /\ p \in Position /\ tail[p] \in Task \cup {NoTask}
      /\ calls \in Nat /\ rank \in [Task -> Nat]
      /\ state[x] = "new" /\ state' = [state EXCEPT ![x] = "waiting"]
      /\ rank' = [rank EXCEPT ![x] = calls + 1]
      /\ calls' = calls + 1
      /\ tail' = [tail EXCEPT ![p] = x]
      /\ prev' = [prev EXCEPT ![x] = tail[p]]
      /\ cleaned' = cleaned
  OBVIOUS
<1> HIDE DEF p
<1>1. LockTypeOK'
  BY <1>0 DEF States
<1>2. \A t \in Task : rank[t] <= calls /\ rank[t] # calls + 1
  BY <1>0 DEF RanksDistinct
<1>3. RanksDistinct'
  BY <1>0, <1>2 DEF RanksDistinct
<1>4. \A t, u \in Task : Earlier(t, u)' <=>
        \/ t # x /\ u # x /\ Earlier(t, u)
        \/ u = x /\ Rivals(t, x) /\ rank[t] > 0
  BY <1>0, <1>2 DEF Earlier, Rivals
<1>5. x \notin cleaned
  BY <1>0 DEF CleanedAreSettled, NextSettled
<1>6. CleanedAreSettled'
  BY <1>0, <1>5 DEF CleanedAreSettled, NextSettled
<1>7. InOrder'
  BY <1>0, <1>4 DEF InOrder, Started
<1>8. EntryWhileBusy'
  BY <1>0 DEF EntryWhileBusy, p
<1>9. Chained'
  <2>1. ASSUME NEW q \in Position, tail'[q] # NoTask
        PROVE  /\ PositionOf[tail'[q]] = q /\ state'[tail'[q]] # "new"
               /\ \A u \in Task : Rivals(u, tail'[q]) =>
                    rank'[u] <= rank'[tail'[q]]
    <3>1. CASE q = p
      BY <1>0, <1>2, <3>1 DEF Rivals, p
    <3>2. CASE q # p
      BY <1>0, <2>1, <3>2 DEF Chained, Rivals, p
    <3> QED
      BY <3>1, <3>2
  <2>2. ASSUME NEW t \in Task, state'[t] # "new", NEW u \in Task,
               Earlier(u, t)'
        PROVE  \/ prev'[t] = NoTask /\ u \in cleaned'
               \/ prev'[t] # NoTask /\ (u = prev'[t] \/ Earlier(u, prev[t])')
    <3>1. CASE t # x
      <4>1. /\ prev'[t] = prev[t] /\ state[t] # "new" /\ u # x
            /\ Earlier(u, t)
        BY <1>0, <1>4, <2>2, <3>1
      <4>2. \/ prev[t] = NoTask /\ u \in cleaned
            \/ prev[t] # NoTask /\ (u = prev[t] \/ Earlier(u, prev[t]))
        BY <4>1 DEF Chained
      <4>3. prev[t] # NoTask /\ Earlier(u, prev[t]) =>
              Rivals(u, prev[t]) /\ rank'[u] = rank[u] /\ prev[t] \in Task
        BY <1>0, <4>1 DEF Earlier
      <4>4. prev[t] # NoTask /\ Earlier(u, prev[t]) => rank'[prev[t]] >= rank[prev[t]]
        BY <1>0, <1>2, <4>3
      <4> QED
        BY <1>0, <4>1, <4>2, <4>3, <4>4 DEF Earlier, Rivals
    <3>2. CASE t = x
      <4>1. prev'[x] = tail[p] /\ Rivals(u, x) /\ rank[u] > 0
        BY <1>0, <1>4, <2>2, <3>2
      <4>2. CASE tail[p] = NoTask
        <5>1. state[u] = "new" \/ u \in cleaned
          BY <4>1, <4>2 DEF EntryWhileBusy, Rivals, p
        <5>2. state[u] # "new"
          BY <4>1 DEF RanksDistinct
        <5> QED
          BY <1>0, <3>2, <4>1, <4>2, <5>1, <5>2
      <4>3. CASE tail[p] # NoTask
        <5>1. /\ tail[p] \in Task /\ PositionOf[tail[p]] = p
              /\ state[tail[p]] # "new"
              /\ Rivals(u, tail[p]) => rank[u] <= rank[tail[p]]
          BY <1>0, <4>3 DEF Chained
        <5>2. tail[p] # x /\ u # x
          BY <1>0, <4>1, <5>1 DEF Rivals
        <5>3. u = tail[p] \/ Earlier(u, tail[p])
          <6>1. u # tail[p] => Rivals(u, tail[p])
            BY <4>1, <5>1 DEF Rivals, p
          <6>2. u # tail[p] => rank[u] # rank[tail[p]]
            BY <4>1, <5>1 DEF RanksDistinct
          <6>3. rank[u] \in Nat /\ rank[tail[p]] \in Nat
            BY <1>0, <5>1
          <6> QED
            BY <4>1, <5>1, <6>1, <6>2, <6>3 DEF Earlier
        <5>4. u = tail[p] \/ (Rivals(u, tail[p]) /\ rank'[u] > 0
                              /\ rank'[u] < rank'[tail[p]])
          BY <1>0, <5>1, <5>2, <5>3 DEF Earlier
        <5> QED
          BY <1>0, <3>2, <4>1, <4>3, <5>4 DEF Earlier, Rivals
      <4> QED
        BY <4>2, <4>3
    <3> QED
      BY <3>1, <3>2
  <2> QED
    BY <2>1, <2>2 DEF Chained
<1> QED
  BY <1>1, <1>3, <1>6, <1>7, <1>8, <1>9 DEF LockInv

\* A call starts when the one before it is cleaned up, and that one had
\* started only after all before it were.
LEMMA StartStep ==
    ASSUME LockInv, NEW x \in Task, Start(x)
    PROVE  LockInv'
<1> USE NoTaskAssumption DEF LockInv, LockTypeOK, Start, Move
<1>0. /\ UNCHANGED <<prev, tail, cleaned, rank, calls>>
      /\ state[x] = "waiting" /\ state' = [state EXCEPT ![x] = "running"]
  OBVIOUS
<1>1. LockTypeOK' /\ RanksDistinct' /\ EntryWhileBusy'
  BY <1>0 DEF States, RanksDistinct, EntryWhileBusy
<1>2. \A t, u \in Task : Earlier(t, u)' <=> Earlier(t, u)
  BY <1>0 DEF Earlier, Rivals
<1>3. CleanedAreSettled'
  BY <1>0 DEF CleanedAreSettled, NextSettled
<1>4. \A u \in Task : Earlier(u, x) => u \in cleaned
  <2>1. CASE prev[x] = NoTask
    BY <1>0, <2>1 DEF Chained
  <2>2. CASE prev[x] # NoTask
    <3>1. prev[x] \in Task /\ prev[x] \in cleaned /\ Started(prev[x])
      BY <2>2 DEF CleanedAreSettled, NextSettled, Started
    <3>2. \A u \in Task : Earlier(u, x) => u = prev[x] \/ Earlier(u, prev[x])
      BY <1>0, <2>2 DEF Chained
    <3> QED
      BY <3>1, <3>2 DEF InOrder
  <2> QED
    BY <2>1, <2>2
<1>5. InOrder'
  BY <1>0, <1>2, <1>4 DEF InOrder, Started
<1>6. Chained'
  BY <1>0 DEF Chained, Earlier, Rivals
<1> QED
  BY <1>1, <1>3, <1>5, <1>6 DEF LockInv

\* A function that returns or is given up moves nothing but its own state.
LEMMA SettleStep ==
    ASSUME LockInv, NEW x \in Task, Return(x) \/ TimeOut(x) \/ ReturnLate(x)
    PROVE  LockInv'
<1>0. PICK from \in {"running", "overrun"}, to \in {"settled", "overrun", "returned"} :
        /\ UNCHANGED <<prev, tail, cleaned, rank, calls>>
        /\ state[x] = from /\ state' = [state EXCEPT ![x] = to]
  BY DEF Return, TimeOut, ReturnLate, Move
<1> USE DEF LockInv, LockTypeOK
<1>1. LockTypeOK' /\ RanksDistinct' /\ EntryWhileBusy'
  BY <1>0 DEF States, RanksDistinct, EntryWhileBusy
<1>2. CleanedAreSettled'
  BY <1>0 DEF CleanedAreSettled, NextSettled
<1>3. InOrder'
  BY <1>0 DEF InOrder, Started, Earlier, Rivals
<1>4. Chained'
  BY <1>0 DEF Chained, Earlier, Rivals
<1> QED
  BY <1>1, <1>2, <1>3, <1>4 DEF LockInv

\* The last call of a position deletes its entry: all others are cleaned up.
LEMMA CleanUpStep ==
    ASSUME LockInv, NEW x \in Task, CleanUp(x)
    PROVE  LockInv'
<1> USE NoTaskAssumption, PositionAssumption DEF LockInv, LockTypeOK, CleanUp
<1> DEFINE p == PositionOf[x]
<1>0. /\ UNCHANGED <<state, prev, rank, calls>>
      /\ NextSettled(x) /\ Started(x) /\ state[x] # "new"
      /\ cleaned' = cleaned \cup {x}
      /\ tail' = [tail EXCEPT ![p] = IF @ = x THEN NoTask ELSE @]
  BY DEF NextSettled, Started
<1>1. LockTypeOK' /\ RanksDistinct' /\ CleanedAreSettled'
  BY <1>0 DEF RanksDistinct, CleanedAreSettled, NextSettled
<1>2. InOrder'
  BY <1>0 DEF InOrder, Started, Earlier, Rivals
<1>3. Chained'
  <2>1. \A q \in Position : tail'[q] # NoTask => tail'[q] = tail[q]
    BY <1>0
  <2> QED
    BY <1>0, <2>1 DEF Chained, Earlier, Rivals
<1>4. EntryWhileBusy'
  <2> SUFFICES ASSUME NEW t \in Task, tail'[PositionOf[t]] = NoTask,
                      state[t] # "new"
               PROVE  t \in cleaned'
    BY <1>0 DEF EntryWhileBusy
  <2>1. CASE tail[PositionOf[t]] = NoTask
    BY <1>0, <2>1 DEF EntryWhileBusy
  <2>2. CASE tail[PositionOf[t]] # NoTask /\ t # x
    <3>1. PositionOf[t] = p /\ tail[p] = x
      BY <1>0, <2>2
    <3>2. Rivals(t, x) /\ rank[t] <= rank[x]
      BY <2>2, <3>1 DEF Chained, Rivals
    <3>3. Earlier(t, x)
      BY <2>2, <3>2 DEF Earlier, RanksDistinct
    <3> QED
      BY <1>0, <3>3 DEF InOrder
  <2> QED
    BY <1>0, <2>1, <2>2
<1> QED
  BY <1>1, <1>2, <1>3, <1>4 DEF LockInv

\* The invariant of the registry, for any number of calls.
THEOREM LockInvariant == LockSpec => []LockInv
<1>1. LockInv /\ [LockNext]_lockVars => LockInv'
  <2> SUFFICES ASSUME LockInv, [LockNext]_lockVars  PROVE LockInv'
    OBVIOUS
  <2>1. CASE UNCHANGED lockVars
    BY <2>1 DEF lockVars, LockInv, LockTypeOK, RanksDistinct, Chained, InOrder,
       CleanedAreSettled, EntryWhileBusy, Started, Earlier, Rivals, NextSettled
  <2> QED
    BY <2>1, CallStep, StartStep, SettleStep, CleanUpStep DEF LockNext
<1> QED
  BY <1>1, InitLock, PTL DEF LockSpec

\* Two functions never work on one position at a time, but for one that the
\* timeout has given up.
THEOREM MutualExclusion == LockSpec => []ExclusiveUnlessOverrun
<1>1. LockInv => ExclusiveUnlessOverrun
  <2> SUFFICES ASSUME LockInv, NEW t \in Task, NEW u \in Task, Rivals(t, u),
                      state[t] = "running", state[u] = "running"
               PROVE  FALSE
    BY DEF ExclusiveUnlessOverrun
  <2>1. /\ rank[t] > 0 /\ rank[u] > 0 /\ rank[t] # rank[u]
        /\ rank[t] \in Nat /\ rank[u] \in Nat
    BY DEF LockInv, LockTypeOK, RanksDistinct, Rivals
  <2>2. Earlier(t, u) \/ Earlier(u, t)
    BY <2>1 DEF Earlier, Rivals
  <2>3. t \notin cleaned /\ u \notin cleaned
    BY DEF LockInv, CleanedAreSettled, NextSettled
  <2> QED
    BY <2>2, <2>3 DEF LockInv, InOrder, Started
<1> QED
  BY <1>1, LockInvariant, PTL

\* Calls take their turn in the order in which they came.
THEOREM FirstComeFirstServed == LockSpec => []InOrder
<1>1. LockInv => InOrder
  BY DEF LockInv
<1> QED
  BY <1>1, LockInvariant, PTL

(***************************************************************************)
(*                           EntryRetries                                  *)
(***************************************************************************)

\* A push adds one job to the queue, and one to the count at most.
LEMMA PushTypes ==
    ASSUME EntryTypeOK, NEW p, Push(p)
    PROVE  /\ jobs' \in [Pos -> Nat] /\ sent' \in Nat
           /\ sent' \in {sent, sent + 1}
<1>1. jobs' \in [Pos -> Nat]
  <2>1. jobs' = [jobs EXCEPT ![p] = jobs[p] + 1] /\ jobs \in [Pos -> Nat]
    BY DEF Push, EntryTypeOK
  <2>2. CASE p \in Pos
    BY <2>1, <2>2
  <2>3. CASE p \notin Pos
    BY <2>1, <2>3
  <2> QED
    BY <2>2, <2>3
<1>2. sent' \in {sent, sent + 1} /\ sent \in Nat
  BY DEF Push, EntryTypeOK
<1> QED
  BY <1>1, <1>2

\* A dedupe marker and a retry slot are values of their types.
LEMMA KeyTypes ==
    ASSUME EntryTypeOK, NEW k \in Key, NEW p \in Pos, MayPush(k, p)
    PROVE  /\ marker' \in [Key -> Pos \cup {NoPos}]
           /\ slots' \in [Key -> 0 .. MaxSlots]
           /\ slotsTill' \in [Key -> Pos \cup {NoPos}]
<1> USE RetryAssumption DEF EntryTypeOK, Holder, Pos, NoPos
<1>1. CASE SetMarker(k, p) /\ UNCHANGED <<slots, slotsTill>>
  BY <1>1 DEF SetMarker
<1>2. CASE marker[k] # NoPos /\ TakeSlot(k, p) /\ UNCHANGED marker
  <2>0. slots[k] \in 0 .. MaxSlots /\ slots[k] < MaxSlots
    BY <1>2 DEF TakeSlot
  <2>1. CASE slots[k] > 0
    <3>1. slots' = [slots EXCEPT ![k] = slots[k] + 1] /\ UNCHANGED slotsTill
      BY <1>2, <2>1 DEF TakeSlot
    <3> QED
      BY <1>2, <2>0, <3>1
  <2>2. CASE ~(slots[k] > 0)
    <3>1. /\ slots' = [slots EXCEPT ![k] = IF p \in lapsed THEN 0 ELSE 1]
          /\ slotsTill' = [slotsTill EXCEPT ![k] = Holder(p)]
      BY <1>2, <2>2 DEF TakeSlot
    <3>2. slots' \in [Key -> 0 .. MaxSlots]
      BY <2>0, <3>1
    <3>3. slotsTill' \in [Key -> Pos \cup {NoPos}]
      BY <3>1
    <3> QED
      BY <1>2, <3>2, <3>3
  <2> QED
    BY <1>2, <2>1, <2>2
<1> QED
  BY <1>1, <1>2 DEF MayPush

\* No step of the strategy process, the worker or time leaves a value of another
\* type.
LEMMA EntryTypePreserved ==
    ASSUME EntryTypeOK, EntriesInOrder, [EntryNext]_entryVars
    PROVE  EntryTypeOK'
<1> USE RetryAssumption DEF EntryTypeOK, rowVars, redisVars, queueVars, Idle,
        Waiting, At, Stop, MoveTo, Cancelled
<1>0. MarketKey \in Key /\ Pos \subseteq Key /\ NoPos \notin Pos
  BY DEF Key, Pos, NoPos
<1>1. ASSUME NEW p \in Pos, FindReservation(p)  PROVE EntryTypeOK'
  BY <1>1 DEF FindReservation
<1>2. ASSUME NEW p \in Pos, Reserve(p)  PROVE EntryTypeOK'
  BY <1>2 DEF Reserve
<1>3. CASE AbandonResume
  BY <1>3 DEF AbandonResume, Release
<1>4. CASE Send
  <2>1. eval.pos \in Pos
    BY <1>4 DEF Send, EntriesInOrder
  <2> QED
    BY <1>0, <1>4, <2>1, KeyTypes DEF Send
<1>5. CASE PushEntry
  BY <1>5, PushTypes DEF PushEntry
<1>6. CASE SendBlocked
  BY <1>6 DEF SendBlocked
<1>7. CASE ResolveBlocked
  BY <1>7 DEF ResolveBlocked, Release
<1>8. ASSUME NEW p \in Pos, TakeJob(p)  PROVE EntryTypeOK'
  BY <1>8 DEF TakeJob, Refuse
<1>9. ASSUME NEW p \in Pos, FillEntry(p) \/ FailEntry(p) \/ ClosePosition(p)
      PROVE  EntryTypeOK'
  BY <1>9 DEF FillEntry, FailEntry, ClosePosition
<1>10. ASSUME NEW p \in Pos, ListOrphan(p)  PROVE EntryTypeOK'
  BY <1>10 DEF ListOrphan
<1>11. CASE Claim
  BY <1>0, <1>11 DEF Claim, Refuse
<1>12. CASE JanitorSends
  <2>1. janitor.pos \in Pos
    BY <1>12 DEF JanitorSends, EntriesInOrder
  <2> QED
    BY <1>0, <1>12, <2>1, KeyTypes DEF JanitorSends, JanitorKey
<1>13. CASE JanitorPushes
  BY <1>13, PushTypes DEF JanitorPushes
<1>14. CASE SkipOrphan
  BY <1>14 DEF SkipOrphan
<1>15. ASSUME NEW p \in Pos, Lapse(p)  PROVE EntryTypeOK'
  BY <1>15 DEF Lapse
<1>16. ASSUME NEW p \in Pos, CollectReservation(p)  PROVE EntryTypeOK'
  BY <1>16 DEF CollectReservation
<1>17. CASE SendFails
  BY <1>17, PushTypes DEF SendFails, Fault, Release
<1>18. CASE AlgoCrashes
  BY <1>18 DEF AlgoCrashes, Fault
<1>19. CASE WorkerCrashes
  BY <1>19 DEF WorkerCrashes, Fault
<1>20. CASE LoseJob
  BY <1>20 DEF LoseJob, Fault
<1>21. CASE UNCHANGED entryVars
  BY <1>21 DEF entryVars
<1> QED
  BY <1>1, <1>2, <1>3, <1>4, <1>5, <1>6, <1>7, <1>8, <1>9, <1>10, <1>11,
     <1>12, <1>13, <1>14, <1>15, <1>16, <1>17, <1>18, <1>19, <1>20, <1>21
     DEF EntryNext, Pipeline, Worker, Time, Faults

\* What every step but a reservation does to the rows: no position appears, and
\* none that is over comes back.
KeepsRows ==
    \A p \in Pos : /\ status'[p] = "none" <=> status[p] = "none"
                   /\ status[p] = "over" => status'[p] = "over"

\* Nobody turns to another position, and only a last entry is counted.
KeepsPlaces ==
    /\ eval'.step # "idle" => eval.step # "idle" /\ eval'.pos = eval.pos
    /\ janitor'.step # "idle" =>
         janitor.step # "idle" /\ janitor'.pos = janitor.pos
    /\ sent' = sent \/ \E p \in Pos : IsLast(p)

\* The last entry stays the last.
LEMMA LastStays ==
    ASSUME KeepsRows, NEW p \in Pos
    PROVE  IsLast(p)' <=> IsLast(p)
BY DEF IsLast, KeepsRows

\* Rows stay in order while nothing lapses.
LEMMA RowsStayInOrder ==
    ASSUME EntryTypeOK, EntriesInOrder, KeepsRows, KeepsPlaces, UNCHANGED lapsed
    PROVE  EntriesInOrder'
<1> USE DEF EntriesInOrder
<1>1. \A p, q \in Pos : p < q /\ status'[q] # "none" => status'[p] = "over"
  BY DEF KeepsRows
<1>2. \A p \in lapsed' : status'[p] # "none"
  BY DEF KeepsRows, EntryTypeOK
<1>3. eval'.step # "idle" => eval'.pos \in Pos /\ IsLast(eval.pos)'
  BY LastStays DEF KeepsPlaces
<1>4. janitor'.step # "idle" =>
        janitor'.pos \in Pos /\ status'[janitor'.pos] # "none"
  BY DEF KeepsRows, KeepsPlaces
<1>5. sent' = 0 \/ \E p \in Pos : IsLast(p)'
  BY LastStays DEF KeepsPlaces
<1> QED
  BY <1>1, <1>2, <1>3, <1>4, <1>5

\* Keys that nobody touches stay held.
LEMMA KeysStayHeld ==
    ASSUME EntryTypeOK, KeysAreHeld, KeepsRows, UNCHANGED <<lapsed, redisVars>>
    PROVE  KeysAreHeld'
<1>1. \A k \in Key : \A p \in {marker[k], slotsTill[k]} \ {NoPos} : p \in Pos
  BY DEF EntryTypeOK
<1>2. \A k \in Key : \A p \in {marker'[k], slotsTill'[k]} \ {NoPos} :
        p \notin lapsed' /\ status'[p] # "none"
  BY <1>1 DEF KeysAreHeld, KeepsRows, redisVars
<1> QED
  BY <1>2 DEF KeysAreHeld, redisVars

\* A marker or a slot is taken for a position that is there, and held by it
\* unless its deadline has passed.
LEMMA TakenKeysAreHeld ==
    ASSUME EntryTypeOK, KeysAreHeld, UNCHANGED rowVars,
           NEW p \in Pos, status[p] # "none",
           NEW k \in {MarketKey, p}, MayPush(k, p)
    PROVE  KeysAreHeld'
<1> USE DEF KeysAreHeld, rowVars
<1>0. /\ k \in Key /\ Pos \subseteq Key /\ (k \in Pos => k = p)
      /\ Holder(p) \in {NoPos, p} /\ (Holder(p) = p => p \notin lapsed)
      /\ (Holder(p) = NoPos <=> p \in lapsed)
  BY DEF Key, Pos, MarketKey, Holder, NoPos
<1>1. CASE SetMarker(k, p) /\ UNCHANGED <<slots, slotsTill>>
  <2>1. marker[k] = NoPos /\ marker' = [marker EXCEPT ![k] = Holder(p)]
    BY <1>1 DEF SetMarker
  <2>2. \A j \in Key : marker'[j] = IF j = k THEN Holder(p) ELSE marker[j]
    BY <1>0, <2>1 DEF EntryTypeOK
  <2> QED
    BY <1>0, <1>1, <2>1, <2>2
<1>2. CASE marker[k] # NoPos /\ TakeSlot(k, p) /\ UNCHANGED marker
  <2>1. CASE slots[k] > 0
    <3>1. slots' = [slots EXCEPT ![k] = slots[k] + 1] /\ UNCHANGED slotsTill
      BY <1>2, <2>1 DEF TakeSlot
    <3>2. \A j \in Key : /\ slots[j] \in Nat
                        /\ slots'[j] = IF j = k THEN slots[k] + 1 ELSE slots[j]
      BY <1>0, <3>1, RetryAssumption DEF EntryTypeOK
    <3> QED
      BY <1>0, <1>2, <2>1, <3>1, <3>2
  <2>2. CASE ~(slots[k] > 0)
    <3>1. /\ slots' = [slots EXCEPT ![k] = IF p \in lapsed THEN 0 ELSE 1]
          /\ slotsTill' = [slotsTill EXCEPT ![k] = Holder(p)]
      BY <1>2, <2>2 DEF TakeSlot
    <3>2. \A j \in Key :
            /\ slots'[j] = IF j = k THEN IF p \in lapsed THEN 0 ELSE 1
                           ELSE slots[j]
            /\ slotsTill'[j] = IF j = k THEN Holder(p) ELSE slotsTill[j]
      BY <1>0, <3>1 DEF EntryTypeOK
    <3> QED
      BY <1>0, <1>2, <2>2, <3>1, <3>2
  <2> QED
    BY <2>1, <2>2
<1> QED
  BY <1>1, <1>2 DEF MayPush

\* A step that pushes nothing and takes no key: it may end what the evaluation
\* or the janitor is at, or block a fresh entry.
LEMMA QuietStep ==
    ASSUME EntryInv, EntryTypeOK', KeepsRows,
           UNCHANGED <<lapsed, redisVars, sent>>,
           \/ eval' \in {eval, Idle}
           \/ /\ At("sending") /\ eval.kind = "fresh"
              /\ eval' = [eval EXCEPT !.step = "blocked"],
           janitor' \in {janitor, Waiting}
    PROVE  EntryInv'
<1> USE DEF EntryInv
<1>0. /\ eval'.step # "idle" => eval.step # "idle" /\ eval'.pos = eval.pos
      /\ eval'.step \in {"sending", "pushing"} => eval' = eval
      /\ janitor'.step # "idle" => janitor' = janitor
      /\ janitor' = Waiting \/ janitor' = janitor
  BY DEF Idle, Waiting, EntryTypeOK, At
<1>1. EntriesInOrder'
  BY <1>0, RowsStayInOrder DEF KeepsPlaces
<1>2. KeysAreHeld'
  BY KeysStayHeld
<1>3. SendersHoldKeys'
  BY <1>0 DEF SendersHoldKeys, At, redisVars
<1>4. SendsCounted'
  <2> SUFFICES ASSUME NEW p \in Pos, IsLast(p)'
               PROVE  sent' <= MarketSent(p)' + JanitorSent(p)'
    BY DEF SendsCounted
  <2>1. sent <= MarketSent(p) + JanitorSent(p)
    BY LastStays DEF SendsCounted
  <2>2. MarketSent(p) <= MarketSent(p)'
    BY <1>0 DEF MarketSent, Sending, At, redisVars, SendersHoldKeys
  <2>3. JanitorSent(p) <= JanitorSent(p)'
    <3>1. slots[p] \in 0 .. MaxSlots
      BY DEF EntryTypeOK, Key
    <3>2. Waiting.step # "pushing" /\ Waiting.pos # p
      BY DEF Waiting, NoPos, Pos
    <3> QED
      BY <1>0, <3>1, <3>2, RetryAssumption DEF JanitorSent, redisVars
  <2>4. MarketSent(p) \in Int /\ JanitorSent(p) \in Int /\ sent \in Int
    BY RetryAssumption DEF MarketSent, JanitorSent, EntryTypeOK, Key
  <2>5. MarketSent(p)' \in Int /\ JanitorSent(p)' \in Int
    BY RetryAssumption DEF MarketSent, JanitorSent, EntryTypeOK, Key
  <2> QED
    BY <2>1, <2>2, <2>3, <2>4, <2>5
<1> QED
  BY <1>1, <1>2, <1>3, <1>4

\* The bounds are numbers.
LEMMA BoundTypes ==
    ASSUME EntryTypeOK, NEW p \in Pos
    PROVE  /\ MarketSent(p) \in 0 .. 2 /\ JanitorSent(p) \in 0 .. MaxSlots + 2
           /\ sent \in Nat
BY RetryAssumption DEF MarketSent, JanitorSent, EntryTypeOK, Key

\* An entry that is pending is the leg's last.
LEMMA PendingIsLast ==
    ASSUME EntriesInOrder, NEW p \in Pos, status[p] = "pending"
    PROVE  IsLast(p)
BY DEF EntriesInOrder, IsLast

\* The evaluation resumes the last entry when its marker is gone, and then it
\* has pushed it once at most.
LEMMA FindStep ==
    ASSUME EntryInv, EntryTypeOK', NEW p \in Pos, FindReservation(p)
    PROVE  EntryInv'
<1> USE DEF EntryInv, FindReservation, At, rowVars, redisVars, queueVars
<1>1. IsLast(p) /\ p \notin lapsed
  BY PendingIsLast DEF ActiveReservations
<1>2. EntriesInOrder'
  BY <1>1 DEF EntriesInOrder, IsLast
<1>3. KeysAreHeld' /\ SendersHoldKeys'
  BY DEF KeysAreHeld, SendersHoldKeys
<1>4. SendsCounted'
  <2> SUFFICES ASSUME NEW q \in Pos, IsLast(q)'
               PROVE  sent' <= MarketSent(q)' + JanitorSent(q)'
    BY DEF SendsCounted
  <2>1. q = p
    BY <1>1 DEF IsLast, Pos
  <2>2. sent <= MarketSent(p) + JanitorSent(p) /\ JanitorSent(p)' = JanitorSent(p)
    BY <1>1 DEF SendsCounted, JanitorSent
  <2>3. MarketSent(p) = MarketSent(p)'
    BY <1>1 DEF MarketSent, Sending, MarketKey, NoPos, Pos
  <2> QED
    BY <2>1, <2>2, <2>3
<1> QED
  BY <1>2, <1>3, <1>4

\* A new entry has no key of its own and no push yet.
LEMMA ReserveStep ==
    ASSUME EntryInv, EntryTypeOK', NEW p \in Pos, Reserve(p)
    PROVE  EntryInv'
<1> USE DEF EntryInv, Reserve, At, redisVars
<1>1. \A q \in Pos : status'[q] = IF q = p THEN "pending" ELSE status[q]
  BY DEF EntryTypeOK
<1>2. IsLast(p)' /\ \A q \in Pos : IsLast(q)' => q = p
  BY <1>1 DEF IsLast, Pos
<1>3. p \notin lapsed /\ lapsed \subseteq Pos
  BY DEF EntriesInOrder, EntryTypeOK
<1>4. EntriesInOrder'
  <2>1. \A q, r \in Pos : q < r /\ status'[r] # "none" => status'[q] = "over"
    BY <1>1 DEF Pos
  <2>2. \A q \in lapsed' : status'[q] # "none"
    BY <1>1, <1>3 DEF EntriesInOrder
  <2>3. janitor'.step # "idle" => janitor'.pos \in Pos /\ status'[janitor'.pos] # "none"
    BY <1>1 DEF EntriesInOrder
  <2> QED
    BY <1>2, <2>1, <2>2, <2>3 DEF EntriesInOrder, EntryTypeOK
<1>5. KeysAreHeld'
  <2>1. \A k \in Key : \A q \in {marker[k], slotsTill[k]} \ {NoPos} :
          q \in Pos /\ q \notin lapsed /\ status'[q] # "none"
    BY <1>1 DEF EntryTypeOK, KeysAreHeld
  <2> QED
    BY <2>1 DEF KeysAreHeld
<1>6. SendersHoldKeys'
  BY DEF SendersHoldKeys
<1>7. marker[p] = NoPos
  BY DEF KeysAreHeld, Key
<1>8. SendsCounted'
  BY <1>2, <1>3, <1>7 DEF SendsCounted, MarketSent, JanitorSent, Sending
<1> QED
  BY <1>4, <1>5, <1>6, <1>8

\* The evaluation takes its key: the marker, which for a resumed entry is free,
\* or a slot, which only a fresh one comes to.
LEMMA SendStep ==
    ASSUME EntryInv, EntryTypeOK', Send
    PROVE  EntryInv'
<1> USE DEF EntryInv, Send, MoveTo, At, rowVars, queueVars
<1> DEFINE p == eval.pos
<1>1. /\ p \in Pos /\ IsLast(p) /\ status[p] # "none"
      /\ eval' = [eval EXCEPT !.step = "pushing"]
      /\ eval'.step = "pushing" /\ eval'.pos = p /\ eval'.kind = eval.kind
  BY DEF EntriesInOrder, IsLast, EntryTypeOK
<1>2. EntriesInOrder'
  BY <1>1 DEF EntriesInOrder, IsLast
<1>3. KeysAreHeld'
  BY <1>1, TakenKeysAreHeld
<1>4. \A k \in Pos : marker'[k] = marker[k] /\ slots'[k] = slots[k]
  <2>0. MarketKey \notin Pos /\ Pos \subseteq Key
    BY DEF MarketKey, Pos, Key
  <2>1. CASE SetMarker(MarketKey, p) /\ UNCHANGED <<slots, slotsTill>>
    BY <2>0, <2>1 DEF SetMarker, EntryTypeOK
  <2>2. CASE marker[MarketKey] # NoPos /\ TakeSlot(MarketKey, p) /\ UNCHANGED marker
    <3>1. \/ slots' = [slots EXCEPT ![MarketKey] = slots[MarketKey] + 1]
          \/ slots' = [slots EXCEPT ![MarketKey] = IF p \in lapsed THEN 0 ELSE 1]
      BY <2>2 DEF TakeSlot
    <3> QED
      BY <2>0, <2>2, <3>1 DEF EntryTypeOK
  <2> QED
    BY <2>1, <2>2 DEF MayPush
<1>5. SendersHoldKeys'
  <2>1. eval.kind # "fresh" /\ p \notin lapsed => marker'[MarketKey] = p
    <3>1. eval.kind # "fresh" => marker[MarketKey] = NoPos
      BY DEF SendersHoldKeys, EntryTypeOK
    <3>2. eval.kind # "fresh" => SetMarker(MarketKey, p)
      BY <3>1 DEF MayPush
    <3> QED
      BY <3>2 DEF SetMarker, EntryTypeOK, Holder, Key
  <2>2. eval.kind = "resumed" => eval.kind # "fresh"
    OBVIOUS
  <2>3. janitor'.step = "pushing" /\ janitor'.pos \notin lapsed' =>
          marker'[janitor'.pos] # NoPos
    BY <1>4 DEF SendersHoldKeys, EntriesInOrder
  <2> QED
    BY <1>1, <2>1, <2>2, <2>3 DEF SendersHoldKeys
<1>6. SendsCounted'
  <2> SUFFICES ASSUME NEW q \in Pos, IsLast(q)'
               PROVE  sent' <= MarketSent(q)' + JanitorSent(q)'
    BY DEF SendsCounted
  <2>1. sent <= MarketSent(q) + JanitorSent(q)
    BY DEF SendsCounted, IsLast
  <2>2. JanitorSent(q)' = JanitorSent(q)
    BY <1>4 DEF JanitorSent
  <2>3. MarketSent(q) = MarketSent(q)'
    <3>1. CASE eval.kind = "fresh"
      BY <1>1, <3>1 DEF MarketSent, Sending
    <3>2. CASE eval.kind # "fresh"
      <4>1. marker[MarketKey] = NoPos
        BY <3>2 DEF SendersHoldKeys, EntryTypeOK
      <4> QED
        BY <1>1, <3>2, <4>1 DEF MarketSent, Sending, NoPos, Pos
    <3> QED
      BY <3>1, <3>2
  <2> QED
    BY <2>1, <2>2, <2>3
<1> QED
  BY <1>2, <1>3, <1>5, <1>6

\* A push of the last entry is counted where the evaluation is at it.
LEMMA EvalPushes ==
    ASSUME EntryInv, EntryTypeOK', KeepsRows, At("pushing"), Push(eval.pos), Stop,
           UNCHANGED <<lapsed, redisVars, janitor>>
    PROVE  EntryInv'
<1> USE DEF EntryInv, At, Stop, Idle
<1>1. eval.pos \in Pos /\ IsLast(eval.pos) /\ sent' \in {sent, sent + 1}
  BY PushTypes DEF EntriesInOrder
<1>2. EntriesInOrder'
  BY <1>1, RowsStayInOrder DEF KeepsPlaces
<1>3. KeysAreHeld'
  BY KeysStayHeld
<1>4. SendersHoldKeys'
  BY DEF SendersHoldKeys, redisVars
<1>5. SendsCounted'
  <2> SUFFICES ASSUME NEW p \in Pos, IsLast(p)'
               PROVE  sent' <= MarketSent(p)' + JanitorSent(p)'
    BY DEF SendsCounted
  <2>1. IsLast(p) /\ sent <= MarketSent(p) + JanitorSent(p)
    BY LastStays DEF SendsCounted
  <2>2. JanitorSent(p)' = JanitorSent(p)
    BY DEF JanitorSent, redisVars
  <2>3. MarketSent(p) + 1 <= MarketSent(p)'
    <3>1. p = eval.pos
      BY <1>1, <2>1 DEF IsLast, Pos
    <3>2. eval.kind = "fresh" \/ eval.kind = "resumed"
      BY DEF EntryTypeOK
    <3> QED
      BY <3>1, <3>2 DEF MarketSent, Sending, redisVars, SendersHoldKeys
  <2>4. MarketSent(p)' \in Int
    BY DEF MarketSent
  <2> QED
    BY <1>1, <2>1, <2>2, <2>3, <2>4, BoundTypes
<1> QED
  BY <1>2, <1>3, <1>4, <1>5

\* The janitor lists an entry whose deadline has not passed.
LEMMA ListStep ==
    ASSUME EntryInv, EntryTypeOK', NEW p \in Pos, ListOrphan(p)
    PROVE  EntryInv'
<1> USE DEF EntryInv, ListOrphan, rowVars, redisVars, queueVars, ActiveReservations
<1>1. EntriesInOrder'
  BY DEF EntriesInOrder, IsLast
<1>2. KeysAreHeld' /\ SendersHoldKeys'
  BY DEF KeysAreHeld, SendersHoldKeys, At
<1>3. SendsCounted'
  <2>1. \A q \in Pos : q \in lapsed => JanitorSent(q)' = JanitorSent(q)
    BY DEF JanitorSent, Waiting, NoPos, Pos
  <2>2. \A q \in Pos : q \notin lapsed => JanitorSent(q)' = JanitorSent(q)
    BY DEF JanitorSent, Waiting
  <2> QED
    BY <2>1, <2>2 DEF SendsCounted, MarketSent, Sending, At, IsLast
<1> QED
  BY <1>1, <1>2, <1>3

\* The janitor takes the marker or a slot of the position, or, after the
\* deadline, a key that nobody holds.
LEMMA JanitorSendStep ==
    ASSUME EntryInv, EntryTypeOK', JanitorSends
    PROVE  EntryInv'
<1> USE DEF EntryInv, JanitorSends, JanitorKey, rowVars, queueVars
<1> DEFINE p == janitor.pos
<1>1. /\ p \in Pos /\ status[p] # "none" /\ janitor'.pos = p
      /\ janitor.step = "sending" /\ janitor'.step = "pushing"
      /\ p \in Key /\ p # MarketKey /\ MarketKey \in Key /\ Pos \subseteq Key
  BY DEF EntriesInOrder, EntryTypeOK, Key, Pos, MarketKey
<1> HIDE DEF p
<1>2. EntriesInOrder'
  BY <1>1 DEF EntriesInOrder, IsLast, p
<1>3. KeysAreHeld'
  BY <1>1, TakenKeysAreHeld DEF p
<1>4. /\ \A k \in Key : k # p => marker'[k] = marker[k] /\ slots'[k] = slots[k]
      /\ p \notin lapsed => /\ marker'[p] # NoPos
                           /\ slots'[p] = IF marker[p] = NoPos THEN 0
                                          ELSE slots[p] + 1
  <2>0. p \notin lapsed => Holder(p) = p /\ p # NoPos
    BY <1>1 DEF Holder, NoPos, Pos
  <2>1. CASE SetMarker(p, p) /\ UNCHANGED <<slots, slotsTill>>
    <3>1. marker[p] = NoPos /\ marker' = [marker EXCEPT ![p] = Holder(p)]
      BY <2>1 DEF SetMarker
    <3>2. slots[p] = 0
      BY <1>1, <3>1, RetryAssumption DEF KeysAreHeld, EntryTypeOK
    <3> QED
      BY <1>1, <2>0, <2>1, <3>1, <3>2 DEF EntryTypeOK
  <2>2. CASE marker[p] # NoPos /\ TakeSlot(p, p) /\ UNCHANGED marker
    <3>1. slots[p] \in Nat
      BY <1>1, RetryAssumption DEF EntryTypeOK
    <3>2. CASE slots[p] > 0
      <4>1. slots' = [slots EXCEPT ![p] = slots[p] + 1]
        BY <2>2, <3>2 DEF TakeSlot
      <4> QED
        BY <1>1, <2>2, <4>1 DEF EntryTypeOK
    <3>3. CASE ~(slots[p] > 0)
      <4>1. slots' = [slots EXCEPT ![p] = IF p \in lapsed THEN 0 ELSE 1]
        BY <2>2, <3>3 DEF TakeSlot
      <4> QED
        BY <1>1, <2>2, <3>1, <3>3, <4>1 DEF EntryTypeOK
    <3> QED
      BY <3>2, <3>3
  <2> QED
    BY <2>1, <2>2 DEF MayPush, p
<1>5. SendersHoldKeys'
  BY <1>1, <1>4 DEF SendersHoldKeys, At
<1>6. SendsCounted'
  <2> SUFFICES ASSUME NEW q \in Pos, IsLast(q)'
               PROVE  sent' <= MarketSent(q)' + JanitorSent(q)'
    BY DEF SendsCounted
  <2>1. sent <= MarketSent(q) + JanitorSent(q)
    BY DEF SendsCounted, IsLast
  <2>2. MarketSent(q)' = MarketSent(q)
    BY <1>1, <1>4 DEF MarketSent, Sending, At
  <2>3. JanitorSent(q)' = JanitorSent(q)
    <3>1. CASE q = p
      <4>1. slots[p] \in Nat /\ janitor.pos = p
        BY <1>1, RetryAssumption DEF EntryTypeOK, p
      <4> QED
        BY <1>1, <1>4, <3>1, <4>1 DEF JanitorSent
    <3>2. CASE q # p
      BY <1>1, <1>4, <3>2 DEF JanitorSent, p
    <3> QED
      BY <3>1, <3>2
  <2> QED
    BY <2>1, <2>2, <2>3
<1> QED
  BY <1>2, <1>3, <1>5, <1>6

\* A push of the janitor is counted by its marker or its slot, and after the
\* deadline it is the janitor's last.
LEMMA JanitorPushStep ==
    ASSUME EntryInv, EntryTypeOK', JanitorPushes
    PROVE  EntryInv'
<1> USE DEF EntryInv, JanitorPushes, rowVars, redisVars, Waiting
<1> DEFINE p == janitor.pos
<1>1. p \in Pos /\ status[p] # "none" /\ p # NoPos
  BY DEF EntriesInOrder, NoPos, Pos
<1>2. sent' = IF IsLast(p) THEN sent + 1 ELSE sent
  BY <1>1 DEF Push, IsLast
<1>3. EntriesInOrder'
  <2>1. KeepsRows
    BY DEF KeepsRows
  <2>2. KeepsPlaces
    BY <1>1, <1>2 DEF KeepsPlaces
  <2> QED
    BY <2>1, <2>2, RowsStayInOrder
<1>4. KeysAreHeld' /\ SendersHoldKeys'
  BY DEF KeysAreHeld, SendersHoldKeys, At
<1>5. SendsCounted'
  <2> SUFFICES ASSUME NEW q \in Pos, IsLast(q)'
               PROVE  sent' <= MarketSent(q)' + JanitorSent(q)'
    BY DEF SendsCounted
  <2>1. IsLast(q) /\ sent <= MarketSent(q) + JanitorSent(q)
    BY DEF SendsCounted, IsLast
  <2>2. MarketSent(q)' = MarketSent(q)
    BY DEF MarketSent, Sending, At
  <2>3. CASE q = p
    <3>1. slots[p] \in Nat /\ (p \notin lapsed => marker[p] # NoPos)
      BY <1>1, RetryAssumption DEF EntryTypeOK, SendersHoldKeys, Key
    <3>2. JanitorSent(q)' = JanitorSent(q) + 1
      BY <1>1, <2>3, <3>1, RetryAssumption DEF JanitorSent
    <3> QED
      BY <1>2, <2>1, <2>2, <3>2, BoundTypes
  <2>4. CASE q # p
    <3>1. JanitorSent(q)' = JanitorSent(q)
      BY <1>1, <2>4 DEF JanitorSent, NoPos, Pos
    <3>2. ~ IsLast(p)
      BY <1>1, <2>1, <2>4 DEF IsLast, Pos
    <3> QED
      BY <1>2, <2>1, <2>2, <3>1, <3>2
  <2> QED
    BY <2>3, <2>4
<1> QED
  BY <1>3, <1>4, <1>5

\* A deadline takes the keys of its position along: what they counted so far is
\* within what is counted from then on.
LEMMA LapseStep ==
    ASSUME EntryInv, EntryTypeOK', NEW p \in Pos, Lapse(p)
    PROVE  EntryInv'
<1> USE DEF EntryInv, Lapse, queueVars
<1>1. /\ \A k \in Key : marker'[k] = IF marker[k] = p THEN NoPos ELSE marker[k]
      /\ \A k \in Key : slots'[k] = IF slotsTill[k] = p THEN 0 ELSE slots[k]
      /\ \A k \in Key :
            slotsTill'[k] = IF slotsTill[k] = p THEN NoPos ELSE slotsTill[k]
      /\ lapsed' = lapsed \cup {p} /\ status[p] # "none" /\ p # NoPos
      /\ Pos \subseteq Key /\ MarketKey \in Key
  BY DEF Key, NoPos, Pos, MarketKey
<1>2. EntriesInOrder'
  <2>1. \A q \in lapsed', r \in Pos : r < q => r \in lapsed'
    BY <1>1 DEF EntriesInOrder, Pos
  <2> QED
    BY <1>1, <2>1 DEF EntriesInOrder, IsLast
<1>3. KeysAreHeld'
  BY <1>1 DEF KeysAreHeld
<1>4. SendersHoldKeys'
  <2>1. At("pushing") /\ eval.kind = "resumed" /\ eval.pos \notin lapsed' =>
          marker'[MarketKey] = eval.pos
    BY <1>1 DEF SendersHoldKeys
  <2>2. janitor.step = "pushing" /\ janitor.pos \notin lapsed' =>
          marker'[janitor.pos] # NoPos
    BY <1>1 DEF SendersHoldKeys, EntriesInOrder, KeysAreHeld
  <2> QED
    BY <1>1, <2>1, <2>2 DEF SendersHoldKeys, At
<1>5. SendsCounted'
  <2> SUFFICES ASSUME NEW q \in Pos, IsLast(q)'
               PROVE  sent' <= MarketSent(q)' + JanitorSent(q)'
    BY DEF SendsCounted
  <2>1. sent <= MarketSent(q) + JanitorSent(q)
    BY DEF SendsCounted, IsLast
  <2>2. CASE q = p
    <3>1. MarketSent(p) <= MarketSent(p)'
      <4>1. p \notin lapsed /\ p \in lapsed'
        BY <1>1
      <4>2. CASE Sending /\ eval.kind # "fresh"
        <5>1. eval.step = "sending" => marker[MarketKey] # p
          BY <1>1, <4>2 DEF SendersHoldKeys, At, EntryTypeOK
        <5>2. MarketSent(p) = 1
          BY <4>1, <4>2, <5>1 DEF MarketSent, Sending, At
        <5>3. MarketSent(p)' = 1
          BY <4>1, <4>2 DEF MarketSent, Sending, At
        <5> QED
          BY <5>2, <5>3
      <4>3. CASE Sending /\ eval.kind = "fresh"
        BY <4>3 DEF MarketSent, Sending, At
      <4>4. CASE ~Sending
        <5>1. MarketSent(p)' = 2
          BY <4>1, <4>4 DEF MarketSent, Sending, At
        <5> QED
          BY <5>1, BoundTypes
      <4> QED
        BY <4>2, <4>3, <4>4
    <3>2. JanitorSent(p) <= JanitorSent(p)'
      <4>1. slots[p] \in 0 .. MaxSlots
        BY <1>1 DEF EntryTypeOK
      <4>2. janitor.pos = p => janitor.step = "sending" \/ janitor.step = "pushing"
                                \/ janitor.step = "idle"
        BY DEF EntryTypeOK
      <4>3. JanitorSent(p) <= slots[p] + 1
        BY <1>1, <4>1, RetryAssumption DEF JanitorSent
      <4>4. JanitorSent(p)' >= MaxSlots + 1
        BY <1>1, RetryAssumption DEF JanitorSent
      <4> QED
        BY <4>1, <4>3, <4>4, BoundTypes, RetryAssumption DEF JanitorSent
    <3>3. MarketSent(p)' \in Int /\ JanitorSent(p)' \in Int
      BY <1>1, RetryAssumption DEF MarketSent, JanitorSent
    <3> QED
      BY <2>1, <2>2, <3>1, <3>2, <3>3, BoundTypes
  <2>3. CASE q # p
    <3>1. q \in lapsed' <=> q \in lapsed
      BY <1>1, <2>3
    <3>2. marker'[q] = marker[q] /\ slots'[q] = slots[q]
      BY <1>1, <2>3 DEF KeysAreHeld
    <3>3. marker'[MarketKey] = q <=> marker[MarketKey] = q
      BY <1>1, <2>3 DEF NoPos, Pos
    <3> QED
      BY <2>1, <3>1, <3>2, <3>3 DEF MarketSent, JanitorSent, Sending, At
  <2> QED
    BY <2>2, <2>3
<1> QED
  BY <1>2, <1>3, <1>4, <1>5
\* The inductive invariant holds in every step: the steps that push, take a key,
\* reserve or lapse have a lemma each, the others are quiet.
LEMMA EntryInvPreserved ==
    ASSUME EntryInv, [EntryNext]_entryVars
    PROVE  EntryInv'
<1> USE DEF Stop, rowVars, redisVars, queueVars
<1>0. EntryTypeOK'
  BY EntryTypePreserved DEF EntryInv
<1>1. /\ EntryTypeOK /\ EntriesInOrder
      /\ status \in [Pos -> {"none", "pending", "open", "over"}]
  BY DEF EntryInv, EntryTypeOK
<1>2. ASSUME NEW p, status' = Cancelled(p) \/ status' = status  PROVE KeepsRows
  BY <1>1, <1>2 DEF KeepsRows, Cancelled
<1>3. ASSUME NEW p, Release(p)  PROVE KeepsRows
  BY <1>2, <1>3 DEF Release
<1>4. ASSUME NEW p \in Pos, FindReservation(p)  PROVE EntryInv'
  BY <1>0, <1>4, FindStep
<1>5. ASSUME NEW p \in Pos, Reserve(p)  PROVE EntryInv'
  BY <1>0, <1>5, ReserveStep
<1>6. CASE AbandonResume
  <2>1. KeepsRows
    BY <1>3, <1>6 DEF AbandonResume
  <2> QED
    BY <1>0, <1>6, <2>1, QuietStep DEF AbandonResume
<1>7. CASE Send
  BY <1>0, <1>7, SendStep
<1>8. CASE PushEntry
  <2>1. KeepsRows
    BY <1>8 DEF PushEntry, KeepsRows
  <2> QED
    BY <1>0, <1>8, <2>1, EvalPushes DEF PushEntry
<1>9. CASE SendBlocked
  <2>1. KeepsRows
    BY <1>9 DEF SendBlocked, KeepsRows
  <2>2. eval.kind = "fresh"
    BY <1>9 DEF SendBlocked, EntryInv, SendersHoldKeys, EntryTypeOK
  <2> QED
    BY <1>0, <1>9, <2>1, <2>2, QuietStep DEF SendBlocked, MoveTo
<1>10. CASE ResolveBlocked
  <2>1. KeepsRows
    BY <1>2, <1>3, <1>10 DEF ResolveBlocked
  <2> QED
    BY <1>0, <1>10, <2>1, QuietStep DEF ResolveBlocked
<1>11. ASSUME NEW p \in Pos, TakeJob(p)  PROVE EntryInv'
  <2>1. KeepsRows
    BY <1>2, <1>11 DEF TakeJob, Refuse
  <2> QED
    BY <1>0, <1>11, <2>1, QuietStep DEF TakeJob
<1>12. ASSUME NEW p \in Pos, FillEntry(p) \/ FailEntry(p) \/ ClosePosition(p)
       PROVE  EntryInv'
  <2>1. KeepsRows
    <3>1. CASE FillEntry(p)
      BY <1>1, <3>1 DEF FillEntry, KeepsRows
    <3>2. CASE FailEntry(p)
      BY <1>2, <3>2 DEF FailEntry
    <3>3. CASE ClosePosition(p)
      BY <1>1, <3>3 DEF ClosePosition, KeepsRows
    <3> QED
      BY <1>12, <3>1, <3>2, <3>3
  <2> QED
    BY <1>0, <1>12, <2>1, QuietStep DEF FillEntry, FailEntry, ClosePosition
<1>13. ASSUME NEW p \in Pos, ListOrphan(p)  PROVE EntryInv'
  BY <1>0, <1>13, ListStep
<1>14. CASE Claim
  <2>1. KeepsRows
    BY <1>2, <1>14 DEF Claim, Refuse
  <2> QED
    BY <1>0, <1>14, <2>1, QuietStep DEF Claim
<1>15. CASE JanitorSends
  BY <1>0, <1>15, JanitorSendStep
<1>16. CASE JanitorPushes
  BY <1>0, <1>16, JanitorPushStep
<1>17. CASE SkipOrphan \/ AlgoCrashes \/ WorkerCrashes \/ LoseJob
  <2>1. /\ UNCHANGED <<rowVars, redisVars, sent>>
        /\ eval' \in {eval, Idle} /\ janitor' \in {janitor, Waiting}
    BY <1>17 DEF SkipOrphan, AlgoCrashes, WorkerCrashes, LoseJob
  <2>2. KeepsRows
    BY <2>1 DEF KeepsRows
  <2> QED
    BY <1>0, <2>1, <2>2, QuietStep
<1>18. ASSUME NEW p \in Pos, Lapse(p)  PROVE EntryInv'
  BY <1>0, <1>18, LapseStep
<1>19. ASSUME NEW p \in Pos, CollectReservation(p)  PROVE EntryInv'
  <2>1. KeepsRows
    BY <1>1, <1>19 DEF CollectReservation, KeepsRows
  <2> QED
    BY <1>0, <1>19, <2>1, QuietStep DEF CollectReservation
<1>20. CASE SendFails
  <2>1. KeepsRows
    BY <1>2, <1>3, <1>20 DEF SendFails
  <2>2. CASE UNCHANGED queueVars
    BY <1>0, <1>20, <2>1, <2>2, QuietStep DEF SendFails
  <2>3. CASE At("pushing") /\ Push(eval.pos)
    BY <1>0, <1>20, <2>1, <2>3, EvalPushes DEF SendFails
  <2> QED
    BY <1>20, <2>2, <2>3 DEF SendFails
<1>21. CASE UNCHANGED entryVars
  <2>1. KeepsRows
    BY <1>21 DEF entryVars, KeepsRows
  <2> QED
    BY <1>0, <1>21, <2>1, QuietStep DEF entryVars
<1> QED
  BY <1>4, <1>5, <1>6, <1>7, <1>8, <1>9, <1>10, <1>11, <1>12, <1>13, <1>14,
     <1>15, <1>16, <1>17, <1>18, <1>19, <1>20, <1>21
     DEF EntryNext, Pipeline, Worker, Time, Faults

\* Whatever is evaluated, retried, lost or crashes, the pushes of the leg's last
\* entry are accounted for by the keys that were taken for it.
THEOREM EntryInvariant == EntrySpec => []EntryInv
<1>1. EntryInit => EntryInv
  BY RetryAssumption DEF EntryInit, EntryInv, EntryTypeOK, EntriesInOrder,
     KeysAreHeld, SendersHoldKeys, SendsCounted, IsLast, Idle, Waiting, At,
     MarketKey, Key, Pos, NoPos
<1>2. EntryInv /\ [EntryNext]_entryVars => EntryInv'
  BY EntryInvPreserved
<1> QED
  BY <1>1, <1>2, PTL DEF EntrySpec

\* enqueueEntrySignal() and the pending-entry janitor push the job of an entry a
\* bounded number of times, for any number of positions, slots and faults.
THEOREM SendsBounded == EntrySpec => []SendsAreBounded
<1>1. EntryInv => SendsAreBounded
  <2> SUFFICES ASSUME EntryInv  PROVE SendsAreBounded
    OBVIOUS
  <2>1. CASE sent = 0
    BY <2>1, RetryAssumption DEF SendsAreBounded
  <2>2. CASE \E p \in Pos : IsLast(p)
    <3>1. PICK p \in Pos : IsLast(p)
      BY <2>2
    <3>2. sent <= MarketSent(p) + JanitorSent(p)
      BY <3>1 DEF EntryInv, SendsCounted
    <3> QED
      BY <3>2, BoundTypes, RetryAssumption DEF EntryInv, SendsAreBounded
  <2> QED
    BY <2>1, <2>2 DEF EntryInv, EntriesInOrder
<1> QED
  BY <1>1, EntryInvariant, PTL
=============================================================================
