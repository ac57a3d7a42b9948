---------------------------- MODULE EntryRetries ----------------------------
(***************************************************************************)
(* How the job of a reserved entry reaches the worker, for one leg of a    *)
(* market in one mode.  A strategy process evaluates the market, one       *)
(* evaluation at a time, reserves a position and sends a job, guarded by   *)
(* keys in Redis: a dedupe marker, and a few retry slots.  When the job is *)
(* lost, the process's next evaluation or the worker's pending-entry       *)
(* janitor sends it again, until the reservation's deadline.  Each of the  *)
(* two asks Redis and the database in turn, so what it read may be stale   *)
(* when it pushes.  What an order does to the rows is PositionLedger's     *)
(* business; here a position is pending exactly while it is reserved,      *)
(* which PositionLedger shows.                                             *)
(***************************************************************************)
EXTENDS Integers

CONSTANTS
    MaxPos,         \* bound: positions ever reserved
    MaxSlots,       \* ENTRY_ENQUEUE_MAX_RETRIES_PER_RESERVATION
    MaxFaults       \* bound: crashes, failed commands and lost jobs

ASSUME RetryAssumption ==
    MaxPos \in Nat \ {0} /\ MaxSlots \in Nat /\ MaxFaults \in Nat

Pos == 1 .. MaxPos
NoPos == 0

\* Dedupe keys: the market's logical key, and janitor:<position>.
MarketKey == 0
Key == {MarketKey} \cup Pos

VARIABLES
    status,         \* position -> status of its row
    lapsed,         \* positions whose reservation's deadline has passed
    exec,           \* position -> its BUY execution
    marker,         \* key -> position whose deadline bounds its marker
    slots,          \* key -> retry slots taken
    slotsTill,      \* key -> position whose deadline bounds that count
    jobs,           \* position -> its jobs in the queue
    sent,           \* pushes of the leg's last entry so far (history)
    eval,           \* the entry the evaluation is sending
    worker,         \* position whose job the worker checked and has not claimed
    janitor,        \* the entry the pending-entry janitor is sending
    faults

rowVars == <<status, lapsed, exec>>
redisVars == <<marker, slots, slotsTill>>
queueVars == <<jobs, sent>>
entryVars == <<rowVars, redisVars, queueVars, eval, worker, janitor, faults>>

Idle == [step |-> "idle", pos |-> NoPos, kind |-> "resumed"]
Waiting == [step |-> "idle", pos |-> NoPos]

EntryTypeOK ==
    /\ status \in [Pos -> {"none", "pending", "open", "over"}]
    /\ lapsed \subseteq Pos
    /\ exec \in [Pos -> {"none", "placing", "filled", "failed"}]
    /\ marker \in [Key -> Pos \cup {NoPos}]
    /\ slots \in [Key -> 0 .. MaxSlots]
    /\ slotsTill \in [Key -> Pos \cup {NoPos}]
    /\ jobs \in [Pos -> Nat] /\ sent \in Nat
    /\ eval \in [step : {"idle", "sending", "pushing", "blocked"},
                 pos : Pos \cup {NoPos}, kind : {"fresh", "resumed"}]
    /\ worker \in Pos \cup {NoPos}
    /\ janitor \in [step : {"idle", "sending", "pushing"},
                    pos : Pos \cup {NoPos}]
    /\ faults \in 0 .. MaxFaults

EntryInit ==
    /\ status = [p \in Pos |-> "none"] /\ lapsed = {}
    /\ exec = [p \in Pos |-> "none"]
    /\ marker = [k \in Key |-> NoPos]
    /\ slots = [k \in Key |-> 0]
    /\ slotsTill = [k \in Key |-> NoPos]
    /\ jobs = [p \in Pos |-> 0] /\ sent = 0
    /\ eval = Idle /\ worker = NoPos /\ janitor = Waiting
    /\ faults = 0
-----------------------------------------------------------------------------
(* What the services do to the rows and to the keys.                       *)

InFlight(p) == exec[p] = "placing"

HasBuy(p) == exec[p] # "none"

Cancelled(p) == [status EXCEPT ![p] = IF @ = "pending" THEN "over" ELSE @]

\* ReservationService.release(): nothing while a BUY is in flight, else the
\* reservation goes and the position is cancelled.
Release(p) == status' = IF InFlight(p) THEN status ELSE Cancelled(p)

\* findActiveAlgoReservation()
ActiveReservations == {p \in Pos \ lapsed : status[p] = "pending"}

\* The position whose deadline ends a key that p sets: none, if p's has passed
\* and the key lives for a second only.
Holder(p) == IF p \in lapsed THEN NoPos ELSE p

\* enqueueUnique(): SET NX of the marker, until the deadline of p.
SetMarker(k, p) ==
    marker[k] = NoPos /\ marker' = [marker EXCEPT ![k] = Holder(p)]

\* Faulty variant: the count is read and not incremented.
UncountedSlot(k, p) ==
    slots[k] < MaxSlots /\ UNCHANGED <<slots, slotsTill>>

\* acquireBoundedRetrySlot(): the count lives until the deadline of the entry
\* that took the first slot.
TakeSlot(k, p) ==
    /\ slots[k] < MaxSlots
    /\ IF slots[k] > 0
       THEN /\ slots' = [slots EXCEPT ![k] = @ + 1]
            /\ UNCHANGED slotsTill
       ELSE /\ slots' = [slots EXCEPT ![k] = IF p \in lapsed THEN 0 ELSE 1]
            /\ slotsTill' = [slotsTill EXCEPT ![k] = Holder(p)]

\* enqueueEntrySignal() up to the push: the marker was free, or it is set, there
\* is no BUY and a slot is left.
MayPush(k, p) ==
    \/ SetMarker(k, p) /\ UNCHANGED <<slots, slotsTill>>
    \/ marker[k] # NoPos /\ ~HasBuy(p) /\ TakeSlot(k, p) /\ UNCHANGED marker

Push(p) ==
    /\ jobs' = [jobs EXCEPT ![p] = @ + 1]
    /\ sent' = IF \A q \in Pos : q > p => status[q] = "none" THEN sent + 1 ELSE sent
-----------------------------------------------------------------------------
(* The strategy process                                                    *)

At(step) == eval.step = step

MoveTo(step) == eval' = [eval EXCEPT !.step = step]

Stop == eval' = Idle

\* The entry pipeline finds a live reservation, no order of it in flight, and
\* the market's marker gone.
FindReservation(p) ==
    /\ At("idle") /\ p \in ActiveReservations
    /\ ~InFlight(p) /\ marker[MarketKey] = NoPos
    /\ eval' = [step |-> "sending", pos |-> p, kind |-> "resumed"]
    /\ UNCHANGED <<rowVars, redisVars, queueVars, worker, janitor, faults>>

\* The book can no longer fill what was reserved.
AbandonResume ==
    /\ At("sending") /\ eval.kind = "resumed" /\ Release(eval.pos) /\ Stop
    /\ UNCHANGED <<lapsed, exec, redisVars, queueVars, worker, janitor, faults>>

\* reserve() and updateOrderSignalId(): a new position, unless one of the leg is
\* still pending, open or closing.
Reserve(p) ==
    /\ At("idle") /\ status[p] = "none"
    /\ \A q \in Pos : IF q < p THEN status[q] = "over" ELSE status[q] = "none"
    /\ status' = [status EXCEPT ![p] = "pending"]
    /\ eval' = [step |-> "sending", pos |-> p, kind |-> "fresh"]
    /\ sent' = 0
    /\ UNCHANGED <<lapsed, exec, redisVars, jobs, worker, janitor, faults>>

Send ==
    /\ At("sending") /\ MayPush(MarketKey, eval.pos) /\ MoveTo("pushing")
    /\ UNCHANGED <<rowVars, queueVars, worker, janitor, faults>>

PushEntry ==
    /\ At("pushing") /\ Push(eval.pos) /\ Stop
    /\ UNCHANGED <<rowVars, redisVars, worker, janitor, faults>>

\* The marker is set and there is a BUY, no slot is left, or one was taken less
\* than ENTRY_ENQUEUE_RETRY_COOLDOWN_SECONDS ago.
SendBlocked ==
    /\ At("sending") /\ marker[MarketKey] # NoPos /\ MoveTo("blocked")
    /\ UNCHANGED <<rowVars, redisVars, queueVars, worker, janitor, faults>>

\* resolveEntryEnqueueBlocked(): left to the worker or to the marker's owner, or
\* given up.
ResolveBlocked ==
    /\ At("blocked") /\ Stop
    /\ IF ~HasBuy(eval.pos) /\ marker[MarketKey] # NoPos
       THEN UNCHANGED status
       ELSE Release(eval.pos)
    /\ UNCHANGED <<lapsed, exec, redisVars, queueVars, worker, janitor, faults>>

Pipeline ==
    \/ \E p \in Pos : FindReservation(p) \/ Reserve(p)
    \/ AbandonResume \/ Send \/ PushEntry \/ SendBlocked \/ ResolveBlocked
-----------------------------------------------------------------------------
(* The worker                                                              *)

\* The failed result of a refused job, which the ledger takes for the order of
\* the job that was not refused.
Refuse(p) ==
    /\ exec' = [exec EXCEPT ![p] = IF @ = "none" THEN @ ELSE "failed"]
    /\ status' = Cancelled(p)

\* rejectExpiredEntryReservation(): the job of an entry whose reservation is gone
\* or past its deadline is refused.
TakeJob(p) ==
    /\ worker = NoPos /\ jobs[p] > 0
    /\ jobs' = [jobs EXCEPT ![p] = @ - 1]
    /\ IF p \in ActiveReservations
       THEN worker' = p /\ UNCHANGED <<status, exec>>
       ELSE Refuse(p) /\ UNCHANGED worker
    /\ UNCHANGED <<lapsed, redisVars, sent, eval, janitor, faults>>

\* claim(): the first job places the order, one that finds it in flight leaves
\* it alone, one that finds it over is refused.
Claim ==
    /\ worker # NoPos /\ worker' = NoPos
    /\ \/ ~HasBuy(worker) /\ exec' = [exec EXCEPT ![worker] = "placing"]
          /\ UNCHANGED status
       \/ InFlight(worker) /\ UNCHANGED <<exec, status>>
       \/ exec[worker] \in {"filled", "failed"} /\ Refuse(worker)
    /\ UNCHANGED <<lapsed, redisVars, queueVars, eval, janitor, faults>>

\* finalize() of the order: a fill opens the position if it is still pending,
\* otherwise the order counts as failed.
FillEntry(p) ==
    /\ InFlight(p) /\ status[p] = "pending"
    /\ exec' = [exec EXCEPT ![p] = "filled"]
    /\ status' = [status EXCEPT ![p] = "open"]
    /\ UNCHANGED <<lapsed, redisVars, queueVars, eval, worker, janitor, faults>>

FailEntry(p) ==
    /\ InFlight(p)
    /\ exec' = [exec EXCEPT ![p] = "failed"]
    /\ status' = Cancelled(p)
    /\ UNCHANGED <<lapsed, redisVars, queueVars, eval, worker, janitor, faults>>

\* An exit is filled, or the market resolved and the position redeemed.
ClosePosition(p) ==
    /\ status[p] = "open" /\ status' = [status EXCEPT ![p] = "over"]
    /\ UNCHANGED <<lapsed, exec, redisVars, queueVars, eval, worker, janitor,
                   faults>>

\* loadOrphanPendingEntries(): pending, reserved, and no BUY.  A leg has one
\* active position at most; other rows of the list only take time.
ListOrphan(p) ==
    /\ janitor = Waiting /\ p \in ActiveReservations /\ ~HasBuy(p)
    /\ janitor' = [step |-> "sending", pos |-> p]
    /\ UNCHANGED <<rowVars, redisVars, queueVars, eval, worker, faults>>

\* Faulty variant: the janitor shares the market's dedupe key.
SharedKey(p) == MarketKey

JanitorKey(p) == p

JanitorSends ==
    /\ janitor.step = "sending" /\ MayPush(JanitorKey(janitor.pos), janitor.pos)
    /\ janitor' = [janitor EXCEPT !.step = "pushing"]
    /\ UNCHANGED <<rowVars, queueVars, eval, worker, faults>>

JanitorPushes ==
    /\ janitor.step = "pushing" /\ Push(janitor.pos) /\ janitor' = Waiting
    /\ UNCHANGED <<rowVars, redisVars, eval, worker, faults>>

\* Left as it is: the deadline passed, the book cannot fill it, or the marker is
\* set and there is a BUY or no slot.
SkipOrphan ==
    /\ janitor.step = "sending" /\ janitor' = Waiting
    /\ UNCHANGED <<rowVars, redisVars, queueVars, eval, worker, faults>>

Worker ==
    \/ \E p \in Pos : \/ TakeJob(p) \/ FillEntry(p) \/ FailEntry(p)
                     \/ ClosePosition(p) \/ ListOrphan(p)
    \/ Claim \/ JanitorSends \/ JanitorPushes \/ SkipOrphan
-----------------------------------------------------------------------------
(* Time and faults                                                         *)

\* Reservations have one time to live, so deadlines pass in their order.  The
\* keys go with the deadline, which they outlive by less than a second.
Lapse(p) ==
    /\ status[p] # "none" /\ p \notin lapsed /\ 1 .. p - 1 \subseteq lapsed
    /\ lapsed' = lapsed \cup {p}
    /\ marker' = [k \in Key |-> IF marker[k] = p THEN NoPos ELSE marker[k]]
    /\ slots' = [k \in Key |-> IF slotsTill[k] = p THEN 0 ELSE slots[k]]
    /\ slotsTill' =
           [k \in Key |-> IF slotsTill[k] = p THEN NoPos ELSE slotsTill[k]]
    /\ UNCHANGED <<status, exec, queueVars, eval, worker, janitor, faults>>

\* ReservationService.janitor()
CollectReservation(p) ==
    /\ status[p] = "pending" /\ p \in lapsed
    /\ status' = [status EXCEPT ![p] = "over"]
    /\ UNCHANGED <<lapsed, exec, redisVars, queueVars, eval, worker, janitor,
                   faults>>

Time == \E p \in Pos : Lapse(p) \/ CollectReservation(p)

Fault == faults < MaxFaults /\ faults' = faults + 1

\* A command of Redis fails, the push perhaps after it was done.  A fresh entry
\* gives its reservation up, its marker stays.
SendFails ==
    /\ Fault /\ eval.step \in {"sending", "pushing"} /\ Stop
    /\ IF eval.kind = "fresh" THEN Release(eval.pos) ELSE UNCHANGED status
    /\ \/ UNCHANGED queueVars
       \/ At("pushing") /\ Push(eval.pos)
    /\ UNCHANGED <<lapsed, exec, redisVars, worker, janitor>>

\* The strategy process dies, its reservation and its marker stay.
AlgoCrashes ==
    /\ Fault /\ ~At("idle") /\ Stop
    /\ UNCHANGED <<rowVars, redisVars, queueVars, worker, janitor>>

\* The worker dies, and the job in hand goes back into the queue; or a command
\* of its janitor fails.
WorkerCrashes ==
    /\ Fault /\ (worker # NoPos \/ janitor # Waiting)
    /\ jobs' = [p \in Pos |-> IF p = worker THEN jobs[p] + 1 ELSE jobs[p]]
    /\ worker' = NoPos /\ janitor' = Waiting
    /\ UNCHANGED <<rowVars, redisVars, sent, eval>>

\* A job is lost: its handler failed and the worker died before it was back in
\* the queue (RedisQueue's LostOnlyInTheGap).
LoseJob ==
    /\ Fault /\ worker # NoPos /\ worker' = NoPos /\ janitor' = Waiting
    /\ UNCHANGED <<rowVars, redisVars, queueVars, eval>>

Faults == SendFails \/ AlgoCrashes \/ WorkerCrashes \/ LoseJob

EntryNext == Pipeline \/ Worker \/ Time \/ Faults

EntrySpec == EntryInit /\ [][EntryNext]_entryVars

\* The timers of the worker and its consumer go on.  The book of the market can
\* fill the entry now and then, and a slot's cooldown ends: among the attempts
\* of the janitor some are not skipped.
FairEntrySpec ==
    /\ EntrySpec
    /\ \A p \in Pos : WF_entryVars(TakeJob(p)) /\ SF_entryVars(ListOrphan(p))
    /\ SF_entryVars(Claim)
    /\ WF_entryVars(JanitorSends \/ SkipOrphan) /\ SF_entryVars(JanitorSends)
    /\ WF_entryVars(JanitorPushes)
-----------------------------------------------------------------------------
\* SendsAreBounded: however often a market is evaluated and whatever fails, the
\* job of an entry is pushed a bounded number of times.  The strategy sends it
\* when it is reserved and, if an earlier entry's marker stood in the way, once
\* the marker is gone; the janitor once and with each slot; and one of them
\* again when it began before the deadline and pushes after it.
SendsAreBounded == sent <= MaxSlots + 4

\* The last entry of the leg: its pushes are what sent counts.
IsLast(p) == status[p] # "none" /\ \A q \in Pos : q > p => status[q] = "none"

\* Entries of the leg come one after the other and lapse in that order, and the
\* evaluation works on the last one.
EntriesInOrder ==
    /\ \A p, q \in Pos : p < q /\ status[q] # "none" => status[p] = "over"
    /\ \A p \in lapsed : status[p] # "none"
    /\ \A p \in lapsed, q \in Pos : q < p => q \in lapsed
    /\ eval.step # "idle" => eval.pos \in Pos /\ IsLast(eval.pos)
    /\ janitor.step # "idle" => janitor.pos \in Pos /\ status[janitor.pos] # "none"
    /\ sent = 0 \/ \E p \in Pos : IsLast(p)

\* A key ends with the deadline of its holder; the janitor's keys are held by
\* their own position, whose first slot comes after its marker.
KeysAreHeld ==
    /\ \A k \in Key : \A p \in {marker[k], slotsTill[k]} \ {NoPos} :
         p \notin lapsed /\ status[p] # "none"
    /\ \A k \in Key : slots[k] = 0 <=> slotsTill[k] = NoPos
    /\ \A k \in Pos : {marker[k], slotsTill[k]} \subseteq {NoPos, k}
    /\ \A k \in Pos : slots[k] > 0 => marker[k] # NoPos

\* An entry is resumed when the market's marker is free, which nobody else
\* takes, and pushed under it; the janitor pushes under a marker of the entry's.
\* Until the deadline.
SendersHoldKeys ==
    /\ At("sending") /\ eval.kind = "resumed" => marker[MarketKey] = NoPos
    /\ At("pushing") /\ eval.kind = "resumed" /\ eval.pos \notin lapsed =>
         marker[MarketKey] = eval.pos
    /\ janitor.step = "pushing" /\ janitor.pos \notin lapsed =>
         marker[janitor.pos] # NoPos

Sending == eval.step \in {"sending", "pushing"}

\* What the evaluation has pushed of the last entry at most: once when it was
\* reserved, and once more under a marker of its own.
MarketSent(p) ==
    IF Sending /\ eval.kind = "fresh" THEN 0
    ELSE IF \/ p \notin lapsed /\ marker[MarketKey] # p
            \/ p \notin lapsed /\ At("pushing")
            \/ p \in lapsed /\ Sending
         THEN 1 ELSE 2

\* What the janitor has: once for its marker and for each slot, but for the push
\* it is about to do; and once more after the deadline, if it began before.
JanitorSent(p) ==
    IF p \in lapsed
    THEN IF janitor.pos = p THEN MaxSlots + 1 ELSE MaxSlots + 2
    ELSE IF marker[p] = NoPos THEN 0
    ELSE IF janitor.step = "pushing" /\ janitor.pos = p THEN slots[p]
    ELSE slots[p] + 1

SendsCounted ==
    \A p \in Pos : IsLast(p) => sent <= MarketSent(p) + JanitorSent(p)

\* The inductive invariant.
EntryInv ==
    /\ EntryTypeOK
    /\ EntriesInOrder
    /\ KeysAreHeld
    /\ SendersHoldKeys
    /\ SendsCounted

\* LostEntriesAreSent: a reserved entry gets its order, unless it is given up
\* or its deadline passes first.  The pending-entry janitor makes up for a crash
\* between the rows, the keys and the push, for a job that was lost, and for the
\* marker of an earlier entry; not for more crashes than it has slots.
LostEntriesAreSent ==
    \A p \in Pos :
        status[p] = "pending" ~> HasBuy(p) \/ status[p] # "pending" \/ p \in lapsed
=============================================================================
