------------------------------- MODULE Outbox -------------------------------
(***************************************************************************)
(* The transactional outbox: rows written by OutboxSubscriberService in    *)
(* the transaction of the entity change, claimed and published by the      *)
(* overlapping invocations of OutboxPublisherService.handleAuditEvents and *)
(* purged by OutboxCleanupService.handleOutboxCleanup.                     *)
(*                                                                         *)
(* A worker is one invocation of handleAuditEvents: @Cron starts one every *)
(* ten seconds whether or not the last one ended, in every instance of the *)
(* service.  An event is the rank of its row by (created_at, id), so `<'   *)
(* on events is the order of the claim's ORDER BY.  Time is counted in     *)
(* ticks, and only the age of a claim is kept.                             *)
(***************************************************************************)
EXTENDS Integers, FiniteSets

CONSTANTS
    Worker,             \* invocations that can be alive at once
    MaxEvents,          \* bound: events ever recorded
    BatchSize,          \* OutboxPublisherService.BATCH_SIZE
    CleanBatchSize,     \* BATCH_SIZE of handleOutboxCleanup
    ProcessingTimeout,  \* PROCESSING_TIMEOUT_MS, in ticks
    MaxFaults           \* bound: failed calls and crashes

ASSUME OutboxConstants ==
    /\ MaxEvents \in Nat
    /\ BatchSize \in Nat \ {0}
    /\ CleanBatchSize \in Nat \ {0}
    /\ ProcessingTimeout \in Nat
    /\ MaxFaults \in Nat
    /\ IsFiniteSet(Worker)

VARIABLES
    recorded,   \* history: events whose transaction committed
    status,     \* status[e]: column status, "absent" when there is no row
    age,        \* age[e]: ticks since claimed_at, read only while PROCESSING
    pc,         \* pc[w]: the await at which worker w is suspended
    batch,      \* batch[w]: claimed events worker w has still to handle
    clock,      \* clock[w]: ticks since worker w took `now'
    sends,      \* sends[e]: history, how often the broker accepted e
    cleaning,   \* a handleOutboxCleanup invocation is in its loop
    faults,     \* failures so far
    timely      \* history: no batch has outlived ProcessingTimeout

rows == <<recorded, status, age>>
workers == <<pc, batch, clock>>
vars == <<recorded, status, age, pc, batch, clock, sends, cleaning, faults,
          timely>>

Event == 1..MaxEvents
Age == 0..(ProcessingTimeout + 1)
\* OutboxStatus without FAILED, which nothing writes.
Status == {"absent", "PENDING", "PROCESSING", "SENT"}
\* "resetting" and "resettingSent" are the same await, the update in the catch
\* block: the second says that the row was marked SENT by this worker although
\* the call was rejected, which the worker cannot know.
PC == {"idle", "claiming", "emitting", "marking", "resetting", "resettingSent"}

Init ==
    /\ recorded = {}
    /\ status = [e \in Event |-> "absent"]
    /\ age = [e \in Event |-> 0]
    /\ pc = [w \in Worker |-> "idle"]
    /\ batch = [w \in Worker |-> {}]
    /\ clock = [w \in Worker |-> 0]
    /\ sends = [e \in Event |-> 0]
    /\ cleaning = FALSE
    /\ faults = 0
    /\ timely = TRUE

Fault ==
    /\ faults < MaxFaults
    /\ faults' = faults + 1

-----------------------------------------------------------------------------
(* Recording: afterInsert, afterUpdate and afterRemove save the row with   *)
(* event.manager, so it is committed with the change it reports; a rolled  *)
(* back transaction leaves nothing.  created_at is taken when the          *)
(* transaction runs, so rows may become visible in any order.              *)

Record(e) ==
    /\ e \in Event \ recorded
    /\ recorded' = recorded \union {e}
    /\ status' = [status EXCEPT ![e] = "PENDING"]
    /\ UNCHANGED <<age, workers, sends, cleaning, faults, timely>>

-----------------------------------------------------------------------------
(* Claiming: SELECT ... FOR UPDATE SKIP LOCKED, then UPDATE, then COMMIT.  *)

\* Mutant of Locked: the claim selects without FOR UPDATE SKIP LOCKED.
LockedNothing == {}

\* Row locks held by claims that are not committed yet.
Locked == UNION {batch[w] : w \in {v \in Worker : pc[v] = "claiming"}}

\* Mutant of Stale: claimed_at <= staleBefore.
StaleAtTimeout(e) == age[e] >= ProcessingTimeout

\* claimed_at < staleBefore
Stale(e) == age[e] > ProcessingTimeout

\* Mutant of Available: the claim looks for PENDING rows only.
AvailablePendingOnly == {e \in Event \ Locked : status[e] = "PENDING"}

\* The WHERE clause of the claim, rows locked by another claim skipped.
Available ==
    {e \in Event \ Locked :
        \/ status[e] = "PENDING"
        \/ status[e] = "PROCESSING" /\ Stale(e)}

\* ORDER BY created_at, id LIMIT BATCH_SIZE
Oldest(S) == {e \in S : Cardinality({d \in S : d < e}) < BatchSize}

\* The locking SELECT; when nothing is available the handler ends at once.
Claim(w) ==
    /\ pc[w] = "idle"
    /\ Available # {}
    /\ batch' = [batch EXCEPT ![w] = Oldest(Available)]
    /\ clock' = [clock EXCEPT ![w] = 0]
    /\ pc' = [pc EXCEPT ![w] = "claiming"]
    /\ UNCHANGED <<rows, sends, cleaning, faults, timely>>

\* The UPDATE to PROCESSING and the COMMIT that releases the locks.
CommitClaim(w) ==
    /\ pc[w] = "claiming"
    /\ status' = [e \in Event |-> IF e \in batch[w] THEN "PROCESSING" ELSE status[e]]
    /\ age' = [e \in Event |-> IF e \in batch[w] THEN clock[w] ELSE age[e]]
    /\ pc' = [pc EXCEPT ![w] = "emitting"]
    /\ UNCHANGED <<recorded, batch, clock, sends, cleaning, faults, timely>>

-----------------------------------------------------------------------------
(* Publishing: the loop of handleAuditEvents over its batch.               *)

\* The event the loop is at (a set of one event while the batch lasts).
Head(w) == {e \in batch[w] : \A d \in batch[w] : e <= d}

\* outboxRepository.update(event.id, ...): waits for a claim's row lock, and
\* changes nothing when the row was purged.
Write(e, s) ==
    /\ e \notin Locked
    /\ status' = [status EXCEPT ![e] = IF @ = "absent" THEN "absent" ELSE s]
    /\ age' = [age EXCEPT ![e] = 0]

\* The loop goes on with the rest of the batch, or the handler ends.
NextEvent(w, e) ==
    /\ batch' = [batch EXCEPT ![w] = @ \ {e}]
    /\ pc' = [pc EXCEPT ![w] = IF batch[w] = {e} THEN "idle" ELSE "emitting"]
    /\ UNCHANGED clock

\* The handler is abandoned: an exception leaves it, or its process dies.
Abandon(w) ==
    /\ batch' = [batch EXCEPT ![w] = {}]
    /\ pc' = [pc EXCEPT ![w] = "idle"]
    /\ UNCHANGED clock

\* auditClient.emit resolves.
Emit(w) == \E e \in Head(w) :
    /\ pc[w] = "emitting"
    /\ sends' = [sends EXCEPT ![e] = @ + 1]
    /\ pc' = [pc EXCEPT ![w] = "marking"]
    /\ UNCHANGED <<rows, batch, clock, cleaning, faults, timely>>

\* Mutant of EmitFails: emit is not awaited, so its rejection is not seen.
EmitFailsUnseen(w) == \E e \in Head(w), accepted \in {0, 1} :
    /\ pc[w] = "emitting"
    /\ Fault
    /\ sends' = [sends EXCEPT ![e] = @ + accepted]
    /\ pc' = [pc EXCEPT ![w] = "marking"]
    /\ UNCHANGED <<rows, batch, clock, cleaning, timely>>

\* auditClient.emit rejects, before or after the broker took the message.
EmitFails(w) == \E e \in Head(w), accepted \in {0, 1} :
    /\ pc[w] = "emitting"
    /\ Fault
    /\ sends' = [sends EXCEPT ![e] = @ + accepted]
    /\ pc' = [pc EXCEPT ![w] = "resetting"]
    /\ UNCHANGED <<rows, batch, clock, cleaning, timely>>

\* Mutant of MarkSent: the row of a published event is not updated.
MarkSentNowhere(w) == \E e \in Head(w) :
    /\ pc[w] = "marking"
    /\ NextEvent(w, e)
    /\ UNCHANGED <<rows, sends, cleaning, faults, timely>>

\* The update to SENT inside the try block.
MarkSent(w) == \E e \in Head(w) :
    /\ pc[w] = "marking"
    /\ Write(e, "SENT")
    /\ NextEvent(w, e)
    /\ UNCHANGED <<recorded, sends, cleaning, faults, timely>>

\* The update to SENT is rejected, without effect or after it was committed
\* (the connection is lost before the answer): the same catch block as for a
\* failed emit.
MarkFails(w) == \E e \in Head(w) :
    /\ pc[w] = "marking"
    /\ Fault
    /\ \/ /\ pc' = [pc EXCEPT ![w] = "resetting"]
          /\ UNCHANGED <<status, age>>
       \/ /\ pc' = [pc EXCEPT ![w] = "resettingSent"]
          /\ Write(e, "SENT")
    /\ UNCHANGED <<recorded, batch, clock, sends, cleaning, timely>>

\* The worker is in the catch block.
Resetting(w) == pc[w] \in {"resetting", "resettingSent"}

\* Mutant of ResetPending: FAILED, which no query of the service looks for.
ResetToFailed(w) == \E e \in Head(w) :
    /\ Resetting(w)
    /\ Write(e, "FAILED")
    /\ NextEvent(w, e)
    /\ UNCHANGED <<recorded, sends, cleaning, faults, timely>>

\* The update to PENDING in the catch block.
ResetPending(w) == \E e \in Head(w) :
    /\ Resetting(w)
    /\ Write(e, "PENDING")
    /\ NextEvent(w, e)
    /\ UNCHANGED <<recorded, sends, cleaning, faults, timely>>

\* The update to PENDING throws out of the handler, a claim is rolled back,
\* or the process of the worker dies: the rest of the batch stays PROCESSING.
Crash(w) ==
    /\ pc[w] # "idle"
    /\ Fault
    /\ Abandon(w)
    /\ UNCHANGED <<rows, sends, cleaning, timely>>

-----------------------------------------------------------------------------
(* Purging.                                                                *)

\* Mutant of Sent: the purge takes whatever is not PENDING.
SentOrClaimed == {e \in Event : status[e] \in {"PROCESSING", "SENT"}}

\* The rows the DELETE selects.
Sent == {e \in Event : status[e] = "SENT"}

StartCleanup ==
    /\ ~cleaning
    /\ Sent # {}
    /\ cleaning' = TRUE
    /\ UNCHANGED <<rows, workers, sends, faults, timely>>

\* One DELETE of the do ... while loop; LIMIT without ORDER BY: any rows.
CleanupStep ==
    /\ cleaning
    /\ \E S \in SUBSET Sent :
        /\ IF Cardinality(Sent) <= CleanBatchSize
           THEN S = Sent
           ELSE Cardinality(S) = CleanBatchSize
        /\ status' = [e \in Event |-> IF e \in S THEN "absent" ELSE status[e]]
        /\ cleaning' = (Cardinality(S) = CleanBatchSize)
    /\ UNCHANGED <<recorded, age, workers, sends, faults, timely>>

\* The DELETE throws (caught and logged) or the process dies.
CleanupFails ==
    /\ cleaning
    /\ Fault
    /\ cleaning' = FALSE
    /\ UNCHANGED <<rows, workers, sends, timely>>

-----------------------------------------------------------------------------
(* Time.                                                                   *)

Ageing(e) == status[e] = "PROCESSING" /\ age[e] <= ProcessingTimeout
Running(w) == pc[w] # "idle" /\ clock[w] <= ProcessingTimeout

Tick ==
    /\ \/ \E e \in Event : Ageing(e)
       \/ \E w \in Worker : Running(w)
    /\ timely' = (timely /\ \A w \in Worker : pc[w] # "idle" => clock[w] < ProcessingTimeout)
    /\ age' = [e \in Event |-> IF Ageing(e) THEN age[e] + 1 ELSE age[e]]
    /\ clock' = [w \in Worker |-> IF Running(w) THEN clock[w] + 1 ELSE clock[w]]
    /\ UNCHANGED <<recorded, status, pc, batch, sends, cleaning, faults>>

-----------------------------------------------------------------------------
Work(w) ==
    \/ CommitClaim(w)
    \/ Emit(w)
    \/ MarkSent(w)
    \/ ResetPending(w)

Failure(w) ==
    \/ EmitFails(w)
    \/ MarkFails(w)
    \/ Crash(w)

Next ==
    \/ \E e \in Event : Record(e)
    \/ \E w \in Worker : Claim(w) \/ Work(w) \/ Failure(w)
    \/ StartCleanup
    \/ CleanupStep
    \/ CleanupFails
    \/ Tick

Spec == Init /\ [][Next]_vars

\* The scheduler keeps starting claims and cleanups, a call that was made
\* returns or fails, and time passes.
Fairness ==
    /\ WF_vars(\E w \in Worker : Claim(w))
    /\ \A w \in Worker : WF_vars(Work(w))
    /\ WF_vars(StartCleanup)
    /\ WF_vars(CleanupStep)
    /\ WF_vars(Tick)

FairSpec == Spec /\ Fairness

-----------------------------------------------------------------------------
(* Properties.                                                             *)

\* Type invariant of the rows, the workers and the histories.
TypeOK ==
    /\ recorded \subseteq Event
    /\ status \in [Event -> Status]
    /\ age \in [Event -> Age]
    /\ pc \in [Worker -> PC]
    /\ batch \in [Worker -> SUBSET Event]
    /\ clock \in [Worker -> Age]
    /\ sends \in [Event -> Nat]
    /\ cleaning \in BOOLEAN
    /\ faults \in 0..MaxFaults
    /\ timely \in BOOLEAN

\* At-least-once, the safety half: a row that claims to be SENT, or that the
\* cleanup purged, was accepted by the broker, whatever failed and however
\* the claims, the retries and the purge interleaved.
NoLostEvent ==
    \A e \in recorded : status[e] \in {"absent", "SENT"} => sends[e] > 0

\* As long as every batch has ended within PROCESSING_TIMEOUT, the row locks and
\* the PROCESSING status keep two live workers off the same event.
ExclusiveClaim ==
    timely =>
        \A v, w \in Worker : v # w => batch[v] \intersect batch[w] = {}

\* ... so that an event is published a second time only after a failure:
\* each duplicate is paid for by a failed call or a crash.
DuplicatesNeedFaults ==
    timely => \A e \in Event : sends[e] <= 1 + faults

\* A SENT row that the worker which marked it is going to re-open: its own
\* update was committed, its call rejected.
Doubted(e) == \E w \in Worker : pc[w] = "resettingSent" /\ e \in Head(w)

\* ... and a row that reached SENT is never re-opened by another worker: apart
\* from the catch block of the very call that marked it, only the purge can
\* still change it.
SentIsFinal ==
    [][timely =>
        \A e \in Event : status[e] = "SENT" /\ ~Doubted(e) =>
            status'[e] \in {"SENT", "absent"}]_vars

\* Even when batches do outlive the timeout there is no storm of duplicates:
\* an event is published at most once per worker that can hold it, and once
\* more per worker each time a failure re-opens its row.
BoundedDuplicates ==
    \A e \in Event : sends[e] <= Cardinality(Worker) * (1 + faults)

\* Every recorded event is in the end published and purged: no claim, crash
\* or failed reset leaves a row behind for ever.
EventuallyDrained ==
    \A e \in Event : e \in recorded ~> status[e] = "absent"

\* The refinement mapping to the promise made to the audit service.
AD == INSTANCE AuditDelivery WITH
        recorded <- recorded,
        delivered <- {e \in Event : sends[e] > 0},
        retained <- {e \in Event : status[e] # "absent"}

\* The outbox implements at-least-once delivery, liveness included.
DeliversAtLeastOnce == AD!ADSpec
=============================================================================
