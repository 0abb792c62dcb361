------------------------- MODULE OutboxTimelyProofs -------------------------
(***************************************************************************)
(* What the claim protocol guarantees as long as no batch has outlived     *)
(* PROCESSING_TIMEOUT (timely), whatever else fails: no two workers        *)
(* hold the same event, a SENT row is re-opened by nobody but the worker   *)
(* whose own update was rejected, every duplicate is paid for by a         *)
(* failure, and an invocation without a failure delivers its batch.        *)
(* The argument: the age of a claimed row equals the age of its worker's   *)
(* batch, so a row in a live batch is never stale, and a claim takes only  *)
(* rows that are unlocked and either PENDING or stale.                     *)
(***************************************************************************)
EXTENDS OutboxProofs

\* The worker has committed its claim and is in the loop over its batch.
InLoop(w) == pc[w] \in {"emitting", "marking", "resetting", "resettingSent"}

\* A live batch is younger than the timeout.
BatchesAreYoung ==
    \A w \in Worker : pc[w] # "idle" => clock[w] <= ProcessingTimeout

\* The worker marked e, was told otherwise and is going to re-open it; the row
\* may have been purged meanwhile.
InDoubt(w, e) ==
    pc[w] = "resettingSent" /\ e \in Head(w) /\ status[e] \in {"SENT", "absent"}

\* A row in a live batch is PROCESSING and as old as the batch, or in doubt.
BatchRowsProcessing ==
    \A w \in Worker : InLoop(w) =>
        \A e \in batch[w] :
            \/ status[e] = "PROCESSING" /\ age[e] = clock[w]
            \/ InDoubt(w, e)

\* A row of an uncommitted claim is PENDING or was abandoned.
ClaimedRowsFree ==
    \A w \in Worker : pc[w] = "claiming" =>
        \A e \in batch[w] :
            status[e] = "PENDING" \/ (status[e] = "PROCESSING" /\ Stale(e))

\* An idle worker holds nothing.
IdleHoldsNothing == \A w \in Worker : pc[w] = "idle" => batch[w] = {}

\* No two workers hold the same event.
Exclusive == \A v, w \in Worker : v # w => batch[v] \intersect batch[w] = {}

\* The inductive invariant of the timely outbox.
TimelyInv ==
    /\ Inv
    /\ BatchesAreYoung
    /\ BatchRowsProcessing
    /\ ClaimedRowsFree
    /\ IdleHoldsNothing
    /\ Exclusive

LEMMA TimelyInit == Init => TimelyInv
<1> SUFFICES ASSUME Init PROVE TimelyInv
  OBVIOUS
<1>1. Inv
  BY InitInv
<1> QED BY <1>1 DEF Init, TimelyInv, BatchesAreYoung, BatchRowsProcessing,
                    ClaimedRowsFree, IdleHoldsNothing, Exclusive, InLoop, InDoubt

LEMMA TimelyClaim ==
  ASSUME TimelyInv, NEW w \in Worker, Claim(w), Inv'
  PROVE  TimelyInv'
<1> USE DEF TimelyInv, Inv, TypeOK
<1>1. /\ batch' = [batch EXCEPT ![w] = Oldest(Available)]
      /\ Oldest(Available) \subseteq Available
      /\ clock' = [clock EXCEPT ![w] = 0]
      /\ pc[w] = "idle" /\ pc' = [pc EXCEPT ![w] = "claiming"]
      /\ UNCHANGED <<status, age>>
  BY DEF Claim, Oldest, rows
<1>2. BatchesAreYoung'
  BY <1>1, OutboxConstants DEF BatchesAreYoung
<1>3. BatchRowsProcessing'
  BY <1>1 DEF BatchRowsProcessing, InLoop, InDoubt, Head
<1>4. ClaimedRowsFree'
  BY <1>1 DEF ClaimedRowsFree, Available, Stale
<1>5. IdleHoldsNothing'
  BY <1>1 DEF IdleHoldsNothing
<1>6. Exclusive'
  <2> SUFFICES ASSUME NEW v \in Worker, v # w, NEW e \in Available, e \in batch[v]
               PROVE  FALSE
    BY <1>1 DEF Exclusive
  <2>1. pc[v] # "claiming"
    BY DEF Available, Locked
  <2>2. InLoop(v)
    BY <2>1 DEF IdleHoldsNothing, InLoop, PC
  <2>3. status[e] = "PROCESSING" /\ age[e] = clock[v] /\ clock[v] <= ProcessingTimeout
    BY <2>2 DEF BatchRowsProcessing, BatchesAreYoung, InLoop, InDoubt, Available
  <2>4. age[e] > ProcessingTimeout
    BY <2>3 DEF Available, Stale
  <2> QED BY <2>3, <2>4, OutboxConstants DEF Age
<1> QED BY <1>2, <1>3, <1>4, <1>5, <1>6

LEMMA TimelyCommit ==
  ASSUME TimelyInv, NEW w \in Worker, CommitClaim(w), Inv'
  PROVE  TimelyInv'
<1> USE DEF TimelyInv, Inv, TypeOK
<1>1. /\ status' = [e \in Event |-> IF e \in batch[w] THEN "PROCESSING" ELSE status[e]]
      /\ age' = [e \in Event |-> IF e \in batch[w] THEN clock[w] ELSE age[e]]
      /\ pc[w] = "claiming" /\ pc' = [pc EXCEPT ![w] = "emitting"]
      /\ UNCHANGED <<batch, clock>>
  BY DEF CommitClaim
<1>2. \A v \in Worker : v # w => \A e \in batch[v] : status'[e] = status[e] /\ age'[e] = age[e]
  BY <1>1 DEF Exclusive
<1>3. BatchesAreYoung' /\ IdleHoldsNothing' /\ Exclusive'
  BY <1>1 DEF BatchesAreYoung, IdleHoldsNothing, Exclusive
<1>4. BatchRowsProcessing'
  <2> SUFFICES ASSUME NEW v \in Worker, InLoop(v)', NEW d \in batch[v]
               PROVE  (status'[d] = "PROCESSING" /\ age'[d] = clock[v]) \/ InDoubt(v, d)'
    BY <1>1 DEF BatchRowsProcessing
  <2>1. CASE v = w
    BY <1>1, <2>1
  <2>2. CASE v # w
    <3>1. InLoop(v) /\ pc'[v] = pc[v] /\ Head(v)' = Head(v)
      BY <1>1, <2>2 DEF InLoop, Head
    <3> QED BY <1>2, <2>2, <3>1 DEF BatchRowsProcessing, InDoubt
  <2> QED BY <2>1, <2>2
<1>5. ClaimedRowsFree'
  BY <1>1, <1>2 DEF ClaimedRowsFree, Stale
<1> QED BY <1>3, <1>4, <1>5

LEMMA TimelyWrite ==
  ASSUME TimelyInv, NEW w \in Worker, MarkSent(w) \/ ResetPending(w), Inv'
  PROVE  TimelyInv'
<1> USE DEF TimelyInv, Inv, TypeOK
<1>1. PICK e \in Head(w), s \in {"SENT", "PENDING"} : Write(e, s) /\ NextEvent(w, e)
  BY DEF MarkSent, ResetPending
<1>2. InLoop(w) /\ pc[w] # "idle" /\ e \in batch[w]
  BY DEF MarkSent, ResetPending, Resetting, InLoop, Head
<1>3. /\ clock' = clock
      /\ batch' = [batch EXCEPT ![w] = @ \ {e}]
      /\ pc' = [pc EXCEPT ![w] = IF batch[w] = {e} THEN "idle" ELSE "emitting"]
  BY <1>1 DEF NextEvent
<1>4. \A v \in Worker : \A d \in batch'[v] :
        d \in batch[v] /\ status'[d] = status[d] /\ age'[d] = age[d]
  BY <1>1, <1>2, <1>3 DEF Write, Exclusive
<1>5. BatchesAreYoung' /\ IdleHoldsNothing' /\ Exclusive'
  BY <1>2, <1>3 DEF BatchesAreYoung, IdleHoldsNothing, Exclusive
<1>6. BatchRowsProcessing'
  <2> SUFFICES ASSUME NEW v \in Worker, InLoop(v)', NEW d \in batch'[v]
               PROVE  (status[d] = "PROCESSING" /\ age[d] = clock[v]) \/ InDoubt(v, d)'
    BY <1>3, <1>4 DEF BatchRowsProcessing
  <2>1. CASE v = w
    <3>1. d # e /\ d \notin Head(w)
      BY <1>1, <1>3, <2>1 DEF Head, Event
    <3> QED BY <1>2, <1>4, <2>1, <3>1 DEF BatchRowsProcessing, InDoubt
  <2>2. CASE v # w
    <3>1. InLoop(v) /\ pc'[v] = pc[v] /\ Head(v)' = Head(v)
      BY <1>3, <2>2 DEF InLoop, Head
    <3> QED BY <1>4, <3>1 DEF BatchRowsProcessing, InDoubt
  <2> QED BY <2>1, <2>2
<1>7. ClaimedRowsFree'
  BY <1>2, <1>3, <1>4 DEF ClaimedRowsFree, Stale
<1> QED BY <1>5, <1>6, <1>7

\* Steps after which the worker is still in its loop, or has given up.
LEMMA TimelyControl ==
  ASSUME TimelyInv, NEW w \in Worker, Inv', UNCHANGED <<status, age, clock>>, pc[w] # "idle",
         \/ /\ pc[w] \in {"emitting", "marking"} /\ pc'[w] \in {"marking", "resetting"}
            /\ batch' = batch
         \/ pc'[w] = "idle" /\ batch' = [batch EXCEPT ![w] = {}],
         \A v \in Worker : v # w => pc'[v] = pc[v]
  PROVE  TimelyInv'
<1> USE DEF TimelyInv, Inv, TypeOK
<1>1. BatchesAreYoung' /\ IdleHoldsNothing' /\ Exclusive'
  BY DEF BatchesAreYoung, IdleHoldsNothing, Exclusive
<1>2. BatchRowsProcessing'
  BY DEF BatchRowsProcessing, InLoop, InDoubt, Head
<1>3. ClaimedRowsFree'
  BY DEF ClaimedRowsFree, Stale
<1> QED BY <1>1, <1>2, <1>3

\* The update to SENT was committed and its call rejected.
LEMMA TimelyDoubt ==
  ASSUME TimelyInv, NEW w \in Worker, NEW e \in Head(w), Inv', pc[w] = "marking",
         Write(e, "SENT"), pc' = [pc EXCEPT ![w] = "resettingSent"], UNCHANGED <<batch, clock>>
  PROVE  TimelyInv'
<1> USE DEF TimelyInv, Inv, TypeOK
<1>1. e \in batch[w] /\ e \in Event /\ status'[e] \in {"SENT", "absent"}
  BY DEF Head, Write
<1>2. \A d \in Event : d # e => status'[d] = status[d] /\ age'[d] = age[d]
  BY DEF Write
<1>3. BatchesAreYoung' /\ IdleHoldsNothing' /\ Exclusive'
  BY DEF BatchesAreYoung, IdleHoldsNothing, Exclusive
<1>4. BatchRowsProcessing'
  <2> SUFFICES ASSUME NEW v \in Worker, InLoop(v)', NEW d \in batch[v]
               PROVE  (status'[d] = "PROCESSING" /\ age'[d] = clock[v]) \/ InDoubt(v, d)'
    BY DEF BatchRowsProcessing
  <2>1. CASE d = e
    <3>1. v = w
      BY <1>1, <2>1 DEF Exclusive
    <3> QED BY <1>1, <2>1, <3>1 DEF InDoubt, Head
  <2>2. CASE d # e
    <3>1. InLoop(v) /\ (pc[v] = "resettingSent" => pc'[v] = "resettingSent")
      BY DEF InLoop
    <3> QED BY <1>2, <2>2, <3>1 DEF BatchRowsProcessing, InDoubt, Head
  <2> QED BY <2>1, <2>2
<1>5. ClaimedRowsFree'
  BY <1>1, <1>2 DEF ClaimedRowsFree, Stale, Exclusive
<1> QED BY <1>3, <1>4, <1>5

LEMMA TimelyFailure ==
  ASSUME TimelyInv, NEW w \in Worker, Emit(w) \/ Failure(w), Inv'
  PROVE  TimelyInv'
<1> USE DEF TimelyInv, Inv, TypeOK
<1>1. CASE Emit(w) \/ EmitFails(w) \/ Crash(w)
  <2>1. /\ UNCHANGED <<status, age, clock>> /\ pc[w] # "idle"
        /\ \/ /\ pc[w] \in {"emitting", "marking"} /\ pc'[w] \in {"marking", "resetting"}
              /\ batch' = batch
           \/ pc'[w] = "idle" /\ batch' = [batch EXCEPT ![w] = {}]
        /\ \A v \in Worker : v # w => pc'[v] = pc[v]
    BY <1>1 DEF Emit, EmitFails, Crash, Abandon, rows
  <2> QED BY <2>1, TimelyControl
<1>2. ASSUME MarkFails(w), UNCHANGED <<status, age>>, pc' = [pc EXCEPT ![w] = "resetting"]
      PROVE  TimelyInv'
  <2>1. pc[w] = "marking" /\ UNCHANGED <<batch, clock>>
    BY <1>2 DEF MarkFails
  <2> QED BY <1>2, <2>1, TimelyControl
<1>3. ASSUME MarkFails(w), NEW e \in Head(w), Write(e, "SENT"),
             pc' = [pc EXCEPT ![w] = "resettingSent"]
      PROVE  TimelyInv'
  <2>1. pc[w] = "marking" /\ UNCHANGED <<batch, clock>>
    BY <1>3 DEF MarkFails
  <2> QED BY <1>3, <2>1, TimelyDoubt
<1> QED BY <1>1, <1>2, <1>3 DEF Failure, MarkFails

LEMMA TimelyTick ==
  ASSUME TimelyInv, timely', Tick, Inv'
  PROVE  TimelyInv'
<1> USE DEF TimelyInv, Inv, TypeOK
<1>1. /\ age' = [e \in Event |-> IF Ageing(e) THEN age[e] + 1 ELSE age[e]]
      /\ clock' = [w \in Worker |-> IF Running(w) THEN clock[w] + 1 ELSE clock[w]]
      /\ \A w \in Worker : pc[w] # "idle" => clock[w] < ProcessingTimeout
      /\ UNCHANGED <<status, pc, batch>>
  BY DEF Tick
<1>2. BatchesAreYoung'
  BY <1>1, OutboxConstants DEF BatchesAreYoung, Age, Running
<1>3. BatchRowsProcessing'
  BY <1>1, OutboxConstants DEF BatchRowsProcessing, InLoop, InDoubt, Head, Age, Running, Ageing
<1>4. ClaimedRowsFree'
  BY <1>1, OutboxConstants DEF ClaimedRowsFree, Stale, Age, Ageing
<1>5. IdleHoldsNothing' /\ Exclusive'
  BY <1>1 DEF IdleHoldsNothing, Exclusive
<1> QED BY <1>2, <1>3, <1>4, <1>5

\* Recording and purging do not touch a row that somebody holds, unless it is
\* in doubt.
LEMMA TimelyRows ==
  ASSUME TimelyInv, Inv', CleanupStep \/ \E e \in Event : Record(e)
  PROVE  TimelyInv'
<1> USE DEF TimelyInv, Inv, TypeOK
<1>1. UNCHANGED <<pc, batch, clock, age>>
  BY DEF CleanupStep, Record, workers
<1>2. \A w \in Worker : \A e \in batch[w] :
        \/ status'[e] = status[e]
        \/ status[e] = "SENT" /\ status'[e] = "absent"
  <2>1. CASE CleanupStep
    <3>1. PICK S \in SUBSET Sent :
            status' = [e \in Event |-> IF e \in S THEN "absent" ELSE status[e]]
      BY <2>1, Zenon DEF CleanupStep
    <3> QED BY <3>1 DEF Sent
  <2>2. ASSUME NEW d \in Event, Record(d)
        PROVE  \A w \in Worker : \A e \in batch[w] : status'[e] = status[e]
    BY <2>2 DEF Record, ClaimsAreRecorded
  <2> QED BY <2>1, <2>2
<1>3. BatchesAreYoung' /\ IdleHoldsNothing' /\ Exclusive'
  BY <1>1 DEF BatchesAreYoung, IdleHoldsNothing, Exclusive
<1>4. BatchRowsProcessing'
  BY <1>1, <1>2 DEF BatchRowsProcessing, InLoop, InDoubt, Head
<1>5. ClaimedRowsFree'
  BY <1>1, <1>2 DEF ClaimedRowsFree, Stale
<1> QED BY <1>3, <1>4, <1>5

LEMMA TimelyNext ==
  ASSUME TimelyInv, timely', [Next]_vars
  PROVE  TimelyInv'
<1>0. Inv'
  BY NextInv DEF TimelyInv
<1>1. CASE \E e \in Event : Record(e)
  BY <1>0, <1>1, TimelyRows
<1>2. ASSUME NEW w \in Worker, Claim(w) \/ Work(w) \/ Failure(w) PROVE TimelyInv'
  BY <1>0, <1>2, TimelyClaim, TimelyCommit, TimelyWrite, TimelyFailure DEF Work
<1>3. CASE CleanupStep
  BY <1>0, <1>3, TimelyRows
<1>4. CASE Tick
  BY <1>0, <1>4, TimelyTick
<1>5. CASE StartCleanup \/ CleanupFails \/ UNCHANGED vars
  <2>1. UNCHANGED <<status, age, pc, batch, clock>>
    BY <1>5 DEF StartCleanup, CleanupFails, vars, rows, workers
  <2> QED BY <1>0, <2>1 DEF TimelyInv, BatchesAreYoung, BatchRowsProcessing,
                            ClaimedRowsFree, IdleHoldsNothing, Exclusive, InLoop, InDoubt, Head, Stale
<1> QED BY <1>1, <1>2, <1>3, <1>4, <1>5 DEF Next

\* A batch that outlived the timeout is never forgotten.
LEMMA TimelyBackwards ==
  ASSUME [Next]_vars, timely'
  PROVE  timely
<1>1. CASE Tick
  BY <1>1 DEF Tick
<1>2. CASE (\E e \in Event : Record(e)) \/ StartCleanup \/ CleanupStep \/ CleanupFails \/ UNCHANGED vars
  BY <1>2 DEF Record, StartCleanup, CleanupStep, CleanupFails, vars
<1>3. ASSUME NEW w \in Worker, Claim(w) \/ Work(w) \/ Failure(w) PROVE timely
  BY <1>3 DEF Claim, Work, CommitClaim, Emit, MarkSent, ResetPending,
              Failure, EmitFails, MarkFails, Crash
<1> QED BY <1>1, <1>2, <1>3 DEF Next

LEMMA TimelyInvariance == Spec => [](timely => TimelyInv)
<1>1. Init => (timely => TimelyInv)
  BY TimelyInit
<1>2. (timely => TimelyInv) /\ [Next]_vars => (timely => TimelyInv)'
  BY TimelyNext, TimelyBackwards
<1> QED BY <1>1, <1>2, PTL DEF Spec

\* SKIP LOCKED, the PROCESSING status and the timeout keep two workers off the
\* same event as long as every batch ends in time.
THEOREM ClaimsExclude == Spec => []ExclusiveClaim
<1>1. (timely => TimelyInv) => ExclusiveClaim
  BY DEF TimelyInv, Exclusive, ExclusiveClaim
<1> QED BY <1>1, TimelyInvariance, PTL

-----------------------------------------------------------------------------
(* A SENT row is final, unless the worker that marked it was told otherwise. *)

LEMMA SentStep ==
  ASSUME TimelyInv, [Next]_vars, NEW e \in Event, status[e] = "SENT", ~Doubted(e)
  PROVE  status'[e] \in {"SENT", "absent"}
<1> USE DEF TimelyInv, Inv, TypeOK
<1>1. \A w \in Worker : e \notin batch[w]
  BY DEF IdleHoldsNothing, BatchRowsProcessing, ClaimedRowsOpen, InLoop, InDoubt, Doubted, PC
<1>2. ASSUME NEW d \in Event, Record(d) PROVE status'[e] = "SENT"
  BY <1>2 DEF Record, RowsAreRecorded
<1>3. ASSUME NEW w \in Worker, Claim(w) \/ EmitFails(w) \/ Crash(w) \/ Emit(w)
      PROVE  status'[e] = "SENT"
  BY <1>3 DEF Claim, Emit, EmitFails, Crash, rows
<1>4. ASSUME NEW w \in Worker, CommitClaim(w) PROVE status'[e] = "SENT"
  BY <1>1, <1>4 DEF CommitClaim
<1>5. ASSUME NEW w \in Worker, MarkSent(w) \/ MarkFails(w) \/ ResetPending(w)
      PROVE  status'[e] = "SENT"
  BY <1>1, <1>5 DEF MarkSent, MarkFails, ResetPending, Write, Head
<1>6. CASE CleanupStep
  <2>1. PICK S \in SUBSET Sent :
          status' = [d \in Event |-> IF d \in S THEN "absent" ELSE status[d]]
    BY <1>6, Zenon DEF CleanupStep
  <2> QED BY <2>1
<1>7. CASE StartCleanup \/ CleanupFails \/ Tick \/ UNCHANGED vars
  BY <1>7 DEF StartCleanup, CleanupFails, Tick, vars, rows
<1> QED BY <1>2, <1>3, <1>4, <1>5, <1>6, <1>7 DEF Next, Work, Failure

\* A row that reached SENT is re-opened by no worker but the one whose own
\* update to SENT was committed and rejected.
THEOREM SentStaysSent == Spec => SentIsFinal
<1> DEFINE Final == timely =>
        \A e \in Event : status[e] = "SENT" /\ ~Doubted(e) =>
            status'[e] \in {"SENT", "absent"}
<1>1. (timely => TimelyInv) /\ [Next]_vars => [Final]_vars
  BY SentStep
<1> QED BY <1>1, TimelyInvariance, PTL DEF Spec, SentIsFinal

-----------------------------------------------------------------------------
(* Duplicates.                                                             *)

\* Somebody has published e and is about to say so.
Marking(e) == \E w \in Worker : pc[w] = "marking" /\ e \in Head(w)

\* One publication is the event's own; before it has happened, and after it
\* was forgotten by a reset, every publication has a failure to show for it.
Accounted(e) ==
    /\ sends[e] <= 1 + faults
    /\ status[e] \in {"PENDING", "PROCESSING"} /\ ~Marking(e) => sends[e] <= faults
    /\ Doubted(e) => sends[e] <= faults
    /\ e \notin recorded => sends[e] = 0

Accounts == \A e \in Event : Accounted(e)

LEMMA AccountsEmit ==
  ASSUME TimelyInv, TypeOK', Accounts, NEW w \in Worker, Emit(w) \/ EmitFails(w)
  PROVE  Accounts'
<1> USE DEF TimelyInv, Inv, TypeOK
<1>1. PICK e \in Head(w), n \in {0, 1} :
        /\ pc[w] = "emitting"
        /\ sends' = [sends EXCEPT ![e] = @ + n]
        /\ \/ n = 1 /\ pc' = [pc EXCEPT ![w] = "marking"] /\ faults' = faults
           \/ pc' = [pc EXCEPT ![w] = "resetting"] /\ faults' = faults + 1
        /\ UNCHANGED <<recorded, status, batch>>
  BY DEF Emit, EmitFails, Fault, rows
<1>2. e \in Event /\ e \in batch[w] /\ e \in recorded /\ status[e] = "PROCESSING"
  BY <1>1 DEF Head, ClaimsAreRecorded, BatchRowsProcessing, InLoop, InDoubt
<1>3. ~Marking(e)
  <2> SUFFICES ASSUME NEW v \in Worker, pc[v] = "marking", e \in Head(v) PROVE FALSE
    BY DEF Marking
  <2>1. v # w /\ e \in batch[v]
    BY <1>1 DEF Head
  <2> QED BY <1>2, <2>1 DEF Exclusive
<1>4. sends[e] <= faults /\ sends[e] \in Nat /\ faults \in Nat
  BY <1>2, <1>3, OutboxConstants DEF Accounts, Accounted
<1>5. Accounted(e)'
  <2>0. ~Doubted(e)'
    BY <1>1, <1>2 DEF Doubted, Head, Exclusive
  <2>1. CASE n = 1 /\ pc' = [pc EXCEPT ![w] = "marking"] /\ faults' = faults
    <3>1. Marking(e)'
      BY <1>1, <1>2, <2>1 DEF Marking, Head
    <3> QED BY <1>1, <1>2, <1>4, <2>0, <2>1, <3>1 DEF Accounted
  <2>2. CASE faults' = faults + 1
    BY <1>1, <1>2, <1>4, <2>0, <2>2 DEF Accounted
  <2> QED BY <1>1, <2>1, <2>2
<1>6. ASSUME NEW d \in Event, d # e PROVE Accounted(d)'
  <2>1. (Marking(d) => Marking(d)') /\ (Doubted(d)' => Doubted(d))
    BY <1>1 DEF Marking, Doubted, Head
  <2>2. sends'[d] = sends[d] /\ faults' >= faults
    BY <1>1, <1>2, <1>4, <1>6
  <2> QED BY <1>1, <1>4, <1>6, <2>1, <2>2 DEF Accounts, Accounted
<1> QED BY <1>5, <1>6 DEF Accounts

LEMMA AccountsWrite ==
  ASSUME TimelyInv, TypeOK', Accounts, NEW w \in Worker, MarkSent(w) \/ ResetPending(w)
  PROVE  Accounts'
<1> USE DEF TimelyInv, Inv, TypeOK
<1>1. PICK e \in Head(w), s \in {"SENT", "PENDING"} :
        /\ Write(e, s) /\ NextEvent(w, e)
        /\ s = "PENDING" => Resetting(w)
        /\ UNCHANGED <<recorded, sends, faults>>
  BY DEF MarkSent, ResetPending
<1>2. e \in Event /\ e \in batch[w] /\ e \in recorded
  BY <1>1 DEF Head, ClaimsAreRecorded
<1>3. \A d \in Event : Doubted(d)' => d # e /\ Doubted(d)
  BY <1>1, <1>2 DEF NextEvent, Doubted, Head, Exclusive
<1>4. Accounted(e)'
  <2>1. CASE s = "SENT"
    BY <1>1, <1>2, <1>3, <2>1 DEF Accounts, Accounted, Write
  <2>2. CASE s = "PENDING"
    <3>1. ~Marking(e)
      BY <1>1, <1>2, <2>2 DEF Marking, Head, Exclusive, Resetting
    <3>2. status[e] = "PROCESSING" \/ Doubted(e)
      BY <1>1, <1>2, <2>2 DEF BatchRowsProcessing, InLoop, InDoubt, Doubted, Resetting
    <3>3. sends[e] <= faults
      BY <1>2, <3>1, <3>2 DEF Accounts, Accounted
    <3> QED BY <1>1, <1>2, <1>3, <3>3 DEF Accounts, Accounted
  <2> QED BY <2>1, <2>2
<1>5. ASSUME NEW d \in Event, d # e PROVE Accounted(d)'
  <2>1. Marking(d) => Marking(d)'
    <3> SUFFICES ASSUME NEW v \in Worker, pc[v] = "marking", d \in Head(v) PROVE Marking(d)'
      BY DEF Marking
    <3>1. v # w
      BY <1>1, <1>2, <1>5 DEF Head, Event
    <3> QED BY <1>1, <3>1 DEF NextEvent, Marking, Head
  <2>2. status'[d] = status[d]
    BY <1>1, <1>2, <1>5 DEF Write
  <2> QED BY <1>1, <1>3, <2>1, <2>2 DEF Accounts, Accounted
<1> QED BY <1>4, <1>5 DEF Accounts

LEMMA AccountsNext ==
  ASSUME TimelyInv, TimelyInv', Accounts, [Next]_vars
  PROVE  Accounts'
<1> USE DEF TimelyInv, Inv, TypeOK
<1>0. faults \in Nat /\ faults' \in Nat /\ \A e \in Event : sends[e] \in Nat
  BY OutboxConstants
<1>1. ASSUME NEW d \in Event, Record(d) PROVE Accounts'
  <2>1. ASSUME NEW e \in Event PROVE (Marking(e) <=> Marking(e)') /\ (Doubted(e)' => Doubted(e))
    BY <1>1 DEF Record, workers, Marking, Doubted, Head
  <2> QED BY <1>0, <1>1, <2>1 DEF Record, Accounts, Accounted
<1>2. ASSUME NEW w \in Worker, Emit(w) \/ EmitFails(w) PROVE Accounts'
  BY <1>2, AccountsEmit
<1>3. ASSUME NEW w \in Worker, MarkSent(w) \/ ResetPending(w) PROVE Accounts'
  BY <1>3, AccountsWrite
<1>4. ASSUME NEW w \in Worker, MarkFails(w) \/ Crash(w) PROVE Accounts'
  <2>1. faults' = faults + 1 /\ UNCHANGED <<recorded, sends>>
    BY <1>4 DEF MarkFails, Crash, Fault, rows
  <2> QED BY <1>0, <2>1 DEF Accounts, Accounted
<1>5. ASSUME NEW w \in Worker, Claim(w) \/ CommitClaim(w) PROVE Accounts'
  <2>1. ASSUME NEW e \in Event PROVE (Marking(e) => Marking(e)') /\ (Doubted(e)' => Doubted(e))
    BY <1>5 DEF Claim, CommitClaim, Marking, Doubted, Head
  <2>2. /\ UNCHANGED <<recorded, sends, faults>>
        /\ \A e \in Event : status'[e] \in {"PENDING", "PROCESSING"} =>
                                status[e] \in {"PENDING", "PROCESSING"}
    BY <1>5 DEF Claim, CommitClaim, rows, ClaimedRowsOpen
  <2> QED BY <2>1, <2>2 DEF Accounts, Accounted
<1>6. CASE CleanupStep
  <2>1. PICK S \in SUBSET Sent :
          status' = [d \in Event |-> IF d \in S THEN "absent" ELSE status[d]]
    BY <1>6, Zenon DEF CleanupStep
  <2>2. UNCHANGED <<recorded, sends, faults, pc, batch>>
    BY <1>6 DEF CleanupStep, workers
  <2> QED BY <2>1, <2>2 DEF Accounts, Accounted, Marking, Doubted, Head
<1>7. CASE StartCleanup \/ CleanupFails \/ Tick \/ UNCHANGED vars
  <2>1. UNCHANGED <<recorded, sends, status, pc, batch>> /\ faults' >= faults
    BY <1>0, <1>7 DEF StartCleanup, CleanupFails, Fault, Tick, vars, rows, workers
  <2> QED BY <1>0, <2>1 DEF Accounts, Accounted, Marking, Doubted, Head
<1> QED BY <1>1, <1>2, <1>3, <1>4, <1>5, <1>6, <1>7 DEF Next, Work, Failure

LEMMA AccountsInvariance == Spec => [](timely => Accounts)
<1>1. Init => (timely => Accounts)
  BY OutboxConstants DEF Init, Accounts, Accounted, Doubted
<1>2. /\ timely => TimelyInv
      /\ (timely => TimelyInv)'
      /\ timely => Accounts
      /\ [Next]_vars
      => (timely => Accounts)'
  BY AccountsNext, TimelyBackwards
<1> QED BY <1>1, <1>2, TimelyInvariance, PTL DEF Spec

\* Without failures an event is published at most once; with f
\* failures at most 1 + f times.
THEOREM DuplicatesArePaidFor == Spec => []DuplicatesNeedFaults
<1>1. (timely => Accounts) => DuplicatesNeedFaults
  BY DEF Accounts, Accounted, DuplicatesNeedFaults
<1> QED BY <1>1, AccountsInvariance, PTL

-----------------------------------------------------------------------------
(* One invocation of handleAuditEvents that no call of its own fails.      *)

\* The row was marked SENT and let go of, and may have been purged since.
Handled(e) ==
    /\ e \in recorded /\ status[e] \in {"SENT", "absent"}
    /\ \A v \in Worker : e \notin batch[v]

\* Worker w has just claimed the rows in B, whatever the others are doing.
BatchInit(w, B) == TimelyInv /\ pc[w] = "claiming" /\ batch[w] = B

\* Everything goes on: the others claim, fail and crash, changes are recorded,
\* rows are purged, time passes.  Only w has no failure, and batches end in time.
BatchNext(w) == Next /\ ~Claim(w) /\ ~Failure(w) /\ timely'

Batch(w, B) == BatchInit(w, B) /\ [][BatchNext(w)]_vars

\* What w no longer holds of its batch is dealt with, and w resets nothing.
BatchOK(w, B) ==
    /\ TimelyInv
    /\ ~Resetting(w)
    /\ B \subseteq recorded
    /\ \A e \in B \ batch[w] : Handled(e)

\* Nobody re-opens or brings back a row that was dealt with.
LEMMA HandledStep ==
  ASSUME TimelyInv, [Next]_vars, NEW e \in Event, Handled(e)
  PROVE  Handled(e)'
<1> USE DEF TimelyInv, Inv, TypeOK
<1>0. e \in recorded'
  <2>1. recorded \subseteq recorded'
    <3>1. ASSUME NEW d \in Event, Record(d) PROVE recorded \subseteq recorded'
      BY <3>1 DEF Record
    <3>2. ASSUME NEW w \in Worker, Claim(w) \/ Work(w) \/ Failure(w) PROVE recorded' = recorded
      BY <3>2 DEF Claim, Work, CommitClaim, Emit, MarkSent, ResetPending,
                  Failure, EmitFails, MarkFails, Crash, rows
    <3>3. CASE StartCleanup \/ CleanupStep \/ CleanupFails \/ Tick \/ UNCHANGED vars
      BY <3>3 DEF StartCleanup, CleanupStep, CleanupFails, Tick, vars, rows
    <3> QED BY <3>1, <3>2, <3>3 DEF Next
  <2> QED BY <2>1 DEF Handled
<1>1. \A v \in Worker : e \notin batch[v] /\ e \notin batch'[v]
  <2>1. ASSUME NEW w \in Worker, Claim(w) PROVE \A v \in Worker : e \notin batch'[v]
    <3>1. batch' = [batch EXCEPT ![w] = Oldest(Available)] /\ e \notin Oldest(Available)
      BY <2>1 DEF Claim, Oldest, Available, Handled
    <3> QED BY <3>1 DEF Handled
  <2>2. ASSUME NEW w \in Worker, Work(w) \/ Failure(w)
        PROVE  \A v \in Worker : batch'[v] \subseteq batch[v]
    BY <2>2 DEF Work, CommitClaim, Emit, MarkSent, ResetPending, NextEvent,
                Failure, EmitFails, MarkFails, Crash, Abandon
  <2>3. ASSUME \/ \E d \in Event : Record(d)
               \/ StartCleanup \/ CleanupStep \/ CleanupFails \/ Tick \/ UNCHANGED vars
        PROVE  batch' = batch
    BY <2>3 DEF Record, StartCleanup, CleanupStep, CleanupFails, Tick, vars, workers
  <2> QED BY <2>1, <2>2, <2>3 DEF Next, Handled
<1>2. CASE status[e] = "SENT"
  <2>1. ~Doubted(e)
    BY <1>1 DEF Doubted, Head
  <2> QED BY <1>0, <1>1, <1>2, <2>1, SentStep DEF Handled
<1>3. CASE status[e] = "absent"
  <2>2. ASSUME NEW d \in Event, Record(d) PROVE status'[e] = "absent"
    BY <1>3, <2>2 DEF Record, Handled
  <2>3. ASSUME NEW w \in Worker, Claim(w) \/ EmitFails(w) \/ Crash(w) \/ Emit(w)
        PROVE  status'[e] = "absent"
    BY <1>3, <2>3 DEF Claim, Emit, EmitFails, Crash, rows
  <2>4. ASSUME NEW w \in Worker, CommitClaim(w) PROVE status'[e] = "absent"
    BY <1>1, <1>3, <2>4 DEF CommitClaim
  <2>5. ASSUME NEW w \in Worker, MarkSent(w) \/ MarkFails(w) \/ ResetPending(w)
        PROVE  status'[e] = "absent"
    BY <1>1, <1>3, <2>5 DEF MarkSent, MarkFails, ResetPending, Write, Head
  <2>6. ASSUME CleanupStep PROVE status'[e] = "absent"
    <3>1. PICK S \in SUBSET Sent :
            status' = [d \in Event |-> IF d \in S THEN "absent" ELSE status[d]]
      BY <2>6, Zenon DEF CleanupStep
    <3> QED BY <1>3, <3>1
  <2>7. ASSUME StartCleanup \/ CleanupFails \/ Tick \/ UNCHANGED vars
        PROVE  status'[e] = "absent"
    BY <1>3, <2>7 DEF StartCleanup, CleanupFails, Tick, vars, rows
  <2>8. status'[e] = "absent"
    BY <2>2, <2>3, <2>4, <2>5, <2>6, <2>7 DEF Next, Work, Failure
  <2> QED BY <1>0, <1>1, <2>8 DEF Handled
<1> QED BY <1>2, <1>3 DEF Handled

\* The worker lets go of an event only by marking it SENT.
LEMMA BatchStep ==
  ASSUME TimelyInv, NEW w \in Worker, ~Resetting(w), [BatchNext(w)]_vars
  PROVE  /\ ~Resetting(w)'
         /\ \A e \in batch[w] \ batch'[w] :
                status'[e] = "SENT" /\ \A v \in Worker : e \notin batch'[v]
<1> USE DEF TimelyInv, Inv, TypeOK
<1>1. CASE CommitClaim(w) \/ Emit(w)
  BY <1>1 DEF CommitClaim, Emit, Resetting
<1>2. CASE MarkSent(w)
  <2>1. PICK e \in Head(w) : pc[w] = "marking" /\ Write(e, "SENT") /\ NextEvent(w, e)
    BY <1>2 DEF MarkSent
  <2>2. e \in batch[w] /\ status[e] = "PROCESSING"
    BY <2>1 DEF Head, BatchRowsProcessing, InLoop, InDoubt
  <2>3. status'[e] = "SENT"
    BY <2>1, <2>2 DEF Write
  <2>4. batch'[w] = batch[w] \ {e} /\ pc'[w] \in {"idle", "emitting"}
    BY <2>1 DEF NextEvent
  <2>5. \A v \in Worker : e \notin batch'[v]
    BY <2>1, <2>2 DEF NextEvent, Exclusive
  <2> QED BY <2>3, <2>4, <2>5 DEF Resetting
<1>3. CASE ResetPending(w)
  BY <1>3 DEF ResetPending
<1>4. ASSUME NEW v \in Worker, v # w, Claim(v) \/ Work(v) \/ Failure(v)
      PROVE  pc'[w] = pc[w] /\ batch'[w] = batch[w]
  BY <1>4 DEF Claim, Work, CommitClaim, Emit, MarkSent, ResetPending, NextEvent,
              Failure, EmitFails, MarkFails, Crash, Abandon
<1>5. CASE \/ \E e \in Event : Record(e)
           \/ StartCleanup \/ CleanupStep \/ CleanupFails \/ Tick \/ UNCHANGED vars
  BY <1>5 DEF Record, StartCleanup, CleanupStep, CleanupFails, Tick, vars, workers, Resetting
<1> QED BY <1>1, <1>2, <1>3, <1>4, <1>5 DEF BatchNext, Next, Work, Resetting

LEMMA BatchKept ==
  ASSUME NEW w \in Worker, NEW B, BatchOK(w, B), [BatchNext(w)]_vars
  PROVE  BatchOK(w, B)'
<1>1. [Next]_vars /\ TimelyInv
  BY DEF BatchNext, BatchOK
<1>2. TimelyInv'
  <2>1. CASE UNCHANGED vars
    <3>1. UNCHANGED <<recorded, status, age, pc, batch, clock, sends, cleaning, faults, timely>>
      BY <2>1 DEF vars
    <3>2. Inv'
      BY <1>1, NextInv DEF TimelyInv
    <3> QED BY <1>1, <3>1, <3>2 DEF TimelyInv, BatchesAreYoung, BatchRowsProcessing,
                    ClaimedRowsFree, IdleHoldsNothing, Exclusive, InLoop, InDoubt, Head, Stale
  <2>2. CASE BatchNext(w)
    BY <1>1, <2>2, TimelyNext DEF BatchNext
  <2> QED BY <2>1, <2>2
<1>3. /\ ~Resetting(w)'
      /\ \A e \in batch[w] \ batch'[w] :
            status'[e] = "SENT" /\ \A v \in Worker : e \notin batch'[v]
  BY <1>1, BatchStep DEF BatchOK
<1>4. B \subseteq Event /\ \A e \in B \ batch[w] : Handled(e)'
  BY <1>1, HandledStep DEF BatchOK, TimelyInv, Inv, TypeOK
<1>5. B \subseteq recorded'
  <2>1. batch[w] \subseteq recorded'
    <3>1. \A e \in batch[w] \ batch'[w] : e \in recorded'
      BY <1>2, <1>3, <1>4 DEF BatchOK, TimelyInv, Inv, TypeOK, RowsAreRecorded
    <3>2. batch'[w] \subseteq recorded'
      BY <1>2 DEF TimelyInv, Inv, ClaimsAreRecorded
    <3> QED BY <3>1, <3>2
  <2> QED BY <1>4, <2>1 DEF Handled
<1>6. \A e \in B \ batch'[w] : Handled(e)'
  BY <1>3, <1>4, <1>5 DEF Handled
<1> QED BY <1>2, <1>3, <1>5, <1>6 DEF BatchOK

\* An invocation of handleAuditEvents whose own calls succeed has, when it ends,
\* published every row it claimed and marked it SENT, and no row it is done with
\* was re-opened: overlapping invocations, their failures and crashes, and the
\* cleanup do not interfere as long as batches end in time.
THEOREM BatchIsDelivered ==
  ASSUME NEW w \in Worker, NEW B
  PROVE  Batch(w, B) =>
            [](pc[w] = "idle" => \A e \in B : status[e] \in {"SENT", "absent"} /\ sends[e] > 0)
<1>1. BatchInit(w, B) => BatchOK(w, B)
  BY DEF BatchInit, BatchOK, Resetting, TimelyInv, Inv, ClaimsAreRecorded
<1>2. BatchOK(w, B) /\ [BatchNext(w)]_vars => BatchOK(w, B)'
  BY BatchKept
<1>3. BatchOK(w, B) =>
        (pc[w] = "idle" => \A e \in B : status[e] \in {"SENT", "absent"} /\ sends[e] > 0)
  <2> SUFFICES ASSUME BatchOK(w, B), pc[w] = "idle", NEW e \in B
               PROVE  status[e] \in {"SENT", "absent"} /\ sends[e] > 0
    OBVIOUS
  <2>1. batch[w] = {} /\ NoLostEvent
    BY DEF BatchOK, TimelyInv, Inv, IdleHoldsNothing
  <2>2. Handled(e)
    BY <2>1 DEF BatchOK
  <2> QED BY <2>1, <2>2 DEF Handled, NoLostEvent
<1> QED BY <1>1, <1>2, <1>3, PTL DEF Batch
=============================================================================
