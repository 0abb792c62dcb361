---------------------------- MODULE OutboxProofs ----------------------------
(***************************************************************************)
(* Theorems about Outbox, for any number of workers, events and faults,    *)
(* any batch sizes and time-outs, timely workers or not:                   *)
(*   - the type invariant,                                                 *)
(*   - NoLostEvent, the safety half of at-least-once delivery,             *)
(*   - Outbox implements the safety part of AuditDelivery,                 *)
(*   - BoundedDuplicates: how often an event can be published at all,      *)
(*   - every step of an invocation brings it nearer to its end.            *)
(* NoLostEvent is not inductive: that MarkSent may write SENT depends on   *)
(* what the worker did before (MarkedAfterEmit), and that the abstract     *)
(* retained set never grows back depends on the row locks of a claim       *)
(* (ClaimedRowsOpen).  BoundedDuplicates is not inductive either: Budget   *)
(* also counts the sends still to come, by the workers that may publish    *)
(* the event as its row stands and by those that are about to re-open it.  *)
(***************************************************************************)
EXTENDS Outbox, FiniteSetTheorems, TLAPS

\* A worker that is about to write SENT has published that event.
MarkedAfterEmit ==
    \A w \in Worker : pc[w] = "marking" => \A e \in Head(w) : sends[e] > 0

\* Workers hold events of committed transactions only.
ClaimsAreRecorded == \A w \in Worker : batch[w] \subseteq recorded

\* A row exists only for a recorded event.
RowsAreRecorded == \A e \in Event : status[e] # "absent" => e \in recorded

\* While a claim holds its row locks nobody can mark or purge its rows.
ClaimedRowsOpen ==
    \A w \in Worker : pc[w] = "claiming" =>
        \A e \in batch[w] : status[e] \in {"PENDING", "PROCESSING"}

\* The inductive invariant.
Inv ==
    /\ TypeOK
    /\ NoLostEvent
    /\ MarkedAfterEmit
    /\ ClaimsAreRecorded
    /\ RowsAreRecorded
    /\ ClaimedRowsOpen

-----------------------------------------------------------------------------
(* Type correctness.                                                       *)

LEMMA InitTypeOK == Init => TypeOK
<1> SUFFICES ASSUME Init PROVE TypeOK
  OBVIOUS
<1>1. 0 \in Age /\ 0 \in 0..MaxFaults /\ 0 \in Nat
  BY OutboxConstants DEF Age
<1>2. cleaning \in BOOLEAN
  BY Zenon DEF Init
<1> QED BY <1>1, <1>2 DEF Init, TypeOK, Status, PC

LEMMA WorkTypeOK ==
  ASSUME TypeOK, NEW w \in Worker, Claim(w) \/ Work(w) \/ Failure(w)
  PROVE  TypeOK'
<1>1. CASE Claim(w)
  BY <1>1, OutboxConstants DEF TypeOK, Claim, Oldest, Available, rows, Age, PC
<1>2. CASE CommitClaim(w)
  BY <1>2, OutboxConstants DEF TypeOK, CommitClaim, Status, PC
<1>3. CASE Emit(w)
  BY <1>3, OutboxConstants DEF TypeOK, Emit, Head, rows, PC
<1>4. CASE MarkSent(w)
  BY <1>4, OutboxConstants DEF TypeOK, MarkSent, Write, NextEvent, Head, Status, PC, Age
<1>5. CASE ResetPending(w)
  BY <1>5, OutboxConstants DEF TypeOK, ResetPending, Write, NextEvent, Head, Status, PC, Age
<1>6. CASE EmitFails(w)
  BY <1>6, OutboxConstants DEF TypeOK, EmitFails, Fault, Head, rows, PC
<1>7. CASE MarkFails(w)
  BY <1>7, OutboxConstants DEF TypeOK, MarkFails, Write, Fault, Head, Status, PC, Age
<1>8. CASE Crash(w)
  BY <1>8, OutboxConstants DEF TypeOK, Crash, Abandon, Fault, rows, PC
<1> QED BY <1>1, <1>2, <1>3, <1>4, <1>5, <1>6, <1>7, <1>8 DEF Work, Failure

LEMMA NextTypeOK ==
  ASSUME TypeOK, [Next]_vars
  PROVE  TypeOK'
<1>1. ASSUME NEW e \in Event, Record(e) PROVE TypeOK'
  BY <1>1 DEF TypeOK, Record, workers, Status
<1>2. ASSUME NEW w \in Worker, Claim(w) \/ Work(w) \/ Failure(w) PROVE TypeOK'
  BY <1>2, WorkTypeOK
<1>3. CASE StartCleanup
  BY <1>3 DEF TypeOK, StartCleanup, rows, workers
<1>4. CASE CleanupStep
  <2>1. PICK S \in SUBSET Sent :
          /\ status' = [e \in Event |-> IF e \in S THEN "absent" ELSE status[e]]
          /\ cleaning' = (Cardinality(S) = CleanBatchSize)
    BY <1>4, Zenon DEF CleanupStep
  <2>2. cleaning' \in BOOLEAN
    BY <2>1, Zenon
  <2>3. status' \in [Event -> Status]
    BY <2>1 DEF TypeOK, Status
  <2> QED BY <1>4, <2>2, <2>3, Zenon DEF TypeOK, CleanupStep, workers
<1>5. CASE CleanupFails
  <2>1. faults' \in 0..MaxFaults
    BY <1>5, OutboxConstants DEF TypeOK, CleanupFails, Fault
  <2>2. cleaning' \in BOOLEAN
    BY <1>5, Zenon DEF CleanupFails
  <2> QED BY <1>5, <2>1, <2>2, Zenon DEF TypeOK, CleanupFails, rows, workers
<1>6. CASE Tick
  BY <1>6, OutboxConstants DEF TypeOK, Tick, Ageing, Running, Age
<1>7. CASE UNCHANGED vars
  BY <1>7 DEF TypeOK, vars
<1> QED BY <1>1, <1>2, <1>3, <1>4, <1>5, <1>6, <1>7 DEF Next

\* Every reachable state of the outbox is well typed.
THEOREM TypeCorrect == Spec => []TypeOK
<1>1. Init => TypeOK  BY InitTypeOK
<1>2. TypeOK /\ [Next]_vars => TypeOK'  BY NextTypeOK
<1> QED BY <1>1, <1>2, PTL DEF Spec

-----------------------------------------------------------------------------
(* NoLostEvent.                                                            *)

LEMMA InitInv == Init => Inv
<1> SUFFICES ASSUME Init PROVE Inv
  OBVIOUS
<1>1. TypeOK
  BY InitTypeOK
<1> QED BY <1>1 DEF Init, Inv, NoLostEvent, MarkedAfterEmit, ClaimsAreRecorded,
                    RowsAreRecorded, ClaimedRowsOpen

\* An update by id: the row must not be locked by a claim, and SENT may be
\* written only after the event was published.
LEMMA WriteInv ==
  ASSUME Inv, NEW w \in Worker, NEW e \in Head(w), NEW s \in {"PENDING", "SENT"},
         pc[w] # "claiming", s = "SENT" => sends[e] > 0, Write(e, s),
         \/ NextEvent(w, e)
         \/ pc' = [pc EXCEPT ![w] = "resettingSent"] /\ batch' = batch,
         UNCHANGED <<recorded, sends>>, TypeOK'
  PROVE  Inv'
<1>1. e \in Event /\ e \in batch[w] /\ e \in recorded
  BY DEF Inv, TypeOK, Head, ClaimsAreRecorded
<1>2. NoLostEvent'
  BY <1>1 DEF Inv, TypeOK, NoLostEvent, Write
<1>3. MarkedAfterEmit'
  BY DEF Inv, TypeOK, MarkedAfterEmit, NextEvent, Head
<1>4. ClaimsAreRecorded'
  BY DEF Inv, TypeOK, ClaimsAreRecorded, NextEvent
<1>5. RowsAreRecorded'
  BY <1>1 DEF Inv, TypeOK, RowsAreRecorded, Write
<1>6. ClaimedRowsOpen'
  <2> SUFFICES ASSUME NEW v \in Worker, pc'[v] = "claiming", NEW d \in batch'[v]
               PROVE  status'[d] \in {"PENDING", "PROCESSING"}
    BY DEF ClaimedRowsOpen
  <2>1. v # w /\ pc[v] = "claiming" /\ d \in batch[v]
    BY DEF Inv, TypeOK, NextEvent
  <2>2. d # e
    BY <2>1 DEF Write, Locked
  <2>3. d \in Event /\ status'[d] = status[d]
    BY <2>1, <2>2 DEF Inv, TypeOK, Write
  <2> QED BY <2>1, <2>3 DEF Inv, ClaimedRowsOpen
<1> QED BY <1>2, <1>3, <1>4, <1>5, <1>6 DEF Inv

\* Steps of a worker that only change its own control state and histories.
LEMMA ClaimInv ==
  ASSUME Inv, NEW w \in Worker, Claim(w), TypeOK'
  PROVE  Inv'
<1> USE DEF Inv, TypeOK
<1>1. batch' = [batch EXCEPT ![w] = Oldest(Available)] /\ Oldest(Available) \subseteq Available
  BY DEF Claim, Oldest
<1>2. \A e \in Available : e \in Event /\ status[e] \in {"PENDING", "PROCESSING"}
  BY DEF Available
<1>3. \A e \in Available : e \in recorded
  BY <1>2 DEF RowsAreRecorded
<1>4. NoLostEvent' /\ RowsAreRecorded'
  BY DEF Claim, rows, NoLostEvent, RowsAreRecorded
<1>5. MarkedAfterEmit'
  BY DEF Claim, MarkedAfterEmit, Head
<1>6. ClaimsAreRecorded'
  BY <1>1, <1>3 DEF Claim, rows, ClaimsAreRecorded
<1>7. ClaimedRowsOpen'
  BY <1>1, <1>2 DEF Claim, rows, ClaimedRowsOpen
<1> QED BY <1>4, <1>5, <1>6, <1>7

LEMMA CommitClaimInv ==
  ASSUME Inv, NEW w \in Worker, CommitClaim(w), TypeOK'
  PROVE  Inv'
<1> USE DEF Inv, TypeOK
<1>1. NoLostEvent'
  BY DEF CommitClaim, NoLostEvent
<1>2. MarkedAfterEmit'
  BY DEF CommitClaim, MarkedAfterEmit, Head
<1>3. ClaimsAreRecorded' /\ RowsAreRecorded'
  BY DEF CommitClaim, ClaimsAreRecorded, RowsAreRecorded
<1>4. ClaimedRowsOpen'
  BY DEF CommitClaim, ClaimedRowsOpen
<1> QED BY <1>1, <1>2, <1>3, <1>4

LEMMA EmitInv ==
  ASSUME Inv, NEW w \in Worker, Emit(w) \/ EmitFails(w), TypeOK'
  PROVE  Inv'
<1> USE DEF Inv, TypeOK
<1>1. PICK e \in Head(w), n \in {0, 1} :
        /\ pc[w] = "emitting"
        /\ sends' = [sends EXCEPT ![e] = @ + n]
        /\ \/ pc' = [pc EXCEPT ![w] = "marking"] /\ n = 1
           \/ pc' = [pc EXCEPT ![w] = "resetting"]
        /\ UNCHANGED <<rows, batch>>
  BY DEF Emit, EmitFails
<1>2. e \in Event /\ \A d \in Event : sends'[d] >= sends[d]
  BY <1>1 DEF Head
<1>3. NoLostEvent' /\ ClaimsAreRecorded' /\ RowsAreRecorded' /\ ClaimedRowsOpen'
  BY <1>1, <1>2 DEF rows, NoLostEvent, ClaimsAreRecorded, RowsAreRecorded, ClaimedRowsOpen
<1>4. MarkedAfterEmit'
  <2> SUFFICES ASSUME NEW v \in Worker, pc'[v] = "marking", NEW d \in Head(v)'
               PROVE  sends'[d] > 0
    BY DEF MarkedAfterEmit
  <2>1. d \in Head(v) /\ d \in Event
    BY <1>1 DEF Head
  <2>2. CASE v = w
    <3>1. d = e
      BY <1>1, <2>1, <2>2 DEF Head, Event
    <3> QED BY <1>1, <1>2, <2>2, <3>1
  <2>3. CASE v # w
    BY <1>1, <1>2, <2>1, <2>3 DEF MarkedAfterEmit
  <2> QED BY <2>2, <2>3
<1> QED BY <1>3, <1>4

LEMMA FailureInv ==
  ASSUME Inv, NEW w \in Worker, MarkFails(w) \/ Crash(w), TypeOK'
  PROVE  Inv'
<1> USE DEF Inv, TypeOK
<1>1. ASSUME UNCHANGED <<recorded, status, sends>>,
             \A v \in Worker : batch'[v] \subseteq batch[v],
             \A v \in Worker : pc'[v] \in {"claiming", "marking"} =>
                                pc'[v] = pc[v] /\ batch'[v] = batch[v]
      PROVE  Inv'
  <2>1. NoLostEvent' /\ RowsAreRecorded' /\ ClaimsAreRecorded'
    BY <1>1 DEF NoLostEvent, RowsAreRecorded, ClaimsAreRecorded
  <2>2. MarkedAfterEmit'
    BY <1>1 DEF MarkedAfterEmit, Head
  <2>3. ClaimedRowsOpen'
    BY <1>1 DEF ClaimedRowsOpen
  <2> QED BY <2>1, <2>2, <2>3
<1>2. CASE Crash(w)
  BY <1>1, <1>2 DEF Crash, Abandon, rows
<1>3. CASE MarkFails(w) /\ UNCHANGED status
  <2>1. UNCHANGED <<recorded, batch, sends>> /\ pc[w] = "marking"
        /\ \/ pc' = [pc EXCEPT ![w] = "resetting"]
           \/ pc' = [pc EXCEPT ![w] = "resettingSent"]
    BY <1>3 DEF MarkFails
  <2> QED BY <1>1, <1>3, <2>1
<1>4. ASSUME NEW e \in Head(w), MarkFails(w), Write(e, "SENT"),
             pc' = [pc EXCEPT ![w] = "resettingSent"]
      PROVE  Inv'
  <2>1. pc[w] = "marking" /\ sends[e] > 0 /\ UNCHANGED <<recorded, batch, sends>>
    BY <1>4 DEF MarkFails, MarkedAfterEmit
  <2> QED BY <1>4, <2>1, WriteInv
<1> QED BY <1>2, <1>3, <1>4 DEF MarkFails

LEMMA CleanupStepInv ==
  ASSUME Inv, CleanupStep, TypeOK'
  PROVE  Inv'
<1> USE DEF Inv, TypeOK
<1>1. PICK S \in SUBSET Sent :
        status' = [e \in Event |-> IF e \in S THEN "absent" ELSE status[e]]
  BY Zenon DEF CleanupStep
<1>2. UNCHANGED <<recorded, pc, batch, sends>>
  BY DEF CleanupStep, workers
<1>3. \A e \in S : e \in Event /\ status[e] = "SENT" /\ sends[e] > 0
  BY DEF Sent, NoLostEvent, RowsAreRecorded
<1>4. NoLostEvent' /\ RowsAreRecorded'
  BY <1>1, <1>2, <1>3 DEF NoLostEvent, RowsAreRecorded
<1>5. MarkedAfterEmit' /\ ClaimsAreRecorded'
  BY <1>2 DEF MarkedAfterEmit, ClaimsAreRecorded, Head
<1>6. ClaimedRowsOpen'
  BY <1>1, <1>2, <1>3 DEF ClaimedRowsOpen
<1> QED BY <1>4, <1>5, <1>6

LEMMA RecordInv ==
  ASSUME Inv, NEW e \in Event, Record(e), TypeOK'
  PROVE  Inv'
<1> USE DEF Inv, TypeOK
<1>1. NoLostEvent' /\ RowsAreRecorded'
  BY DEF Record, NoLostEvent, RowsAreRecorded
<1>2. MarkedAfterEmit' /\ ClaimsAreRecorded' /\ ClaimedRowsOpen'
  BY DEF Record, workers, MarkedAfterEmit, ClaimsAreRecorded, ClaimedRowsOpen, Head
<1> QED BY <1>1, <1>2

LEMMA NextInv ==
  ASSUME Inv, [Next]_vars
  PROVE  Inv'
<1>0. TypeOK'
  BY NextTypeOK DEF Inv
<1>1. ASSUME NEW e \in Event, Record(e) PROVE Inv'
  BY <1>0, <1>1, RecordInv
<1>2. ASSUME NEW w \in Worker, Claim(w) PROVE Inv'
  BY <1>0, <1>2, ClaimInv
<1>3. ASSUME NEW w \in Worker, Work(w) PROVE Inv'
  <2>1. CASE CommitClaim(w)
    BY <1>0, <2>1, CommitClaimInv
  <2>2. CASE Emit(w)
    BY <1>0, <2>2, EmitInv
  <2>3. CASE MarkSent(w)
    <3>1. PICK e \in Head(w) : Write(e, "SENT") /\ NextEvent(w, e)
      BY <2>3 DEF MarkSent
    <3>2. pc[w] = "marking" /\ sends[e] > 0 /\ UNCHANGED <<recorded, sends>>
      BY <2>3, <3>1 DEF MarkSent, Inv, MarkedAfterEmit
    <3> QED BY <1>0, <3>1, <3>2, WriteInv
  <2>4. CASE ResetPending(w)
    <3>1. PICK e \in Head(w) : Write(e, "PENDING") /\ NextEvent(w, e)
      BY <2>4 DEF ResetPending
    <3>2. pc[w] # "claiming" /\ UNCHANGED <<recorded, sends>>
      BY <2>4 DEF ResetPending, Resetting
    <3> QED BY <1>0, <3>1, <3>2, WriteInv
  <2> QED BY <1>3, <2>1, <2>2, <2>3, <2>4 DEF Work
<1>4. ASSUME NEW w \in Worker, Failure(w) PROVE Inv'
  BY <1>0, <1>4, EmitInv, FailureInv DEF Failure
<1>5. CASE CleanupStep
  BY <1>0, <1>5, CleanupStepInv
<1>6. CASE StartCleanup \/ CleanupFails \/ Tick \/ UNCHANGED vars
  <2>1. UNCHANGED <<recorded, status, pc, batch, sends>>
    BY <1>6 DEF StartCleanup, CleanupFails, Tick, vars, rows, workers
  <2> QED BY <1>0, <2>1 DEF Inv, NoLostEvent, MarkedAfterEmit, ClaimsAreRecorded,
                            RowsAreRecorded, ClaimedRowsOpen, Head
<1> QED BY <1>1, <1>2, <1>3, <1>4, <1>5, <1>6 DEF Next

LEMMA Invariance == Spec => []Inv
<1>1. Inv /\ [Next]_vars => Inv'  BY NextInv
<1> QED BY InitInv, <1>1, PTL DEF Spec

\* A row that is SENT or purged was accepted by the broker: nothing that the
\* cron workers, the cleanup, failed calls or crashes do loses an event.
THEOREM NothingLost == Spec => []NoLostEvent
<1>1. Inv => NoLostEvent  BY DEF Inv
<1> QED BY <1>1, Invariance, PTL

-----------------------------------------------------------------------------
(* Outbox implements the safety part of AuditDelivery.                     *)

Delivered == {e \in Event : sends[e] > 0}
Retained == {e \in Event : status[e] # "absent"}

LEMMA MappedInit == Init => AD!ADInit
  BY DEF Init, AD!ADInit

\* What a step may do to the mapped variables.
LEMMA MappedStutter ==
  ASSUME UNCHANGED <<recorded, sends>>, Retained' = Retained
  PROVE  UNCHANGED AD!adVars
  BY DEF AD!adVars, Retained

LEMMA MappedWork ==
  ASSUME Inv, Inv', NEW w \in Worker, Claim(w) \/ Work(w) \/ Failure(w)
  PROVE  [AD!ADNext]_AD!adVars
<1> USE DEF Inv, TypeOK
<1>1. CASE Claim(w) \/ Crash(w)
  <2>1. UNCHANGED <<recorded, sends, status>>
    BY <1>1 DEF Claim, Crash, rows
  <2> QED BY <2>1, MappedStutter DEF Retained
<1>2. CASE CommitClaim(w)
  <2>1. UNCHANGED <<recorded, sends>>
    BY <1>2 DEF CommitClaim
  <2>2. Retained' = Retained
    BY <1>2 DEF CommitClaim, Retained, ClaimedRowsOpen
  <2> QED BY <2>1, <2>2, MappedStutter
<1>3. CASE MarkSent(w) \/ MarkFails(w) \/ ResetPending(w)
  <2>1. UNCHANGED <<recorded, sends>>
    BY <1>3 DEF MarkSent, MarkFails, ResetPending
  <2>2. Retained' = Retained
    BY <1>3 DEF MarkSent, MarkFails, ResetPending, Write, Retained
  <2> QED BY <2>1, <2>2, MappedStutter
<1>4. CASE Emit(w) \/ EmitFails(w)
  <2>1. PICK e \in Head(w), n \in {0, 1} :
          /\ sends' = [sends EXCEPT ![e] = @ + n]
          /\ UNCHANGED <<recorded, status>>
    BY <1>4 DEF Emit, EmitFails, rows
  <2>2. e \in Event /\ e \in recorded /\ sends[e] \in Nat
    BY DEF Head, ClaimsAreRecorded
  <2>3. CASE n = 0 \/ sends[e] > 0
    <3>1. Delivered' = Delivered
      BY <2>1, <2>2, <2>3 DEF Delivered
    <3> QED BY <2>1, <3>1 DEF AD!adVars, Delivered
  <2>4. CASE n = 1 /\ sends[e] = 0
    <3>1. status[e] # "absent"
      BY <2>2, <2>4 DEF NoLostEvent
    <3>2. Delivered' = Delivered \union {e} /\ e \notin Delivered
      BY <2>1, <2>2, <2>4 DEF Delivered
    <3>3. AD!ADDeliver(e)
      BY <2>1, <2>2, <3>1, <3>2 DEF AD!ADDeliver, Delivered
    <3> QED BY <2>2, <3>3 DEF AD!ADNext
  <2> QED BY <2>2, <2>3, <2>4
<1> QED BY <1>1, <1>2, <1>3, <1>4 DEF Work, Failure

LEMMA MappedNext ==
  ASSUME Inv, Inv', [Next]_vars
  PROVE  [AD!ADNext]_AD!adVars
<1> USE DEF Inv, TypeOK
<1>1. ASSUME NEW e \in Event, Record(e) PROVE AD!ADNext
  <2>1. Retained' = Retained \union {e}
    BY <1>1 DEF Record, Retained
  <2>2. AD!ADRecord(e)
    BY <1>1, <2>1 DEF Record, Retained, AD!ADRecord
  <2> QED BY <2>2 DEF AD!ADNext
<1>2. ASSUME NEW w \in Worker, Claim(w) \/ Work(w) \/ Failure(w) PROVE [AD!ADNext]_AD!adVars
  BY <1>2, MappedWork
<1>3. CASE CleanupStep
  <2>1. PICK S \in SUBSET Sent :
          status' = [e \in Event |-> IF e \in S THEN "absent" ELSE status[e]]
    BY <1>3, Zenon DEF CleanupStep
  <2>2. UNCHANGED <<recorded, sends>>
    BY <1>3 DEF CleanupStep
  <2>3. S \subseteq Retained \intersect Delivered
    BY DEF Sent, Retained, Delivered, NoLostEvent, RowsAreRecorded
  <2>4. Retained' = Retained \ S
    BY <2>1 DEF Retained
  <2>5. AD!ADForget
    BY <2>2, <2>3, <2>4 DEF AD!ADForget, Retained, Delivered
  <2> QED BY <2>5 DEF AD!ADNext
<1>4. CASE StartCleanup \/ CleanupFails \/ Tick \/ UNCHANGED vars
  <2>1. UNCHANGED <<recorded, status, sends>>
    BY <1>4 DEF StartCleanup, CleanupFails, Tick, vars, rows
  <2> QED BY <2>1, MappedStutter DEF Retained
<1> QED BY <1>1, <1>2, <1>3, <1>4 DEF Next

\* The safety part of the promise to the audit service: an event is delivered
\* only after its transaction committed and forgotten only after delivery.
THEOREM ImplementsDelivery == Spec => AD!ADSafeSpec
<1>1. Inv /\ Inv' /\ [Next]_vars => [AD!ADNext]_AD!adVars
  BY MappedNext
<1> QED BY MappedInit, Invariance, <1>1, PTL DEF Spec, AD!ADSafeSpec

-----------------------------------------------------------------------------
(* How often an event is published, timely workers or not.                 *)

\* A claim may still select the row.
Open(e) == status[e] \in {"PENDING", "PROCESSING"}

\* Worker w has called emit for e, and has still to write the outcome.
Outcome(w, e) == e \in Head(w) /\ pc[w] \in {"marking", "resetting", "resettingSent"}

\* Workers that can publish e before its row is re-opened once more: those
\* that hold it, and while the row is open those that may claim it.
Publishers(e) == {w \in Worker : (Open(e) \/ e \in batch[w]) /\ ~Outcome(w, e)}

\* Workers that are going to re-open the row of e.
Reopeners(e) == {w \in Worker : Outcome(w, e) /\ Resetting(w)}

\* Everything published so far, everything that can follow, and a full round
\* for each pending reset, is paid for by the first round and one per fault.
Budget(e) ==
    sends[e] + Cardinality(Worker) * Cardinality(Reopeners(e)) + Cardinality(Publishers(e))
        <= Cardinality(Worker) * (1 + faults)

Budgets ==
    /\ \A e \in Event : Budget(e)
    /\ \A e \in Event : e \notin recorded => sends[e] = 0

LEMMA Times ==
  /\ \A a, b \in Nat : a * b \in Nat /\ a * (b + 1) = a * b + a
  /\ \A a, b, c \in Nat : b <= c => a * b <= a * c
  OBVIOUS

\* Sets of workers are finite; one worker more or less is a difference of one.
LEMMA Sizes ==
  /\ \A S \in SUBSET Worker : Cardinality(S) \in Nat /\ Cardinality(S) <= Cardinality(Worker)
  /\ \A S, T \in SUBSET Worker : S \subseteq T => Cardinality(S) <= Cardinality(T)
  /\ \A S \in SUBSET Worker : \A w \in S : Cardinality(S \ {w}) = Cardinality(S) - 1
  /\ \A S \in SUBSET Worker : \A w \in Worker : Cardinality(S \union {w}) <= Cardinality(S) + 1
<1>1. IsFiniteSet(Worker)
  BY OutboxConstants
<1>2. \A S \in SUBSET Worker : IsFiniteSet(S) /\ Cardinality(S) <= Cardinality(Worker)
  BY <1>1, FS_Subset
<1>3. \A S \in SUBSET Worker : Cardinality(S) \in Nat
  BY <1>2, FS_CardinalityType
<1>4. \A S, T \in SUBSET Worker : S \subseteq T => Cardinality(S) <= Cardinality(T)
  BY <1>2, FS_Subset
<1>5. \A S \in SUBSET Worker : \A w \in S : Cardinality(S \ {w}) = Cardinality(S) - 1
  BY <1>2, FS_RemoveElement
<1>6. ASSUME NEW S \in SUBSET Worker, NEW w \in Worker
      PROVE  Cardinality(S \union {w}) <= Cardinality(S) + 1
  <2>1. Cardinality(S \union {w}) = IF w \in S THEN Cardinality(S) ELSE Cardinality(S) + 1
    BY <1>2, FS_AddElement
  <2> QED BY <1>3, <2>1
<1> QED BY <1>2, <1>3, <1>4, <1>5, <1>6

LEMMA GroupsTyped ==
  ASSUME NEW e
  PROVE  /\ Reopeners(e) \in SUBSET Worker /\ Publishers(e) \in SUBSET Worker
         /\ Reopeners(e)' \in SUBSET Worker /\ Publishers(e)' \in SUBSET Worker
  BY DEF Reopeners, Resetting, Publishers

LEMMA Numbers ==
  ASSUME TypeOK, TypeOK', NEW e \in Event
  PROVE  /\ sends[e] \in Nat /\ sends'[e] \in Nat /\ faults \in Nat /\ faults' \in Nat
         /\ Cardinality(Worker) \in Nat
         /\ Cardinality(Reopeners(e)) \in Nat /\ Cardinality(Reopeners(e)') \in Nat
         /\ Cardinality(Publishers(e)) \in Nat /\ Cardinality(Publishers(e)') \in Nat
<1>1. sends[e] \in Nat /\ sends'[e] \in Nat /\ faults \in Nat /\ faults' \in Nat
  BY OutboxConstants DEF TypeOK
<1> QED BY <1>1, GroupsTyped, Sizes

\* Nobody new can publish the event.
LEMMA BudgetKept ==
  ASSUME TypeOK, TypeOK', NEW e \in Event, Budget(e), sends'[e] = sends[e],
         faults <= faults',
         Reopeners(e)' \subseteq Reopeners(e), Publishers(e)' \subseteq Publishers(e)
  PROVE  Budget(e)'
<1> PICK n, r, r2, c, c2 : /\ n = Cardinality(Worker)
                           /\ r = Cardinality(Reopeners(e)) /\ r2 = Cardinality(Reopeners(e)')
                           /\ c = Cardinality(Publishers(e)) /\ c2 = Cardinality(Publishers(e)')
  OBVIOUS
<1>1. r2 <= r /\ c2 <= c
  BY GroupsTyped, Sizes
<1>2. n \in Nat /\ r \in Nat /\ r2 \in Nat /\ c \in Nat /\ c2 \in Nat
      /\ sends[e] \in Nat /\ faults \in Nat /\ faults' \in Nat
  BY Numbers
<1>3. n * r2 <= n * r /\ n * (1 + faults) <= n * (1 + faults')
      /\ n * r2 \in Nat /\ n * r \in Nat /\ n * (1 + faults) \in Nat /\ n * (1 + faults') \in Nat
  BY <1>1, <1>2, Times
<1>4. sends[e] + n * r + c <= n * (1 + faults)
  BY DEF Budget
<1>5. sends'[e] + n * r2 + c2 <= n * (1 + faults')
  BY <1>1, <1>2, <1>3, <1>4
<1> QED BY <1>5 DEF Budget

\* A worker that could publish the event has done so.
LEMMA BudgetSpent ==
  ASSUME TypeOK, TypeOK', NEW e \in Event, Budget(e), sends'[e] = sends[e] + 1,
         faults' = faults, NEW w \in Publishers(e),
         Reopeners(e)' \subseteq Reopeners(e), Publishers(e)' \subseteq Publishers(e) \ {w}
  PROVE  Budget(e)'
<1> PICK n, r, r2, c, c2 : /\ n = Cardinality(Worker)
                           /\ r = Cardinality(Reopeners(e)) /\ r2 = Cardinality(Reopeners(e)')
                           /\ c = Cardinality(Publishers(e)) /\ c2 = Cardinality(Publishers(e)')
  OBVIOUS
<1>1. r2 <= r /\ c2 <= c - 1
  <2>1. Publishers(e) \ {w} \in SUBSET Worker
    BY GroupsTyped
  <2>2. c2 <= Cardinality(Publishers(e) \ {w})
    BY <2>1, GroupsTyped, Sizes
  <2>3. Cardinality(Publishers(e) \ {w}) = c - 1
    BY GroupsTyped, Sizes
  <2> QED BY <2>2, <2>3, GroupsTyped, Sizes
<1>2. n \in Nat /\ r \in Nat /\ r2 \in Nat /\ c \in Nat /\ c2 \in Nat
      /\ sends[e] \in Nat /\ faults \in Nat
  BY Numbers
<1>3. n * r2 <= n * r /\ n * r2 \in Nat /\ n * r \in Nat /\ n * (1 + faults) \in Nat
  BY <1>1, <1>2, Times
<1>4. sends[e] + n * r + c <= n * (1 + faults)
  BY DEF Budget
<1>5. sends'[e] + n * r2 + c2 <= n * (1 + faults')
  BY <1>1, <1>2, <1>3, <1>4
<1> QED BY <1>5 DEF Budget

\* A fault pays for one more worker that is going to re-open the row; the worker
\* may have published the event.
LEMMA BudgetRaised ==
  ASSUME TypeOK, TypeOK', NEW e \in Event, Budget(e), faults' = faults + 1, NEW w \in Worker,
         Reopeners(e)' \subseteq Reopeners(e) \union {w},
         \/ sends'[e] = sends[e] /\ Publishers(e)' \subseteq Publishers(e)
         \/ /\ sends'[e] <= sends[e] + 1 /\ w \in Publishers(e)
            /\ Publishers(e)' \subseteq Publishers(e) \ {w}
  PROVE  Budget(e)'
<1> PICK n, r, r2, c, c2 : /\ n = Cardinality(Worker)
                           /\ r = Cardinality(Reopeners(e)) /\ r2 = Cardinality(Reopeners(e)')
                           /\ c = Cardinality(Publishers(e)) /\ c2 = Cardinality(Publishers(e)')
  OBVIOUS
<1>0. n \in Nat /\ r \in Nat /\ r2 \in Nat /\ c \in Nat /\ c2 \in Nat
      /\ sends[e] \in Nat /\ sends'[e] \in Nat /\ faults \in Nat
  BY Numbers
<1>1. r2 <= r + 1
  <2>1. Reopeners(e) \union {w} \in SUBSET Worker
    BY GroupsTyped
  <2>2. r2 <= Cardinality(Reopeners(e) \union {w})
    BY <2>1, GroupsTyped, Sizes
  <2>3. Cardinality(Reopeners(e) \union {w}) <= r + 1 /\ Cardinality(Reopeners(e) \union {w}) \in Nat
    BY <2>1, GroupsTyped, Sizes
  <2> QED BY <1>0, <2>2, <2>3
<1>2. sends'[e] + c2 <= sends[e] + c
  <2>1. CASE sends'[e] = sends[e] /\ Publishers(e)' \subseteq Publishers(e)
    <3>1. c2 <= c
      BY <2>1, GroupsTyped, Sizes
    <3> QED BY <1>0, <2>1, <3>1
  <2>2. CASE /\ sends'[e] <= sends[e] + 1 /\ w \in Publishers(e)
             /\ Publishers(e)' \subseteq Publishers(e) \ {w}
    <3>1. Publishers(e) \ {w} \in SUBSET Worker
      BY GroupsTyped
    <3>2. c2 <= Cardinality(Publishers(e) \ {w})
      BY <2>2, <3>1, GroupsTyped, Sizes
    <3>3. Cardinality(Publishers(e) \ {w}) = c - 1
      BY <2>2, GroupsTyped, Sizes
    <3> QED BY <1>0, <2>2, <3>2, <3>3
  <2> QED BY <2>1, <2>2
<1>3. n * r2 <= n * (r + 1) /\ n * (r + 1) = n * r + n
      /\ n * ((1 + faults) + 1) = n * (1 + faults) + n
      /\ n * r2 \in Nat /\ n * r \in Nat /\ n * (1 + faults) \in Nat
  BY <1>0, <1>1, Times
<1>4. sends[e] + n * r + c <= n * (1 + faults)
  BY DEF Budget
<1>5. 1 + faults' = (1 + faults) + 1
  BY <1>0
<1>6. sends'[e] + n * r2 + c2 <= n * (1 + faults')
  BY <1>0, <1>2, <1>3, <1>4, <1>5
<1> QED BY <1>6 DEF Budget

\* A fault pays for a worker that is free again.
LEMMA BudgetRefilled ==
  ASSUME TypeOK, TypeOK', NEW e \in Event, Budget(e), faults' = faults + 1, NEW w \in Worker,
         sends'[e] = sends[e], Reopeners(e)' \subseteq Reopeners(e),
         Publishers(e)' \subseteq Publishers(e) \union {w}
  PROVE  Budget(e)'
<1> PICK n, r, r2, c, c2 : /\ n = Cardinality(Worker)
                           /\ r = Cardinality(Reopeners(e)) /\ r2 = Cardinality(Reopeners(e)')
                           /\ c = Cardinality(Publishers(e)) /\ c2 = Cardinality(Publishers(e)')
  OBVIOUS
<1>0. n \in Nat /\ r \in Nat /\ r2 \in Nat /\ c \in Nat /\ c2 \in Nat
      /\ sends[e] \in Nat /\ faults \in Nat
  BY Numbers
<1>1. c2 <= c + 1
  <2>1. Publishers(e) \union {w} \in SUBSET Worker
    BY GroupsTyped
  <2>2. c2 <= Cardinality(Publishers(e) \union {w})
    BY <2>1, GroupsTyped, Sizes
  <2>3. Cardinality(Publishers(e) \union {w}) <= c + 1 /\ Cardinality(Publishers(e) \union {w}) \in Nat
    BY <2>1, GroupsTyped, Sizes
  <2> QED BY <1>0, <2>2, <2>3
<1>2. n >= 1
  <2>1. Cardinality(Worker \ {w}) = n - 1 /\ Cardinality(Worker \ {w}) \in Nat
    BY Sizes
  <2> QED BY <1>0, <2>1
<1>3. r2 <= r
  BY GroupsTyped, Sizes
<1>4. n * r2 <= n * r /\ n * ((1 + faults) + 1) = n * (1 + faults) + n
      /\ n * r2 \in Nat /\ n * r \in Nat /\ n * (1 + faults) \in Nat
  BY <1>0, <1>3, Times
<1>5. sends[e] + n * r + c <= n * (1 + faults)
  BY DEF Budget
<1>6. 1 + faults' = (1 + faults) + 1
  BY <1>0
<1>7. sends'[e] + n * r2 + c2 <= n * (1 + faults')
  BY <1>0, <1>1, <1>2, <1>4, <1>5, <1>6
<1> QED BY <1>7 DEF Budget

\* The row is re-opened: every worker may publish the event once more.
LEMMA BudgetReopened ==
  ASSUME TypeOK, TypeOK', NEW e \in Event, Budget(e), faults' = faults, NEW w \in Reopeners(e),
         sends'[e] = sends[e], Reopeners(e)' \subseteq Reopeners(e) \ {w}
  PROVE  Budget(e)'
<1> PICK n, r, r2, c, c2 : /\ n = Cardinality(Worker)
                           /\ r = Cardinality(Reopeners(e)) /\ r2 = Cardinality(Reopeners(e)')
                           /\ c = Cardinality(Publishers(e)) /\ c2 = Cardinality(Publishers(e)')
  OBVIOUS
<1>0. n \in Nat /\ r \in Nat /\ r2 \in Nat /\ c \in Nat /\ c2 \in Nat
      /\ sends[e] \in Nat /\ faults \in Nat
  BY Numbers
<1>1. r2 + 1 <= r
  <2>1. Reopeners(e) \ {w} \in SUBSET Worker
    BY GroupsTyped
  <2>2. r2 <= Cardinality(Reopeners(e) \ {w})
    BY <2>1, GroupsTyped, Sizes
  <2>3. Cardinality(Reopeners(e) \ {w}) = r - 1
    BY GroupsTyped, Sizes
  <2> QED BY <1>0, <2>2, <2>3
<1>2. c2 <= n
  BY GroupsTyped, Sizes
<1>3. n * (r2 + 1) <= n * r /\ n * (r2 + 1) = n * r2 + n
      /\ n * r2 \in Nat /\ n * r \in Nat /\ n * (1 + faults) \in Nat
  BY <1>0, <1>1, Times
<1>4. sends[e] + n * r + c <= n * (1 + faults)
  BY DEF Budget
<1>5. sends'[e] + n * r2 + c2 <= n * (1 + faults')
  BY <1>0, <1>2, <1>3, <1>4
<1> QED BY <1>5 DEF Budget

-----------------------------------------------------------------------------
\* A step that changes at most the status of other rows.
LEMMA GroupsKept ==
  ASSUME TypeOK, NEW d \in Event, Open(d)' => Open(d),
         \A v \in Worker : d \in batch'[v] => d \in batch[v],
         \A v \in Worker : Outcome(v, d)' <=> Outcome(v, d),
         \A v \in Worker : Outcome(v, d) => (pc'[v] = pc[v])
  PROVE  Reopeners(d)' \subseteq Reopeners(d) /\ Publishers(d)' \subseteq Publishers(d)
  BY DEF Reopeners, Resetting, Publishers

LEMMA BudgetClaim ==
  ASSUME Inv, TypeOK', Budgets, NEW w \in Worker, Claim(w), NEW d \in Event
  PROVE  Budget(d)'
<1> USE DEF Inv, TypeOK
<1>1. /\ pc[w] = "idle" /\ pc' = [pc EXCEPT ![w] = "claiming"]
      /\ batch' = [batch EXCEPT ![w] = Oldest(Available)]
      /\ UNCHANGED <<recorded, status, sends, faults>>
  BY DEF Claim, rows
<1>2. d \in batch'[w] => Open(d)
  BY <1>1 DEF Oldest, Available, Open
<1>3. \A v \in Worker : Outcome(v, d)' <=> Outcome(v, d)
  BY <1>1 DEF Outcome, Head
<1>4. \A v \in Worker : v # w => batch'[v] = batch[v] /\ pc'[v] = pc[v]
  BY <1>1
<1>5. ~Outcome(w, d) /\ (Open(d)' <=> Open(d))
  BY <1>1 DEF Outcome, Open
<1>6. Reopeners(d)' \subseteq Reopeners(d)
  BY <1>3, <1>4, <1>5 DEF Reopeners, Resetting
<1>7. Publishers(d)' \subseteq Publishers(d)
  BY <1>2, <1>3, <1>4, <1>5 DEF Publishers
<1>8. faults <= faults'
  BY <1>1, OutboxConstants
<1> QED BY <1>1, <1>6, <1>7, <1>8, BudgetKept DEF Budgets

LEMMA BudgetCommit ==
  ASSUME Inv, TypeOK', Budgets, NEW w \in Worker, CommitClaim(w), NEW d \in Event
  PROVE  Budget(d)'
<1> USE DEF Inv, TypeOK
<1>1. /\ pc[w] = "claiming" /\ pc' = [pc EXCEPT ![w] = "emitting"]
      /\ status' = [e \in Event |-> IF e \in batch[w] THEN "PROCESSING" ELSE status[e]]
      /\ UNCHANGED <<batch, sends, faults>>
  BY DEF CommitClaim
<1>2. Open(d)' => Open(d)
  BY <1>1 DEF ClaimedRowsOpen, Open
<1>3. \A v \in Worker : Outcome(v, d)' <=> Outcome(v, d)
  BY <1>1 DEF Outcome, Head
<1>4. \A v \in Worker : Outcome(v, d) => pc'[v] = pc[v]
  BY <1>1 DEF Outcome
<1>5. Reopeners(d)' \subseteq Reopeners(d) /\ Publishers(d)' \subseteq Publishers(d)
  BY <1>1, <1>2, <1>3, <1>4, GroupsKept
<1>6. faults <= faults'
  BY <1>1, OutboxConstants
<1> QED BY <1>1, <1>5, <1>6, BudgetKept DEF Budgets

\* emit, whether it resolves or rejects.
LEMMA BudgetEmit ==
  ASSUME Inv, TypeOK', Budgets, NEW w \in Worker, Emit(w) \/ EmitFails(w), NEW d \in Event
  PROVE  Budget(d)'
<1> USE DEF Inv, TypeOK
<1>1. PICK e \in Head(w), n \in {0, 1} :
        /\ pc[w] = "emitting"
        /\ sends' = [sends EXCEPT ![e] = @ + n]
        /\ \/ pc' = [pc EXCEPT ![w] = "marking"] /\ n = 1 /\ faults' = faults
           \/ pc' = [pc EXCEPT ![w] = "resetting"] /\ faults' = faults + 1
        /\ UNCHANGED <<status, batch>>
  BY DEF Emit, EmitFails, Fault, rows
<1>2. e \in Event /\ e \in batch[w] /\ (d \in Head(w) => d = e)
  BY <1>1 DEF Head, Event
<1>3. /\ \A v \in Worker : v # w => pc'[v] = pc[v] /\ (Outcome(v, d)' <=> Outcome(v, d))
      /\ Head(w)' = Head(w) /\ ~Outcome(w, d) /\ (Open(d)' <=> Open(d))
  BY <1>1 DEF Outcome, Head, Open
<1>4. faults \in Nat
  BY OutboxConstants
<1>5. CASE d # e
  <2>1. ~Outcome(w, d)' /\ sends'[d] = sends[d]
    BY <1>1, <1>2, <1>3, <1>5 DEF Outcome
  <2>2. Reopeners(d)' \subseteq Reopeners(d) /\ Publishers(d)' \subseteq Publishers(d)
    BY <1>1, <1>3, <2>1 DEF Reopeners, Resetting, Publishers
  <2>3. faults <= faults'
    BY <1>1, <1>4
  <2> QED BY <2>1, <2>2, <2>3, BudgetKept DEF Budgets
<1>6. CASE d = e
  <2>1. Outcome(w, d)' /\ w \in Publishers(d)
    BY <1>1, <1>2, <1>3, <1>6 DEF Outcome, Publishers
  <2>2. Publishers(d)' \subseteq Publishers(d) \ {w}
    BY <1>1, <1>3, <2>1 DEF Publishers
  <2>3. CASE pc' = [pc EXCEPT ![w] = "marking"] /\ n = 1 /\ faults' = faults
    <3>1. Reopeners(d)' \subseteq Reopeners(d)
      BY <1>1, <1>3, <2>3 DEF Reopeners, Resetting
    <3>2. sends'[d] = sends[d] + 1
      BY <1>1, <1>6, <2>3
    <3> QED BY <2>1, <2>2, <2>3, <3>1, <3>2, BudgetSpent DEF Budgets
  <2>4. CASE pc' = [pc EXCEPT ![w] = "resetting"] /\ faults' = faults + 1
    <3>1. Reopeners(d)' \subseteq Reopeners(d) \union {w}
      BY <1>1, <1>3, <2>4 DEF Reopeners, Resetting
    <3>2. sends'[d] <= sends[d] + 1
      BY <1>1, <1>6
    <3> QED BY <2>1, <2>2, <2>4, <3>1, <3>2, BudgetRaised DEF Budgets
  <2> QED BY <1>1, <2>3, <2>4
<1> QED BY <1>5, <1>6

LEMMA BudgetMarkFails ==
  ASSUME Inv, TypeOK', Budgets, NEW w \in Worker, MarkFails(w), NEW d \in Event
  PROVE  Budget(d)'
<1> USE DEF Inv, TypeOK
<1>1. /\ pc[w] = "marking"
      /\ \/ pc' = [pc EXCEPT ![w] = "resetting"]
         \/ pc' = [pc EXCEPT ![w] = "resettingSent"]
      /\ faults' = faults + 1 /\ UNCHANGED <<batch, sends>>
  BY DEF MarkFails, Fault
<1>2. /\ \A v \in Worker : v # w => pc'[v] = pc[v]
      /\ \A v \in Worker : Outcome(v, d)' <=> Outcome(v, d)
  BY <1>1 DEF Outcome, Head
<1>3. Open(d)' => Open(d)
  BY DEF MarkFails, Write, Head, Open
<1>4. Reopeners(d)' \subseteq Reopeners(d) \union {w} /\ Publishers(d)' \subseteq Publishers(d)
  BY <1>1, <1>2, <1>3 DEF Reopeners, Publishers, Resetting
<1> QED BY <1>1, <1>4, BudgetRaised DEF Budgets

LEMMA BudgetCrash ==
  ASSUME Inv, TypeOK', Budgets, NEW w \in Worker, Crash(w), NEW d \in Event
  PROVE  Budget(d)'
<1> USE DEF Inv, TypeOK
<1>1. /\ pc' = [pc EXCEPT ![w] = "idle"] /\ batch' = [batch EXCEPT ![w] = {}]
      /\ faults' = faults + 1 /\ UNCHANGED <<status, sends>>
  BY DEF Crash, Abandon, Fault, rows
<1>2. /\ \A v \in Worker : v # w => /\ pc'[v] = pc[v] /\ batch'[v] = batch[v]
                                    /\ (Outcome(v, d)' <=> Outcome(v, d))
      /\ ~Outcome(w, d)'
      /\ Open(d)' <=> Open(d)
  BY <1>1 DEF Outcome, Head, Open
<1>3. Reopeners(d)' \subseteq Reopeners(d) /\ Publishers(d)' \subseteq Publishers(d) \union {w}
  BY <1>1, <1>2 DEF Reopeners, Resetting, Publishers
<1> QED BY <1>1, <1>3, BudgetRefilled DEF Budgets

\* The outcome of the loop's event e is written: SENT closes the row, PENDING
\* opens it, and a purged row stays away.
LEMMA BudgetWrite ==
  ASSUME Inv, TypeOK', Budgets, NEW w \in Worker, MarkSent(w) \/ ResetPending(w), NEW d \in Event
  PROVE  Budget(d)'
<1> USE DEF Inv, TypeOK
<1>1. PICK e \in Head(w), s \in {"SENT", "PENDING"} :
        /\ IF s = "SENT" THEN pc[w] = "marking" ELSE Resetting(w)
        /\ status' = [status EXCEPT ![e] = IF @ = "absent" THEN "absent" ELSE s]
        /\ NextEvent(w, e)
        /\ UNCHANGED <<sends, faults>>
  BY DEF MarkSent, ResetPending, Write
<1>2. /\ batch' = [batch EXCEPT ![w] = @ \ {e}]
      /\ pc' = [pc EXCEPT ![w] = IF batch[w] = {e} THEN "idle" ELSE "emitting"]
  BY <1>1 DEF NextEvent
<1>3. e \in Event /\ e \in batch[w] /\ (d \in Head(w) => d = e) /\ Outcome(w, e)
  BY <1>1 DEF Head, Event, Outcome, Resetting
<1>4. /\ \A v \in Worker : v # w => /\ pc'[v] = pc[v] /\ batch'[v] = batch[v]
                                    /\ (Outcome(v, d)' <=> Outcome(v, d))
      /\ ~Outcome(w, d)' /\ e \notin batch'[w]
  BY <1>2 DEF Outcome, Head
<1>5. faults \in Nat /\ faults <= faults' /\ faults' = faults
  BY <1>1, OutboxConstants
<1>6. CASE d # e
  <2>1. ~Outcome(w, d) /\ (Open(d)' <=> Open(d)) /\ (d \in batch'[w] => d \in batch[w])
    BY <1>1, <1>2, <1>3, <1>6 DEF Outcome, Open
  <2>2. Reopeners(d)' \subseteq Reopeners(d) /\ Publishers(d)' \subseteq Publishers(d)
    BY <1>4, <2>1 DEF Reopeners, Resetting, Publishers
  <2> QED BY <1>1, <1>5, <2>2, BudgetKept DEF Budgets
<1>7. CASE d = e /\ s = "SENT"
  <2>1. ~Open(d)'
    BY <1>1, <1>3, <1>7 DEF Open
  <2>2. Reopeners(d)' \subseteq Reopeners(d) /\ Publishers(d)' \subseteq Publishers(d)
    BY <1>4, <1>7, <2>1 DEF Reopeners, Resetting, Publishers
  <2> QED BY <1>1, <1>5, <2>2, BudgetKept DEF Budgets
<1>8. CASE d = e /\ s = "PENDING"
  <2>1. w \in Reopeners(d)
    BY <1>1, <1>3, <1>8 DEF Reopeners, Resetting
  <2>2. Reopeners(d)' \subseteq Reopeners(d) \ {w}
    BY <1>4 DEF Reopeners, Resetting
  <2> QED BY <1>1, <1>5, <2>1, <2>2, BudgetReopened DEF Budgets
<1> QED BY <1>1, <1>6, <1>7, <1>8

\* A row appears: nobody has published or holds its event yet.
LEMMA BudgetRecord ==
  ASSUME Inv, TypeOK', Budgets, NEW e \in Event, Record(e), NEW d \in Event
  PROVE  Budget(d)'
<1> USE DEF Inv, TypeOK
<1>1. /\ e \notin recorded /\ status' = [status EXCEPT ![e] = "PENDING"]
      /\ UNCHANGED <<pc, batch, sends, faults>>
  BY DEF Record, workers
<1>2. \A v \in Worker : Outcome(v, d)' <=> Outcome(v, d)
  BY <1>1 DEF Outcome, Head
<1>3. faults \in Nat /\ faults <= faults'
  BY <1>1, OutboxConstants
<1>4. CASE d # e
  <2>1. Open(d)' <=> Open(d)
    BY <1>1, <1>4 DEF Open
  <2>2. Reopeners(d)' \subseteq Reopeners(d) /\ Publishers(d)' \subseteq Publishers(d)
    BY <1>1, <1>2, <2>1 DEF Reopeners, Resetting, Publishers
  <2> QED BY <1>1, <1>3, <2>2, BudgetKept DEF Budgets
<1>5. CASE d = e
  <2>1. \A v \in Worker : ~Outcome(v, d)
    BY <1>1, <1>5 DEF ClaimsAreRecorded, Outcome, Head
  <2>2. Reopeners(d)' = {} /\ sends'[d] = 0
    BY <1>1, <1>2, <1>5, <2>1 DEF Reopeners, Resetting, Budgets
  <2> PICK n, c2 : n = Cardinality(Worker) /\ c2 = Cardinality(Publishers(d)')
    OBVIOUS
  <2>3. n \in Nat /\ c2 \in Nat /\ c2 <= n /\ Cardinality(Reopeners(d)') = 0
    BY <2>2, Numbers, GroupsTyped, Sizes, FS_EmptySet
  <2>4. n * 1 <= n * (1 + faults') /\ n * 1 = n /\ n * 0 = 0 /\ n * (1 + faults') \in Nat
    BY <1>1, <1>3, <2>3, Times
  <2>5. sends'[d] + n * Cardinality(Reopeners(d)') + c2 <= n * (1 + faults')
    BY <2>2, <2>3, <2>4
  <2> QED BY <2>5 DEF Budget
<1> QED BY <1>4, <1>5

\* The purge, its start and end, and the clock.
LEMMA BudgetRest ==
  ASSUME Inv, TypeOK', Budgets, NEW d \in Event,
         StartCleanup \/ CleanupStep \/ CleanupFails \/ Tick \/ UNCHANGED vars
  PROVE  Budget(d)'
<1> USE DEF Inv, TypeOK
<1>1. UNCHANGED <<pc, batch, sends>>
  BY DEF StartCleanup, CleanupStep, CleanupFails, Tick, vars, workers
<1>2. faults \in Nat /\ faults <= faults'
  BY OutboxConstants DEF StartCleanup, CleanupStep, CleanupFails, Tick, vars, Fault
<1>3. Open(d)' => Open(d)
  <2>1. CASE CleanupStep
    <3>1. PICK S \in SUBSET Sent :
            status' = [e \in Event |-> IF e \in S THEN "absent" ELSE status[e]]
      BY <2>1, Zenon DEF CleanupStep
    <3> QED BY <3>1 DEF Open
  <2>2. CASE StartCleanup \/ CleanupFails \/ Tick \/ UNCHANGED vars
    BY <2>2 DEF StartCleanup, CleanupFails, Tick, vars, rows, Open
  <2> QED BY <2>1, <2>2
<1>4. Reopeners(d)' \subseteq Reopeners(d) /\ Publishers(d)' \subseteq Publishers(d)
  BY <1>1, <1>3 DEF Reopeners, Resetting, Publishers, Outcome, Head
<1> QED BY <1>1, <1>2, <1>4, BudgetKept DEF Budgets

\* An event nobody recorded is in no batch, so it is not published.
LEMMA UnrecordedUnsent ==
  ASSUME Inv, Budgets, [Next]_vars, NEW d \in Event, d \notin recorded'
  PROVE  sends'[d] = 0
<1> USE DEF Inv, TypeOK
<1>1. \/ UNCHANGED sends
      \/ \E w \in Worker, n \in {0, 1} : \E e \in Head(w) : sends' = [sends EXCEPT ![e] = @ + n]
  BY DEF Next, vars, Record, Claim, Work, Failure, CommitClaim, Emit, MarkSent, ResetPending,
         EmitFails, MarkFails, Crash, StartCleanup, CleanupStep, CleanupFails, Tick
<1>2. recorded \subseteq recorded'
  BY DEF Next, vars, Record, Claim, Work, Failure, CommitClaim, Emit, MarkSent, ResetPending,
         EmitFails, MarkFails, Crash, StartCleanup, CleanupStep, CleanupFails, Tick, rows
<1>3. d \notin recorded /\ sends[d] = 0 /\ \A w \in Worker : d \notin Head(w)
  BY <1>2 DEF Budgets, ClaimsAreRecorded, Head
<1> QED BY <1>1, <1>3

LEMMA BudgetsInvariance == Spec => []Budgets
<1>1. Init => Budgets
  <2> SUFFICES ASSUME Init, NEW e \in Event PROVE Budget(e) /\ sends[e] = 0
    BY DEF Budgets
  <2>1. Reopeners(e) = {} /\ Publishers(e) = {} /\ sends[e] = 0 /\ faults = 0
    BY DEF Init, Reopeners, Publishers, Outcome, Open, Head
  <2> PICK n : n = Cardinality(Worker)
    OBVIOUS
  <2>2. n \in Nat /\ n * 0 = 0 /\ n * (1 + 0) \in Nat
    BY Sizes, Times
  <2>3. sends[e] + n * 0 + 0 <= n * (1 + faults)
    BY <2>1, <2>2
  <2> QED BY <2>1, <2>3, FS_EmptySet DEF Budget
<1>2. Inv /\ Budgets /\ [Next]_vars => Budgets'
  <2> SUFFICES ASSUME Inv, Budgets, [Next]_vars, NEW d \in Event PROVE Budget(d)'
    BY UnrecordedUnsent DEF Budgets, Event
  <2>0. TypeOK'
    BY NextTypeOK DEF Inv
  <2>1. ASSUME NEW w \in Worker, Claim(w) \/ Work(w) \/ Failure(w) PROVE Budget(d)'
    BY <2>0, <2>1, BudgetClaim, BudgetCommit, BudgetEmit, BudgetMarkFails, BudgetCrash, BudgetWrite
       DEF Work, Failure
  <2> QED BY <2>0, <2>1, BudgetRecord, BudgetRest DEF Next
<1> QED BY <1>1, <1>2, Invariance, PTL DEF Spec

\* However long batches outlive PROCESSING_TIMEOUT and are claimed again: an
\* event is published at most once per worker, and once more per worker for
\* every failed call or crash.
THEOREM DuplicatesBounded == Spec => []BoundedDuplicates
<1>1. Inv /\ Budgets => BoundedDuplicates
  <2> SUFFICES ASSUME Inv, Budgets, NEW e \in Event
               PROVE  sends[e] <= Cardinality(Worker) * (1 + faults)
    BY DEF BoundedDuplicates
  <2> PICK n, r, c : n = Cardinality(Worker) /\ r = Cardinality(Reopeners(e))
                     /\ c = Cardinality(Publishers(e))
    OBVIOUS
  <2>1. sends[e] \in Nat /\ faults \in Nat /\ n \in Nat /\ r \in Nat /\ c \in Nat
    BY OutboxConstants, GroupsTyped, Sizes DEF Inv, TypeOK
  <2>2. n * r \in Nat /\ n * (1 + faults) \in Nat
    BY <2>1, Times
  <2>3. sends[e] + n * r + c <= n * (1 + faults)
    BY DEF Budgets, Budget
  <2> QED BY <2>1, <2>2, <2>3
<1> QED BY <1>1, Invariance, BudgetsInvariance, PTL

-----------------------------------------------------------------------------
(* Every invocation ends.                                                  *)

\* A bound on the steps worker w is still going to take: for each event of its
\* batch an emit, a mark that may fail and the reset that follows.
StepsLeft(w) ==
    CASE pc[w] = "idle" -> 0
      [] pc[w] = "resetting" -> 3 * Cardinality(batch[w]) + 1
      [] pc[w] = "resettingSent" -> 3 * Cardinality(batch[w]) + 1
      [] pc[w] = "marking" -> 3 * Cardinality(batch[w]) + 2
      [] pc[w] = "emitting" -> 3 * Cardinality(batch[w]) + 3
      [] pc[w] = "claiming" -> 3 * Cardinality(batch[w]) + 4

LEMMA BatchFinite ==
  ASSUME TypeOK, NEW w \in Worker
  PROVE  IsFiniteSet(batch[w]) /\ Cardinality(batch[w]) \in Nat
<1>1. IsFiniteSet(Event)
  BY OutboxConstants, FS_Interval DEF Event
<1>2. batch[w] \in SUBSET Event
  BY DEF TypeOK
<1>3. IsFiniteSet(batch[w])
  BY <1>1, <1>2, FS_Subset
<1> QED BY <1>3, FS_CardinalityType

\* The loop of handleAuditEvents goes on with one event less.
LEMMA LoopAdvances ==
  ASSUME TypeOK, NEW w \in Worker, NEW e \in batch[w], NextEvent(w, e),
         pc[w] = "marking" \/ Resetting(w)
  PROVE  StepsLeft(w)' \in Nat /\ StepsLeft(w)' < StepsLeft(w)
<1> PICK n : n = Cardinality(batch[w])
  OBVIOUS
<1>1. n \in Nat /\ IsFiniteSet(batch[w])
  BY BatchFinite
<1>2. /\ batch'[w] = batch[w] \ {e}
      /\ pc'[w] = IF batch[w] = {e} THEN "idle" ELSE "emitting"
  BY DEF NextEvent, TypeOK
<1>3. Cardinality(batch'[w]) = n - 1
  BY <1>1, <1>2, FS_RemoveElement
<1>4. StepsLeft(w) \in Nat /\ StepsLeft(w) >= 3 * n + 1
  <2>1. CASE pc[w] = "marking"
    BY <1>1, <2>1 DEF StepsLeft
  <2>2. CASE pc[w] = "resetting"
    BY <1>1, <2>2 DEF StepsLeft
  <2>3. CASE pc[w] = "resettingSent"
    BY <1>1, <2>3 DEF StepsLeft
  <2> QED BY <2>1, <2>2, <2>3 DEF Resetting
<1>5. n > 0
  <2>1. n # 0
    BY <1>1, FS_EmptySet
  <2> QED BY <1>1, <2>1
<1>6. CASE pc'[w] = "idle"
  <2>1. StepsLeft(w)' = 0
    BY <1>6 DEF StepsLeft
  <2> QED BY <1>1, <1>4, <2>1
<1>7. CASE pc'[w] = "emitting"
  <2>1. StepsLeft(w)' = 3 * Cardinality(batch'[w]) + 3
    BY <1>7 DEF StepsLeft
  <2> QED BY <1>1, <1>3, <1>4, <1>5, <2>1
<1> QED BY <1>2, <1>6, <1>7

LEMMA WorkAdvances ==
  ASSUME TypeOK, NEW w \in Worker, Work(w) \/ Failure(w)
  PROVE  StepsLeft(w)' \in Nat /\ StepsLeft(w)' < StepsLeft(w)
<1> PICK n : n = Cardinality(batch[w])
  OBVIOUS
<1>0. n \in Nat
  BY BatchFinite
<1>1. CASE CommitClaim(w)
  <2>1. pc[w] = "claiming" /\ pc'[w] = "emitting" /\ batch'[w] = batch[w]
    BY <1>1 DEF CommitClaim, TypeOK
  <2>2. StepsLeft(w) = 3 * n + 4
    BY <2>1 DEF StepsLeft
  <2>3. StepsLeft(w)' = 3 * n + 3
    BY <2>1 DEF StepsLeft
  <2> QED BY <1>0, <2>2, <2>3
<1>2. CASE Emit(w)
  <2>1. pc[w] = "emitting" /\ pc'[w] = "marking" /\ batch'[w] = batch[w]
    BY <1>2 DEF Emit, TypeOK
  <2>2. StepsLeft(w) = 3 * n + 3
    BY <2>1 DEF StepsLeft
  <2>3. StepsLeft(w)' = 3 * n + 2
    BY <2>1 DEF StepsLeft
  <2> QED BY <1>0, <2>2, <2>3
<1>3. CASE EmitFails(w)
  <2>1. pc[w] = "emitting" /\ pc'[w] = "resetting" /\ batch'[w] = batch[w]
    BY <1>3 DEF EmitFails, TypeOK
  <2>2. StepsLeft(w) = 3 * n + 3
    BY <2>1 DEF StepsLeft
  <2>3. StepsLeft(w)' = 3 * n + 1
    BY <2>1 DEF StepsLeft
  <2> QED BY <1>0, <2>2, <2>3
<1>4. CASE MarkFails(w)
  <2>1. pc[w] = "marking" /\ batch'[w] = batch[w]
    BY <1>4 DEF MarkFails
  <2>2. StepsLeft(w) = 3 * n + 2
    BY <2>1 DEF StepsLeft
  <2>3. pc'[w] = "resetting" \/ pc'[w] = "resettingSent"
    BY <1>4 DEF MarkFails, TypeOK
  <2>4. ASSUME pc'[w] = "resetting" PROVE StepsLeft(w)' = 3 * n + 1
    BY <2>1, <2>4 DEF StepsLeft
  <2>5. ASSUME pc'[w] = "resettingSent" PROVE StepsLeft(w)' = 3 * n + 1
    BY <2>1, <2>5 DEF StepsLeft
  <2> QED BY <1>0, <2>2, <2>3, <2>4, <2>5
<1>5. CASE MarkSent(w) \/ ResetPending(w)
  <2>1. PICK e \in batch[w] : NextEvent(w, e) /\ (pc[w] = "marking" \/ Resetting(w))
    BY <1>5 DEF MarkSent, ResetPending, Head
  <2> QED BY <2>1, LoopAdvances
<1>6. CASE Crash(w)
  <2>1. pc[w] # "idle" /\ pc'[w] = "idle" /\ pc[w] \in PC
    BY <1>6 DEF Crash, Abandon, TypeOK
  <2>2. StepsLeft(w)' = 0
    BY <2>1 DEF StepsLeft
  <2>3. CASE pc[w] = "claiming"
    <3>1. StepsLeft(w) = 3 * n + 4
      BY <2>3 DEF StepsLeft
    <3> QED BY <1>0, <2>2, <3>1
  <2>4. CASE pc[w] = "emitting"
    <3>1. StepsLeft(w) = 3 * n + 3
      BY <2>4 DEF StepsLeft
    <3> QED BY <1>0, <2>2, <3>1
  <2>5. CASE pc[w] = "marking"
    <3>1. StepsLeft(w) = 3 * n + 2
      BY <2>5 DEF StepsLeft
    <3> QED BY <1>0, <2>2, <3>1
  <2>6. CASE pc[w] = "resetting"
    <3>1. StepsLeft(w) = 3 * n + 1
      BY <2>6 DEF StepsLeft
    <3> QED BY <1>0, <2>2, <3>1
  <2>7. CASE pc[w] = "resettingSent"
    <3>1. StepsLeft(w) = 3 * n + 1
      BY <2>7 DEF StepsLeft
    <3> QED BY <1>0, <2>2, <3>1
  <2> QED BY <2>1, <2>3, <2>4, <2>5, <2>6, <2>7 DEF PC
<1> QED BY <1>1, <1>2, <1>3, <1>4, <1>5, <1>6 DEF Work, Failure

\* Only its own steps move a worker that is not idle.
LEMMA OwnWork ==
  ASSUME TypeOK, [Next]_vars, NEW w \in Worker, pc[w] # "idle",
         ~(Work(w) \/ Failure(w))
  PROVE  StepsLeft(w)' = StepsLeft(w)
<1>1. ASSUME NEW v \in Worker, v # w, Claim(v) \/ Work(v) \/ Failure(v)
      PROVE  pc'[w] = pc[w] /\ batch'[w] = batch[w]
  BY <1>1 DEF Claim, Work, CommitClaim, Emit, MarkSent, ResetPending, NextEvent,
              Failure, EmitFails, MarkFails, Crash, Abandon, TypeOK
<1>2. ~Claim(w)
  BY DEF Claim
<1>3. ASSUME \/ \E e \in Event : Record(e)
             \/ StartCleanup \/ CleanupStep \/ CleanupFails \/ Tick \/ UNCHANGED vars
      PROVE  pc' = pc /\ batch' = batch
  BY <1>3 DEF Record, StartCleanup, CleanupStep, CleanupFails, Tick, vars, workers
<1>4. pc'[w] = pc[w] /\ batch'[w] = batch[w]
  BY <1>1, <1>2, <1>3 DEF Next
<1> QED BY <1>4 DEF StepsLeft

\* Every call of a worker, failed or not, brings its invocation of
\* handleAuditEvents nearer to its end, and nothing that other workers, the
\* cleanup or the clock do takes it back: the loop and its catch block never
\* retry within an invocation, so every invocation ends.
THEOREM InvocationsEnd ==
  Spec => [][\A w \in Worker : pc[w] # "idle" =>
                IF Work(w) \/ Failure(w)
                THEN StepsLeft(w)' \in Nat /\ StepsLeft(w)' < StepsLeft(w)
                ELSE StepsLeft(w)' = StepsLeft(w)]_vars
<1>1. TypeOK /\ [Next]_vars =>
        \A w \in Worker : pc[w] # "idle" =>
            IF Work(w) \/ Failure(w)
            THEN StepsLeft(w)' \in Nat /\ StepsLeft(w)' < StepsLeft(w)
            ELSE StepsLeft(w)' = StepsLeft(w)
  BY WorkAdvances, OwnWork
<1> QED BY <1>1, TypeCorrect, PTL DEF Spec
=============================================================================
