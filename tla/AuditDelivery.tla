--------------------------- MODULE AuditDelivery ---------------------------
(***************************************************************************)
(* What the transactional outbox promises to the audit service, without    *)
(* saying how: every event recorded by a committed business transaction is *)
(* delivered to the audit queue at least once, and the service forgets an  *)
(* event only after it was delivered.  Claims, workers, time-outs, retries *)
(* and duplicates are absent; module Outbox implements this specification. *)
(***************************************************************************)
CONSTANT Event

VARIABLES
    recorded,   \* events of committed business transactions
    delivered,  \* events the broker accepted at least once
    retained    \* events the service still stores

adVars == <<recorded, delivered, retained>>

ADInit ==
    /\ recorded = {}
    /\ delivered = {}
    /\ retained = {}

\* A business transaction commits, and its event with it.
ADRecord(e) ==
    /\ e \in Event \ recorded
    /\ recorded' = recorded \union {e}
    /\ retained' = retained \union {e}
    /\ UNCHANGED delivered

\* The broker accepts the event for the first time.
ADDeliver(e) ==
    /\ e \in retained \ delivered
    /\ delivered' = delivered \union {e}
    /\ UNCHANGED <<recorded, retained>>

\* Events are forgotten, but only delivered ones.
ADForget ==
    /\ \E S \in SUBSET (retained \intersect delivered) : retained' = retained \ S
    /\ UNCHANGED <<recorded, delivered>>

ADNext ==
    \/ \E e \in Event : ADRecord(e) \/ ADDeliver(e)
    \/ ADForget

ADSafeSpec == ADInit /\ [][ADNext]_adVars

ADSpec == ADSafeSpec /\ \A e \in Event : WF_adVars(ADDeliver(e))
=============================================================================
