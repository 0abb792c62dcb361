------------------------------ MODULE MCOutbox ------------------------------
(* Model-checking instance of Outbox .                                     *)
EXTENDS Outbox

CONSTANTS w1, w2

MCWorker == {w1, w2}
=============================================================================
