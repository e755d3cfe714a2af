-------------------------- MODULE MCEventDelivery --------------------------
(* EventDelivery with two retries instead of five. *)
EXTENDS EventDelivery

CONSTANTS d1, d2

MCMaxRetry == 2
MCSchedule == [i \in 0..1 |-> 2 + i]
=============================================================================
