------------------------------ MODULE MCOutcomes ------------------------------
(* Instances of OutcomeDelivery for TLC. *)
EXTENDS OutcomeDelivery
CONSTANTS w1, w2, c1, b1, room, tick
==============================================================================
