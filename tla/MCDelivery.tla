----------------------------- MODULE MCDelivery ------------------------------
(***************************************************************************)
(* Delivery for TLC: a reconnecting consumer and a batch consumer on one   *)
(* queue with two messages that can be handled and one that is not JSON.   *)
(***************************************************************************)
EXTENDS Delivery
=============================================================================
