--------------------------- MODULE MCRabbitClient ---------------------------
(***************************************************************************)
(* RabbitClient for TLC: one publisher and a pool of one channel, so that  *)
(* the pool is empty or full at every turn.                                *)
(***************************************************************************)
EXTENDS RabbitClient
=============================================================================
