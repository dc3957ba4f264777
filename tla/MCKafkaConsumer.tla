-------------------------- MODULE MCKafkaConsumer ---------------------------
(***************************************************************************)
(* KafkaConsumer for TLC: two members of a group share a partition of two  *)
(* records.  Liveness is checked in the same run, so no symmetry is        *)
(* declared.                                                               *)
(***************************************************************************)
EXTENDS KafkaConsumer
=============================================================================
