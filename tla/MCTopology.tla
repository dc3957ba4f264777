----------------------------- MODULE MCTopology ------------------------------
(***************************************************************************)
(* Topology for TLC: one caller sets up the dead letter topology and the   *)
(* main queue while connections are lost.                                  *)
(***************************************************************************)
EXTENDS Topology
=============================================================================
