---------------------------- MODULE MCCacheAside ----------------------------
(***************************************************************************)
(* CacheAside for TLC: two callers make three calls.  Liveness is checked  *)
(* in the same run, so no symmetry is declared.                            *)
(***************************************************************************)
EXTENDS CacheAside
=============================================================================
