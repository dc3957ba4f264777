----------------------------- MODULE MCPostgres -----------------------------
(***************************************************************************)
(* Instances of Postgres for TLC.  With one connection, a transaction that *)
(* uses the client waits for itself, and the statement and the transaction *)
(* wait for each other.                                                    *)
(***************************************************************************)
EXTENDS Postgres
=============================================================================
