---------------------------- MODULE MCOAuthLogin ----------------------------
(***************************************************************************)
(* OAuthLogin for TLC: two logins, two requests, model values for both.    *)
(* Liveness is checked in the same run, so no symmetry is declared.        *)
(***************************************************************************)
EXTENDS OAuthLogin
=============================================================================
