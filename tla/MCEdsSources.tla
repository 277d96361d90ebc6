---------------------------- MODULE MCEdsSources ----------------------------
(* EdsSources for TLC: the accounts and sources as model values.             *)
EXTENDS EdsSources

CONSTANTS a1, a2, s1, s2
=============================================================================
