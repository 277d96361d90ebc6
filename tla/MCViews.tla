------------------------------ MODULE MCViews ------------------------------
(* A small instance of Views for TLC. *)
EXTENDS Views

CONSTANTS v1, v2
=============================================================================
