---------------------------- MODULE MCResilience ----------------------------
(* A small instance of Resilience for TLC. *)
EXTENDS Resilience
=============================================================================
