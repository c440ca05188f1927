-------------------------- MODULE MCSessionStore --------------------------
(* Small instances of SessionStore for TLC. *)
EXTENDS SessionStore, TLC

(* Requests are interchangeable, and so are session ids: no property of    *)
(* this module is a liveness property.                                     *)
Symmetry == Permutations(Writers) \cup Permutations(Sessions)
=============================================================================
