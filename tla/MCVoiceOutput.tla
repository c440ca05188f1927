--------------------------- MODULE MCVoiceOutput ---------------------------
(* A small instance of VoiceOutput for TLC. *)
EXTENDS VoiceOutput, TLC

Symmetry == Permutations(Callers)
=============================================================================
