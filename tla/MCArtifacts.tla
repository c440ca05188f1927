---------------------------- MODULE MCArtifacts ----------------------------
(* A small instance of Artifacts for TLC. *)
EXTENDS Artifacts, TLC

Symmetry == Permutations(Tasks) \cup Permutations(Artifacts)
=============================================================================
