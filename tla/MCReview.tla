------------------------------ MODULE MCReview ------------------------------
(* A small instance of Review for TLC. *)
EXTENDS Review, TLC

Symmetry == Permutations(Recruiters) \cup Permutations(Jobs) \cup Permutations(Drafts)
=============================================================================
