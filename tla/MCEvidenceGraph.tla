-------------------------- MODULE MCEvidenceGraph --------------------------
(* A small instance of EvidenceGraph for TLC. *)
EXTENDS EvidenceGraph, TLC

CONSTANTS c1, c2, t1, t2

(* One question for each competency; observations reach either.            *)
MCTags == (t1 :> {c1}) @@ (t2 :> {c2})

(* The tool was opened about the first question's competency.              *)
MCToolTags == (t1 :> {c1}) @@ (t2 :> {c1})

MCMaxEvidence == (c1 :> 3) @@ (c2 :> 1)

MCFindings ==
  {[state |-> Demonstrated, confidence |-> 1],
   [state |-> Contradicted, confidence |-> 1]}

MCObservations ==
  {[state |-> Demonstrated, confidence |-> 2, semantic |-> TRUE],
   [state |-> Contradicted, confidence |-> 2, semantic |-> FALSE]}
=============================================================================
