---------------------------- MODULE MCInterview ----------------------------
(* Small instances of Interview for TLC. *)
EXTENDS Interview

(* The first template is for competency 1 only, the second for any.        *)
MCPolicy == <<{1}, {}>>

(* No tag, one tag, and both competencies with the later one first.        *)
MCTagLists == {<<>>, <<1>>, <<2, 1>>}
=============================================================================
