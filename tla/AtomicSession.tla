--------------------------- MODULE AtomicSession ---------------------------
(***************************************************************************)
(* What the Store contract promises to the rest of Nora: an interview      *)
(* session behaves as if every operation of every request read the current *)
(* session and extended it in one atomic step.                             *)
(*                                                                         *)
(* A session is abstracted to its history of commits: the sequence of the  *)
(* writers (requests) whose operations it contains, in commit order.  A    *)
(* lost update would be a history from which a commit has disappeared.     *)
(***************************************************************************)
EXTENDS Naturals, Sequences

CONSTANTS Sessions,   \* session ids (uuid4 values)
          Writers,    \* requests that may write a session
          Absent      \* the store holds nothing under this id

VARIABLE history      \* history[s]: the commits session s contains, or Absent

TypeOK == history \in [Sessions -> Seq(Writers) \cup {Absent}]

Init == history = [s \in Sessions |-> Absent]

(* A request creates the session. *)
Create(w, s) ==
  /\ history[s] = Absent
  /\ history' = [history EXCEPT ![s] = <<w>>]

(* A request reads the session, applies its operation and saves it, in one *)
(* step: nothing another request committed before is dropped.              *)
Commit(w, s) ==
  /\ history[s] # Absent
  /\ history' = [history EXCEPT ![s] = Append(history[s], w)]

(* Sessions leave the store: a retention deletion, or the loss of a store  *)
(* that lives in process memory.                                           *)
Remove(S) == history' = [s \in Sessions |-> IF s \in S THEN Absent ELSE history[s]]

Next ==
  \/ \E w \in Writers, s \in Sessions : Create(w, s) \/ Commit(w, s)
  \/ \E S \in SUBSET Sessions : Remove(S)

Spec == Init /\ [][Next]_history
=============================================================================
