-------------------------- MODULE OrderedDelivery --------------------------
(***************************************************************************)
(* What the audio transport promises: whatever the sockets do, the speech  *)
(* provider receives the captured frames once each and in the order they   *)
(* were captured, and nothing after the utterance was committed.           *)
(***************************************************************************)
EXTENDS Naturals, Sequences

VARIABLES captured,   \* number of frames cut from the microphone
          delivered,  \* the frames the provider received, oldest first
          ended       \* the utterance was committed

Init == /\ captured = 0
        /\ delivered = <<>>
        /\ ended = FALSE

\* The microphone yields one more frame; frames are numbered from 1.
Capture == /\ captured' = captured + 1
           /\ UNCHANGED <<delivered, ended>>

\* The first frame the provider has not received reaches it.
Deliver == /\ ~ended
           /\ Len(delivered) < captured
           /\ delivered' = Append(delivered, Len(delivered) + 1)
           /\ UNCHANGED <<captured, ended>>

\* The utterance ends, on request or at a silence.
End == /\ ended' = TRUE
       /\ UNCHANGED <<captured, delivered>>

Next == Capture \/ Deliver \/ End

Spec == Init /\ [][Next]_<<captured, delivered, ended>>
=============================================================================
