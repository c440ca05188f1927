--------------------------- MODULE MCAudioStream ---------------------------
(* Small instances of AudioStream for TLC. *)
EXTENDS AudioStream

\* Speech that falls silent, where the endpoint and the candidate race to end it.
MCSilence == {<<"loud", "quiet">>}

\* Speech to the end, through a lull, ended by silence, begun late, not begun at all.
MCUtterances == {<<"loud", "loud", "between", "between">>, <<"loud", "loud", "between", "quiet">>,
                 <<"loud", "loud", "quiet", "loud">>, <<"quiet", "loud", "loud", "quiet">>,
                 <<"loud", "between", "loud", "quiet">>}
=============================================================================
