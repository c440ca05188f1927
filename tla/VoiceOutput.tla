---------------------------- MODULE VoiceOutput ----------------------------
(***************************************************************************)
(* Server-side speech of the interviewer: TtsOutputBridge                  *)
(* (voice_output_bridge.py) and the sockets that drive it (api.py), over   *)
(* the voice coordinator of module Voice.  The bridge opens a provider     *)
(* session for a turn, reports it to the coordinator, pumps its audio, and *)
(* is told to stop by the candidate's speech, by the client, or by its     *)
(* socket.  A task of the bridge calls the coordinator as one of Callers,  *)
(* and every such call may be refused (409) after it changed the memory.   *)
(***************************************************************************)
EXTENDS Voice

CONSTANTS MaxStreams,  \* bound: TTS streams opened
          MaxChunks    \* bound: audio chunks of a stream

ASSUME OutputAssumption == MaxStreams \in Nat /\ MaxChunks \in Nat

Streams == 1..MaxStreams
NoStream == 0

VARIABLES opening,  \* the session is in _opening_sessions
          current,  \* its entry of _active_by_session
          output,   \* _OutputStream records, with their provider session and pump
          job,      \* what each caller does for the bridge
          refused   \* history: the streams whose pump is over and whose end was refused

outputVars == <<opening, current, output, job, refused>>
allVars == <<voiceVars, outputVars>>

(* "synthesizing", "starting", "selecting"   the steps of open             *)
(* "completing"   the pump reports the end of its stream                   *)
(* "failing"      the pump reports that its provider failed                *)
(* "speech"       speech_started, before cancel_active                     *)
(* "deciding"     the interview or audio socket calls cancel_active        *)
(* "interrupting" which has marked the registered stream                   *)
(* "closing"      the TTS socket closes its stream                         *)
(* "reclosing"    and closes it again, since the store refused its end     *)
JobSteps == {"none", "synthesizing", "starting", "selecting", "completing", "failing",
             "speech", "deciding", "interrupting", "closing", "reclosing"}

\* since is a history: the barge-ins there were when the stream was asked for.
Job(step, stream, turn, gen, since) ==
  [step |-> step, stream |-> stream, turn |-> turn, gen |-> gen, since |-> since]
StreamJob(step, stream) == Job(step, stream, NoTurn, 0, 0)
NoJob == StreamJob("none", NoStream)

(* "opened"  registered; the socket sends stream_opened, then creates the task    *)
(* "running" the task waits for the provider                                      *)
(* "sending" it has a chunk from the bridge, and waits for the socket             *)
(* "ending"  it reports the end of its stream, as the job of a caller             *)
Pumps == {"none", "opened", "running", "sending", "ending", "done"}

\* sent is chunks_sent; late is a history: those the client got after a barge-in.
NoOutput == [turn |-> NoTurn, gen |-> 0, since |-> 0, registered |-> FALSE, cancelled |-> FALSE,
             pump |-> "none", sent |-> 0, late |-> 0]

OutputInit ==
  /\ Init
  /\ opening = FALSE /\ current = NoStream
  /\ output = [s \in Streams |-> NoOutput]
  /\ job = [c \in Callers |-> NoJob]
  /\ refused = {}

Free(c) == job[c] = NoJob /\ call[c] = NoCall
Finish(c) == job' = [job EXCEPT ![c] = NoJob]
GoesTo(c, step) == job' = [job EXCEPT ![c].step = step]
CallReturns(c) == call' = [call EXCEPT ![c] = NoCall]

\* The pump's own task, while it reports the end of its stream.
Reporters(s) == {c \in Callers : job[c].stream = s /\ job[c].step \in {"completing", "failing"}}

\* Tasks that end wherever they are: a save of theirs has happened or never will.
Drop(tasks) ==
  /\ job' = [c \in Callers |-> IF c \in tasks THEN NoJob ELSE job[c]]
  /\ call' = [c \in Callers |-> IF c \in tasks THEN NoCall ELSE call[c]]

-----------------------------------------------------------------------------
(* open *)

\* One stream at a time: another open is refused while one is active or opening.
MayOpen == ~opening /\ current = NoStream

BeginOpen(c, t) ==
  /\ Free(c) /\ MayOpen
  /\ \E s \in Streams : output[s] = NoOutput
  /\ opening' = TRUE
  /\ job' = [job EXCEPT ![c] = Job("synthesizing", NoStream, t, generation, interruptions)]
  /\ UNCHANGED <<voiceVars, current, output, refused>>

\* The provider has answered; tts_started is called.
Synthesized(c) ==
  /\ job[c].step = "synthesizing"
  /\ Load(c, "tts_started", job[c].turn)
  /\ GoesTo(c, "starting")
  /\ UNCHANGED <<opening, current, output, refused>>

OpenFails(c) == Finish(c) /\ opening' = FALSE /\ UNCHANGED <<current, output, refused>>

SynthesisFails(c) ==
  /\ job[c].step = "synthesizing"
  /\ OpenFails(c)
  /\ UNCHANGED voiceVars

Started(c) ==
  /\ job[c].step = "starting"
  /\ \/ call[c].step = "done" /\ GoesTo(c, "selecting")
        /\ UNCHANGED <<opening, current, output, refused>>
     \/ call[c].step = "failed" /\ OpenFails(c)
  /\ CallReturns(c)
  /\ UNCHANGED <<stored, memory>>

\* Its id is a fresh one.
NewStream == CHOOSE s \in Streams : output[s] = NoOutput

StreamOf(j) ==
  [NoOutput EXCEPT !.turn = j.turn, !.gen = j.gen, !.since = j.since, !.registered = TRUE,
                   !.pump = "opened"]

\* transport_selected is saved and the stream registered, or it is refused: the
\* provider is cancelled and the coordinator goes on speaking.
Selected(c) ==
  /\ job[c].step = "selecting"
  /\ \/ /\ version < MaxVersion
        /\ version' = version + 1
        /\ output' = [output EXCEPT ![NewStream] = StreamOf(job[c])]
        /\ current' = NewStream /\ opening' = FALSE /\ Finish(c)
        /\ UNCHANGED <<status, turns, barges, refused>>
     \/ OpenFails(c) /\ UNCHANGED stored
  /\ UNCHANGED <<memory, call>>

-----------------------------------------------------------------------------
(* chunks *)

Ended(o, pump) == [o EXCEPT !.registered = FALSE, !.cancelled = TRUE, !.pump = pump]

\* Defect: the session keeps its entry.
ReleasedStreamOnly(s, pump) ==
  output' = [output EXCEPT ![s] = Ended(@, pump)] /\ UNCHANGED current

\* _release; with what becomes of the pump.
Released(s, pump) ==
  /\ output' = [output EXCEPT ![s] = Ended(@, pump)]
  /\ current' = IF current = s THEN NoStream ELSE current

\* Defect: the generation of the stream is not looked at.
SameTurn(s) == output[s].turn = active

\* The coordinator still speaks this stream's turn.
IsCurrent(s) == output[s].gen = generation /\ output[s].turn = active

\* A provider's chunk is taken if its stream is current, and the pump waits for the
\* socket with it; otherwise the stream is over.
Chunk(s) ==
  /\ output[s].pump = "running"
  /\ \/ /\ IsCurrent(s) /\ output[s].sent < MaxChunks
        /\ output' = [output EXCEPT ![s].pump = "sending", ![s].sent = @ + 1]
        /\ UNCHANGED current
     \/ ~IsCurrent(s) /\ Released(s, "done")
  /\ UNCHANGED <<voiceVars, opening, job, refused>>

Heard(o) == [o EXCEPT !.pump = "running", !.late = IF o.since = interruptions THEN @ ELSE @ + 1]

\* The socket takes header and audio, whatever happened meanwhile, or it is gone:
\* the pump ends and its generator releases the stream, with nothing reported.
SendChunk(s) ==
  /\ output[s].pump = "sending"
  /\ \/ output' = [output EXCEPT ![s] = Heard(@)] /\ UNCHANGED current
     \/ Released(s, "done")
  /\ UNCHANGED <<voiceVars, opening, job, refused>>

\* The first step of a pump whose stream was released before: unknown TTS stream.
NotFound(s) ==
  /\ output[s].pump = "running" /\ output[s].sent = 0 /\ ~output[s].registered
  /\ Released(s, "done")
  /\ UNCHANGED <<voiceVars, opening, job, refused>>

\* The provider's audio ends, or its cancelled session does: an end of the turn
\* that is still spoken is reported, and released when the report returns.
ProviderEnds(s) ==
  /\ output[s].pump = "running"
  /\ \/ /\ IsCurrent(s)
        /\ \E c \in Callers :
             /\ Free(c)
             /\ Load(c, "tts_completed", output[s].turn)
             /\ job' = [job EXCEPT ![c] = StreamJob("completing", s)]
        /\ output' = [output EXCEPT ![s].pump = "ending"]
        /\ UNCHANGED current
     \/ /\ ~IsCurrent(s)
        /\ Released(s, "done")
        /\ UNCHANGED <<voiceVars, job>>
  /\ UNCHANGED <<opening, refused>>

\* tts_completed returned, or it was refused: the exception leaves the finally
\* clause before the release.
Completed(c) ==
  /\ job[c].step = "completing"
  /\ LET s == job[c].stream
     IN  \/ call[c].step = "done" /\ Released(s, "done") /\ UNCHANGED refused
         \/ /\ call[c].step = "failed"
            /\ output' = [output EXCEPT ![s].pump = "done"]
            /\ refused' = refused \cup {s}
            /\ UNCHANGED current
  /\ CallReturns(c) /\ Finish(c)
  /\ UNCHANGED <<stored, memory, opening>>

Marked(o, pump) == [o EXCEPT !.cancelled = TRUE, !.pump = pump]

\* _mark_cancelled: once; a turn that is still active is reported as cancelled.
MarkCancelled(c, s, step) ==
  /\ output' = [output EXCEPT ![s] = Marked(@, IF step = "failing" THEN "ending" ELSE @.pump)]
  /\ job' = [job EXCEPT ![c] = StreamJob(step, s)]
  /\ UNCHANGED <<voiceVars, opening, current, refused>>

ReportCancelled(c, s) ==
  /\ active = output[s].turn
  /\ Load(c, "tts_cancelled", output[s].turn)
  /\ UNCHANGED outputVars

\* The provider fails: the stream is marked, unless it is, and released whatever
\* the report does.
ProviderFails(s) ==
  /\ output[s].pump = "running"
  /\ \/ /\ ~output[s].cancelled
        /\ \E c \in Callers : Free(c) /\ MarkCancelled(c, s, "failing")
     \/ /\ output[s].cancelled
        /\ Released(s, "done")
        /\ UNCHANGED <<voiceVars, opening, job, refused>>

\* The provider is cancelled, and the end of a turn that is still active was saved:
\* _mark_cancelled returns.
Settled(c, s) == call[c].step = "done" \/ (call[c] = NoCall /\ active # output[s].turn)

\* A failing pump releases its stream whatever its report did; cancel_active does
\* not when its report was refused.
CancelReturns(c) ==
  /\ job[c].step \in {"failing", "interrupting"}
  /\ LET s == job[c].stream
     IN  \/ /\ Settled(c, s) \/ (call[c].step = "failed" /\ job[c].step = "failing")
            /\ Released(s, IF job[c].step = "failing" THEN "done" ELSE output[s].pump)
         \/ /\ call[c].step = "failed" /\ job[c].step = "interrupting"
            /\ UNCHANGED <<output, current>>
  /\ CallReturns(c) /\ Finish(c)
  /\ UNCHANGED <<stored, memory, opening, refused>>

\* The socket's close returned: the stream is released and the pump task cancelled.
CloseReturns(c) ==
  /\ job[c].step = "closing"
  /\ LET s == job[c].stream
     IN  Settled(c, s) /\ Released(s, "done") /\ Drop({c} \cup Reporters(s))
  /\ UNCHANGED <<stored, memory, opening, refused>>

\* It was refused.  After a client's message the error is answered and the stream
\* closed once more; after a disconnect the exception leaves the handler, the pump
\* goes on, and if it was not created yet it never will be.
CloseRefused(c) ==
  /\ job[c].step = "closing" /\ call[c].step = "failed"
  /\ LET s == job[c].stream
     IN  \/ /\ output[s].pump # "opened" /\ GoesTo(c, "reclosing")
            /\ UNCHANGED <<output, refused>>
         \/ /\ output[s].pump # "opened" /\ Finish(c)
            /\ UNCHANGED <<output, refused>>
         \/ /\ output[s].pump = "opened" /\ Finish(c)
            /\ output' = [output EXCEPT ![s].pump = "done"]
            /\ refused' = refused \cup {s}
  /\ CallReturns(c)
  /\ UNCHANGED <<stored, memory, opening, current>>

\* The stream is marked already, so nothing is reported this time.
Reclosed(c) ==
  /\ job[c].step = "reclosing"
  /\ LET s == job[c].stream
     IN  Released(s, "done") /\ Drop({c} \cup Reporters(s))
  /\ UNCHANGED <<stored, memory, opening, refused>>

CancelReports(c) ==
  /\ job[c].step \in {"failing", "interrupting", "closing"} /\ call[c] = NoCall
  /\ ReportCancelled(c, job[c].stream)

-----------------------------------------------------------------------------
(* Who stops a stream *)

\* cancel_active: whatever stream is registered then.
CancelActive(c) ==
  \/ /\ current = NoStream
     /\ Finish(c)
     /\ UNCHANGED <<voiceVars, opening, current, output, refused>>
  \/ /\ current # NoStream /\ ~output[current].cancelled
     /\ MarkCancelled(c, current, "interrupting")
  \/ /\ current # NoStream /\ output[current].cancelled
     /\ Released(current, output[current].pump) /\ Finish(c)
     /\ UNCHANGED <<voiceVars, opening, refused>>

\* The candidate speaks, on the interview socket or by opening an audio stream.
BeginSpeech(c) ==
  /\ Free(c) /\ generation < MaxGeneration
  /\ Load(c, "speech", NoTurn)
  /\ job' = [job EXCEPT ![c] = StreamJob("speech", NoStream)]
  /\ UNCHANGED <<opening, current, output, refused>>

\* A refused speech_started does not get to cancel_active.
SpeechReturns(c) ==
  /\ job[c].step = "speech" /\ call[c].step \in {"done", "failed"}
  /\ IF call[c].step = "done" THEN GoesTo(c, "deciding") ELSE Finish(c)
  /\ CallReturns(c)
  /\ UNCHANGED <<stored, memory, opening, current, output, refused>>

Interrupt(c) == job[c].step = "deciding" /\ CancelActive(c)

\* The TTS socket is at its stream's close, and at nothing else.
Closing(s) == \E c \in Callers : job[c].stream = s /\ job[c].step \in {"closing", "reclosing"}

\* It has sent stream_opened and creates the pump's task.
StartPump(s) ==
  /\ output[s].pump = "opened" /\ ~Closing(s)
  /\ output' = [output EXCEPT ![s].pump = "running"]
  /\ UNCHANGED <<voiceVars, opening, current, job, refused>>

\* It cancels its stream or disconnects, maybe before there is a pump, and cancels
\* the pump's task; a stream that is marked or gone has nothing left to report.
CloseStream(c, s) ==
  /\ Free(c) /\ output[s].pump \in {"opened", "running", "sending", "ending"} /\ ~Closing(s)
  /\ \/ /\ output[s].registered /\ ~output[s].cancelled
        /\ MarkCancelled(c, s, "closing")
     \/ /\ ~output[s].registered \/ output[s].cancelled
        /\ Released(s, "done") /\ Drop(Reporters(s))
        /\ UNCHANGED <<stored, memory, opening, refused>>

-----------------------------------------------------------------------------
BridgeStep(c) ==
  \/ Synthesized(c) \/ SynthesisFails(c) \/ Started(c) \/ Selected(c) \/ Completed(c)
  \/ CancelReturns(c) \/ CancelReports(c) \/ SpeechReturns(c) \/ Interrupt(c)
  \/ CloseReturns(c) \/ CloseRefused(c) \/ Reclosed(c)

VoiceAlone(c) ==
  /\ \/ Free(c) /\ Begin(c)
     \/ Step(c)
     \/ job[c] = NoJob /\ Return(c)
  /\ UNCHANGED outputVars

\* The TTS socket takes a stream's chunks until they end, one way or another.
PumpAudio(s) ==
  \/ StartPump(s) \/ NotFound(s) \/ Chunk(s) \/ SendChunk(s) \/ ProviderEnds(s) \/ ProviderFails(s)

\* Its client opens a stream for a turn it has seen, and cancels one.
ClientMessage(c) ==
  \/ \E t \in 1..turns : BeginOpen(c, t)
  \/ \E s \in Streams : CloseStream(c, s)

OutputNext ==
  \/ \E c \in Callers : VoiceAlone(c) \/ BridgeStep(c) \/ BeginSpeech(c) \/ ClientMessage(c)
  \/ \E s \in Streams : PumpAudio(s)
  \/ OtherSave /\ UNCHANGED outputVars

OutputSpec == OutputInit /\ [][OutputNext]_allVars
-----------------------------------------------------------------------------
OutputTypeOK ==
  /\ TypeOK
  /\ opening \in BOOLEAN /\ refused \subseteq Streams
  /\ current \in Streams \cup {NoStream}
  /\ current # NoStream => output[current].registered
  /\ job \in [Callers -> [step : JobSteps, stream : Streams \cup {NoStream},
                          turn : Nat, gen : Nat, since : Nat]]
  /\ output \in [Streams -> [turn : Nat, gen : Nat, since : Nat,
                             registered : BOOLEAN, cancelled : BOOLEAN,
                             pump : Pumps, sent : 0..MaxChunks, late : Nat]]

\* A barge-in silences the stream it interrupts and one that was being opened,
\* although the provider session, the coordinator and the pump each learn of it at a
\* time of their own: of a stream asked for before it the client gets at most one
\* more chunk, the one that was already on its way to the socket.
BargeInSilences == \A s \in Streams : output[s].late <= 1

\* A registered stream is always on its way out: its pump is there or about to be
\* created, or a task is reporting its end and releases it afterwards.  The
\* exceptions are a refused tts_completed, and a refused tts_cancelled of a socket
\* that went away before it had a pump: they block every later open until the
\* candidate's next speech.
StuckOnlyByRefusal ==
  current # NoStream /\ current \notin refused =>
    \/ output[current].pump \in {"opened", "running", "sending"}
    \/ Reporters(current) # {}
=============================================================================
