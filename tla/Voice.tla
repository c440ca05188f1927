------------------------------- MODULE Voice -------------------------------
(***************************************************************************)
(* The realtime voice coordinator (voice.py) of one running session, as    *)
(* HTTP handlers, interview sockets and audio streams call it.             *)
(*                                                                         *)
(* A call loads the stored session, changes the coordinator's own state in *)
(* process memory, and then saves the session with an event appended: the  *)
(* loads and saves are awaits, so calls interleave there, and a save that  *)
(* is refused (409) leaves the memory as the call changed it.              *)
(*                                                                         *)
(* A created session counts as running.  Events are left out, except for   *)
(* the number of stored barge-ins.                                         *)
(***************************************************************************)
EXTENDS Naturals, FiniteSets

CONSTANTS
  Callers,        \* tasks that may be inside the coordinator at the same time
  MaxTurns,       \* bound: interviewer turns of the session
  MaxVersion,     \* bound: saves of the session
  MaxOther,       \* bound: version up to which others save it
  MaxGeneration   \* bound: voice generations

ASSUME VoiceAssumption ==
  MaxTurns \in Nat \ {0} /\ MaxVersion \in Nat /\ MaxOther \in 0..MaxVersion /\ MaxGeneration \in Nat

VARIABLES
  status, version, turns,  \* the stored session; its interviewer turns are 1..turns
  barges,                  \* voice_barge_in events in the stored session
  phase, generation, interruptions, active,  \* VoiceSessionState
  call                     \* what each caller is doing in the coordinator

stored == <<status, version, turns, barges>>
memory == <<phase, generation, interruptions, active>>
voiceVars == <<stored, memory, call>>

NoTurn == 0
Phases == {"idle", "listening", "processing", "speaking", "closed"}
Operations == {"none", "speech", "final", "tts_started", "tts_completed", "tts_cancelled", "close"}

(* "begun"      close_session is about to load the session                 *)
(* "loaded"     the session is loaded, the memory not yet changed          *)
(* "saving"     the memory is changed, the save not yet decided            *)
(* "processing" transcript_final waits for service.answer                  *)
(* "answered"   service.answer has saved its turn                          *)
(* "done", "failed" the call has returned or raised                        *)
Steps == {"idle", "begun", "loaded", "saving", "processing", "answered", "done", "failed"}

Call(op, turn, step, v, st, barged) ==
  [op |-> op, turn |-> turn, step |-> step, version |-> v, status |-> st, barged |-> barged]

NoCall == Call("none", NoTurn, "idle", 0, "running", FALSE)

At(c, op, step) == call[c].op = op /\ call[c].step = step

To(c, step) ==
  call' = [call EXCEPT ![c] = Call(call[c].op, call[c].turn, step, call[c].version,
                                   call[c].status, call[c].barged)]

(* The call is over, or waits for service.answer: what it loaded is not    *)
(* looked at again.                                                        *)
Past(c, step) == call' = [call EXCEPT ![c] = Call(call[c].op, NoTurn, step, 0, "running", FALSE)]

Init ==
  /\ status = "running" /\ version = 1 /\ turns = 1 /\ barges = 0
  /\ phase = "idle" /\ generation = 0 /\ interruptions = 0 /\ active = NoTurn
  /\ call = [c \in Callers |-> NoCall]
-----------------------------------------------------------------------------
(***************************************************************************)
(* Loading and saving.                                                     *)
(***************************************************************************)

(* A call begins: _session loads.  TTS events name a turn that exists; an  *)
(* unknown one is refused before anything changes.                         *)
Load(c, op, turn) ==
  /\ call' = [call EXCEPT ![c] = Call(op, turn, "loaded", version, status, FALSE)]
  /\ UNCHANGED <<stored, memory>>

(* put_session finds the version that was loaded.                          *)
Fresh(c) == call[c].version = version

Saved(c) ==
  /\ version < MaxVersion
  /\ version' = version + 1
  /\ barges' = IF call[c].barged THEN barges + 1 ELSE barges
  /\ UNCHANGED <<status, turns>>

(* The save of every call that has nothing to do afterwards.               *)
Save(c) ==
  /\ call[c].op \in {"speech", "tts_started", "tts_completed", "tts_cancelled"}
  /\ call[c].step = "saving"
  /\ \/ Fresh(c) /\ Saved(c) /\ Past(c, "done")
     \/ ~Fresh(c) /\ Past(c, "failed") /\ UNCHANGED stored
  /\ UNCHANGED memory

(* Telemetry (failures of providers, the transport in use, ends of         *)
(* utterances) and partial transcripts only append an event and save.      *)
RecordOnly == UNCHANGED <<status, turns>>

(* An answer in text adds an interviewer turn and may complete.            *)
TextAnswer ==
  /\ status = "running"
  /\ turns < MaxTurns
  /\ turns' = turns + 1
  /\ status' \in {"running", "completed"}

(* Everybody else who saves this session.                                  *)
OtherSave ==
  /\ version < MaxOther
  /\ version' = version + 1
  /\ RecordOnly \/ TextAnswer
  /\ UNCHANGED <<barges, memory, call>>
-----------------------------------------------------------------------------
(***************************************************************************)
(* Candidate input.                                                        *)
(***************************************************************************)

(* _ensure_input_allowed: the loaded session is over.                      *)
RefuseInput(c) ==
  /\ call[c].op \in {"speech", "final"} /\ call[c].step = "loaded"
  /\ call[c].status # "running"
  /\ phase' = "closed"
  /\ Past(c, "failed")
  /\ UNCHANGED <<stored, generation, interruptions, active>>

(* Defect: a barge-in keeps the generation.                                *)
SpeechSameGeneration(c) ==
  /\ At(c, "speech", "loaded")
  /\ call[c].status = "running"
  /\ phase' = "listening"
  /\ interruptions' = IF phase = "speaking" THEN interruptions + 1 ELSE interruptions
  /\ active' = active
  /\ call' = [call EXCEPT ![c] = Call("speech", NoTurn, "saving", call[c].version,
                                      call[c].status, phase = "speaking")]
  /\ UNCHANGED <<stored, generation>>

(* speech_started: over an interviewer who speaks it is a barge-in.        *)
SpeechStarted(c) ==
  /\ At(c, "speech", "loaded")
  /\ call[c].status = "running"
  /\ LET bargeIn == phase = "speaking"
     IN  /\ generation' = IF bargeIn THEN generation + 1 ELSE generation
         /\ interruptions' = IF bargeIn THEN interruptions + 1 ELSE interruptions
         /\ active' = IF bargeIn THEN NoTurn ELSE active
         /\ call' = [call EXCEPT ![c] = Call("speech", NoTurn, "saving", call[c].version,
                                             call[c].status, bargeIn)]
  /\ phase' = "listening"
  /\ UNCHANGED stored

(* transcript_final: only while listening.                                 *)
TranscriptFinal(c) ==
  /\ At(c, "final", "loaded")
  /\ call[c].status = "running"
  /\ (IF phase = "listening" THEN To(c, "saving") ELSE Past(c, "failed"))
  /\ UNCHANGED <<stored, memory>>

(* Its save; the phase moves without another look at it.                   *)
TranscriptSaved(c) ==
  /\ At(c, "final", "saving")
  /\ \/ Fresh(c) /\ Saved(c) /\ Past(c, "processing") /\ phase' = "processing"
     \/ ~Fresh(c) /\ Past(c, "failed") /\ UNCHANGED <<stored, phase>>
  /\ UNCHANGED <<generation, interruptions, active>>

(* service.answer takes effect at once (see Interview), or raises: the     *)
(* interview is over, paused, or was changed concurrently.                 *)
Answer(c) ==
  /\ At(c, "final", "processing")
  /\ \/ /\ status = "running" /\ version < MaxVersion /\ turns < MaxTurns
        /\ turns' = turns + 1 /\ version' = version + 1
        /\ status' \in {"running", "completed"}
        /\ call' = [call EXCEPT ![c] = Call("final", turns + 1, "answered", 0, "running", FALSE)]
        /\ UNCHANGED barges
     \/ Past(c, "failed") /\ UNCHANGED stored
  /\ UNCHANGED memory

(* Its turn is the one to be spoken next.  The voice_response_ready event  *)
(* that follows is saved like any other (OtherSave).                       *)
ResponseReady(c) ==
  /\ At(c, "final", "answered")
  /\ active' = call[c].turn
  /\ Past(c, "done")
  /\ UNCHANGED <<stored, phase, generation, interruptions>>
-----------------------------------------------------------------------------
(***************************************************************************)
(* Interviewer output.                                                     *)
(***************************************************************************)

(* Defect: the turn is not compared with the one that is active.           *)
StartAnyTurn(c) == call[c].status # "cancelled"

(* tts_started is accepted: the interview was not cancelled, and no other  *)
(* turn is active.                                                         *)
MayStart(c) == call[c].status # "cancelled" /\ active \in {NoTurn, call[c].turn}

TtsStarted(c) ==
  /\ At(c, "tts_started", "loaded")
  /\ IF MayStart(c)
     THEN phase' = "speaking" /\ active' = call[c].turn /\ To(c, "saving")
     ELSE /\ phase' = IF call[c].status = "cancelled" THEN "closed" ELSE phase
          /\ Past(c, "failed")
          /\ UNCHANGED active
  /\ UNCHANGED <<stored, generation, interruptions>>

PhaseAfterTts(c) ==
  IF call[c].op = "tts_completed" /\ call[c].status = "completed" THEN "closed" ELSE "idle"

(* tts_completed and tts_cancelled, for the active turn only.              *)
TtsEnded(c) ==
  /\ call[c].op \in {"tts_completed", "tts_cancelled"} /\ call[c].step = "loaded"
  /\ IF active = call[c].turn
     THEN active' = NoTurn /\ phase' = PhaseAfterTts(c) /\ To(c, "saving")
     ELSE Past(c, "failed") /\ UNCHANGED <<phase, active>>
  /\ UNCHANGED <<stored, generation, interruptions>>
-----------------------------------------------------------------------------
(***************************************************************************)
(* Cancellation: api.cancel_session first saves the cancellation           *)
(* (service.cancel_session; a repeated one changes nothing), then closes   *)
(* the voice state.                                                        *)
(***************************************************************************)
CancelSession(c) ==
  /\ status # "completed"
  /\ \/ status = "running" /\ version < MaxVersion /\ status' = "cancelled" /\ version' = version + 1
     \/ status = "cancelled" /\ UNCHANGED <<status, version>>
  /\ call' = [call EXCEPT ![c] = Call("close", NoTurn, "begun", 0, "cancelled", FALSE)]
  /\ UNCHANGED <<turns, barges, memory>>

LoadClose(c) ==
  /\ At(c, "close", "begun")
  /\ Load(c, "close", NoTurn)

(* close_session: the generation moves first; when a turn is active the    *)
(* rest waits for a save.                                                  *)
CloseSession(c) ==
  /\ At(c, "close", "loaded")
  /\ generation' = generation + 1
  /\ IF active = NoTurn THEN phase' = "closed" /\ Past(c, "done")
                        ELSE To(c, "saving") /\ UNCHANGED phase
  /\ UNCHANGED <<stored, interruptions, active>>

(* Defect: the active turn is forgotten, its phase is left.                *)
ForgetTurn(c) ==
  /\ At(c, "close", "saving")
  /\ \/ Fresh(c) /\ Saved(c) /\ Past(c, "done")
     \/ ~Fresh(c) /\ Past(c, "failed") /\ UNCHANGED stored
  /\ active' = NoTurn
  /\ UNCHANGED <<phase, generation, interruptions>>

CloseSaved(c) ==
  /\ At(c, "close", "saving")
  /\ \/ Fresh(c) /\ Saved(c) /\ Past(c, "done") /\ active' = NoTurn /\ phase' = "closed"
     \/ ~Fresh(c) /\ Past(c, "failed") /\ UNCHANGED <<stored, active, phase>>
  /\ UNCHANGED <<generation, interruptions>>
-----------------------------------------------------------------------------
(* A client's event: bounded, so that the generation and the turns are.   *)
Begin(c) ==
  /\ call[c].step = "idle"
  /\ \/ generation < MaxGeneration /\ Load(c, "speech", NoTurn)
     \/ turns < MaxTurns /\ Load(c, "final", NoTurn)
     \/ \E op \in {"tts_started", "tts_completed", "tts_cancelled"}, t \in 1..turns : Load(c, op, t)
     \/ generation < MaxGeneration /\ CancelSession(c)

Return(c) ==
  /\ call[c].step \in {"done", "failed"}
  /\ call' = [call EXCEPT ![c] = NoCall]
  /\ UNCHANGED <<stored, memory>>

(* A step inside the coordinator.                                          *)
Step(c) ==
  \/ Save(c) \/ RefuseInput(c) \/ SpeechStarted(c) \/ TranscriptFinal(c) \/ TranscriptSaved(c)
  \/ Answer(c) \/ ResponseReady(c) \/ TtsStarted(c) \/ TtsEnded(c)
  \/ LoadClose(c) \/ CloseSession(c) \/ CloseSaved(c)

Next ==
  \/ \E c \in Callers : Begin(c) \/ Step(c) \/ Return(c)
  \/ OtherSave

Spec == Init /\ [][Next]_voiceVars
-----------------------------------------------------------------------------
(***************************************************************************)
(* Properties.                                                             *)
(***************************************************************************)
TypeOK ==
  /\ status \in {"running", "completed", "cancelled"}
  /\ version \in Nat /\ turns \in Nat /\ barges \in Nat
  /\ phase \in Phases
  /\ generation \in Nat /\ interruptions \in Nat
  /\ active \in Nat
  /\ call \in [Callers -> [op : Operations, turn : Nat, step : Steps, version : Nat,
                           status : {"running", "completed", "cancelled"}, barged : BOOLEAN]]

(* Whoever interrupts a speaking interviewer (speech_started, the bridge's *)
(* cancellation) finds the turn to cancel, and it is a turn of the stored  *)
(* session, although memory changes before the session is saved.           *)
SpeakingHasTurn ==
  /\ phase = "speaking" => active # NoTurn
  /\ active <= turns

(* Fencing (tts_started's stale-turn check): an active turn makes room for *)
(* another only by its own end or a cancellation, in whatever order the    *)
(* providers' events arrive.  The one exception is transcript_final, which *)
(* names the answer's turn without a look at what began in the meantime.   *)
TurnsAreFenced ==
  [][active # NoTurn /\ active' # NoTurn /\ active' # active =>
       \E c \in Callers : At(c, "final", "answered") /\ active' = call[c].turn]_voiceVars

(* The audit log never tells of a barge-in that did not happen: those that *)
(* are stored and those still to be saved are interruptions of different   *)
(* counts, and each interruption moved the generation on.                  *)
BargeInsHappened ==
  /\ barges + Cardinality({c \in Callers : call[c].barged /\ call[c].step = "saving"})
       <= interruptions
  /\ interruptions <= generation
=============================================================================
