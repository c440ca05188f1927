------------------------- MODULE VoiceOutputProofs -------------------------
(***************************************************************************)
(* Proofs about the voice coordinator (Voice) as the output bridge         *)
(* (VoiceOutput) drives it.                                                *)
(*                                                                         *)
(* The proofs see the coordinator through VoiceMove: whatever the bridge   *)
(* does, the coordinator loads, returns, takes a step of its own, or the   *)
(* session is saved by somebody else.  VoiceInv is inductive under those   *)
(* moves; it needs that a turn which is about to be named exists already   *)
(* (NamesTurn), and that a barge-in is pending from the step that counted  *)
(* it to its save only (Pending).                                          *)
(*                                                                         *)
(* The bridge's own invariant is about three clocks: a stream remembers    *)
(* the generation and the interruptions at its opening, and no matter      *)
(* when it looks at the first, it knows about the second (Fenced).  A      *)
(* chunk that goes out late is the last one for that reason (LateIs): the  *)
(* pump looks at the generation before it takes another.                   *)
(***************************************************************************)
EXTENDS VoiceOutput, FiniteSetTheorems, TLAPS

-----------------------------------------------------------------------------
(* The coordinator *)

CallRecord == [op : Operations, turn : Nat, step : Steps, version : Nat,
               status : {"running", "completed", "cancelled"}, barged : BOOLEAN]

\* A turn that becomes the active one is a turn of the stored session.
NamesTurn(k, last) ==
  (k.op = "tts_started" /\ k.step = "loaded") \/ (k.op = "final" /\ k.step = "answered")
    => k.turn \in 1..last

\* A barge-in that is not stored yet waits for the save of its own call.
Pending(k) == k.barged => k.op = "speech" /\ k.step = "saving"

Barging == {c \in Callers : call[c].barged}

Counted ==
  /\ IsFiniteSet(Barging)
  /\ barges + Cardinality(Barging) <= interruptions
  /\ interruptions <= generation

VoiceInv ==
  /\ TypeOK
  /\ \A c \in Callers : NamesTurn(call[c], turns) /\ Pending(call[c])
  /\ Counted
  /\ SpeakingHasTurn

\* What the bridge's steps do to the coordinator.
Loads(c) == \E op \in Operations, turn \in Nat :
  Load(c, op, turn) /\ (op = "tts_started" => turn \in 1..turns)
Returns(c) == CallReturns(c) /\ UNCHANGED <<stored, memory>>
TasksEnd == \E tasks \in SUBSET Callers :
  /\ call' = [c \in Callers |-> IF c \in tasks THEN NoCall ELSE call[c]]
  /\ UNCHANGED <<stored, memory>>
OthersSave ==
  /\ status' \in {"running", "completed", "cancelled"} /\ version' \in Nat
  /\ turns' \in Nat /\ turns <= turns'
  /\ UNCHANGED <<barges, memory, call>>

VoiceMove ==
  \/ \E c \in Callers : Loads(c) \/ Returns(c) \/ CancelSession(c) \/ Step(c)
  \/ TasksEnd
  \/ OthersSave
  \/ UNCHANGED voiceVars

\* One call moves on and no barge-in is counted or stored.
LEMMA OneCallMoves ==
  ASSUME VoiceInv, NEW c \in Callers, NEW k, k \in CallRecord,
         call' = [call EXCEPT ![c] = k],
         NamesTurn(k, turns'), ~k.barged,
         turns' \in Nat, turns <= turns', version' \in Nat,
         status' \in {"running", "completed", "cancelled"},
         UNCHANGED <<barges, interruptions>>,
         generation' \in Nat, generation <= generation',
         phase' \in Phases, active' \in Nat,
         SpeakingHasTurn'
  PROVE  VoiceInv'
<1>1. call \in [Callers -> CallRecord] BY DEF VoiceInv, TypeOK, CallRecord
<1>2. call' \in [Callers -> CallRecord] /\ \A d \in Callers : call'[d] = IF d = c THEN k ELSE call[d]
  BY <1>1
<1>3. TypeOK' BY <1>2 DEF VoiceInv, TypeOK, CallRecord
<1>4. ASSUME NEW d \in Callers PROVE NamesTurn(call'[d], turns') /\ Pending(call'[d])
  <2>1. CASE d = c
    <3>1. call'[d] = k BY <1>2, <2>1
    <3> QED BY <3>1 DEF NamesTurn, Pending
  <2>2. CASE d # c
    <3>1. call'[d] = call[d] /\ NamesTurn(call[d], turns) /\ Pending(call[d]) BY <1>2, <2>2 DEF VoiceInv
    <3>2. turns \in Nat BY DEF VoiceInv, TypeOK
    <3> QED BY <3>1, <3>2 DEF NamesTurn, Pending
  <2> QED BY <2>1, <2>2
<1>5. Counted'
  <2>1. Barging' = Barging \ {c} BY <1>2 DEF Barging
  <2>2. IsFiniteSet(Barging') /\ Cardinality(Barging') <= Cardinality(Barging)
        /\ Cardinality(Barging) \in Nat /\ Cardinality(Barging') \in Nat
    BY <2>1, FS_Subset, FS_CardinalityType DEF VoiceInv, Counted
  <2> QED BY <2>2 DEF VoiceInv, Counted, TypeOK
<1> QED BY <1>3, <1>4, <1>5 DEF VoiceInv

\* A step that leaves the calls alone.
LEMMA OthersMove ==
  ASSUME VoiceInv, OthersSave PROVE VoiceInv'
<1>1. TypeOK' /\ SpeakingHasTurn'
  BY DEF OthersSave, memory, VoiceInv, TypeOK, SpeakingHasTurn
<1>2. ASSUME NEW d \in Callers PROVE NamesTurn(call'[d], turns') /\ Pending(call'[d])
  <2>1. call' = call /\ NamesTurn(call[d], turns) /\ Pending(call[d]) BY DEF OthersSave, VoiceInv
  <2>2. turns \in Nat /\ turns' \in Nat /\ turns <= turns' BY DEF OthersSave, VoiceInv, TypeOK
  <2> QED BY <2>1, <2>2 DEF NamesTurn, Pending
<1>3. Counted' BY DEF OthersSave, memory, VoiceInv, Counted, Barging
<1> QED BY <1>1, <1>2, <1>3 DEF VoiceInv

\* What a call has loaded has a type.
LEMMA CallTypes ==
  ASSUME VoiceInv, NEW c \in Callers
  PROVE  /\ call[c].op \in Operations /\ call[c].turn \in Nat /\ call[c].step \in Steps
         /\ call[c].version \in Nat /\ call[c].status \in {"running", "completed", "cancelled"}
         /\ call[c].barged \in BOOLEAN /\ NamesTurn(call[c], turns) /\ Pending(call[c])
         /\ version \in Nat /\ turns \in Nat /\ barges \in Nat
         /\ status \in {"running", "completed", "cancelled"}
         /\ generation \in Nat /\ interruptions \in Nat /\ phase \in Phases /\ active \in Nat
  BY DEF VoiceInv, TypeOK

\* A call that is over, or waits for service.answer.
LEMMA PastMoves ==
  ASSUME VoiceInv, NEW c \in Callers, NEW step \in {"done", "failed", "processing"},
         Past(c, step), version' \in Nat, UNCHANGED <<status, turns, barges, interruptions>>,
         generation' \in Nat, generation <= generation',
         phase' \in Phases, active' \in Nat, SpeakingHasTurn'
  PROVE  VoiceInv'
<1> DEFINE k == Call(call[c].op, NoTurn, step, 0, "running", FALSE)
<1>1. k.op = call[c].op /\ k.step = step /\ k.barged = FALSE BY DEF Call
<1>2. k \in CallRecord BY CallTypes DEF Call, CallRecord, Steps, NoTurn
<1>3. call' = [call EXCEPT ![c] = k] BY DEF Past
<1>4. NamesTurn(k, turns') BY <1>1 DEF NamesTurn
<1> HIDE DEF k
<1>5. turns' \in Nat /\ turns <= turns' /\ status' \in {"running", "completed", "cancelled"}
  BY CallTypes
<1> QED BY <1>1, <1>2, <1>3, <1>4, <1>5, OneCallMoves

\* A call that has changed the memory and is about to save.
LEMMA ToSavingMoves ==
  ASSUME VoiceInv, NEW c \in Callers, ~call[c].barged, To(c, "saving"), UNCHANGED stored,
         UNCHANGED interruptions, generation' \in Nat, generation <= generation',
         phase' \in Phases, active' \in Nat, SpeakingHasTurn'
  PROVE  VoiceInv'
<1> DEFINE k == Call(call[c].op, call[c].turn, "saving", call[c].version, call[c].status,
                     call[c].barged)
<1>1. k.step = "saving" /\ k.barged = call[c].barged BY DEF Call
<1>2. k \in CallRecord BY CallTypes DEF Call, CallRecord, Steps
<1>3. call' = [call EXCEPT ![c] = k] BY DEF To
<1>4. NamesTurn(k, turns') BY <1>1 DEF NamesTurn
<1> HIDE DEF k
<1>5. turns' \in Nat /\ turns <= turns' /\ version' \in Nat /\ barges' = barges
      /\ status' \in {"running", "completed", "cancelled"}
  BY CallTypes DEF stored
<1> QED BY <1>1, <1>2, <1>3, <1>4, <1>5, OneCallMoves

LEMMA LoadMoves ==
  ASSUME VoiceInv, NEW c \in Callers, NEW op \in Operations, NEW turn \in Nat, Load(c, op, turn),
         op = "tts_started" => turn \in 1..turns
  PROVE  VoiceInv'
<1> DEFINE k == Call(op, turn, "loaded", version, status, FALSE)
<1>1. k.op = op /\ k.turn = turn /\ k.step = "loaded" /\ k.barged = FALSE BY DEF Call
<1>2. k \in CallRecord BY CallTypes DEF Call, CallRecord, Steps
<1>3. call' = [call EXCEPT ![c] = k] BY DEF Load
<1>4. turns' = turns BY DEF Load, stored
<1>5. NamesTurn(k, turns') BY <1>1, <1>4 DEF NamesTurn
<1> HIDE DEF k
<1>6. SpeakingHasTurn' BY DEF Load, stored, memory, VoiceInv, SpeakingHasTurn
<1>7. /\ version' = version /\ turns' = turns /\ status' = status /\ barges' = barges
      /\ interruptions' = interruptions /\ generation' = generation
      /\ phase' = phase /\ active' = active
  BY DEF Load, stored, memory
<1>8. /\ turns' \in Nat /\ turns <= turns' /\ version' \in Nat
      /\ status' \in {"running", "completed", "cancelled"}
      /\ generation' \in Nat /\ generation <= generation' /\ phase' \in Phases /\ active' \in Nat
  BY <1>7, CallTypes
<1> QED BY <1>1, <1>2, <1>3, <1>5, <1>6, <1>7, <1>8, OneCallMoves

LEMMA ReturnMoves == ASSUME VoiceInv, NEW c \in Callers, Returns(c) PROVE VoiceInv'
<1>1. NoCall \in CallRecord /\ NoCall.op = "none" /\ NoCall.barged = FALSE
  BY DEF NoCall, Call, CallRecord, Operations, Steps, NoTurn
<1>2. call' = [call EXCEPT ![c] = NoCall] BY DEF Returns, CallReturns
<1>3. NamesTurn(NoCall, turns') BY <1>1 DEF NamesTurn
<1>4. SpeakingHasTurn' BY DEF Returns, stored, memory, VoiceInv, SpeakingHasTurn
<1>5. /\ version' = version /\ turns' = turns /\ status' = status /\ barges' = barges
      /\ interruptions' = interruptions /\ generation' = generation
      /\ phase' = phase /\ active' = active
  BY DEF Returns, stored, memory
<1>6. /\ turns' \in Nat /\ turns <= turns' /\ version' \in Nat
      /\ status' \in {"running", "completed", "cancelled"}
      /\ generation' \in Nat /\ generation <= generation' /\ phase' \in Phases /\ active' \in Nat
  BY <1>5, CallTypes
<1> QED BY <1>1, <1>2, <1>3, <1>4, <1>5, <1>6, OneCallMoves

LEMMA TasksEndMoves == ASSUME VoiceInv, TasksEnd PROVE VoiceInv'
<1>1. PICK tasks \in SUBSET Callers :
        /\ call' = [c \in Callers |-> IF c \in tasks THEN NoCall ELSE call[c]]
        /\ UNCHANGED <<stored, memory>>
  BY DEF TasksEnd
<1>2. NoCall \in CallRecord /\ NoCall.op = "none" /\ NoCall.barged = FALSE
  BY DEF NoCall, Call, CallRecord, Operations, Steps, NoTurn
<1>3. call \in [Callers -> CallRecord] BY DEF VoiceInv, TypeOK, CallRecord
<1>4. call' \in [Callers -> CallRecord]
      /\ \A d \in Callers : call'[d] = IF d \in tasks THEN NoCall ELSE call[d]
  BY <1>1, <1>2, <1>3
<1>5. /\ version' = version /\ turns' = turns /\ status' = status /\ barges' = barges
      /\ interruptions' = interruptions /\ generation' = generation
      /\ phase' = phase /\ active' = active
  BY <1>1 DEF stored, memory
<1>6. TypeOK' /\ SpeakingHasTurn'
  BY <1>4, <1>5 DEF VoiceInv, TypeOK, CallRecord, SpeakingHasTurn
<1>7. ASSUME NEW d \in Callers PROVE NamesTurn(call'[d], turns') /\ Pending(call'[d])
  <2>1. CASE d \in tasks
    <3>1. call'[d] = NoCall BY <1>4, <2>1
    <3> QED BY <1>2, <3>1 DEF NamesTurn, Pending
  <2>2. CASE d \notin tasks
    <3>1. call'[d] = call[d] /\ NamesTurn(call[d], turns) /\ Pending(call[d])
      BY <1>4, <2>2 DEF VoiceInv
    <3> QED BY <1>5, <3>1
  <2> QED BY <2>1, <2>2
<1>8. Counted'
  <2>1. Barging' \subseteq Barging BY <1>2, <1>4 DEF Barging
  <2>2. IsFiniteSet(Barging') /\ Cardinality(Barging') <= Cardinality(Barging)
        /\ Cardinality(Barging) \in Nat /\ Cardinality(Barging') \in Nat
    BY <2>1, FS_Subset, FS_CardinalityType DEF VoiceInv, Counted
  <2> QED BY <1>5, <2>2, CallTypes DEF VoiceInv, Counted, TypeOK
<1> QED BY <1>6, <1>7, <1>8 DEF VoiceInv

LEMMA CancelMoves == ASSUME VoiceInv, NEW c \in Callers, CancelSession(c) PROVE VoiceInv'
<1> DEFINE k == Call("close", NoTurn, "begun", 0, "cancelled", FALSE)
<1>1. k.op = "close" /\ k.barged = FALSE BY DEF Call
<1>2. k \in CallRecord BY DEF Call, CallRecord, Steps, Operations, NoTurn
<1>3. call' = [call EXCEPT ![c] = k] BY DEF CancelSession
<1>4. NamesTurn(k, turns') BY <1>1 DEF NamesTurn
<1> HIDE DEF k
<1>5. SpeakingHasTurn' BY DEF CancelSession, memory, VoiceInv, SpeakingHasTurn
<1>6. version' \in Nat /\ status' \in {"running", "completed", "cancelled"}
  BY CallTypes DEF CancelSession
<1>7. /\ turns' = turns /\ barges' = barges
      /\ interruptions' = interruptions /\ generation' = generation
      /\ phase' = phase /\ active' = active
  BY DEF CancelSession, memory
<1>8. /\ turns' \in Nat /\ turns <= turns' /\ version' \in Nat
      /\ status' \in {"running", "completed", "cancelled"}
      /\ generation' \in Nat /\ generation <= generation' /\ phase' \in Phases /\ active' \in Nat
  BY <1>6, <1>7, CallTypes
<1> QED BY <1>1, <1>2, <1>3, <1>4, <1>5, <1>7, <1>8, OneCallMoves

-----------------------------------------------------------------------------
(* Steps inside the coordinator *)

\* A save that is decided: the row, and the barge-ins in it.
LEMMA SavedTypes ==
  ASSUME VoiceInv, NEW c \in Callers, Saved(c)
  PROVE  /\ version' \in Nat /\ turns' = turns /\ status' = status
         /\ (~call[c].barged => barges' = barges)
         /\ (call[c].barged => barges' = barges + 1)
  BY CallTypes DEF Saved

\* The save of a barge-in: it is stored and not pending any more.
LEMMA BargeInSaved ==
  ASSUME VoiceInv, NEW c \in Callers, call[c].barged, Past(c, "done"), Saved(c),
         UNCHANGED memory
  PROVE  VoiceInv'
<1> DEFINE k == Call(call[c].op, NoTurn, "done", 0, "running", FALSE)
<1>1. k.op = call[c].op /\ k.step = "done" /\ k.barged = FALSE BY DEF Call
<1>2. k \in CallRecord BY CallTypes DEF Call, CallRecord, Steps, NoTurn
<1>3. call' = [call EXCEPT ![c] = k] BY DEF Past
<1> HIDE DEF k
<1>4. /\ version' \in Nat /\ turns' = turns /\ status' = status /\ barges' = barges + 1
  BY SavedTypes
<1>5. /\ interruptions' = interruptions /\ generation' = generation
      /\ phase' = phase /\ active' = active
  BY DEF memory
<1>6. call \in [Callers -> CallRecord] BY DEF VoiceInv, TypeOK, CallRecord
<1>7. call' \in [Callers -> CallRecord]
      /\ \A d \in Callers : call'[d] = IF d = c THEN k ELSE call[d]
  BY <1>2, <1>3, <1>6
<1>8. TypeOK' BY <1>4, <1>5, <1>7, CallTypes DEF VoiceInv, TypeOK, CallRecord
<1>9. ASSUME NEW d \in Callers PROVE NamesTurn(call'[d], turns') /\ Pending(call'[d])
  <2>1. CASE d = c
    <3>1. call'[d] = k BY <1>7, <2>1
    <3> QED BY <3>1, <1>1 DEF NamesTurn, Pending
  <2>2. CASE d # c BY <1>4, <1>7, <2>2, CallTypes
  <2> QED BY <2>1, <2>2
<1>10. Counted'
  <2>1. Barging' = Barging \ {c} /\ c \in Barging BY <1>1, <1>7 DEF Barging
  <2>2. IsFiniteSet(Barging') /\ Cardinality(Barging') = Cardinality(Barging) - 1
        /\ Cardinality(Barging) \in Nat
    BY <2>1, FS_RemoveElement, FS_CardinalityType DEF VoiceInv, Counted
  <2> QED BY <1>4, <1>5, <2>2, CallTypes DEF VoiceInv, Counted
<1>11. SpeakingHasTurn' BY <1>4, <1>5 DEF VoiceInv, SpeakingHasTurn
<1> QED BY <1>8, <1>9, <1>10, <1>11 DEF VoiceInv

LEMMA SaveMoves == ASSUME VoiceInv, NEW c \in Callers, Save(c) PROVE VoiceInv'
<1>0. /\ interruptions' = interruptions /\ generation' = generation
      /\ phase' = phase /\ active' = active
  BY DEF Save, memory
<1>1. CASE Saved(c) /\ Past(c, "done")
  <2>1. CASE call[c].barged BY <1>1, <2>1, BargeInSaved DEF Save
  <2>2. CASE ~call[c].barged
    <3>1. version' \in Nat /\ turns' = turns /\ status' = status /\ barges' = barges
      BY <1>1, <2>2, SavedTypes
    <3>2. SpeakingHasTurn' BY <1>0, <3>1 DEF VoiceInv, SpeakingHasTurn
    <3> QED BY <1>0, <1>1, <3>1, <3>2, PastMoves, CallTypes
  <2> QED BY <2>1, <2>2
<1>2. CASE Past(c, "failed") /\ UNCHANGED stored
  <2>1. version' = version /\ turns' = turns /\ status' = status /\ barges' = barges
    BY <1>2 DEF stored
  <2>2. SpeakingHasTurn' BY <1>0, <2>1 DEF VoiceInv, SpeakingHasTurn
  <2> QED BY <1>0, <1>2, <2>1, <2>2, PastMoves, CallTypes
<1> QED BY <1>1, <1>2 DEF Save

LEMMA RefuseInputMoves == ASSUME VoiceInv, NEW c \in Callers, RefuseInput(c) PROVE VoiceInv'
<1>1. /\ version' = version /\ turns' = turns /\ status' = status /\ barges' = barges
      /\ interruptions' = interruptions /\ generation' = generation
      /\ phase' = "closed" /\ active' = active /\ Past(c, "failed")
  BY DEF RefuseInput, stored
<1>2. SpeakingHasTurn' BY <1>1 DEF VoiceInv, SpeakingHasTurn
<1>3. "closed" \in Phases BY DEF Phases
<1> QED BY <1>1, <1>2, <1>3, PastMoves, CallTypes

\* speech_started: a barge-in is counted and becomes pending in the same step.
LEMMA SpeechMoves == ASSUME VoiceInv, NEW c \in Callers, SpeechStarted(c) PROVE VoiceInv'
<1> DEFINE bargeIn == phase = "speaking"
           k == Call("speech", NoTurn, "saving", call[c].version, call[c].status, bargeIn)
<1>0. /\ call' = [call EXCEPT ![c] = k]
      /\ generation' = IF bargeIn THEN generation + 1 ELSE generation
      /\ interruptions' = IF bargeIn THEN interruptions + 1 ELSE interruptions
      /\ active' = IF bargeIn THEN NoTurn ELSE active
  BY DEF SpeechStarted
<1>a. /\ version' = version /\ turns' = turns /\ status' = status /\ barges' = barges
      /\ phase' = "listening" /\ call[c].step = "loaded"
  BY DEF SpeechStarted, stored, At
<1>1. /\ k.op = "speech" /\ k.step = "saving" /\ k.barged = bargeIn BY DEF Call
<1>2. k \in CallRecord BY CallTypes DEF Call, CallRecord, Steps, NoTurn, Operations
<1> HIDE DEF k
<1>3. call \in [Callers -> CallRecord] BY DEF VoiceInv, TypeOK, CallRecord
<1>4. call' \in [Callers -> CallRecord]
      /\ \A d \in Callers : call'[d] = IF d = c THEN k ELSE call[d]
  BY <1>0, <1>2, <1>3
<1>5. TypeOK' /\ SpeakingHasTurn'
  <2>1. "listening" \in Phases /\ "listening" # "speaking" /\ NoTurn = 0 BY DEF Phases, NoTurn
  <2>2. active' \in Nat /\ generation' \in Nat /\ interruptions' \in Nat BY <1>0, <2>1, CallTypes
  <2>3. active' <= turns' BY <1>0, <1>a, <2>1, CallTypes DEF VoiceInv, SpeakingHasTurn
  <2> QED BY <1>4, <1>a, <2>1, <2>2, <2>3, CallTypes DEF TypeOK, CallRecord, SpeakingHasTurn
<1>6. ASSUME NEW d \in Callers PROVE NamesTurn(call'[d], turns') /\ Pending(call'[d])
  <2>1. CASE d = c
    <3>1. call'[d] = k BY <1>4, <2>1
    <3> QED BY <3>1, <1>1 DEF NamesTurn, Pending
  <2>2. CASE d # c BY <1>a, <1>4, <2>2, CallTypes
  <2> QED BY <2>1, <2>2
<1>7. Counted'
  <2>1. ~call[c].barged BY <1>a, CallTypes DEF Pending
  <2>2. IsFiniteSet(Barging) /\ Cardinality(Barging) \in Nat
    BY FS_CardinalityType DEF VoiceInv, Counted
  <2>3. CASE bargeIn
    <3>1. Barging' = Barging \cup {c} /\ c \notin Barging
      BY <1>1, <1>4, <2>1, <2>3 DEF Barging
    <3>2. IsFiniteSet(Barging') /\ Cardinality(Barging') = Cardinality(Barging) + 1
      BY <2>2, <3>1, FS_AddElement
    <3> QED BY <1>0, <1>a, <2>2, <2>3, <3>2, CallTypes DEF VoiceInv, Counted
  <2>4. CASE ~bargeIn
    <3>1. Barging' = Barging BY <1>1, <1>4, <2>1, <2>4 DEF Barging
    <3> QED BY <1>0, <1>a, <2>2, <2>4, <3>1, CallTypes DEF VoiceInv, Counted
  <2> QED BY <2>3, <2>4
<1> QED BY <1>5, <1>6, <1>7 DEF VoiceInv

\* Nothing is pending in a call that is not the save of a barge-in.
LEMMA NothingPending ==
  ASSUME VoiceInv, NEW c \in Callers, call[c].op # "speech" \/ call[c].step # "saving"
  PROVE  ~call[c].barged
  BY CallTypes DEF Pending

LEMMA TranscriptMoves ==
  ASSUME VoiceInv, NEW c \in Callers,
         TranscriptFinal(c) \/ TranscriptSaved(c) \/ ResponseReady(c)
  PROVE  VoiceInv'
<1>0. ~call[c].barged
  BY NothingPending DEF TranscriptFinal, TranscriptSaved, ResponseReady, At
<1>1. CASE TranscriptFinal(c)
  <2>1. /\ version' = version /\ turns' = turns /\ status' = status /\ barges' = barges
        /\ interruptions' = interruptions /\ generation' = generation
        /\ phase' = phase /\ active' = active /\ UNCHANGED stored
        /\ To(c, "saving") \/ Past(c, "failed")
    BY <1>1 DEF TranscriptFinal, stored, memory
  <2>2. SpeakingHasTurn' BY <2>1 DEF VoiceInv, SpeakingHasTurn
  <2>3. CASE To(c, "saving") BY <1>0, <2>1, <2>2, <2>3, ToSavingMoves, CallTypes
  <2>4. CASE Past(c, "failed") BY <2>1, <2>2, <2>4, PastMoves, CallTypes
  <2> QED BY <2>1, <2>3, <2>4
<1>2. CASE TranscriptSaved(c)
  <2>1. interruptions' = interruptions /\ generation' = generation /\ active' = active
    BY <1>2 DEF TranscriptSaved
  <2>2. CASE Saved(c) /\ Past(c, "processing") /\ phase' = "processing"
    <3>1. version' \in Nat /\ turns' = turns /\ status' = status /\ barges' = barges
      BY <1>0, <2>2, SavedTypes
    <3>2. SpeakingHasTurn' BY <2>1, <2>2, <3>1 DEF VoiceInv, SpeakingHasTurn
    <3>3. phase' \in Phases BY <2>2 DEF Phases
    <3> QED BY <2>1, <2>2, <3>1, <3>2, <3>3, PastMoves, CallTypes
  <2>3. CASE Past(c, "failed") /\ UNCHANGED <<stored, phase>>
    <3>1. version' = version /\ turns' = turns /\ status' = status /\ barges' = barges
          /\ phase' = phase
      BY <2>3 DEF stored
    <3>2. SpeakingHasTurn' BY <2>1, <3>1 DEF VoiceInv, SpeakingHasTurn
    <3> QED BY <2>1, <2>3, <3>1, <3>2, PastMoves, CallTypes
  <2> QED BY <1>2, <2>2, <2>3 DEF TranscriptSaved
<1>3. CASE ResponseReady(c)
  <2>1. /\ version' = version /\ turns' = turns /\ status' = status /\ barges' = barges
        /\ interruptions' = interruptions /\ generation' = generation
        /\ phase' = phase /\ active' = call[c].turn /\ Past(c, "done")
    BY <1>3 DEF ResponseReady, stored
  <2>2. call[c].turn \in 1..turns BY <1>3, CallTypes DEF ResponseReady, At, NamesTurn
  <2>3. SpeakingHasTurn' BY <2>1, <2>2, CallTypes DEF SpeakingHasTurn, NoTurn
  <2> QED BY <2>1, <2>3, PastMoves, CallTypes
<1> QED BY <1>1, <1>2, <1>3

LEMMA AnswerMoves == ASSUME VoiceInv, NEW c \in Callers, Answer(c) PROVE VoiceInv'
<1>0. ~call[c].barged BY NothingPending DEF Answer, At
<1>1. /\ interruptions' = interruptions /\ generation' = generation
      /\ phase' = phase /\ active' = active
  BY DEF Answer, memory
<1>2. CASE Past(c, "failed") /\ UNCHANGED stored
  <2>1. version' = version /\ turns' = turns /\ status' = status /\ barges' = barges
    BY <1>2 DEF stored
  <2>2. SpeakingHasTurn' BY <1>1, <2>1 DEF VoiceInv, SpeakingHasTurn
  <2> QED BY <1>1, <1>2, <2>1, <2>2, PastMoves, CallTypes
<1>3. CASE /\ turns' = turns + 1 /\ version' = version + 1
           /\ status' \in {"running", "completed"}
           /\ call' = [call EXCEPT ![c] = Call("final", turns + 1, "answered", 0, "running", FALSE)]
           /\ UNCHANGED barges
  <2> DEFINE k == Call("final", turns + 1, "answered", 0, "running", FALSE)
  <2>1. k.turn = turns + 1 /\ k.barged = FALSE BY DEF Call
  <2>2. k \in CallRecord BY CallTypes DEF Call, CallRecord, Steps, Operations
  <2>3. call' = [call EXCEPT ![c] = k] BY <1>3
  <2> HIDE DEF k
  <2>4. /\ turns' \in Nat /\ turns <= turns' /\ version' \in Nat
        /\ status' \in {"running", "completed", "cancelled"}
        /\ generation' \in Nat /\ generation <= generation' /\ phase' \in Phases /\ active' \in Nat
    BY <1>1, <1>3, CallTypes
  <2>5. NamesTurn(k, turns') BY <1>3, <2>1, CallTypes DEF NamesTurn
  <2>6. SpeakingHasTurn' BY <1>1, <1>3, CallTypes DEF VoiceInv, SpeakingHasTurn
  <2> QED BY <1>1, <1>3, <2>1, <2>2, <2>3, <2>4, <2>5, <2>6, OneCallMoves
<1> QED BY <1>2, <1>3 DEF Answer

LEMMA TtsMoves ==
  ASSUME VoiceInv, NEW c \in Callers, TtsStarted(c) \/ TtsEnded(c)
  PROVE  VoiceInv'
<1>0. ~call[c].barged BY NothingPending DEF TtsStarted, TtsEnded, At
<1>1. /\ version' = version /\ turns' = turns /\ status' = status /\ barges' = barges
      /\ interruptions' = interruptions /\ generation' = generation /\ UNCHANGED stored
  BY DEF TtsStarted, TtsEnded, stored
<1>2. CASE TtsStarted(c)
  <2>1. call[c].turn \in 1..turns BY <1>2, CallTypes DEF TtsStarted, At, NamesTurn
  <2>2. CASE phase' = "speaking" /\ active' = call[c].turn /\ To(c, "saving")
    <3>1. SpeakingHasTurn' BY <1>1, <2>1, <2>2, CallTypes DEF SpeakingHasTurn, NoTurn
    <3>2. phase' \in Phases BY <2>2 DEF Phases
    <3> QED BY <1>0, <1>1, <2>2, <3>1, <3>2, ToSavingMoves, CallTypes
  <2>3. CASE /\ phase' = IF call[c].status = "cancelled" THEN "closed" ELSE phase
             /\ Past(c, "failed") /\ active' = active
    <3>1. SpeakingHasTurn' BY <1>1, <2>3 DEF VoiceInv, SpeakingHasTurn
    <3>2. phase' \in Phases BY <2>3, CallTypes DEF Phases
    <3> QED BY <1>1, <2>3, <3>1, <3>2, PastMoves, CallTypes
  <2> QED BY <1>2, <2>2, <2>3 DEF TtsStarted
<1>3. CASE TtsEnded(c)
  <2>1. CASE active' = NoTurn /\ phase' = PhaseAfterTts(c) /\ To(c, "saving")
    <3>1. PhaseAfterTts(c) \in Phases \ {"speaking"} /\ NoTurn = 0
      BY DEF PhaseAfterTts, Phases, NoTurn
    <3>2. SpeakingHasTurn' BY <1>1, <2>1, <3>1, CallTypes DEF SpeakingHasTurn
    <3> QED BY <1>0, <1>1, <2>1, <3>1, <3>2, ToSavingMoves, CallTypes
  <2>2. CASE Past(c, "failed") /\ phase' = phase /\ active' = active
    <3>1. SpeakingHasTurn' BY <1>1, <2>2 DEF VoiceInv, SpeakingHasTurn
    <3> QED BY <1>1, <2>2, <3>1, PastMoves, CallTypes
  <2> QED BY <1>3, <2>1, <2>2 DEF TtsEnded
<1> QED BY <1>2, <1>3

LEMMA CloseMoves ==
  ASSUME VoiceInv, NEW c \in Callers, LoadClose(c) \/ CloseSession(c) \/ CloseSaved(c)
  PROVE  VoiceInv'
<1>0. ~call[c].barged BY NothingPending DEF LoadClose, CloseSession, CloseSaved, At
<1>1. CASE LoadClose(c)
  <2>1. Load(c, "close", NoTurn) /\ "close" \in Operations /\ NoTurn \in Nat
    BY <1>1 DEF LoadClose, Operations, NoTurn
  <2> QED BY <2>1, LoadMoves
<1>2. CASE CloseSession(c)
  <2>1. /\ version' = version /\ turns' = turns /\ status' = status /\ barges' = barges
        /\ interruptions' = interruptions /\ generation' = generation + 1 /\ active' = active
        /\ UNCHANGED stored
    BY <1>2 DEF CloseSession, stored
  <2>2. CASE phase' = "closed" /\ Past(c, "done")
    <3>1. SpeakingHasTurn' BY <2>1, <2>2 DEF VoiceInv, SpeakingHasTurn
    <3>2. phase' \in Phases BY <2>2 DEF Phases
    <3> QED BY <2>1, <2>2, <3>1, <3>2, PastMoves, CallTypes
  <2>3. CASE To(c, "saving") /\ phase' = phase
    <3>1. SpeakingHasTurn' BY <2>1, <2>3 DEF VoiceInv, SpeakingHasTurn
    <3> QED BY <1>0, <2>1, <2>3, <3>1, ToSavingMoves, CallTypes
  <2> QED BY <1>2, <2>2, <2>3 DEF CloseSession
<1>3. CASE CloseSaved(c)
  <2>1. interruptions' = interruptions /\ generation' = generation BY <1>3 DEF CloseSaved
  <2>2. CASE Saved(c) /\ Past(c, "done") /\ active' = NoTurn /\ phase' = "closed"
    <3>1. version' \in Nat /\ turns' = turns /\ status' = status /\ barges' = barges
      BY <1>0, <2>2, SavedTypes
    <3>2. SpeakingHasTurn' BY <2>2, <3>1, CallTypes DEF SpeakingHasTurn, NoTurn
    <3>3. phase' \in Phases /\ active' \in Nat BY <2>2 DEF Phases, NoTurn
    <3> QED BY <2>1, <2>2, <3>1, <3>2, <3>3, PastMoves, CallTypes
  <2>3. CASE Past(c, "failed") /\ UNCHANGED <<stored, active, phase>>
    <3>1. version' = version /\ turns' = turns /\ status' = status /\ barges' = barges
          /\ phase' = phase /\ active' = active
      BY <2>3 DEF stored
    <3>2. SpeakingHasTurn' BY <3>1 DEF VoiceInv, SpeakingHasTurn
    <3> QED BY <2>1, <2>3, <3>1, <3>2, PastMoves, CallTypes
  <2> QED BY <1>3, <2>2, <2>3 DEF CloseSaved
<1> QED BY <1>1, <1>2, <1>3

LEMMA MoveKeepsVoice == ASSUME VoiceInv, VoiceMove PROVE VoiceInv'
<1>1. ASSUME NEW c \in Callers, Loads(c) PROVE VoiceInv' BY <1>1, LoadMoves DEF Loads
<1>2. ASSUME NEW c \in Callers, Step(c) PROVE VoiceInv'
  BY <1>2, SaveMoves, RefuseInputMoves, SpeechMoves, TranscriptMoves, AnswerMoves, TtsMoves,
     CloseMoves DEF Step
<1>3. CASE UNCHANGED voiceVars
  BY <1>3 DEF voiceVars, stored, memory, VoiceInv, TypeOK, Counted, Barging, SpeakingHasTurn
<1> QED BY <1>1, <1>2, <1>3, ReturnMoves, TasksEndMoves, CancelMoves, OthersMove DEF VoiceMove

-----------------------------------------------------------------------------
(* The clocks *)

\* x was asked for at some generation and with some interruptions: those since then
\* are no more than the generations since then.
Fenced(x, g, i) == x.gen \in Nat /\ x.since \in Nat /\ x.since <= i /\ i + x.gen <= g + x.since

\* No step interrupts without a new generation.
Later ==
  /\ generation \in Nat /\ generation' \in Nat /\ interruptions \in Nat /\ interruptions' \in Nat
  /\ interruptions <= interruptions' /\ interruptions' + generation <= generation' + interruptions
  /\ turns \in Nat /\ turns' \in Nat /\ turns <= turns'

LEMMA LaterSums ==
  ASSUME NEW a \in Nat, NEW b \in Nat, NEW g \in Nat, NEW i \in Nat, NEW h \in Nat, NEW k \in Nat,
         b <= i, i + a <= g + b, i <= k, k + g <= h + i
  PROVE  b <= k /\ k + a <= h + b
  OBVIOUS

LEMMA FencedStays ==
  ASSUME Later, NEW x, Fenced(x, generation, interruptions)
  PROVE  Fenced(x, generation', interruptions')
<1> DEFINE a == x.gen
           b == x.since
<1>1. a \in Nat /\ b \in Nat /\ b <= interruptions /\ interruptions + a <= generation + b
  BY DEF Fenced
<1> HIDE DEF a, b
<1>2. /\ generation \in Nat /\ generation' \in Nat
      /\ interruptions \in Nat /\ interruptions' \in Nat /\ interruptions <= interruptions'
      /\ interruptions' + generation <= generation' + interruptions
  BY DEF Later
<1>3. b <= interruptions' /\ interruptions' + a <= generation' + b BY <1>1, <1>2, LaterSums
<1> QED BY <1>1, <1>3 DEF Fenced, a, b

LEMMA StepIsLater == ASSUME VoiceInv, NEW c \in Callers, Step(c) PROVE Later
<1>0. generation \in Nat /\ interruptions \in Nat /\ turns \in Nat BY CallTypes
<1>1. CASE SpeechStarted(c)
  <2>1. turns' = turns
        /\ (\/ generation' = generation + 1 /\ interruptions' = interruptions + 1
            \/ generation' = generation /\ interruptions' = interruptions)
    BY <1>1 DEF SpeechStarted, stored
  <2> QED BY <1>0, <2>1 DEF Later
<1>2. CASE CloseSession(c)
  <2>1. turns' = turns /\ generation' = generation + 1 /\ interruptions' = interruptions
    BY <1>2 DEF CloseSession, stored
  <2> QED BY <1>0, <2>1 DEF Later
<1>3. CASE Answer(c)
  <2>1. (turns' = turns \/ turns' = turns + 1) /\ generation' = generation
        /\ interruptions' = interruptions
    BY <1>3 DEF Answer, stored, memory
  <2> QED BY <1>0, <2>1 DEF Later
<1>4. CASE \/ Save(c) \/ RefuseInput(c) \/ TranscriptFinal(c) \/ TranscriptSaved(c)
           \/ ResponseReady(c) \/ TtsStarted(c) \/ TtsEnded(c) \/ LoadClose(c) \/ CloseSaved(c)
  <2>1. turns' = turns /\ generation' = generation /\ interruptions' = interruptions
    BY <1>4 DEF Save, RefuseInput, TranscriptFinal, TranscriptSaved, ResponseReady, TtsStarted,
                TtsEnded, LoadClose, Load, CloseSaved, Saved, stored, memory
  <2> QED BY <1>0, <2>1 DEF Later
<1> QED BY <1>1, <1>2, <1>3, <1>4 DEF Step

LEMMA MoveIsLater == ASSUME VoiceInv, VoiceMove PROVE Later
<1>0. generation \in Nat /\ interruptions \in Nat /\ turns \in Nat BY DEF VoiceInv, TypeOK
<1>1. CASE (\E c \in Callers : Loads(c) \/ Returns(c) \/ CancelSession(c)) \/ TasksEnd
  <2>1. turns' = turns /\ generation' = generation /\ interruptions' = interruptions
    BY <1>1 DEF Loads, Load, Returns, TasksEnd, CancelSession, stored, memory
  <2> QED BY <1>0, <2>1 DEF Later
<1>2. CASE \E c \in Callers : Step(c) BY <1>2, StepIsLater
<1>3. CASE OthersSave BY <1>0, <1>3 DEF OthersSave, memory, Later
<1>4. CASE UNCHANGED voiceVars
  <2>1. turns' = turns /\ generation' = generation /\ interruptions' = interruptions
    BY <1>4 DEF voiceVars, stored, memory
  <2> QED BY <1>0, <2>1 DEF Later
<1> QED BY <1>1, <1>2, <1>3, <1>4 DEF VoiceMove
-----------------------------------------------------------------------------
(* The bridge *)

JobRecord == [step : JobSteps, stream : Streams \cup {NoStream}, turn : Nat, gen : Nat, since : Nat]
OutputRecord == [turn : Nat, gen : Nat, since : Nat, registered : BOOLEAN, cancelled : BOOLEAN,
                 pump : Pumps, sent : 0..MaxChunks, late : Nat]

OpenSteps == {"synthesizing", "starting", "selecting"}
EndSteps == {"completing", "failing"}
StreamSteps == EndSteps \cup {"interrupting", "closing", "reclosing"}
Alive == {"opened", "running", "sending", "ending"}

BridgeTypes ==
  /\ current \in Streams \cup {NoStream}
  /\ job \in [Callers -> JobRecord]
  /\ output \in [Streams -> OutputRecord]

\* One open at a time, with a stream for it and nothing in its way.
OneOpens ==
  /\ \A c \in Callers : job[c].step \in OpenSteps => opening
  /\ \A c, d \in Callers : job[c].step \in OpenSteps /\ job[d].step \in OpenSteps => c = d
  /\ opening => current = NoStream /\ \E s \in Streams : output[s] = NoOutput

\* A job names a turn of the session, or a stream that was opened.
JobIsSound(j, out, last) ==
  /\ j.step = "synthesizing" => j.turn \in 1..last
  /\ j.step \in StreamSteps => j.stream \in Streams /\ out[j.stream].pump # "none"

Reports(j, s) == j.stream = s /\ j.step \in EndSteps
EndingIsReported ==
  \A s \in Streams : output[s].pump = "ending" => \E c \in Callers : Reports(job[c], s)

\* Only a refused end leaves a stream registered whose pump is over.
PumpsRegistered ==
  current # NoStream =>
    /\ output[current].pump # "none"
    /\ current \notin refused => output[current].pump \in Alive

\* A late chunk is the only one, and no other is on its way: the stream is older than
\* the last barge-in.
LateIs(o, i) == o.late = 0 \/ (o.late = 1 /\ o.pump # "sending" /\ o.since < i)

BridgeInv ==
  /\ BridgeTypes
  /\ OneOpens
  /\ \A c \in Callers : JobIsSound(job[c], output, turns)
  /\ EndingIsReported
  /\ PumpsRegistered
  /\ \A c \in Callers : Fenced(job[c], generation, interruptions)
  /\ \A s \in Streams : Fenced(output[s], generation, interruptions)
  /\ \A s \in Streams : LateIs(output[s], interruptions)

LEMMA BridgeStart == ASSUME OutputInit PROVE VoiceInv /\ BridgeInv
<1>1. NoCall \in CallRecord /\ NoCall.op = "none" /\ NoCall.barged = FALSE
  BY DEF NoCall, Call, CallRecord, Operations, Steps, NoTurn
<1>2. TypeOK /\ SpeakingHasTurn /\ \A c \in Callers : call[c] = NoCall
  BY <1>1 DEF OutputInit, Init, TypeOK, SpeakingHasTurn, CallRecord, Phases, NoTurn
<1>3. Counted
  <2>1. Barging = {} BY <1>1, <1>2 DEF Barging
  <2> QED BY <2>1, FS_EmptySet DEF OutputInit, Init, Counted
<1>4. VoiceInv BY <1>1, <1>2, <1>3 DEF VoiceInv, NamesTurn, Pending
<1>5. /\ NoJob.step = "none" /\ NoJob.gen = 0 /\ NoJob.since = 0
      /\ NoJob \in JobRecord
  BY DEF NoJob, StreamJob, Job, JobRecord, JobSteps, NoTurn
<1>6. /\ NoOutput.gen = 0 /\ NoOutput.since = 0 /\ NoOutput.pump = "none" /\ NoOutput.late = 0
      /\ NoOutput \in OutputRecord
  BY OutputAssumption DEF NoOutput, OutputRecord, NoTurn, Pumps
<1>7. /\ opening = FALSE /\ current = NoStream /\ generation = 0 /\ interruptions = 0
      /\ output = [s \in Streams |-> NoOutput] /\ job = [c \in Callers |-> NoJob]
  BY DEF OutputInit, Init
<1> HIDE DEF NoJob, NoOutput
<1>8. BridgeTypes BY <1>5, <1>6, <1>7 DEF BridgeTypes
<1>9. OneOpens BY <1>5, <1>7 DEF OneOpens, OpenSteps
<1>10. \A c \in Callers : JobIsSound(job[c], output, turns)
  BY <1>5, <1>7 DEF JobIsSound, StreamSteps, EndSteps
<1>11. EndingIsReported /\ PumpsRegistered BY <1>6, <1>7 DEF EndingIsReported, PumpsRegistered
<1>12. /\ \A c \in Callers : Fenced(job[c], generation, interruptions)
       /\ \A s \in Streams : Fenced(output[s], generation, interruptions)
  BY <1>5, <1>6, <1>7 DEF Fenced
<1>13. \A s \in Streams : LateIs(output[s], interruptions) BY <1>6, <1>7 DEF LateIs
<1> QED BY <1>4, <1>8, <1>9, <1>10, <1>11, <1>12, <1>13 DEF BridgeInv

-----------------------------------------------------------------------------
(* What the bridge does to the coordinator *)

LEMMA BeginMoves == ASSUME BridgeInv, NEW c \in Callers, Begin(c) PROVE VoiceMove
<1>1. \/ Load(c, "speech", NoTurn) \/ Load(c, "final", NoTurn) \/ CancelSession(c)
      \/ \E op \in {"tts_started", "tts_completed", "tts_cancelled"}, t \in 1..turns : Load(c, op, t)
  BY DEF Begin
<1>2. ASSUME NEW op \in {"tts_started", "tts_completed", "tts_cancelled"}, NEW t \in 1..turns,
             Load(c, op, t)
      PROVE  Loads(c)
  BY <1>2 DEF Loads, Operations
<1>3. (Load(c, "speech", NoTurn) \/ Load(c, "final", NoTurn)) => Loads(c)
  BY DEF Loads, Operations, NoTurn
<1> QED BY <1>1, <1>2, <1>3 DEF VoiceMove

LEMMA BridgeMoves == ASSUME VoiceInv, BridgeInv, NEW c \in Callers, BridgeStep(c) PROVE VoiceMove
<1>0. job[c] \in JobRecord /\ JobIsSound(job[c], output, turns) BY DEF BridgeInv, BridgeTypes
<1>1. CASE Synthesized(c)
  <2>1. Load(c, "tts_started", job[c].turn) /\ job[c].turn \in 1..turns
    BY <1>0, <1>1 DEF Synthesized, JobIsSound
  <2>2. job[c].turn \in Nat BY <1>0 DEF JobRecord
  <2>3. Loads(c) BY <2>1, <2>2 DEF Loads, Operations
  <2> QED BY <2>3 DEF VoiceMove
<1>2. CASE SynthesisFails(c) BY <1>2 DEF SynthesisFails, VoiceMove
<1>3. CASE Started(c) \/ Completed(c) \/ CancelReturns(c) \/ SpeechReturns(c) \/ CloseRefused(c)
  <2>1. Returns(c)
    BY <1>3 DEF Started, Completed, CancelReturns, SpeechReturns, CloseRefused, Returns
  <2> QED BY <2>1 DEF VoiceMove
<1>4. CASE Selected(c)
  <2>1. UNCHANGED voiceVars \/ (version' = version + 1 /\ UNCHANGED <<status, turns, barges, memory, call>>)
    BY <1>4 DEF Selected, voiceVars, stored, OpenFails
  <2>2. /\ version \in Nat /\ turns \in Nat /\ status \in {"running", "completed", "cancelled"}
    BY DEF VoiceInv, TypeOK
  <2> QED BY <2>1, <2>2 DEF VoiceMove, OthersSave
<1>5. CASE CancelReports(c)
  <2>1. Load(c, "tts_cancelled", output[job[c].stream].turn) /\ job[c].step \in StreamSteps
    BY <1>5 DEF CancelReports, ReportCancelled, StreamSteps, EndSteps
  <2>2. job[c].stream \in Streams BY <1>0, <2>1 DEF JobIsSound
  <2>3. output[job[c].stream].turn \in Nat BY <2>2 DEF BridgeInv, BridgeTypes, OutputRecord
  <2>4. Loads(c) BY <2>1, <2>3 DEF Loads, Operations
  <2> QED BY <2>4 DEF VoiceMove
<1>6. CASE Interrupt(c)
  <2>1. UNCHANGED voiceVars BY <1>6 DEF Interrupt, CancelActive, MarkCancelled
  <2> QED BY <2>1 DEF VoiceMove
<1>7. CASE CloseReturns(c) \/ Reclosed(c)
  <2>1. UNCHANGED <<stored, memory>> /\ Drop({c} \cup Reporters(job[c].stream))
    BY <1>7 DEF CloseReturns, Reclosed
  <2>2. {c} \cup Reporters(job[c].stream) \in SUBSET Callers BY DEF Reporters
  <2>3. TasksEnd BY <2>1, <2>2 DEF TasksEnd, Drop
  <2> QED BY <2>3 DEF VoiceMove
<1> QED BY <1>1, <1>2, <1>3, <1>4, <1>5, <1>6, <1>7 DEF BridgeStep

LEMMA OutputMoves ==
  ASSUME VoiceInv, BridgeInv, [OutputNext]_allVars
  PROVE  VoiceMove
<1>1. ASSUME NEW c \in Callers, VoiceAlone(c) PROVE VoiceMove
  <2>1. CASE Begin(c) BY <2>1, BeginMoves
  <2>2. CASE Step(c) BY <2>2 DEF VoiceMove
  <2>3. CASE Return(c)
    <3>1. Returns(c) BY <2>3 DEF Return, Returns, CallReturns
    <3> QED BY <3>1 DEF VoiceMove
  <2> QED BY <1>1, <2>1, <2>2, <2>3 DEF VoiceAlone
<1>2. ASSUME NEW c \in Callers, BridgeStep(c) PROVE VoiceMove BY <1>2, BridgeMoves
<1>3. ASSUME NEW c \in Callers, BeginSpeech(c) PROVE VoiceMove
  <2>1. Loads(c) BY <1>3 DEF BeginSpeech, Loads, Operations, NoTurn
  <2> QED BY <2>1 DEF VoiceMove
<1>4. ASSUME NEW c \in Callers, ClientMessage(c) PROVE VoiceMove
  <2>1. CASE UNCHANGED voiceVars BY <2>1 DEF VoiceMove
  <2>2. ASSUME NEW s \in Streams, Drop(Reporters(s)), UNCHANGED <<stored, memory>>
        PROVE  VoiceMove
    <3>1. Reporters(s) \in SUBSET Callers BY DEF Reporters
    <3>2. TasksEnd BY <2>2, <3>1 DEF TasksEnd, Drop
    <3> QED BY <3>2 DEF VoiceMove
  <2> QED BY <1>4, <2>1, <2>2 DEF ClientMessage, BeginOpen, CloseStream, MarkCancelled
<1>5. ASSUME NEW s \in Streams, PumpAudio(s) PROVE VoiceMove
  <2>1. UNCHANGED voiceVars \/ \E c \in Callers : Load(c, "tts_completed", output[s].turn)
    BY <1>5 DEF PumpAudio, StartPump, NotFound, Chunk, SendChunk, ProviderEnds, ProviderFails,
                MarkCancelled
  <2>2. output[s].turn \in Nat BY DEF BridgeInv, BridgeTypes, OutputRecord
  <2>3. ASSUME NEW c \in Callers, Load(c, "tts_completed", output[s].turn) PROVE Loads(c)
    BY <2>2, <2>3 DEF Loads, Operations
  <2> QED BY <2>1, <2>3 DEF VoiceMove
<1>6. CASE OtherSave
  <2>1. OthersSave BY <1>6 DEF OtherSave, OthersSave, RecordOnly, TextAnswer, VoiceInv, TypeOK
  <2> QED BY <2>1 DEF VoiceMove
<1>7. CASE UNCHANGED allVars BY <1>7 DEF allVars, VoiceMove
<1> QED BY <1>1, <1>2, <1>3, <1>4, <1>5, <1>6, <1>7 DEF OutputNext
-----------------------------------------------------------------------------
(* What a step leaves of the bridge *)

\* An opened stream remains one, with the clocks it was opened at.
Goes(a, b) == b.pump # "none" /\ a.pump # "none" /\ b.gen = a.gen /\ b.since = a.since
StreamsGo == \A s \in Streams :
  output'[s] = output[s] \/ (Goes(output[s], output'[s]) /\ LateIs(output'[s], interruptions'))

\* A job goes on: no open begins, and what it is about was opened.
JobsGo == \A c \in Callers :
  job'[c] = job[c] \/
    /\ job'[c].step \in OpenSteps => job[c].step \in OpenSteps
    /\ JobIsSound(job'[c], output', turns')
    /\ Fenced(job'[c], generation', interruptions')

\* The open that is under way, if any, goes on, or is over.
OpensGo == opening' = opening \/ (~opening' /\ \A c \in Callers : job'[c].step \notin OpenSteps)

LEMMA LateStays ==
  ASSUME Later, NEW o, LateIs(o, interruptions), o.since \in Nat,
         NEW p, p.late = o.late, p.since = o.since, p.pump = "sending" => o.pump = "sending"
  PROVE  LateIs(p, interruptions')
<1>1. interruptions \in Nat /\ interruptions' \in Nat /\ interruptions <= interruptions'
  BY DEF Later
<1>2. o.since < interruptions => p.since < interruptions' BY <1>1
<1> QED BY <1>2 DEF LateIs

LEMMA BridgeKept ==
  ASSUME BridgeInv, Later, BridgeTypes', StreamsGo, JobsGo, OpensGo,
         opening' => opening, current' \in {current, NoStream}, EndingIsReported', PumpsRegistered'
  PROVE  BridgeInv'
<1>1. \A s \in Streams : Fenced(output[s], generation, interruptions)'
  <2> SUFFICES ASSUME NEW s \in Streams
               PROVE  Fenced(output'[s], generation', interruptions')
    OBVIOUS
  <2>1. Fenced(output[s], generation', interruptions') BY FencedStays DEF BridgeInv
  <2>2. CASE output'[s] = output[s] BY <2>1, <2>2
  <2>3. CASE Goes(output[s], output'[s]) BY <2>1, <2>3 DEF Goes, Fenced
  <2> QED BY <2>2, <2>3 DEF StreamsGo
<1>2. \A c \in Callers : Fenced(job[c], generation, interruptions)'
  <2> SUFFICES ASSUME NEW c \in Callers
               PROVE  Fenced(job'[c], generation', interruptions')
    OBVIOUS
  <2>1. Fenced(job[c], generation', interruptions') BY FencedStays DEF BridgeInv
  <2> QED BY <2>1 DEF JobsGo
<1>3. \A c \in Callers : JobIsSound(job[c], output, turns)'
  <2> SUFFICES ASSUME NEW c \in Callers PROVE JobIsSound(job'[c], output', turns')
    OBVIOUS
  <2>1. CASE job'[c] = job[c]
    <3>1. JobIsSound(job[c], output, turns) BY DEF BridgeInv
    <3>2. job[c].step = "synthesizing" => job[c].turn \in 1..turns'
      BY <3>1 DEF JobIsSound, Later
    <3>3. \A s \in Streams : output[s].pump # "none" => output'[s].pump # "none"
      BY DEF StreamsGo, Goes
    <3> QED BY <2>1, <3>1, <3>2, <3>3 DEF JobIsSound
  <2> QED BY <2>1 DEF JobsGo
<1>5. \A s \in Streams : LateIs(output[s], interruptions)'
  <2> SUFFICES ASSUME NEW s \in Streams, output'[s] = output[s]
               PROVE  LateIs(output'[s], interruptions')
    BY DEF StreamsGo
  <2>1. LateIs(output[s], interruptions) /\ output[s].since \in Nat BY DEF BridgeInv, Fenced
  <2> QED BY <2>1, LateStays
<1>4. OneOpens'
  <2>1. \A c \in Callers : job'[c].step \in OpenSteps => job[c].step \in OpenSteps
    BY DEF JobsGo
  <2>2. OneOpens BY DEF BridgeInv
  <2>3. \A c \in Callers : job'[c].step \in OpenSteps => opening'
    BY <2>1, <2>2 DEF OneOpens, OpensGo
  <2>4. \A c, d \in Callers : job'[c].step \in OpenSteps /\ job'[d].step \in OpenSteps => c = d
    BY <2>1, <2>2 DEF OneOpens
  <2>5. ASSUME opening' PROVE current' = NoStream /\ \E s \in Streams : output'[s] = NoOutput
    <3>1. current = NoStream /\ \E s \in Streams : output[s] = NoOutput
      BY <2>2, <2>5 DEF OneOpens
    <3>2. PICK s \in Streams : output[s] = NoOutput BY <3>1
    <3>3. NoOutput.pump = "none" BY DEF NoOutput
    <3>4. output'[s] = NoOutput BY <3>2, <3>3 DEF StreamsGo, Goes
    <3> QED BY <3>1, <3>4
  <2> QED BY <2>3, <2>4, <2>5 DEF OneOpens
<1> QED BY <1>1, <1>2, <1>3, <1>4, <1>5 DEF BridgeInv

\* One caller's job changes.
LEMMA OneJob ==
  ASSUME BridgeInv, NEW c \in Callers, NEW j \in JobRecord, job' = [job EXCEPT ![c] = j]
  PROVE  job' \in [Callers -> JobRecord]
         /\ \A d \in Callers : job'[d] = IF d = c THEN j ELSE job[d]
  BY DEF BridgeInv, BridgeTypes

\* One stream changes.
LEMMA OneStream ==
  ASSUME BridgeInv, NEW s \in Streams, NEW o \in OutputRecord, output' = [output EXCEPT ![s] = o]
  PROVE  output' \in [Streams -> OutputRecord]
         /\ \A r \in Streams : output'[r] = IF r = s THEN o ELSE output[r]
  BY DEF BridgeInv, BridgeTypes

LEMMA BridgeTypesOf ==
  ASSUME BridgeInv
  PROVE  /\ current \in Streams \cup {NoStream} /\ NoStream \notin Streams
         /\ \A c \in Callers : job[c] \in JobRecord
         /\ \A s \in Streams : output[s] \in OutputRecord
         /\ job \in [Callers -> JobRecord] /\ output \in [Streams -> OutputRecord]
  BY DEF BridgeInv, BridgeTypes, NoStream, Streams

LEMMA NoJobFacts ==
  /\ NoJob \in JobRecord /\ NoJob.step = "none"
  /\ \A out, last : JobIsSound(NoJob, out, last)
  BY DEF NoJob, StreamJob, Job, JobRecord, JobSteps, NoTurn, JobIsSound, StreamSteps, EndSteps

LEMMA ZeroSums ==
  ASSUME NEW i \in Nat, NEW g \in Nat, i <= g
  PROVE  0 \in Nat /\ 0 <= i /\ i + 0 <= g + 0
  OBVIOUS

\* Nobody interrupts without a generation: what was asked for at the beginning is fenced.
LEMMA FencedAtZero ==
  ASSUME VoiceInv', NEW x, x.gen = 0, x.since = 0
  PROVE  Fenced(x, generation', interruptions')
<1>1. generation' \in Nat /\ interruptions' \in Nat /\ interruptions' <= generation'
  BY DEF VoiceInv, TypeOK, Counted
<1>2. 0 \in Nat /\ 0 <= interruptions' /\ interruptions' + 0 <= generation' + 0
  BY <1>1, ZeroSums
<1> QED BY <1>2 DEF Fenced

-----------------------------------------------------------------------------
(* Opening a stream *)

LEMMA BeginOpenKeeps ==
  ASSUME VoiceInv, BridgeInv, Later, NEW c \in Callers, NEW t \in 1..turns, BeginOpen(c, t)
  PROVE  BridgeInv'
<1> DEFINE j == Job("synthesizing", NoStream, t, generation, interruptions)
<1>0. generation \in Nat /\ interruptions \in Nat /\ turns \in Nat BY DEF VoiceInv, TypeOK
<1>1. /\ j.step = "synthesizing" /\ j.turn = t /\ j.gen = generation /\ j.since = interruptions
      /\ j \in JobRecord
  BY <1>0 DEF Job, JobRecord, JobSteps
<1>2. /\ job' = [job EXCEPT ![c] = j] /\ opening' = TRUE /\ ~opening /\ current = NoStream
      /\ \E s \in Streams : output[s] = NoOutput
      /\ turns' = turns /\ generation' = generation /\ interruptions' = interruptions
      /\ current' = current /\ output' = output /\ refused' = refused /\ job[c] = NoJob
  BY DEF BeginOpen, MayOpen, Free, voiceVars, stored, memory
<1> HIDE DEF j
<1>3. job' \in [Callers -> JobRecord] /\ \A d \in Callers : job'[d] = IF d = c THEN j ELSE job[d]
  BY <1>1, <1>2, OneJob
<1>4. BridgeTypes' BY <1>2, <1>3, BridgeTypesOf DEF BridgeTypes
<1>5. OneOpens' BY <1>2, <1>3 DEF BridgeInv, OneOpens
<1>6. \A d \in Callers : JobIsSound(job'[d], output', turns')
  <2>1. JobIsSound(j, output, turns) BY <1>1 DEF JobIsSound, StreamSteps, EndSteps
  <2> QED BY <1>2, <1>3, <2>1 DEF BridgeInv
<1>7. EndingIsReported'
  <2>1. \A s \in Streams : ~Reports(job[c], s) BY <1>2, NoJobFacts DEF Reports, EndSteps
  <2> QED BY <1>2, <1>3, <2>1 DEF BridgeInv, EndingIsReported
<1>8. PumpsRegistered' BY <1>2 DEF PumpsRegistered
<1>9. \A d \in Callers : Fenced(job'[d], generation', interruptions')
  <2>1. Fenced(j, generation, interruptions) BY <1>0, <1>1 DEF Fenced
  <2> QED BY <1>2, <1>3, <2>1 DEF BridgeInv
<1>10. \A s \in Streams : Fenced(output'[s], generation', interruptions')
                           /\ LateIs(output'[s], interruptions')
  BY <1>2 DEF BridgeInv
<1> QED BY <1>4, <1>5, <1>6, <1>7, <1>8, <1>9, <1>10 DEF BridgeInv

\* A step that changes one job, which reports no end, and no stream.
LEMMA JobStep ==
  ASSUME BridgeInv, Later, NEW c \in Callers, NEW j \in JobRecord, job' = [job EXCEPT ![c] = j],
         job[c].step \notin EndSteps, output' = output, current' = current,
         refused' = refused, OpensGo, opening' => opening,
         j.step \in OpenSteps => job[c].step \in OpenSteps,
         JobIsSound(j, output, turns'), Fenced(j, generation', interruptions')
  PROVE  BridgeInv'
<1>1. job' \in [Callers -> JobRecord] /\ \A d \in Callers : job'[d] = IF d = c THEN j ELSE job[d]
  BY OneJob
<1>2. BridgeTypes' BY <1>1, BridgeTypesOf DEF BridgeTypes
<1>3. StreamsGo BY DEF StreamsGo
<1>4. JobsGo BY <1>1 DEF JobsGo
<1>5. EndingIsReported'
  <2>1. ASSUME NEW s \in Streams, output[s].pump = "ending"
        PROVE  \E d \in Callers : Reports(job'[d], s)
    <3>1. PICK d \in Callers : Reports(job[d], s) BY <2>1 DEF BridgeInv, EndingIsReported
    <3>2. d # c BY <3>1 DEF Reports
    <3> QED BY <1>1, <3>1, <3>2
  <2> QED BY <2>1 DEF EndingIsReported
<1>6. PumpsRegistered' BY DEF BridgeInv, PumpsRegistered
<1> QED BY <1>2, <1>3, <1>4, <1>5, <1>6, BridgeKept

\* The open is over without a stream.
LEMMA OpenFailsKeeps ==
  ASSUME BridgeInv, VoiceInv', Later, NEW c \in Callers, OpenFails(c), job[c].step \in OpenSteps
  PROVE  BridgeInv'
<1>1. /\ job' = [job EXCEPT ![c] = NoJob] /\ opening' = FALSE /\ output' = output
      /\ current' = current /\ refused' = refused
  BY DEF OpenFails, Finish
<1>2. \A d \in Callers : job'[d] = IF d = c THEN NoJob ELSE job[d] BY <1>1, OneJob, NoJobFacts
<1>3. OpensGo
  <2>1. \A d \in Callers : d # c => job[d].step \notin OpenSteps BY DEF BridgeInv, OneOpens
  <2> QED BY <1>1, <1>2, <2>1, NoJobFacts DEF OpensGo, OpenSteps
<1>4. Fenced(NoJob, generation', interruptions')
  BY FencedAtZero DEF NoJob, StreamJob, Job
<1>5. job[c].step \notin EndSteps BY DEF OpenSteps, EndSteps
<1>6. NoJob.step \notin OpenSteps BY NoJobFacts DEF OpenSteps
<1> QED BY <1>1, <1>3, <1>4, <1>5, <1>6, NoJobFacts, JobStep

\* A job whose step alone changes.
LEMMA GoesToKeeps ==
  ASSUME BridgeInv, Later, NEW c \in Callers, NEW step \in JobSteps, GoesTo(c, step),
         UNCHANGED <<opening, current, output, refused>>,
         job[c].step \notin EndSteps, step \notin StreamSteps, step # "synthesizing",
         step \in OpenSteps => job[c].step \in OpenSteps
  PROVE  BridgeInv'
<1> DEFINE j == [job[c] EXCEPT !.step = step]
<1>0. job[c] \in JobRecord /\ job \in [Callers -> JobRecord] BY BridgeTypesOf
<1>1. /\ j \in JobRecord /\ j.step = step /\ j.gen = job[c].gen /\ j.since = job[c].since
  BY <1>0 DEF JobRecord
<1>2. job' = [job EXCEPT ![c] = j] BY <1>0 DEF GoesTo, JobRecord
<1> HIDE DEF j
<1>3. JobIsSound(j, output, turns') BY <1>1 DEF JobIsSound
<1>4. Fenced(j, generation', interruptions')
  <2>1. Fenced(job[c], generation', interruptions') BY FencedStays DEF BridgeInv
  <2> QED BY <1>1, <2>1 DEF Fenced
<1>5. OpensGo BY DEF OpensGo
<1> QED BY <1>1, <1>2, <1>3, <1>4, <1>5, JobStep

LEMMA SelectedKeeps ==
  ASSUME BridgeInv, VoiceInv', Later, NEW c \in Callers, Selected(c)
  PROVE  BridgeInv'
<1>0. job[c].step = "selecting" /\ job[c] \in JobRecord BY BridgeTypesOf DEF Selected
<1>1. CASE OpenFails(c) BY <1>0, <1>1, OpenFailsKeeps DEF OpenSteps
<1>2. CASE /\ output' = [output EXCEPT ![NewStream] = StreamOf(job[c])]
           /\ current' = NewStream /\ opening' = FALSE /\ Finish(c) /\ UNCHANGED refused
           /\ UNCHANGED <<memory, turns>>
  <2> DEFINE s == NewStream
             o == StreamOf(job[c])
  <2>1. \E r \in Streams : output[r] = NoOutput
    BY <1>0 DEF BridgeInv, OneOpens, OpenSteps
  <2>2. s \in Streams /\ output[s] = NoOutput BY <2>1 DEF NewStream
  <2>0. 0 \in 0..MaxChunks BY OutputAssumption
  <2>3. /\ o \in OutputRecord /\ o.pump = "opened" /\ o.gen = job[c].gen /\ o.since = job[c].since
        /\ o.late = 0
    BY <1>0, <2>0 DEF StreamOf, NoOutput, OutputRecord, JobRecord, Pumps
  <2>4. output' = [output EXCEPT ![s] = o] /\ current' = s /\ job' = [job EXCEPT ![c] = NoJob]
    BY <1>2 DEF Finish
  <2> HIDE DEF s, o
  <2>5. output' \in [Streams -> OutputRecord]
        /\ \A r \in Streams : output'[r] = IF r = s THEN o ELSE output[r]
    BY <2>2, <2>3, <2>4, OneStream
  <2>6. job' \in [Callers -> JobRecord]
        /\ \A d \in Callers : job'[d] = IF d = c THEN NoJob ELSE job[d]
    BY <2>4, OneJob, NoJobFacts
  <2>7. BridgeTypes' BY <2>2, <2>4, <2>5, <2>6 DEF BridgeTypes
  <2>8. OneOpens'
    <3>1. \A d \in Callers : d # c => job[d].step \notin OpenSteps
      BY <1>0 DEF BridgeInv, OneOpens, OpenSteps
    <3>2. \A d \in Callers : job'[d].step \notin OpenSteps
      BY <2>6, <3>1, NoJobFacts DEF OpenSteps
    <3> QED BY <1>2, <3>2 DEF OneOpens
  <2>9. ASSUME NEW d \in Callers
        PROVE  JobIsSound(job'[d], output', turns') /\ Fenced(job'[d], generation', interruptions')
    <3>1. CASE d = c
      <4>1. job'[d] = NoJob BY <2>6, <3>1
      <4>2. Fenced(NoJob, generation', interruptions') BY FencedAtZero DEF NoJob, StreamJob, Job
      <4> QED BY <4>1, <4>2, NoJobFacts
    <3>2. CASE d # c
      <4>1. job'[d] = job[d] /\ JobIsSound(job[d], output, turns)
            /\ Fenced(job[d], generation, interruptions)
        BY <2>6, <3>2 DEF BridgeInv
      <4>2. \A r \in Streams : output[r].pump # "none" => output'[r].pump # "none"
        BY <2>3, <2>5
      <4>3. turns' = turns BY <1>2
      <4> QED BY <4>1, <4>2, <4>3, FencedStays DEF JobIsSound
    <3> QED BY <3>1, <3>2
  <2>10. EndingIsReported'
    <3>1. ASSUME NEW r \in Streams, output'[r].pump = "ending"
          PROVE  \E d \in Callers : Reports(job'[d], r)
      <4>1. output[r].pump = "ending" BY <2>3, <2>5, <3>1
      <4>2. PICK d \in Callers : Reports(job[d], r) BY <4>1 DEF BridgeInv, EndingIsReported
      <4>3. d # c BY <1>0, <4>2 DEF Reports, EndSteps
      <4> QED BY <2>6, <4>2, <4>3
    <3> QED BY <3>1 DEF EndingIsReported
  <2>11. PumpsRegistered' BY <2>2, <2>3, <2>4, <2>5 DEF PumpsRegistered, Alive
  <2>12. \A r \in Streams : Fenced(output'[r], generation', interruptions')
    <3>1. Fenced(job[c], generation', interruptions') BY FencedStays DEF BridgeInv
    <3>2. Fenced(o, generation', interruptions') BY <2>3, <3>1 DEF Fenced
    <3>3. \A r \in Streams : Fenced(output[r], generation', interruptions')
      BY FencedStays DEF BridgeInv
    <3> QED BY <2>5, <3>2, <3>3
  <2>13. \A r \in Streams : LateIs(output'[r], interruptions')
    <3>1. LateIs(o, interruptions') BY <2>3 DEF LateIs
    <3>2. \A r \in Streams : LateIs(output[r], interruptions')
      <4> SUFFICES ASSUME NEW r \in Streams PROVE LateIs(output[r], interruptions') OBVIOUS
      <4>1. LateIs(output[r], interruptions) /\ output[r].since \in Nat BY DEF BridgeInv, Fenced
      <4> QED BY <4>1, LateStays
    <3> QED BY <2>5, <3>1, <3>2
  <2> QED BY <2>7, <2>8, <2>9, <2>10, <2>11, <2>12, <2>13 DEF BridgeInv
<1> QED BY <1>1, <1>2 DEF Selected

-----------------------------------------------------------------------------
(* Chunks, ends and cancellations *)

\* Nothing of the bridge changes.
LEMMA BridgeRests == ASSUME BridgeInv, Later, UNCHANGED outputVars PROVE BridgeInv'
<1>1. /\ opening' = opening /\ current' = current /\ output' = output /\ job' = job
      /\ refused' = refused
  BY DEF outputVars
<1>2. BridgeTypes' /\ EndingIsReported' /\ PumpsRegistered'
  BY <1>1 DEF BridgeInv, BridgeTypes, EndingIsReported, PumpsRegistered
<1>3. StreamsGo /\ JobsGo /\ OpensGo BY <1>1 DEF StreamsGo, JobsGo, OpensGo
<1> QED BY <1>1, <1>2, <1>3, BridgeKept

\* A step that changes one stream, and jobs that do not report the end of another.
LEMMA StreamStep ==
  ASSUME BridgeInv, Later, NEW s \in Streams, NEW o \in OutputRecord,
         output' = [output EXCEPT ![s] = o], Goes(output[s], o), LateIs(o, interruptions'),
         job' \in [Callers -> JobRecord], JobsGo, opening' = opening, refused \subseteq refused',
         current' = current \/ current' = NoStream,
         current' = s => s \in refused' \/ o.pump \in Alive,
         \A d \in Callers : job[d].step \in EndSteps /\ job[d].stream # s => job'[d] = job[d],
         o.pump = "ending" => \E d \in Callers : Reports(job'[d], s)
  PROVE  BridgeInv'
<1>1. output' \in [Streams -> OutputRecord]
      /\ \A r \in Streams : output'[r] = IF r = s THEN o ELSE output[r]
  BY OneStream
<1>2. BridgeTypes' BY <1>1, BridgeTypesOf DEF BridgeTypes
<1>3. StreamsGo BY <1>1 DEF StreamsGo
<1>4. EndingIsReported'
  <2>1. ASSUME NEW r \in Streams, output'[r].pump = "ending"
        PROVE  \E d \in Callers : Reports(job'[d], r)
    <3>1. CASE r = s BY <1>1, <2>1, <3>1
    <3>2. CASE r # s
      <4>1. output[r].pump = "ending" BY <1>1, <2>1, <3>2
      <4>2. PICK d \in Callers : Reports(job[d], r) BY <4>1 DEF BridgeInv, EndingIsReported
      <4>3. job'[d] = job[d] BY <3>2, <4>2 DEF Reports
      <4> QED BY <4>2, <4>3
    <3> QED BY <3>1, <3>2
  <2> QED BY <2>1 DEF EndingIsReported
<1>5. PumpsRegistered'
  <2> SUFFICES ASSUME current' # NoStream
               PROVE  /\ output'[current'].pump # "none"
                      /\ current' \notin refused' => output'[current'].pump \in Alive
    BY DEF PumpsRegistered
  <2>1. current' = current /\ current \in Streams BY BridgeTypesOf
  <2>2. CASE current = s BY <1>1, <2>1, <2>2 DEF Goes
  <2>3. CASE current # s BY <1>1, <2>1, <2>3 DEF BridgeInv, PumpsRegistered
  <2> QED BY <2>2, <2>3
<1>6. OpensGo BY DEF OpensGo
<1> QED BY <1>2, <1>3, <1>4, <1>5, <1>6, BridgeKept

LEMMA EndedFacts ==
  ASSUME NEW o \in OutputRecord, o.pump # "none", NEW pump \in Pumps \ {"none"}
  PROVE  /\ Ended(o, pump) \in OutputRecord /\ Ended(o, pump).pump = pump
         /\ Goes(o, Ended(o, pump)) /\ Ended(o, pump).late = o.late
         /\ Marked(o, pump) \in OutputRecord /\ Marked(o, pump).pump = pump
         /\ Goes(o, Marked(o, pump)) /\ Marked(o, pump).late = o.late
  BY DEF Ended, Marked, OutputRecord, Goes

\* What is late of a stream that goes on without a chunk of its own.
LEMMA StreamLate ==
  ASSUME BridgeInv, Later, NEW s \in Streams, NEW o, Goes(output[s], o), o.late = output[s].late,
         o.pump = "sending" => output[s].pump = "sending"
  PROVE  LateIs(o, interruptions')
<1>1. LateIs(output[s], interruptions) /\ output[s].since \in Nat BY DEF BridgeInv, Fenced
<1>2. o.since = output[s].since BY DEF Goes
<1> QED BY <1>1, <1>2, LateStays

\* A release: the stream's entry is gone.
LEMMA ReleasedKeeps ==
  ASSUME BridgeInv, Later, NEW s \in Streams, output[s].pump # "none",
         NEW pump \in Pumps \ {"none"}, Released(s, pump),
         pump = "sending" => output[s].pump = "sending",
         job' \in [Callers -> JobRecord], JobsGo, opening' = opening, refused' = refused,
         \A d \in Callers : job[d].step \in EndSteps /\ job[d].stream # s => job'[d] = job[d],
         pump = "ending" => \E d \in Callers : Reports(job'[d], s)
  PROVE  BridgeInv'
<1> DEFINE o == Ended(output[s], pump)
<1>1. o \in OutputRecord /\ o.pump = pump /\ Goes(output[s], o) /\ o.late = output[s].late
  BY EndedFacts, BridgeTypesOf
<1>2. output' = [output EXCEPT ![s] = o] BY DEF Released
<1>3. (current' = current \/ current' = NoStream) /\ current' # s
  BY BridgeTypesOf DEF Released
<1> HIDE DEF o
<1>4. LateIs(o, interruptions') BY <1>1, StreamLate
<1> QED BY <1>1, <1>2, <1>3, <1>4, StreamStep

\* The pump releases its stream, and no task had to report it.
LEMMA PumpReleases ==
  ASSUME BridgeInv, Later, NEW s \in Streams, output[s].pump # "none", Released(s, "done"),
         UNCHANGED <<opening, job, refused>>
  PROVE  BridgeInv'
<1>1. job' \in [Callers -> JobRecord] /\ JobsGo BY BridgeTypesOf DEF JobsGo
<1>2. "done" \in Pumps \ {"none"} BY DEF Pumps
<1> QED BY <1>1, <1>2, ReleasedKeeps

\* What a finished job, or one that is about a stream, is.
LEMMA StreamJobFacts ==
  ASSUME VoiceInv', NEW step \in JobSteps \ {"synthesizing"}, NEW s \in Streams \cup {NoStream},
         step \in StreamSteps => s \in Streams /\ output'[s].pump # "none"
  PROVE  /\ StreamJob(step, s) \in JobRecord /\ StreamJob(step, s).step = step
         /\ StreamJob(step, s).stream = s
         /\ JobIsSound(StreamJob(step, s), output', turns')
         /\ Fenced(StreamJob(step, s), generation', interruptions')
<1> DEFINE j == StreamJob(step, s)
<1>1. /\ j.step = step /\ j.stream = s /\ j.gen = 0 /\ j.since = 0 /\ j \in JobRecord
  BY DEF StreamJob, Job, JobRecord, NoTurn
<1> HIDE DEF j
<1>2. JobIsSound(j, output', turns') BY <1>1 DEF JobIsSound
<1>3. Fenced(j, generation', interruptions') BY <1>1, FencedAtZero
<1> QED BY <1>1, <1>2, <1>3 DEF j

LEMMA FinishedJob ==
  ASSUME BridgeInv, VoiceInv', NEW c \in Callers, Finish(c)
  PROVE  /\ job' \in [Callers -> JobRecord] /\ JobsGo
         /\ \A d \in Callers : job'[d] = IF d = c THEN NoJob ELSE job[d]
<1>1. job' \in [Callers -> JobRecord] /\ \A d \in Callers : job'[d] = IF d = c THEN NoJob ELSE job[d]
  BY OneJob, NoJobFacts DEF Finish
<1>2. Fenced(NoJob, generation', interruptions') BY FencedAtZero DEF NoJob, StreamJob, Job
<1>3. JobsGo BY <1>1, <1>2, NoJobFacts DEF JobsGo, OpenSteps
<1> QED BY <1>1, <1>3

\* A caller that had no end to report is done.
LEMMA FinishKeeps ==
  ASSUME BridgeInv, VoiceInv', Later, NEW c \in Callers, Finish(c),
         UNCHANGED <<opening, current, output, refused>>, job[c].step \notin EndSteps
  PROVE  BridgeInv'
<1>1. Fenced(NoJob, generation', interruptions') BY FencedAtZero DEF NoJob, StreamJob, Job
<1>2. NoJob.step \notin OpenSteps BY NoJobFacts DEF OpenSteps
<1>3. OpensGo BY DEF OpensGo
<1> QED BY <1>1, <1>2, <1>3, NoJobFacts, JobStep DEF Finish

LEMMA MarkCancelledKeeps ==
  ASSUME BridgeInv, VoiceInv', Later, NEW c \in Callers, NEW s \in Streams,
         output[s].pump # "none", NEW step \in {"failing", "interrupting", "closing"},
         MarkCancelled(c, s, step), job[c].step \notin EndSteps
  PROVE  BridgeInv'
<1> DEFINE pump == IF step = "failing" THEN "ending" ELSE output[s].pump
           o == Marked(output[s], pump)
           j == StreamJob(step, s)
<1>0. output[s] \in OutputRecord BY BridgeTypesOf
<1>1. pump \in Pumps \ {"none"} BY <1>0 DEF OutputRecord, Pumps
<1>2. o \in OutputRecord /\ o.pump = pump /\ Goes(output[s], o) /\ o.late = output[s].late
  <2> HIDE DEF pump
  <2> QED BY <1>0, <1>1, EndedFacts
<1>3. output' = [output EXCEPT ![s] = o] /\ job' = [job EXCEPT ![c] = j]
      /\ opening' = opening /\ current' = current /\ refused' = refused
  BY DEF MarkCancelled
<1> HIDE DEF o
<1>a. LateIs(o, interruptions') BY <1>2, StreamLate
<1>4. \A r \in Streams : output'[r] = IF r = s THEN o ELSE output[r] BY <1>2, <1>3, OneStream
<1>5. output'[s].pump # "none" BY <1>1, <1>2, <1>4
<1>6. /\ j \in JobRecord /\ j.step = step /\ j.stream = s /\ JobIsSound(j, output', turns')
      /\ Fenced(j, generation', interruptions')
  <2>1. step \in JobSteps \ {"synthesizing"} BY DEF JobSteps
  <2> QED BY <1>5, <2>1, StreamJobFacts
<1> HIDE DEF j
<1>7. job' \in [Callers -> JobRecord] /\ \A d \in Callers : job'[d] = IF d = c THEN j ELSE job[d]
  BY <1>3, <1>6, OneJob
<1>8. JobsGo BY <1>6, <1>7 DEF JobsGo, OpenSteps
<1>9. current' = s => s \in refused' \/ o.pump \in Alive
  BY <1>2, <1>3, BridgeTypesOf DEF BridgeInv, PumpsRegistered, Alive
<1>10. o.pump = "ending" => \E d \in Callers : Reports(job'[d], s)
  <2>1. CASE step = "failing" BY <1>6, <1>7, <2>1 DEF Reports, EndSteps
  <2>2. CASE step # "failing" /\ o.pump = "ending"
    <3>1. output[s].pump = "ending" BY <1>2, <2>2
    <3>2. PICK d \in Callers : Reports(job[d], s) BY <3>1 DEF BridgeInv, EndingIsReported
    <3>3. d # c BY <3>2 DEF Reports
    <3> QED BY <1>7, <3>2, <3>3
  <2> QED BY <2>1, <2>2
<1> QED BY <1>2, <1>3, <1>7, <1>8, <1>9, <1>10, <1>a, StreamStep

\* A step of a pump that changes its stream's record alone.
LEMMA PumpStep ==
  ASSUME BridgeInv, Later, NEW s \in Streams, NEW o \in OutputRecord,
         output' = [output EXCEPT ![s] = o], Goes(output[s], o), LateIs(o, interruptions'),
         o.pump \in Alive \ {"ending"}, UNCHANGED <<opening, current, job, refused>>
  PROVE  BridgeInv'
<1>1. job' \in [Callers -> JobRecord] /\ JobsGo BY BridgeTypesOf DEF JobsGo
<1> QED BY <1>1, StreamStep

LEMMA StartPumpKeeps ==
  ASSUME BridgeInv, Later, NEW s \in Streams, StartPump(s)
  PROVE  BridgeInv'
<1> DEFINE o == [output[s] EXCEPT !.pump = "running"]
<1>0. output[s] \in OutputRecord /\ output[s].pump = "opened" BY BridgeTypesOf DEF StartPump
<1>1. o \in OutputRecord /\ o.pump = "running" /\ Goes(output[s], o) /\ o.late = output[s].late
  BY <1>0 DEF OutputRecord, Goes, Pumps
<1>2. output' = [output EXCEPT ![s] = o] BY BridgeTypesOf DEF StartPump, OutputRecord
<1> HIDE DEF o
<1>3. LateIs(o, interruptions') BY <1>1, StreamLate
<1>4. o.pump \in Alive \ {"ending"} BY <1>1 DEF Alive
<1>5. UNCHANGED <<opening, current, job, refused>> BY DEF StartPump
<1> QED BY <1>1, <1>2, <1>3, <1>4, <1>5, PumpStep

\* Generations tell the barge-ins apart.
LEMMA SameClock ==
  ASSUME NEW a \in Nat, NEW b \in Nat, NEW i \in Nat, b <= i, i + a <= a + b
  PROVE  b = i
  OBVIOUS

\* Only a stream that is younger than the last barge-in has a chunk taken for it.
LEMMA CurrentIsYoung ==
  ASSUME VoiceInv, BridgeInv, NEW s \in Streams, IsCurrent(s)
  PROVE  output[s].since = interruptions /\ output[s].late = 0
<1>1. output[s].gen = generation BY DEF IsCurrent
<1>2. Fenced(output[s], generation, interruptions) /\ LateIs(output[s], interruptions)
  BY DEF BridgeInv
<1>3. generation \in Nat /\ interruptions \in Nat BY DEF VoiceInv, TypeOK
<1>4. output[s].since = interruptions BY <1>1, <1>2, <1>3, SameClock DEF Fenced
<1>5. ~(output[s].since < interruptions) BY <1>3, <1>4
<1> QED BY <1>2, <1>4, <1>5 DEF LateIs

LEMMA ChunkKeeps ==
  ASSUME VoiceInv, BridgeInv, Later, NEW s \in Streams, Chunk(s)
  PROVE  BridgeInv'
<1>0. output[s] \in OutputRecord /\ output[s].pump = "running" BY BridgeTypesOf DEF Chunk
<1>1. CASE /\ IsCurrent(s) /\ output[s].sent < MaxChunks
           /\ output' = [output EXCEPT ![s].pump = "sending", ![s].sent = @ + 1]
           /\ current' = current
  <2> DEFINE o == [output[s] EXCEPT !.pump = "sending", !.sent = @ + 1]
  <2>0. output[s].sent + 1 \in 0..MaxChunks BY <1>0, <1>1, OutputAssumption DEF OutputRecord
  <2>1. o \in OutputRecord /\ o.pump = "sending" /\ Goes(output[s], o) /\ o.late = output[s].late
    BY <1>0, <2>0 DEF OutputRecord, Goes, Pumps
  <2>2. output' = [output EXCEPT ![s] = o] BY <1>1, BridgeTypesOf DEF OutputRecord
  <2> HIDE DEF o
  <2>3. LateIs(o, interruptions') BY <1>1, <2>1, CurrentIsYoung DEF LateIs
  <2>4. o.pump \in Alive \ {"ending"} BY <2>1 DEF Alive
  <2>5. UNCHANGED <<opening, current, job, refused>> BY <1>1 DEF Chunk
  <2> QED BY <2>1, <2>2, <2>3, <2>4, <2>5, PumpStep
<1>2. CASE Released(s, "done") BY <1>0, <1>2, PumpReleases DEF Chunk
<1> QED BY <1>1, <1>2 DEF Chunk

\* The one chunk that may be late.
LEMMA HeardFacts ==
  ASSUME NEW o \in OutputRecord, o.pump # "none", interruptions \in Nat, o.since <= interruptions,
         o.late = 0
  PROVE  /\ Heard(o) \in OutputRecord /\ Heard(o).pump = "running" /\ Goes(o, Heard(o))
         /\ LateIs(Heard(o), interruptions)
<1>1. o.since \in Nat /\ o.late \in Nat BY DEF OutputRecord
<1>2. CASE o.since = interruptions
  <2>1. Heard(o) = [o EXCEPT !.pump = "running", !.late = o.late] BY <1>2 DEF Heard
  <2> QED BY <1>1, <2>1 DEF OutputRecord, Goes, Pumps, LateIs
<1>3. CASE o.since # interruptions
  <2>1. Heard(o) = [o EXCEPT !.pump = "running", !.late = o.late + 1] BY <1>3 DEF Heard
  <2>2. o.late + 1 = 1 /\ 1 \in Nat BY <1>1
  <2>3. o.since < interruptions BY <1>1, <1>3
  <2> QED BY <2>1, <2>2, <2>3 DEF OutputRecord, Goes, Pumps, LateIs
<1> QED BY <1>2, <1>3

LEMMA SendChunkKeeps ==
  ASSUME VoiceInv, BridgeInv, Later, NEW s \in Streams, SendChunk(s)
  PROVE  BridgeInv'
<1>0. output[s] \in OutputRecord /\ output[s].pump = "sending" BY BridgeTypesOf DEF SendChunk
<1>1. CASE output' = [output EXCEPT ![s] = Heard(@)] /\ UNCHANGED current
  <2> DEFINE o == Heard(output[s])
  <2>1. Fenced(output[s], generation, interruptions) /\ LateIs(output[s], interruptions)
    BY DEF BridgeInv
  <2>2. output[s].since <= interruptions /\ output[s].late = 0
    BY <1>0, <2>1 DEF Fenced, LateIs
  <2>3. interruptions \in Nat /\ interruptions' = interruptions
    BY DEF VoiceInv, TypeOK, SendChunk, voiceVars, memory
  <2>4. /\ o \in OutputRecord /\ o.pump = "running" /\ Goes(output[s], o)
        /\ LateIs(o, interruptions')
    BY <1>0, <2>2, <2>3, HeardFacts
  <2>5. output' = [output EXCEPT ![s] = o] BY <1>1, BridgeTypesOf
  <2> HIDE DEF o
  <2>6. o.pump \in Alive \ {"ending"} BY <2>4 DEF Alive
  <2>7. UNCHANGED <<opening, current, job, refused>> BY <1>1 DEF SendChunk
  <2> QED BY <2>4, <2>5, <2>6, <2>7, PumpStep
<1>2. CASE Released(s, "done") BY <1>0, <1>2, PumpReleases DEF SendChunk
<1> QED BY <1>1, <1>2 DEF SendChunk

LEMMA ProviderEndsKeeps ==
  ASSUME BridgeInv, VoiceInv', Later, NEW s \in Streams, ProviderEnds(s)
  PROVE  BridgeInv'
<1>0. output[s] \in OutputRecord /\ output[s].pump = "running" BY BridgeTypesOf DEF ProviderEnds
<1>1. CASE Released(s, "done") /\ UNCHANGED <<voiceVars, job>>
  BY <1>0, <1>1, PumpReleases DEF ProviderEnds
<1>2. CASE /\ \E c \in Callers : Free(c) /\ job' = [job EXCEPT ![c] = StreamJob("completing", s)]
           /\ output' = [output EXCEPT ![s].pump = "ending"] /\ UNCHANGED current
  <2>1. PICK c \in Callers : Free(c) /\ job' = [job EXCEPT ![c] = StreamJob("completing", s)]
    BY <1>2
  <2> DEFINE o == [output[s] EXCEPT !.pump = "ending"]
             j == StreamJob("completing", s)
  <2>2. o \in OutputRecord /\ o.pump = "ending" /\ Goes(output[s], o) /\ o.late = output[s].late
    BY <1>0 DEF OutputRecord, Goes, Pumps
  <2>3. output' = [output EXCEPT ![s] = o] BY <1>2, BridgeTypesOf DEF OutputRecord
  <2> HIDE DEF o
  <2>4. output'[s].pump # "none" BY <2>2, <2>3, OneStream
  <2>5. /\ j \in JobRecord /\ j.step = "completing" /\ j.stream = s
        /\ JobIsSound(j, output', turns') /\ Fenced(j, generation', interruptions')
    <3>1. "completing" \in JobSteps \ {"synthesizing"} BY DEF JobSteps
    <3> QED BY <2>4, <3>1, StreamJobFacts
  <2>6. job' = [job EXCEPT ![c] = j] BY <2>1
  <2> HIDE DEF j
  <2>7. job' \in [Callers -> JobRecord] /\ \A d \in Callers : job'[d] = IF d = c THEN j ELSE job[d]
    BY <2>5, <2>6, OneJob
  <2>8. JobsGo BY <2>5, <2>7 DEF JobsGo, OpenSteps
  <2>9. Reports(job'[c], s) BY <2>5, <2>7 DEF Reports, EndSteps
  <2>10. \A d \in Callers : job[d].step \in EndSteps /\ job[d].stream # s => job'[d] = job[d]
    BY <2>1, <2>7, NoJobFacts DEF Free, EndSteps
  <2>11. opening' = opening /\ refused' = refused BY DEF ProviderEnds
  <2>12. LateIs(o, interruptions') BY <2>2, StreamLate
  <2>13. o.pump \in Alive BY <2>2 DEF Alive
  <2> QED BY <1>2, <2>2, <2>3, <2>7, <2>8, <2>9, <2>10, <2>11, <2>12, <2>13, StreamStep
<1> QED BY <1>1, <1>2 DEF ProviderEnds

LEMMA ProviderFailsKeeps ==
  ASSUME BridgeInv, VoiceInv', Later, NEW s \in Streams, ProviderFails(s)
  PROVE  BridgeInv'
<1>0. output[s].pump = "running" BY DEF ProviderFails
<1>1. CASE Released(s, "done") /\ UNCHANGED <<opening, job, refused>>
  BY <1>0, <1>1, PumpReleases
<1>2. ASSUME NEW c \in Callers, Free(c), MarkCancelled(c, s, "failing") PROVE BridgeInv'
  <2>1. job[c].step \notin EndSteps BY <1>2, NoJobFacts DEF Free, EndSteps
  <2> QED BY <1>0, <1>2, <2>1, MarkCancelledKeeps
<1> QED BY <1>1, <1>2 DEF ProviderFails

LEMMA CompletedKeeps ==
  ASSUME BridgeInv, VoiceInv', Later, NEW c \in Callers, Completed(c)
  PROVE  BridgeInv'
<1> DEFINE s == job[c].stream
<1>0. job[c].step = "completing" /\ Finish(c) /\ opening' = opening BY DEF Completed
<1>1. s \in Streams /\ output[s].pump # "none"
  BY <1>0 DEF BridgeInv, JobIsSound, StreamSteps, EndSteps
<1>2. /\ job' \in [Callers -> JobRecord] /\ JobsGo
      /\ \A d \in Callers : job'[d] = IF d = c THEN NoJob ELSE job[d]
  BY <1>0, FinishedJob
<1>3. \A d \in Callers : job[d].step \in EndSteps /\ job[d].stream # s => job'[d] = job[d]
  BY <1>2
<1>4. CASE Released(s, "done") /\ UNCHANGED refused
  <2>1. "done" \in Pumps \ {"none"} BY DEF Pumps
  <2> HIDE DEF s
  <2> QED BY <1>0, <1>1, <1>2, <1>3, <1>4, <2>1, ReleasedKeeps
<1>5. CASE /\ output' = [output EXCEPT ![s].pump = "done"] /\ refused' = refused \cup {s}
           /\ UNCHANGED current
  <2> DEFINE o == [output[s] EXCEPT !.pump = "done"]
  <2> HIDE DEF s
  <2>1. output[s] \in OutputRecord /\ output \in [Streams -> OutputRecord] BY <1>1, BridgeTypesOf
  <2>2. o \in OutputRecord /\ o.pump = "done" /\ Goes(output[s], o) /\ o.late = output[s].late
    BY <1>1, <2>1 DEF OutputRecord, Goes, Pumps
  <2>3. output' = [output EXCEPT ![s] = o] BY <1>1, <1>5, <2>1 DEF OutputRecord
  <2> HIDE DEF o
  <2>4. LateIs(o, interruptions') BY <1>1, <2>2, StreamLate
  <2> QED BY <1>0, <1>1, <1>2, <1>3, <1>5, <2>2, <2>3, <2>4, StreamStep
<1> QED BY <1>4, <1>5 DEF Completed

LEMMA CancelReturnsKeeps ==
  ASSUME BridgeInv, VoiceInv', Later, NEW c \in Callers, CancelReturns(c)
  PROVE  BridgeInv'
<1> DEFINE s == job[c].stream
           pump == IF job[c].step = "failing" THEN "done" ELSE output[s].pump
<1>0. /\ job[c].step \in {"failing", "interrupting"} /\ Finish(c)
      /\ opening' = opening /\ refused' = refused
  BY DEF CancelReturns
<1>1. s \in Streams /\ output[s].pump # "none"
  BY <1>0 DEF BridgeInv, JobIsSound, StreamSteps, EndSteps
<1>2. /\ job' \in [Callers -> JobRecord] /\ JobsGo
      /\ \A d \in Callers : job'[d] = IF d = c THEN NoJob ELSE job[d]
  BY <1>0, FinishedJob
<1>3. \A d \in Callers : job[d].step \in EndSteps /\ job[d].stream # s => job'[d] = job[d]
  BY <1>2
<1>4. pump \in Pumps \ {"none"} /\ (pump = "sending" => output[s].pump = "sending")
  BY <1>1, BridgeTypesOf DEF OutputRecord, Pumps
<1>5. pump = "ending" => \E d \in Callers : Reports(job'[d], s)
  <2> SUFFICES ASSUME pump = "ending" PROVE \E d \in Callers : Reports(job'[d], s) OBVIOUS
  <2>1. job[c].step = "interrupting" /\ output[s].pump = "ending" BY <1>0
  <2>2. PICK d \in Callers : Reports(job[d], s) BY <1>1, <2>1 DEF BridgeInv, EndingIsReported
  <2>3. d # c BY <2>1, <2>2 DEF Reports, EndSteps
  <2>4. job'[d] = job[d] BY <1>2, <2>3
  <2> QED BY <2>2, <2>4
<1>6. CASE Released(s, pump)
  <2> HIDE DEF s, pump
  <2> QED BY <1>0, <1>1, <1>2, <1>3, <1>4, <1>5, <1>6, ReleasedKeeps
<1>7. CASE job[c].step # "failing" /\ UNCHANGED <<output, current>>
  <2>1. job[c].step \notin EndSteps BY <1>0, <1>7 DEF EndSteps
  <2> QED BY <1>0, <1>7, <2>1, FinishKeeps
<1> QED BY <1>6, <1>7 DEF CancelReturns

\* The socket's close is over, and with it the pump: the stream is released, and a
\* task that reported its end is no more.
LEMMA DroppedKeeps ==
  ASSUME BridgeInv, VoiceInv', Later, NEW s \in Streams, output[s].pump # "none",
         Released(s, "done"), NEW tasks \in SUBSET Callers, Drop(tasks),
         \A d \in tasks : job[d].step \in EndSteps => job[d].stream = s,
         UNCHANGED <<opening, refused>>
  PROVE  BridgeInv'
<1>1. /\ job' \in [Callers -> JobRecord]
      /\ \A d \in Callers : job'[d] = IF d \in tasks THEN NoJob ELSE job[d]
  BY BridgeTypesOf, NoJobFacts DEF Drop
<1>2. Fenced(NoJob, generation', interruptions') BY FencedAtZero DEF NoJob, StreamJob, Job
<1>3. JobsGo BY <1>1, <1>2, NoJobFacts DEF JobsGo, OpenSteps
<1>4. "done" \in Pumps \ {"none"} BY DEF Pumps
<1>5. \A d \in Callers : job[d].step \in EndSteps /\ job[d].stream # s => job'[d] = job[d]
  BY <1>1
<1> QED BY <1>1, <1>3, <1>4, <1>5, ReleasedKeeps

LEMMA CloseEndsKeeps ==
  ASSUME BridgeInv, VoiceInv', Later, NEW c \in Callers, CloseReturns(c) \/ Reclosed(c)
  PROVE  BridgeInv'
<1> DEFINE s == job[c].stream
           tasks == {c} \cup Reporters(s)
<1>1. /\ job[c].step \in {"closing", "reclosing"} /\ Released(s, "done") /\ Drop(tasks)
      /\ UNCHANGED <<opening, refused>>
  BY DEF CloseReturns, Reclosed
<1>2. s \in Streams /\ output[s].pump # "none"
  BY <1>1 DEF BridgeInv, JobIsSound, StreamSteps, EndSteps
<1>3. tasks \in SUBSET Callers /\ \A d \in tasks : job[d].step \in EndSteps => job[d].stream = s
  BY DEF Reporters
<1> HIDE DEF s, tasks
<1> QED BY <1>1, <1>2, <1>3, DroppedKeeps

LEMMA CloseRefusedKeeps ==
  ASSUME BridgeInv, VoiceInv', Later, NEW c \in Callers, CloseRefused(c)
  PROVE  BridgeInv'
<1> DEFINE s == job[c].stream
<1>0. job[c].step = "closing" /\ opening' = opening /\ current' = current /\ job[c] \in JobRecord
  BY BridgeTypesOf DEF CloseRefused
<1>1. s \in Streams /\ output[s].pump # "none"
  BY <1>0 DEF BridgeInv, JobIsSound, StreamSteps, EndSteps
<1>2. job[c].step \notin EndSteps BY <1>0 DEF EndSteps
<1>3. CASE GoesTo(c, "reclosing") /\ UNCHANGED <<output, refused>>
  <2> DEFINE j == [job[c] EXCEPT !.step = "reclosing"]
  <2>1. /\ j \in JobRecord /\ j.step = "reclosing" /\ j.gen = job[c].gen
        /\ j.since = job[c].since /\ j.stream = s
    BY <1>0 DEF JobRecord, JobSteps
  <2>2. job' = [job EXCEPT ![c] = j] BY <1>3, BridgeTypesOf DEF GoesTo, JobRecord
  <2> HIDE DEF j
  <2>3. JobIsSound(j, output, turns') BY <1>1, <2>1 DEF JobIsSound
  <2>4. Fenced(j, generation', interruptions')
    <3>1. Fenced(job[c], generation', interruptions') BY FencedStays DEF BridgeInv
    <3> QED BY <2>1, <3>1 DEF Fenced
  <2>5. j.step \notin OpenSteps BY <2>1 DEF OpenSteps
  <2>6. OpensGo BY <1>0 DEF OpensGo
  <2> QED BY <1>0, <1>2, <1>3, <2>1, <2>2, <2>3, <2>4, <2>5, <2>6, JobStep
<1>4. CASE Finish(c) /\ UNCHANGED <<output, refused>> BY <1>0, <1>2, <1>4, FinishKeeps
<1>5. CASE /\ Finish(c) /\ output' = [output EXCEPT ![s].pump = "done"]
           /\ refused' = refused \cup {s} /\ output[s].pump = "opened"
  <2> DEFINE o == [output[s] EXCEPT !.pump = "done"]
  <2>1. /\ job' \in [Callers -> JobRecord] /\ JobsGo
        /\ \A d \in Callers : job'[d] = IF d = c THEN NoJob ELSE job[d]
    BY <1>5, FinishedJob
  <2>2. \A d \in Callers : job[d].step \in EndSteps => job'[d] = job[d] BY <1>2, <2>1
  <2> HIDE DEF s
  <2>3. output[s] \in OutputRecord /\ output \in [Streams -> OutputRecord] BY <1>1, BridgeTypesOf
  <2>4. o \in OutputRecord /\ o.pump = "done" /\ Goes(output[s], o) /\ o.late = output[s].late
    BY <1>1, <2>3 DEF OutputRecord, Goes, Pumps
  <2>5. output' = [output EXCEPT ![s] = o] BY <1>1, <1>5, <2>3 DEF OutputRecord
  <2> HIDE DEF o
  <2>6. LateIs(o, interruptions') BY <1>1, <2>4, StreamLate
  <2> QED BY <1>0, <1>1, <1>5, <2>1, <2>2, <2>4, <2>5, <2>6, StreamStep
<1> QED BY <1>3, <1>4, <1>5 DEF CloseRefused

LEMMA CancelActiveKeeps ==
  ASSUME BridgeInv, VoiceInv', Later, NEW c \in Callers, Interrupt(c)
  PROVE  BridgeInv'
<1>0. job[c].step \notin EndSteps BY DEF Interrupt, EndSteps
<1>1. CASE Finish(c) /\ UNCHANGED <<opening, current, output, refused>>
  BY <1>0, <1>1, FinishKeeps
<1>a. current # NoStream => current \in Streams /\ output[current].pump # "none"
  BY BridgeTypesOf DEF BridgeInv, PumpsRegistered
<1>2. CASE current # NoStream /\ MarkCancelled(c, current, "interrupting")
  BY <1>0, <1>2, <1>a, MarkCancelledKeeps
<1>3. CASE /\ current # NoStream /\ Released(current, output[current].pump)
           /\ Finish(c) /\ UNCHANGED <<opening, refused>>
  <2>1. /\ job' \in [Callers -> JobRecord] /\ JobsGo
        /\ \A d \in Callers : job'[d] = IF d = c THEN NoJob ELSE job[d]
    BY <1>3, FinishedJob
  <2>2. output[current].pump \in Pumps \ {"none"}
    BY <1>3, <1>a, BridgeTypesOf DEF OutputRecord
  <2>3. \A d \in Callers : job[d].step \in EndSteps => job'[d] = job[d] BY <1>0, <2>1
  <2>4. output[current].pump = "ending" => \E d \in Callers : Reports(job'[d], current)
    BY <1>3, <1>a, <2>3 DEF BridgeInv, EndingIsReported, Reports
  <2> QED BY <1>3, <1>a, <2>1, <2>2, <2>3, <2>4, ReleasedKeeps
<1> QED BY <1>1, <1>2, <1>3 DEF Interrupt, CancelActive

LEMMA CloseStreamKeeps ==
  ASSUME BridgeInv, VoiceInv', Later, NEW c \in Callers, NEW s \in Streams, CloseStream(c, s)
  PROVE  BridgeInv'
<1>0. output[s].pump # "none" /\ job[c].step \notin EndSteps
  BY NoJobFacts DEF CloseStream, Free, EndSteps
<1>1. CASE MarkCancelled(c, s, "closing") BY <1>0, <1>1, MarkCancelledKeeps
<1>2. CASE Released(s, "done") /\ Drop(Reporters(s)) /\ UNCHANGED <<opening, refused>>
  <2>1. /\ Reporters(s) \in SUBSET Callers
        /\ \A d \in Reporters(s) : job[d].step \in EndSteps => job[d].stream = s
    BY DEF Reporters
  <2> DEFINE tasks == Reporters(s)
  <2> HIDE DEF tasks
  <2> QED BY <1>0, <1>2, <2>1, DroppedKeeps DEF tasks
<1> QED BY <1>1, <1>2 DEF CloseStream

LEMMA BeginSpeechKeeps ==
  ASSUME BridgeInv, VoiceInv', Later, NEW c \in Callers, BeginSpeech(c)
  PROVE  BridgeInv'
<1> DEFINE j == StreamJob("speech", NoStream)
<1>1. /\ job' = [job EXCEPT ![c] = j] /\ job[c] = NoJob
      /\ UNCHANGED <<opening, current, output, refused>>
  BY DEF BeginSpeech, Free
<1>2. j \in JobRecord /\ j.step = "speech" /\ JobIsSound(j, output', turns')
      /\ Fenced(j, generation', interruptions')
  <2>1. "speech" \in JobSteps \ {"synthesizing"} /\ "speech" \notin StreamSteps
    BY DEF JobSteps, StreamSteps, EndSteps
  <2> QED BY <2>1, StreamJobFacts
<1> HIDE DEF j
<1>3. j.step \notin OpenSteps /\ job[c].step \notin EndSteps
  BY <1>1, <1>2, NoJobFacts DEF OpenSteps, EndSteps
<1>4. OpensGo BY <1>1 DEF OpensGo
<1>5. JobIsSound(j, output, turns') BY <1>1, <1>2
<1> QED BY <1>1, <1>2, <1>3, <1>4, <1>5, JobStep

LEMMA BridgeStepKeeps ==
  ASSUME VoiceInv, BridgeInv, VoiceInv', Later, NEW c \in Callers, BridgeStep(c)
  PROVE  BridgeInv'
<1>1. CASE Synthesized(c)
  <2>1. GoesTo(c, "starting") /\ UNCHANGED <<opening, current, output, refused>>
        /\ job[c].step = "synthesizing"
    BY <1>1 DEF Synthesized
  <2> QED BY <2>1, GoesToKeeps DEF JobSteps, EndSteps, StreamSteps, OpenSteps
<1>2. CASE SynthesisFails(c)
  BY <1>2, OpenFailsKeeps DEF SynthesisFails, OpenSteps
<1>3. CASE Started(c)
  <2>1. job[c].step = "starting" BY <1>3 DEF Started
  <2>2. CASE GoesTo(c, "selecting") /\ UNCHANGED <<opening, current, output, refused>>
    BY <2>1, <2>2, GoesToKeeps DEF JobSteps, EndSteps, StreamSteps, OpenSteps
  <2>3. CASE OpenFails(c) BY <2>1, <2>3, OpenFailsKeeps DEF OpenSteps
  <2> QED BY <1>3, <2>2, <2>3 DEF Started
<1>4. CASE SpeechReturns(c)
  <2>1. job[c].step = "speech" /\ UNCHANGED <<opening, current, output, refused>>
    BY <1>4 DEF SpeechReturns
  <2>2. CASE GoesTo(c, "deciding")
    BY <2>1, <2>2, GoesToKeeps DEF JobSteps, EndSteps, StreamSteps, OpenSteps
  <2>3. CASE Finish(c) BY <2>1, <2>3, FinishKeeps DEF EndSteps
  <2> QED BY <1>4, <2>2, <2>3 DEF SpeechReturns
<1>5. CASE CancelReports(c)
  <2>1. UNCHANGED outputVars BY <1>5 DEF CancelReports, ReportCancelled
  <2> QED BY <2>1, BridgeRests
<1> QED BY <1>1, <1>2, <1>3, <1>4, <1>5, SelectedKeeps, CompletedKeeps, CancelReturnsKeeps,
        CancelActiveKeeps, CloseEndsKeeps, CloseRefusedKeeps DEF BridgeStep

LEMMA StepOutput ==
  ASSUME VoiceInv, BridgeInv, [OutputNext]_allVars
  PROVE  VoiceInv' /\ BridgeInv'
<1>1. VoiceInv' /\ Later BY OutputMoves, MoveKeepsVoice, MoveIsLater
<1>2. ASSUME NEW c \in Callers, VoiceAlone(c) PROVE BridgeInv'
  BY <1>1, <1>2, BridgeRests DEF VoiceAlone
<1>3. ASSUME NEW c \in Callers, BridgeStep(c) PROVE BridgeInv' BY <1>1, <1>3, BridgeStepKeeps
<1>4. ASSUME NEW c \in Callers, BeginSpeech(c) PROVE BridgeInv' BY <1>1, <1>4, BeginSpeechKeeps
<1>5. ASSUME NEW c \in Callers, ClientMessage(c) PROVE BridgeInv'
  BY <1>1, <1>5, BeginOpenKeeps, CloseStreamKeeps DEF ClientMessage
<1>6. ASSUME NEW s \in Streams, PumpAudio(s) PROVE BridgeInv'
  <2>1. CASE NotFound(s)
    <3>1. output[s].pump # "none" BY <2>1 DEF NotFound
    <3> QED BY <1>1, <2>1, <3>1, PumpReleases DEF NotFound
  <2> QED BY <1>1, <1>6, <2>1, StartPumpKeeps, ChunkKeeps, SendChunkKeeps, ProviderEndsKeeps,
             ProviderFailsKeeps DEF PumpAudio
<1>7. CASE UNCHANGED outputVars BY <1>1, <1>7, BridgeRests
<1> QED BY <1>1, <1>2, <1>3, <1>4, <1>5, <1>6, <1>7 DEF OutputNext, allVars

LEMMA OutputInvHolds == OutputSpec => [](VoiceInv /\ BridgeInv)
<1>1. OutputInit => VoiceInv /\ BridgeInv BY BridgeStart
<1>2. VoiceInv /\ BridgeInv /\ [OutputNext]_allVars => (VoiceInv /\ BridgeInv)' BY StepOutput
<1> QED BY <1>1, <1>2, PTL DEF OutputSpec
-----------------------------------------------------------------------------
(* Theorems *)

\* Whoever interrupts a speaking interviewer finds the turn to cancel, and it is a turn
\* of the stored session, although RealtimeVoiceCoordinator changes its memory first and
\* saves afterwards, and a save may be refused.
THEOREM SpeakerHasATurn == OutputSpec => []SpeakingHasTurn
<1>1. VoiceInv => SpeakingHasTurn BY DEF VoiceInv
<1> QED BY <1>1, OutputInvHolds, PTL

\* The audit log never tells of a barge-in that did not happen: what speech_started
\* counts and what its save stores agree, whichever saves are refused.
THEOREM StoredBargeInsHappened == OutputSpec => []BargeInsHappened
<1>1. VoiceInv => BargeInsHappened
  <2> SUFFICES ASSUME VoiceInv PROVE BargeInsHappened OBVIOUS
  <2>1. {c \in Callers : call[c].barged /\ call[c].step = "saving"} = Barging
    BY CallTypes DEF Barging, Pending
  <2> QED BY <2>1 DEF VoiceInv, Counted, BargeInsHappened
<1> QED BY <1>1, OutputInvHolds, PTL

\* An active turn makes room for another only by its own end or a cancellation, in
\* whatever order the events of the providers arrive (tts_started's stale-turn check);
\* the one exception is transcript_final's response.
THEOREM ActiveTurnsAreFenced == OutputSpec => TurnsAreFenced
<1> DEFINE Fence == active # NoTurn /\ active' # NoTurn /\ active' # active =>
                      \E c \in Callers : At(c, "final", "answered") /\ active' = call[c].turn
<1>1. ASSUME NEW c \in Callers, Step(c) PROVE Fence
  <2>1. CASE ResponseReady(c) BY <2>1 DEF ResponseReady
  <2>2. CASE SpeechStarted(c)
    <3>1. active' = NoTurn \/ active' = active BY <2>2 DEF SpeechStarted
    <3> QED BY <3>1
  <2>3. CASE TtsStarted(c)
    <3>1. active' = active \/ (MayStart(c) /\ active' = call[c].turn) BY <2>3 DEF TtsStarted
    <3> QED BY <3>1 DEF MayStart
  <2>4. CASE TtsEnded(c) \/ CloseSaved(c)
    <3>1. active' = NoTurn \/ active' = active BY <2>4 DEF TtsEnded, CloseSaved
    <3> QED BY <3>1
  <2>5. CASE \/ Save(c) \/ RefuseInput(c) \/ TranscriptFinal(c) \/ TranscriptSaved(c)
             \/ Answer(c) \/ LoadClose(c) \/ CloseSession(c)
    <3>1. active' = active
      BY <2>5 DEF Save, RefuseInput, TranscriptFinal, TranscriptSaved, Answer, LoadClose, Load,
                  CloseSession, memory
    <3> QED BY <3>1
  <2> QED BY <1>1, <2>1, <2>2, <2>3, <2>4, <2>5 DEF Step
<1>2. ASSUME VoiceMove PROVE Fence
  <2>1. CASE \E c \in Callers : Step(c) BY <1>1, <2>1
  <2>2. CASE ~\E c \in Callers : Step(c)
    <3>1. active' = active
      BY <1>2, <2>2 DEF VoiceMove, Loads, Load, Returns, TasksEnd, CancelSession, OthersSave,
                        voiceVars, memory
    <3> QED BY <3>1
  <2> QED BY <2>1, <2>2
<1>3. VoiceInv /\ BridgeInv /\ [OutputNext]_allVars => [Fence]_voiceVars
  BY <1>2, OutputMoves
<1> QED BY <1>3, OutputInvHolds, PTL DEF OutputSpec, TurnsAreFenced

\* A barge-in silences the stream it interrupts and one that was being opened: of a
\* stream asked for before it the client gets at most the one chunk that pump_audio had
\* taken from the bridge already and was sending, although the provider session, the
\* coordinator and the pump each learn of the barge-in at a time of their own.
THEOREM BargeInsSilence == OutputSpec => []BargeInSilences
<1>1. BridgeInv => BargeInSilences
  <2> SUFFICES ASSUME BridgeInv, NEW s \in Streams PROVE output[s].late <= 1
    BY DEF BargeInSilences
  <2>1. LateIs(output[s], interruptions) BY DEF BridgeInv
  <2>2. output[s].late = 0 \/ output[s].late = 1 BY <2>1 DEF LateIs
  <2> QED BY <2>2
<1> QED BY <1>1, OutputInvHolds, PTL

\* A registered stream is always on its way out: its pump is there or about to be
\* created, or its end is being reported by a task that releases it afterwards.  Only a
\* refused tts_completed, or the refused tts_cancelled of a socket that disconnected
\* before it had a pump, leaves one behind, and with it every later open refused
\* (VoiceOutputBridge._release, pump_audio and the end of tts_socket).
THEOREM StreamsStayOnlyByRefusal == OutputSpec => []StuckOnlyByRefusal
<1>1. BridgeInv => StuckOnlyByRefusal
  BY BridgeTypesOf DEF BridgeInv, PumpsRegistered, Alive, EndingIsReported, Reports, EndSteps,
                       Reporters, StuckOnlyByRefusal
<1> QED BY <1>1, OutputInvHolds, PTL

\* What is registered for the session, the opening flag and the history.
EntryIsSound ==
  /\ opening \in BOOLEAN /\ refused \subseteq Streams
  /\ current # NoStream => output[current].registered

LEMMA EntryStep ==
  ASSUME VoiceInv, BridgeInv, EntryIsSound, [OutputNext]_allVars
  PROVE  EntryIsSound'
<1> DEFINE FlagsRest == opening' = opening /\ refused' = refused
<1>0. output \in [Streams -> OutputRecord] /\ current \in Streams \cup {NoStream} BY BridgeTypesOf
<1>1. ASSUME NEW r, NEW pump, Released(r, pump), FlagsRest PROVE EntryIsSound'
  <2>1. current' # NoStream => current' = current /\ current # r BY <1>1 DEF Released
  <2>2. \A s \in Streams : s # r => output'[s] = output[s] BY <1>0, <1>1 DEF Released
  <2> QED BY <1>0, <1>1, <2>1, <2>2 DEF EntryIsSound
<1>2. ASSUME NEW c, NEW r, NEW step, MarkCancelled(c, r, step) PROVE EntryIsSound'
  <2>1. \A s \in Streams : output'[s].registered = output[s].registered
    BY <1>0, <1>2 DEF MarkCancelled, Marked, OutputRecord
  <2> QED BY <1>0, <1>2, <2>1 DEF MarkCancelled, EntryIsSound
<1>3. ASSUME UNCHANGED <<current, output>>, opening' \in BOOLEAN, refused' \subseteq Streams
      PROVE  EntryIsSound'
  BY <1>3 DEF EntryIsSound
<1>4. ASSUME NEW r, UNCHANGED <<opening, current>>, refused' \subseteq Streams,
             \/ output' = [output EXCEPT ![r].pump = "done"]
             \/ output' = [output EXCEPT ![r].pump = "ending"]
             \/ output' = [output EXCEPT ![r].pump = "running"]
             \/ output' = [output EXCEPT ![r].pump = "sending", ![r].sent = @ + 1]
             \/ output' = [output EXCEPT ![r] = Heard(@)]
      PROVE  EntryIsSound'
  <2>0. ASSUME NEW o \in OutputRecord PROVE Heard(o).registered = o.registered
    BY DEF OutputRecord, Heard
  <2>1. \A s \in Streams : output'[s].registered = output[s].registered
    <3>1. CASE output' = [output EXCEPT ![r] = Heard(@)] BY <1>0, <2>0, <3>1
    <3>2. CASE output' # [output EXCEPT ![r] = Heard(@)] BY <1>0, <1>4, <3>2 DEF OutputRecord
    <3> QED BY <3>1, <3>2
  <2> QED BY <1>0, <1>4, <2>1 DEF EntryIsSound
<1>5. opening \in BOOLEAN /\ refused \subseteq Streams BY DEF EntryIsSound
<1>6. ASSUME NEW c \in Callers, Selected(c) PROVE EntryIsSound'
  <2>1. CASE OpenFails(c) BY <1>3, <1>5, <2>1 DEF OpenFails
  <2>2. CASE /\ job[c].step = "selecting" /\ opening' = FALSE /\ refused' = refused
             /\ current' = NewStream
             /\ output' = [output EXCEPT ![NewStream] = StreamOf(job[c])]
    <3>1. \E r \in Streams : output[r] = NoOutput
      BY <2>2 DEF BridgeInv, OneOpens, OpenSteps
    <3>2. NewStream \in Streams BY <3>1 DEF NewStream
    <3>3. StreamOf(job[c]).registered BY DEF StreamOf, NoOutput
    <3>4. output'[current'] = StreamOf(job[c]) BY <1>0, <2>2, <3>2
    <3> QED BY <1>5, <2>2, <3>3, <3>4 DEF EntryIsSound
  <2> QED BY <1>6, <2>1, <2>2 DEF Selected
<1>7. ASSUME NEW c \in Callers, BridgeStep(c) PROVE EntryIsSound'
  <2>1. CASE Synthesized(c) \/ SynthesisFails(c) \/ Started(c) \/ SpeechReturns(c)
    BY <1>3, <1>5, <2>1 DEF Synthesized, SynthesisFails, Started, SpeechReturns, OpenFails
  <2>2. CASE CancelReports(c)
    BY <1>3, <1>5, <2>2 DEF CancelReports, ReportCancelled, outputVars
  <2>3. CASE Completed(c)
    <3>1. job[c].stream \in Streams
      BY <2>3 DEF Completed, BridgeInv, JobIsSound, StreamSteps, EndSteps
    <3>2. refused \cup {job[c].stream} \subseteq Streams BY <1>5, <3>1
    <3> QED BY <1>1, <1>4, <1>5, <2>3, <3>2 DEF Completed
  <2>4. CASE CancelReturns(c) BY <1>1, <1>3, <1>5, <2>4 DEF CancelReturns
  <2>5. CASE Interrupt(c) BY <1>1, <1>2, <1>3, <1>5, <2>5 DEF Interrupt, CancelActive
  <2>6. CASE CloseReturns(c) \/ Reclosed(c) BY <1>1, <2>6 DEF CloseReturns, Reclosed
  <2>7. CASE CloseRefused(c)
    <3>1. job[c].stream \in Streams
      BY <2>7 DEF CloseRefused, BridgeInv, JobIsSound, StreamSteps, EndSteps
    <3>2. refused \cup {job[c].stream} \subseteq Streams BY <1>5, <3>1
    <3> QED BY <1>3, <1>4, <1>5, <2>7, <3>2 DEF CloseRefused
  <2> QED BY <1>6, <1>7, <2>1, <2>2, <2>3, <2>4, <2>5, <2>6, <2>7 DEF BridgeStep
<1>8. ASSUME NEW c \in Callers, VoiceAlone(c) \/ BeginSpeech(c) PROVE EntryIsSound'
  BY <1>3, <1>5, <1>8 DEF VoiceAlone, BeginSpeech, outputVars
<1>9. ASSUME NEW c \in Callers, ClientMessage(c) PROVE EntryIsSound'
  BY <1>1, <1>2, <1>3, <1>5, <1>9 DEF ClientMessage, BeginOpen, CloseStream
<1>10. ASSUME NEW s \in Streams, PumpAudio(s) PROVE EntryIsSound'
  BY <1>1, <1>2, <1>4, <1>5, <1>10
  DEF PumpAudio, StartPump, NotFound, Chunk, SendChunk, ProviderEnds, ProviderFails
<1>11. CASE UNCHANGED outputVars BY <1>3, <1>5, <1>11 DEF outputVars
<1> QED BY <1>7, <1>8, <1>9, <1>10, <1>11 DEF OutputNext, allVars

\* The types of the coordinator and of the bridge: what the session has registered is a
\* stream that was opened and is not released, and no stream has more than its chunks.
THEOREM OutputTypesAreKept == OutputSpec => []OutputTypeOK
<1>1. OutputInit => EntryIsSound BY DEF OutputInit, EntryIsSound
<1>2. VoiceInv /\ BridgeInv /\ EntryIsSound /\ [OutputNext]_allVars => EntryIsSound' BY EntryStep
<1>3. VoiceInv /\ BridgeInv /\ EntryIsSound => OutputTypeOK
  BY DEF VoiceInv, BridgeInv, BridgeTypes, JobRecord, OutputRecord, EntryIsSound, OutputTypeOK
<1> QED BY <1>1, <1>2, <1>3, OutputInvHolds, PTL DEF OutputSpec
=============================================================================
