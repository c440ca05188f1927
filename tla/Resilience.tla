----------------------------- MODULE Resilience -----------------------------
(***************************************************************************)
(* Failure accounting for one external provider that several tasks call:   *)
(*   "circuit"   CircuitBreaker (resilience.py) under the retry loop of    *)
(*               OpenAICompatibleChatProvider.complete (completion.py), and  *)
(*   "registry"  ProviderHealthRegistry (provider_health.py) under the     *)
(*               streams of guarded_voice.py.                              *)
(* A call is admitted, awaits the provider, and then records its outcome:  *)
(* others open and close the circuit in between.  The clock is abstracted  *)
(* to whether the cooldown since the last opening has passed.              *)
(***************************************************************************)
EXTENDS Naturals

CONSTANTS
  Callers,      \* tasks that call the provider
  Threshold,    \* failure_threshold
  MaxAttempts,  \* max_attempts of complete
  MaxFailures,  \* bound: the count of consecutive failures stops here
  MaxChanges    \* bound: times the provider breaks down or recovers

ASSUME ResilienceAssumption ==
  /\ Threshold \in Nat \ {0} /\ MaxAttempts \in Nat \ {0}
  /\ MaxFailures \in Nat /\ Threshold <= MaxFailures
  /\ MaxChanges \in Nat

VARIABLES
  kind,      \* which of the two accounts for this provider
  state,     \* CircuitState; of the registry, whether open_until is set
  failures,  \* consecutive_failures
  cooled,    \* the cooldown has passed since the circuit was opened last
  call,      \* what each caller does
  healthy,   \* whether the provider answers what it is asked from now on
  changes    \* breakdowns and recoveries so far

breakerVars == <<kind, state, failures, cooled, call, healthy, changes>>
account == <<state, failures, cooled>>

(* "asking"   before_call is next                                          *)
(* "waiting"  the request is sent, or the provider session is being opened *)
(* "backoff"  complete sleeps before its next attempt                      *)
(* "streaming" the provider session is open                                *)
(* "finished" its events have ended, and with them the provider session is *)
(*            closed, but the client may not know                          *)
Steps == {"idle", "asking", "waiting", "backoff", "streaming", "finished"}

Idle == [step |-> "idle", attempt |-> 1, sound |-> FALSE, marked |-> FALSE]

BreakerInit ==
  /\ kind \in {"circuit", "registry"}
  /\ state = "closed" /\ failures = 0 /\ cooled = TRUE
  /\ call = [c \in Callers |-> Idle]
  /\ healthy \in BOOLEAN /\ changes = 0

At(c, step) == call[c].step = step
GoesTo(c, step) == call' = [call EXCEPT ![c].step = step]
Ends(c) == call' = [call EXCEPT ![c] = Idle]
-----------------------------------------------------------------------------
(* The account *)

\* Defect: the failures of before are remembered.
SuccessKeepsCount == state' = "closed" /\ UNCHANGED <<failures, cooled>>

RecordSuccess == state' = "closed" /\ failures' = 0 /\ UNCHANGED cooled

\* A failure that reaches the threshold opens the circuit, and so does one in
\* half-open; it may be that of a call admitted long before.
Trips == (kind = "circuit" /\ state = "half_open") \/ failures + 1 >= Threshold

\* The count stops at its bound.
RecordFailure ==
  /\ failures' = IF failures < MaxFailures THEN failures + 1 ELSE failures
  /\ IF Trips
     THEN state' = "open" /\ cooled' = FALSE
     ELSE UNCHANGED <<state, cooled>>

\* Defect: an open circuit stays open.
AdmitClosed(c) ==
  /\ At(c, "asking")
  /\ IF state # "open"
     THEN call' = [call EXCEPT ![c].step = "waiting", ![c].sound = healthy]
     ELSE Ends(c)
  /\ UNCHANGED <<kind, account, healthy, changes>>

\* before_call: an open circuit refuses until the cooldown has passed; then the
\* breaker is half open, the registry forgets that it was open, and both let
\* every caller pass.
Admit(c) ==
  /\ At(c, "asking")
  /\ \/ /\ state # "open" \/ cooled
        /\ state' = IF state # "open" THEN state ELSE IF kind = "circuit" THEN "half_open" ELSE "closed"
        /\ call' = [call EXCEPT ![c].step = "waiting", ![c].sound = healthy]
     \/ state = "open" /\ ~cooled /\ Ends(c) /\ UNCHANGED state
  /\ UNCHANGED <<kind, failures, cooled, healthy, changes>>
-----------------------------------------------------------------------------
(* complete *)

Begin(c) ==
  /\ At(c, "idle")
  /\ GoesTo(c, "asking")
  /\ UNCHANGED <<kind, account, healthy, changes>>

Answers(c) ==
  /\ kind = "circuit" /\ At(c, "waiting")
  /\ RecordSuccess
  /\ Ends(c)
  /\ UNCHANGED <<kind, healthy, changes>>

MayRetry(c) == call[c].attempt < MaxAttempts

\* No answer in time or a status that may pass is retried; any other status and an
\* answer of the wrong shape is raised, and counts as a failure as well.
Fails(c) ==
  /\ kind = "circuit" /\ At(c, "waiting") /\ ~call[c].sound
  /\ RecordFailure
  /\ \/ MayRetry(c) /\ GoesTo(c, "backoff")
     \/ Ends(c)
  /\ UNCHANGED <<kind, healthy, changes>>

\* The next attempt asks the circuit again: it may have opened meanwhile.
Retry(c) ==
  /\ At(c, "backoff")
  /\ call' = [call EXCEPT ![c] = [Idle EXCEPT !.step = "asking", !.attempt = call[c].attempt + 1]]
  /\ UNCHANGED <<kind, account, healthy, changes>>
-----------------------------------------------------------------------------
(* Guarded streams *)

Opens(c) ==
  /\ kind = "registry" /\ At(c, "waiting")
  /\ \/ GoesTo(c, "streaming") /\ UNCHANGED account
     \/ ~call[c].sound /\ RecordFailure /\ Ends(c)
  /\ UNCHANGED <<kind, healthy, changes>>

\* Only the first event of a stream is a success.
FirstEvent(c) ==
  /\ At(c, "streaming") /\ ~call[c].marked
  /\ RecordSuccess
  /\ call' = [call EXCEPT ![c].marked = TRUE]
  /\ UNCHANGED <<kind, healthy, changes>>

\* The provider's last event closes the session.
Finish(c) ==
  /\ At(c, "streaming")
  /\ GoesTo(c, "finished")
  /\ UNCHANGED <<kind, account, healthy, changes>>

\* push_audio, commit and events each record a failure of their own, so that one
\* provider session counts several times; what is pushed to a session that is closed
\* raises too and counts as a failure of the provider, be it sound or not.
StreamFails(c) ==
  /\ (At(c, "streaming") /\ ~call[c].sound) \/ At(c, "finished")
  /\ RecordFailure
  /\ UNCHANGED <<kind, call, healthy, changes>>

Close(c) ==
  /\ call[c].step \in {"streaming", "finished"}
  /\ Ends(c)
  /\ UNCHANGED <<kind, account, healthy, changes>>
-----------------------------------------------------------------------------
Cool ==
  /\ ~cooled /\ cooled' = TRUE
  /\ UNCHANGED <<kind, state, failures, call, healthy, changes>>

Change ==
  /\ changes < MaxChanges
  /\ changes' = changes + 1 /\ healthy' = ~healthy
  /\ UNCHANGED <<kind, account, call>>

Outcome(c) == Answers(c) \/ Fails(c) \/ Opens(c) \/ FirstEvent(c)

Step(c) == Admit(c) \/ Outcome(c) \/ Retry(c)

BreakerNext ==
  \/ \E c \in Callers : Begin(c) \/ Step(c) \/ Finish(c) \/ StreamFails(c) \/ Close(c)
  \/ Cool \/ Change

BreakerSpec == BreakerInit /\ [][BreakerNext]_breakerVars

\* Requests end by their timeout, sleeps end, time passes, and the application goes
\* on asking; a stream brings an event before it is closed again and again.
FairBreakerSpec ==
  /\ BreakerSpec
  /\ WF_breakerVars(Cool)
  /\ \A c \in Callers : WF_breakerVars(Begin(c)) /\ WF_breakerVars(Step(c)) /\ SF_breakerVars(FirstEvent(c)) /\ WF_breakerVars(Close(c))
-----------------------------------------------------------------------------
(* Properties *)

BreakerTypeOK ==
  /\ kind \in {"circuit", "registry"}
  /\ state \in {"closed", "open", "half_open"}
  /\ failures \in 0..MaxFailures
  /\ cooled \in BOOLEAN /\ healthy \in BOOLEAN /\ changes \in 0..MaxChanges
  /\ call \in [Callers -> [step : Steps, attempt : 1..MaxAttempts, sound : BOOLEAN, marked : BOOLEAN]]

\* The breaker is closed exactly while the failures since the last success are fewer
\* than the threshold, in whatever order calls admitted before and after it opened
\* report; the registry is open only with that many.
TripsAtThreshold ==
  /\ kind = "circuit" => (state = "closed" <=> failures < Threshold)
  /\ state = "open" => failures >= Threshold

\* A provider that has recovered for good is tried again and again, although calls from
\* before the recovery still fail and open the circuit again; and the breaker closes for
\* good.  (The registry does not: what is pushed to finished streams keeps opening it.)
ComesBack ==
  <>[]healthy => []<>(state = "closed") /\ <>[](kind = "circuit" => state = "closed")
=============================================================================
