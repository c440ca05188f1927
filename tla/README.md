# Nora Interviewer: TLA+ specifications

Nora runs structured interviews: a service asks a candidate questions (planned
anchors and adaptive follow-ups), opens practical tools, collects evidence for
each competency of the job, and leaves an event log for human review. Around it
are realtime voice in both directions, webhooks, artifacts, a review workflow
and a rubric studio. These modules specify how sessions are stored, how an
interview proceeds, how evidence accumulates, and how the parts around it behave
when their calls cross, fail or are cut off. TLC checks them on small instances,
and TLAPS proves the main safety properties for every instance. Paths below are
relative to `src/src/nora_interviewer/` unless they start with `docs/` or
`README`.

## Inventory

| Component | State | Operations | Hard part |
|---|---|---|---|
| Session store: `storage.py`, `sqlite_store.py`, `postgres_store.py` | one versioned row per session; the caller's copy | put, get, delete | two requests between load and save; task cancellation while a thread writes; deletion under a running handler |
| Interview service: `service.py` | status, pause flag, counters, turns, tools | start, answer, control, open/submit tool, cancel | every operation awaits models and evaluators in the middle; `submit_tool` has weaker guards than `answer` |
| Planner: `planner.py` | derived | `next_anchor` | overrules the brain's closing turn |
| Brains: `providers/rule_based.py`, `llm_brain.py`, `fallback.py` | `covered_competencies` | opening, after_answer, after_tool | arbitrary model output; fallback at any turn |
| Controls: `controls.py` | pause flag | thinking_time, resume, correct, repeat, clarify, question | pause against tool submission |
| Replay: `replay.py` | reconstruction from events | `replay_events` | agreement with the stored session |
| Evidence graph: `evidence.py` | per competency: state, confidence, items | claim, observe, recompute, supersede | incremental and recomputed states must agree; sticky contradictions |
| Evidence judge: `evidence_judge.py`, `evidence_ensemble.py` | judge runs | evaluate, gate | a judge in flight while the transcript is corrected |
| Tools: `tools.py`, `tool_templates.py`, `coding.py`, `domain_evaluators.py` | invocations; private coding state in memory | instantiate, evaluate | lost private state after a restart |
| Voice coordinator: `voice.py` | phase, generation, active TTS turn, in memory | speech, transcripts, TTS events, close | memory changes before the save; cancellation in two steps |
| Voice output: `voice_output_bridge.py` | opening and active stream, its generation, the pump task | open, chunks, cancel_active, close | a barge-in while the provider is awaited; the release of a stream whose end is refused |
| Audio input: `audio_stream_manager.py`, `voice_stream_bridge.py`, the audio socket of `api.py`, `web/server_stt.js` | sequence on both sides, frames in flight, event queue, pump, expiry timer | open, chunk, ack, reconnect, commit, close, expire | replay after a cut while the old socket still reads; expiry against reconnect; commit after lost frames |
| Voice activity: `vad.py` | speaking flag, three timers | observe | end of an utterance with hysteresis |
| Webhooks: `webhooks.py` | delivery events in the session's log | save, dispatch with retries, second save | duplicates; delivery without record; a save that is cancelled while it delivers |
| Artifacts, retention: `artifact_service.py`, `artifact_storage.py`, `retention.py` | objects, and metadata in the session | create, issue access, read, delete, purge | object and session are saved separately |
| Review: `review_service.py`, appeals and signals of `service.py` | assignments, decisions | assign, start, complete, cancel, submit, review | two recruiters on one session; a check on one load, a change on another |
| Rubric studio: `rubric_service.py`, `rubric_drafting.py` | drafts, jobs | draft, approve, post a job | one draft approved twice; ids that clients choose |
| Resilience: `resilience.py`, `provider_health.py`, `providers/completion.py`, `providers/guarded_voice.py` | circuit state, failures | before, success, failure, retry | late outcomes in half-open |
| Audit chain: `audit.py` | hashes | append, verify | linking across saves |
| Authorization: `authn.py`, `authorization.py` | none | decision table | completeness of the table |

How they interact: an HTTP or socket handler of `api.py` calls one service
operation; the operation loads the session from the store (a deep copy), calls
brain, planner, judge or evaluator, appends events, and saves the copy with the
version it loaded. The voice coordinator calls `service.answer` when a final
transcript arrives, and keeps state of its own in memory; the voice output bridge
calls the coordinator at the start and the end of every stream, and the sockets
call the bridge when the candidate starts to speak. Webhooks wrap the store.
Retention deletes rows behind everybody's back. There are no locks on sessions:
the version comparison in `put_session` is the whole concurrency control, which
is why the store comes first here.

What makes each component correct:

- store: no lost commit and no spurious conflict;
- service: a bounded interview that ends, anchors that keep up with the questions,
  tools within the job's policy, and an event log that tells the truth;
- evidence: a competency's state that is backed by its active evidence, quotes
  that match the current transcript, and history that is never dropped;
- voice: memory that agrees with the stored session and its log although the two
  change at different moments, and speech that ends with a barge-in, but for what
  is on its way already;
- audio: every frame heard once, in order, and before the commit that ends it;
- webhooks: receivers are told of what is stored, the log of what happened, and no
  event is forgotten by anything but the end of the task that delivers it;
- artifacts: no metadata without bytes and no bytes that were deleted or are
  nobody's, except where one step of several failed;
- review and rubrics: one active reviewer, one decision, one job per draft;
- resilience: a circuit that opens at its threshold and closes again.

`PROJECT.json` lists every component, and the hazards at their lines.

## Modules

| Module | Models | For TLC | Proofs |
|---|---|---|---|
| `AtomicSession` | what the Store contract promises: each operation takes effect on a session in one step | | |
| `SessionStore` | the three backends and the load-work-save use of them | `MCSessionStore` | `SessionStoreProofs` |
| `Interview` | service operations, planner, brains, controls and replay of one session | `MCInterview` | `InterviewProofs` |
| `EvidenceGraph` | the evidence of one session and the operations that change it | `MCEvidenceGraph` | `EvidenceGraphProofs` |
| `Voice` | the voice coordinator's memory beside the stored session, call by call | | in `VoiceOutputProofs` |
| `VoiceOutput` | the output bridge and its sockets; extends `Voice` | `MCVoiceOutput` | `VoiceOutputProofs` |
| `OrderedDelivery` | what the audio transport promises: the frames once each, in order | | |
| `AudioStream` | browser client, sockets, manager, bridge, VAD, pump and expiry of one microphone stream | `MCAudioStream` | `AudioStreamProofs` |
| `Webhooks` | the dispatching store and the dispatcher | `MCWebhooks` | `WebhooksProofs` |
| `Artifacts` | artifacts and retention of one session, over two stores | `MCArtifacts` | `ArtifactsProofs` |
| `Rubric` | drafts and jobs of the rubric studio | under `Review` | in `ReviewProofs` |
| `Review` | assignments, appeals and the API's preconditions; extends `Rubric` | `MCReview` | `ReviewProofs` |
| `Resilience` | circuit breaker and health registry | `MCResilience` | in `InterviewProofs` |

`SessionStore` shows that operations of concurrent requests take effect one at
a time or not at all. `Interview` and `EvidenceGraph` build on that: there an
operation is one action from load to save, and one that raises or is refused is
no step. The other modules have state outside of the session row (memory,
objects, receivers, a request's earlier load), so that load and save are steps
of their own there, and a save is refused when the version has moved. An operator
whose comment starts with *Defect* (or *Mutant*) is no part of the model: it is a
plausible bug, used to see that a property would notice it.

### SessionStore

`sessions` holds the rows, `backend` the store that was
configured, `req[w]` what a request holds (the phase it is in
and its copy of a session), `issued` the ids given out, `lock` the holder of
SqliteStore's asyncio lock. A payload is abstracted to the sequence of requests
whose operations it contains: a lost update is then a missing element.
`MemoryPut` and `PostgresPut` are single steps (no await under the lock, and a
single conditional statement). SqliteStore takes two: `SqliteSelect` and
`SqliteWrite`, in a worker thread; `CancelSave` is the cancellation of the
awaiting task, which releases the lock while the thread goes on to
`DetachedWrite`. `DeleteSession` ignores versions, as the code does. `Crash`
drops every copy, and the rows of the in-memory store.

### Interview

The variables are the fields of `InterviewSession` that decisions read, and
`replay`, what `replay_events` computes from the events so far. `question` is
the tag list of the latest evaluative interviewer turn, the only thing that
later decisions read of the transcript; an answer is abstracted to whether it
has fewer than 18 words. `RuleAfterAnswer` and `RuleAfterTool` are the
rule-based brain; `LLMDecisions` is the set of all decisions that
`_complete` and `_to_decision` let through, so that a model may say anything.
Both in `Brains` is the fallback. `anchor_ratio` is the exact fraction
`RatioNum / RatioDen`; the code's floating-point product can round up once more
(25 * 0.28), which changes the anchor budget and no property.
`ClientStatuses` is there because `open_tool` stores the status that a client
sends. Completion, pause and tools appear both in the session and in the
replay: `ReplayAgrees` compares them.

### EvidenceGraph

`graph[c]` is a node: its state (the rank of `_STATE_RANK`), its confidence and
its items. `revision[t]` counts the corrections of a turn's text; an item
remembers the revision its quote was checked against. `pending[j]` is a
re-evaluation that waits for its judge: the turn, the revision the judge reads,
and whether the stored session has been saved by somebody else since. A judge's
answer is a list of up to two findings for each requested competency.

### Voice

Here a call is not one action: the coordinator changes its memory between the
load and the save, so each call takes a step for the load (`Load`), one for the
change of memory (`SpeechStarted`, `TtsStarted`, ...), and one for the save
(`Save`, `TranscriptSaved`, `CloseSaved`), which is refused when the stored
version has moved. `call[c]` holds the step a caller is at and what it loaded.
`service.answer` inside `transcript_final` is one atomic step, as `SessionStore`
justifies, and so is the save of `service.cancel_session`, which
`close_session` follows with a load of its own. `OtherSave` is every other save of
the session: one that leaves status and turns alone (`RecordOnly`), or a typed
answer (`TextAnswer`). A created session counts as running: the coordinator does not
tell the two apart.

### VoiceOutput

`opening` and `current` are the session's entries in `_opening_sessions` and
`_active_by_session`; `output[s]` is an `_OutputStream` with its pump; `job[c]`
is what a caller of the coordinator does for the bridge. A job is a task: the
`open` that awaits the provider (`synthesizing`), then `tts_started`
(`starting`), then `transport_selected` (`selecting`); the pump at the end of a
stream (`completing`, `failing`); `cancel_active` after the candidate's speech; the
socket's `close` (`closing`), and its second one (`reclosing`) when the first was
refused after a client's message.
Each of them calls the coordinator through the `call` of `Voice`, so that every
such call loads, changes the memory and saves in steps, and may be refused. A
stream's own steps are `PumpAudio`, and `ClientMessage` is what a socket asks of the
coordinator without the bridge. `tts_socket` awaits the sending of `stream_opened`
before it creates the pump of a stream that is registered already (`StartPump`), and
`pump_audio` awaits lock and socket with each chunk that `chunks` yields: `Chunk` is the
check, `SendChunk` what the client gets. In both windows any other step may happen, a
disconnect and a barge-in included. The history `since` says how many barge-ins there
had been when a stream was asked for, `late` counts the chunks that reached the client
after a later one, and `refused` names the streams whose end the store refused. The
generation that `open` reads before it awaits the provider is compared
only when a chunk is taken (`IsCurrent`), as in the code.

### AudioStream

`client` is a `NoraServerSttClient`: mode, step of the recovery, the next
sequence number, the last acknowledged one, the map `inFlight` from sequence numbers to frames,
and the queue of frames that have no number yet. `link[c]`
are the two directions of the WebSocket numbered `c`, in the order the client
connects them; `sock[c]` is the coroutine that serves it. `stream` joins
`_StreamRecord` of the manager and `_ProviderStream` of the bridge: next sequence
number, generation, VAD, commit flag, pump and event queue. `provider` is the
upstream session, with the frames it received. `expiry` holds the timer tasks
and the table entry. Either end of a link notices a cut on its own and late, a
message on a link that is cut is lost without a sign, and the old coroutine goes
on reading what had arrived. `push_audio` is awaited: `ChunkAccepted` and
`PushDone` are two steps, and other coroutines run between them. So is `stop` in the
browser: `Stop` closes the capture, and `CaptureStops` queues the last partial frame
when the capture has closed; a recovery that ends in between commits by itself
(`RecoveryCommits`), which the history `overtaken` remembers. `CloseBridgeFails` is a
`close` whose provider session raises: the stream is closed, and its pump goes on to
find out. The refinement
maps the frames the provider received to `OrderedDelivery`'s `delivered`. A level
of loudness is `loud`, `between` the two thresholds, or `quiet`. The effect of a final
transcript on the session is that of `Voice`. One step of the browser is left out: when
the socket of an earlier connection closes late, its `onclose` (`web/server_stt.js:148`)
starts a recovery although the current socket is fine. `NoticeCut` is the `onclose` of
the current socket.

### Webhooks

`log` and `version` are the stored session; `task[w]` is a writer between its
awaits: `ReadPrevious` (what was stored before, an await of its own), `Save`,
`Post` for each event and subscription with its retries, and `Record`, the second
save, whose conflict is swallowed. A receiver may fail, may receive and then fail,
and may answer. The work of a writer may be cut off at each of its awaits (`CutOff`):
its task is cancelled (`Cancel`: `VoiceStreamBridge.close` cancels the pump whose answer
is being saved, `voice_stream_bridge.py:412`, and `CancelledError` passes
`except Exception`), the HTTP client raises what is neither a timeout nor a
`RequestError` (`PostRaises`), or the process crashes (`Crash`). A cancelled save may
still be made by its thread. `posts`, `received`, `settled` and `dropped` are histories.

### Artifacts

`refs` is the metadata in the session row, `objects` the keys that have bytes.
`task[t]` is a request or the retention run between its awaits: the put of the
object, the save, the clean-up after a refused save; token, object and audit
event of a read; removal and save of a deletion; listing, purge and
`DeleteSession` of retention, which compares no version. With `Faults` the object
store may fail and a task may crash at every step.

### Rubric and Review

A rubric draft is approved in two steps in SQLite (`Select`, `CommitApproval`),
whose order with `CreateJob` is free. `POST /v1/jobs` takes a whole `JobSpec`, so a
posted job has the provenance that its client likes; `origin` is a history of what
wrote a row last. A recruiter's request is then `Send` (what
was fetched, with or without If-Match), `Permit` (permission and precondition on
one load), `Apply` (the service loads again, and allows or refuses) and `Save`.
The studio's work is over when the session is created, to keep the two phases
from being multiplied; neither reads what the other changes.

### Resilience

One account, of either kind, for a provider called by several tasks. A call is
admitted, waits, and reports; `sound` is whether the provider was healthy when it
was admitted, so that a late report is about the past. `cooled` abstracts the
clock to whether the cooldown has passed. A guarded stream whose provider has sent its
last event is `finished`: what its client still pushes to it raises, and
`StreamFails` counts it against the provider, be it sound or not.

## Runs

| Run | Configuration | Shows |
|---|---|---|
| `store` | each backend, 2 sessions, 3 requests, 3 saves | `VersionIdentifiesContent`: equal versions mean equal contents, so the version check is enough (no ABA, not even through deletion or a crash); `ConflictIsReal`: a 409 is never spurious; `ImplementsAtomicSession`: no commit is lost or invented |
| `interview` | rules and model, 2 competencies with anchors, 3 questions, ratio 3/5, 2 templates, up to 2 tools, with fairness | whatever the model says and clients open: `AgentToolsWithinPolicy`, `AnchorShareKept` (the planner's share falls short only by what does not reach it), `QuestionsBounded`, `ReplayAgrees`, `InterviewEnds` |
| `evidence` | 2 competencies (3 and 1 items), 2 turns with one correction each, one judge | `StateIsStrongest`, `ConfidenceIsBacked`, `SemanticEvidenceIsCurrent`, `ContradictionIsSticky`, `EvidenceIsKept` |
| `voice_output` | 2 callers, 2 turns, 2 streams of one chunk, 5 versions, 2 saves by others, 1 barge-in counted | `BargeInSilences` (at most the one chunk on its way is late), `StuckOnlyByRefusal` for the bridge; `SpeakingHasTurn`, `BargeInsHappened`, `TurnsAreFenced` for the coordinator under it, although any save may be refused |
| `audio` | 2 frames, 2 sockets, 1 reconnect attempt, 2 in flight, 1 queued, buffer and event queue of 1; speech that falls silent, so that the VAD's endpoint commits too | `CommitIsComplete`, `CursorNeverAhead`, `DetachedIsExpiring`, `DeliversInOrder` (the refinement) |
| `commit_twice` | as `audio` | a violation: `CommitsOnce`, where a commit is retried while the first is awaited |
| `audio_endpoint` | 4 frames, 1 socket, 5 utterances, speech start 2, end silence 1 | `EndpointIsDue`: the incremental VAD against its definition on the whole prefix |
| `webhooks` | 2 writers, 2 subscriptions, 2 attempts, 2 operations, 2 cancellations, exceptions or crashes, with fairness | `PostsAreStored`, `KeyIsBounded`, `AuditIsTrue`, `LostOnlyByCutoff`, `SaveReturns` (if POSTs end) |
| `artifacts` | 2 tasks, 2 artifacts, 6 versions, faults | `MissingOnlyByDeletion`, `UnreferencedIsStray`, `DeletedIsGone`, `ReadIsAudited` |
| `resilience` | 2 callers, threshold 2, 2 attempts, failures counted to 4, 2 changes of the provider, with fairness | `TripsAtThreshold`, `ComesBack` |
| `review` | 2 recruiters, 1 draft, 2 jobs, 2 assignments, 1 appeal, 5 versions | `ApprovalYieldsOneJob` in the studio; `OneActiveAssignment`, `CompletedWasWorked`, `DecidedOnce` |
| `etag_race` | as `review`, with 1 job and 4 versions | a violation: `PreconditionHoldsAtSave` |

The properties above are what could go wrong. Each module has a type invariant
besides. `store` checks that of `SessionStore`; the others are proved, alone or as a
part of the inductive invariant. To check one, name it in the module's `.cfg`.

Deadlock is checked in `store` only. In every other run the system may really
stop: an interview that has ended, a graph or a log at its bounds, a stream that
is closed, a session with its last save made.

Bounds. Three requests are enough for one to be overtaken by a save and a
deletion of two others; three saves let a copy be two versions behind. Three
questions with ratio 3/5 make the planner interfere at the start, in the middle
and at the close; two tools are `MaxTools`, and every one that a client opens takes
the place of one of the interviewer's. Three evidence items are a claim, its judged evidence,
and what replaces it after a correction; the second competency receives
evidence for a turn that was not about it. In `voice_output` two callers and
saves by others make every load of the coordinator stale in turn; two streams let
one be opened while the other ends; the second chunk of a stream meets the same
guard as the first, and is refused by it when the first went out late. In `audio`
(three million states) one cut divides two frames in every way: neither,
one or both sent, received, acknowledged, with the old socket still reading; each
limit is small enough to be reached. Four frames make a start, a gap, an end and
a timeout of an utterance; five utterances stand for the ways to be between. Two
writers of `webhooks` overtake each other between any two awaits, and a delivery
is given up after the second attempt; two cutoffs let both be ended, at any two awaits.
Two tasks of `artifacts` are any pair of
create, read, delete and retain on the same artifact, and the second artifact is
what retention can miss; six versions allow both tasks all their saves. In `review` two
recruiters race for each of the operations, and the second assignment follows a
finished first; the second job is the one that is posted, or approved from the same
draft, meanwhile. A failure count of 4 is twice the
threshold. Symmetry is used where a set of model values is interchangeable and
no liveness is checked. The theorems have none of these bounds, except that the
bounds which are constants stay arbitrary parameters.

Fairness.

- `Interview`: `CandidateStays` is an assumption on the candidate: a pause is
  eventually resumed (weak fairness of `resume`), and a candidate who keeps being
  asked eventually answers (strong fairness, since pauses disable the answer
  again and again). The service has no timer of its own, so nothing weaker ends
  an interview; no fairness of tools, clients or cancellation is assumed.
- `Webhooks`: asyncio runs every task that can run, and the store answers: weak
  fairness of `ReadPrevious`, `Save` and `Record`. That a POST ends is no part of it:
  httpx's timeout (`webhooks.py:168`) bounds each connect, read and write, not the
  whole, so a receiver that trickles its answer holds the POST and the save behind it.
  `SaveReturns` therefore has `PostsEnd` as its hypothesis, in the formula.
- `Resilience`: requests end by their timeout, sleeps end, time passes (weak
  fairness), the application goes on asking, and a stream that is opened again and
  again brings an event before it is closed (strong fairness of `FirstEvent`).
  Nothing is assumed of the provider; `ComesBack` speaks of one that recovers for
  good. Then the breaker closes for good; the registry closes again and again, and is
  opened in between by what is pushed to finished streams.

### Disagreements between code and documentation

Two have a run, and are the findings of `PROJECT.json`:

- `etag_race`: `enforce_session_precondition` (`api.py:266`) compares If-Match with one
  load of the session, and the service loads it again and saves with the version of
  that second load. A save between the two loads is noticed by neither check;
  `docs/CONCURRENCY.md:74-80` says that the compare-and-swap catches it. The two loads
  have an await between them in the SQLite and Postgres stores.
- `commit_twice`: `commit` looks at its flag, awaits the provider and sets the flag
  (`voice_stream_bridge.py:321-326`); a commit that is retried on a new socket while the
  first is awaited reaches the provider again (`docs/VOICE_PROTOCOL.md:281`).

The others are behaviour that the modules contain and that a reader of the
documents would not expect. The properties are stated so that they hold with it:

- `submit_tool` does not consult the planner (`service.py:913`), so a model can close
  the interview there while an anchor is due (`docs/INTERVIEW_PROTOCOL.md:16`). With the
  rule-based brain alone it does not happen (`RulesKeepTheAnchorShare`), and
  `AnchorShareKept` says by how much the share can fall short of its target.
- `submit_tool` accepts a session that was never started (`service.py:811`), whose tool
  a client has opened, and the brain's closing decision completes it; the diagram of
  `docs/SESSION_LIFECYCLE.md:5-17` has no such arrow. The properties of `interview`
  hold with it.
- `POST /v1/jobs` keeps the `rubric_provenance` of its client (`api.py:847-859`,
  `service.py:91-116`), which may name any draft and any approver
  (`docs/RUBRIC_STUDIO.md:86` and `124-129`). `ApprovalYieldsOneJob` speaks of the jobs
  that approvals wrote.
- The question budget of the README (`README.md:171`) can be exceeded: `answer`
  lets a due anchor replace the closing turn without looking at `max_questions`
  (`service.py:278`). `QuestionsBounded` says by how much.
- `submit_tool` completes a paused session and leaves `paused` set
  (`service.py:939`); the replay of its events has it reset
  (`docs/INTERVIEW_PROTOCOL.md:125`). `ReplayAgrees` therefore leaves `paused` out.
- A barge-in whose save is refused is counted in memory and never logged, since
  its retry finds the phase listening (`voice.py:192`, `docs/VOICE_PROTOCOL.md:52`).
  `BargeInsHappened` is the other direction: nothing is logged that did not happen.
- `tts_started` looks at the status it loaded, so a cancellation that is saved and
  closed in between leaves a cancelled session with a speaking voice
  (`voice.py:350`, `docs/SESSION_LIFECYCLE.md:67`).
- The `finally` clause of an expiry task pops the table's entry for its stream,
  whoever's it is (`api.py:1894`): a task that was cancelled late can drop the entry of the
  one that replaced it, which then cannot be cancelled and closes a stream that is
  attached again (`docs/VOICE_PROTOCOL.md:292`). `DetachedIsExpiring` speaks of the
  tasks, not of their table.
- Retention purges the artifacts and then deletes the row without comparing
  versions (`retention.py:118`): an artifact created in between stays in the object
  store without a session (`docs/ARTIFACT_STORAGE.md`: retention "purges active
  encrypted artifacts before deleting the session record"). `UnreferencedIsStray`
  names the case.
- The conflict of the second save of webhook delivery events is swallowed
  (`webhooks.py:342`), so a delivery may have no event (`docs/WEBHOOKS.md:109`).
  `AuditIsTrue` is the other direction. And `except Exception` is not met by a cancelled
  task, whose stored events are then delivered by nobody: `LostOnlyByCutoff` names it.
- `stop` waits for its capture before it queues the last partial frame
  (`web/server_stt.js:623`), and a recovery that ends meanwhile commits without it: the
  bridge then acknowledges the frame and drops it (`voice_stream_bridge.py:252`).
  `CommitIsComplete` names the case (`overtaken`).
- A chunk that `chunks` has yielded waits for the socket (`api.py:1956`) and is
  sent although a barge-in came meanwhile. `BargeInSilences` allows that one.
- A disconnect between `stream_opened` and the creation of the pump (`api.py:2049`),
  whose `tts_cancelled` is refused, leaves a registered stream that nobody releases;
  like a refused `tts_completed`, it refuses every open until the candidate's next
  speech. `StuckOnlyByRefusal` names both.
- What is pushed to a speech session that its provider has finished raises
  (`providers/websocket_speech.py:38`) and counts as the provider's failure
  (`providers/guarded_voice.py:39-74`), so that one client can open the registry's
  circuit of a sound provider. `ComesBack` leaves room for it.

## Theorems

Each theorem speaks of the module's specification with arbitrary constants: any
sets of requests, callers, competencies, artifacts and so on, any bounds. It names
the property that a run checks on a small instance; five type invariants,
`ApprovedHasJob` and `AnchorShareKeptAtClose` are theorems only.

| Module | Theorem | Property |
|---|---|---|
| `SessionStoreProofs` | `StoreTypesAreKept`, `VersionsIdentifyContent`, `ConflictsAreReal` | `TypeOK`, `VersionIdentifiesContent`, `ConflictIsReal` |
| | `StoreImplementsAtomic` | `ImplementsAtomicSession`, the refinement of `AtomicSession` |
| `InterviewProofs` | `QuestionsAreBounded`, `ReplayTellsTheSession`, `AgentToolsKeepToPolicy` | `QuestionsBounded`, `ReplayAgrees`, `AgentToolsWithinPolicy` |
| | `RulesKeepTheAnchorShare` | `AnchorShareKeptAtClose` (of `InterviewProofs`), where the rules are the only brain |
| `EvidenceGraphProofs` | `StatesAreStrongest`, `ConfidencesAreBacked`, `SemanticEvidenceStaysCurrent` | `StateIsStrongest`, `ConfidenceIsBacked`, `SemanticEvidenceIsCurrent` |
| | `ContradictionsAreSticky`, `EvidenceIsNeverDropped` | `ContradictionIsSticky`, `EvidenceIsKept` (of steps) |
| `VoiceOutputProofs` | `SpeakerHasATurn`, `StoredBargeInsHappened`, `ActiveTurnsAreFenced` | `SpeakingHasTurn`, `BargeInsHappened`, `TurnsAreFenced` of the coordinator |
| | `BargeInsSilence`, `StreamsStayOnlyByRefusal` | `BargeInSilences`, `StuckOnlyByRefusal` of the bridge |
| | `OutputTypesAreKept` | `OutputTypeOK`: what is registered was opened and not released |
| `WebhooksProofs` | `WhatIsPostedIsStored`, `KeysAreBounded`, `AuditTellsTheTruth`, `EventsAreLostOnlyByCutoff` | `PostsAreStored`, `KeyIsBounded`, `AuditIsTrue`, `LostOnlyByCutoff` |
| | `WebhookTypesAreKept` | `TypeOK`: the log keeps within `MaxEvents` |
| `ArtifactsProofs` | `BytesAreMissingOnlyByDeletion`, `UnreferencedBytesAreStray`, `DeletedBytesAreGone` | `MissingOnlyByDeletion`, `UnreferencedIsStray`, `DeletedIsGone` |
| | `ReadsAreAudited` | `ReadIsAudited` (of steps) |
| `ReviewProofs` | `ApprovalIsUnique`, `ApprovedDraftsHaveJobs` | `ApprovalYieldsOneJob`, `ApprovedHasJob` of the studio |
| | `ReviewHasOneReviewer`, `CompletedAssignmentsWereWorked`, `ItemsAreDecidedOnce`, `ReviewTypesAreKept` | `OneActiveAssignment`, `CompletedWasWorked`, `DecidedOnce`, `ReviewTypeOK` |
| `AudioStreamProofs` | `StreamIsOrdered` | `DeliversInOrder`, the refinement of `OrderedDelivery` |
| | `CommitsAreComplete`, `CursorsAreBehind`, `DetachedStreamsExpire` | `CommitIsComplete`, `CursorNeverAhead`, `DetachedIsExpiring` |
| | `UtterancesEndInTime` | `EndpointIsDue` |
| | `AudioTypesAreKept` | `TypeOK`: the window of frames in flight and the event queue keep their limits |
| `InterviewProofs` | `BreakerTripsAtThreshold`, `BreakerTypesAreKept` | `TripsAtThreshold`, `BreakerTypeOK` of `Resilience` |

### The store

`VersionIdentifiesContent` is not inductive. A copy that is behind the row today
could, as far as it says, agree with it tomorrow with other content, or match a
row that is created anew under its id. `StoreInv` adds that rows and copies
belong to ids that were issued (`RowsIssued`, `CopiesIssued`), that a draft is
held by one request only and its id was never stored (`DraftsExclusive`, which
is what uuid4 ids give), that no copy is ahead of its row (`CopiesBehind`), and
that a row which SQLite's SELECT found missing under a saved version does not
come back (`MissingStaysMissing`). The refinement maps a row to its payload; an
accepted save is `Create` or `Commit`, deletion and crash are `Remove`, and every
other step stutters.

### The interview

`InterviewInv` adds `EarlyQuestions`: before the start every question was the probe
of a submitted tool. Without it `Start`, which asks without looking at the budget,
could not be shown to keep `QuestionsBounded`. `RulesKeepTheAnchorShare`
assumes `RulesAlone` (`Brains = {"rules"}`), because a model that closes in
`submit_tool` breaks the property: its lemma `RulesComplete` says that the rules complete a
session in one way only, as the answer to a running interview for which no anchor is due.

### The evidence graph

The operations work on one node, so most lemmas are about one node: what `claim`,
`observe`, `recompute` and `supersede` give is `Good` (state and confidence are
those of the strongest active evidence), `Follows` the node it was given (nothing is
dropped, and a contradiction goes only with the judge's evidence for it) and
`Quotes` the current text. `Follows` is transitive, which carries it over the two
findings of a judge's answer and over a correction with its recomputation. That the
maximum which `recompute_node` takes exists is the well-foundedness of the numbers
(`HighestExists`). `SemanticEvidenceIsCurrent` needs `JudgesReadCurrent`: a judge
whose session has not been saved by somebody else since has read the current
revision; without it the answer of a judge that was overtaken by a correction could
be applied.

### The voice

The proofs see the coordinator through `VoiceMove`, what any step of the bridge
does to it: a call loads, returns or takes a step of its own, or somebody else saves
the session. `VoiceInv` is inductive under these moves. It needs that a turn which
is about to become the active one exists (`NamesTurn`), and that a barge-in is
`Pending` from the step that counted it to the save of its own call, so that what is
stored and what is pending (`Counted`) never exceeds what happened, whichever saves
are refused. That finitely many callers have one pending is part of the invariant,
not an assumption on `Callers`.

`BridgeInv` is about three clocks. A stream remembers the generation at its opening
(the code does) and the interruptions at its opening (the history `since`).
`Fenced` relates the two: the interruptions since then are no more than the
generations since then. A chunk is taken from the bridge only when the generation is
still that of the opening, hence nobody interrupted; the barge-in that comes while it
waits for the socket makes it late, and no other is taken after it (`LateIs`):
`BargeInSilences`. `EndingIsReported` ties each stream that is over to the one task that
reports it and releases it; `StuckOnlyByRefusal` follows, and is stated with that task: a
registered stream has its pump, or a socket about to create it, or a caller that
completes or fails it, unless its end was refused. A socket that closes its stream
cancels the pump's task wherever that is (`Drop`), and releases what it would have
released. The entry of a session is a registered stream (`EntryIsSound`): opening sets
entry and registration together, and a release clears the entry if it names its stream.

### Webhooks

The log only grows, because a copy that the version check accepts extends it
(`CopyIsCurrent`). So what is being posted stays stored under its number
(`TodoIsStored`), and the new events of an accepted save lie beyond everything
that was posted before (`BeyondLogUntried`), although "what was stored before" was
read in another await: the version that was loaded still being current means that
nothing was saved since. No two writers make one delivery (`TodoIsOwn`), and only
the one that is due has been tried (`TodoIsUntried`); that bounds the posts of a key.
What a task that is cut off had to post goes to `dropped` in the same step, that of a
cancelled save included whose thread commits after all, which is all that
`LostOnlyByCutoff` needs beside these.

`KeyIsBounded` counts the posts of the numbers up to `MaxEvents`, so it means what it
says only if the log has no others. `LogFits` shows that: every operation has
room for its own event and one delivery event per subscription, and a copy that is
current differs from the stored log by one event at most, so neither the operations nor
the deliveries under way can use the room of another (`WebhookTypesAreKept`).

### Artifacts

Versions alone would not do: objects are put and removed outside of the session.
`ArtifactsInv` adds that an artifact belongs to one creation and is in no metadata
before it is saved (`CreatedByOne`, `CreatedIsNew`: uuid4 ids), that the object is
put before the metadata and removed before it (`ObjectFirst`), and that a token
names an artifact of the session (`TokensAreNamed`). Without `CreatedByOne` the
cleanup of one creation could remove the bytes of another. `ReadIsAudited` is where
the version does the work: a read checks the metadata in one step, fetches the
object in another and saves its audit event in a third, and `ReadsAreSeen` says that
as long as the copy's version is current, what it saw as live is live.

### Review and studio

Neither property of the studio is inductive alone: a commit finds its id free
because approved drafts have jobs, and its draft unapproved because jobs that approvals
wrote are theirs (`RubricInv`). Nothing is said of jobs that were posted; and a step of
the review is one of the studio or leaves its tables alone (`ReviewIncludesRubric`), so
that what is proved of the studio holds beside the review.

The review is the argument for optimistic concurrency, in one session. `Apply` checks
`Allows` on a copy, and `Save` changes the row when its version is still that of
the copy. `StillAllowed` in `ReviewInv` says that what was allowed at that
version is allowed as long as the version is current; every step that changes
the session moves the version past the copies, so a save finds what its check
found. Without it a second `assign` could not be excluded. `LogInv` says how the
events of an assignment tell its status (`Told`), and those of an appeal or a signal
(`Decided`).

### The audio stream

None of the properties is inductive: each speaks of one end of a stream whose other
end, links and old sockets hold copies of the same frames and numbers. `AudioInv`
says where they may be.

- `Fed`: the provider has the frames 1 to `Len(audio)`, which is what the manager has
  accepted as long as the provider is up and nothing is committed; a socket that
  awaits `push_audio` holds one of them.
- `Numbers`: frames in flight are those from the client's last acknowledgement to its
  next number, queued ones follow without a gap, and the server's next number lies
  between the two. So neither a replay nor a late copy on an old link can skip a
  frame. Frames are dropped only when nobody waits for them any more.
- `ServerMail`: a chunk on a link carries the frame of its number, a reconnect asks for
  no more than what was accepted, and a commit is sent when everything was.
- `ClientMail` and `Unread`: an acknowledgement names no more than its socket has
  accepted (`Floor`, which counts a push that is awaited), the acknowledgements on a link
  do not decrease, and those the client has not read acknowledge no less than those it has.
  Without it an acknowledgement read late would give up frames that are
  still needed, which is why the model needs links that keep their order and a client
  that reads one link only.
- `Opening`, `Lives`: until the client has read `opened`, nothing else has happened;
  and which flags of stream, sockets and timers imply each other.
- `Commits`: a client that drains or has committed captures no more, except the last
  frame of a `stop` that waits for its capture. `Expected` counts that frame before it is
  queued, and `Late` is what `overtaken` excuses: an ordinary commit reached the provider
  when nothing was expected any more.

Each handler is shown to be a `ServerStep` or a `ClientStep`: it takes nothing back
that a message on a link relies on (`Advances`), and what it sends is sound. The
lemmas `ServerMailStep` and `ClientMailStep` then keep everything that is on the
links, cut or not. `StreamIsOrdered` follows step by step: `Capture`, an accepted
chunk and the end of a commit are the steps of `OrderedDelivery`, and every other step
stutters. `DetachedIsExpiring` is inductive beside `AudioInv`: a socket that leaves an
attached stream schedules a timer, and only what attaches or closes cancels one.

`EndpointIsDue` compares what the incremental VAD has counted with a definition on all
the frames it has heard. `Hears` gives its counters their meaning: before speech,
`candidate` is the number of loud frames that the prefix ends with (`Trails`) and no run
was long enough; in speech, which started with one certain frame (`Starts`), `silence` is
the number of quiet frames it ends with, `utterance` how long the speech lasts, and no
earlier frame was its end (`Stops`). Which prefix has been heard is the other half: the
provider has a frame before the VAD does, so `Awaited` says that the frames between are
held one each by the sockets that await a push, which makes their number `Buffered`.
`Listens` joins the two and is inductive beside `AudioInv`.

The limits in `TypeOK` are `AudioTypesAreKept`. The window follows from `Numbers`: what
is in flight is the interval from the last acknowledgement to the next number, and
`flushFrames` takes no more than leaves that interval within `maxInFlight`, also after a
reconnect has put the unacknowledged frames back into the queue. `Fits` adds the rest,
among it that the pump puts an event only where there is room, its end marker included.

### Resilience

`TripsAtThreshold` is inductive together with the types of the account; one lemma
for each of the three operations on it. `BreakerTypesAreKept` adds the calls: only one
that has an attempt left backs off, so that no call counts beyond `max_attempts`.

### Assumptions, and what is only model-checked

The proofs assume only the named ASSUMEs of the modules, which TLC evaluates in the
runs: `StoreAssumption`, `AbsentAssumption`, `JobAssumption`, `EvidenceAssumption`
(confidences are between 0 and 1, and full confidence is one of them),
`VoiceAssumption`, `OutputAssumption`, `RubricAssumption`, `ReviewAssumption`,
`ResilienceAssumption`, `ArtifactAssumption`, `WebhookAssumption` (the subscriptions,
a tuple in the code, are finitely many), `AudioAssumption`; and, for
`RulesKeepTheAnchorShare`, `RulesAlone`. No theorem has another hypothesis.

Only model-checked are `InterviewEnds`, `SaveReturns` and `ComesBack`, since liveness
under fairness is out of the prover's reach, and `AnchorShareKept`, which sums the
follow-ups over the competencies with a recursive fold. Every other property of a passing
run is proved.

`PreconditionHoldsAtSave` and `CommitsOnce` are false: TLC shows it.

## Not modelled

- The audit chain, authentication and authorization, configuration, metrics, the
  operating system's sandbox, exports and rendering: they hold no state that a
  property is about, or what they guarantee is that of a hash or of the operating
  system.
- The wire formats of the speech and model providers: what a provider may do is
  modelled where it is used.
- The playback queue of `web/server_tts.js`; the review queue, summary and report,
  which are functions of a loaded session; the ensemble's vote and the evaluators'
  scoring, which are left nondeterministic; the private state of coding
  challenges.
- A restart of the process in `Voice` and `AudioStream`, where it resets
  everything that is modelled; `SessionStore`, `Webhooks` and `Artifacts` have it.
- That a stream of `AudioStream` recovers or closes in the end: it does not always
  (`voice_stream_bridge.py:234`: with a full event queue and no socket reading,
  `close` waits for the pump and the pump for room), and the fairness under which
  the rest does would be that of the network.
- A spurious recovery of the browser when an earlier socket closes late
  (`web/server_stt.js:148`), see `AudioStream` above.
- The floating-point product of the anchor budget: TLA+ has no floating point.
