---------------------------- MODULE AudioStream ----------------------------
(***************************************************************************)
(* The microphone's way to the speech provider: the browser client         *)
(* (server_stt.js) numbers frames and replays them after a cut, the audio  *)
(* socket (api.py) runs one coroutine per WebSocket, AudioStreamManager    *)
(* keeps the sequence, VoiceStreamBridge feeds the provider, watches its   *)
(* energy VAD and queues what the provider recognises, and a timer closes  *)
(* a stream nobody came back for.                                          *)
(*                                                                         *)
(* One stream is followed from its opening.  Sockets are numbered in the   *)
(* order the client connects them; each end notices a cut later, on its    *)
(* own.  Messages that change the display only (partial transcripts,       *)
(* stream_committed) are not put on the links.                             *)
(***************************************************************************)
EXTENDS Integers, Sequences, FiniteSets

CONSTANTS MaxFrames,       \* frames the microphone yields
          MaxInFlight,     \* frames sent and not acknowledged (maxInFlight)
          MaxQueued,       \* frames kept while disconnected (maxQueuedFrames)
          MaxSockets,      \* WebSockets the client connects
          MaxAttempts,     \* reconnect attempts (maxReconnectAttempts)
          MaxBuffered,     \* frames in the server's buffer (max_buffered_bytes)
          EventQueueSize,  \* events waiting for a socket (event_queue_size)
          SpeechStart, EndSilence, MaxUtterance,  \* VAD settings, in frames
          Profiles         \* the loudness of the frames, as sequences

ASSUME AudioAssumption ==
  /\ {MaxFrames, MaxInFlight, MaxSockets, MaxAttempts, MaxBuffered, EventQueueSize,
      SpeechStart, EndSilence, MaxUtterance} \subseteq Nat \ {0}
  /\ MaxQueued \in Nat
  /\ \A p \in Profiles : /\ DOMAIN p = 1..MaxFrames
                         /\ \A f \in DOMAIN p : p[f] \in {"loud", "between", "quiet"}

Sockets == 1..MaxSockets
NoSocket == 0

VARIABLES level,     \* loudness of each frame, chosen once
          captured,  \* frames the microphone has yielded to the queue
          client,    \* NoraServerSttClient
          link,      \* the two directions of each WebSocket
          sock,      \* the audio_socket coroutine of each WebSocket
          stream,    \* _StreamRecord and _ProviderStream
          provider,  \* the upstream STT session
          expiry,    \* _audio_expiry_tasks and the tasks themselves
          overtaken  \* for the properties only: a recovery has committed while stop
                     \* still waited for its capture to close

vars == <<level, captured, client, link, sock, stream, provider, expiry, overtaken>>
serverVars == <<sock, stream, provider, expiry>>
microphone == <<level, captured, overtaken>>

-----------------------------------------------------------------------------
(* Messages and links *)

Msg(type, seq, arg) == [type |-> type, seq |-> seq, arg |-> arg]

\* A message put on a link that is not up is lost; the sender does not know.
ToServer(l, c, ms) ==
  [i \in Sockets |-> IF i = c /\ l[i].state = "up"
                     THEN [l[i] EXCEPT !.toServer = @ \o ms] ELSE l[i]]
ToClient(l, c, ms) ==
  [i \in Sockets |-> IF i = c /\ l[i].state = "up"
                     THEN [l[i] EXCEPT !.toClient = @ \o ms] ELSE l[i]]
ServerTook(l, c) == [l EXCEPT ![c].toServer = Tail(@)]
ClientTook(l, c) == [l EXCEPT ![c].toClient = Tail(@)]

\* The client closes the socket: what it sent still arrives.
ClientHangs(l, c) ==
  [i \in Sockets |-> IF i = c THEN [l[i] EXCEPT !.state = "cut", !.toClient = <<>>]
                     ELSE l[i]]
\* The server closes the socket: what it sent still arrives.
ServerHangs(l, c) == [l EXCEPT ![c].state = "cut", ![c].toServer = <<>>]

-----------------------------------------------------------------------------
(* The energy VAD *)

NewVad == [speaking |-> FALSE, ended |-> FALSE, candidate |-> 0,
           utterance |-> 0, silence |-> 0]

HearWaiting(v, l) ==
  IF l # "loud" THEN [v EXCEPT !.candidate = 0]
  ELSE IF v.candidate + 1 < SpeechStart THEN [v EXCEPT !.candidate = @ + 1]
  ELSE [v EXCEPT !.candidate = @ + 1, !.speaking = TRUE,
                 !.utterance = v.candidate + 1, !.silence = 0]

\* Defect: the threshold of speech decides on silence too.
HearNoHysteresis(v, l) ==
  LET silence == IF l = "loud" THEN 0 ELSE v.silence + 1
  IN  [v EXCEPT !.utterance = @ + 1, !.silence = silence,
                !.ended = v.utterance + 1 >= MaxUtterance \/ silence >= EndSilence]
HearSpeaking(v, l) ==
  LET silence == IF l = "quiet" THEN v.silence + 1 ELSE 0
  IN  [v EXCEPT !.utterance = @ + 1, !.silence = silence,
                !.ended = v.utterance + 1 >= MaxUtterance \/ silence >= EndSilence]

Observed(v, l) == IF v.ended THEN v
                  ELSE IF v.speaking THEN HearSpeaking(v, l) ELSE HearWaiting(v, l)

-----------------------------------------------------------------------------
(* The expiry timers of api.py; a socket starts at most one, so the task   *)
(* has the socket's number.                                                *)

ExpiryCancelled(ex) ==
  [entry |-> NoSocket,
   tasks |-> [t \in Sockets |-> IF t = ex.entry /\ ex.tasks[t] \in {"sleeping", "closing"}
                                THEN "finishing" ELSE ex.tasks[t]]]

ExpiryScheduled(ex, c) ==
  [entry |-> c, tasks |-> [ExpiryCancelled(ex).tasks EXCEPT ![c] = "sleeping"]]

\* Defect: only a cut schedules the expiry, not an error.
AbandonedByCut(c) ==
  IF sock[c].attached /\ link[c].state = "cut" THEN ExpiryScheduled(expiry, c) ELSE expiry

\* What a socket that ends leaves behind.
Abandoned(c) == IF sock[c].attached THEN ExpiryScheduled(expiry, c) ELSE expiry

-----------------------------------------------------------------------------
(* The bridge's provider pump; holding is what it is about to queue.        *)

PumpCancelled(st) ==
  IF st.pump \in {"none", "done"} THEN st
  ELSE IF st.pump = "ending" /\ st.holding = <<"END">>
  THEN [st EXCEPT !.pump = "done", !.holding = <<>>]
  ELSE [st EXCEPT !.pump = "ending", !.holding = <<"END">>]

\* VoiceStreamBridge.close, up to waiting for the pump.
BridgeClosed(st) ==
  LET closed == [st EXCEPT !.closed = TRUE, !.record = FALSE]
  IN  IF st.record THEN PumpCancelled(closed) ELSE closed

-----------------------------------------------------------------------------
(* The client's queue, and its map from sequence numbers to frames in flight *)

Sendable(cl) ==
  IF cl.ws = NoSocket \/ ~cl.sid THEN 0
  ELSE LET pending == Cardinality(DOMAIN cl.inFlight)
           room == IF pending < MaxInFlight THEN MaxInFlight - pending ELSE 0
       IN  IF Len(cl.queue) < room THEN Len(cl.queue) ELSE room

\* flushFrames gives the next frames of the queue the next sequence numbers.
Numbered(cl) == cl.next..(cl.next + Sendable(cl) - 1)

Flushed(cl) ==
  [cl EXCEPT !.queue = SubSeq(@, Sendable(cl) + 1, Len(@)),
             !.inFlight = [s \in DOMAIN cl.inFlight \cup Numbered(cl) |->
                             IF s \in Numbered(cl) THEN cl.queue[s - cl.next + 1]
                             ELSE cl.inFlight[s]],
             !.next = @ + Sendable(cl)]

Chunks(cl) == [i \in 1..Sendable(cl) |-> Msg("chunk", cl.next + i - 1, cl.queue[i])]

\* The client's state becomes cl after flushFrames has sent what it can.
Flush(l, cl) == /\ client' = Flushed(cl)
                /\ link' = ToServer(l, cl.ws, Chunks(cl))

\* resetStreamState.
Reset(cl) == [cl EXCEPT !.sid = FALSE, !.queue = <<>>, !.inFlight = <<>>,
                        !.next = 0, !.acked = 0]

\* fail: the capture ends and the stream is forgotten, the socket is kept.
Failed(cl) == [Reset(cl) EXCEPT !.mode = "idle"]

\* reconcileAfterReconnect: replay what the server has not accepted.
Unaccepted(cl, next) == {s \in DOMAIN cl.inFlight : s >= next}
Nth(i, S) == CHOOSE s \in S : Cardinality({r \in S : r < s}) = i - 1
Frames(cl, S) == [i \in 1..Cardinality(S) |-> cl.inFlight[Nth(i, S)]]
Reconciled(cl, next) ==
  [cl EXCEPT !.queue = Frames(cl, Unaccepted(cl, next)) \o @,
             !.inFlight = <<>>, !.acked = next, !.next = next]

\* recoverSocket's catch: hang up and try again, or give up.
AttemptFailed(cl) ==
  IF cl.attempt < MaxAttempts
  THEN [cl EXCEPT !.ws = NoSocket, !.recovery = "connecting", !.attempt = @ + 1]
  ELSE [Failed(cl) EXCEPT !.ws = NoSocket, !.recovery = "no", !.attempt = 0]

StartRecovery(cl) == [cl EXCEPT !.recovery = "connecting", !.attempt = 1]

-----------------------------------------------------------------------------
(* Initial state: the client has connected, asked for a stream, and waits.  *)

Init ==
  /\ level \in Profiles
  /\ captured = 0
  /\ client = [mode |-> "opening", sid |-> FALSE, queue |-> <<>>, inFlight |-> <<>>,
               next |-> 0, acked |-> 0, ws |-> 1, recovery |-> "no", attempt |-> 0,
               stopping |-> "no"]
  /\ link = [c \in Sockets |->
               [state |-> IF c = 1 THEN "up" ELSE "new",
                toServer |-> IF c = 1 THEN <<Msg("open", 0, 0)>> ELSE <<>>,
                toClient |-> <<>>]]
  /\ sock = [c \in Sockets |-> [alive |-> c = 1, attached |-> FALSE, busy |-> "no",
                                frame |-> 0, seq |-> 0, pump |-> FALSE]]
  /\ stream = [opened |-> FALSE, told |-> FALSE, closed |-> FALSE, record |-> FALSE,
               next |-> 0, committed |-> FALSE, vad |-> NewVad, queue |-> <<>>,
               pump |-> "none", holding |-> <<>>]
  /\ provider = [up |-> FALSE, audio |-> <<>>, commits |-> 0]
  /\ expiry = [entry |-> NoSocket, tasks |-> [t \in Sockets |-> "none"]]
  /\ overtaken = FALSE

-----------------------------------------------------------------------------
(* The client *)

Capture ==
  /\ client.mode = "active" /\ captured < MaxFrames
  /\ captured' = captured + 1
  /\ LET queued == [client EXCEPT !.queue = Append(@, captured + 1)]
     IN  \/ /\ Len(queued.queue) <= MaxQueued
            /\ Flush(link, queued)
         \/ /\ Len(queued.queue) > MaxQueued
            /\ client' = Failed(queued)
            /\ UNCHANGED link
  /\ UNCHANGED <<level, overtaken, serverVars>>

\* stop, up to its wait for the capture to close.
Stop ==
  /\ client.mode = "active"
  /\ client' = [client EXCEPT !.mode = "committing", !.stopping = "capture"]
  /\ UNCHANGED <<microphone, link, serverVars>>

\* The capture has closed: stop queues what pendingPcm holds of a last frame, if any
\* (resetStreamState empties it), and goes on to flushAndCommit.
CaptureStops ==
  /\ client.stopping = "capture"
  /\ LET closed == [client EXCEPT !.stopping = "flush"]
     IN  \/ /\ client.sid /\ captured < MaxFrames
            /\ captured' = captured + 1
            /\ Flush(link, [closed EXCEPT !.queue = Append(@, captured + 1)])
         \/ /\ client' = closed
            /\ UNCHANGED <<captured, link>>
  /\ UNCHANGED <<level, overtaken, serverVars>>

\* Defect: what was sent counts as delivered.
QueueSent(cl) == cl.queue = <<>>
Drained(cl) == cl.queue = <<>> /\ DOMAIN cl.inFlight = {}
Online(cl) == cl.ws # NoSocket /\ cl.sid

\* flushAndCommit has drained: commit, or reconnect first.
StopCommits ==
  /\ client.stopping = "flush" /\ Drained(client)
  /\ LET done == [client EXCEPT !.stopping = "no"]
     IN  client' = IF ~Online(client) /\ client.recovery = "no"
                   THEN StartRecovery(done) ELSE done
  /\ link' = IF Online(client) THEN ToServer(link, client.ws, <<Msg("commit", 0, 0)>>) ELSE link
  /\ UNCHANGED <<microphone, serverVars>>

\* recoverSocket's flushAndCommit, which does not wait for stop.
RecoveryCommits ==
  /\ client.recovery = "flushing" /\ Drained(client)
  /\ client' = [client EXCEPT !.recovery = "no", !.attempt = 0]
  /\ link' = IF Online(client) THEN ToServer(link, client.ws, <<Msg("commit", 0, 0)>>) ELSE link
  /\ overtaken' = (overtaken \/ (client.stopping = "capture" /\ Online(client)))
  /\ UNCHANGED <<level, captured, serverVars>>

\* waitForDrain polls flushFrames.
Poll ==
  /\ client.stopping = "flush" \/ client.recovery = "flushing"
  /\ Sendable(client) > 0
  /\ Flush(link, client)
  /\ UNCHANGED <<microphone, serverVars>>

\* cancel: by the user, or by stop when its audio is not acknowledged in time.
CancelCapture(cl) ==
  /\ client' = [Reset(cl) EXCEPT !.mode = "idle"]
  /\ link' = IF Online(cl) THEN ToServer(link, cl.ws, <<Msg("close", 0, 0)>>) ELSE link
  /\ UNCHANGED <<microphone, serverVars>>

UserCancel == client.mode \in {"active", "committing"} /\ CancelCapture(client)

StopTimesOut == /\ client.stopping = "flush" /\ ~Drained(client)
                /\ CancelCapture([client EXCEPT !.stopping = "no"])

\* The open request timed out in the client; its answer may still come.
OpenTimesOut ==
  /\ client.mode = "opening"
  /\ client' = [client EXCEPT !.mode = "idle"]
  /\ UNCHANGED <<microphone, link, serverVars>>

RetryOrGiveUp == /\ client' = AttemptFailed(client)
                 /\ link' = ClientHangs(link, client.ws)
                 /\ UNCHANGED <<microphone, serverVars>>

\* Defect: the client asks to go on from what it has sent.
SentCursor(cl) == cl.next

\* The sequence the client asks to go on from: the server's last answer.
Cursor(cl) == cl.acked

\* One attempt of recoverSocket: connect and ask for the stream.
Connect(c) ==
  /\ client.recovery = "connecting" /\ client.sid
  /\ link[c].state = "new" /\ \A d \in Sockets : d < c => link[d].state # "new"
  /\ client' = [client EXCEPT !.ws = c, !.recovery = "reconnecting"]
  /\ link' = [link EXCEPT ![c] = [state |-> "up", toClient |-> <<>>,
                                  toServer |-> <<Msg("reconnect", Cursor(client), 0)>>]]
  /\ sock' = [sock EXCEPT ![c].alive = TRUE]
  /\ UNCHANGED <<microphone, stream, provider, expiry>>

ConnectFails == client.recovery = "connecting" /\ RetryOrGiveUp
ReconnectTimesOut == client.recovery = "reconnecting" /\ RetryOrGiveUp
FlushTimesOut == client.recovery = "flushing" /\ ~Drained(client) /\ RetryOrGiveUp

\* onclose.
NoticeCut ==
  /\ client.ws # NoSocket
  /\ link[client.ws].state = "cut" /\ link[client.ws].toClient = <<>>
  /\ LET lost == [client EXCEPT !.ws = NoSocket]
     IN  client' = IF client.mode \in {"active", "committing"} /\ client.recovery = "no"
                   THEN IF client.sid THEN StartRecovery(lost) ELSE Failed(lost)
                   ELSE lost
  /\ UNCHANGED <<microphone, link, serverVars>>

Arrives(type) ==
  /\ client.ws # NoSocket /\ link[client.ws].toClient # <<>>
  /\ Head(link[client.ws].toClient).type = type
Arrived == Head(link[client.ws].toClient)
Took == ClientTook(link, client.ws)

OnOpened ==
  /\ Arrives("opened")
  /\ client' = [client EXCEPT !.sid = TRUE,
                  !.mode = IF @ = "opening" THEN "active" ELSE @]
  /\ link' = Took
  /\ UNCHANGED <<microphone, serverVars>>

Acknowledged(cl, next) ==
  [cl EXCEPT !.acked = next, !.inFlight = [s \in Unaccepted(cl, next) |-> cl.inFlight[s]]]

\* chunk_ack: an endpoint found by the VAD ends the utterance and drops the queue.
OnAck ==
  /\ Arrives("ack")
  /\ LET cl == Acknowledged(client, Arrived.seq)
     IN  \/ /\ Arrived.arg = 1 /\ client.mode = "active"
            /\ client' = [cl EXCEPT !.mode = "committing", !.queue = <<>>]
            /\ link' = Took
         \/ /\ ~(Arrived.arg = 1 /\ client.mode = "active")
            /\ Flush(Took, cl)
  /\ UNCHANGED <<microphone, serverVars>>

\* stream_reconnected: recoverSocket goes on to flush, or to flush and commit; the
\* flush that replays the frames is in the same turn of the event loop.
OnReconnected ==
  /\ Arrives("reconnected")
  /\ LET cl == Reconciled(client, Arrived.seq)
     IN  \/ /\ client.mode = "committing"
            /\ Flush(Took, [cl EXCEPT !.recovery = "flushing"])
         \/ /\ client.mode # "committing"
            /\ Flush(Took, [cl EXCEPT !.recovery = "no", !.attempt = 0])
  /\ UNCHANGED <<microphone, serverVars>>

OnFinal ==
  /\ Arrives("final")
  /\ client' = [client EXCEPT !.mode = "idle"]
  /\ link' = IF client.sid THEN ToServer(Took, client.ws, <<Msg("close", 0, 0)>>) ELSE Took
  /\ UNCHANGED <<microphone, serverVars>>

OnClosed ==
  /\ Arrives("closed")
  /\ client' = Reset(client)
  /\ link' = Took
  /\ UNCHANGED <<microphone, serverVars>>

OnError ==
  /\ Arrives("error")
  /\ \/ /\ client.recovery = "reconnecting"
        /\ client' = AttemptFailed(client)
        /\ link' = ClientHangs(Took, client.ws)
     \/ /\ client.recovery # "reconnecting"
        /\ client' = Failed(client)
        /\ link' = Took
  /\ UNCHANGED <<microphone, serverVars>>

ClientReceives == OnOpened \/ OnAck \/ OnReconnected \/ OnFinal \/ OnClosed \/ OnError

-----------------------------------------------------------------------------
(* The audio socket: one coroutine per WebSocket, one message at a time.    *)

Closed(s, keepPump) == [s EXCEPT !.alive = FALSE, !.attached = FALSE, !.busy = "no", !.frame = 0,
                                 !.seq = 0, !.pump = @ /\ keepPump]

\* A handled error: the client is told, and an attached stream starts to expire.
Refuse(c, l) ==
  /\ sock' = [sock EXCEPT ![c] = Closed(@, FALSE)]
  /\ link' = ServerHangs(ToClient(l, c, <<Msg("error", 0, 0)>>), c)
  /\ expiry' = Abandoned(c)

\* Any other exception leaves audio_socket at once: no expiry is scheduled and
\* the event task is not cancelled.
Die(c, l) ==
  /\ sock' = [sock EXCEPT ![c] = Closed(@, TRUE)]
  /\ link' = ServerHangs(l, c)
  /\ UNCHANGED expiry

Waiting(c) == sock[c].alive /\ sock[c].busy = "no"
Heard(c, type) == Waiting(c) /\ link[c].toServer # <<>> /\ Head(link[c].toServer).type = type
Request(c) == Head(link[c].toServer)

\* VoiceStreamBridge.open and cancel_active.  What fails after the stream was
\* registered leaves it registered: the transport_selected save, before the
\* provider's session is known to the bridge, or the cancellation of playback.
Open(c) ==
  /\ Heard(c, "open")
  /\ LET l == ServerTook(link, c)
         registered == [stream EXCEPT !.opened = TRUE]
         bridged == [registered EXCEPT !.record = TRUE, !.pump = "running"]
     IN  \/ /\ stream' = [bridged EXCEPT !.told = TRUE]
            /\ provider' = [provider EXCEPT !.up = TRUE]
            /\ sock' = [sock EXCEPT ![c].attached = TRUE, ![c].pump = TRUE]
            /\ link' = ToClient(l, c, <<Msg("opened", 0, 0)>>)
            /\ UNCHANGED expiry
         \/ /\ stream' \in {registered, bridged}
            /\ provider' = [provider EXCEPT !.up = TRUE]
            /\ Refuse(c, l)
         \/ /\ Refuse(c, l) \/ Die(c, l)
            /\ UNCHANGED <<stream, provider>>
  /\ UNCHANGED <<microphone, client>>

Reconnect(c) ==
  /\ Heard(c, "reconnect")
  /\ LET l == ServerTook(link, c)
     IN  \/ /\ ~stream.closed /\ Request(c).seq <= stream.next
            /\ sock' = [sock EXCEPT ![c].attached = TRUE, ![c].pump = TRUE]
            /\ expiry' = ExpiryCancelled(expiry)
            /\ link' = ToClient(l, c, <<Msg("reconnected", stream.next, 0)>>)
         \/ /\ stream.closed \/ Request(c).seq > stream.next
            /\ Refuse(c, l)
  /\ UNCHANGED <<microphone, client, stream, provider>>

Buffered == Cardinality({c \in Sockets : sock[c].busy = "push"})
Ack(next, recommended) == Msg("ack", next, IF recommended THEN 1 ELSE 0)

\* Defect: a chunk from beyond a gap is accepted.
IsNew(c) == Request(c).seq >= stream.next
IsNext(c) == Request(c).seq = stream.next

\* A chunk the manager does not accept: answered again, or an error.
ChunkRefused(c) ==
  /\ Heard(c, "chunk")
  /\ LET l == ServerTook(link, c)
     IN  \/ /\ ~stream.closed /\ Request(c).seq < stream.next
            /\ link' = ToClient(l, c, <<Ack(stream.next, FALSE)>>)
            /\ UNCHANGED <<sock, expiry>>
         \/ /\ \/ stream.closed
               \/ Request(c).seq > stream.next
               \/ IsNext(c) /\ Buffered >= MaxBuffered
            /\ Refuse(c, l)
  /\ UNCHANGED <<microphone, client, stream, provider>>

\* accept_chunk, then push_chunk up to the provider's answer: after the commit
\* the audio is acknowledged and dropped, and a dead provider session raises.
ChunkAccepted(c) ==
  /\ Heard(c, "chunk")
  /\ ~stream.closed /\ IsNext(c) /\ Buffered < MaxBuffered
  /\ stream' = [stream EXCEPT !.next = @ + 1]
  /\ LET l == ServerTook(link, c)
     IN  \/ /\ stream.committed
            /\ link' = ToClient(l, c, <<Ack(stream.next + 1, FALSE)>>)
            /\ UNCHANGED <<sock, provider, expiry>>
         \/ /\ ~stream.committed /\ provider.up
            /\ provider' = [provider EXCEPT !.audio = Append(@, Request(c).arg)]
            /\ sock' = [sock EXCEPT ![c].busy = "push", ![c].frame = Request(c).arg,
                                    ![c].seq = Request(c).seq]
            /\ link' = l
            /\ UNCHANGED expiry
         \/ /\ ~stream.committed /\ ~provider.up
            /\ Die(c, l)
            /\ UNCHANGED provider
  /\ UNCHANGED <<microphone, client>>

\* The provider took the audio (its send lock is first come, first served); the
\* VAD hears it.  A stream closed meanwhile has nothing left to acknowledge.
PushDone(c) ==
  /\ sock[c].busy = "push"
  /\ \A d \in Sockets : sock[d].busy = "push" => sock[c].seq <= sock[d].seq
  /\ LET vad == Observed(stream.vad, level[sock[c].frame])
     IN  \/ /\ provider.up /\ ~stream.closed
            /\ stream' = [stream EXCEPT !.vad = vad]
            /\ sock' = [sock EXCEPT ![c].busy = IF vad.ended THEN "endpoint" ELSE "no",
                                    ![c].frame = 0, ![c].seq = 0]
            /\ link' = ToClient(link, c, <<Ack(sock[c].seq + 1, vad.ended)>>)
            /\ UNCHANGED expiry
         \/ /\ ~provider.up \/ stream.closed
            /\ Die(c, link)
            /\ UNCHANGED stream
  /\ UNCHANGED <<microphone, client, provider>>

\* VoiceStreamBridge.commit, up to the provider's answer.
BeginCommit(c, l) ==
  \/ /\ stream.record /\ stream.committed
     /\ link' = l
     /\ sock' = [sock EXCEPT ![c].busy = "no"]
     /\ UNCHANGED <<provider, expiry>>
  \/ /\ stream.record /\ ~stream.committed /\ provider.up
     /\ sock' = [sock EXCEPT ![c].busy = "commit"]
     /\ provider' = [provider EXCEPT !.commits = @ + 1]
     /\ link' = l
     /\ UNCHANGED expiry
  \/ /\ ~stream.record \/ (~stream.committed /\ ~provider.up)
     /\ Die(c, l)
     /\ UNCHANGED provider

Commit(c) ==
  /\ Heard(c, "commit")
  /\ BeginCommit(c, ServerTook(link, c))
  /\ UNCHANGED <<microphone, client, stream>>

\* The VAD recommended a commit: vad_endpoint logs it, unless its save is refused.
Endpoint(c) ==
  /\ sock[c].busy = "endpoint"
  /\ \/ BeginCommit(c, link)
     \/ Refuse(c, link) /\ UNCHANGED provider
  /\ UNCHANGED <<microphone, client, stream>>

CommitDone(c) ==
  /\ sock[c].busy = "commit"
  /\ \/ /\ provider.up
        /\ stream' = [stream EXCEPT !.committed = TRUE]
        /\ sock' = [sock EXCEPT ![c].busy = "no"]
        /\ UNCHANGED <<link, expiry>>
     \/ /\ ~provider.up
        /\ Die(c, link)
        /\ UNCHANGED stream
  /\ UNCHANGED <<microphone, client, provider>>

CloseBridge == /\ stream' = BridgeClosed(stream)
               /\ provider' = [provider EXCEPT !.up = @ /\ ~stream.record]

\* The provider's session could not be told that it is closed: it is closed, and the
\* exception leaves the pump to find out.
CloseBridgeFails == /\ stream.record
                    /\ stream' = [stream EXCEPT !.closed = TRUE, !.record = FALSE]
                    /\ provider' = [provider EXCEPT !.up = FALSE]

Close(c) ==
  /\ Heard(c, "close")
  /\ LET l == ServerTook(link, c)
     IN  \/ /\ ~sock[c].attached
            /\ link' = ToClient(l, c, <<Msg("closed", 0, 0)>>)
            /\ UNCHANGED <<sock, stream, provider, expiry>>
         \/ /\ sock[c].attached
            /\ CloseBridge
            /\ expiry' = ExpiryCancelled(expiry)
            /\ sock' = [sock EXCEPT ![c].busy = "close"]
            /\ link' = l
         \/ /\ sock[c].attached
            /\ CloseBridgeFails
            /\ expiry' = ExpiryCancelled(expiry)
            /\ sock' = [sock EXCEPT ![c] = Closed(@, TRUE)]
            /\ link' = ServerHangs(l, c)
  /\ UNCHANGED <<microphone, client>>

\* close has waited for the cancelled pump.
CloseDone(c) ==
  /\ sock[c].busy = "close" /\ stream.pump = "done"
  /\ sock' = [sock EXCEPT ![c].busy = "no", ![c].attached = FALSE, ![c].pump = FALSE]
  /\ link' = ToClient(link, c, <<Msg("closed", 0, 0)>>)
  /\ UNCHANGED <<microphone, client, stream, provider, expiry>>

\* The coroutine reads the end of a cut link.
Disconnect(c) ==
  /\ Waiting(c) /\ link[c].state = "cut" /\ link[c].toServer = <<>>
  /\ sock' = [sock EXCEPT ![c] = Closed(@, FALSE)]
  /\ expiry' = Abandoned(c)
  /\ UNCHANGED <<microphone, client, link, stream, provider>>

\* pump_events: the sockets of a stream share one queue.  What is sent to a cut
\* link is lost, and a task whose socket has gone ends with it.
SendEvent(c) ==
  /\ sock[c].pump /\ stream.queue # <<>>
  /\ LET event == Head(stream.queue)
         over == event = "END" \/ ~sock[c].alive \/ ~stream.record
         told == CASE event = "final" -> <<Msg("final", 0, 0)>>
                   [] event = "failure" -> <<Msg("error", 0, 0)>>
                   [] OTHER -> <<>>
         gone == IF event # "END" /\ ~stream.record THEN <<Msg("error", 0, 0)>> ELSE <<>>
     IN  /\ stream' = [stream EXCEPT !.queue = Tail(@)]
         /\ link' = ToClient(link, c, told \o gone)
         /\ sock' = [sock EXCEPT ![c].pump = ~over]
  /\ UNCHANGED <<microphone, client, provider, expiry>>

-----------------------------------------------------------------------------
(* The provider's pump, and the expiry timers *)

PumpReads == stream.pump = "running" /\ stream.holding = <<>>

\* A final transcript.  (A partial one is shown, or it is refused and ends the pump as
\* a refused final does.)
RecognizeFinal ==
  /\ PumpReads /\ provider.up
  /\ stream' = [stream EXCEPT !.pump = "answering"]
  /\ UNCHANGED <<microphone, client, link, sock, provider, expiry>>

\* transcript_final answered the interview, or was refused.
Answer ==
  /\ stream.pump = "answering"
  /\ \E event \in {"final", "failure"} :
       stream' = [stream EXCEPT !.pump = "ending", !.holding = <<event, "END">>]
  /\ UNCHANGED <<microphone, client, link, sock, provider, expiry>>

ProviderDrops ==
  /\ provider.up
  /\ provider' = [provider EXCEPT !.up = FALSE]
  /\ UNCHANGED <<microphone, client, link, sock, stream, expiry>>

\* The provider's events end, with an error or without one.
PumpEnds ==
  /\ PumpReads /\ ~provider.up
  /\ \E last \in {<<"failure", "END">>, <<"END">>} :
       stream' = [stream EXCEPT !.pump = "ending", !.holding = last]
  /\ UNCHANGED <<microphone, client, link, sock, provider, expiry>>

\* queue.put waits while the queue is full.
PumpPuts ==
  /\ stream.holding # <<>> /\ Len(stream.queue) < EventQueueSize
  /\ stream' = [stream EXCEPT !.queue = Append(@, Head(stream.holding)),
                  !.holding = Tail(@),
                  !.pump = IF Head(stream.holding) = "END" THEN "done" ELSE @]
  /\ UNCHANGED <<microphone, client, link, sock, provider, expiry>>

\* The grace period is over.
Expire(t) ==
  /\ expiry.tasks[t] = "sleeping"
  /\ \/ /\ CloseBridge
        /\ expiry' = [expiry EXCEPT !.tasks[t] = IF stream.record THEN "closing" ELSE "finishing"]
     \/ /\ CloseBridgeFails
        /\ expiry' = [expiry EXCEPT !.tasks[t] = "finishing"]
  /\ UNCHANGED <<microphone, client, link, sock>>

\* The task's finally clause drops the entry, whoever's it is by then.
ExpiryEnds(t) ==
  /\ \/ expiry.tasks[t] = "finishing"
     \/ expiry.tasks[t] = "closing" /\ stream.pump = "done"
  /\ expiry' = [entry |-> NoSocket, tasks |-> [expiry.tasks EXCEPT ![t] = "done"]]
  /\ UNCHANGED <<microphone, client, link, sock, stream, provider>>

\* The network cuts a link.  What it carried to the client is lost; what it
\* carried to the server is lost, or is read there after the client noticed.
Cut(c) ==
  /\ link[c].state = "up"
  /\ \E late \in {<<>>, link[c].toServer} :
       link' = [link EXCEPT ![c] = [state |-> "cut", toServer |-> late, toClient |-> <<>>]]
  /\ UNCHANGED <<microphone, client, serverVars>>

-----------------------------------------------------------------------------
ClientSteps == \/ Capture \/ Stop \/ CaptureStops \/ StopCommits \/ RecoveryCommits \/ Poll \/ UserCancel
               \/ StopTimesOut \/ OpenTimesOut \/ ConnectFails \/ ReconnectTimesOut
               \/ FlushTimesOut \/ NoticeCut \/ ClientReceives
               \/ \E c \in Sockets : Connect(c)

SocketSteps(c) == \/ Open(c) \/ Reconnect(c) \/ ChunkRefused(c) \/ ChunkAccepted(c)
                  \/ PushDone(c) \/ Commit(c) \/ Endpoint(c) \/ CommitDone(c)
                  \/ Close(c) \/ CloseDone(c) \/ Disconnect(c) \/ SendEvent(c)

Next == \/ ClientSteps
        \/ \E c \in Sockets : SocketSteps(c) \/ Cut(c) \/ Expire(c) \/ ExpiryEnds(c)
        \/ RecognizeFinal \/ Answer \/ ProviderDrops
        \/ PumpEnds \/ PumpPuts

Spec == Init /\ [][Next]_vars
-----------------------------------------------------------------------------
(* Properties *)

Messages(type) ==
  [type : {type}, seq : 0..MaxFrames, arg : 0..MaxFrames]

TypeOK ==
  /\ captured \in 0..MaxFrames
  /\ client.mode \in {"opening", "active", "committing", "idle"}
  /\ client.recovery \in {"no", "connecting", "reconnecting", "flushing"}
  /\ client.stopping \in {"no", "capture", "flush"} /\ overtaken \in BOOLEAN
  /\ client.attempt \in 0..MaxAttempts /\ client.ws \in Sockets \cup {NoSocket}
  /\ {client.next, client.acked, stream.next} \subseteq 0..MaxFrames
  /\ Cardinality(DOMAIN client.inFlight) <= MaxInFlight
  /\ \A c \in Sockets :
       /\ link[c].state \in {"new", "up", "cut"}
       /\ \A i \in DOMAIN link[c].toServer : link[c].toServer[i] \in
            UNION {Messages(t) : t \in {"open", "reconnect", "chunk", "commit", "close"}}
       /\ sock[c].busy \in {"no", "push", "endpoint", "commit", "close"}
       /\ sock[c].attached => sock[c].alive
  /\ stream.pump \in {"none", "running", "answering", "ending", "done"}
  /\ Len(stream.queue) <= EventQueueSize

\* Ordered, exactly-once delivery: reconnects, replays, duplicates and a second
\* socket never make the provider hear a frame twice, out of order, or after a
\* gap (reconcileAfterReconnect against accept_chunk).
Delivery == INSTANCE OrderedDelivery
              WITH delivered <- provider.audio, ended <- stream.committed
DeliversInOrder == Delivery!Spec

\* When the candidate's own stop has reached the provider as a commit, no
\* captured frame is missing (flushAndCommit drains before it commits): but the
\* last one, when a recovery has committed while stop still waited for its capture.
CommitIsComplete ==
  provider.commits > 0 /\ ~stream.vad.ended =>
    \/ Len(provider.audio) = captured
    \/ overtaken /\ Len(provider.audio) = captured - 1

\* VOICE_PROTOCOL.md: a browser that disconnects while finalizing an utterance "may
\* reconnect and retry `commit` without invoking the upstream provider commit twice".
CommitsOnce == provider.commits <= 1

\* A reconnect never presents a cursor ahead of the server's: an acknowledged
\* frame stays acknowledged (AudioStreamManager.reconnect's AudioSequenceError).
CursorNeverAhead ==
  \A c \in Sockets : \A i \in DOMAIN link[c].toServer :
    LET m == link[c].toServer[i] IN m.type = "reconnect" => m.seq <= stream.next

Attached == {c \in Sockets : sock[c].attached}

\* A stream whose sockets are all gone is about to expire, if the client was
\* told of it and no provider error killed a coroutine (_schedule_audio_expiry).
DetachedIsExpiring ==
  stream.told /\ ~stream.closed /\ provider.up /\ Attached = {} =>
    \E t \in Sockets : expiry.tasks[t] = "sleeping"

\* The VAD ends an utterance when, and only when, the frames it heard contain
\* enough loud ones in a row and after them enough quiet ones in a row, or enough
\* of any kind (Pcm16EnergyVad.observe, frame by frame, against the whole prefix).
Run(i, j, S) == \A k \in i..j : level[k] \in S
IsDue(n) ==
  \E s \in SpeechStart..n :
    /\ Run(s - SpeechStart + 1, s, {"loud"})
    /\ \A r \in SpeechStart..(s - 1) : ~Run(r - SpeechStart + 1, r, {"loud"})
    /\ \E e \in (s + 1)..n : \/ e - s >= EndSilence /\ Run(e - EndSilence + 1, e, {"quiet"})
                             \/ e - s + SpeechStart >= MaxUtterance
EndpointIsDue ==
  provider.up => (stream.vad.ended <=> IsDue(Len(provider.audio) - Buffered))
=============================================================================
