------------------------------ MODULE Webhooks ------------------------------
(***************************************************************************)
(* Webhooks of one session: WebhookDispatchingStore, the decorator that    *)
(* saves a session and then posts its new events, and WebhookDispatcher,   *)
(* which posts each of them to every subscription with bounded retries     *)
(* (webhooks.py).                                                          *)
(*                                                                         *)
(* A writer loads the session, appends events and saves.  Between its      *)
(* awaits other writers do the same; its task may be cancelled, an         *)
(* exception may end it, and the process may crash.  An event is its type  *)
(* and the operation that appended it; its sequence number is its index in *)
(* the log.                                                                *)
(***************************************************************************)
EXTENDS Naturals, FiniteSets, Sequences

CONSTANTS
  Writers,        \* requests that save the session
  Subscriptions,  \* receivers, numbered in the order the deployment lists them
  Types,          \* types of events
  Wanted,         \* the event types of each subscription, all of them webhook-safe
  MaxAttempts,    \* max_attempts of the dispatcher
  MaxOperations,  \* bound: operations that append events
  MaxCutoffs      \* bound: crashes, cancelled tasks and exceptions

ASSUME WebhookAssumption ==
  /\ MaxAttempts \in Nat \ {0} /\ MaxOperations \in Nat /\ MaxCutoffs \in Nat
  /\ Subscriptions \subseteq Nat /\ IsFiniteSet(Subscriptions)
  /\ "webhook_delivery" \notin Types
  /\ Wanted \in [Subscriptions -> SUBSET Types]

VARIABLES
  log, version,  \* the stored session: its events, and its version
  task,          \* what each writer does with its copy
  operations,    \* operations so far
  cutoffs,       \* crashes, cancelled tasks and exceptions so far
  posts,         \* history: posts per sequence number and subscription
  received,      \* history: events a receiver has seen under a sequence number
  settled,       \* history: <<subscription, seq>> whose attempts are over
  dropped        \* history: <<seq, subscription>> whose dispatch was cut off

vars == <<log, version, task, operations, cutoffs, posts, received, settled, dropped>>

NoOperation == 0
Event(type, operation) ==
  [type |-> type, operation |-> operation, of |-> 0, to |-> 0, delivered |-> FALSE]

\* The webhook_delivery event for event seq of the log and subscription s.
Delivery(seq, s, delivered) ==
  [type |-> "webhook_delivery", operation |-> NoOperation, of |-> seq, to |-> s,
   delivered |-> delivered]

Events == [type : Types \cup {"webhook_delivery"}, operation : 0..MaxOperations, of : Nat,
           to : Nat, delivered : BOOLEAN]

(* "loaded"    works on its copy, to which it appends its event            *)
(* "reading"   put_session is called, the previous session not yet read    *)
(* "saving"    the number of the last event stored before is known         *)
(* "posting"   the deliveries in todo are still to be made                 *)
(* "recording" their delivery events are appended, the second save not made *)
TaskSteps == {"idle", "loaded", "reading", "saving", "posting", "recording"}

\* A writer with nothing to post.
Saving(step, events, of, previous) ==
  [step |-> step, events |-> events, version |-> of, previous |-> previous, todo |-> {}, attempt |-> 1]

\* A writer that has deliveries <<seq, subscription>> to make, on the given attempt.
Posting(events, of, todo, attempt) ==
  [step |-> IF todo = {} THEN "recording" ELSE "posting", events |-> events, version |-> of,
   previous |-> 0, todo |-> todo, attempt |-> attempt]

Idle == Saving("idle", <<>>, 0, 0)

At(w, step) == task[w].step = step
Becomes(w, state) == task' = [task EXCEPT ![w] = state]
Ends(w) == Becomes(w, Idle)

MaxEvents == MaxOperations * (1 + Cardinality(Subscriptions))
Numbers == 1..MaxEvents

Init ==
  /\ log = <<>> /\ version = 0
  /\ task = [w \in Writers |-> Idle]
  /\ operations = 0 /\ cutoffs = 0
  /\ posts = [d \in Numbers \X Subscriptions |-> 0]
  /\ received = {} /\ settled = {} /\ dropped = {}

history == <<posts, received, settled>>
cuts == <<cutoffs, dropped>>
-----------------------------------------------------------------------------
(* Saving *)

Load(w) ==
  /\ At(w, "idle") /\ operations < MaxOperations
  /\ Becomes(w, Saving("loaded", log, version, 0))
  /\ UNCHANGED <<log, version, operations, cuts, history>>

Operate(w) ==
  /\ At(w, "loaded") /\ operations < MaxOperations
  /\ operations' = operations + 1
  /\ \E type \in Types :
       Becomes(w, Saving("reading", Append(task[w].events, Event(type, operations + 1)),
                         task[w].version, 0))
  /\ UNCHANGED <<log, version, cuts, history>>

\* put_session reads the stored session to learn which events are new.
ReadPrevious(w) ==
  /\ At(w, "reading")
  /\ Becomes(w, Saving("saving", task[w].events, task[w].version, Len(log)))
  /\ UNCHANGED <<log, version, operations, cuts, history>>

\* Defect: the previous session is not looked at.
AllEvents(w) == {n \in DOMAIN task[w].events : task[w].events[n].type # "webhook_delivery"}

NewEvents(w) ==
  {n \in DOMAIN task[w].events : n > task[w].previous /\ task[w].events[n].type # "webhook_delivery"}

\* Each new event goes to every subscription that wants it.
Deliveries(w) ==
  {d \in NewEvents(w) \X Subscriptions : task[w].events[d[1]].type \in Wanted[d[2]]}

Fresh(w) == task[w].version = version

\* dispatch, after the save; with nothing to post put_session is over.
Dispatch(w) ==
  IF Deliveries(w) = {} THEN Ends(w)
  ELSE Becomes(w, Posting(task[w].events, version + 1, Deliveries(w), 1))

\* Defect: the events of a refused save are dispatched too.
SaveAnyway(w) ==
  /\ At(w, "saving")
  /\ Dispatch(w)
  /\ IF Fresh(w) THEN log' = task[w].events /\ version' = version + 1
                 ELSE UNCHANGED <<log, version>>
  /\ UNCHANGED <<operations, cuts, history>>

\* The first save: a conflict is the caller's; otherwise the new events are posted.
Save(w) ==
  /\ At(w, "saving")
  /\ \/ Fresh(w) /\ log' = task[w].events /\ version' = version + 1 /\ Dispatch(w)
     \/ ~Fresh(w) /\ Ends(w) /\ UNCHANGED <<log, version>>
  /\ UNCHANGED <<operations, cuts, history>>
-----------------------------------------------------------------------------
(* Posting *)

\* In the order of the events, and for each of them of the subscriptions.
Due(w, d) ==
  /\ d \in task[w].todo
  /\ \A e \in task[w].todo : d[1] < e[1] \/ (d[1] = e[1] /\ d[2] <= e[2])

\* The delivery is over; its event is appended to the copy.  (The code collects
\* the results and appends them all at the end: nobody else sees the copy.)
Settle(w, d, delivered) ==
  /\ Becomes(w, Posting(Append(task[w].events, Delivery(d[1], d[2], delivered)),
                        task[w].version, task[w].todo \ {d}, 1))
  /\ settled' = settled \cup {<<d[2], d[1]>>}

\* The next attempt, after a pause.
Retry(w) ==
  /\ task[w].attempt < MaxAttempts
  /\ Becomes(w, Posting(task[w].events, task[w].version, task[w].todo, task[w].attempt + 1))
  /\ UNCHANGED settled

\* Defect: a receiver that does not answer ends the whole dispatch.
GiveUpAll(w, d) ==
  \/ Retry(w)
  \/ task[w].attempt = MaxAttempts /\ Ends(w) /\ settled' = settled \cup {<<d[2], d[1]>>}

\* A retryable status, or no answer in time.
TryAgain(w, d) ==
  \/ Retry(w)
  \/ task[w].attempt = MaxAttempts /\ Settle(w, d, FALSE)

\* Defect: whatever the receiver answers counts as delivered.
AnyAnswerDelivers(answer) == answer \in {"accepted", "refused"}

Delivers(answer) == answer = "accepted"

\* The POST of delivery d = <<seq, subscription>>, and its arrival at the receiver.
Posted(w, d) == Due(w, d) /\ posts' = [posts EXCEPT ![d] = @ + 1]
Arrives(w, d) == received' = received \cup {<<d[2], d[1], task[w].events[d[1]]>>}

\* One attempt that ends with an answer, a timeout or a RequestError; the receiver
\* may have seen the event when its answer gets lost.
Post(w) ==
  /\ At(w, "posting")
  /\ \E d \in task[w].todo :
       /\ Posted(w, d)
       /\ \E answer \in {"accepted", "refused", "busy", "lost"} :
            /\ Arrives(w, d) \/ (answer # "accepted" /\ UNCHANGED received)
            /\ \/ answer \in {"accepted", "refused"} /\ Settle(w, d, Delivers(answer))
               \/ answer \in {"busy", "lost"} /\ TryAgain(w, d)
  /\ UNCHANGED <<log, version, operations, cuts>>

\* Defect: the second save is tried until it succeeds.
RecordInsists(w) ==
  /\ At(w, "recording")
  /\ Fresh(w) /\ log' = task[w].events /\ version' = version + 1
  /\ Ends(w)
  /\ UNCHANGED <<operations, cuts, history>>

\* The second save: whatever it raises is swallowed.
Record(w) ==
  /\ At(w, "recording")
  /\ \/ Fresh(w) /\ log' = task[w].events /\ version' = version + 1
     \/ ~Fresh(w) /\ UNCHANGED <<log, version>>
  /\ Ends(w)
  /\ UNCHANGED <<operations, cuts, history>>
-----------------------------------------------------------------------------
(* Dispatches that are cut off *)

\* The work of w ends where it is, and with it the deliveries that it would have made.
CutOff(w, lost) ==
  /\ cutoffs < MaxCutoffs
  /\ cutoffs' = cutoffs + 1
  /\ dropped' = dropped \cup lost
  /\ Ends(w)

\* The task is cancelled, or the store raises.  CancelledError is no Exception, so that
\* put_session swallows it nowhere; a save that a thread was making may still be made.
Cancel(w) ==
  /\ \/ ~At(w, "idle") /\ CutOff(w, task[w].todo) /\ UNCHANGED <<log, version>>
     \/ /\ task[w].step \in {"saving", "recording"} /\ Fresh(w)
        /\ log' = task[w].events /\ version' = version + 1
        /\ CutOff(w, IF At(w, "saving") THEN Deliveries(w) ELSE {})
  /\ UNCHANGED <<operations, history>>

\* The task is cancelled during a POST, or the client raises what is neither a timeout
\* nor a RequestError: nothing catches it.
PostRaises(w) ==
  /\ At(w, "posting")
  /\ \E d \in task[w].todo : Posted(w, d) /\ (Arrives(w, d) \/ UNCHANGED received)
  /\ CutOff(w, task[w].todo)
  /\ UNCHANGED <<log, version, operations, settled>>

\* Nothing of a dispatch under way is persistent.
Crash ==
  /\ cutoffs < MaxCutoffs
  /\ cutoffs' = cutoffs + 1
  /\ dropped' = dropped \cup UNION {task[w].todo : w \in Writers}
  /\ task' = [w \in Writers |-> Idle]
  /\ UNCHANGED <<log, version, operations, history>>
-----------------------------------------------------------------------------
Step(w) == ReadPrevious(w) \/ Save(w) \/ Post(w) \/ Record(w)

Next ==
  \/ Crash
  \/ \E w \in Writers : Load(w) \/ Operate(w) \/ Step(w) \/ Cancel(w) \/ PostRaises(w)

Spec == Init /\ [][Next]_vars

\* asyncio runs every task that can run, and the store answers.
FairSpec == Spec /\ \A w \in Writers : WF_vars(ReadPrevious(w) \/ Save(w) \/ Record(w))

\* Every POST ends.  The client's timeout is no deadline for it: it bounds each
\* connect, read and write, so that a receiver that trickles its answer holds the POST.
PostsEnd == \A w \in Writers : WF_vars(Post(w))
-----------------------------------------------------------------------------
(* Properties *)

TypeOK ==
  /\ log \in Seq(Events) /\ Len(log) <= MaxEvents
  /\ version \in Nat
  /\ \A w \in Writers :
       /\ task[w].step \in TaskSteps
       /\ task[w].events \in Seq(Events)
       /\ task[w].attempt \in 1..MaxAttempts
       /\ At(w, "posting") <=> task[w].todo # {}
  /\ received \subseteq Subscriptions \X Numbers \X Events
  /\ settled \subseteq Subscriptions \X Numbers /\ dropped \subseteq Numbers \X Subscriptions

\* A receiver is told of what the log has, under the number it has there: no event
\* of a save that was refused, and no number that names two events.
PostsAreStored ==
  \A r \in received : r[2] <= Len(log) /\ log[r[2]] = r[3]

\* One dispatch per event, so that an idempotency key is posted max_attempts times
\* at most, although each save reads "what was stored before" in an await of its own.
KeyIsBounded ==
  \A d \in Numbers \X Subscriptions : posts[d] <= MaxAttempts

\* The audit log calls delivered only what its receiver accepted, although the
\* dispatches of concurrent saves end in any order and some are never recorded.
AuditIsTrue ==
  \A n \in DOMAIN log :
    log[n].delivered => \E r \in received : r[1] = log[n].to /\ r[2] = log[n].of

\* No stored event is forgotten: its deliveries are over or ahead, or they were cut off
\* with the task that had to make them.
LostOnlyByCutoff ==
  \A n \in DOMAIN log : \A s \in Subscriptions :
    log[n].type \in Wanted[s] =>
      \/ <<s, n>> \in settled
      \/ <<n, s>> \in dropped
      \/ \E w \in Writers : <<n, s>> \in task[w].todo

\* A caller's save returns whatever its receivers answer, provided that each POST ends.
SaveReturns == PostsEnd => \A w \in Writers : At(w, "reading") ~> At(w, "idle")
=============================================================================
