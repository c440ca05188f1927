--------------------------- MODULE WebhooksProofs ---------------------------
(***************************************************************************)
(* Proofs about Webhooks: the four invariants that its run checks, and the *)
(* bound of its log.  The log only grows, and a copy that the version      *)
(* check accepts extends it: so what was posted under a number keeps that  *)
(* number, and the new events of an accepted save are beyond everything    *)
(* that was posted before.  A copy keeps room for what its task has still  *)
(* to append: so every number that is posted is one of those that          *)
(* KeyIsBounded counts.                                                    *)
(***************************************************************************)
EXTENDS Webhooks, FiniteSetTheorems, TLAPS

WriterState == [step : TaskSteps, events : Seq(Events), version : Nat, previous : Nat,
                todo : SUBSET (Nat \X Subscriptions), attempt : 1..MaxAttempts]

Typed ==
  /\ log \in Seq(Events) /\ version \in Nat
  /\ task \in [Writers -> WriterState]
  /\ operations \in 0..MaxOperations /\ cutoffs \in Nat
  /\ posts \in [Numbers \X Subscriptions -> Nat]

Extends(longer, shorter) ==
  /\ Len(shorter) <= Len(longer)
  /\ \A n \in 1..Len(shorter) : longer[n] = shorter[n]

\* A copy that a save would accept has the log and what was appended to it, and the
\* events that put_session found stored before are those of the log; after the first
\* save only delivery events are appended.
CopyIsCurrent(w) ==
  /\ task[w].version <= version
  /\ ~At(w, "idle") /\ Fresh(w) => Extends(task[w].events, log)
  /\ At(w, "saving") /\ Fresh(w) => task[w].previous = Len(log)
  /\ task[w].step \in {"posting", "recording"} /\ Fresh(w) =>
       \A n \in 1..Len(task[w].events) : n > Len(log) => task[w].events[n].type = "webhook_delivery"

\* What a writer has to post is stored, as its copy has it.
TodoIsStored(w) ==
  /\ task[w].todo # {} => At(w, "posting")
  /\ \A d \in task[w].todo :
       d[1] \in 1..Len(log) /\ d[1] <= Len(task[w].events) /\ task[w].events[d[1]] = log[d[1]]

\* Only the delivery that is due has been tried.
TodoIsUntried(w) ==
  \A d \in task[w].todo :
    d[1] \in Numbers => posts[d] <= (IF Due(w, d) THEN task[w].attempt - 1 ELSE 0)

\* A delivery event tells of a post that was received, if it says so.
Told(e) == e.delivered = TRUE => \E r \in received : r[1] = e.to /\ r[2] = e.of

CopyIsTrue(w) == \A n \in 1..Len(task[w].events) : Told(task[w].events[n])

WriterInv(w) == CopyIsCurrent(w) /\ TodoIsStored(w) /\ TodoIsUntried(w) /\ CopyIsTrue(w)

\* No delivery is made by two writers.
TodoIsOwn == \A u, w \in Writers : u # w => task[u].todo \cap task[w].todo = {}

LogIsTrue == \A n \in 1..Len(log) : Told(log[n])

ReceivedIsStored ==
  \A r \in received : r[2] \in 1..Len(log) /\ log[r[2]] = r[3]

BeyondLogUntried ==
  \A d \in Numbers \X Subscriptions : d[1] > Len(log) => posts[d] = 0

WebhooksInv ==
  /\ Typed /\ TodoIsOwn /\ LogIsTrue /\ ReceivedIsStored /\ BeyondLogUntried
  /\ KeyIsBounded /\ LostOnlyByCutoff
  /\ \A w \in Writers : WriterInv(w)
-----------------------------------------------------------------------------
(* The records a writer's state is made of *)

LEMMA DefaultTypes ==
  /\ MaxAttempts \in Nat \ {0} /\ MaxOperations \in Nat
  /\ Subscriptions \subseteq Nat /\ 1 \in 1..MaxAttempts
  /\ <<>> \in Seq(Events) /\ Len(<<>>) = 0
BY WebhookAssumption

LEMMA SavingType ==
  ASSUME NEW step \in TaskSteps, NEW STATE events, events \in Seq(Events),
         NEW STATE of, of \in Nat, NEW STATE previous, previous \in Nat
  PROVE  Saving(step, events, of, previous) \in WriterState
BY DefaultTypes DEF Saving, WriterState

LEMMA PostingType ==
  ASSUME NEW STATE events, events \in Seq(Events), NEW STATE of, of \in Nat,
         NEW STATE todo, todo \in SUBSET (Nat \X Subscriptions),
         NEW STATE attempt, attempt \in 1..MaxAttempts
  PROVE  Posting(events, of, todo, attempt) \in WriterState
BY DEF Posting, WriterState, TaskSteps

\* What longer has beyond s is e, and it extends what s extends.
Adds(longer, s, e) ==
  /\ longer \in Seq(Events)
  /\ \A n \in 1..Len(s) : n \in 1..Len(longer) /\ longer[n] = s[n]
  /\ \A n \in 1..Len(longer) : (n \in 1..Len(s) /\ longer[n] = s[n]) \/ longer[n] = e
  /\ \A l \in Seq(Events) : Extends(s, l) => Extends(longer, l)

LEMMA Appended ==
  ASSUME NEW STATE s, s \in Seq(Events), NEW STATE e, e \in Events,
         NEW STATE longer, longer = Append(s, e)
  PROVE  Adds(longer, s, e)
<1>1. /\ longer \in Seq(Events) /\ Len(longer) = Len(s) + 1 /\ Len(s) \in Nat
      /\ longer[Len(s) + 1] = e /\ \A n \in 1..Len(s) : longer[n] = s[n]
  OBVIOUS
<1>2. ASSUME NEW n \in 1..Len(s) PROVE n \in 1..Len(longer) BY <1>1
<1>3. ASSUME NEW n \in 1..Len(longer) PROVE n \in 1..Len(s) \/ n = Len(s) + 1 BY <1>1
<1>4. ASSUME NEW l \in Seq(Events), Extends(s, l) PROVE Extends(longer, l)
  <2>1. Len(l) \in Nat /\ Len(l) <= Len(s) /\ \A n \in 1..Len(l) : s[n] = l[n]
    BY <1>4 DEF Extends
  <2>2. Len(l) <= Len(longer) BY <1>1, <2>1
  <2>3. ASSUME NEW n \in 1..Len(l) PROVE longer[n] = l[n]
    <3>1. n \in 1..Len(s) BY <1>1, <2>1
    <3> QED BY <1>1, <2>1, <3>1
  <2> QED BY <2>2, <2>3 DEF Extends
<1> QED BY <1>1, <1>2, <1>3, <1>4 DEF Adds

\* Writer w becomes q, the others stay.
Replaced(w, q) ==
  /\ task' \in [Writers -> WriterState]
  /\ task'[w] = q
  /\ \A u \in Writers : u # w => task'[u] = task[u]

LEMMA TaskReplaced ==
  ASSUME Typed, NEW w \in Writers, NEW STATE q, q \in WriterState, Becomes(w, q)
  PROVE  Replaced(w, q)
BY DEF Typed, Becomes, Replaced

LEMMA TaskEnds ==
  ASSUME Typed, NEW w \in Writers, Ends(w)
  PROVE  Replaced(w, Idle)
<1>1. "idle" \in TaskSteps /\ 0 \in Nat BY DEF TaskSteps
<1>2. Idle \in WriterState BY <1>1, SavingType, DefaultTypes DEF Idle
<1> QED BY <1>2, TaskReplaced DEF Ends
-----------------------------------------------------------------------------
(* Steps of one writer, as the others see them *)

\* The log grows, or stays with its version; what was received stays so; what the
\* other writers have to post is left alone.
LEMMA OthersKeep ==
  ASSUME Typed, NEW u \in Writers, WriterInv(u), task'[u] = task[u],
         log' \in Seq(Events), Extends(log', log),
         UNCHANGED <<log, version>> \/ version' = version + 1,
         received \subseteq received',
         \A d \in task[u].todo : d[1] \in Numbers => posts'[d] = posts[d]
  PROVE  WriterInv(u)'
<1>0. task[u] \in WriterState /\ version \in Nat /\ task[u].version \in Nat
      /\ log \in Seq(Events) /\ Len(log) \in Nat /\ Len(log') \in Nat
  BY DEF Typed, WriterState
<1>1. CopyIsCurrent(u)' BY <1>0 DEF WriterInv, CopyIsCurrent, At, Fresh
<1>2. TodoIsStored(u)'
  BY <1>0 DEF WriterInv, TodoIsStored, At, Extends
<1>3. TodoIsUntried(u)' BY DEF WriterInv, TodoIsUntried, Due
<1>4. CopyIsTrue(u)' BY DEF WriterInv, CopyIsTrue, Told
<1> QED BY <1>1, <1>2, <1>3, <1>4 DEF WriterInv

\* A step that cuts nothing off.
LEMMA CutsStay ==
  ASSUME Typed, UNCHANGED cuts
  PROVE  cutoffs' \in Nat /\ dropped \subseteq dropped'
BY DEF Typed, cuts

\* A step that changes one writer only, and not one that posts.
LEMMA QuietStep ==
  ASSUME WebhooksInv, NEW w \in Writers, task[w].todo = {}, task'[w].todo = {},
         task' \in [Writers -> WriterState], \A u \in Writers : u # w => task'[u] = task[u],
         operations' \in 0..MaxOperations, UNCHANGED <<log, version, history>>,
         cutoffs' \in Nat, dropped \subseteq dropped',
         CopyIsCurrent(w)', CopyIsTrue(w)'
  PROVE  WebhooksInv'
<1>0. Typed /\ log' \in Seq(Events) /\ Extends(log', log)
  BY DEF WebhooksInv, Typed, Extends
<1>1. Typed' BY DEF WebhooksInv, Typed, history
<1>2. TodoIsOwn' BY DEF WebhooksInv, TodoIsOwn
<1>3. LogIsTrue' /\ ReceivedIsStored' /\ BeyondLogUntried' /\ KeyIsBounded'
  BY DEF WebhooksInv, LogIsTrue, Told, ReceivedIsStored, BeyondLogUntried, KeyIsBounded, history
<1>4. LostOnlyByCutoff'
  <2> SUFFICES ASSUME NEW n \in DOMAIN log, NEW s \in Subscriptions,
                      log[n].type \in Wanted[s], <<s, n>> \notin settled, <<n, s>> \notin dropped
               PROVE  \E u \in Writers : <<n, s>> \in task'[u].todo
    BY DEF LostOnlyByCutoff, history
  <2>1. PICK u \in Writers : <<n, s>> \in task[u].todo
    BY DEF WebhooksInv, LostOnlyByCutoff
  <2> QED BY <2>1
<1>5. WriterInv(w)'
  BY DEF WriterInv, TodoIsStored, TodoIsUntried
<1>6. ASSUME NEW u \in Writers, u # w PROVE WriterInv(u)'
  BY <1>0, <1>6, OthersKeep DEF WebhooksInv, history
<1> QED BY <1>1, <1>2, <1>3, <1>4, <1>5, <1>6 DEF WebhooksInv

\* A writer that has nothing to post ends.
LEMMA QuietEnd ==
  ASSUME WebhooksInv, NEW w \in Writers, task[w].todo = {}, Ends(w),
         UNCHANGED <<log, version, operations, history>>,
         cutoffs' \in Nat, dropped \subseteq dropped'
  PROVE  WebhooksInv'
<1>1. Replaced(w, Idle) BY TaskEnds DEF WebhooksInv
<1>2. Idle.step = "idle" /\ Idle.events = <<>> /\ Idle.todo = {} /\ Idle.version = 0
  BY DEF Idle, Saving
<1>3. CopyIsCurrent(w)'
  BY <1>1, <1>2 DEF WebhooksInv, Typed, Replaced, CopyIsCurrent, At
<1>4. CopyIsTrue(w)' BY <1>1, <1>2, DefaultTypes DEF Replaced, CopyIsTrue
<1>5. operations' \in 0..MaxOperations BY DEF WebhooksInv, Typed
<1> QED BY <1>1, <1>2, <1>3, <1>4, <1>5, QuietStep DEF Replaced
\* A writer's deliveries are dropped when it ends.
LEMMA WhatIsLost ==
  ASSUME WebhooksInv, NEW w \in Writers, Replaced(w, Idle), UNCHANGED <<log, settled>>,
         dropped' = dropped \cup task[w].todo
  PROVE  LostOnlyByCutoff'
<1> SUFFICES ASSUME NEW n \in DOMAIN log, NEW s \in Subscriptions,
                    log[n].type \in Wanted[s], <<s, n>> \notin settled, <<n, s>> \notin dropped
             PROVE  \/ <<n, s>> \in dropped'
                    \/ \E u \in Writers : <<n, s>> \in task'[u].todo
  BY DEF LostOnlyByCutoff
<1>1. PICK u \in Writers : <<n, s>> \in task[u].todo
  BY DEF WebhooksInv, LostOnlyByCutoff
<1> QED BY <1>1 DEF Replaced
-----------------------------------------------------------------------------
(* One lemma for each action *)

\* Only a writer that posts has anything to post.
LEMMA NothingToPost ==
  ASSUME WebhooksInv, NEW w \in Writers, ~At(w, "posting")
  PROVE  task[w].todo = {}
BY DEF WebhooksInv, WriterInv, TodoIsStored

LEMMA LoadKeeps ==
  ASSUME WebhooksInv, NEW w \in Writers, Load(w)
  PROVE  WebhooksInv'
<1> DEFINE q == Saving("loaded", log, version, 0)
<1>1. q \in WriterState
  <2>1. "loaded" \in TaskSteps /\ 0 \in Nat BY DEF TaskSteps
  <2> QED BY <2>1, SavingType DEF WebhooksInv, Typed
<1>2. Replaced(w, q) BY <1>1, TaskReplaced DEF WebhooksInv, Load
<1>3. q.step = "loaded" /\ q.events = log /\ q.version = version /\ q.todo = {}
  BY DEF Saving
<1> HIDE DEF q
<1>4. CopyIsCurrent(w)'
  BY <1>2, <1>3 DEF WebhooksInv, Typed, Load, Replaced, CopyIsCurrent, At, Extends
<1>5. CopyIsTrue(w)'
  BY <1>2, <1>3 DEF WebhooksInv, LogIsTrue, Load, Replaced, CopyIsTrue, Told, history
<1>6. operations' \in 0..MaxOperations BY DEF WebhooksInv, Typed, Load
<1>7. task[w].todo = {} BY NothingToPost DEF Load, At
<1>8. cutoffs' \in Nat /\ dropped \subseteq dropped' BY CutsStay DEF WebhooksInv, Load
<1> QED BY <1>2, <1>3, <1>4, <1>5, <1>6, <1>7, <1>8, QuietStep DEF Replaced, Load

LEMMA OperateKeeps ==
  ASSUME WebhooksInv, NEW w \in Writers, Operate(w)
  PROVE  WebhooksInv'
<1>1. PICK type \in Types :
        Becomes(w, Saving("reading", Append(task[w].events, Event(type, operations + 1)),
                          task[w].version, 0))
  BY DEF Operate
<1> DEFINE e == Event(type, operations + 1)
           events == Append(task[w].events, e)
           q == Saving("reading", events, task[w].version, 0)
<1>2. operations \in Nat /\ operations + 1 \in 0..MaxOperations /\ operations' = operations + 1
  BY DefaultTypes DEF WebhooksInv, Typed, Operate
<1>3. e \in Events /\ e.delivered = FALSE BY <1>2 DEF Event, Events
<1>4. task[w].events \in Seq(Events) /\ task[w].version \in Nat
  BY DEF WebhooksInv, Typed, WriterState
<1>0. events = Append(task[w].events, e) OBVIOUS
<1> HIDE DEF e, events
<1>5. /\ events \in Seq(Events)
      /\ \A n \in 1..Len(events) :
           \/ n \in 1..Len(task[w].events) /\ events[n] = task[w].events[n]
           \/ events[n] = e
      /\ \A l \in Seq(Events) : Extends(task[w].events, l) => Extends(events, l)
  <2>1. Adds(events, task[w].events, e) BY <1>0, <1>3, <1>4, Appended
  <2> QED BY <2>1 DEF Adds
<1>6. q \in WriterState
  <2>1. "reading" \in TaskSteps /\ 0 \in Nat BY DEF TaskSteps
  <2> QED BY <1>4, <1>5, <2>1, SavingType
<1>7. q.step = "reading" /\ q.events = events /\ q.version = task[w].version /\ q.todo = {}
  BY DEF Saving
<1>8. Becomes(w, q) BY <1>1 DEF e, events
<1> HIDE DEF q
<1>9. Replaced(w, q) BY <1>6, <1>8, TaskReplaced DEF WebhooksInv
<1>10. UNCHANGED <<log, version, received>> /\ log \in Seq(Events)
  BY DEF WebhooksInv, Typed, Operate, history
<1>11. CopyIsCurrent(w)'
  <2>1. Fresh(w) => Extends(events, log)
    BY <1>5, <1>10 DEF WebhooksInv, WriterInv, CopyIsCurrent, Operate, At
  <2>2. /\ task'[w].version = task[w].version /\ task[w].version <= version
        /\ task'[w].events = events /\ task'[w].step = "reading"
    BY <1>7, <1>9 DEF WebhooksInv, WriterInv, CopyIsCurrent, Replaced
  <2> QED BY <1>10, <2>1, <2>2 DEF CopyIsCurrent, At, Fresh, Extends
<1>12. CopyIsTrue(w)'
  <2> SUFFICES ASSUME NEW n \in 1..Len(events) PROVE Told(events[n])
    BY <1>7, <1>9, <1>10 DEF Replaced, CopyIsTrue, Told
  <2>1. CASE n \in 1..Len(task[w].events) /\ events[n] = task[w].events[n]
    BY <2>1 DEF WebhooksInv, WriterInv, CopyIsTrue
  <2>2. CASE events[n] = e
    <3>1. events[n].delivered # TRUE BY <1>3, <2>2
    <3> QED BY <3>1 DEF Told
  <2> QED BY <1>5, <2>1, <2>2
<1>13. task[w].todo = {} BY NothingToPost DEF Operate, At
<1>14. cutoffs' \in Nat /\ dropped \subseteq dropped' BY CutsStay DEF WebhooksInv, Operate
<1> QED BY <1>2, <1>7, <1>9, <1>11, <1>12, <1>13, <1>14, QuietStep DEF Replaced, Operate

LEMMA ReadPreviousKeeps ==
  ASSUME WebhooksInv, NEW w \in Writers, ReadPrevious(w)
  PROVE  WebhooksInv'
<1> DEFINE q == Saving("saving", task[w].events, task[w].version, Len(log))
<1>1. q \in WriterState
  <2>1. "saving" \in TaskSteps /\ Len(log) \in Nat BY DEF TaskSteps, WebhooksInv, Typed
  <2>2. task[w].events \in Seq(Events) /\ task[w].version \in Nat
    BY DEF WebhooksInv, Typed, WriterState
  <2> QED BY <2>1, <2>2, SavingType
<1>2. Replaced(w, q) BY <1>1, TaskReplaced DEF WebhooksInv, ReadPrevious
<1>3. /\ q.step = "saving" /\ q.events = task[w].events /\ q.version = task[w].version
      /\ q.previous = Len(log) /\ q.todo = {}
  BY DEF Saving
<1> HIDE DEF q
<1>4. CopyIsCurrent(w)'
  BY <1>2, <1>3
     DEF WebhooksInv, WriterInv, ReadPrevious, Replaced, CopyIsCurrent, At, Fresh
<1>5. CopyIsTrue(w)'
  BY <1>2, <1>3
     DEF WebhooksInv, WriterInv, ReadPrevious, Replaced, CopyIsTrue, Told, history
<1>6. operations' \in 0..MaxOperations BY DEF WebhooksInv, Typed, ReadPrevious
<1>7. task[w].todo = {} BY NothingToPost DEF ReadPrevious, At
<1>8. cutoffs' \in Nat /\ dropped \subseteq dropped' BY CutsStay DEF WebhooksInv, ReadPrevious
<1> QED BY <1>2, <1>3, <1>4, <1>5, <1>6, <1>7, <1>8, QuietStep DEF Replaced, ReadPrevious
\* An accepted save.  The writer goes on as q.
LEMMA Stores ==
  ASSUME WebhooksInv, NEW w \in Writers, task[w].todo = {}, ~At(w, "idle"), Fresh(w),
         log' = task[w].events, version' = version + 1,
         UNCHANGED <<operations, history>>, cutoffs' \in Nat, dropped \subseteq dropped',
         NEW STATE q, Replaced(w, q),
         \/ q.step = "idle" /\ q.version = 0 /\ q.events = <<>> /\ q.todo = {}
         \/ q.step = "posting" /\ q.version = version + 1 /\ q.events = task[w].events,
         q.todo \subseteq (Nat \X Subscriptions),
         \A d \in q.todo : d[1] \in 1..Len(task[w].events) /\ d[1] > Len(log),
         \A n \in 1..Len(task[w].events), s \in Subscriptions :
           n > Len(log) /\ task[w].events[n].type \in Wanted[s] =>
             <<n, s>> \in q.todo \cup dropped'
  PROVE  WebhooksInv'
<1>1. /\ task[w].events \in Seq(Events) /\ log \in Seq(Events) /\ version \in Nat
      /\ Len(task[w].events) \in Nat /\ Len(log) \in Nat
  BY DEF WebhooksInv, Typed, WriterState
<1>2. Extends(log', log) BY DEF WebhooksInv, WriterInv, CopyIsCurrent
<1>3. Typed' BY <1>1 DEF WebhooksInv, Typed, Replaced, history
<1>4. TodoIsOwn'
  <2> SUFFICES ASSUME NEW u \in Writers, u # w PROVE task[u].todo \cap q.todo = {}
    BY DEF TodoIsOwn, WebhooksInv, Replaced
  <2>1. \A d \in task[u].todo : d[1] \in 1..Len(log) BY DEF WebhooksInv, WriterInv, TodoIsStored
  <2> QED BY <1>1, <2>1
<1>5. LogIsTrue' BY DEF WebhooksInv, WriterInv, CopyIsTrue, LogIsTrue, Told, history
<1>6. ReceivedIsStored'
  BY <1>1, <1>2 DEF WebhooksInv, ReceivedIsStored, Extends, history
<1>7. BeyondLogUntried' /\ KeyIsBounded'
  <2>1. \A d \in Numbers \X Subscriptions : d[1] > Len(log') => d[1] > Len(log)
    BY <1>1, <1>2 DEF Extends, Numbers
  <2> QED BY <2>1 DEF WebhooksInv, BeyondLogUntried, KeyIsBounded, history
<1>8. LostOnlyByCutoff'
  <2>0. DOMAIN log' = 1..Len(task[w].events) BY <1>1
  <2> SUFFICES ASSUME NEW n \in 1..Len(task[w].events), NEW s \in Subscriptions,
                      task[w].events[n].type \in Wanted[s], <<s, n>> \notin settled,
                      <<n, s>> \notin dropped'
               PROVE  \E u \in Writers : <<n, s>> \in task'[u].todo
    BY <2>0 DEF LostOnlyByCutoff, history
  <2>1. CASE n > Len(log) BY <2>1 DEF Replaced
  <2>2. CASE ~(n > Len(log))
    <3>1. n \in DOMAIN log /\ task[w].events[n] = log[n]
      BY <1>1, <1>2, <2>2 DEF Extends
    <3>2. PICK u \in Writers : <<n, s>> \in task[u].todo
      BY <3>1 DEF WebhooksInv, LostOnlyByCutoff
    <3> QED BY <3>2 DEF Replaced
  <2> QED BY <2>1, <2>2
<1>9. WriterInv(w)'
  <2>1. CopyIsCurrent(w)'
    BY <1>1 DEF Replaced, CopyIsCurrent, At, Fresh, Extends
  <2>2. TodoIsStored(w)' BY <1>1 DEF Replaced, TodoIsStored, At
  <2>3. TodoIsUntried(w)'
    <3> SUFFICES ASSUME NEW d \in q.todo, d[1] \in Numbers
                 PROVE  posts[d] <= (IF Due(w, d)' THEN q.attempt - 1 ELSE 0)
      BY DEF TodoIsUntried, Replaced, history
    <3>1. posts[d] = 0
      <4>1. d \in Numbers \X Subscriptions OBVIOUS
      <4> QED BY <4>1 DEF WebhooksInv, BeyondLogUntried
    <3>2. q \in WriterState BY DEF Replaced
    <3>3. q.attempt \in 1..MaxAttempts BY <3>2 DEF WriterState
    <3> QED BY <3>1, <3>3, DefaultTypes
  <2>4. CopyIsTrue(w)'
    BY DefaultTypes DEF WebhooksInv, WriterInv, Replaced, CopyIsTrue, Told, history
  <2> QED BY <2>1, <2>2, <2>3, <2>4 DEF WriterInv
<1>10. ASSUME NEW u \in Writers, u # w PROVE WriterInv(u)'
  BY <1>1, <1>2, <1>10, OthersKeep DEF WebhooksInv, Replaced, history
<1> QED BY <1>3, <1>4, <1>5, <1>6, <1>7, <1>8, <1>9, <1>10 DEF WebhooksInv

LEMMA SaveKeeps ==
  ASSUME WebhooksInv, NEW w \in Writers, Save(w)
  PROVE  WebhooksInv'
<1>0. cutoffs' \in Nat /\ dropped \subseteq dropped' BY CutsStay DEF WebhooksInv, Save
<1>1. task[w].todo = {} /\ ~At(w, "idle") BY NothingToPost DEF Save, At
<1>2. CASE ~Fresh(w)
  BY <1>0, <1>1, <1>2, QuietEnd DEF Save
<1>3. CASE Fresh(w)
  <2>1. log' = task[w].events /\ version' = version + 1 /\ Dispatch(w) BY <1>3 DEF Save
  <2>2. /\ task[w].events \in Seq(Events) /\ task[w].previous = Len(log) /\ version \in Nat
        /\ Len(task[w].events) \in Nat /\ Len(log) \in Nat
    BY <1>3 DEF WebhooksInv, Typed, WriterState, WriterInv, CopyIsCurrent, Save
  <2>3. \A d \in Deliveries(w) : d[1] \in 1..Len(task[w].events) /\ d[1] > Len(log)
    BY <2>2 DEF Deliveries, NewEvents
  <2>4. Deliveries(w) \subseteq (Nat \X Subscriptions) BY <2>2 DEF Deliveries, NewEvents
  <2>5. ASSUME NEW n \in 1..Len(task[w].events), NEW s \in Subscriptions, n > Len(log),
               task[w].events[n].type \in Wanted[s]
        PROVE  <<n, s>> \in Deliveries(w)
    <3>1. task[w].events[n].type # "webhook_delivery" BY <2>5, WebhookAssumption
    <3> QED BY <2>2, <2>5, <3>1 DEF Deliveries, NewEvents
  <2>6. CASE Deliveries(w) = {}
    <3>1. Replaced(w, Idle) BY <2>1, <2>6, TaskEnds DEF WebhooksInv, Dispatch
    <3>2. Idle.step = "idle" /\ Idle.events = <<>> /\ Idle.todo = {} /\ Idle.version = 0
      BY DEF Idle, Saving
    <3>3. Idle.todo \subseteq (Nat \X Subscriptions)
          /\ \A d \in Idle.todo : d[1] \in 1..Len(task[w].events) /\ d[1] > Len(log)
      BY <3>2
    <3>4. \A n \in 1..Len(task[w].events), s \in Subscriptions :
            n > Len(log) /\ task[w].events[n].type \in Wanted[s] =>
              <<n, s>> \in Idle.todo \cup dropped'
      BY <2>5, <2>6, <3>2
    <3>5. UNCHANGED <<operations, history>> BY DEF Save
    <3> QED BY <1>0, <1>1, <1>3, <2>1, <3>1, <3>2, <3>3, <3>4, <3>5, Stores
  <2>7. CASE Deliveries(w) # {}
    <3> DEFINE q == Posting(task[w].events, version + 1, Deliveries(w), 1)
    <3>1. q \in WriterState
      <4>1. version + 1 \in Nat /\ Deliveries(w) \in SUBSET (Nat \X Subscriptions)
            /\ task[w].events \in Seq(Events) /\ 1 \in 1..MaxAttempts
        BY <2>2, <2>4, DefaultTypes
      <4> QED BY <4>1, PostingType
    <3>2. Replaced(w, q) BY <2>1, <2>7, <3>1, TaskReplaced DEF WebhooksInv, Dispatch
    <3>3. /\ q.step = "posting" /\ q.version = version + 1 /\ q.events = task[w].events
          /\ q.todo = Deliveries(w)
      BY <2>7 DEF Posting
    <3> HIDE DEF q
    <3> QED BY <1>0, <1>1, <1>3, <2>1, <2>3, <2>4, <2>5, <3>2, <3>3, Stores DEF Save
  <2> QED BY <2>6, <2>7
<1> QED BY <1>2, <1>3

\* A second save that is accepted, of a writer that ends with it.
LEMMA RecordStores ==
  ASSUME WebhooksInv, NEW w \in Writers, At(w, "recording"), Fresh(w), Ends(w),
         log' = task[w].events, version' = version + 1, UNCHANGED <<operations, history>>,
         cutoffs' \in Nat, dropped \subseteq dropped'
  PROVE  WebhooksInv'
<1>1. task[w].todo = {} /\ ~At(w, "idle") BY NothingToPost DEF At
<1>2. Replaced(w, Idle) BY TaskEnds DEF WebhooksInv
<1>3. Idle.step = "idle" /\ Idle.events = <<>> /\ Idle.todo = {} /\ Idle.version = 0
  BY DEF Idle, Saving
<1>4. ASSUME NEW n \in 1..Len(task[w].events), NEW s \in Subscriptions, n > Len(log)
      PROVE  task[w].events[n].type \notin Wanted[s]
  BY <1>4, WebhookAssumption DEF WebhooksInv, WriterInv, CopyIsCurrent, At
<1> QED BY <1>1, <1>2, <1>3, <1>4, Stores

LEMMA RecordKeeps ==
  ASSUME WebhooksInv, NEW w \in Writers, Record(w)
  PROVE  WebhooksInv'
<1>1. task[w].todo = {} BY NothingToPost DEF Record, At
<1>2. cutoffs' \in Nat /\ dropped \subseteq dropped' BY CutsStay DEF WebhooksInv, Record
<1>3. CASE UNCHANGED <<log, version>> BY <1>1, <1>2, <1>3, QuietEnd DEF Record
<1>4. CASE Fresh(w) /\ log' = task[w].events /\ version' = version + 1
  BY <1>2, <1>4, RecordStores DEF Record
<1> QED BY <1>3, <1>4 DEF Record

\* A first save that was made although its task was cancelled: its events are dropped.
LEMMA LostSaveKeeps ==
  ASSUME WebhooksInv, NEW w \in Writers, At(w, "saving"), Fresh(w), CutOff(w, Deliveries(w)),
         log' = task[w].events, version' = version + 1, UNCHANGED <<operations, history>>
  PROVE  WebhooksInv'
<1>1. task[w].todo = {} /\ ~At(w, "idle") BY NothingToPost DEF At
<1>2. Replaced(w, Idle) BY TaskEnds DEF WebhooksInv, CutOff
<1>3. Idle.step = "idle" /\ Idle.events = <<>> /\ Idle.todo = {} /\ Idle.version = 0
  BY DEF Idle, Saving
<1>4. cutoffs' \in Nat /\ dropped \subseteq dropped' /\ Deliveries(w) \subseteq dropped'
  BY DEF WebhooksInv, Typed, CutOff
<1>5. task[w].events \in Seq(Events) /\ task[w].previous = Len(log)
  BY DEF WebhooksInv, Typed, WriterState, WriterInv, CopyIsCurrent
<1>6. ASSUME NEW n \in 1..Len(task[w].events), NEW s \in Subscriptions, n > Len(log),
             task[w].events[n].type \in Wanted[s]
      PROVE  <<n, s>> \in Idle.todo \cup dropped'
  <2>1. task[w].events[n].type # "webhook_delivery" BY <1>6, WebhookAssumption
  <2>2. <<n, s>> \in Deliveries(w) BY <1>5, <1>6, <2>1 DEF Deliveries, NewEvents
  <2> QED BY <1>4, <2>2
<1> QED BY <1>1, <1>2, <1>3, <1>4, <1>6, Stores

\* A writer ends where it is, and what it had to post is dropped.
LEMMA CutKeeps ==
  ASSUME WebhooksInv, NEW w \in Writers, CutOff(w, task[w].todo),
         UNCHANGED <<log, version, operations, history>>
  PROVE  WebhooksInv'
<1>0. Typed /\ log' \in Seq(Events) /\ Extends(log', log)
  BY DEF WebhooksInv, Typed, Extends
<1>1. Replaced(w, Idle) BY TaskEnds DEF WebhooksInv, CutOff
<1>2. Idle.step = "idle" /\ Idle.events = <<>> /\ Idle.todo = {} /\ Idle.version = 0
  BY DEF Idle, Saving
<1>3. cutoffs' \in Nat /\ dropped' = dropped \cup task[w].todo
  BY DEF WebhooksInv, Typed, CutOff
<1>4. Typed' BY <1>1, <1>3 DEF WebhooksInv, Typed, Replaced, history
<1>5. TodoIsOwn' BY <1>1, <1>2 DEF WebhooksInv, TodoIsOwn, Replaced
<1>6. LogIsTrue' /\ ReceivedIsStored' /\ BeyondLogUntried' /\ KeyIsBounded'
  BY DEF WebhooksInv, LogIsTrue, Told, ReceivedIsStored, BeyondLogUntried, KeyIsBounded, history
<1>7. LostOnlyByCutoff' BY <1>1, <1>3, WhatIsLost DEF history
<1>8. WriterInv(w)'
  <2>1. task'[w] = Idle BY <1>1 DEF Replaced
  <2> QED BY <1>2, <1>4, <2>1, DefaultTypes
          DEF Typed, WriterInv, CopyIsCurrent, TodoIsStored, TodoIsUntried, CopyIsTrue, At
<1>9. ASSUME NEW u \in Writers, u # w PROVE WriterInv(u)'
  BY <1>0, <1>1, <1>9, OthersKeep DEF WebhooksInv, Replaced, history
<1> QED BY <1>4, <1>5, <1>6, <1>7, <1>8, <1>9 DEF WebhooksInv

LEMMA CancelKeeps ==
  ASSUME WebhooksInv, NEW w \in Writers, Cancel(w)
  PROVE  WebhooksInv'
<1>1. CASE CutOff(w, task[w].todo) /\ UNCHANGED <<log, version>>
  BY <1>1, CutKeeps DEF Cancel
<1>2. CASE /\ task[w].step \in {"saving", "recording"} /\ Fresh(w)
           /\ log' = task[w].events /\ version' = version + 1
           /\ CutOff(w, IF At(w, "saving") THEN Deliveries(w) ELSE {})
  <2>1. UNCHANGED <<operations, history>> BY DEF Cancel
  <2>2. CASE At(w, "saving")
    <3>1. CutOff(w, Deliveries(w)) BY <1>2, <2>2
    <3> QED BY <1>2, <2>1, <2>2, <3>1, LostSaveKeeps
  <2>3. CASE At(w, "recording")
    <3>1. cutoffs' \in Nat /\ dropped \subseteq dropped' /\ Ends(w)
      BY <1>2 DEF WebhooksInv, Typed, CutOff
    <3> QED BY <1>2, <2>1, <2>3, <3>1, RecordStores
  <2> QED BY <1>2, <2>2, <2>3 DEF At
<1> QED BY <1>1, <1>2 DEF Cancel

LEMMA CrashKeeps ==
  ASSUME WebhooksInv, Crash
  PROVE  WebhooksInv'
<1>1. Idle \in WriterState
  <2>1. "idle" \in TaskSteps /\ 0 \in Nat BY DEF TaskSteps
  <2> QED BY <2>1, SavingType, DefaultTypes DEF Idle
<1>2. Idle.step = "idle" /\ Idle.events = <<>> /\ Idle.todo = {} /\ Idle.version = 0
  BY DEF Idle, Saving
<1>3. Typed' BY <1>1 DEF WebhooksInv, Typed, Crash, history
<1>4. TodoIsOwn' BY <1>2 DEF TodoIsOwn, Crash
<1>5. LogIsTrue' /\ ReceivedIsStored' /\ BeyondLogUntried' /\ KeyIsBounded'
  BY DEF WebhooksInv, LogIsTrue, Told, ReceivedIsStored, BeyondLogUntried, KeyIsBounded, Crash,
         history
<1>6. LostOnlyByCutoff'
  <2> SUFFICES ASSUME NEW n \in DOMAIN log, NEW s \in Subscriptions,
                      log[n].type \in Wanted[s], <<s, n>> \notin settled, <<n, s>> \notin dropped
               PROVE  <<n, s>> \in dropped'
    BY DEF LostOnlyByCutoff, Crash, history
  <2>1. PICK u \in Writers : <<n, s>> \in task[u].todo
    BY DEF WebhooksInv, LostOnlyByCutoff
  <2> QED BY <2>1 DEF Crash
<1>7. ASSUME NEW w \in Writers PROVE WriterInv(w)'
  <2>1. task'[w] = Idle BY DEF Crash
  <2> QED
    BY <1>2, <1>3, <2>1, DefaultTypes
       DEF Typed, WriterInv, CopyIsCurrent, TodoIsStored, TodoIsUntried, CopyIsTrue, At
<1> QED BY <1>3, <1>4, <1>5, <1>6, <1>7 DEF WebhooksInv
-----------------------------------------------------------------------------
(* Posting *)

\* A post of delivery d by writer w, which goes on as q.
Posts(w, d, q) ==
  /\ At(w, "posting") /\ d \in task[w].todo /\ Due(w, d)
  /\ posts' = [posts EXCEPT ![d] = @ + 1]
  /\ received' \in {received, received \cup {<<d[2], d[1], task[w].events[d[1]]>>}}
  /\ Replaced(w, q)
  /\ cutoffs' \in Nat
  /\ UNCHANGED <<log, version, operations>>

\* What holds of the posts, of the other writers and of the log whatever the answer is.
LEMMA PostFrame ==
  ASSUME WebhooksInv, NEW w \in Writers, NEW d, NEW STATE q, Posts(w, d, q),
         q.todo \subseteq task[w].todo
  PROVE  /\ Typed' /\ TodoIsOwn' /\ LogIsTrue' /\ ReceivedIsStored'
         /\ BeyondLogUntried' /\ KeyIsBounded'
         /\ \A u \in Writers : u # w => WriterInv(u)'
         /\ \A e \in task[w].todo : e # d /\ e[1] \in Numbers => posts'[e] = 0
         /\ d[1] \in Numbers => posts'[d] <= task[w].attempt /\ posts'[d] \in Nat
<1>1. /\ task[w] \in WriterState /\ log \in Seq(Events) /\ Len(log) \in Nat
      /\ task[w].todo \in SUBSET (Nat \X Subscriptions)
      /\ task[w].attempt \in 1..MaxAttempts
      /\ d \in Nat \X Subscriptions /\ d[1] \in Nat /\ d[2] \in Subscriptions
      /\ d = <<d[1], d[2]>>
  <2>1. task[w] \in WriterState /\ log \in Seq(Events) /\ Len(log) \in Nat
    BY DEF WebhooksInv, Typed
  <2>2. task[w].todo \in SUBSET (Nat \X Subscriptions) /\ task[w].attempt \in 1..MaxAttempts
    BY <2>1 DEF WriterState
  <2> QED BY <2>1, <2>2 DEF Posts
<1>2. \A e \in Numbers \X Subscriptions :
        posts[e] \in Nat /\ posts'[e] = IF e = d THEN posts[e] + 1 ELSE posts[e]
  BY DEF WebhooksInv, Typed, Posts
<1>3. Typed'
  <2>1. posts' \in [Numbers \X Subscriptions -> Nat]
    <3> DEFINE Keys == Numbers \X Subscriptions
    <3>1. posts \in [Keys -> Nat] /\ posts' = [posts EXCEPT ![d] = @ + 1]
      BY DEF WebhooksInv, Typed, Posts
    <3>2. \A e \in Keys : posts'[e] \in Nat
      <4> SUFFICES ASSUME NEW e \in Keys PROVE posts'[e] \in Nat OBVIOUS
      <4> QED BY <1>2
    <3> HIDE DEF Keys
    <3>3. posts' = [e \in Keys |-> posts'[e]] BY <3>1
    <3>4. posts' \in [Keys -> Nat] BY <3>2, <3>3
    <3> QED BY <3>4 DEF Keys
  <2> QED BY <2>1 DEF WebhooksInv, Typed, Posts, Replaced
<1>4. TodoIsOwn' BY DEF WebhooksInv, TodoIsOwn, Posts, Replaced
<1>5. d[1] \in 1..Len(log) /\ task[w].events[d[1]] = log[d[1]] /\ received \subseteq received'
  BY DEF WebhooksInv, WriterInv, TodoIsStored, Posts
<1>6. LogIsTrue' BY <1>5 DEF WebhooksInv, LogIsTrue, Told, Posts
<1>7. ReceivedIsStored' BY <1>5 DEF WebhooksInv, ReceivedIsStored, Posts
<1>8. BeyondLogUntried'
  <2>1. ~(d[1] > Len(log)) BY <1>1, <1>5
  <2> QED BY <1>2, <2>1 DEF WebhooksInv, BeyondLogUntried, Posts
<1>9. d[1] \in Numbers => d \in Numbers \X Subscriptions /\ posts[d] <= task[w].attempt - 1
  BY <1>1 DEF WebhooksInv, WriterInv, TodoIsUntried, Posts
<1>10. KeyIsBounded'
  BY <1>1, <1>2, <1>9, DefaultTypes DEF WebhooksInv, KeyIsBounded
<1>11. ASSUME NEW e \in task[w].todo, e # d, e[1] \in Numbers
       PROVE  posts'[e] = 0
  <2>1. e \in Nat \X Subscriptions /\ e = <<e[1], e[2]>> /\ e[2] \in Subscriptions
    BY <1>1
  <2>2. ~Due(w, e)
    <3>1. d[1] < e[1] \/ (d[1] = e[1] /\ d[2] <= e[2]) BY DEF Posts, Due
    <3>2. SUFFICES ASSUME e[1] < d[1] \/ (d[1] = e[1] /\ e[2] <= d[2]) PROVE FALSE
      BY DEF Posts, Due
    <3>3. d[1] \in Nat /\ d[2] \in Nat /\ e[1] \in Nat /\ e[2] \in Nat
      BY <1>1, <2>1, DefaultTypes
    <3>4. d[1] = e[1] /\ d[2] = e[2] BY <3>1, <3>2, <3>3
    <3>5. d = e BY <1>1, <2>1, <3>4
    <3> QED BY <1>11, <3>5
  <2>3. posts[e] <= 0
    BY <1>11, <2>2 DEF WebhooksInv, WriterInv, TodoIsUntried
  <2>4. e \in Numbers \X Subscriptions BY <1>11, <2>1
  <2> QED BY <1>2, <1>11, <2>3, <2>4
<1>12. ASSUME NEW u \in Writers, u # w PROVE WriterInv(u)'
  <2>1. ASSUME NEW e \in task[u].todo, e[1] \in Numbers
        PROVE  posts'[e] = posts[e]
    <3>1. e # d BY <1>12 DEF WebhooksInv, TodoIsOwn, Posts
    <3>2. task[u].todo \in SUBSET (Nat \X Subscriptions)
      BY DEF WebhooksInv, Typed, WriterState
    <3>3. e \in Numbers \X Subscriptions BY <2>1, <3>2
    <3> QED BY <1>2, <3>1, <3>3
  <2>2. log' \in Seq(Events) /\ Extends(log', log) BY <1>1 DEF Posts, Extends
  <2> QED BY <1>5, <1>12, <2>1, <2>2, OthersKeep DEF WebhooksInv, Posts, Replaced
<1> QED BY <1>1, <1>2, <1>3, <1>4, <1>6, <1>7, <1>8, <1>9, <1>10, <1>11, <1>12
\* The delivery is over; if it is called delivered, the receiver has seen the event.
LEMMA SettleKeeps ==
  ASSUME WebhooksInv, NEW w \in Writers, NEW d, NEW delivered \in BOOLEAN,
         At(w, "posting"), d \in task[w].todo, Due(w, d),
         posts' = [posts EXCEPT ![d] = @ + 1],
         received' \in {received, received \cup {<<d[2], d[1], task[w].events[d[1]]>>}},
         delivered = TRUE => <<d[2], d[1], task[w].events[d[1]]>> \in received',
         Settle(w, d, delivered),
         UNCHANGED <<log, version, operations, cuts>>
  PROVE  WebhooksInv'
<1> DEFINE e == Delivery(d[1], d[2], delivered)
           events == Append(task[w].events, e)
           todo == task[w].todo \ {d}
           q == Posting(events, task[w].version, todo, 1)
<1>1. /\ task[w].events \in Seq(Events) /\ task[w].version \in Nat
      /\ task[w].todo \in SUBSET (Nat \X Subscriptions)
      /\ Len(task[w].events) \in Nat /\ Len(log) \in Nat
  BY DEF WebhooksInv, Typed, WriterState
<1>2. d = <<d[1], d[2]>> /\ d[1] \in Nat /\ d[2] \in Subscriptions /\ d[2] \in Nat
  BY <1>1, DefaultTypes
<1>3. /\ e \in Events /\ e.type = "webhook_delivery" /\ e.of = d[1] /\ e.to = d[2]
      /\ e.delivered = delivered
  BY <1>2, DefaultTypes DEF Delivery, Events, NoOperation
<1>4. Becomes(w, q) /\ settled' = settled \cup {<<d[2], d[1]>>} BY DEF Settle
<1>0. events = Append(task[w].events, e) OBVIOUS
<1> HIDE DEF e, events
<1>5. /\ events \in Seq(Events)
      /\ \A n \in 1..Len(task[w].events) : n \in 1..Len(events) /\ events[n] = task[w].events[n]
      /\ \A n \in 1..Len(events) :
           \/ n \in 1..Len(task[w].events) /\ events[n] = task[w].events[n]
           \/ events[n] = e
      /\ \A l \in Seq(Events) : Extends(task[w].events, l) => Extends(events, l)
  <2>1. Adds(events, task[w].events, e) BY <1>0, <1>1, <1>3, Appended
  <2> QED BY <2>1 DEF Adds
<1>6. todo \in SUBSET (Nat \X Subscriptions) BY <1>1
<1>7. /\ q.step = (IF todo = {} THEN "recording" ELSE "posting") /\ q.events = events
      /\ q.version = task[w].version /\ q.todo = todo /\ q.attempt = 1
  BY DEF Posting
<1>8. q \in WriterState
  <2>1. 1 \in 1..MaxAttempts BY DefaultTypes
  <2> HIDE DEF todo
  <2> QED BY <1>1, <1>5, <1>6, <2>1, PostingType
<1> HIDE DEF q
<1>9. Replaced(w, q) BY <1>4, <1>8, TaskReplaced DEF WebhooksInv
<1>10. Posts(w, d, q) /\ q.todo \subseteq task[w].todo
  BY <1>7, <1>9, CutsStay DEF WebhooksInv, Posts
<1>11. /\ Typed' /\ TodoIsOwn' /\ LogIsTrue' /\ ReceivedIsStored'
       /\ BeyondLogUntried' /\ KeyIsBounded'
       /\ \A u \in Writers : u # w => WriterInv(u)'
       /\ \A f \in task[w].todo : f # d /\ f[1] \in Numbers => posts'[f] = 0
  BY <1>10, PostFrame
<1>12. CopyIsCurrent(w)'
  <2>1. /\ task'[w].version = task[w].version /\ task'[w].version <= version'
        /\ task'[w].events = events /\ ~At(w, "idle") /\ ~At(w, "saving")'
        /\ Fresh(w)' = Fresh(w)
    BY <1>7, <1>9 DEF WebhooksInv, WriterInv, CopyIsCurrent, Replaced, At, Fresh
  <2>2. ASSUME Fresh(w)
        PROVE  /\ Extends(events, log)
               /\ \A n \in 1..Len(events) : n > Len(log) => events[n].type = "webhook_delivery"
    <3>1. /\ Extends(task[w].events, log)
          /\ \A n \in 1..Len(task[w].events) :
               n > Len(log) => task[w].events[n].type = "webhook_delivery"
      BY <2>1, <2>2 DEF WebhooksInv, WriterInv, CopyIsCurrent, At
    <3>2. Extends(events, log)
      <4>1. log \in Seq(Events) BY DEF WebhooksInv, Typed
      <4> QED BY <1>5, <3>1, <4>1
    <3>3. ASSUME NEW n \in 1..Len(events), n > Len(log)
          PROVE  events[n].type = "webhook_delivery"
      BY <1>3, <1>5, <3>1, <3>3
    <3> QED BY <3>2, <3>3
  <2> QED BY <2>1, <2>2 DEF CopyIsCurrent, Extends
<1>13. TodoIsStored(w)'
  <2>1. task'[w].todo = todo /\ task'[w].events = events /\ (todo # {} => At(w, "posting")')
    BY <1>7, <1>9 DEF Replaced, At
  <2>2. ASSUME NEW f \in todo
        PROVE  f[1] \in 1..Len(log) /\ f[1] <= Len(events) /\ events[f[1]] = log[f[1]]
    <3>1. /\ f[1] \in 1..Len(log) /\ f[1] <= Len(task[w].events)
          /\ task[w].events[f[1]] = log[f[1]]
      BY DEF WebhooksInv, WriterInv, TodoIsStored
    <3>2. f[1] \in 1..Len(task[w].events) BY <1>1, <3>1
    <3>3. f[1] \in 1..Len(events) /\ events[f[1]] = log[f[1]] BY <1>5, <3>1, <3>2
    <3> QED BY <3>1, <3>3
  <2> HIDE DEF todo
  <2> QED BY <2>1, <2>2 DEF TodoIsStored
<1>14. TodoIsUntried(w)'
  BY <1>7, <1>9, <1>11 DEF TodoIsUntried, Replaced
<1>15. CopyIsTrue(w)'
  <2> SUFFICES ASSUME NEW n \in 1..Len(events), events[n].delivered = TRUE
               PROVE  \E r \in received' : r[1] = events[n].to /\ r[2] = events[n].of
    BY <1>7, <1>9 DEF CopyIsTrue, Told, Replaced
  <2>1. CASE n \in 1..Len(task[w].events) /\ events[n] = task[w].events[n]
    <3>1. PICK r \in received : r[1] = events[n].to /\ r[2] = events[n].of
      BY <2>1 DEF WebhooksInv, WriterInv, CopyIsTrue, Told
    <3> QED BY <3>1
  <2>2. CASE events[n] = e
    <3>1. delivered = TRUE BY <1>3, <2>2
    <3>2. <<d[2], d[1], task[w].events[d[1]]>> \in received' BY <3>1
    <3> QED BY <1>3, <2>2, <3>2
  <2> QED BY <1>5, <2>1, <2>2
<1>16. LostOnlyByCutoff'
  <2> SUFFICES ASSUME NEW n \in DOMAIN log, NEW s \in Subscriptions,
                      log[n].type \in Wanted[s], <<s, n>> \notin settled', <<n, s>> \notin dropped
               PROVE  \E u \in Writers : <<n, s>> \in task'[u].todo
    BY DEF LostOnlyByCutoff, cuts
  <2>1. PICK u \in Writers : <<n, s>> \in task[u].todo
    BY <1>4 DEF WebhooksInv, LostOnlyByCutoff
  <2>2. <<n, s>> # d BY <1>4
  <2> QED BY <1>7, <1>9, <2>1, <2>2 DEF Replaced
<1> QED BY <1>11, <1>12, <1>13, <1>14, <1>15, <1>16 DEF WebhooksInv, WriterInv

\* The delivery stays due, for another attempt.
LEMMA RetryKeeps ==
  ASSUME WebhooksInv, NEW w \in Writers, NEW d,
         At(w, "posting"), d \in task[w].todo, Due(w, d),
         posts' = [posts EXCEPT ![d] = @ + 1],
         received' \in {received, received \cup {<<d[2], d[1], task[w].events[d[1]]>>}},
         Retry(w),
         UNCHANGED <<log, version, operations, cuts>>
  PROVE  WebhooksInv'
<1> DEFINE q == Posting(task[w].events, task[w].version, task[w].todo, task[w].attempt + 1)
<1>1. /\ task[w].events \in Seq(Events) /\ task[w].version \in Nat
      /\ task[w].todo \in SUBSET (Nat \X Subscriptions)
      /\ task[w].attempt \in 1..MaxAttempts /\ task[w].attempt + 1 \in 1..MaxAttempts
  <2>1. task[w].attempt \in 1..MaxAttempts /\ task[w].attempt < MaxAttempts
    BY DEF WebhooksInv, Typed, WriterState, Retry
  <2>2. task[w].attempt + 1 \in 1..MaxAttempts BY <2>1, DefaultTypes
  <2> QED BY <2>1, <2>2 DEF WebhooksInv, Typed, WriterState
<1>2. q \in WriterState BY <1>1, PostingType
<1>3. /\ q.step = "posting" /\ q.events = task[w].events /\ q.version = task[w].version
      /\ q.todo = task[w].todo /\ q.attempt = task[w].attempt + 1
  BY DEF Posting
<1>4. Becomes(w, q) /\ settled' = settled BY DEF Retry
<1> HIDE DEF q
<1>5. Replaced(w, q) BY <1>2, <1>4, TaskReplaced DEF WebhooksInv
<1>6. Posts(w, d, q) /\ q.todo \subseteq task[w].todo
  BY <1>3, <1>5, CutsStay DEF WebhooksInv, Posts
<1>7. /\ Typed' /\ TodoIsOwn' /\ LogIsTrue' /\ ReceivedIsStored'
      /\ BeyondLogUntried' /\ KeyIsBounded' /\ received \subseteq received'
      /\ \A u \in Writers : u # w => WriterInv(u)'
      /\ \A e \in task[w].todo : e # d /\ e[1] \in Numbers => posts'[e] = 0
      /\ d[1] \in Numbers => posts'[d] <= task[w].attempt
  BY <1>6, PostFrame
<1>8. CopyIsCurrent(w)' /\ TodoIsStored(w)'
  BY <1>3, <1>5
     DEF WebhooksInv, WriterInv, CopyIsCurrent, TodoIsStored, Replaced, At, Fresh, Extends
<1>9. TodoIsUntried(w)'
  <2> SUFFICES ASSUME NEW e \in task[w].todo, e[1] \in Numbers
               PROVE  posts'[e] <= (IF Due(w, e) THEN task[w].attempt ELSE 0)
    <3>1. /\ task'[w].todo = task[w].todo /\ task'[w].attempt - 1 = task[w].attempt
          /\ \A e \in task[w].todo : Due(w, e)' = Due(w, e)
      BY <1>1, <1>3, <1>5 DEF Replaced, Due
    <3> QED BY <3>1 DEF TodoIsUntried
  <2> QED BY <1>1, <1>7
<1>10. CopyIsTrue(w)'
  BY <1>3, <1>5, <1>7 DEF WebhooksInv, WriterInv, CopyIsTrue, Told, Replaced
<1>11. LostOnlyByCutoff'
  <2> SUFFICES ASSUME NEW n \in DOMAIN log, NEW s \in Subscriptions,
                      log[n].type \in Wanted[s], <<s, n>> \notin settled, <<n, s>> \notin dropped
               PROVE  \E u \in Writers : <<n, s>> \in task'[u].todo
    BY <1>4 DEF LostOnlyByCutoff, cuts
  <2>1. PICK u \in Writers : <<n, s>> \in task[u].todo
    BY DEF WebhooksInv, LostOnlyByCutoff
  <2> QED BY <1>3, <1>5, <2>1 DEF Replaced
<1> QED BY <1>7, <1>8, <1>9, <1>10, <1>11 DEF WebhooksInv, WriterInv

LEMMA PostKeeps ==
  ASSUME WebhooksInv, NEW w \in Writers, Post(w)
  PROVE  WebhooksInv'
<1>1. PICK d \in task[w].todo, answer \in {"accepted", "refused", "busy", "lost"} :
        /\ Due(w, d) /\ posts' = [posts EXCEPT ![d] = @ + 1]
        /\ \/ received' = received \cup {<<d[2], d[1], task[w].events[d[1]]>>}
           \/ answer # "accepted" /\ UNCHANGED received
        /\ \/ answer \in {"accepted", "refused"} /\ Settle(w, d, Delivers(answer))
           \/ answer \in {"busy", "lost"} /\ TryAgain(w, d)
  BY DEF Post, Posted, Arrives
<1>2. At(w, "posting") /\ UNCHANGED <<log, version, operations, cuts>> BY DEF Post
<1>3. /\ received' \in {received, received \cup {<<d[2], d[1], task[w].events[d[1]]>>}}
      /\ answer = "accepted" => <<d[2], d[1], task[w].events[d[1]]>> \in received'
  BY <1>1
<1>4. CASE answer = "accepted" /\ Settle(w, d, TRUE)
  BY <1>1, <1>2, <1>3, <1>4, SettleKeeps
<1>5. CASE Settle(w, d, FALSE)
  BY <1>1, <1>2, <1>3, <1>5, SettleKeeps
<1>6. CASE Retry(w)
  BY <1>1, <1>2, <1>3, <1>6, RetryKeeps
<1>7. CASE answer = "accepted"
  <2>1. Delivers(answer) = TRUE BY <1>7 DEF Delivers
  <2>2. Settle(w, d, Delivers(answer)) BY <1>1, <1>7
  <2> QED BY <1>4, <1>7, <2>1, <2>2
<1>8. CASE answer = "refused"
  <2>1. Delivers(answer) = FALSE BY <1>8 DEF Delivers
  <2>2. Settle(w, d, Delivers(answer)) BY <1>1, <1>8
  <2> QED BY <1>5, <2>1, <2>2
<1>9. CASE answer \in {"busy", "lost"}
  <2>1. TryAgain(w, d) BY <1>1, <1>9
  <2> QED BY <1>5, <1>6, <2>1 DEF TryAgain
<1> QED BY <1>7, <1>8, <1>9

LEMMA PostRaisesKeeps ==
  ASSUME WebhooksInv, NEW w \in Writers, PostRaises(w)
  PROVE  WebhooksInv'
<1>1. PICK d \in task[w].todo :
        /\ Due(w, d) /\ posts' = [posts EXCEPT ![d] = @ + 1]
        /\ received' \in {received, received \cup {<<d[2], d[1], task[w].events[d[1]]>>}}
  BY DEF PostRaises, Posted, Arrives
<1>2. /\ At(w, "posting") /\ UNCHANGED <<log, version, operations, settled>> /\ Ends(w)
      /\ cutoffs' \in Nat /\ dropped' = dropped \cup task[w].todo
  BY DEF WebhooksInv, Typed, PostRaises, CutOff
<1>3. Replaced(w, Idle) BY <1>2, TaskEnds DEF WebhooksInv
<1>4. Idle.step = "idle" /\ Idle.events = <<>> /\ Idle.todo = {} /\ Idle.version = 0
  BY DEF Idle, Saving
<1>5. Posts(w, d, Idle) /\ Idle.todo \subseteq task[w].todo BY <1>1, <1>2, <1>3, <1>4 DEF Posts
<1>6. /\ Typed' /\ TodoIsOwn' /\ LogIsTrue' /\ ReceivedIsStored'
      /\ BeyondLogUntried' /\ KeyIsBounded'
      /\ \A u \in Writers : u # w => WriterInv(u)'
  <2> HIDE DEF Idle
  <2> QED BY <1>5, PostFrame
<1>7. LostOnlyByCutoff' BY <1>2, <1>3, WhatIsLost
<1>8. WriterInv(w)'
  <2>1. task'[w] = Idle BY <1>3 DEF Replaced
  <2> QED BY <1>4, <1>6, <2>1, DefaultTypes
          DEF Typed, WriterInv, CopyIsCurrent, TodoIsStored, TodoIsUntried, CopyIsTrue, At
<1> QED BY <1>6, <1>7, <1>8 DEF WebhooksInv
-----------------------------------------------------------------------------
LEMMA InitWebhooks == ASSUME Init PROVE WebhooksInv
<1>1. Idle \in WriterState
  <2>1. "idle" \in TaskSteps /\ 0 \in Nat BY DEF TaskSteps
  <2> QED BY <2>1, SavingType, DefaultTypes DEF Idle
<1>2. Idle.step = "idle" /\ Idle.events = <<>> /\ Idle.todo = {} /\ Idle.version = 0
  BY DEF Idle, Saving
<1>3. Typed
  <2>1. log \in Seq(Events) /\ version \in Nat /\ operations \in 0..MaxOperations
        /\ cutoffs \in Nat
    BY DefaultTypes DEF Init
  <2>2. task \in [Writers -> WriterState] BY <1>1 DEF Init
  <2>3. posts \in [Numbers \X Subscriptions -> Nat] BY DEF Init
  <2> QED BY <2>1, <2>2, <2>3 DEF Typed
<1>4. TodoIsOwn /\ LogIsTrue /\ ReceivedIsStored /\ BeyondLogUntried
  BY <1>2, DefaultTypes DEF Init, TodoIsOwn, LogIsTrue, ReceivedIsStored, BeyondLogUntried
<1>5. KeyIsBounded /\ LostOnlyByCutoff
  <2>1. DOMAIN log = {} BY DEF Init
  <2> QED BY <2>1, DefaultTypes DEF Init, KeyIsBounded, LostOnlyByCutoff
<1>6. ASSUME NEW w \in Writers PROVE WriterInv(w)
  <2>1. task[w] = Idle BY DEF Init
  <2> QED
    BY <1>2, <1>3, <2>1, DefaultTypes
       DEF Typed, WriterInv, CopyIsCurrent, TodoIsStored, TodoIsUntried, CopyIsTrue, At
<1> QED BY <1>3, <1>4, <1>5, <1>6 DEF WebhooksInv

LEMMA StepWebhooks == ASSUME WebhooksInv, [Next]_vars PROVE WebhooksInv'
<1>1. ASSUME NEW w \in Writers, Load(w) \/ Operate(w) \/ Step(w) PROVE WebhooksInv'
  BY <1>1, LoadKeeps, OperateKeeps, ReadPreviousKeeps, SaveKeeps, PostKeeps, RecordKeeps DEF Step
<1>2. ASSUME NEW w \in Writers, Cancel(w) \/ PostRaises(w) PROVE WebhooksInv'
  BY <1>2, CancelKeeps, PostRaisesKeeps
<1>3. CASE UNCHANGED vars
  <2>1. UNCHANGED <<log, version, task, operations, cutoffs, posts, received, settled, dropped>>
    BY <1>3 DEF vars
  <2>2. Typed' BY <2>1 DEF WebhooksInv, Typed
  <2>3. TodoIsOwn' /\ LogIsTrue' /\ ReceivedIsStored' /\ BeyondLogUntried'
    BY <2>1 DEF WebhooksInv, TodoIsOwn, LogIsTrue, Told, ReceivedIsStored, BeyondLogUntried
  <2>4. KeyIsBounded' /\ LostOnlyByCutoff'
    BY <2>1 DEF WebhooksInv, KeyIsBounded, LostOnlyByCutoff
  <2>5. Extends(log', log) /\ log' \in Seq(Events) BY <2>1 DEF WebhooksInv, Typed, Extends
  <2>6. ASSUME NEW w \in Writers PROVE WriterInv(w)'
    BY <2>1, <2>5, OthersKeep DEF WebhooksInv
  <2> QED BY <2>2, <2>3, <2>4, <2>6 DEF WebhooksInv
<1> QED BY <1>1, <1>3, <1>2, CrashKeeps DEF Next

LEMMA WebhooksInvHolds == Spec => []WebhooksInv
<1>1. Init => WebhooksInv BY InitWebhooks
<1>2. WebhooksInv /\ [Next]_vars => WebhooksInv' BY StepWebhooks
<1> QED BY <1>1, <1>2, PTL DEF Spec

\* For any writers, subscriptions, event types and attempts, and with any number of
\* crashes, cancelled tasks and exceptions: what a receiver was told is stored under the
\* number it was given (put_session of WebhookDispatchingStore).
THEOREM WhatIsPostedIsStored == Spec => []PostsAreStored
<1>1. WebhooksInv => PostsAreStored BY DEF WebhooksInv, ReceivedIsStored, PostsAreStored
<1> QED BY <1>1, WebhooksInvHolds, PTL

\* One delivery is posted max_attempts times at most (_deliver_one), whoever saves at
\* the same time.
THEOREM KeysAreBounded == Spec => []KeyIsBounded
<1>1. WebhooksInv => KeyIsBounded BY DEF WebhooksInv
<1> QED BY <1>1, WebhooksInvHolds, PTL

\* What the stored log calls delivered was received.
THEOREM AuditTellsTheTruth == Spec => []AuditIsTrue
<1>1. WebhooksInv => AuditIsTrue
  <2> SUFFICES ASSUME WebhooksInv PROVE AuditIsTrue OBVIOUS
  <2>1. DOMAIN log = 1..Len(log) BY DEF WebhooksInv, Typed
  <2> QED BY <2>1 DEF WebhooksInv, LogIsTrue, Told, AuditIsTrue
<1> QED BY <1>1, WebhooksInvHolds, PTL

\* No stored event is forgotten: its deliveries are over, or somebody is making them, or
\* a crash, a cancellation or an exception ended the dispatch that had to make them.
THEOREM EventsAreLostOnlyByCutoff == Spec => []LostOnlyByCutoff
<1>1. WebhooksInv => LostOnlyByCutoff BY DEF WebhooksInv
<1> QED BY <1>1, WebhooksInvHolds, PTL
-----------------------------------------------------------------------------
(* The log's bound *)

Wide == Cardinality(Subscriptions)

\* The events that k operations can bring about.
Room(k) == k * (1 + Wide)

\* What the state t of a writer leaves room for, when the session has the given version
\* and n events after k operations; if its copy is the stored one, it differs from it by
\* the operation's event.
Fits(t, v, n, k) ==
  /\ IsFiniteSet(t.todo) /\ Len(t.events) + Cardinality(t.todo) <= Room(k)
  /\ t.step = "posting" <=> t.todo # {}
  /\ t.step \in {"reading", "saving"} => Len(t.events) + Wide <= Room(k)
  /\ t.version = v /\ t.step = "loaded" => Len(t.events) = n
  /\ t.version = v /\ t.step \in {"reading", "saving"} => Len(t.events) = n + 1

LogFits ==
  /\ Len(log) <= Room(operations)
  /\ \A w \in Writers : Fits(task[w], version, Len(log), operations)

Known ==
  /\ received \subseteq Subscriptions \X Nat \X Events
  /\ settled \subseteq Subscriptions \X Numbers
  /\ dropped \subseteq Numbers \X Subscriptions

LEMMA RoomGrows ==
  ASSUME NEW k \in Nat
  PROVE  /\ Wide \in Nat /\ Room(k) \in Nat /\ Room(k + 1) = Room(k) + 1 + Wide
         /\ k <= MaxOperations => Room(k) <= MaxEvents
<1>1. Wide \in Nat BY WebhookAssumption, FS_CardinalityType DEF Wide
<1>2. MaxEvents = Room(MaxOperations) BY DEF MaxEvents, Room, Wide
<1> DEFINE s == 1 + Wide
<1>3. s \in Nat /\ s >= 0 BY <1>1
<1>4. Room(k) = k * s /\ Room(k + 1) = (k + 1) * s /\ Room(MaxOperations) = MaxOperations * s
  BY DEF Room
<1>5. MaxOperations \in Nat BY WebhookAssumption
<1> HIDE DEF s
<1>6. k * s \in Nat /\ (k + 1) * s = k * s + s BY <1>3
<1>7. ASSUME k <= MaxOperations PROVE k * s <= MaxOperations * s
  <2>1. (MaxOperations - k) * s \in Nat BY <1>3, <1>5, <1>7
  <2>2. (MaxOperations - k) * s = MaxOperations * s - k * s BY <1>3, <1>5
  <2>3. MaxOperations * s \in Nat BY <1>3, <1>5
  <2> QED BY <1>6, <2>1, <2>2, <2>3
<1> QED BY <1>1, <1>2, <1>4, <1>6, <1>7 DEF s

\* A writer that waits is left the room it had: a save of another makes its copy old.
LEMMA StillFits ==
  ASSUME Typed, NEW u \in Writers, CopyIsCurrent(u), NEW t, t = task[u],
         NEW v, NEW n, NEW k \in Nat, NEW j \in Nat,
         Fits(t, version, n, k), j \in {k, k + 1},
         NEW m, (v = version /\ m = n) \/ v = version + 1
  PROVE  Fits(t, v, m, j)
<1>1. t.version <= version /\ t.version \in Nat /\ version \in Nat /\ Len(t.events) \in Nat
  BY DEF Typed, WriterState, CopyIsCurrent
<1>2. Cardinality(t.todo) \in Nat BY FS_CardinalityType DEF Fits
<1>3. Room(k) \in Nat /\ Room(k) <= Room(j) /\ Room(j) \in Nat /\ Wide \in Nat BY RoomGrows
<1>4. (v = version /\ m = n) \/ t.version # v BY <1>1
<1> QED BY <1>1, <1>2, <1>3, <1>4 DEF Fits

LEMMA IdleFits ==
  ASSUME NEW t, t.step = "idle", t.events = <<>>, t.todo = {}, NEW v, NEW n, NEW k \in Nat
  PROVE  Fits(t, v, n, k)
BY RoomGrows, FS_EmptySet, DefaultTypes DEF Fits

\* One writer makes a step.
LEMMA WriterFits ==
  ASSUME WebhooksInv, LogFits, NEW w \in Writers, NEW q, Replaced(w, q),
         NEW n, n = Len(log'), operations' \in {operations, operations + 1},
         n <= Room(operations'), Fits(q, version', n, operations'),
         UNCHANGED <<log, version>> \/ version' = version + 1
  PROVE  LogFits'
<1>1. operations \in Nat /\ operations' \in Nat BY DefaultTypes DEF WebhooksInv, Typed
<1>2. ASSUME NEW u \in Writers PROVE Fits(task'[u], version', n, operations')
  <2>1. CASE u = w BY <2>1 DEF Replaced
  <2>2. CASE u # w
    <3>1. task'[u] = task[u] /\ CopyIsCurrent(u) /\ Fits(task[u], version, Len(log), operations)
      BY <2>2 DEF Replaced, WebhooksInv, WriterInv, LogFits
    <3>2. Typed /\ ((version' = version /\ n = Len(log)) \/ version' = version + 1)
      BY DEF WebhooksInv
    <3> HIDE DEF Fits
    <3> QED BY <1>1, <3>1, <3>2, StillFits
  <2> QED BY <2>1, <2>2
<1> QED BY <1>2 DEF LogFits

LEMMA LoadFits ==
  ASSUME WebhooksInv, LogFits, NEW w \in Writers, Load(w)
  PROVE  LogFits'
<1> DEFINE q == Saving("loaded", log, version, 0)
<1>0. Len(log) \in Nat /\ log \in Seq(Events) /\ version \in Nat /\ operations \in Nat
  BY DefaultTypes DEF WebhooksInv, Typed
<1>1. q \in WriterState
  <2>1. "loaded" \in TaskSteps /\ 0 \in Nat BY DEF TaskSteps
  <2> QED BY <1>0, <2>1, SavingType
<1>2. q.step = "loaded" /\ q.events = log /\ q.todo = {} BY DEF Saving
<1>3. Becomes(w, q) BY DEF Load
<1>4. UNCHANGED <<log, version, operations>> BY DEF Load
<1> HIDE DEF q
<1>5. Replaced(w, q) BY <1>1, <1>3, TaskReplaced DEF WebhooksInv
<1>6. Fits(q, version, Len(log), operations)
  BY <1>0, <1>2, FS_EmptySet, RoomGrows DEF Fits, LogFits
<1>7. Len(log) <= Room(operations) BY DEF LogFits
<1> QED BY <1>4, <1>5, <1>6, <1>7, WriterFits

LEMMA OperateFits ==
  ASSUME WebhooksInv, LogFits, NEW w \in Writers, Operate(w)
  PROVE  LogFits'
<1>1. PICK type \in Types :
        Becomes(w, Saving("reading", Append(task[w].events, Event(type, operations + 1)),
                          task[w].version, 0))
  BY DEF Operate
<1> DEFINE e == Event(type, operations + 1)
           events == Append(task[w].events, e)
           q == Saving("reading", events, task[w].version, 0)
<1>2. /\ operations \in Nat /\ operations + 1 \in 0..MaxOperations /\ operations' = operations + 1
      /\ operations' \in Nat
  BY DefaultTypes DEF WebhooksInv, Typed, Operate
<1>3. e \in Events BY <1>2 DEF Event, Events
<1>4. /\ task[w].events \in Seq(Events) /\ task[w].version \in Nat /\ Len(task[w].events) \in Nat
      /\ Len(log) \in Nat /\ task[w].step = "loaded"
  BY DEF WebhooksInv, Typed, WriterState, Operate, At
<1> HIDE DEF e
<1>5. events \in Seq(Events) /\ Len(events) = Len(task[w].events) + 1 BY <1>3, <1>4
<1> HIDE DEF events
<1>6. q \in WriterState
  <2>1. "reading" \in TaskSteps /\ 0 \in Nat BY DEF TaskSteps
  <2> QED BY <1>4, <1>5, <2>1, SavingType
<1>7. q.step = "reading" /\ q.events = events /\ q.version = task[w].version /\ q.todo = {}
  BY DEF Saving
<1>8. Becomes(w, q) BY <1>1 DEF e, events
<1>9. UNCHANGED <<log, version>> BY DEF Operate
<1> HIDE DEF q
<1>10. Replaced(w, q) BY <1>6, <1>8, TaskReplaced DEF WebhooksInv
<1>11. /\ Room(operations) \in Nat /\ Room(operations') = Room(operations) + 1 + Wide
       /\ Wide \in Nat /\ Room(operations') \in Nat
  BY <1>2, RoomGrows
<1>12. Cardinality(task[w].todo) \in Nat /\ Fits(task[w], version, Len(log), operations)
  BY FS_CardinalityType DEF LogFits, Fits
<1>13. Fits(q, version, Len(log), operations')
  BY <1>4, <1>5, <1>7, <1>11, <1>12, FS_EmptySet DEF Fits
<1>14. Len(log) <= Room(operations') BY <1>4, <1>11 DEF LogFits
<1> QED BY <1>2, <1>9, <1>10, <1>13, <1>14, WriterFits

LEMMA ReadPreviousFits ==
  ASSUME WebhooksInv, LogFits, NEW w \in Writers, ReadPrevious(w)
  PROVE  LogFits'
<1> DEFINE q == Saving("saving", task[w].events, task[w].version, Len(log))
<1>1. q \in WriterState
  <2>1. "saving" \in TaskSteps /\ Len(log) \in Nat BY DEF TaskSteps, WebhooksInv, Typed
  <2>2. task[w].events \in Seq(Events) /\ task[w].version \in Nat
    BY DEF WebhooksInv, Typed, WriterState
  <2> QED BY <2>1, <2>2, SavingType
<1>2. Replaced(w, q) BY <1>1, TaskReplaced DEF WebhooksInv, ReadPrevious
<1>3. q.step = "saving" /\ q.events = task[w].events /\ q.version = task[w].version /\ q.todo = {}
  BY DEF Saving
<1>4. UNCHANGED <<log, version, operations>> /\ task[w].step = "reading" /\ task[w].todo = {}
  BY NothingToPost DEF ReadPrevious, At
<1> HIDE DEF q
<1>5. Fits(task[w], version, Len(log), operations) /\ Len(log) <= Room(operations) BY DEF LogFits
<1>6. Fits(q, version, Len(log), operations) BY <1>3, <1>4, <1>5 DEF Fits
<1> QED BY <1>2, <1>4, <1>5, <1>6, WriterFits

\* An accepted save has one new event, for each subscription at most.
LEMMA FewDeliveries ==
  ASSUME WebhooksInv, LogFits, NEW w \in Writers, Fresh(w), At(w, "saving")
  PROVE  IsFiniteSet(Deliveries(w)) /\ Cardinality(Deliveries(w)) <= Wide
<1> DEFINE n == Len(task[w].events)
<1>1. /\ n = Len(log) + 1 /\ Len(log) \in Nat /\ task[w].previous = Len(log)
      /\ DOMAIN task[w].events = 1..n
  BY DEF WebhooksInv, Typed, WriterState, WriterInv, CopyIsCurrent, LogFits, Fits, Fresh, At
<1>2. Deliveries(w) \in SUBSET ({n} \X Subscriptions)
  <2>1. ASSUME NEW i \in NewEvents(w) PROVE i = n BY <1>1 DEF NewEvents
  <2> QED BY <2>1 DEF Deliveries
<1> HIDE DEF n
<1>3. IsFiniteSet({n}) /\ Cardinality({n}) = 1 /\ IsFiniteSet(Subscriptions) /\ Wide \in Nat
  BY FS_Singleton, FS_CardinalityType, WebhookAssumption DEF Wide
<1>4. IsFiniteSet({n} \X Subscriptions) /\ Cardinality({n} \X Subscriptions) = 1 * Wide
  BY <1>3, FS_Product DEF Wide
<1>5. IsFiniteSet(Deliveries(w)) /\ Cardinality(Deliveries(w)) <= Cardinality({n} \X Subscriptions)
  BY <1>2, <1>4, FS_Subset
<1> QED BY <1>3, <1>4, <1>5

LEMMA SaveFits ==
  ASSUME WebhooksInv, LogFits, NEW w \in Writers, Save(w)
  PROVE  LogFits'
<1>1. /\ task[w].events \in Seq(Events) /\ Len(task[w].events) \in Nat /\ operations \in Nat
      /\ Len(log) \in Nat /\ version \in Nat /\ UNCHANGED operations /\ At(w, "saving")
  BY DefaultTypes DEF WebhooksInv, Typed, WriterState, Save
<1>2. /\ Fits(task[w], version, Len(log), operations) /\ Len(log) <= Room(operations)
      /\ Len(task[w].events) + Wide <= Room(operations)
  BY <1>1 DEF LogFits, Fits, At
<1>3. Room(operations) \in Nat /\ Wide \in Nat BY <1>1, RoomGrows
<1>4. Idle.step = "idle" /\ Idle.events = <<>> /\ Idle.todo = {} BY DEF Idle, Saving
<1>5. CASE ~Fresh(w)
  <2>1. Replaced(w, Idle) BY <1>5, TaskEnds DEF WebhooksInv, Save
  <2>2. UNCHANGED <<log, version>> BY <1>5 DEF Save
  <2>3. Fits(Idle, version, Len(log), operations) BY <1>1, <1>4, IdleFits
  <2> QED BY <1>1, <1>2, <2>1, <2>2, <2>3, WriterFits
<1>6. CASE Fresh(w)
  <2>1. log' = task[w].events /\ version' = version + 1 /\ Dispatch(w) BY <1>6 DEF Save
  <2>2. Len(log') <= Room(operations) BY <1>1, <1>2, <1>3, <2>1
  <2>3. CASE Deliveries(w) = {}
    <3>1. Replaced(w, Idle) BY <2>1, <2>3, TaskEnds DEF WebhooksInv, Dispatch
    <3>2. Fits(Idle, version', Len(log'), operations) BY <1>1, <1>4, IdleFits
    <3> QED BY <1>1, <2>1, <2>2, <3>1, <3>2, WriterFits
  <2>4. CASE Deliveries(w) # {}
    <3> DEFINE q == Posting(task[w].events, version + 1, Deliveries(w), 1)
    <3>1. q \in WriterState
      <4>1. Deliveries(w) \in SUBSET (Nat \X Subscriptions)
        BY <1>1 DEF Deliveries, NewEvents
      <4>2. version + 1 \in Nat /\ 1 \in 1..MaxAttempts BY <1>1, DefaultTypes
      <4> QED BY <1>1, <4>1, <4>2, PostingType
    <3>2. Replaced(w, q) BY <2>1, <2>4, <3>1, TaskReplaced DEF WebhooksInv, Dispatch
    <3>3. q.step = "posting" /\ q.events = task[w].events /\ q.todo = Deliveries(w)
      BY <2>4 DEF Posting
    <3>4. /\ IsFiniteSet(Deliveries(w)) /\ Cardinality(Deliveries(w)) <= Wide
          /\ Cardinality(Deliveries(w)) \in Nat
      BY <1>1, <1>6, FewDeliveries, FS_CardinalityType
    <3> HIDE DEF q
    <3>5. Fits(q, version', Len(log'), operations)
      BY <1>1, <1>2, <1>3, <2>4, <3>3, <3>4 DEF Fits
    <3> QED BY <1>1, <2>1, <2>2, <3>2, <3>5, WriterFits
  <2> QED BY <2>3, <2>4
<1> QED BY <1>5, <1>6

LEMMA RecordFits ==
  ASSUME WebhooksInv, LogFits, NEW w \in Writers, Record(w)
  PROVE  LogFits'
<1>1. /\ Len(task[w].events) \in Nat /\ operations \in Nat /\ Len(log) \in Nat
      /\ UNCHANGED operations /\ task[w].todo = {}
  <2>1. ~At(w, "posting") BY DEF Record, At
  <2>2. task[w].todo = {} BY <2>1, NothingToPost
  <2> QED BY <2>2, DefaultTypes DEF WebhooksInv, Typed, WriterState, Record
<1>2. Len(log) <= Room(operations) /\ Len(task[w].events) <= Room(operations)
  BY <1>1, FS_EmptySet DEF LogFits, Fits
<1>3. Idle.step = "idle" /\ Idle.events = <<>> /\ Idle.todo = {} BY DEF Idle, Saving
<1>4. Replaced(w, Idle) BY TaskEnds DEF WebhooksInv, Record
<1>5. Fits(Idle, version', Len(log'), operations) BY <1>1, <1>3, IdleFits
<1>6. \/ version' = version /\ log' = log
      \/ version' = version + 1 /\ log' = task[w].events
  BY DEF Record
<1> QED BY <1>1, <1>2, <1>4, <1>5, <1>6, WriterFits

LEMMA PostFits ==
  ASSUME WebhooksInv, LogFits, NEW w \in Writers, Post(w)
  PROVE  LogFits'
<1>1. PICK d \in task[w].todo, delivered \in BOOLEAN : Retry(w) \/ Settle(w, d, delivered)
  <2>1. PICK d \in task[w].todo, answer \in {"accepted", "refused", "busy", "lost"} :
          \/ answer \in {"accepted", "refused"} /\ Settle(w, d, Delivers(answer))
          \/ answer \in {"busy", "lost"} /\ TryAgain(w, d)
    BY DEF Post
  <2>2. Delivers(answer) \in BOOLEAN BY DEF Delivers
  <2> QED BY <2>1, <2>2 DEF TryAgain
<1>2. UNCHANGED <<log, version, operations>> /\ task[w].step = "posting" BY DEF Post, At
<1>3. /\ task[w].events \in Seq(Events) /\ task[w].version \in Nat /\ Len(task[w].events) \in Nat
      /\ task[w].todo \in SUBSET (Nat \X Subscriptions) /\ task[w].attempt \in 1..MaxAttempts
      /\ operations \in Nat
  BY DefaultTypes DEF WebhooksInv, Typed, WriterState
<1>4. /\ Len(log) <= Room(operations) /\ Fits(task[w], version, Len(log), operations)
      /\ Room(operations) \in Nat /\ Cardinality(task[w].todo) \in Nat
  BY <1>3, RoomGrows, FS_CardinalityType DEF LogFits, Fits
<1>5. CASE Retry(w)
  <2> DEFINE q == Posting(task[w].events, task[w].version, task[w].todo, task[w].attempt + 1)
  <2>1. task[w].attempt + 1 \in 1..MaxAttempts BY <1>3, <1>5, DefaultTypes DEF Retry
  <2>2. q \in WriterState BY <1>3, <2>1, PostingType
  <2>3. q.step = "posting" /\ q.events = task[w].events /\ q.todo = task[w].todo
    BY <1>1 DEF Posting
  <2>4. Becomes(w, q) BY <1>5 DEF Retry
  <2> HIDE DEF q
  <2>5. Replaced(w, q) BY <2>2, <2>4, TaskReplaced DEF WebhooksInv
  <2>6. Fits(q, version, Len(log), operations) BY <1>2, <1>4, <2>3 DEF Fits
  <2> QED BY <1>2, <1>4, <2>5, <2>6, WriterFits
<1>6. CASE Settle(w, d, delivered)
  <2> DEFINE e == Delivery(d[1], d[2], delivered)
             events == Append(task[w].events, e)
             todo == task[w].todo \ {d}
             q == Posting(events, task[w].version, todo, 1)
  <2>1. e \in Events
    <3>1. d[1] \in Nat /\ d[2] \in Nat BY <1>3, DefaultTypes
    <3> QED BY <3>1, DefaultTypes DEF Delivery, Events, NoOperation
  <2>2. Becomes(w, q) BY <1>6 DEF Settle
  <2> HIDE DEF e
  <2>3. events \in Seq(Events) /\ Len(events) = Len(task[w].events) + 1 BY <1>3, <2>1
  <2>4. /\ IsFiniteSet(todo) /\ Cardinality(todo) = Cardinality(task[w].todo) - 1
        /\ todo \in SUBSET (Nat \X Subscriptions)
    BY <1>1, <1>3, <1>4, FS_RemoveElement DEF Fits
  <2> HIDE DEF events, todo
  <2>5. q \in WriterState BY <1>3, <2>3, <2>4, PostingType, DefaultTypes
  <2>6. /\ q.step = (IF todo = {} THEN "recording" ELSE "posting")
        /\ q.events = events /\ q.todo = todo
    BY DEF Posting
  <2> HIDE DEF q
  <2>7. Replaced(w, q) BY <2>2, <2>5, TaskReplaced DEF WebhooksInv
  <2>8. Fits(q, version, Len(log), operations) BY <1>3, <1>4, <2>3, <2>4, <2>6 DEF Fits
  <2> QED BY <1>2, <1>4, <2>7, <2>8, WriterFits
<1> QED BY <1>1, <1>5, <1>6

LEMMA CancelFits ==
  ASSUME WebhooksInv, LogFits, NEW w \in Writers, Cancel(w) \/ PostRaises(w)
  PROVE  LogFits'
<1>1. /\ Len(task[w].events) \in Nat /\ operations \in Nat /\ Len(log) \in Nat
      /\ UNCHANGED operations
  BY DefaultTypes DEF WebhooksInv, Typed, WriterState, Cancel, PostRaises
<1>2. Len(log) <= Room(operations) /\ Len(task[w].events) <= Room(operations)
  <2>1. Fits(task[w], version, Len(log), operations) /\ Len(log) <= Room(operations)
    BY DEF LogFits
  <2>2. Cardinality(task[w].todo) \in Nat /\ Room(operations) \in Nat
    BY <1>1, <2>1, FS_CardinalityType, RoomGrows DEF Fits
  <2> QED BY <1>1, <2>1, <2>2 DEF Fits
<1>3. Idle.step = "idle" /\ Idle.events = <<>> /\ Idle.todo = {} BY DEF Idle, Saving
<1>4. Replaced(w, Idle) BY TaskEnds DEF WebhooksInv, Cancel, PostRaises, CutOff
<1>5. Fits(Idle, version', Len(log'), operations) BY <1>1, <1>3, IdleFits
<1>6. \/ version' = version /\ log' = log
      \/ version' = version + 1 /\ log' = task[w].events
  BY DEF Cancel, PostRaises
<1> QED BY <1>1, <1>2, <1>4, <1>5, <1>6, WriterFits

LEMMA StepFits == ASSUME WebhooksInv, LogFits, [Next]_vars PROVE LogFits'
<1>1. ASSUME NEW w \in Writers, Load(w) \/ Operate(w) \/ Step(w) PROVE LogFits'
  BY <1>1, LoadFits, OperateFits, ReadPreviousFits, SaveFits, PostFits, RecordFits DEF Step
<1>2. CASE Crash
  <2>1. operations \in Nat BY DefaultTypes DEF WebhooksInv, Typed
  <2>2. Idle.step = "idle" /\ Idle.events = <<>> /\ Idle.todo = {} BY DEF Idle, Saving
  <2>3. Fits(Idle, version, Len(log), operations) BY <2>1, <2>2, IdleFits
  <2>4. /\ \A w \in Writers : task'[w] = Idle
        /\ UNCHANGED <<log, version, operations>>
    BY <1>2 DEF Crash
  <2> QED BY <2>3, <2>4 DEF LogFits
<1>3. CASE UNCHANGED vars BY <1>3 DEF vars, LogFits
<1> QED BY <1>1, <1>2, <1>3, CancelFits DEF Next

\* What is posted has one of the numbers that the keys are counted for.
LEMMA LogIsNumbered ==
  ASSUME WebhooksInv, LogFits
  PROVE  Len(log) <= MaxEvents /\ 1..Len(log) \subseteq Numbers
<1>1. /\ operations \in Nat /\ operations <= MaxOperations /\ Len(log) \in Nat
      /\ MaxOperations \in Nat
  BY DefaultTypes DEF WebhooksInv, Typed
<1>2. Room(operations) \in Nat /\ Room(operations) <= MaxEvents BY <1>1, RoomGrows
<1>3. Room(MaxOperations) \in Nat /\ MaxEvents = Room(MaxOperations)
  BY <1>1, RoomGrows DEF MaxEvents, Room, Wide
<1>4. Len(log) <= MaxEvents BY <1>1, <1>2, <1>3 DEF LogFits
<1> QED BY <1>1, <1>3, <1>4 DEF Numbers

\* What a writer has to post is numbered, and what an accepted save gives it to post.
LEMMA TodoIsNumbered ==
  ASSUME WebhooksInv, LogFits, NEW w \in Writers
  PROVE  task[w].todo \subseteq Numbers \X Subscriptions
<1> SUFFICES ASSUME NEW d \in task[w].todo PROVE d \in Numbers \X Subscriptions OBVIOUS
<1>1. d \in Nat \X Subscriptions BY DEF WebhooksInv, Typed, WriterState
<1>2. d[1] \in 1..Len(log) BY DEF WebhooksInv, WriterInv, TodoIsStored
<1> QED BY <1>1, <1>2, LogIsNumbered

LEMMA LostIsNumbered ==
  ASSUME WebhooksInv, LogFits, NEW w \in Writers, Cancel(w)
  PROVE  dropped' \subseteq dropped \cup (Numbers \X Subscriptions)
<1>1. CASE CutOff(w, task[w].todo) BY <1>1, TodoIsNumbered DEF CutOff
<1>2. CASE CutOff(w, IF At(w, "saving") THEN Deliveries(w) ELSE {}) /\ log' = task[w].events
  <2>1. WebhooksInv' /\ LogFits' BY CancelKeeps, CancelFits
  <2>2. DOMAIN task[w].events = 1..Len(log') BY <1>2 DEF WebhooksInv, Typed, WriterState
  <2>3. 1..Len(log') \subseteq Numbers
    <3>1. (1..Len(log) \subseteq Numbers)' BY <2>1, LogIsNumbered, PTL
    <3> QED BY <3>1
  <2>4. Deliveries(w) \subseteq Numbers \X Subscriptions
    BY <2>2, <2>3 DEF Deliveries, NewEvents
  <2> QED BY <1>2, <2>4 DEF CutOff
<1> QED BY <1>1, <1>2 DEF Cancel

LEMMA StepKnown == ASSUME WebhooksInv, LogFits, Known, [Next]_vars PROVE Known'
<1>1. ASSUME NEW w \in Writers, NEW d \in task[w].todo,
             received' \in {received, received \cup {<<d[2], d[1], task[w].events[d[1]]>>}},
             settled' \in {settled, settled \cup {<<d[2], d[1]>>}},
             dropped' \subseteq dropped \cup (Numbers \X Subscriptions)
      PROVE  Known'
  <2>1. d \in Numbers \X Subscriptions BY TodoIsNumbered
  <2>2. d[2] \in Subscriptions /\ d[1] \in Numbers /\ d[1] \in Nat
    BY <2>1 DEF WebhooksInv, Typed, WriterState
  <2>3. d[1] \in 1..Len(log) /\ task[w].events[d[1]] = log[d[1]]
    BY DEF WebhooksInv, WriterInv, TodoIsStored
  <2>4. task[w].events[d[1]] \in Events BY <2>3 DEF WebhooksInv, Typed
  <2> QED BY <1>1, <2>2, <2>4 DEF Known
<1>2. ASSUME NEW w \in Writers, Post(w) PROVE Known'
  <2>1. PICK d \in task[w].todo :
          /\ received' \in {received, received \cup {<<d[2], d[1], task[w].events[d[1]]>>}}
          /\ settled' \in {settled, settled \cup {<<d[2], d[1]>>}}
    BY <1>2 DEF Post, Posted, Arrives, TryAgain, Retry, Settle
  <2>2. UNCHANGED dropped BY <1>2 DEF Post, cuts
  <2> QED BY <1>1, <2>1, <2>2
<1>3. ASSUME NEW w \in Writers, PostRaises(w) PROVE Known'
  <2>1. PICK d \in task[w].todo :
          received' \in {received, received \cup {<<d[2], d[1], task[w].events[d[1]]>>}}
    BY <1>3 DEF PostRaises, Posted, Arrives
  <2>2. settled' = settled /\ dropped' = dropped \cup task[w].todo
    BY <1>3 DEF PostRaises, CutOff
  <2>3. dropped' \subseteq dropped \cup (Numbers \X Subscriptions) BY <2>2, TodoIsNumbered
  <2> QED BY <1>1, <2>1, <2>2, <2>3
<1>4. ASSUME UNCHANGED <<received, settled>>,
             dropped' \subseteq dropped \cup (Numbers \X Subscriptions)
      PROVE  Known'
  BY <1>4 DEF Known
<1>5. ASSUME NEW w \in Writers, Load(w) \/ Operate(w) \/ ReadPrevious(w) \/ Save(w) \/ Record(w)
      PROVE  Known'
  <2>1. UNCHANGED <<received, settled, dropped>>
    BY <1>5 DEF Load, Operate, ReadPrevious, Save, Record, history, cuts
  <2> QED BY <1>4, <2>1
<1>6. ASSUME NEW w \in Writers, Cancel(w) PROVE Known'
  <2>1. UNCHANGED <<received, settled>> BY <1>6 DEF Cancel, history
  <2> QED BY <1>4, <1>6, <2>1, LostIsNumbered
<1>7. CASE Crash
  <2>1. UNION {task[w].todo : w \in Writers} \subseteq Numbers \X Subscriptions
    BY TodoIsNumbered
  <2> QED BY <1>4, <1>7, <2>1 DEF Crash, history
<1>8. CASE UNCHANGED vars
  <2>1. UNCHANGED <<received, settled, dropped>> BY <1>8 DEF vars
  <2> QED BY <1>4, <2>1
<1> QED BY <1>2, <1>3, <1>5, <1>6, <1>7, <1>8 DEF Next, Step

\* The log has no more events than the operations and their deliveries come to, so that
\* KeyIsBounded speaks of every key that is ever posted: a dispatch records one event per
\* subscription and none for the events of a dispatch (put_session, _deliver_one).
THEOREM WebhookTypesAreKept == Spec => []TypeOK
<1>1. Init => LogFits /\ Known
  <2> SUFFICES ASSUME Init PROVE LogFits /\ Known OBVIOUS
  <2>1. Idle.step = "idle" /\ Idle.events = <<>> /\ Idle.todo = {} BY DEF Idle, Saving
  <2>2. log = <<>> /\ operations = 0 /\ received = {} /\ settled = {} /\ dropped = {}
    BY DEF Init
  <2>3. 0 <= Room(0) /\ Len(log) = 0 BY <2>2, RoomGrows
  <2>4. Fits(Idle, version, Len(log), operations) BY <2>1, <2>2, IdleFits
  <2>5. \A w \in Writers : task[w] = Idle BY DEF Init
  <2> QED BY <2>2, <2>3, <2>4, <2>5 DEF LogFits, Known
<1>2. WebhooksInv /\ LogFits /\ Known /\ [Next]_vars => LogFits' /\ Known'
  BY StepFits, StepKnown
<1>3. WebhooksInv /\ LogFits /\ Known => TypeOK
  <2> SUFFICES ASSUME WebhooksInv, LogFits, Known PROVE TypeOK OBVIOUS
  <2>1. log \in Seq(Events) /\ Len(log) <= MaxEvents /\ version \in Nat
    BY LogIsNumbered DEF WebhooksInv, Typed
  <2>2. ASSUME NEW w \in Writers
        PROVE  /\ task[w].step \in TaskSteps /\ task[w].events \in Seq(Events)
               /\ task[w].attempt \in 1..MaxAttempts
               /\ At(w, "posting") <=> task[w].todo # {}
    BY DEF WebhooksInv, Typed, WriterState, LogFits, Fits, At
  <2>3. received \subseteq Subscriptions \X Numbers \X Events
    <3> SUFFICES ASSUME NEW r \in received PROVE r \in Subscriptions \X Numbers \X Events OBVIOUS
    <3>1. r \in Subscriptions \X Nat \X Events BY DEF Known
    <3>2. r[2] \in Numbers BY LogIsNumbered DEF WebhooksInv, ReceivedIsStored
    <3> QED BY <3>1, <3>2
  <2> QED BY <2>1, <2>2, <2>3 DEF TypeOK, Known
<1> QED BY <1>1, <1>2, <1>3, WebhooksInvHolds, PTL DEF Spec
=============================================================================
