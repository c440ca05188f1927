------------------------- MODULE AudioStreamProofs -------------------------
(***************************************************************************)
(* The microphone stream keeps its promises for every network, number of   *)
(* sockets and attempts, window, buffer and queue.                         *)
(*                                                                         *)
(* AudioInv says where frames and acknowledgements may be: a frame is its  *)
(* number plus one wherever it is (Fed, Numbers, ServerSound), what the    *)
(* client has numbered reaches from its last acknowledgement to its next   *)
(* number, around what the server accepted (Numbers), and cursors on a     *)
(* link do not decrease nor overtake the server (ClientMail, Unread).      *)
(* A step keeps it when nothing that a message relies on is taken back     *)
(* (Advances) and what is new on a link is sound (ServerStep, ClientStep). *)
(***************************************************************************)
EXTENDS AudioStream, FiniteSetTheorems, SequenceTheorems, TLAPS

-----------------------------------------------------------------------------
(* The records, field by field *)

MailTypes == {"open", "reconnect", "chunk", "commit", "close",
              "opened", "reconnected", "ack", "final", "closed", "error"}
Mail == [type : MailTypes, seq : Nat, arg : Nat]

IsClient(cl) ==
  /\ cl = [mode |-> cl.mode, sid |-> cl.sid, queue |-> cl.queue, inFlight |-> cl.inFlight,
           next |-> cl.next, acked |-> cl.acked, ws |-> cl.ws, recovery |-> cl.recovery,
           attempt |-> cl.attempt, stopping |-> cl.stopping]
  /\ cl.queue \in Seq(Nat) /\ cl.next \in Nat /\ cl.acked \in Nat
  /\ cl.ws \in Sockets \cup {NoSocket} /\ cl.stopping \in {"no", "capture", "flush"}
IsLink(l) ==
  /\ l = [state |-> l.state, toServer |-> l.toServer, toClient |-> l.toClient]
  /\ l.toServer \in Seq(Mail) /\ l.toClient \in Seq(Mail)
IsSock(s) ==
  /\ s = [alive |-> s.alive, attached |-> s.attached, busy |-> s.busy,
          frame |-> s.frame, seq |-> s.seq, pump |-> s.pump]
  /\ s.frame \in Nat /\ s.seq \in Nat
IsStream(s) ==
  /\ s = [opened |-> s.opened, told |-> s.told, closed |-> s.closed, record |-> s.record,
          next |-> s.next, committed |-> s.committed, vad |-> s.vad, queue |-> s.queue,
          pump |-> s.pump, holding |-> s.holding]
  /\ s.next \in Nat
IsProvider(p) ==
  /\ p = [up |-> p.up, audio |-> p.audio, commits |-> p.commits]
  /\ p.audio \in Seq(Nat) /\ p.commits \in Nat
IsExpiry(ex) ==
  /\ ex = [entry |-> ex.entry, tasks |-> ex.tasks]
  /\ DOMAIN ex.tasks = Sockets

AreLinks(l) == DOMAIN l = Sockets /\ \A c \in Sockets : IsLink(l[c])
AreSocks(s) == DOMAIN s = Sockets /\ \A c \in Sockets : IsSock(s[c])

Shaped ==
  /\ captured \in Nat /\ IsClient(client) /\ IsStream(stream)
  /\ IsProvider(provider) /\ IsExpiry(expiry) /\ AreLinks(link) /\ AreSocks(sock)

-----------------------------------------------------------------------------
(* Links *)

LEMMA SocketNumbers == 1 \in Sockets /\ Sockets \subseteq Nat /\ NoSocket \notin Sockets
BY AudioAssumption DEF Sockets, NoSocket

LEMMA MsgIsMail ==
  ASSUME NEW type \in MailTypes, NEW seq \in Nat, NEW arg \in Nat
  PROVE  /\ Msg(type, seq, arg) \in Mail /\ <<Msg(type, seq, arg)>> \in Seq(Mail)
         /\ Msg(type, seq, arg).type = type /\ Msg(type, seq, arg).seq = seq
         /\ Msg(type, seq, arg).arg = arg
BY DEF Msg, Mail

\* A link operator puts ms behind what link c carries to the server, if it is up.
LEMMA ToServerEffect ==
  ASSUME NEW l, AreLinks(l), NEW c, NEW ms \in Seq(Mail), NEW k, k = ToServer(l, c, ms)
  PROVE  /\ AreLinks(k)
         /\ \A d \in Sockets :
              /\ d # c => k[d] = l[d]
              /\ k[d].state = l[d].state /\ k[d].toClient = l[d].toClient
              /\ \/ k[d].toServer = l[d].toServer
                 \/ d = c /\ l[d].state = "up" /\ k[d].toServer = l[d].toServer \o ms
<1> SUFFICES ASSUME NEW d \in Sockets
             PROVE  /\ IsLink(k[d]) /\ (d # c => k[d] = l[d])
                    /\ k[d].state = l[d].state /\ k[d].toClient = l[d].toClient
                    /\ \/ k[d].toServer = l[d].toServer
                       \/ d = c /\ l[d].state = "up" /\ k[d].toServer = l[d].toServer \o ms
  BY DEF ToServer, AreLinks
<1>1. IsLink(l[d]) BY DEF AreLinks
<1>2. CASE d = c /\ l[d].state = "up"
  <2>1. k[d] = [l[d] EXCEPT !.toServer = l[d].toServer \o ms] BY <1>2 DEF ToServer
  <2>2. l[d].toServer \o ms \in Seq(Mail) BY <1>1 DEF IsLink
  <2> QED BY <1>1, <1>2, <2>1, <2>2 DEF IsLink
<1>3. CASE ~(d = c /\ l[d].state = "up")
  BY <1>1, <1>3 DEF ToServer
<1> QED BY <1>2, <1>3

LEMMA ToClientEffect ==
  ASSUME NEW l, AreLinks(l), NEW c, NEW ms \in Seq(Mail), NEW k, k = ToClient(l, c, ms)
  PROVE  /\ AreLinks(k)
         /\ \A d \in Sockets :
              /\ d # c => k[d] = l[d]
              /\ k[d].state = l[d].state /\ k[d].toServer = l[d].toServer
              /\ \/ k[d].toClient = l[d].toClient
                 \/ d = c /\ k[d].toClient = l[d].toClient \o ms
<1> SUFFICES ASSUME NEW d \in Sockets
             PROVE  /\ IsLink(k[d]) /\ (d # c => k[d] = l[d])
                    /\ k[d].state = l[d].state /\ k[d].toServer = l[d].toServer
                    /\ \/ k[d].toClient = l[d].toClient
                       \/ d = c /\ k[d].toClient = l[d].toClient \o ms
  BY DEF ToClient, AreLinks
<1>1. IsLink(l[d]) BY DEF AreLinks
<1>2. CASE d = c /\ l[d].state = "up"
  <2>1. k[d] = [l[d] EXCEPT !.toClient = l[d].toClient \o ms] BY <1>2 DEF ToClient
  <2>2. l[d].toClient \o ms \in Seq(Mail) BY <1>1 DEF IsLink
  <2> QED BY <1>1, <1>2, <2>1, <2>2 DEF IsLink
<1>3. CASE ~(d = c /\ l[d].state = "up")
  BY <1>1, <1>3 DEF ToClient
<1> QED BY <1>2, <1>3

LEMMA ServerTookEffect ==
  ASSUME NEW l, AreLinks(l), NEW c \in Sockets, l[c].toServer # <<>>, NEW k, k = ServerTook(l, c)
  PROVE  /\ AreLinks(k)
         /\ k[c].state = l[c].state /\ k[c].toClient = l[c].toClient
         /\ k[c].toServer = Tail(l[c].toServer)
         /\ \A d \in Sockets : d # c => k[d] = l[d]
<1>1. IsLink(l[c]) BY DEF AreLinks
<1>2. DOMAIN k = Sockets /\ \A d \in Sockets : d # c => k[d] = l[d]
  BY DEF ServerTook, AreLinks
<1>3. k[c] = [l[c] EXCEPT !.toServer = Tail(l[c].toServer)] BY DEF ServerTook, AreLinks
<1>4. Tail(l[c].toServer) \in Seq(Mail) BY <1>1 DEF IsLink
<1>5. /\ IsLink(k[c]) /\ k[c].state = l[c].state /\ k[c].toClient = l[c].toClient
      /\ k[c].toServer = Tail(l[c].toServer)
  BY <1>1, <1>3, <1>4 DEF IsLink
<1> QED BY <1>2, <1>5 DEF AreLinks

LEMMA ClientTookEffect ==
  ASSUME NEW l, AreLinks(l), NEW c \in Sockets, l[c].toClient # <<>>, NEW k, k = ClientTook(l, c)
  PROVE  /\ AreLinks(k)
         /\ k[c].state = l[c].state /\ k[c].toServer = l[c].toServer
         /\ k[c].toClient = Tail(l[c].toClient)
         /\ \A d \in Sockets : d # c => k[d] = l[d]
<1>1. IsLink(l[c]) BY DEF AreLinks
<1>2. DOMAIN k = Sockets /\ \A d \in Sockets : d # c => k[d] = l[d]
  BY DEF ClientTook, AreLinks
<1>3. k[c] = [l[c] EXCEPT !.toClient = Tail(l[c].toClient)] BY DEF ClientTook, AreLinks
<1>4. Tail(l[c].toClient) \in Seq(Mail) BY <1>1 DEF IsLink
<1>5. /\ IsLink(k[c]) /\ k[c].state = l[c].state /\ k[c].toServer = l[c].toServer
      /\ k[c].toClient = Tail(l[c].toClient)
  BY <1>1, <1>3, <1>4 DEF IsLink
<1> QED BY <1>2, <1>5 DEF AreLinks

LEMMA ClientHangsEffect ==
  ASSUME NEW l, AreLinks(l), NEW c, NEW k, k = ClientHangs(l, c)
  PROVE  /\ AreLinks(k)
         /\ \A d \in Sockets :
              /\ k[d].toServer = l[d].toServer /\ k[d].toClient \in {l[d].toClient, <<>>}
              /\ d # c => k[d] = l[d]
              /\ k[d].state \in {l[d].state, "cut"}
<1> SUFFICES ASSUME NEW d \in Sockets
             PROVE  /\ IsLink(k[d]) 
                    /\ k[d].toServer = l[d].toServer /\ k[d].toClient \in {l[d].toClient, <<>>}
                    /\ d # c => k[d] = l[d]
                    /\ k[d].state \in {l[d].state, "cut"}
  BY DEF ClientHangs, AreLinks
<1>1. IsLink(l[d]) BY DEF AreLinks
<1>2. CASE d = c
  <2>1. k[d] = [l[d] EXCEPT !.state = "cut", !.toClient = <<>>] BY <1>2 DEF ClientHangs
  <2>2. k[d] = [state |-> "cut", toServer |-> l[d].toServer, toClient |-> <<>>]
    BY <1>1, <2>1 DEF IsLink
  <2> QED BY <1>1, <1>2, <2>2 DEF IsLink
<1>3. CASE d # c
  BY <1>1, <1>3 DEF ClientHangs
<1> QED BY <1>2, <1>3

LEMMA ServerHangsEffect ==
  ASSUME NEW l, AreLinks(l), NEW c \in Sockets, NEW k, k = ServerHangs(l, c)
  PROVE  /\ AreLinks(k)
         /\ k[c].state = "cut" /\ k[c].toServer = <<>> /\ k[c].toClient = l[c].toClient
         /\ \A d \in Sockets : d # c => k[d] = l[d]
<1>1. IsLink(l[c]) BY DEF AreLinks
<1>2. DOMAIN k = Sockets /\ \A d \in Sockets : d # c => k[d] = l[d]
  BY DEF ServerHangs, AreLinks
<1>3. k[c] = [l[c] EXCEPT !.state = "cut", !.toServer = <<>>] BY DEF ServerHangs, AreLinks
<1>4. k[c] = [state |-> "cut", toServer |-> <<>>, toClient |-> l[c].toClient]
  BY <1>1, <1>3 DEF IsLink
<1>5. IsLink(k[c]) /\ k[c].state = "cut" /\ k[c].toServer = <<>> /\ k[c].toClient = l[c].toClient
  BY <1>1, <1>4 DEF IsLink
<1> QED BY <1>2, <1>5 DEF AreLinks

-----------------------------------------------------------------------------
(* Sockets and expiry timers *)

LEMMA ClosedEffect ==
  ASSUME NEW s, IsSock(s), NEW keepPump
  PROVE  /\ IsSock(Closed(s, keepPump))
         /\ Closed(s, keepPump).busy = "no" /\ ~Closed(s, keepPump).attached
<1> DEFINE p == s.pump /\ keepPump
<1>1. Closed(s, keepPump) = [s EXCEPT !.alive = FALSE, !.attached = FALSE, !.busy = "no",
                                      !.frame = 0, !.seq = 0, !.pump = p]
  BY DEF Closed
<1> HIDE DEF p
<1>2. Closed(s, keepPump) = [alive |-> FALSE, attached |-> FALSE, busy |-> "no", frame |-> 0,
                             seq |-> 0, pump |-> p]
  BY <1>1 DEF IsSock
<1> QED BY <1>2 DEF IsSock

LEMMA ExpiryCancelledEffect ==
  ASSUME NEW ex, IsExpiry(ex)
  PROVE  /\ IsExpiry(ExpiryCancelled(ex))
         /\ \A t \in Sockets : ExpiryCancelled(ex).tasks[t] = "sleeping" => ex.tasks[t] = "sleeping"
BY DEF ExpiryCancelled, IsExpiry

LEMMA AbandonedEffect ==
  ASSUME IsExpiry(expiry), NEW c \in Sockets
  PROVE  /\ IsExpiry(Abandoned(c))
         /\ sock[c].attached => Abandoned(c).tasks[c] = "sleeping"
         /\ ~sock[c].attached => Abandoned(c) = expiry
         /\ \A t \in Sockets : Abandoned(c).tasks[t] = "sleeping" =>
              expiry.tasks[t] = "sleeping" \/ (t = c /\ sock[c].attached)
BY ExpiryCancelledEffect DEF Abandoned, ExpiryScheduled, IsExpiry

\* What a coroutine that ends does to its socket and its link; l is what it had of them.
Ends(c, l, news) ==
  /\ AreSocks(sock') /\ sock'[c].busy = "no" /\ ~sock'[c].attached
  /\ \A d \in Sockets : d # c => sock'[d] = sock[d] /\ link'[d] = l[d]
  /\ AreLinks(link') /\ link'[c].state = "cut" /\ link'[c].toServer = <<>>
  /\ link'[c].toClient \in {l[c].toClient, l[c].toClient \o news}

LEMMA RefuseEffect ==
  ASSUME Shaped, NEW c \in Sockets, NEW l, AreLinks(l), Refuse(c, l)
  PROVE  Ends(c, l, <<Msg("error", 0, 0)>>)
<1> DEFINE ms == <<Msg("error", 0, 0)>>
           k == ToClient(l, c, ms)
<1>0. ms \in Seq(Mail)
  <2>1. "error" \in MailTypes BY DEF MailTypes
  <2> QED BY <2>1, MsgIsMail
<1>k. k = ToClient(l, c, ms) OBVIOUS
<1>2. link' = ServerHangs(k, c) BY DEF Refuse
<1> HIDE DEF k, ms
<1>1. AreLinks(k) /\ (\A d \in Sockets : d # c => k[d] = l[d])
      /\ (k[c].toClient = l[c].toClient \/ k[c].toClient = l[c].toClient \o ms)
  BY <1>0, <1>k, ToClientEffect
<1>3. /\ AreLinks(link') /\ link'[c].state = "cut" /\ link'[c].toServer = <<>>
      /\ link'[c].toClient = k[c].toClient /\ \A d \in Sockets : d # c => link'[d] = k[d]
  BY <1>1, <1>2, ServerHangsEffect
<1>4. /\ DOMAIN sock' = Sockets /\ sock'[c] = Closed(sock[c], FALSE)
      /\ \A d \in Sockets : d # c => sock'[d] = sock[d]
  BY DEF Refuse, Shaped, AreSocks
<1>5. IsSock(sock'[c]) /\ sock'[c].busy = "no" /\ ~sock'[c].attached
  BY <1>4, ClosedEffect DEF Shaped, AreSocks
<1>6. AreSocks(sock') BY <1>4, <1>5 DEF AreSocks, Shaped
<1> QED BY <1>1, <1>3, <1>4, <1>5, <1>6 DEF Ends, ms

LEMMA HungUp ==
  ASSUME Shaped, NEW c \in Sockets, NEW l, AreLinks(l), NEW news,
         sock' = [sock EXCEPT ![c] = Closed(@, TRUE)], link' = ServerHangs(l, c)
  PROVE  Ends(c, l, news)
<1>3. /\ AreLinks(link') /\ link'[c].state = "cut" /\ link'[c].toServer = <<>>
      /\ link'[c].toClient = l[c].toClient /\ \A d \in Sockets : d # c => link'[d] = l[d]
  BY ServerHangsEffect
<1>4. /\ DOMAIN sock' = Sockets /\ sock'[c] = Closed(sock[c], TRUE)
      /\ \A d \in Sockets : d # c => sock'[d] = sock[d]
  BY DEF Shaped, AreSocks
<1>5. IsSock(sock'[c]) /\ sock'[c].busy = "no" /\ ~sock'[c].attached
  BY <1>4, ClosedEffect DEF Shaped, AreSocks
<1>6. AreSocks(sock') BY <1>4, <1>5 DEF AreSocks, Shaped
<1> QED BY <1>3, <1>4, <1>5, <1>6 DEF Ends

LEMMA DieEffect ==
  ASSUME Shaped, NEW c \in Sockets, NEW l, AreLinks(l), Die(c, l), NEW news
  PROVE  Ends(c, l, news)
BY HungUp DEF Die

-----------------------------------------------------------------------------
(* What a step leaves of the messages a link carries in one direction: the *)
(* first n are gone, and behind the others there are new ones.             *)

Keeps(s, t, n, news) ==
  /\ n \in Nat /\ n <= Len(s)
  /\ \A i \in 1..Len(t) : IF i + n <= Len(s) THEN t[i] = s[i + n] ELSE t[i] \in news

Kept(s, t, news) == \E n \in Nat : Keeps(s, t, n, news)

LEMMA KeptAll ==
  ASSUME NEW s \in Seq(Mail), NEW news
  PROVE  Kept(s, s, news)
<1>1. Keeps(s, s, 0, news) BY DEF Keeps
<1> QED BY <1>1 DEF Kept

LEMMA KeptTail ==
  ASSUME NEW s \in Seq(Mail), s # <<>>, NEW news
  PROVE  Kept(s, Tail(s), news)
<1>1. Keeps(s, Tail(s), 1, news) BY DEF Keeps
<1> QED BY <1>1 DEF Kept

LEMMA KeptNothing ==
  ASSUME NEW s \in Seq(Mail), NEW news
  PROVE  Kept(s, <<>>, news)
<1>1. Keeps(s, <<>>, 0, news) BY DEF Keeps
<1> QED BY <1>1 DEF Kept

LEMMA KeptAndMore ==
  ASSUME NEW s \in Seq(Mail), NEW ms \in Seq(Mail), NEW news,
         \A i \in 1..Len(ms) : ms[i] \in news
  PROVE  Kept(s, s \o ms, news)
<1>1. Keeps(s, s \o ms, 0, news) BY DEF Keeps
<1> QED BY <1>1 DEF Kept

LEMMA KeptOne ==
  ASSUME NEW s \in Seq(Mail), NEW m \in Mail
  PROVE  Kept(s, s \o <<m>>, {m})
<1>1. Keeps(s, s \o <<m>>, 0, {m}) BY DEF Keeps
<1> QED BY <1>1 DEF Kept

\* A step on the links: socket c's may get news, the others none.
LinksKeep(c, toServer, toClient) ==
  \A d \in Sockets :
    /\ Kept(link[d].toServer, link'[d].toServer, IF d = c THEN toServer ELSE {})
    /\ Kept(link[d].toClient, link'[d].toClient, IF d = c THEN toClient ELSE {})

-----------------------------------------------------------------------------
(* The life of the stream *)

\* Until the client has read that the stream is open it has numbered nothing.
Fresh ==
  /\ captured = 0 /\ client.mode \in {"opening", "idle"} /\ client.recovery = "no"
  /\ client.ws \in {1, NoSocket}
  /\ ~client.sid /\ client.stopping = "no" /\ client.next = 0 /\ client.acked = 0
  /\ client.queue = <<>> /\ DOMAIN client.inFlight = {}

Begins(s, type) == s # <<>> /\ s[1].type = type

\* Only the first message of the first link opens the stream, or says that it is open.
OpenIsFirst ==
  \A c \in Sockets : \A i \in 1..Len(link[c].toServer) :
    link[c].toServer[i].type = "open" => c = 1 /\ i = 1
OpenedIsFirst ==
  \A c \in Sockets : \A i \in 1..Len(link[c].toClient) :
    link[c].toClient[i].type = "opened" => c = 1 /\ i = 1

\* When the client has not read yet that the stream is open, nothing else has happened.
Opening ==
  /\ OpenIsFirst /\ OpenedIsFirst
  /\ Begins(link[1].toServer, "open") =>
       Fresh /\ link[1].toClient = <<>> /\ ~stream.told /\ sock[1].busy = "no" /\ ~sock[1].pump
  /\ Begins(link[1].toClient, "opened") => Fresh /\ stream.told

Lives ==
  /\ stream.told /\ ~stream.closed => stream.record
  /\ stream.closed => stream.told /\ ~provider.up
  /\ client.sid => stream.told
  /\ \A c \in Sockets :
       /\ sock[c].attached \/ expiry.tasks[c] = "sleeping" => stream.told
       /\ sock[c].busy = "close" => stream.closed
       /\ sock[c].busy = "endpoint" => stream.vad.ended
       /\ link[c].state = "new" =>
            link[c].toServer = <<>> /\ link[c].toClient = <<>> /\ sock[c].busy = "no" /\ ~sock[c].pump

-----------------------------------------------------------------------------
(* What the links carry *)

IsCursor(m) == m.type \in {"ack", "reconnected"}

\* The least that a socket's next answer can acknowledge.
Floor(c) == IF sock[c].busy = "push" THEN sock[c].seq + 1 ELSE stream.next

Settled == client.mode \in {"committing", "idle"}

\* The frames up to the last one, which stop may have to queue still; and the one by
\* which a commit may have come too early for it.
Held(cl) == IF cl.stopping = "capture" THEN 1 ELSE 0
Expected == captured + Held(client)
Late == IF overtaken THEN 1 ELSE 0

ServerSound(m) ==
  /\ m.type = "chunk" => /\ m.arg = m.seq + 1 /\ m.arg <= captured
                         /\ client.sid => m.seq < client.next
  /\ m.type = "reconnect" => stream.told /\ m.seq <= stream.next
  /\ m.type = "commit" => Settled /\ (~stream.vad.ended => Expected <= stream.next + Late)

ClientSound(c, m) ==
  /\ IsCursor(m) => m.seq <= Floor(c)
  /\ m.type = "ack" /\ m.arg = 1 => stream.vad.ended

ServerMail ==
  \A c \in Sockets : \A i \in 1..Len(link[c].toServer) : ServerSound(link[c].toServer[i])

Ordered(s) == \A i, j \in 1..Len(s) :
                i < j /\ IsCursor(s[i]) /\ IsCursor(s[j]) => s[i].seq <= s[j].seq

ClientMail ==
  \A c \in Sockets :
    /\ \A i \in 1..Len(link[c].toClient) : ClientSound(c, link[c].toClient[i])
    /\ Ordered(link[c].toClient)

\* What the client has not read acknowledges no less than what it has.
Unread ==
  client.sid /\ client.ws # NoSocket =>
    /\ client.acked <= Floor(client.ws)
    /\ \A i \in 1..Len(link[client.ws].toClient) :
         LET m == link[client.ws].toClient[i] IN IsCursor(m) => client.acked <= m.seq

-----------------------------------------------------------------------------
(* The frames *)

Fed ==
  /\ Len(provider.audio) <= stream.next /\ stream.next <= captured
  /\ \A i \in 1..Len(provider.audio) : provider.audio[i] = i
  /\ provider.up /\ ~stream.committed => Len(provider.audio) = stream.next
  /\ \A c \in Sockets : sock[c].busy = "push" =>
       sock[c].frame = sock[c].seq + 1 /\ sock[c].seq < Len(provider.audio)

\* The numbers in flight and in the queue, up to the frame n.
Contiguous(cl, n) ==
  /\ DOMAIN cl.inFlight = cl.acked..(cl.next - 1)
  /\ \A s \in DOMAIN cl.inFlight : cl.inFlight[s] = s + 1
  /\ \A i \in 1..Len(cl.queue) : cl.queue[i] = cl.next + i
  /\ cl.acked <= cl.next /\ cl.next <= cl.acked + MaxInFlight
  /\ cl.next + Len(cl.queue) <= n

\* The queue of cl reaches to the last frame, unless the server has dropped what is left.
Exact(cl) == cl.mode = "active" \/ cl.stopping = "capture" \/ ~stream.vad.ended

Numbers ==
  /\ client.sid =>
       /\ Contiguous(client, captured)
       /\ client.acked <= stream.next /\ stream.next <= client.next
       /\ Exact(client) =>
            client.next + Len(client.queue) = captured
  /\ ~client.sid => DOMAIN client.inFlight = {}

Commits ==
  /\ client.stopping # "no" \/ client.recovery = "flushing" => Settled
  /\ provider.commits > 0 /\ ~stream.vad.ended =>
       Settled /\ Expected <= Len(provider.audio) + Late

AudioInv ==
  /\ Shaped /\ Opening /\ Lives /\ ServerMail /\ ClientMail /\ Unread
  /\ Fed /\ Numbers /\ Commits

-----------------------------------------------------------------------------
(* What every step does *)

\* A commit that was not too early for a frame does not become so.
Waits == Late <= Late' /\ (Settled => Expected' <= Expected)

\* Nothing that a message relies on is taken back.
Advances ==
  /\ captured <= captured' /\ Waits
  /\ Settled => Settled'
  /\ stream.told => stream'.told
  /\ stream.vad.ended => stream'.vad.ended
  /\ stream.next <= stream'.next
  /\ client'.sid => (client.sid /\ client.next <= client'.next) \/ captured = 0
  /\ \A c \in Sockets : Floor(c) <= Floor(c)'

LEMMA FramesAwaited ==
  ASSUME captured \in Nat
  PROVE  Expected \in Nat /\ captured <= Expected /\ Late \in Nat
BY DEF Expected, Held, Late

LEMMA FramesAwaitedNext ==
  ASSUME captured' \in Nat
  PROVE  Expected' \in Nat /\ Late' \in Nat
<1>1. Late' \in Nat BY DEF Late
<1>2. Held(client)' \in {0, 1} BY DEF Held
<1>3. Expected' = captured' + Held(client)' BY DEF Expected
<1> QED BY <1>1, <1>2, <1>3

\* As many frames are awaited after a step as before.
LEMMA FramesKept ==
  ASSUME captured \in Nat, UNCHANGED <<captured, overtaken>>, client'.stopping = client.stopping
  PROVE  /\ Expected' = Expected /\ Late' = Late /\ Expected' <= Expected /\ Late <= Late'
         /\ Waits
BY DEF Expected, Held, Late, Waits

LEMMA FramesHeld ==
  ASSUME captured \in Nat, captured' = captured, NEW a, NEW b, a.stopping = b.stopping
  PROVE  captured' + Held(a) <= captured + Held(b)
BY DEF Held

\* No commit is taken back: the capture is closed, or nothing is settled yet.
LEMMA FramesClosed ==
  ASSUME captured \in Nat, captured' \in Nat, overtaken' = overtaken,
         Settled => captured' = captured, client'.stopping \in {client.stopping, "no"}
  PROVE  Waits
<1>1. Late \in Nat /\ Late' = Late BY DEF Late
<1>2. Held(client) \in {0, 1} /\ Held(client)' \in {0, Held(client)} BY DEF Held
<1>3. Expected = captured + Held(client) /\ Expected' = captured' + Held(client)'
  BY DEF Expected
<1> QED BY <1>1, <1>2, <1>3 DEF Waits

LEMMA ServerSoundKept ==
  ASSUME Shaped, Fed, Fed', Shaped', Advances, NEW m \in Mail, ServerSound(m)
  PROVE  ServerSound(m)'
<1> USE DEF Mail
<1>0. stream.next \in Nat /\ stream'.next \in Nat /\ captured \in Nat /\ captured' \in Nat
      /\ client.next \in Nat /\ client'.next \in Nat
  BY DEF Shaped, IsStream, IsClient
<1>4. Expected \in Nat /\ Late \in Nat BY <1>0, FramesAwaited
<1>5. Expected' \in Nat /\ Late' \in Nat BY <1>0, FramesAwaitedNext
<1>1. CASE m.type = "chunk"
  BY <1>0, <1>1 DEF ServerSound, Advances
<1>2. CASE m.type = "reconnect"
  BY <1>0, <1>2 DEF ServerSound, Advances
<1>3. CASE m.type = "commit"
  BY <1>0, <1>3, <1>4, <1>5 DEF ServerSound, Advances, Waits
<1> QED BY <1>1, <1>2, <1>3 DEF ServerSound

LEMMA ServerMailStep ==
  ASSUME Shaped, Fed, Shaped', Fed', Advances, ServerMail,
         NEW c, NEW toServer, NEW toClient, LinksKeep(c, toServer, toClient),
         \A m \in toServer : ServerSound(m)'
  PROVE  ServerMail'
<1> SUFFICES ASSUME NEW d \in Sockets, NEW i \in 1..Len(link'[d].toServer),
                    NEW m, m = link'[d].toServer[i]
             PROVE  ServerSound(m)'
  BY DEF ServerMail, ServerSound
<1>0. link[d].toServer \in Seq(Mail) /\ link'[d].toServer \in Seq(Mail)
  BY DEF Shaped, AreLinks, IsLink
<1>1. PICK n \in Nat : Keeps(link[d].toServer, link'[d].toServer, n, IF d = c THEN toServer ELSE {})
  BY DEF LinksKeep, Kept
<1>2. CASE i + n <= Len(link[d].toServer)
  <2>1. m = link[d].toServer[i + n] /\ i + n \in 1..Len(link[d].toServer)
    BY <1>0, <1>1, <1>2 DEF Keeps
  <2>2. ServerSound(m) /\ m \in Mail BY <1>0, <2>1 DEF ServerMail
  <2> QED BY <2>2, ServerSoundKept
<1>3. CASE ~(i + n <= Len(link[d].toServer))
  <2>1. m \in toServer BY <1>1, <1>3 DEF Keeps
  <2> QED BY <2>1
<1> QED BY <1>2, <1>3

\* New cursors are at least what the socket could answer before, and not more than
\* what it can answer now.
LEMMA ClientMailStep ==
  ASSUME Shaped, Shaped', Advances, ClientMail,
         NEW c, NEW toServer, NEW toClient, LinksKeep(c, toServer, toClient),
         toClient \subseteq Mail,
         \A m \in toClient : ClientSound(c, m)' /\ (IsCursor(m) => Floor(c) <= m.seq),
         \A m, n \in toClient : IsCursor(m) /\ IsCursor(n) => m.seq = n.seq
  PROVE  ClientMail'
<1> SUFFICES ASSUME NEW d \in Sockets
             PROVE  /\ (\A i \in 1..Len(link[d].toClient) : ClientSound(d, link[d].toClient[i]))'
                    /\ Ordered(link'[d].toClient)
  BY DEF ClientMail, Ordered
<1>0. link[d].toClient \in Seq(Mail) /\ link'[d].toClient \in Seq(Mail)
  BY DEF Shaped, AreLinks, IsLink
<1>f. Floor(d) \in Nat /\ Floor(d)' \in Nat /\ Floor(d) <= Floor(d)'
  BY DEF Shaped, AreSocks, IsSock, IsStream, Floor, Advances
<1>1. PICK n \in Nat : Keeps(link[d].toClient, link'[d].toClient, n, IF d = c THEN toClient ELSE {})
  BY DEF LinksKeep, Kept
<1>m. \A m \in Mail : ClientSound(d, m) => ClientSound(d, m)'
  BY <1>f DEF ClientSound, Advances, Mail
<1>2. ASSUME NEW i \in 1..Len(link'[d].toClient), NEW m, m = link'[d].toClient[i]
      PROVE  /\ ClientSound(d, m)'
             /\ i + n <= Len(link[d].toClient) =>
                  i + n \in 1..Len(link[d].toClient) /\ m = link[d].toClient[i + n] /\ ClientSound(d, m)
             /\ ~(i + n <= Len(link[d].toClient)) => d = c /\ m \in toClient
  <2>1. CASE i + n <= Len(link[d].toClient)
    <3>1. m = link[d].toClient[i + n] /\ i + n \in 1..Len(link[d].toClient)
      BY <1>0, <1>1, <1>2, <2>1 DEF Keeps
    <3>2. ClientSound(d, m) /\ m \in Mail BY <1>0, <3>1 DEF ClientMail
    <3> QED BY <2>1, <3>1, <3>2, <1>m
  <2>2. CASE ~(i + n <= Len(link[d].toClient))
    <3>1. d = c /\ m \in toClient BY <1>1, <1>2, <2>2 DEF Keeps
    <3> QED BY <2>2, <3>1
  <2> QED BY <2>1, <2>2
<1>3. (\A i \in 1..Len(link[d].toClient) : ClientSound(d, link[d].toClient[i]))'
  BY <1>2 DEF ClientSound
<1>4. ASSUME NEW i \in 1..Len(link'[d].toClient), NEW j \in 1..Len(link'[d].toClient), i < j,
             IsCursor(link'[d].toClient[i]), IsCursor(link'[d].toClient[j])
      PROVE  link'[d].toClient[i].seq <= link'[d].toClient[j].seq
  <2> DEFINE a == link'[d].toClient[i]
             b == link'[d].toClient[j]
  <2>0. a \in Mail /\ b \in Mail BY <1>0
  <2>1. CASE j + n <= Len(link[d].toClient)
    <3>1. /\ a = link[d].toClient[i + n] /\ b = link[d].toClient[j + n]
          /\ i + n \in 1..Len(link[d].toClient) /\ j + n \in 1..Len(link[d].toClient)
          /\ i + n < j + n
      BY <1>2, <2>1, <1>4, <1>0
    <3> QED BY <3>1, <1>4 DEF ClientMail, Ordered
  <2>2. CASE ~(j + n <= Len(link[d].toClient)) /\ i + n <= Len(link[d].toClient)
    <3>1. ClientSound(d, a) /\ d = c /\ b \in toClient BY <1>2, <2>2
    <3>2. a.seq <= Floor(d) /\ Floor(d) <= b.seq BY <3>1, <1>4 DEF ClientSound
    <3> QED BY <3>2, <1>f, <2>0 DEF Mail
  <2>3. CASE ~(j + n <= Len(link[d].toClient)) /\ ~(i + n <= Len(link[d].toClient))
    <3>1. a \in toClient /\ b \in toClient BY <1>2, <2>3
    <3>2. a.seq = b.seq BY <3>1, <1>4
    <3> QED BY <3>2, <2>0 DEF Mail
  <2> QED BY <2>1, <2>2, <2>3, <1>0, <1>4
<1> QED BY <1>3, <1>4 DEF Ordered

LEMMA FirstsStep ==
  ASSUME Shaped, Shaped', Opening, NEW c, NEW toServer, NEW toClient,
         LinksKeep(c, toServer, toClient)
  PROVE  /\ (\A m \in toServer : m.type # "open") =>
              /\ OpenIsFirst'
              /\ Begins(link'[1].toServer, "open") => Begins(link[1].toServer, "open")
         /\ (\A m \in toClient : m.type # "opened") =>
              /\ OpenedIsFirst'
              /\ Begins(link'[1].toClient, "opened") => Begins(link[1].toClient, "opened")
<1>1. ASSUME \A m \in toServer : m.type # "open", NEW d \in Sockets, NEW i \in 1..Len(link'[d].toServer),
             link'[d].toServer[i].type = "open"
      PROVE  d = 1 /\ i = 1 /\ Begins(link[1].toServer, "open")
  <2>0. link[d].toServer \in Seq(Mail) /\ link'[d].toServer \in Seq(Mail)
    BY DEF Shaped, AreLinks, IsLink
  <2>1. PICK n \in Nat : Keeps(link[d].toServer, link'[d].toServer, n, IF d = c THEN toServer ELSE {})
    BY DEF LinksKeep, Kept
  <2>2. i + n <= Len(link[d].toServer) /\ link'[d].toServer[i] = link[d].toServer[i + n]
    BY <1>1, <2>1 DEF Keeps
  <2>3. i + n \in 1..Len(link[d].toServer) BY <2>0, <2>2
  <2>4. d = 1 /\ i + n = 1 /\ link[d].toServer[1].type = "open"
    BY <1>1, <2>2, <2>3 DEF Opening, OpenIsFirst
  <2> QED BY <2>0, <2>3, <2>4 DEF Begins
<1>2. ASSUME \A m \in toClient : m.type # "opened", NEW d \in Sockets, NEW i \in 1..Len(link'[d].toClient),
             link'[d].toClient[i].type = "opened"
      PROVE  d = 1 /\ i = 1 /\ Begins(link[1].toClient, "opened")
  <2>0. link[d].toClient \in Seq(Mail) /\ link'[d].toClient \in Seq(Mail)
    BY DEF Shaped, AreLinks, IsLink
  <2>1. PICK n \in Nat : Keeps(link[d].toClient, link'[d].toClient, n, IF d = c THEN toClient ELSE {})
    BY DEF LinksKeep, Kept
  <2>2. i + n <= Len(link[d].toClient) /\ link'[d].toClient[i] = link[d].toClient[i + n]
    BY <1>2, <2>1 DEF Keeps
  <2>3. i + n \in 1..Len(link[d].toClient) BY <2>0, <2>2
  <2>4. d = 1 /\ i + n = 1 /\ link[d].toClient[1].type = "opened"
    BY <1>2, <2>2, <2>3 DEF Opening, OpenedIsFirst
  <2> QED BY <2>0, <2>3, <2>4 DEF Begins
<1>3. (\A m \in toServer : m.type # "open") =>
        (Begins(link'[1].toServer, "open") => Begins(link[1].toServer, "open"))
  BY <1>1, SocketNumbers DEF Begins, Shaped, AreLinks, IsLink
<1>4. (\A m \in toClient : m.type # "opened") =>
        (Begins(link'[1].toClient, "opened") => Begins(link[1].toClient, "opened"))
  BY <1>2, SocketNumbers DEF Begins, Shaped, AreLinks, IsLink
<1> QED BY <1>1, <1>2, <1>3, <1>4 DEF OpenIsFirst, OpenedIsFirst

-----------------------------------------------------------------------------
(* A step of the server: at most socket c and its link change, the client  *)
(* gets news, and the stream goes on.                                      *)

ServerStep(c, news) ==
  /\ UNCHANGED <<client, captured, overtaken>>
  /\ link[c].state # "new" /\ link'[c].state # "new"
  /\ \A d \in Sockets : d # c => link'[d] = link[d] /\ sock'[d] = sock[d]
  /\ Kept(link[c].toServer, link'[c].toServer, {})
  /\ Kept(link[c].toClient, link'[c].toClient, news)
  /\ c = 1 => ~Begins(link'[1].toServer, "open")
  /\ stream.told => stream'.told
  /\ Begins(link[1].toServer, "open") /\ c # 1 => stream'.told = stream.told
  /\ stream.vad.ended => stream'.vad.ended
  /\ stream.next <= stream'.next /\ Floor(c) <= Floor(c)'
  /\ client.sid => stream'.next <= client.next

CursorsAreSound(c, news) ==
  /\ news \subseteq Mail
  /\ \A m \in news : ClientSound(c, m)' /\ (IsCursor(m) => Floor(c) <= m.seq)
  /\ \A m, n \in news : IsCursor(m) /\ IsCursor(n) => m.seq = n.seq

NewsIsSound(c, news) == CursorsAreSound(c, news) /\ \A m \in news : m.type # "opened"

LEMMA ServerStepMail ==
  ASSUME AudioInv, Shaped', Fed', NEW c \in Sockets, NEW news,
         ServerStep(c, news), CursorsAreSound(c, news)
  PROVE  /\ LinksKeep(c, {}, news)
         /\ ServerMail' /\ ClientMail' /\ Unread' /\ Numbers'
<1> USE DEF AudioInv
<1>1. LinksKeep(c, {}, news)
  <2> SUFFICES ASSUME NEW d \in Sockets
               PROVE  /\ Kept(link[d].toServer, link'[d].toServer, {})
                      /\ Kept(link[d].toClient, link'[d].toClient, IF d = c THEN news ELSE {})
    BY DEF LinksKeep
  <2>1. CASE d = c BY <2>1 DEF ServerStep
  <2>2. CASE d # c
    <3>1. link'[d] = link[d] /\ link[d].toServer \in Seq(Mail) /\ link[d].toClient \in Seq(Mail)
      BY <2>2 DEF ServerStep, Shaped, AreLinks, IsLink
    <3> QED BY <2>2, <3>1, KeptAll
  <2> QED BY <2>1, <2>2
<1>f. \A d \in Sockets : Floor(d) \in Nat /\ Floor(d)' \in Nat /\ Floor(d) <= Floor(d)'
  <2> SUFFICES ASSUME NEW d \in Sockets
               PROVE  Floor(d) \in Nat /\ Floor(d)' \in Nat /\ Floor(d) <= Floor(d)'
    OBVIOUS
  <2>1. Floor(d) \in Nat /\ Floor(d)' \in Nat
    BY DEF Floor, Shaped, AreSocks, IsSock, IsStream
  <2>2. CASE d = c BY <2>1, <2>2 DEF ServerStep
  <2>3. CASE d # c BY <2>1, <2>3 DEF ServerStep, Floor, Shaped, IsStream
  <2> QED BY <2>1, <2>2, <2>3
<1>2. Advances
  <2>1. Waits BY FramesKept DEF ServerStep, Shaped
  <2> QED BY <1>f, <2>1 DEF Advances, ServerStep, Shaped, IsClient, Settled
<1>3. ServerMail' BY <1>1, <1>2, ServerMailStep
<1>4. ClientMail' BY <1>1, <1>2, ClientMailStep DEF CursorsAreSound
<1>8. Unread'
  <2> SUFFICES ASSUME client.sid, client.ws # NoSocket
               PROVE  /\ client.acked <= Floor(client.ws)'
                      /\ \A i \in 1..Len(link'[client.ws].toClient) :
                           LET m == link'[client.ws].toClient[i] IN IsCursor(m) => client.acked <= m.seq
    BY DEF Unread, ServerStep, Floor
  <2>0. client.ws \in Sockets /\ client.acked \in Nat /\ client.acked <= Floor(client.ws)
    BY DEF Shaped, IsClient, Unread
  <2>1. client.acked <= Floor(client.ws)' BY <2>0, <1>f DEF Floor, ServerStep
  <2>2. ASSUME NEW i \in 1..Len(link'[client.ws].toClient), IsCursor(link'[client.ws].toClient[i])
        PROVE  client.acked <= link'[client.ws].toClient[i].seq
    <3>0. link[client.ws].toClient \in Seq(Mail) /\ link'[client.ws].toClient \in Seq(Mail)
      BY <2>0 DEF Shaped, AreLinks, IsLink
    <3>1. PICK n \in Nat : Keeps(link[client.ws].toClient, link'[client.ws].toClient, n,
                                 IF client.ws = c THEN news ELSE {})
      BY <1>1, <2>0 DEF LinksKeep, Kept
    <3>2. CASE i + n <= Len(link[client.ws].toClient)
      <4>1. link'[client.ws].toClient[i] = link[client.ws].toClient[i + n]
            /\ i + n \in 1..Len(link[client.ws].toClient)
        BY <3>0, <3>1, <3>2 DEF Keeps
      <4> QED BY <2>2, <4>1 DEF Unread
    <3>3. CASE ~(i + n <= Len(link[client.ws].toClient))
      <4>1. client.ws = c /\ link'[client.ws].toClient[i] \in news BY <3>1, <3>3 DEF Keeps
      <4>2. Floor(c) <= link'[client.ws].toClient[i].seq /\ link'[client.ws].toClient[i] \in Mail
        BY <2>2, <4>1 DEF CursorsAreSound
      <4> QED BY <1>f, <2>0, <4>1, <4>2 DEF Mail
    <3> QED BY <3>2, <3>3
  <2> QED BY <2>1, <2>2
<1>9. Numbers'
  <2>1. stream.next \in Nat /\ stream'.next \in Nat /\ client.acked \in Nat
    BY DEF Shaped, IsStream, IsClient
  <2> QED BY <2>1 DEF Numbers, ServerStep, Contiguous, Exact
<1> QED BY <1>1, <1>3, <1>4, <1>8, <1>9

LEMMA ServerStepKeeps ==
  ASSUME AudioInv, Shaped', Fed', NEW c \in Sockets, NEW news,
         ServerStep(c, news), NewsIsSound(c, news), Lives', Commits'
  PROVE  AudioInv'
<1> USE DEF AudioInv
<1>1. LinksKeep(c, {}, news) /\ ServerMail' /\ ClientMail' /\ Unread' /\ Numbers'
  BY ServerStepMail DEF NewsIsSound
<1>5. OpenIsFirst' /\ OpenedIsFirst' /\ (Begins(link'[1].toServer, "open") => Begins(link[1].toServer, "open"))
      /\ (Begins(link'[1].toClient, "opened") => Begins(link[1].toClient, "opened"))
  BY <1>1, FirstsStep DEF NewsIsSound
<1>6. Fresh => Fresh' BY DEF Fresh, ServerStep
<1>7. Opening'
  <2>1. Begins(link'[1].toServer, "open") =>
          Fresh' /\ link'[1].toClient = <<>> /\ ~stream'.told /\ sock'[1].busy = "no" /\ ~sock'[1].pump
    BY <1>5, <1>6, SocketNumbers DEF Opening, ServerStep
  <2>2. Begins(link'[1].toClient, "opened") => Fresh' /\ stream'.told
    BY <1>5, <1>6 DEF Opening, ServerStep
  <2> QED BY <1>5, <2>1, <2>2 DEF Opening
<1> QED BY <1>1, <1>7


-----------------------------------------------------------------------------
(* What a coroutine has of its link when it answers, and what it leaves.    *)

\* l: the links after the coroutine of c has read its request, if it read one.
Reads(c, l) ==
  /\ AreLinks(l) /\ link[c].state # "new" /\ l[c].state = link[c].state
  /\ l[c].toClient = link[c].toClient
  /\ \A d \in Sockets : d # c => l[d] = link[d]
  /\ Kept(link[c].toServer, l[c].toServer, {})
  /\ c = 1 => ~Begins(l[1].toServer, "open")

LinkStep(c, news) ==
  /\ AreLinks(link') /\ link[c].state # "new" /\ link'[c].state # "new"
  /\ \A d \in Sockets : d # c => link'[d] = link[d]
  /\ Kept(link[c].toServer, link'[c].toServer, {})
  /\ Kept(link[c].toClient, link'[c].toClient, news)
  /\ c = 1 => ~Begins(link'[1].toServer, "open")

LEMMA HeardReads ==
  ASSUME AudioInv, NEW c \in Sockets, NEW type, Heard(c, type)
  PROVE  /\ Reads(c, ServerTook(link, c))
         /\ Request(c) = link[c].toServer[1] /\ Request(c) \in Mail /\ Request(c).type = type
         /\ link[c].toServer # <<>> /\ 1 \in 1..Len(link[c].toServer)
         /\ sock[c].busy = "no" /\ Floor(c) = stream.next
         /\ c = 1 /\ type # "open" => ~Begins(link[1].toServer, "open")
<1> USE DEF AudioInv
<1> DEFINE l == ServerTook(link, c)
<1>1. link[c].toServer # <<>> /\ sock[c].busy = "no" BY DEF Heard, Waiting
<1>2. link[c].toServer \in Seq(Mail) BY DEF Shaped, AreLinks, IsLink
<1>3. /\ AreLinks(l)
      /\ l[c].state = link[c].state /\ l[c].toClient = link[c].toClient
      /\ l[c].toServer = Tail(link[c].toServer)
      /\ \A d \in Sockets : d # c => l[d] = link[d]
  BY <1>1, ServerTookEffect DEF Shaped
<1> HIDE DEF l
<1>4. 1 \in 1..Len(link[c].toServer) /\ Head(link[c].toServer) = link[c].toServer[1]
      /\ link[c].toServer[1] \in Mail
  BY <1>1, <1>2
<1>5. Request(c) = link[c].toServer[1] /\ Request(c).type = type
  BY <1>4 DEF Heard, Request
<1>6. link[c].state # "new" BY <1>1 DEF Lives
<1>7. Kept(link[c].toServer, l[c].toServer, {}) BY <1>1, <1>2, <1>3, KeptTail
<1>8. c = 1 => ~Begins(l[1].toServer, "open")
  <2> SUFFICES ASSUME c = 1, Tail(link[c].toServer) # <<>>, Tail(link[c].toServer)[1].type = "open"
               PROVE  FALSE
    BY <1>3 DEF Begins
  <2>1. 2 \in 1..Len(link[c].toServer) /\ Tail(link[c].toServer)[1] = link[c].toServer[2]
    BY <1>1, <1>2
  <2> QED BY <2>1 DEF Opening, OpenIsFirst
<1>9. c = 1 /\ type # "open" => ~Begins(link[1].toServer, "open")
  BY <1>5 DEF Begins
<1> QED BY <1>1, <1>3, <1>4, <1>5, <1>6, <1>7, <1>8, <1>9 DEF Reads, l, Floor

LEMMA BusyReads ==
  ASSUME AudioInv, NEW c \in Sockets, sock[c].busy # "no"
  PROVE  Reads(c, link)
<1> USE DEF AudioInv
<1>1. link[c].toServer \in Seq(Mail) BY DEF Shaped, AreLinks, IsLink
<1>2. Kept(link[c].toServer, link[c].toServer, {}) BY <1>1, KeptAll
<1>3. link[c].state # "new" BY DEF Lives
<1>4. c = 1 => ~Begins(link[1].toServer, "open") BY DEF Opening
<1> QED BY <1>2, <1>3, <1>4 DEF Reads, Shaped

LEMMA ReadOnly ==
  ASSUME Shaped, NEW c \in Sockets, NEW l, Reads(c, l), link' = l, NEW news
  PROVE  LinkStep(c, news)
<1>1. link[c].toClient \in Seq(Mail) BY DEF Shaped, AreLinks, IsLink
<1>2. Kept(link[c].toClient, l[c].toClient, news) BY <1>1, KeptAll DEF Reads
<1> QED BY <1>2 DEF Reads, LinkStep

LEMMA Answered ==
  ASSUME Shaped, NEW c \in Sockets, NEW l, Reads(c, l), NEW m \in Mail,
         link' = ToClient(l, c, <<m>>)
  PROVE  LinkStep(c, {m}) /\ link'[c].toClient \in {l[c].toClient, l[c].toClient \o <<m>>}
<1>1. link[c].toClient \in Seq(Mail) BY DEF Shaped, AreLinks, IsLink
<1> DEFINE ms == <<m>>
           k == ToClient(l, c, ms)
<1>2. ms \in Seq(Mail) /\ k = ToClient(l, c, ms) /\ link' = k /\ AreLinks(l) BY DEF Reads
<1> HIDE DEF k, ms
<1>5. /\ AreLinks(k) /\ (\A d \in Sockets : d # c => k[d] = l[d])
      /\ k[c].state = l[c].state /\ k[c].toServer = l[c].toServer
      /\ (k[c].toClient = l[c].toClient \/ k[c].toClient = l[c].toClient \o ms)
  BY <1>2, ToClientEffect
<1>3. /\ AreLinks(link') /\ (\A d \in Sockets : d # c => link'[d] = l[d])
      /\ link'[c].state = l[c].state /\ link'[c].toServer = l[c].toServer
      /\ (link'[c].toClient = l[c].toClient \/ link'[c].toClient = l[c].toClient \o ms)
  BY <1>2, <1>5
<1> USE DEF ms
<1>4. Kept(link[c].toClient, link'[c].toClient, {m})
  BY <1>1, <1>3, KeptAll, KeptOne DEF Reads
<1> QED BY <1>3, <1>4 DEF Reads, LinkStep

LEMMA Ended ==
  ASSUME Shaped, NEW c \in Sockets, NEW l, Reads(c, l), NEW m \in Mail, Ends(c, l, <<m>>)
  PROVE  LinkStep(c, {m})
<1>1. link[c].toClient \in Seq(Mail) /\ link[c].toServer \in Seq(Mail)
  BY DEF Shaped, AreLinks, IsLink
<1>2. Kept(link[c].toClient, link'[c].toClient, {m})
  BY <1>1, KeptAll, KeptOne DEF Reads, Ends
<1>3. Kept(link[c].toServer, link'[c].toServer, {}) BY <1>1, KeptNothing DEF Ends
<1>4. c = 1 => ~Begins(link'[1].toServer, "open") BY DEF Ends, Begins
<1> QED BY <1>2, <1>3, <1>4 DEF Reads, Ends, LinkStep

LEMMA NoNews ==
  ASSUME NEW c
  PROVE  NewsIsSound(c, {})
BY DEF NewsIsSound, CursorsAreSound

\* A message that the client displays, or that ends its capture.
LEMMA PlainNews ==
  ASSUME NEW c, NEW m \in Mail, m.type \in {"error", "final", "closed"}
  PROVE  NewsIsSound(c, {m})
BY DEF NewsIsSound, CursorsAreSound, ClientSound, IsCursor

LEMMA CursorNews ==
  ASSUME NEW c, NEW m \in Mail, m.type \in {"ack", "reconnected"},
         Floor(c) <= m.seq, m.seq <= Floor(c)', m.arg = 1 => stream'.vad.ended
  PROVE  NewsIsSound(c, {m})
BY DEF NewsIsSound, CursorsAreSound, ClientSound


-----------------------------------------------------------------------------
(* The steps of the server *)

\* When stream and provider stay, and the expiry only follows the socket, little
\* is left to show.
LEMMA SocketStepKeeps ==
  ASSUME AudioInv, NEW c \in Sockets, NEW news, LinkStep(c, news), NewsIsSound(c, news),
         UNCHANGED <<client, captured, overtaken, stream, provider>>,
         AreSocks(sock'), \A d \in Sockets : d # c => sock'[d] = sock[d],
         IsExpiry(expiry'),
         \A t \in Sockets : expiry'.tasks[t] = "sleeping" => stream.told,
         sock'[c].attached => stream.told,
         sock'[c].busy \notin {"push", "close", "endpoint"}, Floor(c) <= stream.next
  PROVE  AudioInv'
<1> USE DEF AudioInv
<1>1. Shaped' BY DEF Shaped, LinkStep
<1>2. Fed' BY DEF Fed
<1>3. ServerStep(c, news)
  BY SocketNumbers DEF ServerStep, LinkStep, Floor, Shaped, IsStream, Numbers
<1>5. Lives' BY DEF Lives, LinkStep
<1>6. Commits' BY DEF Commits, Settled, Expected, Late
<1> QED BY <1>1, <1>2, <1>3, <1>5, <1>6, ServerStepKeeps

LEMMA ErrorIsMail == Msg("error", 0, 0) \in Mail /\ Msg("error", 0, 0).type = "error"
<1>1. "error" \in MailTypes BY DEF MailTypes
<1> QED BY <1>1, MsgIsMail

LEMMA CursorIsMail ==
  ASSUME NEW n \in Nat, NEW r
  PROVE  /\ Ack(n, r) \in Mail /\ Ack(n, r).type = "ack" /\ Ack(n, r).seq = n
         /\ Ack(n, r).arg = 1 => r
         /\ Msg("reconnected", n, 0) \in Mail /\ Msg("reconnected", n, 0).type = "reconnected"
         /\ Msg("reconnected", n, 0).seq = n /\ Msg("reconnected", n, 0).arg = 0
<1>1. {"ack", "reconnected"} \subseteq MailTypes BY DEF MailTypes
<1>2. CASE r BY <1>1, <1>2, MsgIsMail DEF Ack
<1>3. CASE ~r BY <1>1, <1>3, MsgIsMail DEF Ack
<1> QED BY <1>2, <1>3

LEMMA RefuseKeeps ==
  ASSUME AudioInv, NEW c \in Sockets, NEW l, Reads(c, l), Refuse(c, l),
         sock[c].busy # "push", UNCHANGED <<client, captured, overtaken, stream, provider>>
  PROVE  AudioInv'
<1>1. Ends(c, l, <<Msg("error", 0, 0)>>)
  BY RefuseEffect DEF AudioInv, Reads
<1>2. LinkStep(c, {Msg("error", 0, 0)})
  BY <1>1, ErrorIsMail, Ended DEF AudioInv
<1>3. NewsIsSound(c, {Msg("error", 0, 0)}) BY ErrorIsMail, PlainNews
<1>4. IsExpiry(expiry') /\ \A t \in Sockets : expiry'.tasks[t] = "sleeping" => stream.told
  BY AbandonedEffect DEF Refuse, AudioInv, Shaped, Lives
<1>5. Floor(c) <= stream.next BY DEF Floor, AudioInv, Shaped, IsStream
<1> QED BY <1>1, <1>2, <1>3, <1>4, <1>5, SocketStepKeeps DEF Ends

LEMMA DieKeeps ==
  ASSUME AudioInv, NEW c \in Sockets, NEW l, Reads(c, l), Die(c, l),
         UNCHANGED <<client, captured, overtaken, stream, provider>>
  PROVE  AudioInv'
<1>1. Ends(c, l, <<Msg("error", 0, 0)>>)
  BY DieEffect DEF AudioInv, Reads
<1>2. LinkStep(c, {Msg("error", 0, 0)})
  BY <1>1, ErrorIsMail, Ended DEF AudioInv
<1>3. NewsIsSound(c, {Msg("error", 0, 0)}) BY ErrorIsMail, PlainNews
<1>4. IsExpiry(expiry') /\ \A t \in Sockets : expiry'.tasks[t] = "sleeping" => stream.told
  BY DEF Die, AudioInv, Shaped, Lives
<1>5. Floor(c) <= stream.next
  BY DEF Floor, AudioInv, Shaped, IsStream, Fed, IsProvider, AreSocks, IsSock
<1> QED BY <1>1, <1>2, <1>3, <1>4, <1>5, SocketStepKeeps DEF Ends

LEMMA ReconnectKeeps ==
  ASSUME AudioInv, NEW c \in Sockets, Reconnect(c)
  PROVE  AudioInv'
<1> DEFINE l == ServerTook(link, c)
           m == Msg("reconnected", stream.next, 0)
<1>1. /\ Reads(c, l) /\ sock[c].busy = "no" /\ Floor(c) = stream.next
      /\ 1 \in 1..Len(link[c].toServer) /\ link[c].toServer[1].type = "reconnect"
  BY HeardReads DEF Reconnect
<1>2. UNCHANGED <<client, captured, overtaken, stream, provider>> BY DEF Reconnect, microphone
<1>3. CASE Refuse(c, l) BY <1>1, <1>2, <1>3, RefuseKeeps
<1>4. CASE /\ sock' = [sock EXCEPT ![c].attached = TRUE, ![c].pump = TRUE]
           /\ expiry' = ExpiryCancelled(expiry)
           /\ link' = ToClient(l, c, <<m>>)
  <2>1. stream.next \in Nat BY DEF AudioInv, Shaped, IsStream
  <2>2. m \in Mail /\ m.type = "reconnected" /\ m.seq = stream.next /\ m.arg = 0
    BY <2>1, CursorIsMail
  <2> HIDE DEF m, l
  <2>3. LinkStep(c, {m}) BY <1>1, <1>4, <2>2, Answered DEF AudioInv
  <2>4. /\ DOMAIN sock' = Sockets /\ \A d \in Sockets : d # c => sock'[d] = sock[d]
        /\ sock'[c] = [sock[c] EXCEPT !.attached = TRUE, !.pump = TRUE]
    BY <1>4 DEF AudioInv, Shaped, AreSocks
  <2>5. IsSock(sock'[c]) /\ sock'[c].busy = sock[c].busy
    BY <2>4 DEF AudioInv, Shaped, AreSocks, IsSock
  <2>6. AreSocks(sock') BY <2>4, <2>5 DEF AreSocks, AudioInv, Shaped
  <2>7. NewsIsSound(c, {m})
    BY <1>1, <1>2, <2>1, <2>2, <2>5, CursorNews DEF Floor
  <2>8. IsExpiry(expiry') /\ \A t \in Sockets : expiry'.tasks[t] = "sleeping" => stream.told
    BY <1>4, ExpiryCancelledEffect DEF AudioInv, Shaped, Lives
  <2>9. stream.told BY <1>1 DEF AudioInv, ServerMail, ServerSound
  <2>10. sock'[c].busy \notin {"push", "close", "endpoint"} /\ Floor(c) <= stream.next
    BY <1>1, <2>1, <2>5
  <2>11. \A d \in Sockets : d # c => sock'[d] = sock[d] BY <2>4
  <2> QED BY <1>2, <2>3, <2>6, <2>7, <2>8, <2>9, <2>10, <2>11, SocketStepKeeps
<1> QED BY <1>3, <1>4 DEF Reconnect

LEMMA ChunkRefusedKeeps ==
  ASSUME AudioInv, NEW c \in Sockets, ChunkRefused(c)
  PROVE  AudioInv'
<1> DEFINE l == ServerTook(link, c)
           m == Ack(stream.next, FALSE)
<1>1. Reads(c, l) /\ sock[c].busy = "no" /\ Floor(c) = stream.next
  BY HeardReads DEF ChunkRefused
<1>2. UNCHANGED <<client, captured, overtaken, stream, provider>> BY DEF ChunkRefused, microphone
<1>3. CASE Refuse(c, l) BY <1>1, <1>2, <1>3, RefuseKeeps
<1>4. CASE link' = ToClient(l, c, <<m>>) /\ UNCHANGED <<sock, expiry>>
  <2>1. stream.next \in Nat BY DEF AudioInv, Shaped, IsStream
  <2>2. m \in Mail /\ m.type = "ack" /\ m.seq = stream.next /\ m.arg # 1
    BY <2>1, CursorIsMail
  <2> HIDE DEF m, l
  <2>3. LinkStep(c, {m}) BY <1>1, <1>4, <2>2, Answered DEF AudioInv
  <2>7. NewsIsSound(c, {m})
    BY <1>1, <1>2, <1>4, <2>1, <2>2, CursorNews DEF Floor
  <2> QED BY <1>1, <1>2, <1>4, <2>1, <2>3, <2>7, SocketStepKeeps
          DEF AudioInv, Shaped, Lives
<1> QED BY <1>3, <1>4 DEF ChunkRefused


\* t is the stream s, except for how far its opening has come.
SameStream(s, t) ==
  /\ IsStream(t) /\ t.next = s.next /\ t.closed = s.closed
  /\ t.vad = s.vad /\ t.committed = s.committed

LEMMA RegisteredEffect ==
  ASSUME NEW s, IsStream(s), NEW t, t = [s EXCEPT !.opened = TRUE]
  PROVE  SameStream(s, t) /\ t.told = s.told
BY DEF IsStream, SameStream

LEMMA BridgedEffect ==
  ASSUME NEW s, IsStream(s), NEW t, t = [s EXCEPT !.record = TRUE, !.pump = "running"]
  PROVE  SameStream(s, t) /\ t.told = s.told /\ t.record
BY DEF IsStream, SameStream

LEMMA ToldEffect ==
  ASSUME NEW s, IsStream(s), NEW t, t = [s EXCEPT !.told = TRUE]
  PROVE  SameStream(s, t) /\ t.told /\ (s.record => t.record)
BY DEF IsStream, SameStream

LEMMA OpenKeeps ==
  ASSUME AudioInv, NEW c \in Sockets, Open(c)
  PROVE  AudioInv'
<1> DEFINE l == ServerTook(link, c)
           registered == [stream EXCEPT !.opened = TRUE]
           bridged == [registered EXCEPT !.record = TRUE, !.pump = "running"]
           m == Msg("opened", 0, 0)
<1>1. /\ Reads(c, l) /\ sock[c].busy = "no" /\ Floor(c) = stream.next
      /\ 1 \in 1..Len(link[c].toServer) /\ link[c].toServer[1].type = "open"
      /\ link[c].toServer # <<>>
  BY HeardReads DEF Open
<1>2. UNCHANGED <<client, captured, overtaken>> BY DEF Open, microphone
<1>3. /\ c = 1 /\ Fresh /\ link[1].toClient = <<>> /\ ~stream.told /\ ~sock[1].pump
      /\ captured = 0 /\ ~client.sid
  BY <1>1 DEF AudioInv, Opening, OpenIsFirst, Begins, Fresh
<1>4. stream.next = 0 /\ Len(provider.audio) = 0 /\ ~stream.closed
  BY <1>3 DEF AudioInv, Fed, Lives, Shaped, IsStream, IsProvider
<1>s. IsStream(stream) BY DEF AudioInv, Shaped
<1>r. registered = [stream EXCEPT !.opened = TRUE]
      /\ bridged = [registered EXCEPT !.record = TRUE, !.pump = "running"]
  OBVIOUS
<1> HIDE DEF registered, bridged
<1>5. SameStream(stream, registered) /\ registered.told = stream.told
  BY <1>s, <1>r, RegisteredEffect
<1>t. SameStream(stream, bridged) /\ bridged.told = stream.told /\ bridged.record
  BY <1>5, <1>r, BridgedEffect DEF SameStream
<1>u. /\ SameStream(stream, [bridged EXCEPT !.told = TRUE])
      /\ [bridged EXCEPT !.told = TRUE].told /\ [bridged EXCEPT !.told = TRUE].record
  BY <1>t, ToldEffect DEF SameStream
<1>6. ASSUME provider' = [provider EXCEPT !.up = TRUE]
      PROVE  IsProvider(provider') /\ provider'.audio = provider.audio /\ provider'.commits = provider.commits
  <2>1. provider' = [up |-> TRUE, audio |-> provider.audio, commits |-> provider.commits]
    BY <1>6 DEF AudioInv, Shaped, IsProvider
  <2> QED BY <2>1 DEF AudioInv, Shaped, IsProvider
<1> HIDE DEF l, registered, bridged
<1>7. CASE (Refuse(c, l) \/ Die(c, l)) /\ UNCHANGED <<stream, provider>>
  BY <1>1, <1>2, <1>7, RefuseKeeps, DieKeeps
<1>8. CASE /\ stream' \in {registered, bridged}
           /\ provider' = [provider EXCEPT !.up = TRUE]
           /\ Refuse(c, l)
  <2>1. Ends(c, l, <<Msg("error", 0, 0)>>)
    BY <1>1, <1>8, RefuseEffect DEF AudioInv, Reads
  <2>2. LinkStep(c, {Msg("error", 0, 0)})
    BY <1>1, <2>1, ErrorIsMail, Ended DEF AudioInv
  <2>3. NewsIsSound(c, {Msg("error", 0, 0)}) BY ErrorIsMail, PlainNews
  <2>4. ~sock[c].attached /\ expiry' = expiry
    BY <1>3, <1>8, AbandonedEffect DEF Refuse, AudioInv, Shaped, Lives
  <2>5. /\ IsStream(stream') /\ stream'.next = stream.next /\ stream'.closed = stream.closed
        /\ stream'.vad = stream.vad /\ stream'.told = stream.told
    BY <1>5, <1>t, <1>8 DEF SameStream
  <2>6. /\ AreSocks(sock') /\ sock'[c].busy = "no" /\ ~sock'[c].attached
        /\ \A d \in Sockets : d # c => sock'[d] = sock[d]
    BY <2>1 DEF Ends
  <2>7. Shaped' BY <1>2, <1>6, <1>8, <2>2, <2>4, <2>5, <2>6 DEF AudioInv, Shaped, LinkStep
  <2>8. Fed' BY <1>2, <1>3, <1>4, <1>6, <1>8, <2>5, <2>6 DEF AudioInv, Fed
  <2>9. ServerStep(c, {Msg("error", 0, 0)})
    BY <1>1, <1>2, <1>3, <1>4, <2>2, <2>5, <2>6 DEF ServerStep, LinkStep, Floor
  <2>10. Lives' BY <1>2, <1>3, <1>4, <2>2, <2>4, <2>5, <2>6 DEF AudioInv, Lives, LinkStep
  <2>11. Commits' BY <1>2, <1>6, <1>8, <2>5 DEF AudioInv, Commits, Settled, Expected, Late
  <2> QED BY <2>3, <2>7, <2>8, <2>9, <2>10, <2>11, ServerStepKeeps
<1>9. CASE /\ stream' = [bridged EXCEPT !.told = TRUE]
           /\ provider' = [provider EXCEPT !.up = TRUE]
           /\ sock' = [sock EXCEPT ![c].attached = TRUE, ![c].pump = TRUE]
           /\ link' = ToClient(l, c, <<m>>)
           /\ UNCHANGED expiry
  <2>1. m \in Mail /\ m.type = "opened"
    <3>1. "opened" \in MailTypes BY DEF MailTypes
    <3> QED BY <3>1, MsgIsMail
  <2> HIDE DEF m
  <2>2. LinkStep(c, {m}) BY <1>1, <1>9, <2>1, Answered DEF AudioInv
  <2>3. CursorsAreSound(c, {m})
    BY <2>1 DEF CursorsAreSound, ClientSound, IsCursor
  <2>4. /\ DOMAIN sock' = Sockets /\ \A d \in Sockets : d # c => sock'[d] = sock[d]
        /\ sock'[c] = [sock[c] EXCEPT !.attached = TRUE, !.pump = TRUE]
    BY <1>9 DEF AudioInv, Shaped, AreSocks
  <2>5. IsSock(sock'[c]) /\ sock'[c].busy = sock[c].busy
    BY <2>4 DEF AudioInv, Shaped, AreSocks, IsSock
  <2>6. AreSocks(sock') /\ \A d \in Sockets : d # c => sock'[d] = sock[d]
    BY <2>4, <2>5 DEF AreSocks, AudioInv, Shaped
  <2>7. /\ IsStream(stream') /\ stream'.next = stream.next /\ stream'.closed = stream.closed
        /\ stream'.vad = stream.vad /\ stream'.told /\ stream'.record
        /\ stream'.committed = stream.committed
    BY <1>u, <1>9 DEF SameStream
  <2>8. Shaped' BY <1>2, <1>6, <1>9, <2>2, <2>6, <2>7 DEF AudioInv, Shaped, LinkStep
  <2>9. Fed' BY <1>1, <1>2, <1>3, <1>4, <1>6, <1>9, <2>5, <2>6, <2>7 DEF AudioInv, Fed
  <2>10. ServerStep(c, {m})
    BY <1>1, <1>2, <1>3, <1>4, <2>2, <2>5, <2>6, <2>7 DEF ServerStep, LinkStep, Floor
  <2>11. ServerMail' /\ ClientMail' /\ Unread' /\ Numbers' /\ LinksKeep(c, {}, {m})
    BY <2>3, <2>8, <2>9, <2>10, ServerStepMail
  <2>12. Lives'
    <3>1. stream'.told /\ stream'.record /\ ~stream'.closed /\ expiry' = expiry /\ client' = client
      BY <1>2, <1>4, <1>9, <2>7
    <3>2. sock'[c].busy = "no" BY <1>1, <2>5
    <3>3. \A d \in Sockets : d # c => sock'[d] = sock[d] /\ link'[d] = link[d]
      BY <2>2, <2>6 DEF LinkStep
    <3>4. link'[c].state # "new" BY <2>2 DEF LinkStep
    <3> QED BY <1>4, <2>7, <3>1, <3>2, <3>3, <3>4 DEF AudioInv, Lives
  <2>13. Commits' BY <1>2, <1>6, <1>9, <2>7 DEF AudioInv, Commits, Settled, Expected, Late
  <2>14. Opening'
    <3>1. Fresh' BY <1>2, <1>3 DEF Fresh
    <3>2. OpenIsFirst' BY <2>8, <2>11, FirstsStep DEF AudioInv
    <3>3. link'[1].toClient = <<>> \/ link'[1].toClient = <<m>>
      <4>1. link'[c].toClient \in {l[c].toClient, l[c].toClient \o <<m>>}
        BY <1>1, <1>9, <2>1, Answered DEF AudioInv
      <4>2. l[c].toClient = <<>> BY <1>1, <1>3 DEF Reads
      <4> QED BY <1>3, <4>1, <4>2
    <3>4. OpenedIsFirst'
      BY <1>3, <2>2, <3>3 DEF OpenedIsFirst, LinkStep, AudioInv, Opening
    <3>5. ~Begins(link'[1].toServer, "open") BY <1>3, <2>2 DEF LinkStep
    <3> QED BY <2>7, <3>1, <3>2, <3>4, <3>5 DEF Opening
  <2> QED BY <2>8, <2>9, <2>11, <2>12, <2>13, <2>14 DEF AudioInv
<1> QED BY <1>7, <1>8, <1>9 DEF Open, l, registered, bridged, m

LEMMA NextEffect ==
  ASSUME NEW s, IsStream(s), NEW t, t = [s EXCEPT !.next = s.next + 1]
  PROVE  /\ IsStream(t) /\ t.next = s.next + 1 /\ t.vad = s.vad /\ t.committed = s.committed
         /\ t.told = s.told /\ t.closed = s.closed /\ t.record = s.record
BY DEF IsStream

\* The coroutine s after it has handed a frame to the provider.
Pushed(s, frame, seq) == [s EXCEPT !.busy = "push", !.frame = frame, !.seq = seq]

LEMMA PushedEffect ==
  ASSUME NEW s, IsSock(s), NEW frame \in Nat, NEW seq \in Nat,
         NEW t, t = Pushed(s, frame, seq)
  PROVE  IsSock(t) /\ t.busy = "push" /\ t.frame = frame /\ t.seq = seq /\ t.attached = s.attached
BY DEF IsSock, Pushed

\* What is known of the request whose chunk is accepted.
LEMMA ChunkIsNext ==
  ASSUME AudioInv, NEW c \in Sockets, Heard(c, "chunk"), IsNext(c)
  PROVE  /\ Request(c).seq = stream.next /\ Request(c).arg = stream.next + 1
         /\ stream.next + 1 <= captured /\ (client.sid => stream.next + 1 <= client.next)
<1>1. 1 \in 1..Len(link[c].toServer) /\ Request(c) = link[c].toServer[1]
      /\ Request(c).type = "chunk" /\ Request(c) \in Mail
  BY HeardReads
<1>2. ServerSound(Request(c)) BY <1>1 DEF AudioInv, ServerMail
<1>3. stream.next \in Nat /\ captured \in Nat /\ client.next \in Nat
  BY DEF AudioInv, Shaped, IsStream, IsClient
<1> QED BY <1>1, <1>2, <1>3 DEF ServerSound, IsNext

LEMMA ChunkAcceptedKeeps ==
  ASSUME AudioInv, NEW c \in Sockets, ChunkAccepted(c)
  PROVE  AudioInv'
<1> DEFINE l == ServerTook(link, c)
           m == Ack(stream.next + 1, FALSE)
<1>1. Reads(c, l) /\ sock[c].busy = "no" /\ Floor(c) = stream.next
  BY HeardReads DEF ChunkAccepted
<1>2. /\ Request(c).seq = stream.next /\ Request(c).arg = stream.next + 1
      /\ stream.next + 1 <= captured /\ (client.sid => stream.next + 1 <= client.next)
  BY ChunkIsNext DEF ChunkAccepted
<1>3. UNCHANGED <<client, captured, overtaken>> /\ ~stream.closed BY DEF ChunkAccepted, microphone
<1>4. stream' = [stream EXCEPT !.next = stream.next + 1] BY DEF ChunkAccepted
<1>5. IsStream(stream) /\ stream.next \in Nat /\ captured \in Nat /\ client.next \in Nat
      /\ Len(provider.audio) \in Nat
  BY DEF AudioInv, Shaped, IsStream, IsClient, IsProvider
<1>6. /\ IsStream(stream') /\ stream'.next = stream.next + 1 /\ stream'.vad = stream.vad
      /\ stream'.committed = stream.committed /\ stream'.told = stream.told
      /\ stream'.closed = stream.closed /\ stream'.record = stream.record
  BY <1>4, <1>5, NextEffect
<1>7. Commits' \/ ~(UNCHANGED provider)
  BY <1>3, <1>6 DEF AudioInv, Commits, Settled, Expected, Late
<1>8. CASE /\ stream.committed
           /\ link' = ToClient(l, c, <<m>>)
           /\ UNCHANGED <<sock, provider, expiry>>
  <2>2. m \in Mail /\ m.type = "ack" /\ m.seq = stream.next + 1 /\ m.arg # 1
    <3> DEFINE n == stream.next + 1
    <3>1. n \in Nat /\ m = Ack(n, FALSE) BY <1>5
    <3> HIDE DEF n, m
    <3>2. m \in Mail /\ m.type = "ack" /\ m.seq = n /\ m.arg # 1 BY <3>1, CursorIsMail
    <3> QED BY <3>2 DEF n
  <2> HIDE DEF m, l
  <2>3. LinkStep(c, {m}) BY <1>1, <1>8, <2>2, Answered DEF AudioInv
  <2>4. Floor(c)' = stream.next + 1 BY <1>1, <1>6, <1>8 DEF Floor
  <2>5. NewsIsSound(c, {m})
    <3>1. Floor(c) <= m.seq /\ m.seq <= Floor(c)' BY <1>1, <1>5, <2>2, <2>4
    <3> QED BY <2>2, <3>1, CursorNews
  <2>6. Shaped' BY <1>3, <1>6, <1>8, <2>3 DEF AudioInv, Shaped, LinkStep
  <2>7. Fed' BY <1>2, <1>3, <1>5, <1>6, <1>8 DEF AudioInv, Fed
  <2>8. ServerStep(c, {m})
    BY <1>1, <1>2, <1>3, <1>5, <1>6, <1>8, <2>3, <2>4 DEF ServerStep, LinkStep
  <2>9. Lives' BY <1>3, <1>6, <1>8, <2>3 DEF AudioInv, Lives, LinkStep
  <2> QED BY <1>7, <1>8, <2>5, <2>6, <2>7, <2>8, <2>9, ServerStepKeeps
<1>9. CASE /\ ~stream.committed /\ provider.up
           /\ provider' = [provider EXCEPT !.audio = Append(@, Request(c).arg)]
           /\ sock' = [sock EXCEPT ![c].busy = "push", ![c].frame = Request(c).arg,
                                   ![c].seq = Request(c).seq]
           /\ link' = l
           /\ UNCHANGED expiry
  <2> HIDE DEF l
  <2>1. LinkStep(c, {}) BY <1>1, <1>9, ReadOnly DEF AudioInv
  <2>2. Len(provider.audio) = stream.next /\ provider.audio \in Seq(Nat)
    BY <1>9 DEF AudioInv, Fed, Shaped, IsProvider
  <2> DEFINE n == stream.next + 1
             heard == Append(provider.audio, n)
  <2>h. heard \in Seq(Nat) /\ Len(heard) = n /\ \A i \in 1..n : heard[i] = i
    BY <1>5, <2>2 DEF AudioInv, Fed
  <2>3. provider' = [provider EXCEPT !.audio = heard] BY <1>2, <1>9
  <2> HIDE DEF heard, n
  <2>4. IsProvider(provider') /\ provider'.audio = heard /\ provider'.commits = provider.commits
        /\ provider'.up = provider.up
    BY <2>3, <2>h DEF AudioInv, Shaped, IsProvider
  <2>5. /\ DOMAIN sock' = Sockets /\ \A d \in Sockets : d # c => sock'[d] = sock[d]
        /\ sock'[c] = Pushed(sock[c], n, stream.next)
    BY <1>2, <1>9 DEF Pushed, AudioInv, Shaped, AreSocks, n
  <2>6. IsSock(sock'[c]) /\ sock'[c].busy = "push" /\ sock'[c].frame = n
        /\ sock'[c].seq = stream.next /\ sock'[c].attached = sock[c].attached
    <3>1. n \in Nat /\ IsSock(sock[c]) BY <1>5 DEF AudioInv, Shaped, AreSocks, n
    <3> DEFINE k == stream.next
               x == sock[c]
               y == sock'[c]
    <3>2. k \in Nat /\ y = Pushed(x, n, k) /\ IsSock(x) /\ n \in Nat BY <1>5, <2>5, <3>1
    <3> HIDE DEF k, x, y
    <3>3. IsSock(y) /\ y.busy = "push" /\ y.frame = n /\ y.seq = k /\ y.attached = x.attached
      BY ONLY <3>2, PushedEffect
    <3> QED BY <3>3 DEF k, x, y
  <2> USE DEF n
  <2>7. AreSocks(sock') BY <2>5, <2>6 DEF AreSocks, AudioInv, Shaped
  <2>8. Shaped' BY <1>3, <1>6, <1>9, <2>1, <2>4, <2>7 DEF AudioInv, Shaped, LinkStep
  <2>9. Fed'
    <3>1. \A d \in Sockets : sock'[d].busy = "push" =>
            sock'[d].frame = sock'[d].seq + 1 /\ sock'[d].seq < Len(heard)
      <4> SUFFICES ASSUME NEW d \in Sockets, sock'[d].busy = "push"
                   PROVE  sock'[d].frame = sock'[d].seq + 1 /\ sock'[d].seq < Len(heard)
        OBVIOUS
      <4>1. CASE d = c BY <1>5, <2>6, <2>h, <4>1
      <4>2. CASE d # c
        <5>1. sock'[d] = sock[d] /\ sock[d].seq \in Nat
          BY <2>5, <4>2 DEF AudioInv, Shaped, AreSocks, IsSock
        <5> QED BY <1>5, <2>2, <2>h, <5>1 DEF AudioInv, Fed
      <4> QED BY <4>1, <4>2
    <3>2. provider'.audio = heard /\ stream'.next = n /\ captured' = captured /\ n <= captured
      BY <1>2, <1>3, <1>6, <2>4
    <3>3. n \in Nat BY <1>5
    <3> HIDE DEF n
    <3> QED BY ONLY <2>h, <3>1, <3>2, <3>3 DEF Fed
  <2>10. ServerStep(c, {})
    BY <1>1, <1>2, <1>3, <1>5, <1>6, <2>1, <2>5, <2>6 DEF ServerStep, LinkStep, Floor
  <2>11. Lives' BY <1>3, <1>6, <1>9, <2>1, <2>4, <2>5, <2>6 DEF AudioInv, Lives, LinkStep
  <2>12. Commits'
    <3>1. /\ captured \in Nat /\ UNCHANGED <<captured, overtaken, client>>
          /\ Len(provider.audio) \in Nat /\ Len(provider'.audio) = Len(provider.audio) + 1
          /\ stream'.vad = stream.vad /\ provider'.commits = provider.commits
      BY <1>3, <1>5, <1>6, <2>2, <2>4, <2>h DEF AudioInv, Shaped, IsProvider, n
    <3>2. Expected' = Expected /\ Late' = Late BY <3>1, FramesKept
    <3>3. Expected \in Nat /\ Late \in Nat BY <3>1, FramesAwaited
    <3>4. Commits BY DEF AudioInv
    <3>5. client'.stopping # "no" \/ client'.recovery = "flushing" => Settled'
      BY <3>1, <3>4 DEF Commits, Settled
    <3>6. ASSUME provider'.commits > 0, ~stream'.vad.ended
          PROVE  Settled' /\ Expected' <= Len(provider'.audio) + Late'
      <4>1. Settled /\ Expected <= Len(provider.audio) + Late BY <3>1, <3>4, <3>6 DEF Commits
      <4>2. Settled' BY <3>1, <4>1 DEF Settled
      <4> QED BY <3>1, <3>2, <3>3, <4>1, <4>2
    <3> QED BY <3>5, <3>6 DEF Commits
  <2>13. NewsIsSound(c, {}) BY NoNews
  <2> QED BY <2>8, <2>9, <2>10, <2>11, <2>12, <2>13, ServerStepKeeps
<1>10. CASE ~stream.committed /\ ~provider.up /\ Die(c, l) /\ UNCHANGED provider
  <2> HIDE DEF l
  <2>1. Ends(c, l, <<Msg("error", 0, 0)>>)
    BY <1>1, <1>10, DieEffect DEF AudioInv, Reads
  <2>2. LinkStep(c, {Msg("error", 0, 0)})
    BY <1>1, <2>1, ErrorIsMail, Ended DEF AudioInv
  <2>3. NewsIsSound(c, {Msg("error", 0, 0)}) BY ErrorIsMail, PlainNews
  <2>4. expiry' = expiry BY <1>10 DEF Die
  <2>5. /\ AreSocks(sock') /\ sock'[c].busy = "no" /\ ~sock'[c].attached
        /\ \A d \in Sockets : d # c => sock'[d] = sock[d]
    BY <2>1 DEF Ends
  <2>6. Shaped' BY <1>3, <1>6, <1>10, <2>2, <2>4, <2>5 DEF AudioInv, Shaped, LinkStep
  <2>7. Fed' BY <1>2, <1>3, <1>5, <1>6, <1>10, <2>5 DEF AudioInv, Fed
  <2>8. ServerStep(c, {Msg("error", 0, 0)})
    BY <1>1, <1>2, <1>3, <1>5, <1>6, <2>2, <2>5 DEF ServerStep, LinkStep, Floor
  <2>9. Lives' BY <1>3, <1>6, <1>10, <2>2, <2>4, <2>5 DEF AudioInv, Lives, LinkStep
  <2> QED BY <1>7, <1>10, <2>3, <2>6, <2>7, <2>8, <2>9, ServerStepKeeps
<1> QED BY <1>8, <1>9, <1>10 DEF ChunkAccepted

LEMMA VadEffect ==
  ASSUME NEW s, IsStream(s), NEW v, NEW t, t = [s EXCEPT !.vad = v]
  PROVE  /\ IsStream(t) /\ t.next = s.next /\ t.vad = v /\ t.committed = s.committed
         /\ t.told = s.told /\ t.closed = s.closed /\ t.record = s.record
BY DEF IsStream

\* The coroutine s after the provider took its frame.
Heeded(s, busy) == [s EXCEPT !.busy = busy, !.frame = 0, !.seq = 0]

LEMMA HeededEffect ==
  ASSUME NEW s, IsSock(s), NEW busy
  PROVE  /\ IsSock(Heeded(s, busy)) /\ Heeded(s, busy).busy = busy
         /\ Heeded(s, busy).attached = s.attached
<1> DEFINE t == Heeded(s, busy)
<1>1. t = [s EXCEPT !.busy = busy, !.frame = 0, !.seq = 0] BY DEF Heeded
<1> HIDE DEF t
<1>2. IsSock(t) /\ t.busy = busy /\ t.attached = s.attached
  BY <1>1 DEF IsSock
<1> QED BY <1>2 DEF t

LEMMA PushDoneKeeps ==
  ASSUME AudioInv, NEW c \in Sockets, PushDone(c)
  PROVE  AudioInv'
<1> DEFINE vad == Observed(stream.vad, level[sock[c].frame])
           m == Ack(sock[c].seq + 1, vad.ended)
           busy == IF vad.ended THEN "endpoint" ELSE "no"
<1>1. Reads(c, link) /\ sock[c].busy = "push" BY BusyReads DEF PushDone
<1>2. UNCHANGED <<client, captured, overtaken, provider>> BY DEF PushDone, microphone
<1>3. stream.vad.ended => vad.ended BY DEF Observed
<1>b. busy \in {"endpoint", "no"} /\ (busy = "endpoint" => vad.ended) OBVIOUS
<1>4. /\ IsStream(stream) /\ stream.next \in Nat /\ IsSock(sock[c]) /\ sock[c].seq \in Nat
      /\ sock[c].seq + 1 <= stream.next
  BY <1>1 DEF AudioInv, Shaped, IsStream, AreSocks, IsSock, Fed, IsProvider
<1>5. CASE Die(c, link) /\ UNCHANGED stream
  BY <1>1, <1>2, <1>5, DieKeeps
<1>6. CASE /\ provider.up /\ ~stream.closed
           /\ stream' = [stream EXCEPT !.vad = vad]
           /\ sock' = [sock EXCEPT ![c].busy = busy, ![c].frame = 0, ![c].seq = 0]
           /\ link' = ToClient(link, c, <<m>>)
           /\ UNCHANGED expiry
  <2>1. m \in Mail /\ m.type = "ack" /\ m.seq = sock[c].seq + 1 /\ (m.arg = 1 => vad.ended)
    <3> DEFINE n == sock[c].seq + 1
               r == vad.ended
    <3>1. n \in Nat /\ m = Ack(n, r) BY <1>4
    <3> HIDE DEF n, m, r
    <3>2. m \in Mail /\ m.type = "ack" /\ m.seq = n /\ (m.arg = 1 => r) BY <3>1, CursorIsMail
    <3> QED BY <3>2 DEF n, r
  <2> HIDE DEF m, vad, busy
  <2>2. LinkStep(c, {m}) BY <1>1, <1>6, <2>1, Answered DEF AudioInv
  <2>3. /\ IsStream(stream') /\ stream'.next = stream.next /\ stream'.vad = vad
        /\ stream'.committed = stream.committed /\ stream'.told = stream.told
        /\ stream'.closed = stream.closed /\ stream'.record = stream.record
    <3>1. IsStream(stream) /\ stream' = [stream EXCEPT !.vad = vad] BY <1>4, <1>6
    <3> QED BY ONLY <3>1, VadEffect
  <2>4. /\ DOMAIN sock' = Sockets /\ \A d \in Sockets : d # c => sock'[d] = sock[d]
        /\ sock'[c] = Heeded(sock[c], busy)
    BY <1>6 DEF AudioInv, Shaped, AreSocks, Heeded
  <2>5. IsSock(sock'[c]) /\ sock'[c].busy = busy /\ sock'[c].attached = sock[c].attached
    <3> DEFINE x == sock[c]
    <3>1. sock'[c] = Heeded(x, busy) /\ IsSock(x) BY <1>4, <2>4
    <3> HIDE DEF x
    <3>2. IsSock(Heeded(x, busy)) /\ Heeded(x, busy).busy = busy
          /\ Heeded(x, busy).attached = x.attached
      BY ONLY <3>1, HeededEffect
    <3> USE DEF x
    <3> QED BY <3>1, <3>2 DEF IsSock
  <2>6. AreSocks(sock') BY <2>4, <2>5 DEF AreSocks, AudioInv, Shaped
  <2>7. Floor(c) = sock[c].seq + 1 /\ Floor(c)' = stream.next
    BY <1>1, <1>b, <2>3, <2>5 DEF Floor
  <2>8. NewsIsSound(c, {m})
    <3>1. Floor(c) <= m.seq /\ m.seq <= Floor(c)' BY <1>4, <2>1, <2>7
    <3>2. m.arg = 1 => stream'.vad.ended BY <2>1, <2>3
    <3> QED BY <2>1, <3>1, <3>2, CursorNews
  <2>9. Shaped' BY <1>2, <1>6, <2>2, <2>3, <2>6 DEF AudioInv, Shaped, LinkStep
  <2>10. Fed' BY <1>2, <1>b, <2>3, <2>4, <2>5 DEF AudioInv, Fed
  <2>11. ServerStep(c, {m})
    BY <1>1, <1>2, <1>3, <1>4, <2>2, <2>3, <2>4, <2>7 DEF ServerStep, LinkStep, AudioInv, Numbers
  <2>12. Lives' BY <1>2, <1>3, <1>6, <1>b, <2>2, <2>3, <2>4, <2>5 DEF AudioInv, Lives, LinkStep
  <2>13. Commits' BY <1>2, <1>3, <2>3 DEF AudioInv, Commits, Settled, Expected, Late
  <2> QED BY <2>8, <2>9, <2>10, <2>11, <2>12, <2>13, ServerStepKeeps
<1> QED BY <1>5, <1>6 DEF PushDone

LEMMA BusyEffect ==
  ASSUME Shaped, NEW c \in Sockets, NEW busy, sock' = [sock EXCEPT ![c].busy = busy]
  PROVE  /\ AreSocks(sock') /\ \A d \in Sockets : d # c => sock'[d] = sock[d]
         /\ sock'[c].busy = busy /\ sock'[c].attached = sock[c].attached
         /\ sock'[c].pump = sock[c].pump
<1>1. /\ DOMAIN sock' = Sockets /\ \A d \in Sockets : d # c => sock'[d] = sock[d]
      /\ sock'[c] = [sock[c] EXCEPT !.busy = busy] /\ IsSock(sock[c])
  BY DEF Shaped, AreSocks
<1>2. IsSock(sock'[c]) /\ sock'[c].busy = busy /\ sock'[c].attached = sock[c].attached
      /\ sock'[c].pump = sock[c].pump
  BY <1>1 DEF IsSock
<1> QED BY <1>1, <1>2 DEF AreSocks, Shaped

LEMMA BeginCommitKeeps ==
  ASSUME AudioInv, NEW c \in Sockets, NEW l, Reads(c, l), sock[c].busy # "push",
         BeginCommit(c, l), UNCHANGED <<client, captured, overtaken, stream>>,
         ~stream.vad.ended => Settled /\ Expected <= stream.next + Late
  PROVE  AudioInv'
<1>1. CASE Die(c, l) /\ UNCHANGED provider BY <1>1, DieKeeps
<1>2. stream.next \in Nat /\ Floor(c) = stream.next /\ NewsIsSound(c, {})
  BY NoNews DEF AudioInv, Shaped, IsStream, Floor
<1>3. sock[c].attached => stream.told BY DEF AudioInv, Lives
<1>4. CASE link' = l /\ sock' = [sock EXCEPT ![c].busy = "no"] /\ UNCHANGED <<provider, expiry>>
  <2>1. /\ AreSocks(sock') /\ \A d \in Sockets : d # c => sock'[d] = sock[d]
        /\ sock'[c].busy = "no" /\ sock'[c].attached = sock[c].attached
    BY <1>4, BusyEffect DEF AudioInv
  <2>2. LinkStep(c, {}) BY <1>4, ReadOnly DEF AudioInv
  <2>3. IsExpiry(expiry') /\ \A t \in Sockets : expiry'.tasks[t] = "sleeping" => stream.told
    BY <1>4 DEF AudioInv, Shaped, Lives
  <2>4. /\ sock'[c].attached => stream.told
        /\ sock'[c].busy \notin {"push", "close", "endpoint"} /\ Floor(c) <= stream.next
    BY <1>2, <1>3, <2>1
  <2>5. AreSocks(sock') /\ \A d \in Sockets : d # c => sock'[d] = sock[d] BY <2>1
  <2>6. NewsIsSound(c, {}) /\ UNCHANGED <<client, captured, overtaken, stream, provider>> BY <1>2, <1>4
  <2> QED BY <2>2, <2>3, <2>4, <2>5, <2>6, SocketStepKeeps
<1>5. CASE /\ ~stream.committed /\ provider.up
           /\ sock' = [sock EXCEPT ![c].busy = "commit"]
           /\ provider' = [provider EXCEPT !.commits = @ + 1]
           /\ link' = l
           /\ UNCHANGED expiry
  <2>1. /\ AreSocks(sock') /\ \A d \in Sockets : d # c => sock'[d] = sock[d]
        /\ sock'[c].busy = "commit" /\ sock'[c].attached = sock[c].attached
    BY <1>5, BusyEffect DEF AudioInv
  <2>2. LinkStep(c, {}) BY <1>5, ReadOnly DEF AudioInv
  <2>3. IsProvider(provider') /\ provider'.audio = provider.audio /\ provider'.up = provider.up
    <3>1. IsProvider(provider) /\ provider' = [provider EXCEPT !.commits = provider.commits + 1]
      BY <1>5 DEF AudioInv, Shaped
    <3> QED BY <3>1 DEF IsProvider
  <2>4. Shaped' BY <1>5, <2>1, <2>2, <2>3 DEF AudioInv, Shaped, LinkStep
  <2>5. Fed' BY <1>2, <2>1, <2>3 DEF AudioInv, Fed
  <2>6. ServerStep(c, {})
    BY <1>2, <2>1, <2>2 DEF ServerStep, LinkStep, Floor, AudioInv, Numbers
  <2>7. Lives' BY <1>5, <2>1, <2>2, <2>3 DEF AudioInv, Lives, LinkStep
  <2>8. Commits' BY <1>5, <2>3 DEF AudioInv, Commits, Settled, Expected, Late, Fed
  <2> QED BY <1>2, <2>4, <2>5, <2>6, <2>7, <2>8, ServerStepKeeps
<1> QED BY <1>1, <1>4, <1>5 DEF BeginCommit

LEMMA CommitKeeps ==
  ASSUME AudioInv, NEW c \in Sockets, Commit(c)
  PROVE  AudioInv'
<1> DEFINE l == ServerTook(link, c)
<1>1. /\ Reads(c, l) /\ sock[c].busy = "no" /\ Request(c) = link[c].toServer[1]
      /\ Request(c).type = "commit" /\ 1 \in 1..Len(link[c].toServer)
  BY HeardReads DEF Commit
<1> HIDE DEF l
<1>2. ServerSound(Request(c)) BY <1>1 DEF AudioInv, ServerMail
<1>3. ~stream.vad.ended => Settled /\ Expected <= stream.next + Late
  BY <1>1, <1>2 DEF ServerSound
<1>4. BeginCommit(c, l) /\ UNCHANGED <<client, captured, overtaken, stream>> BY DEF Commit, microphone, l
<1> QED BY <1>1, <1>3, <1>4, BeginCommitKeeps

LEMMA EndpointKeeps ==
  ASSUME AudioInv, NEW c \in Sockets, Endpoint(c)
  PROVE  AudioInv'
<1>1. Reads(c, link) /\ sock[c].busy = "endpoint" BY BusyReads DEF Endpoint
<1>2. stream.vad.ended BY <1>1 DEF AudioInv, Lives
<1>3. UNCHANGED <<client, captured, overtaken, stream>> BY DEF Endpoint, microphone
<1>4. CASE BeginCommit(c, link) BY <1>1, <1>2, <1>3, <1>4, BeginCommitKeeps
<1>5. CASE Refuse(c, link) /\ UNCHANGED provider BY <1>1, <1>3, <1>5, RefuseKeeps
<1> QED BY <1>4, <1>5 DEF Endpoint

LEMMA CommittedEffect ==
  ASSUME NEW s, IsStream(s), NEW t, t = [s EXCEPT !.committed = TRUE]
  PROVE  /\ IsStream(t) /\ t.next = s.next /\ t.vad = s.vad /\ t.committed
         /\ t.told = s.told /\ t.closed = s.closed /\ t.record = s.record
BY DEF IsStream

LEMMA CommitDoneKeeps ==
  ASSUME AudioInv, NEW c \in Sockets, CommitDone(c)
  PROVE  AudioInv'
<1>1. Reads(c, link) /\ sock[c].busy = "commit" BY BusyReads DEF CommitDone
<1>2. UNCHANGED <<client, captured, overtaken, provider>> BY DEF CommitDone, microphone
<1>3. CASE Die(c, link) /\ UNCHANGED stream BY <1>1, <1>2, <1>3, DieKeeps
<1>4. CASE /\ stream' = [stream EXCEPT !.committed = TRUE]
           /\ sock' = [sock EXCEPT ![c].busy = "no"]
           /\ UNCHANGED <<link, expiry>>
  <2>1. /\ AreSocks(sock') /\ \A d \in Sockets : d # c => sock'[d] = sock[d]
        /\ sock'[c].busy = "no" /\ sock'[c].attached = sock[c].attached
    BY <1>4, BusyEffect DEF AudioInv
  <2>2. LinkStep(c, {}) /\ NewsIsSound(c, {}) BY <1>1, <1>4, ReadOnly, NoNews DEF AudioInv
  <2>3. /\ IsStream(stream') /\ stream'.next = stream.next /\ stream'.vad = stream.vad
        /\ stream'.committed /\ stream'.told = stream.told
        /\ stream'.closed = stream.closed /\ stream'.record = stream.record
    <3>1. IsStream(stream) /\ stream' = [stream EXCEPT !.committed = TRUE]
      BY <1>4 DEF AudioInv, Shaped
    <3> QED BY ONLY <3>1, CommittedEffect
  <2>4. Shaped' BY <1>2, <1>4, <2>1, <2>2, <2>3 DEF AudioInv, Shaped, LinkStep
  <2>5. Fed' BY <1>2, <2>1, <2>3 DEF AudioInv, Fed
  <2>6. ServerStep(c, {})
    BY <1>1, <1>2, <2>1, <2>2, <2>3 DEF ServerStep, LinkStep, Floor, AudioInv, Numbers, Shaped, IsStream
  <2>7. Lives' BY <1>2, <1>4, <2>1, <2>2, <2>3 DEF AudioInv, Lives, LinkStep
  <2>8. Commits' BY <1>2, <2>3 DEF AudioInv, Commits, Settled, Expected, Late
  <2> QED BY <2>2, <2>4, <2>5, <2>6, <2>7, <2>8, ServerStepKeeps
<1> QED BY <1>3, <1>4 DEF CommitDone

LEMMA PumpCancelledEffect ==
  ASSUME NEW s, IsStream(s)
  PROVE  /\ IsStream(PumpCancelled(s)) /\ PumpCancelled(s).next = s.next
         /\ PumpCancelled(s).vad = s.vad /\ PumpCancelled(s).committed = s.committed
         /\ PumpCancelled(s).told = s.told /\ PumpCancelled(s).closed = s.closed
         /\ PumpCancelled(s).record = s.record
<1> DEFINE t == PumpCancelled(s)
<1>1. \/ t = s
      \/ t = [s EXCEPT !.pump = "done", !.holding = <<>>]
      \/ t = [s EXCEPT !.pump = "ending", !.holding = <<"END">>]
  BY DEF PumpCancelled
<1> HIDE DEF t
<1>2. /\ IsStream(t) /\ t.next = s.next /\ t.vad = s.vad /\ t.committed = s.committed
      /\ t.told = s.told /\ t.closed = s.closed /\ t.record = s.record
  <2>1. CASE t = s BY <2>1
  <2>2. CASE t = [s EXCEPT !.pump = "done", !.holding = <<>>] BY <2>2 DEF IsStream
  <2>3. CASE t = [s EXCEPT !.pump = "ending", !.holding = <<"END">>] BY <2>3 DEF IsStream
  <2> QED BY <1>1, <2>1, <2>2, <2>3
<1> QED BY <1>2 DEF t

LEMMA BridgeClosedEffect ==
  ASSUME NEW s, IsStream(s)
  PROVE  LET t == BridgeClosed(s)
         IN  /\ IsStream(t) /\ t.next = s.next /\ t.vad = s.vad /\ t.committed = s.committed
             /\ t.told = s.told /\ t.closed
<1> DEFINE r == [s EXCEPT !.closed = TRUE, !.record = FALSE]
           t == BridgeClosed(s)
<1>1. t = r \/ t = PumpCancelled(r) BY DEF BridgeClosed
<1>r. r = [s EXCEPT !.closed = TRUE, !.record = FALSE] OBVIOUS
<1> HIDE DEF r, t
<1>2. /\ IsStream(r) /\ r.next = s.next /\ r.vad = s.vad /\ r.committed = s.committed
      /\ r.told = s.told /\ r.closed
  BY <1>r DEF IsStream
<1>3. /\ IsStream(t) /\ t.next = s.next /\ t.vad = s.vad /\ t.committed = s.committed
      /\ t.told = s.told /\ t.closed
  BY <1>1, <1>2, PumpCancelledEffect
<1> QED BY <1>3 DEF t

LEMMA ProviderLeft ==
  ASSUME NEW p, IsProvider(p), NEW up, NEW q, q = [p EXCEPT !.up = up]
  PROVE  IsProvider(q) /\ q.audio = p.audio /\ q.commits = p.commits /\ q.up = up
BY DEF IsProvider

LEMMA CloseBridgeEffect ==
  ASSUME AudioInv, stream.told, CloseBridge \/ CloseBridgeFails
  PROVE  /\ IsStream(stream') /\ stream'.next = stream.next /\ stream'.vad = stream.vad
         /\ stream'.committed = stream.committed /\ stream'.told /\ stream'.closed
         /\ IsProvider(provider') /\ provider'.audio = provider.audio
         /\ provider'.commits = provider.commits /\ ~provider'.up
<1>2. IsStream(stream) /\ IsProvider(provider) BY DEF AudioInv, Shaped
<1>3. /\ IsStream(stream') /\ stream'.next = stream.next /\ stream'.vad = stream.vad
      /\ stream'.committed = stream.committed /\ stream'.told = stream.told /\ stream'.closed
  <2>1. CASE CloseBridge BY <1>2, <2>1, BridgeClosedEffect DEF CloseBridge
  <2>2. CASE CloseBridgeFails BY <1>2, <2>2 DEF CloseBridgeFails, IsStream
  <2> QED BY <2>1, <2>2
<1> DEFINE up == provider.up /\ ~stream.record
<1>4. CASE CloseBridge
  <2>1. provider' = [provider EXCEPT !.up = up] BY <1>4 DEF CloseBridge
  <2>2. ~up BY DEF AudioInv, Lives
  <2> HIDE DEF up
  <2>3. /\ IsProvider(provider') /\ provider'.audio = provider.audio
        /\ provider'.commits = provider.commits /\ provider'.up = up
    BY ONLY <1>2, <2>1, ProviderLeft
  <2> QED BY <1>3, <2>2, <2>3
<1>5. CASE CloseBridgeFails
  <2>1. provider' = [provider EXCEPT !.up = FALSE] BY <1>5 DEF CloseBridgeFails
  <2>2. /\ IsProvider(provider') /\ provider'.audio = provider.audio
        /\ provider'.commits = provider.commits /\ ~provider'.up
    BY ONLY <1>2, <2>1 DEF IsProvider
  <2> QED BY <1>3, <2>2
<1> QED BY <1>4, <1>5

LEMMA CloseKeeps ==
  ASSUME AudioInv, NEW c \in Sockets, Close(c)
  PROVE  AudioInv'
<1> DEFINE l == ServerTook(link, c)
           m == Msg("closed", 0, 0)
<1>1. Reads(c, l) /\ sock[c].busy = "no" BY HeardReads DEF Close
<1>2. UNCHANGED <<client, captured, overtaken>> BY DEF Close, microphone
<1>3. CASE /\ ~sock[c].attached
           /\ link' = ToClient(l, c, <<m>>)
           /\ UNCHANGED <<sock, stream, provider, expiry>>
  <2>1. m \in Mail /\ m.type = "closed"
    <3>1. "closed" \in MailTypes BY DEF MailTypes
    <3> QED BY <3>1, MsgIsMail
  <2> HIDE DEF m, l
  <2>2. LinkStep(c, {m}) BY <1>1, <1>3, <2>1, Answered DEF AudioInv
  <2>3. NewsIsSound(c, {m}) BY <2>1, PlainNews
  <2> QED BY <1>1, <1>2, <1>3, <2>2, <2>3, SocketStepKeeps
          DEF AudioInv, Shaped, Lives, Floor, IsStream
<1>4. CASE /\ sock[c].attached
           /\ CloseBridge
           /\ expiry' = ExpiryCancelled(expiry)
           /\ sock' = [sock EXCEPT ![c].busy = "close"]
           /\ link' = l
  <2> HIDE DEF l
  <2>1. stream.told BY <1>4 DEF AudioInv, Lives
  <2>2. /\ IsStream(stream') /\ stream'.next = stream.next /\ stream'.vad = stream.vad
        /\ stream'.committed = stream.committed /\ stream'.told /\ stream'.closed
        /\ IsProvider(provider') /\ provider'.audio = provider.audio
        /\ provider'.commits = provider.commits /\ ~provider'.up
    BY <1>4, <2>1, CloseBridgeEffect
  <2>3. /\ AreSocks(sock') /\ \A d \in Sockets : d # c => sock'[d] = sock[d]
        /\ sock'[c].busy = "close" /\ sock'[c].attached = sock[c].attached
    BY <1>4, BusyEffect DEF AudioInv
  <2>4. LinkStep(c, {}) /\ NewsIsSound(c, {}) BY <1>1, <1>4, ReadOnly, NoNews DEF AudioInv
  <2>5. IsExpiry(expiry') BY <1>4, ExpiryCancelledEffect DEF AudioInv, Shaped
  <2>6. Shaped' BY <1>2, <2>2, <2>3, <2>4, <2>5 DEF AudioInv, Shaped, LinkStep
  <2>7. Fed' BY <1>2, <2>2, <2>3 DEF AudioInv, Fed
  <2>8. ServerStep(c, {})
    BY <1>1, <1>2, <2>1, <2>2, <2>3, <2>4
       DEF ServerStep, LinkStep, Floor, AudioInv, Numbers, Shaped, IsStream, Opening
  <2>9. Lives' BY <1>2, <2>2, <2>3, <2>4 DEF AudioInv, Lives, LinkStep
  <2>10. Commits' BY <1>2, <2>2 DEF AudioInv, Commits, Settled, Expected, Late
  <2> QED BY <2>4, <2>6, <2>7, <2>8, <2>9, <2>10, ServerStepKeeps
<1>5. CASE /\ sock[c].attached
           /\ CloseBridgeFails
           /\ expiry' = ExpiryCancelled(expiry)
           /\ sock' = [sock EXCEPT ![c] = Closed(@, TRUE)]
           /\ link' = ServerHangs(l, c)
  <2> DEFINE e == Msg("error", 0, 0)
  <2> HIDE DEF l
  <2>1. stream.told BY <1>5 DEF AudioInv, Lives
  <2>2. /\ IsStream(stream') /\ stream'.next = stream.next /\ stream'.vad = stream.vad
        /\ stream'.committed = stream.committed /\ stream'.told /\ stream'.closed
        /\ IsProvider(provider') /\ provider'.audio = provider.audio
        /\ provider'.commits = provider.commits /\ ~provider'.up
    BY <1>5, <2>1, CloseBridgeEffect
  <2>3. Ends(c, l, <<e>>) BY <1>1, <1>5, HungUp DEF AudioInv, Reads
  <2>4. /\ AreSocks(sock') /\ \A d \in Sockets : d # c => sock'[d] = sock[d]
        /\ sock'[c].busy = "no" /\ ~sock'[c].attached
    BY <2>3 DEF Ends
  <2>5. LinkStep(c, {e}) BY <1>1, <2>3, ErrorIsMail, Ended DEF AudioInv
  <2>6. NewsIsSound(c, {e}) BY ErrorIsMail, PlainNews
  <2> HIDE DEF e
  <2>7. IsExpiry(expiry') BY <1>5, ExpiryCancelledEffect DEF AudioInv, Shaped
  <2>8. Shaped' BY <1>2, <2>2, <2>4, <2>5, <2>7 DEF AudioInv, Shaped, LinkStep
  <2>9. Fed' BY <1>2, <2>2, <2>4 DEF AudioInv, Fed
  <2>10. ServerStep(c, {e})
    BY <1>1, <1>2, <2>1, <2>2, <2>4, <2>5
       DEF ServerStep, LinkStep, Floor, AudioInv, Numbers, Shaped, IsStream, Opening
  <2>11. Lives' BY <1>2, <2>2, <2>4, <2>5 DEF AudioInv, Lives, LinkStep
  <2>12. Commits' BY <1>2, <2>2 DEF AudioInv, Commits, Settled, Expected, Late
  <2> QED BY <2>5, <2>6, <2>8, <2>9, <2>10, <2>11, <2>12, ServerStepKeeps
<1> QED BY <1>3, <1>4, <1>5 DEF Close

LEMMA ClosedIsMail == Msg("closed", 0, 0) \in Mail /\ Msg("closed", 0, 0).type = "closed"
<1>1. "closed" \in MailTypes BY DEF MailTypes
<1> QED BY <1>1, MsgIsMail

LEMMA CloseDoneKeeps ==
  ASSUME AudioInv, NEW c \in Sockets, CloseDone(c)
  PROVE  AudioInv'
<1> DEFINE m == Msg("closed", 0, 0)
<1>1. Reads(c, link) /\ sock[c].busy = "close" BY BusyReads DEF CloseDone
<1>2. UNCHANGED <<client, captured, overtaken, stream, provider, expiry>> BY DEF CloseDone, microphone
<1>3. m \in Mail /\ m.type = "closed" BY ClosedIsMail
<1>4. link' = ToClient(link, c, <<m>>) BY DEF CloseDone
<1> HIDE DEF m
<1>5. LinkStep(c, {m}) BY <1>1, <1>3, <1>4, Answered DEF AudioInv
<1>6. NewsIsSound(c, {m}) BY <1>3, PlainNews
<1>7. /\ DOMAIN sock' = Sockets /\ \A d \in Sockets : d # c => sock'[d] = sock[d]
      /\ sock'[c] = [sock[c] EXCEPT !.busy = "no", !.attached = FALSE, !.pump = FALSE]
      /\ IsSock(sock[c])
  BY DEF CloseDone, AudioInv, Shaped, AreSocks
<1>8. IsSock(sock'[c]) /\ sock'[c].busy = "no" /\ ~sock'[c].attached
  BY <1>7 DEF IsSock
<1>9. AreSocks(sock') BY <1>7, <1>8 DEF AreSocks, AudioInv, Shaped
<1>10. IsExpiry(expiry') /\ \A t \in Sockets : expiry'.tasks[t] = "sleeping" => stream.told
  BY <1>2 DEF AudioInv, Shaped, Lives
<1>11. Floor(c) <= stream.next BY <1>1 DEF Floor, AudioInv, Shaped, IsStream
<1>12. \A d \in Sockets : d # c => sock'[d] = sock[d] BY <1>7
<1>13. sock'[c].busy \notin {"push", "close", "endpoint"} /\ (sock'[c].attached => stream.told)
  BY <1>8
<1>14. UNCHANGED <<client, captured, overtaken, stream, provider>> BY <1>2
<1> QED BY <1>5, <1>6, <1>9, <1>10, <1>11, <1>12, <1>13, <1>14, SocketStepKeeps

LEMMA DisconnectKeeps ==
  ASSUME AudioInv, NEW c \in Sockets, Disconnect(c)
  PROVE  AudioInv'
<1>1. /\ sock[c].busy = "no" /\ link[c].state = "cut" /\ link[c].toServer = <<>>
      /\ sock' = [sock EXCEPT ![c] = Closed(@, FALSE)]
      /\ UNCHANGED <<client, captured, overtaken, link, stream, provider>>
  BY DEF Disconnect, microphone, Waiting
<1>2. Reads(c, link)
  <2>1. link[c].toServer \in Seq(Mail) BY DEF AudioInv, Shaped, AreLinks, IsLink
  <2>2. Kept(link[c].toServer, link[c].toServer, {}) BY <2>1, KeptAll
  <2> QED BY <1>1, <2>2 DEF Reads, AudioInv, Shaped, Begins
<1>3. LinkStep(c, {}) /\ NewsIsSound(c, {}) BY <1>1, <1>2, ReadOnly, NoNews DEF AudioInv
<1>4. /\ DOMAIN sock' = Sockets /\ sock'[c] = Closed(sock[c], FALSE)
      /\ \A d \in Sockets : d # c => sock'[d] = sock[d]
  BY <1>1 DEF AudioInv, Shaped, AreSocks
<1>5. IsSock(sock'[c]) /\ sock'[c].busy = "no" /\ ~sock'[c].attached
  BY <1>4, ClosedEffect DEF AudioInv, Shaped, AreSocks
<1>6. AreSocks(sock') BY <1>4, <1>5 DEF AreSocks, AudioInv, Shaped
<1>7. IsExpiry(expiry') /\ \A t \in Sockets : expiry'.tasks[t] = "sleeping" => stream.told
  BY AbandonedEffect DEF Disconnect, AudioInv, Shaped, Lives
<1>8. Floor(c) <= stream.next BY <1>1 DEF Floor, AudioInv, Shaped, IsStream
<1>9. \A d \in Sockets : d # c => sock'[d] = sock[d] BY <1>4
<1>10. sock'[c].busy \notin {"push", "close", "endpoint"} /\ (sock'[c].attached => stream.told)
  BY <1>5
<1>11. UNCHANGED <<client, captured, overtaken, stream, provider>> BY <1>1
<1> QED BY <1>3, <1>6, <1>7, <1>8, <1>9, <1>10, <1>11, SocketStepKeeps

-----------------------------------------------------------------------------
(* The event queue, the provider's pump and the expiry timers *)

\* The stream goes on, as far as the frames are concerned.
Like(s, t) ==
  /\ IsStream(t) /\ t.next = s.next /\ t.vad = s.vad /\ t.committed = s.committed
  /\ t.told = s.told /\ t.closed = s.closed /\ t.record = s.record

LEMMA QueueEffect ==
  ASSUME NEW s, IsStream(s), NEW q, NEW t, t = [s EXCEPT !.queue = q]
  PROVE  Like(s, t)
BY DEF IsStream, Like

LEMMA PumpEffect ==
  ASSUME NEW s, IsStream(s), NEW p, NEW t, t = [s EXCEPT !.pump = p]
  PROVE  Like(s, t)
BY DEF IsStream, Like

LEMMA HoldingEffect ==
  ASSUME NEW s, IsStream(s), NEW p, NEW h, NEW t, t = [s EXCEPT !.pump = p, !.holding = h]
  PROVE  Like(s, t)
BY DEF IsStream, Like

LEMMA PutEffect ==
  ASSUME NEW s, IsStream(s), NEW q, NEW h, NEW p, NEW t,
         t = [s EXCEPT !.queue = q, !.holding = h, !.pump = p]
  PROVE  Like(s, t)
BY DEF IsStream, Like

\* A step behind the sockets.
LEMMA BehindKeeps ==
  ASSUME AudioInv, UNCHANGED <<client, captured, overtaken, link, sock>>,
         IsStream(stream'), IsProvider(provider'), IsExpiry(expiry'),
         stream'.next = stream.next, stream'.vad = stream.vad,
         stream'.committed = stream.committed, stream'.told = stream.told,
         provider'.audio = provider.audio, provider'.commits = provider.commits,
         provider'.up => provider.up,
         stream.closed => stream'.closed, stream'.closed => stream.told /\ ~provider'.up,
         stream.told /\ ~stream'.closed => stream'.record,
         \A t \in Sockets : expiry'.tasks[t] = "sleeping" => expiry.tasks[t] = "sleeping"
  PROVE  AudioInv'
<1> USE DEF AudioInv
<1>1. Shaped' BY DEF Shaped
<1>2. Opening' BY DEF Opening, OpenIsFirst, OpenedIsFirst, Fresh
<1>3. Lives' BY DEF Lives
<1>4. ServerMail' BY DEF ServerMail, ServerSound, Settled, Expected, Late
<1>5. ClientMail' BY DEF ClientMail, ClientSound, Floor
<1>6. Unread' BY DEF Unread, Floor
<1>7. Fed' BY DEF Fed
<1>8. Numbers' BY DEF Numbers, Exact
<1>9. Commits' BY DEF Commits, Settled, Expected, Late
<1> QED BY <1>1, <1>2, <1>3, <1>4, <1>5, <1>6, <1>7, <1>8, <1>9

LEMMA PumpKeeps ==
  ASSUME AudioInv, UNCHANGED <<client, captured, overtaken, link, sock, provider, expiry>>,
         Like(stream, stream')
  PROVE  AudioInv'
<1>1. /\ IsProvider(provider') /\ IsExpiry(expiry') /\ IsStream(stream')
      /\ provider' = provider /\ expiry' = expiry
  BY DEF AudioInv, Shaped, Like
<1>2. /\ stream'.closed => stream.told /\ ~provider.up
      /\ stream.told /\ ~stream'.closed => stream'.record
  BY DEF AudioInv, Lives, Like
<1> QED BY <1>1, <1>2, BehindKeeps DEF Like

LEMMA RecognizeFinalKeeps ==
  ASSUME AudioInv, RecognizeFinal
  PROVE  AudioInv'
<1>1. IsStream(stream) /\ stream' = [stream EXCEPT !.pump = "answering"]
  BY DEF AudioInv, Shaped, RecognizeFinal
<1>2. Like(stream, stream') BY ONLY <1>1, PumpEffect
<1> QED BY <1>2, PumpKeeps DEF RecognizeFinal, microphone

LEMMA AnswerKeeps ==
  ASSUME AudioInv, Answer
  PROVE  AudioInv'
<1>1. PICK event : stream' = [stream EXCEPT !.pump = "ending", !.holding = <<event, "END">>]
  BY DEF Answer
<1>2. IsStream(stream) BY DEF AudioInv, Shaped
<1>3. Like(stream, stream') BY ONLY <1>1, <1>2, HoldingEffect
<1> QED BY <1>3, PumpKeeps DEF Answer, microphone

LEMMA PumpEndsKeeps ==
  ASSUME AudioInv, PumpEnds
  PROVE  AudioInv'
<1>1. PICK last : stream' = [stream EXCEPT !.pump = "ending", !.holding = last]
  BY DEF PumpEnds
<1>2. IsStream(stream) BY DEF AudioInv, Shaped
<1>3. Like(stream, stream') BY ONLY <1>1, <1>2, HoldingEffect
<1> QED BY <1>3, PumpKeeps DEF PumpEnds, microphone

LEMMA PumpPutsKeeps ==
  ASSUME AudioInv, PumpPuts
  PROVE  AudioInv'
<1>1. IsStream(stream) BY DEF AudioInv, Shaped
<1> DEFINE q == Append(stream.queue, Head(stream.holding))
           h == Tail(stream.holding)
           p == IF Head(stream.holding) = "END" THEN "done" ELSE stream.pump
<1>2. stream' = [stream EXCEPT !.queue = q, !.holding = h, !.pump = p]
  BY DEF PumpPuts
<1> HIDE DEF q, h, p
<1>3. Like(stream, stream') BY ONLY <1>1, <1>2, PutEffect
<1> QED BY <1>3, PumpKeeps DEF PumpPuts, microphone

LEMMA ProviderDropsKeeps ==
  ASSUME AudioInv, ProviderDrops
  PROVE  AudioInv'
<1>1. IsProvider(provider) /\ provider' = [provider EXCEPT !.up = FALSE]
  BY DEF AudioInv, Shaped, ProviderDrops
<1>2. IsProvider(provider') /\ provider'.audio = provider.audio
      /\ provider'.commits = provider.commits /\ ~provider'.up
  BY <1>1 DEF IsProvider
<1>3. UNCHANGED <<client, captured, overtaken, link, sock, stream, expiry>>
  BY DEF ProviderDrops, microphone
<1>4. /\ IsStream(stream') /\ IsExpiry(expiry')
      /\ stream.told /\ ~stream.closed => stream.record
      /\ stream.closed => stream.told
  BY <1>3 DEF AudioInv, Shaped, Lives
<1> QED BY <1>2, <1>3, <1>4, BehindKeeps

\* The timers when the task t is in another state.
Moved(ex, n, t, state) == [entry |-> n, tasks |-> [ex.tasks EXCEPT ![t] = state]]

LEMMA MovedEffect ==
  ASSUME NEW ex, IsExpiry(ex), NEW n, NEW t, NEW state, state # "sleeping"
  PROVE  /\ IsExpiry(Moved(ex, n, t, state))
         /\ \A d \in Sockets : Moved(ex, n, t, state).tasks[d] = "sleeping" => ex.tasks[d] = "sleeping"
BY DEF IsExpiry, Moved

LEMMA ExpireKeeps ==
  ASSUME AudioInv, NEW t \in Sockets, Expire(t)
  PROVE  AudioInv'
<1>1. stream.told BY DEF Expire, AudioInv, Lives
<1>2. /\ IsStream(stream') /\ stream'.next = stream.next /\ stream'.vad = stream.vad
      /\ stream'.committed = stream.committed /\ stream'.told /\ stream'.closed
      /\ IsProvider(provider') /\ provider'.audio = provider.audio
      /\ provider'.commits = provider.commits /\ ~provider'.up
  BY <1>1, CloseBridgeEffect DEF Expire
<1> DEFINE n == expiry.entry
<1>3. PICK state \in {"closing", "finishing"} : expiry' = [expiry EXCEPT !.tasks[t] = state]
  BY DEF Expire
<1>4. IsExpiry(expiry) /\ state # "sleeping" BY DEF AudioInv, Shaped
<1>5. expiry' = Moved(expiry, n, t, state) BY <1>3, <1>4 DEF IsExpiry, Moved
<1> HIDE DEF n
<1>6. /\ IsExpiry(expiry')
      /\ \A d \in Sockets : expiry'.tasks[d] = "sleeping" => expiry.tasks[d] = "sleeping"
  BY ONLY <1>3, <1>4, <1>5, MovedEffect
<1>7. UNCHANGED <<client, captured, overtaken, link, sock>> BY DEF Expire, microphone
<1> QED BY <1>1, <1>2, <1>6, <1>7, BehindKeeps

LEMMA ExpiryEndsKeeps ==
  ASSUME AudioInv, NEW t \in Sockets, ExpiryEnds(t)
  PROVE  AudioInv'
<1>1. IsExpiry(expiry) BY DEF AudioInv, Shaped
<1>2. expiry' = Moved(expiry, NoSocket, t, "done")
  BY DEF ExpiryEnds, Moved
<1>3. /\ IsExpiry(expiry')
      /\ \A d \in Sockets : expiry'.tasks[d] = "sleeping" => expiry.tasks[d] = "sleeping"
  BY ONLY <1>1, <1>2, MovedEffect
<1>4. UNCHANGED <<client, captured, overtaken, link, sock, stream, provider>> BY DEF ExpiryEnds, microphone
<1>5. /\ IsStream(stream') /\ IsProvider(provider')
      /\ stream.told /\ ~stream.closed => stream.record
      /\ stream.closed => stream.told /\ ~provider.up
  BY <1>4 DEF AudioInv, Shaped, Lives
<1> QED BY <1>3, <1>4, <1>5, BehindKeeps

LEMMA CutKeeps ==
  ASSUME AudioInv, NEW c \in Sockets, Cut(c)
  PROVE  AudioInv'
<1> USE DEF AudioInv
<1>1. UNCHANGED <<captured, overtaken, client, sock, stream, provider, expiry>>
  BY DEF Cut, microphone, serverVars
<1>2. PICK late \in {<<>>, link[c].toServer} :
        link' = [link EXCEPT ![c] = [state |-> "cut", toServer |-> late, toClient |-> <<>>]]
  BY DEF Cut
<1>s. link[c].toServer \in Seq(Mail) /\ link[c].toClient \in Seq(Mail) /\ IsLink(link[c])
  BY DEF Shaped, AreLinks, IsLink
<1>3. /\ AreLinks(link') /\ link'[c].state = "cut" /\ link'[c].toClient = <<>>
      /\ (link'[c].toServer = <<>> \/ link'[c].toServer = link[c].toServer)
      /\ \A d \in Sockets : d # c => link'[d] = link[d]
  <2>1. /\ DOMAIN link' = Sockets /\ \A d \in Sockets : d # c => link'[d] = link[d]
        /\ link'[c] = [state |-> "cut", toServer |-> late, toClient |-> <<>>]
    BY <1>2 DEF Shaped, AreLinks
  <2>2. late = <<>> \/ late = link[c].toServer BY <1>2
  <2> DEFINE k == link'[c]
  <2>3. k.state = "cut" /\ k.toClient = <<>> /\ k.toServer = late
        /\ k = [state |-> k.state, toServer |-> k.toServer, toClient |-> k.toClient]
    BY <2>1
  <2>e. <<>> \in Seq(Mail) OBVIOUS
  <2>4. late \in Seq(Mail) /\ <<>> \in Seq(Mail)
    <3>1. CASE late = <<>> BY <2>e, <3>1
    <3>2. CASE late = link[c].toServer BY <2>e, <1>s, <3>2
    <3> QED BY <2>2, <3>1, <3>2
  <2>5. IsLink(link'[c]) BY <2>3, <2>4 DEF IsLink
  <2> QED BY <2>1, <2>2, <2>3, <2>5 DEF Shaped, AreLinks
<1>4. LinksKeep(c, {}, {})
  <2> SUFFICES ASSUME NEW d \in Sockets
               PROVE  /\ Kept(link[d].toServer, link'[d].toServer, {})
                      /\ Kept(link[d].toClient, link'[d].toClient, {})
    BY DEF LinksKeep
  <2>1. CASE d = c BY <1>3, <1>s, <2>1, KeptAll, KeptNothing
  <2>2. CASE d # c
    <3>1. link'[d] = link[d] /\ link[d].toServer \in Seq(Mail) /\ link[d].toClient \in Seq(Mail)
      BY <1>3, <2>2 DEF Shaped, AreLinks, IsLink
    <3> QED BY <2>2, <3>1, KeptAll
  <2> QED BY <2>1, <2>2
<1>5. Shaped' BY <1>1, <1>3 DEF Shaped
<1>6. Fed' BY <1>1 DEF Fed
<1>7. Advances
  <2>1. captured \in Nat /\ stream.next \in Nat /\ client.next \in Nat
    BY DEF Shaped, IsStream, IsClient
  <2>2. \A d \in Sockets : Floor(d) \in Nat /\ Floor(d)' = Floor(d)
    BY <1>1 DEF Floor, Shaped, IsStream, AreSocks, IsSock
  <2>3. Waits BY <1>1, <2>1, FramesKept
  <2> QED BY <1>1, <2>1, <2>2, <2>3 DEF Advances, Settled
<1>8. ServerMail' BY <1>4, <1>5, <1>6, <1>7, ServerMailStep
<1>9. ClientMail' BY <1>4, <1>5, <1>7, ClientMailStep
<1>10. Unread'
  <2>1. \A d \in Sockets : link'[d].toClient = link[d].toClient \/ link'[d].toClient = <<>>
    BY <1>3
  <2> QED BY <1>1, <2>1 DEF Unread, Floor, Shaped, IsClient
<1>11. Opening'
  <2>1. OpenIsFirst' /\ OpenedIsFirst' /\ (Begins(link'[1].toServer, "open") => Begins(link[1].toServer, "open"))
        /\ (Begins(link'[1].toClient, "opened") => Begins(link[1].toClient, "opened"))
    BY <1>4, <1>5, FirstsStep
  <2>2. link'[1].toClient = link[1].toClient \/ link'[1].toClient = <<>>
    BY <1>3, SocketNumbers
  <2>3. Fresh => Fresh' BY <1>1 DEF Fresh
  <2> QED BY <1>1, <2>1, <2>2, <2>3 DEF Opening
<1>12. Lives' BY <1>1, <1>3 DEF Lives
<1>13. Numbers' BY <1>1 DEF Numbers, Exact
<1>14. Commits' BY <1>1 DEF Commits, Settled, Expected, Late
<1> QED BY <1>5, <1>6, <1>8, <1>9, <1>10, <1>11, <1>12, <1>13, <1>14

LEMMA SendEventKeeps ==
  ASSUME AudioInv, NEW c \in Sockets, SendEvent(c)
  PROVE  AudioInv'
<1> USE DEF AudioInv
<1> DEFINE F == Msg("final", 0, 0)
           E == Msg("error", 0, 0)
           event == Head(stream.queue)
           told == CASE event = "final" -> <<F>>
                     [] event = "failure" -> <<E>>
                     [] OTHER -> <<>>
           gone == IF event # "END" /\ ~stream.record THEN <<E>> ELSE <<>>
           ms == told \o gone
           over == event = "END" \/ ~sock[c].alive \/ ~stream.record
           q == Tail(stream.queue)
           p == ~over
           news == {E, F}
<1>1. /\ stream' = [stream EXCEPT !.queue = q]
      /\ link' = ToClient(link, c, ms)
      /\ sock' = [sock EXCEPT ![c].pump = p]
      /\ UNCHANGED <<client, captured, overtaken, provider, expiry>> /\ sock[c].pump
  BY DEF SendEvent, microphone
<1>2. E \in Mail /\ F \in Mail /\ E.type = "error" /\ F.type = "final"
  <2>1. {"error", "final"} \subseteq MailTypes BY DEF MailTypes
  <2> QED BY <2>1, MsgIsMail
<1>3. ms \in Seq(Mail) /\ \A i \in 1..Len(ms) : ms[i] \in news
  <2> HIDE DEF E, F, event
  <2>1. /\ told = <<>> \/ told = <<E>> \/ told = <<F>>
        /\ gone = <<>> \/ gone = <<E>>
    OBVIOUS
  <2> HIDE DEF told, gone
  <2>0. <<>> \in Seq({E, F}) /\ <<E>> \in Seq({E, F}) /\ <<F>> \in Seq({E, F}) OBVIOUS
  <2>2. told \in Seq({E, F}) /\ gone \in Seq({E, F}) BY <2>0, <2>1
  <2>3. ms \in Seq({E, F}) BY <2>2
  <2>4. Seq({E, F}) \subseteq Seq(Mail) BY <1>2
  <2> HIDE DEF ms
  <2> QED BY <2>3, <2>4
<1> HIDE DEF ms, q, p, over, gone, told, event, E, F, news
<1>4. AreLinks(link) /\ IsSock(sock[c]) /\ IsStream(stream) BY DEF Shaped, AreSocks
<1>5. Like(stream, stream')
  <2>1. stream' = [stream EXCEPT !.queue = q] BY <1>1
  <2> QED BY ONLY <1>4, <2>1, QueueEffect
<1> DEFINE k == ToClient(link, c, ms)
<1>6. link' = k /\ k = ToClient(link, c, ms) BY <1>1
<1> HIDE DEF k
<1>7. /\ AreLinks(k) /\ (\A d \in Sockets : d # c => k[d] = link[d])
      /\ k[c].state = link[c].state /\ k[c].toServer = link[c].toServer
      /\ (k[c].toClient = link[c].toClient \/ k[c].toClient = link[c].toClient \o ms)
  BY <1>3, <1>4, <1>6, ToClientEffect
<1>8. link[c].toServer \in Seq(Mail) /\ link[c].toClient \in Seq(Mail)
  BY <1>4 DEF AreLinks, IsLink
<1>9. Kept(link[c].toServer, link'[c].toServer, {}) BY <1>6, <1>7, <1>8, KeptAll
<1>10. Kept(link[c].toClient, link'[c].toClient, news)
  <2>1. Kept(link[c].toClient, link[c].toClient, news) BY <1>8, KeptAll
  <2>2. Kept(link[c].toClient, link[c].toClient \o ms, news) BY <1>3, <1>8, KeptAndMore
  <2> QED BY <1>6, <1>7, <2>1, <2>2
<1>11. link[c].state # "new" /\ (c = 1 => ~Begins(link[1].toServer, "open"))
  BY <1>1 DEF Lives, Opening
<1>12. LinkStep(c, news)
  BY <1>6, <1>7, <1>9, <1>10, <1>11 DEF LinkStep, Begins
<1>13. /\ DOMAIN sock' = Sockets /\ \A d \in Sockets : d # c => sock'[d] = sock[d]
       /\ sock'[c] = [sock[c] EXCEPT !.pump = p]
  BY <1>1 DEF Shaped, AreSocks
<1>14. /\ IsSock(sock'[c]) /\ sock'[c].busy = sock[c].busy /\ sock'[c].seq = sock[c].seq
       /\ sock'[c].frame = sock[c].frame /\ sock'[c].attached = sock[c].attached
  BY <1>4, <1>13 DEF IsSock
<1>15. Shaped' BY <1>1, <1>5, <1>12, <1>13, <1>14 DEF Shaped, LinkStep, AreSocks, Like
<1>16. Floor(c) \in Nat /\ Floor(c)' = Floor(c)
  BY <1>4, <1>5, <1>14 DEF Floor, IsSock, IsStream, Like
<1>17. NewsIsSound(c, news)
  BY <1>2 DEF NewsIsSound, CursorsAreSound, ClientSound, IsCursor, news
<1>18. \A d \in Sockets : sock'[d].busy = sock[d].busy /\ sock'[d].seq = sock[d].seq
         /\ sock'[d].frame = sock[d].frame /\ sock'[d].attached = sock[d].attached
  BY <1>13, <1>14
<1>19. Fed' BY <1>1, <1>5, <1>18 DEF Fed, Like
<1>20. ServerStep(c, news)
  BY <1>1, <1>4, <1>5, <1>12, <1>13, <1>16 DEF ServerStep, LinkStep, Like, Numbers, IsStream
<1>21. Lives' BY <1>1, <1>5, <1>12, <1>13, <1>18 DEF Lives, Like, LinkStep
<1>22. Commits' BY <1>1, <1>5 DEF Commits, Settled, Expected, Late, Like
<1> QED BY <1>15, <1>17, <1>19, <1>20, <1>21, <1>22, ServerStepKeeps

-----------------------------------------------------------------------------
(* The steps of the client *)

\* Nobody has yet to read the request to open the stream, or its answer.
NotOpening == ~Begins(link[1].toServer, "open") /\ ~Begins(link[1].toClient, "opened")

\* Of the server only a coroutine may come to life.
SameSocks ==
  /\ AreSocks(sock')
  /\ \A d \in Sockets :
       /\ sock'[d].busy = sock[d].busy /\ sock'[d].seq = sock[d].seq
       /\ sock'[d].frame = sock[d].frame /\ sock'[d].attached = sock[d].attached
       /\ sock'[d].pump = sock[d].pump

\* The client sends news on the link of socket c, and may have read or lost messages.
LinksFollow(c, news) ==
  /\ AreLinks(link') /\ LinksKeep(c, news, {})
  /\ \A d \in Sockets : link'[d].state = "new" => link'[d] = link[d]

\* The client's capture goes on from one state to the next.
Goes ==
  /\ IsClient(client') /\ captured' \in Nat /\ captured <= captured'
  /\ Waits
  /\ Settled => Settled'
  /\ client'.sid => stream.told /\ ((client.sid /\ client.next <= client'.next) \/ captured = 0)

LEMMA ClientStepKeeps ==
  ASSUME AudioInv, UNCHANGED <<stream, provider, expiry>>, SameSocks, Goes,
         NEW c, NEW news, LinksFollow(c, news),
         \A m \in news : ServerSound(m)' /\ m.type # "open",
         Unread', Numbers', Commits',
         NotOpening \/ /\ Begins(link'[1].toServer, "open") => Fresh' /\ link'[1].toClient = <<>>
                       /\ Begins(link'[1].toClient, "opened") => Fresh'
  PROVE  AudioInv'
<1> USE DEF AudioInv
<1>1. Shaped' BY DEF Shaped, LinksFollow, SameSocks, Goes
<1>2. Advances
  <2>1. \A d \in Sockets : Floor(d) \in Nat /\ Floor(d)' = Floor(d)
    BY DEF Floor, Shaped, IsStream, AreSocks, IsSock, SameSocks
  <2>2. stream.next \in Nat BY DEF Shaped, IsStream
  <2> QED BY <2>1, <2>2 DEF Advances, Goes
<1>3. Fed'
  <2>1. stream.next \in Nat /\ captured \in Nat BY DEF Shaped, IsStream
  <2> QED BY <2>1 DEF Fed, SameSocks, Goes
<1>4. LinksKeep(c, news, {}) BY DEF LinksFollow
<1>5. ServerMail' BY <1>1, <1>2, <1>3, <1>4, ServerMailStep
<1>6. ClientMail' BY <1>1, <1>2, <1>4, ClientMailStep
<1>7. Lives'
  <2>1. \A d \in Sockets : link'[d].state = "new" =>
          link'[d].toServer = <<>> /\ link'[d].toClient = <<>> /\ sock'[d].busy = "no" /\ ~sock'[d].pump
    BY DEF LinksFollow, Lives, SameSocks
  <2> QED BY <2>1 DEF Lives, SameSocks, Goes
<1>8. Opening'
  <2>1. /\ OpenIsFirst' /\ OpenedIsFirst'
        /\ Begins(link'[1].toServer, "open") => Begins(link[1].toServer, "open")
        /\ Begins(link'[1].toClient, "opened") => Begins(link[1].toClient, "opened")
    BY <1>1, <1>4, FirstsStep
  <2>2. Begins(link'[1].toServer, "open") => Fresh' /\ link'[1].toClient = <<>>
    BY <2>1 DEF NotOpening
  <2>3. Begins(link'[1].toClient, "opened") => Fresh'
    BY <2>1 DEF NotOpening
  <2> QED BY <2>1, <2>2, <2>3, SocketNumbers DEF Opening, SameSocks
<1> QED BY <1>1, <1>3, <1>5, <1>6, <1>7, <1>8

\* l: the links after the client has read a message, if it has.
ClientReads(l) ==
  /\ AreLinks(l)
  /\ \A d \in Sockets :
       /\ l[d].toServer = link[d].toServer /\ l[d].state = link[d].state
       /\ Kept(link[d].toClient, l[d].toClient, {})
       /\ l[d].state = "new" => l[d] = link[d]

LEMMA ReadsNothing ==
  ASSUME Shaped
  PROVE  ClientReads(link)
<1>1. \A d \in Sockets : Kept(link[d].toClient, link[d].toClient, {})
  BY KeptAll DEF Shaped, AreLinks, IsLink
<1> QED BY <1>1 DEF Shaped, ClientReads

LEMMA SentFollows ==
  ASSUME Shaped, NEW c, NEW l, ClientReads(l), NEW ms \in Seq(Mail), NEW news,
         \A i \in 1..Len(ms) : ms[i] \in news, link' = ToServer(l, c, ms)
  PROVE  /\ LinksFollow(c, news)
         /\ \A d \in Sockets : link'[d].toClient = l[d].toClient
<1> DEFINE k == ToServer(l, c, ms)
<1>1. k = ToServer(l, c, ms) /\ link' = k /\ AreLinks(l) BY DEF ClientReads
<1> HIDE DEF k
<1>2. /\ AreLinks(k)
      /\ \A d \in Sockets :
           /\ d # c => k[d] = l[d]
           /\ k[d].state = l[d].state /\ k[d].toClient = l[d].toClient
           /\ \/ k[d].toServer = l[d].toServer
              \/ d = c /\ l[d].state = "up" /\ k[d].toServer = l[d].toServer \o ms
  BY <1>1, ToServerEffect
<1>3. ASSUME NEW d \in Sockets
      PROVE  /\ Kept(link[d].toServer, k[d].toServer, IF d = c THEN news ELSE {})
             /\ Kept(link[d].toClient, k[d].toClient, {})
             /\ k[d].state = "new" => k[d] = link[d]
  <2>1. link[d].toServer \in Seq(Mail) /\ l[d].toServer = link[d].toServer
    BY DEF ClientReads, Shaped, AreLinks, IsLink
  <2>2. Kept(link[d].toClient, k[d].toClient, {}) BY <1>2 DEF ClientReads
  <2>3. CASE k[d].toServer = l[d].toServer
    <3>1. Kept(link[d].toServer, k[d].toServer, IF d = c THEN news ELSE {})
      BY <2>1, <2>3, KeptAll
    <3>2. IsLink(k[d]) /\ IsLink(l[d]) BY <1>1, <1>2 DEF AreLinks
    <3>3. k[d] = l[d] BY <1>2, <2>3, <3>2 DEF IsLink
    <3> QED BY <2>2, <3>1, <3>3 DEF ClientReads
  <2>4. CASE d = c /\ l[d].state = "up" /\ k[d].toServer = l[d].toServer \o ms
    <3>1. Kept(link[d].toServer, link[d].toServer \o ms, news) BY <2>1, KeptAndMore
    <3> QED BY <1>2, <2>1, <2>2, <2>4, <3>1
  <2> QED BY <1>2, <2>3, <2>4
<1> QED BY <1>1, <1>2, <1>3 DEF LinksFollow, LinksKeep

\* The client takes a message from its link.
LEMMA TookReads ==
  ASSUME AudioInv, client.ws # NoSocket, link[client.ws].toClient # <<>>
  PROVE  /\ ClientReads(Took) /\ client.ws \in Sockets
         /\ Took[client.ws].toClient = Tail(link[client.ws].toClient)
         /\ Arrived = link[client.ws].toClient[1] /\ Arrived \in Mail
         /\ 1 \in 1..Len(link[client.ws].toClient)
         /\ \A d \in Sockets : d # client.ws => Took[d] = link[d]
<1> DEFINE l == Took
           w == client.ws
<1>1. w \in Sockets BY DEF AudioInv, Shaped, IsClient
<1>2. link[w].toClient \in Seq(Mail) /\ link[w].toClient # <<>>
  BY <1>1 DEF AudioInv, Shaped, AreLinks, IsLink
<1>3. l = ClientTook(link, w) BY DEF Took
<1>4. Arrived = Head(link[w].toClient) BY DEF Arrived
<1> HIDE DEF l, w
<1>5. /\ AreLinks(l)
      /\ l[w].state = link[w].state /\ l[w].toServer = link[w].toServer
      /\ l[w].toClient = Tail(link[w].toClient)
      /\ \A d \in Sockets : d # w => l[d] = link[d]
  BY <1>1, <1>2, <1>3, ClientTookEffect DEF AudioInv, Shaped
<1>6. Arrived = link[w].toClient[1] /\ Arrived \in Mail /\ 1 \in 1..Len(link[w].toClient)
  BY <1>2, <1>4
<1>7. ASSUME NEW d \in Sockets
      PROVE  Kept(link[d].toClient, l[d].toClient, {})
  <2>1. CASE d = w BY <1>2, <1>5, <2>1, KeptTail
  <2>2. CASE d # w
    <3>1. link[d].toClient \in Seq(Mail) BY DEF AudioInv, Shaped, AreLinks, IsLink
    <3> QED BY <1>5, <2>2, <3>1, KeptAll
  <2> QED BY <2>1, <2>2
<1>8. link[w].state # "new" BY <1>1, <1>2 DEF AudioInv, Lives
<1>9. ClientReads(l) BY <1>5, <1>7, <1>8 DEF ClientReads
<1> QED BY <1>1, <1>5, <1>6, <1>9 DEF l, w

LEMMA StaysFollows ==
  ASSUME Shaped, UNCHANGED link, NEW c
  PROVE  LinksFollow(c, {})
<1>1. \A d \in Sockets : /\ Kept(link[d].toServer, link[d].toServer, {})
                         /\ Kept(link[d].toClient, link[d].toClient, {})
  BY KeptAll DEF Shaped, AreLinks, IsLink
<1> QED BY <1>1 DEF Shaped, LinksFollow, LinksKeep

LEMMA ReadFollows ==
  ASSUME Shaped, NEW l, ClientReads(l), link' = l, NEW c
  PROVE  LinksFollow(c, {})
<1>1. \A d \in Sockets : Kept(link[d].toServer, link[d].toServer, {})
  BY KeptAll DEF Shaped, AreLinks, IsLink
<1> QED BY <1>1 DEF ClientReads, LinksFollow, LinksKeep

LEMMA HangsFollows ==
  ASSUME Shaped, NEW l, ClientReads(l), NEW w, link' = ClientHangs(l, w), NEW c
  PROVE  LinksFollow(c, {})
<1> DEFINE k == ClientHangs(l, w)
<1>1. k = ClientHangs(l, w) /\ link' = k /\ AreLinks(l) BY DEF ClientReads
<1>2. \A d \in Sockets : k[d].state = "new" => k[d] = l[d] BY <1>1 DEF ClientHangs, AreLinks, IsLink
<1> HIDE DEF k
<1>3. /\ AreLinks(k)
      /\ \A d \in Sockets :
           /\ k[d].toServer = l[d].toServer /\ k[d].toClient \in {l[d].toClient, <<>>}
           /\ d # w => k[d] = l[d]
           /\ k[d].state \in {l[d].state, "cut"}
  BY <1>1, ClientHangsEffect
<1>4. ASSUME NEW d \in Sockets
      PROVE  /\ Kept(link[d].toServer, k[d].toServer, {})
             /\ Kept(link[d].toClient, k[d].toClient, {})
  <2>1. link[d].toServer \in Seq(Mail) /\ link[d].toClient \in Seq(Mail)
    BY DEF Shaped, AreLinks, IsLink
  <2>2. Kept(link[d].toServer, k[d].toServer, {}) BY <1>3, <2>1, KeptAll DEF ClientReads
  <2>3. k[d].toClient = l[d].toClient \/ k[d].toClient = <<>> BY <1>3
  <2>4. Kept(link[d].toClient, k[d].toClient, {}) BY <2>1, <2>3, KeptNothing DEF ClientReads
  <2> QED BY <2>2, <2>4
<1> QED BY <1>1, <1>2, <1>3, <1>4 DEF LinksFollow, LinksKeep, ClientReads

LEMMA ReadNotFirst ==
  ASSUME AudioInv, NEW type, type # "opened", Arrives(type)
  PROVE  NotOpening
<1> USE DEF AudioInv
<1>1. client.ws # NoSocket /\ link[client.ws].toClient # <<>>
      /\ link[client.ws].toClient[1].type = type
  BY TookReads DEF Arrives, Arrived
<1>2. SUFFICES ASSUME ~NotOpening PROVE FALSE OBVIOUS
<1>3. Fresh BY <1>2 DEF NotOpening, Opening
<1>4. client.ws = 1 BY <1>1, <1>3 DEF Fresh
<1> QED BY <1>1, <1>2, <1>4 DEF NotOpening, Opening, Begins

LEMMA NotFreshNotOpening ==
  ASSUME AudioInv, ~Fresh
  PROVE  NotOpening
BY DEF AudioInv, NotOpening, Opening

LEMMA UnreadKept ==
  ASSUME AudioInv, SameSocks, UNCHANGED stream, AreLinks(link'), NEW c, NEW news, LinksKeep(c, news, {}),
         client'.sid => client.sid, client'.acked = client.acked, client'.ws \in {client.ws, NoSocket}
  PROVE  Unread'
<1> SUFFICES ASSUME client'.sid, client'.ws # NoSocket
             PROVE  /\ client'.acked <= Floor(client.ws)'
                    /\ \A i \in 1..Len(link'[client'.ws].toClient) :
                         LET m == link'[client'.ws].toClient[i] IN IsCursor(m) => client'.acked <= m.seq
  BY DEF Unread, Floor
<1> DEFINE w == client.ws
<1>1. client'.ws = w /\ client.sid /\ w # NoSocket /\ w \in Sockets
  BY DEF AudioInv, Shaped, IsClient
<1> HIDE DEF w
<1>2. client'.acked <= Floor(client.ws)'
  BY <1>1 DEF AudioInv, Unread, Floor, SameSocks, w
<1>3. ASSUME NEW i \in 1..Len(link'[w].toClient), IsCursor(link'[w].toClient[i])
      PROVE  client.acked <= link'[w].toClient[i].seq
  <2>0. link[w].toClient \in Seq(Mail) /\ link'[w].toClient \in Seq(Mail)
    BY <1>1 DEF AudioInv, Shaped, AreLinks, IsLink
  <2>1. PICK n \in Nat : Keeps(link[w].toClient, link'[w].toClient, n, {})
    BY <1>1 DEF LinksKeep, Kept
  <2>2. link'[w].toClient[i] = link[w].toClient[i + n] /\ i + n \in 1..Len(link[w].toClient)
    BY <2>0, <2>1 DEF Keeps
  <2> QED BY <1>1, <1>3, <2>2 DEF AudioInv, Unread, w
<1> QED BY <1>1, <1>2, <1>3

\* What has reached the provider still suffices.
LEMMA CommittedWaits ==
  ASSUME captured \in Nat, captured' \in Nat, Waits, UNCHANGED <<stream, provider>>,
         IsProvider(provider), Commits
  PROVE  provider'.commits > 0 /\ ~stream'.vad.ended => Expected' <= Len(provider'.audio) + Late'
<1>1. Expected \in Nat /\ Late \in Nat BY FramesAwaited
<1>2. Expected' \in Nat /\ Late' \in Nat BY FramesAwaitedNext
<1>3. Len(provider.audio) \in Nat BY DEF IsProvider
<1> QED BY <1>1, <1>2, <1>3 DEF Waits, Commits

\* The capture goes on with the frames it has.
LEMMA SameFramesKeeps ==
  ASSUME AudioInv, UNCHANGED <<captured, sock, stream, provider, expiry>>, IsClient(client'),
         Waits, client'.stopping = "capture" => client.stopping = "capture" \/ client.mode = "active",
         client'.sid = client.sid, client'.queue = client.queue, client'.inFlight = client.inFlight,
         client'.next = client.next, client'.acked = client.acked,
         client'.ws \in {client.ws, NoSocket},
         client'.mode = client.mode \/ client'.mode \in {"committing", "idle"},
         client'.mode = client.mode \/ client.mode # "committing" \/ client'.mode = "idle",
         client'.stopping # "no" \/ client'.recovery = "flushing" => Settled',
         NEW c, NEW news, LinksFollow(c, news),
         \A m \in news : ServerSound(m)' /\ m.type # "open",
         NotOpening \/ (Fresh' /\ UNCHANGED link)
  PROVE  AudioInv'
<1> USE DEF AudioInv
<1>1. SameSocks BY DEF SameSocks, Shaped
<1>2. Settled => Settled' BY DEF Settled
<1>3. Goes
  <2>1. captured \in Nat /\ client.next \in Nat BY DEF Shaped, IsClient
  <2>2. client.sid => stream.told BY DEF Lives
  <2> QED BY <1>2, <2>1, <2>2 DEF Goes
<1>4. Unread' BY <1>1, UnreadKept DEF LinksFollow
<1>5. Numbers' BY DEF Numbers, Contiguous, Exact
<1>6. Commits' BY <1>2, CommittedWaits DEF Commits, Shaped
<1>7. NotOpening \/ /\ Begins(link'[1].toServer, "open") => Fresh' /\ link'[1].toClient = <<>>
                    /\ Begins(link'[1].toClient, "opened") => Fresh'
  BY DEF Opening
<1> QED BY <1>1, <1>3, <1>4, <1>5, <1>6, <1>7, ClientStepKeeps

\* The stream is forgotten.
LEMMA ForgottenKeeps ==
  ASSUME AudioInv, UNCHANGED <<sock, stream, provider, expiry>>, IsClient(client'),
         captured' \in Nat, captured <= captured', Waits,
         ~client'.sid, DOMAIN client'.inFlight = {},
         client'.mode = client.mode \/ client'.mode = "idle",
         client'.stopping # "no" \/ client'.recovery = "flushing" =>
           client.stopping # "no" \/ client.recovery = "flushing" \/ client'.mode = "idle",
         NEW c, NEW news, LinksFollow(c, news),
         \A m \in news : ServerSound(m)' /\ m.type # "open",
         NotOpening \/ (Fresh' /\ UNCHANGED link)
  PROVE  AudioInv'
<1> USE DEF AudioInv
<1>1. SameSocks BY DEF SameSocks, Shaped
<1>2. Settled => Settled' BY DEF Settled
<1>3. Goes BY <1>2 DEF Goes
<1>4. Unread' BY DEF Unread
<1>5. Numbers' BY DEF Numbers
<1>6. Commits'
  <2>1. client'.stopping # "no" \/ client'.recovery = "flushing" => Settled'
    BY <1>2 DEF Commits, Settled
  <2> QED BY <1>2, <2>1, CommittedWaits DEF Commits, Shaped
<1>7. NotOpening \/ /\ Begins(link'[1].toServer, "open") => Fresh' /\ link'[1].toClient = <<>>
                    /\ Begins(link'[1].toClient, "opened") => Fresh'
  BY DEF Opening
<1> QED BY <1>1, <1>3, <1>4, <1>5, <1>6, <1>7, ClientStepKeeps

-----------------------------------------------------------------------------
(* The client's requests and its reconnects, action by action *)

SameFrames(cl, k) ==
  /\ IsClient(k) /\ k.sid = cl.sid /\ k.queue = cl.queue /\ k.inFlight = cl.inFlight
  /\ k.next = cl.next /\ k.acked = cl.acked

\* The client with some of its fields set.
InMode(cl, mode) == [cl EXCEPT !.mode = mode]

LEMMA ModeEffect ==
  ASSUME NEW cl, IsClient(cl), NEW mode, NEW k, k = InMode(cl, mode)
  PROVE  /\ SameFrames(cl, k) /\ k.mode = mode /\ k.ws = cl.ws
         /\ k.recovery = cl.recovery /\ k.stopping = cl.stopping
BY DEF IsClient, SameFrames, InMode

Stopping(cl, mode) == [cl EXCEPT !.mode = mode, !.stopping = "capture"]

LEMMA StopEffect ==
  ASSUME NEW cl, IsClient(cl), NEW mode, NEW k, k = Stopping(cl, mode)
  PROVE  /\ SameFrames(cl, k) /\ k.mode = mode /\ k.ws = cl.ws
         /\ k.recovery = cl.recovery
BY DEF IsClient, SameFrames, Stopping

Stopped(cl) == [cl EXCEPT !.stopping = "no"]

LEMMA StoppedEffect ==
  ASSUME NEW cl, IsClient(cl), NEW k, k = Stopped(cl)
  PROVE  /\ SameFrames(cl, k) /\ k.mode = cl.mode /\ k.ws = cl.ws
         /\ k.recovery = cl.recovery /\ k.stopping = "no"
BY DEF IsClient, SameFrames, Stopped

Recovering(cl, r, a) == [cl EXCEPT !.recovery = r, !.attempt = a]

LEMMA RecoveryEffect ==
  ASSUME NEW cl, IsClient(cl), NEW r, NEW a, NEW k, k = Recovering(cl, r, a)
  PROVE  /\ SameFrames(cl, k) /\ k.mode = cl.mode /\ k.ws = cl.ws
         /\ k.recovery = r /\ k.stopping = cl.stopping
BY DEF IsClient, SameFrames, Recovering

Lost(cl) == [cl EXCEPT !.ws = NoSocket]

LEMMA LostEffect ==
  ASSUME NEW cl, IsClient(cl), NEW k, k = Lost(cl)
  PROVE  /\ SameFrames(cl, k) /\ k.mode = cl.mode /\ k.ws = NoSocket
         /\ k.recovery = cl.recovery /\ k.stopping = cl.stopping
BY DEF IsClient, SameFrames, Lost

Retrying(cl, r, a) == [cl EXCEPT !.ws = NoSocket, !.recovery = r, !.attempt = a]

LEMMA RetryEffect ==
  ASSUME NEW cl, IsClient(cl), NEW r, NEW a, NEW k, k = Retrying(cl, r, a)
  PROVE  /\ SameFrames(cl, k) /\ k.mode = cl.mode /\ k.ws = NoSocket
         /\ k.recovery = r /\ k.stopping = cl.stopping
BY DEF IsClient, SameFrames, Retrying

LEMMA StartRecoveryEffect ==
  ASSUME NEW cl, IsClient(cl), NEW k, k = StartRecovery(cl)
  PROVE  /\ SameFrames(cl, k) /\ k.mode = cl.mode /\ k.ws = cl.ws /\ k.recovery = "connecting"
         /\ k.stopping = cl.stopping
BY DEF IsClient, SameFrames, StartRecovery

LEMMA ResetEffect ==
  ASSUME NEW cl, IsClient(cl)
  PROVE  /\ IsClient(Reset(cl)) /\ ~Reset(cl).sid /\ DOMAIN Reset(cl).inFlight = {}
         /\ Reset(cl).queue = <<>> /\ Reset(cl).next = 0 /\ Reset(cl).acked = 0
         /\ Reset(cl).mode = cl.mode /\ Reset(cl).ws = cl.ws
         /\ Reset(cl).recovery = cl.recovery /\ Reset(cl).stopping = cl.stopping
<1> DEFINE k == Reset(cl)
<1>1. k = [cl EXCEPT !.sid = FALSE, !.queue = <<>>, !.inFlight = <<>>, !.next = 0, !.acked = 0]
  BY DEF Reset
<1> HIDE DEF k
<1>2. k = [mode |-> cl.mode, sid |-> FALSE, queue |-> <<>>, inFlight |-> <<>>,
           next |-> 0, acked |-> 0, ws |-> cl.ws, recovery |-> cl.recovery,
           attempt |-> cl.attempt, stopping |-> cl.stopping]
  BY <1>1 DEF IsClient
<1>3. IsClient(k) BY <1>2 DEF IsClient
<1>4. /\ ~k.sid /\ DOMAIN k.inFlight = {} /\ k.queue = <<>> /\ k.next = 0 /\ k.acked = 0
      /\ k.mode = cl.mode /\ k.ws = cl.ws /\ k.recovery = cl.recovery /\ k.stopping = cl.stopping
  BY <1>2
<1> QED BY <1>3, <1>4 DEF k

\* The client after its capture ended without the stream.
Idle(cl, k) ==
  /\ IsClient(k) /\ ~k.sid /\ DOMAIN k.inFlight = {} /\ k.mode = "idle"
  /\ k.queue = <<>> /\ k.next = 0 /\ k.acked = 0 /\ k.stopping = cl.stopping

LEMMA FailedEffect ==
  ASSUME NEW cl, IsClient(cl)
  PROVE  /\ Idle(cl, Failed(cl)) /\ Failed(cl).ws = cl.ws /\ Failed(cl).recovery = cl.recovery
<1> DEFINE r == Reset(cl)
           k == Failed(cl)
<1>1. /\ IsClient(r) /\ ~r.sid /\ DOMAIN r.inFlight = {} /\ r.queue = <<>> /\ r.next = 0 /\ r.acked = 0
      /\ r.mode = cl.mode /\ r.ws = cl.ws /\ r.recovery = cl.recovery /\ r.stopping = cl.stopping
  BY ResetEffect
<1>2. k = InMode(r, "idle") BY DEF Failed, InMode
<1> HIDE DEF r, k
<1>3. SameFrames(r, k) /\ k.mode = "idle" /\ k.ws = r.ws /\ k.recovery = r.recovery
      /\ k.stopping = r.stopping
  BY <1>1, <1>2, ModeEffect
<1>4. Idle(cl, k) /\ k.ws = cl.ws /\ k.recovery = cl.recovery
  BY <1>1, <1>3 DEF SameFrames, Idle
<1> QED BY <1>4 DEF k

LEMMA StopKeeps ==
  ASSUME AudioInv, Stop
  PROVE  AudioInv'
<1>1. /\ client.mode = "active" /\ UNCHANGED <<captured, overtaken, link, sock, stream, provider, expiry>>
      /\ client' = [client EXCEPT !.mode = "committing", !.stopping = "capture"]
      /\ IsClient(client)
  BY DEF Stop, AudioInv, Shaped, microphone, serverVars
<1>2. client' = Stopping(client, "committing") BY <1>1 DEF Stopping
<1>3. /\ SameFrames(client, client') /\ client'.mode = "committing" /\ client'.ws = client.ws
      /\ client'.recovery = client.recovery
  BY <1>1, <1>2, StopEffect
<1>4. NotOpening BY <1>1, NotFreshNotOpening DEF Fresh
<1>5. LinksFollow(1, {}) BY <1>1, StaysFollows DEF AudioInv
<1>6. Waits BY <1>1 DEF Waits, Settled, Late
<1> QED BY <1>1, <1>3, <1>4, <1>5, <1>6, SameFramesKeeps DEF SameFrames, Settled

LEMMA CommitNews ==
  /\ Msg("commit", 0, 0) \in Mail /\ <<Msg("commit", 0, 0)>> \in Seq(Mail)
  /\ Msg("commit", 0, 0).type = "commit"
<1>1. "commit" \in MailTypes BY DEF MailTypes
<1> QED BY <1>1, MsgIsMail

\* A client that has nothing left to send sends its commit, if it can.
LEMMA DrainedKeeps ==
  ASSUME AudioInv, client.stopping # "no" \/ client.recovery = "flushing", Drained(client),
         UNCHANGED <<captured, sock, stream, provider, expiry>>, Waits,
         client'.stopping = "capture" => client.stopping = "capture" /\ (Online(client) => overtaken'),
         link' = IF Online(client) THEN ToServer(link, client.ws, <<Msg("commit", 0, 0)>>) ELSE link,
         SameFrames(client, client'), client'.mode = client.mode, client'.ws = client.ws
  PROVE  AudioInv'
<1> DEFINE m == Msg("commit", 0, 0)
<1>1. NotOpening BY NotFreshNotOpening DEF Fresh
<1>2. Settled' BY DEF AudioInv, Commits, Settled
<1>3. CASE ~Online(client)
  <2>1. LinksFollow(1, {}) BY <1>3, StaysFollows DEF AudioInv
  <2> QED BY <1>1, <1>2, <2>1, SameFramesKeeps DEF SameFrames
<1>4. CASE Online(client)
  <2>1. m \in Mail /\ <<m>> \in Seq(Mail) /\ m.type = "commit" BY CommitNews
  <2>2. link' = ToServer(link, client.ws, <<m>>) BY <1>4
  <2> HIDE DEF m
  <2>3. LinksFollow(client.ws, {m})
    <3>1. ClientReads(link) BY ReadsNothing DEF AudioInv
    <3>2. \A i \in 1..Len(<<m>>) : <<m>>[i] \in {m} OBVIOUS
    <3> QED BY <2>1, <2>2, <3>1, <3>2, SentFollows DEF AudioInv
  <2>4. ~stream.vad.ended => stream.next = captured
    BY <1>4 DEF Online, Drained, AudioInv, Numbers, Contiguous, Exact, Shaped, IsClient, IsStream
  <2>6. captured \in Nat /\ Held(client') <= Late' /\ Held(client') \in Nat /\ Late' \in Nat
    BY <1>4 DEF Held, Late, AudioInv, Shaped
  <2>7. ~stream'.vad.ended => Expected' <= stream'.next + Late'
    BY <2>4, <2>6 DEF Expected
  <2>5. ServerSound(m)' /\ m.type # "open"
    BY <1>2, <2>1, <2>7 DEF ServerSound
  <2> QED BY <1>1, <1>2, <2>3, <2>5, SameFramesKeeps DEF SameFrames
<1> QED BY <1>3, <1>4

LEMMA StopCommitsKeeps ==
  ASSUME AudioInv, StopCommits
  PROVE  AudioInv'
<1> DEFINE done == Stopped(client)
<1>1. IsClient(client) /\ done = Stopped(client) BY DEF AudioInv, Shaped
<1>2. client' = StartRecovery(done) \/ client' = done BY DEF StopCommits, Stopped
<1> HIDE DEF done
<1>3. SameFrames(client, done) /\ done.mode = client.mode /\ done.ws = client.ws
      /\ done.stopping = "no"
  BY <1>1, StoppedEffect
<1>4. SameFrames(client, client') /\ client'.mode = client.mode /\ client'.ws = client.ws
      /\ client'.stopping = "no"
  BY <1>2, <1>3, StartRecoveryEffect DEF SameFrames
<1>5. captured \in Nat /\ UNCHANGED <<captured, overtaken>>
  BY DEF StopCommits, microphone, AudioInv, Shaped
<1>6. Waits BY <1>4, <1>5, FramesClosed
<1> QED BY <1>4, <1>6, DrainedKeeps DEF StopCommits, microphone, serverVars

LEMMA RecoveryCommitsKeeps ==
  ASSUME AudioInv, RecoveryCommits
  PROVE  AudioInv'
<1>1. IsClient(client) /\ client' = Recovering(client, "no", 0)
  BY DEF AudioInv, Shaped, RecoveryCommits, Recovering
<1>2. SameFrames(client, client') /\ client'.mode = client.mode /\ client'.ws = client.ws
      /\ client'.stopping = client.stopping
  BY <1>1, RecoveryEffect
<1>3. captured \in Nat /\ captured' = captured /\ (overtaken => overtaken')
  BY DEF RecoveryCommits, AudioInv, Shaped
<1>4. Waits BY <1>2, <1>3 DEF Waits, Expected, Held, Late
<1>5. client'.stopping = "capture" => client.stopping = "capture" /\ (Online(client) => overtaken')
  BY <1>2 DEF RecoveryCommits
<1> QED BY <1>2, <1>4, <1>5, DrainedKeeps DEF RecoveryCommits, serverVars

LEMMA OpenTimesOutKeeps ==
  ASSUME AudioInv, OpenTimesOut
  PROVE  AudioInv'
<1>1. /\ UNCHANGED <<captured, overtaken, link, sock, stream, provider, expiry>> /\ IsClient(client)
      /\ client' = InMode(client, "idle") /\ client.mode = "opening"
  BY DEF OpenTimesOut, InMode, AudioInv, Shaped, microphone, serverVars
<1>2. SameFrames(client, client') /\ client'.mode = "idle" /\ client'.ws = client.ws
      /\ client'.recovery = client.recovery /\ client'.stopping = client.stopping
  BY <1>1, ModeEffect
<1>3. LinksFollow(1, {}) BY <1>1, StaysFollows DEF AudioInv
<1>4. NotOpening \/ (Fresh' /\ UNCHANGED link)
  BY <1>1, <1>2, NotFreshNotOpening DEF Fresh, SameFrames
<1>5. Waits BY <1>1, <1>2, FramesKept DEF AudioInv, Shaped
<1> QED BY <1>1, <1>2, <1>3, <1>4, <1>5, SameFramesKeeps DEF SameFrames, Settled

\* The client hangs up its capture, and sends what news says of it.
LEMMA IdleKeeps ==
  ASSUME AudioInv, UNCHANGED <<sock, stream, provider, expiry>>, Idle(client, client'),
         captured' \in Nat, captured <= captured', Settled => captured' = captured,
         overtaken' = overtaken,
         NEW c, NEW news, LinksFollow(c, news),
         \A m \in news : m.type \notin {"open", "reconnect", "chunk", "commit"},
         NotOpening \/ (Fresh' /\ UNCHANGED link)
  PROVE  AudioInv'
<1>1. \A m \in news : ServerSound(m)' /\ m.type # "open" BY DEF ServerSound
<1>2. /\ IsClient(client') /\ ~client'.sid /\ DOMAIN client'.inFlight = {} /\ client'.mode = "idle"
  BY DEF Idle
<1>3. Waits BY FramesClosed DEF AudioInv, Shaped, Idle
<1> QED BY <1>1, <1>2, <1>3, ForgottenKeeps

LEMMA CloseIsMail ==
  /\ Msg("close", 0, 0) \in Mail /\ <<Msg("close", 0, 0)>> \in Seq(Mail)
  /\ Msg("close", 0, 0).type = "close"
<1>1. "close" \in MailTypes BY DEF MailTypes
<1> QED BY <1>1, MsgIsMail

LEMMA CancelKeeps ==
  ASSUME AudioInv, NotOpening, NEW cl, SameFrames(client, cl), cl.ws = client.ws,
         cl.stopping \in {client.stopping, "no"}, CancelCapture(cl)
  PROVE  AudioInv'
<1> DEFINE m == Msg("close", 0, 0)
<1>1. UNCHANGED <<captured, overtaken, sock, stream, provider, expiry>> /\ captured \in Nat
  BY DEF CancelCapture, microphone, serverVars, AudioInv, Shaped
<1>2. client' = Failed(cl) BY DEF CancelCapture, Failed
<1>3. Idle(client, client') \/ Idle(cl, client') BY <1>2, FailedEffect DEF SameFrames
<1>4. IsClient(client') /\ ~client'.sid /\ DOMAIN client'.inFlight = {} /\ client'.mode = "idle"
  BY <1>3 DEF Idle
<1>10. Waits
  <2>1. client'.stopping \in {client.stopping, "no"} BY <1>3 DEF Idle
  <2> QED BY <1>1, <2>1, FramesClosed
<1>5. m \in Mail /\ <<m>> \in Seq(Mail) /\ m.type = "close" BY CloseIsMail
<1>6. \A e \in {m} : ServerSound(e)' /\ e.type # "open" BY <1>5 DEF ServerSound
<1>7. link' = ToServer(link, client.ws, <<m>>) \/ UNCHANGED link BY DEF CancelCapture
<1> HIDE DEF m
<1>8. CASE link' = ToServer(link, client.ws, <<m>>)
  <2>1. ClientReads(link) BY ReadsNothing DEF AudioInv
  <2>2. \A i \in 1..Len(<<m>>) : <<m>>[i] \in {m} OBVIOUS
  <2>3. LinksFollow(client.ws, {m}) BY <1>5, <1>8, <2>1, <2>2, SentFollows DEF AudioInv
  <2> QED BY <1>1, <1>4, <1>6, <1>10, <2>3, ForgottenKeeps
<1>9. CASE UNCHANGED link
  <2>1. LinksFollow(1, {}) BY <1>9, StaysFollows DEF AudioInv
  <2> QED BY <1>1, <1>4, <1>10, <2>1, ForgottenKeeps
<1> QED BY <1>7, <1>8, <1>9

LEMMA UserCancelKeeps ==
  ASSUME AudioInv, UserCancel
  PROVE  AudioInv'
<1>1. NotOpening BY NotFreshNotOpening DEF UserCancel, Fresh
<1>2. SameFrames(client, client) BY DEF SameFrames, AudioInv, Shaped
<1> QED BY <1>1, <1>2, CancelKeeps DEF UserCancel

LEMMA StopTimesOutKeeps ==
  ASSUME AudioInv, StopTimesOut
  PROVE  AudioInv'
<1> DEFINE cl == Stopped(client)
<1>1. NotOpening BY NotFreshNotOpening DEF StopTimesOut, Fresh
<1>2. CancelCapture(cl) BY DEF StopTimesOut, Stopped
<1>3. cl = Stopped(client) /\ IsClient(client) BY DEF AudioInv, Shaped
<1> HIDE DEF cl
<1>4. SameFrames(client, cl) /\ cl.ws = client.ws /\ cl.stopping = "no" BY <1>3, StoppedEffect
<1> QED BY <1>1, <1>2, <1>4, CancelKeeps

LEMMA AttemptFailedEffect ==
  ASSUME NEW cl, IsClient(cl), NEW k, k = AttemptFailed(cl)
  PROVE  \/ /\ SameFrames(cl, k) /\ k.mode = cl.mode /\ k.ws = NoSocket
            /\ k.recovery = "connecting" /\ k.stopping = cl.stopping
         \/ Idle(cl, k)
<1>1. CASE cl.attempt < MaxAttempts
  <2>1. k = Retrying(cl, "connecting", cl.attempt + 1) BY <1>1 DEF AttemptFailed, Retrying
  <2> QED BY <2>1, RetryEffect
<1>2. CASE ~(cl.attempt < MaxAttempts)
  <2> DEFINE f == Failed(cl)
  <2>1. k = Retrying(f, "no", 0) BY <1>2 DEF AttemptFailed, Retrying
  <2>2. Idle(cl, f) /\ IsClient(f) BY FailedEffect DEF Idle
  <2> HIDE DEF f
  <2>3. SameFrames(f, k) /\ k.mode = f.mode /\ k.stopping = f.stopping BY <2>1, <2>2, RetryEffect
  <2> QED BY <2>2, <2>3 DEF Idle, SameFrames
<1> QED BY <1>1, <1>2

\* The client hangs up; l are the links after what it has read.
LEMMA AttemptFailedKeeps ==
  ASSUME AudioInv, client.recovery # "no", NEW l, ClientReads(l), client' = AttemptFailed(client),
         link' = ClientHangs(l, client.ws), UNCHANGED <<captured, overtaken, sock, stream, provider, expiry>>
  PROVE  AudioInv'
<1>1. NotOpening BY NotFreshNotOpening DEF Fresh
<1>2. LinksFollow(1, {}) BY HangsFollows DEF AudioInv
<1>3. IsClient(client) /\ captured \in Nat BY DEF AudioInv, Shaped
<1>4. CASE Idle(client, client')
  BY <1>1, <1>2, <1>3, <1>4, IdleKeeps
<1>5. CASE /\ SameFrames(client, client') /\ client'.mode = client.mode /\ client'.ws = NoSocket
           /\ client'.recovery = "connecting" /\ client'.stopping = client.stopping
  <2>1. client'.stopping # "no" \/ client'.recovery = "flushing" => Settled'
    BY <1>5 DEF AudioInv, Commits, Settled
  <2>2. Waits BY <1>3, <1>5, FramesKept
  <2> QED BY <1>1, <1>2, <1>5, <2>1, <2>2, SameFramesKeeps DEF SameFrames
<1> QED BY <1>3, <1>4, <1>5, AttemptFailedEffect

LEMMA RetryOrGiveUpKeeps ==
  ASSUME AudioInv, client.recovery # "no", RetryOrGiveUp
  PROVE  AudioInv'
<1>1. ClientReads(link) BY ReadsNothing DEF AudioInv
<1> QED BY <1>1, AttemptFailedKeeps DEF RetryOrGiveUp, microphone, serverVars

LEMMA NoticeCutKeeps ==
  ASSUME AudioInv, NoticeCut
  PROVE  AudioInv'
<1> DEFINE lost == Lost(client)
<1>1. UNCHANGED <<captured, overtaken, link, sock, stream, provider, expiry>> /\ captured \in Nat
  BY DEF NoticeCut, microphone, serverVars, AudioInv, Shaped
<1>2. \/ client' = lost
      \/ client' = StartRecovery(lost) /\ client.mode \in {"active", "committing"}
      \/ client' = Failed(lost) /\ client.mode \in {"active", "committing"}
  BY DEF NoticeCut, Lost
<1>3. lost = Lost(client) /\ IsClient(client) BY DEF AudioInv, Shaped
<1> HIDE DEF lost
<1>4. /\ SameFrames(client, lost) /\ lost.mode = client.mode /\ lost.ws = NoSocket
      /\ lost.recovery = client.recovery /\ lost.stopping = client.stopping
  BY <1>3, LostEffect
<1>5. LinksFollow(1, {}) BY <1>1, StaysFollows DEF AudioInv
<1>6. CASE client' = lost
  <2>1. NotOpening \/ (Fresh' /\ UNCHANGED link)
    BY <1>1, <1>4, <1>6, NotFreshNotOpening DEF Fresh, SameFrames
  <2>2. client'.stopping # "no" \/ client'.recovery = "flushing" => Settled'
    BY <1>4, <1>6 DEF AudioInv, Commits, Settled
  <2>3. Waits BY <1>1, <1>4, <1>6, FramesKept
  <2> QED BY <1>1, <1>4, <1>5, <1>6, <2>1, <2>2, <2>3, SameFramesKeeps DEF SameFrames
<1>7. CASE client' = StartRecovery(lost) /\ client.mode \in {"active", "committing"}
  <2>1. NotOpening BY <1>7, NotFreshNotOpening DEF Fresh
  <2>2. /\ SameFrames(client, client') /\ client'.mode = client.mode /\ client'.ws = NoSocket
        /\ client'.recovery = "connecting" /\ client'.stopping = client.stopping
    BY <1>4, <1>7, StartRecoveryEffect DEF SameFrames
  <2>3. client'.stopping # "no" \/ client'.recovery = "flushing" => Settled'
    BY <2>2 DEF AudioInv, Commits, Settled
  <2>4. Waits BY <1>1, <2>2, FramesKept
  <2> QED BY <1>1, <1>5, <2>1, <2>2, <2>3, <2>4, SameFramesKeeps DEF SameFrames
<1>8. CASE client' = Failed(lost) /\ client.mode \in {"active", "committing"}
  <2>1. NotOpening BY <1>8, NotFreshNotOpening DEF Fresh
  <2>2. Idle(client, client') BY <1>4, <1>8, FailedEffect DEF SameFrames, Idle
  <2> QED BY <1>1, <1>5, <2>1, <2>2, IdleKeeps
<1> QED BY <1>2, <1>6, <1>7, <1>8

LEMMA OnClosedKeeps ==
  ASSUME AudioInv, OnClosed
  PROVE  AudioInv'
<1>1. UNCHANGED <<captured, overtaken, sock, stream, provider, expiry>> /\ captured \in Nat
      /\ Arrives("closed") /\ client' = Reset(client) /\ link' = Took /\ IsClient(client)
  BY DEF OnClosed, microphone, serverVars, AudioInv, Shaped
<1>2. NotOpening BY <1>1, ReadNotFirst
<1>3. ClientReads(Took) BY <1>1, TookReads DEF Arrives
<1>4. LinksFollow(1, {}) BY <1>1, <1>3, ReadFollows DEF AudioInv
<1>5. /\ IsClient(client') /\ ~client'.sid /\ DOMAIN client'.inFlight = {}
      /\ client'.mode = client.mode /\ client'.recovery = client.recovery
      /\ client'.stopping = client.stopping
  BY <1>1, ResetEffect
<1>6. Waits BY <1>1, <1>5, FramesKept
<1> QED BY <1>1, <1>2, <1>4, <1>5, <1>6, ForgottenKeeps

LEMMA OnErrorKeeps ==
  ASSUME AudioInv, OnError
  PROVE  AudioInv'
<1>1. UNCHANGED <<captured, overtaken, sock, stream, provider, expiry>> /\ captured \in Nat
      /\ Arrives("error") /\ IsClient(client)
  BY DEF OnError, microphone, serverVars, AudioInv, Shaped
<1>2. NotOpening BY <1>1, ReadNotFirst
<1>3. ClientReads(Took) BY <1>1, TookReads DEF Arrives
<1>4. CASE /\ client.recovery = "reconnecting" /\ client' = AttemptFailed(client)
           /\ link' = ClientHangs(Took, client.ws)
  BY <1>1, <1>3, <1>4, AttemptFailedKeeps
<1>5. CASE client' = Failed(client) /\ link' = Took
  <2>1. LinksFollow(1, {}) BY <1>3, <1>5, ReadFollows DEF AudioInv
  <2>2. Idle(client, client') BY <1>1, <1>5, FailedEffect
  <2> QED BY <1>1, <1>2, <2>1, <2>2, IdleKeeps
<1> QED BY <1>4, <1>5 DEF OnError

LEMMA OnFinalKeeps ==
  ASSUME AudioInv, OnFinal
  PROVE  AudioInv'
<1> DEFINE m == Msg("close", 0, 0)
<1>1. UNCHANGED <<captured, overtaken, sock, stream, provider, expiry>> /\ Arrives("final")
      /\ client' = InMode(client, "idle") /\ IsClient(client)
      /\ (link' = ToServer(Took, client.ws, <<m>>) \/ link' = Took)
  BY DEF OnFinal, microphone, serverVars, AudioInv, Shaped, InMode
<1>2. NotOpening BY <1>1, ReadNotFirst
<1>3. ClientReads(Took) BY <1>1, TookReads DEF Arrives
<1>4. SameFrames(client, client') /\ client'.mode = "idle" /\ client'.ws = client.ws
      /\ client'.stopping = client.stopping
  BY <1>1, ModeEffect
<1>10. Waits BY <1>1, <1>4, FramesKept DEF AudioInv, Shaped
<1>5. m \in Mail /\ <<m>> \in Seq(Mail) /\ m.type = "close" BY CloseIsMail
<1>6. \A e \in {m} : ServerSound(e)' /\ e.type # "open" BY <1>5 DEF ServerSound
<1>7. Settled' BY <1>4 DEF Settled
<1> HIDE DEF m
<1>8. CASE link' = ToServer(Took, client.ws, <<m>>)
  <2>1. \A i \in 1..Len(<<m>>) : <<m>>[i] \in {m} OBVIOUS
  <2>2. LinksFollow(client.ws, {m})
    <3> DEFINE l == Took
    <3>1. link' = ToServer(l, client.ws, <<m>>) /\ ClientReads(l) BY <1>3, <1>8
    <3> HIDE DEF l
    <3> QED BY <1>5, <2>1, <3>1, SentFollows DEF AudioInv
  <2> QED BY <1>1, <1>2, <1>4, <1>6, <1>7, <1>10, <2>2, SameFramesKeeps DEF SameFrames
<1>9. CASE link' = Took
  <2>1. LinksFollow(1, {}) BY <1>3, <1>9, ReadFollows DEF AudioInv
  <2> QED BY <1>1, <1>2, <1>4, <1>7, <1>10, <2>1, SameFramesKeeps DEF SameFrames
<1> QED BY <1>1, <1>8, <1>9

LEMMA IntervalSize ==
  ASSUME NEW a \in Nat, NEW b \in Nat, a <= b
  PROVE  /\ IsFiniteSet(a..(b - 1)) /\ Cardinality(a..(b - 1)) = b - a
<1> DEFINE e == b - 1
<1>1. a \in Int /\ e \in Int OBVIOUS
<1> HIDE DEF e
<1>2. /\ IsFiniteSet(a..e) /\ Cardinality(a..e) = IF a > e THEN 0 ELSE e - a + 1
  BY <1>1, FS_Interval
<1> QED BY <1>2 DEF e

LEMMA WindowIsNat == MaxInFlight \in Nat /\ MaxInFlight # 0
BY AudioAssumption

LEMMA MailSeq ==
  ASSUME NEW s \in Seq(Mail), NEW i \in 1..Len(s)
  PROVE  s[i] \in Mail /\ s[i].seq \in Nat
<1>1. s[i] \in Mail OBVIOUS
<1> QED BY <1>1 DEF Mail

\* The client after it read that the stream is open.
Opened(cl, mode) == [cl EXCEPT !.sid = TRUE, !.mode = mode]

LEMMA OpenedEffect ==
  ASSUME NEW cl, IsClient(cl), NEW mode
  PROVE  LET k == Opened(cl, mode)
         IN  /\ IsClient(k) /\ k.sid /\ k.mode = mode /\ k.queue = cl.queue
             /\ k.inFlight = cl.inFlight /\ k.next = cl.next /\ k.acked = cl.acked
             /\ k.ws = cl.ws /\ k.recovery = cl.recovery /\ k.stopping = cl.stopping
<1> DEFINE k == Opened(cl, mode)
<1>1. k = [cl EXCEPT !.sid = TRUE, !.mode = mode] BY DEF Opened
<1> HIDE DEF k
<1>2. k = [mode |-> mode, sid |-> TRUE, queue |-> cl.queue, inFlight |-> cl.inFlight,
           next |-> cl.next, acked |-> cl.acked, ws |-> cl.ws, recovery |-> cl.recovery,
           attempt |-> cl.attempt, stopping |-> cl.stopping]
  BY <1>1 DEF IsClient
<1>3. /\ IsClient(k) /\ k.sid /\ k.mode = mode /\ k.queue = cl.queue
      /\ k.inFlight = cl.inFlight /\ k.next = cl.next /\ k.acked = cl.acked
      /\ k.ws = cl.ws /\ k.recovery = cl.recovery /\ k.stopping = cl.stopping
  BY <1>2 DEF IsClient
<1> QED BY <1>3 DEF k

LEMMA OnOpenedKeeps ==
  ASSUME AudioInv, OnOpened
  PROVE  AudioInv'
<1> USE DEF AudioInv
<1> DEFINE mode == IF client.mode = "opening" THEN "active" ELSE client.mode
<1>1. /\ UNCHANGED <<captured, overtaken, sock, stream, provider, expiry>> /\ link' = Took
      /\ client' = Opened(client, mode) /\ IsClient(client)
      /\ client.ws # NoSocket /\ link[client.ws].toClient # <<>> /\ Arrived.type = "opened"
  BY DEF OnOpened, Opened, Shaped, microphone, serverVars, Arrives, Arrived
<1>2. /\ ClientReads(Took) /\ client.ws \in Sockets
      /\ Took[client.ws].toClient = Tail(link[client.ws].toClient)
      /\ link[client.ws].toClient[1].type = "opened" /\ 1 \in 1..Len(link[client.ws].toClient)
  BY <1>1, TookReads
<1>3. client.ws = 1 BY <1>2 DEF Opening, OpenedIsFirst
<1>4. Fresh /\ stream.told BY <1>1, <1>2, <1>3 DEF Opening, Begins
<1>5. /\ IsClient(client') /\ client'.sid /\ client'.mode = mode /\ client'.queue = <<>>
      /\ DOMAIN client'.inFlight = {} /\ client'.next = 0 /\ client'.acked = 0
      /\ client'.ws = 1 /\ client'.recovery = "no" /\ client'.stopping = "no"
  <2>1. LET k == Opened(client, mode)
        IN  /\ IsClient(k) /\ k.sid /\ k.mode = mode /\ k.queue = client.queue
            /\ k.inFlight = client.inFlight /\ k.next = client.next /\ k.acked = client.acked
            /\ k.ws = client.ws /\ k.recovery = client.recovery /\ k.stopping = client.stopping
    BY <1>1, OpenedEffect
  <2> HIDE DEF mode
  <2> QED BY <1>1, <1>3, <1>4, <2>1 DEF Fresh
<1>6. LinksFollow(1, {}) BY <1>1, <1>2, ReadFollows
<1>7. SameSocks BY <1>1 DEF SameSocks, Shaped
<1>8. captured = 0 /\ client.mode # "committing" BY <1>4 DEF Fresh
<1>14. Waits
  <2>1. captured \in Nat /\ client'.stopping = client.stopping BY <1>4, <1>5 DEF Fresh, Shaped
  <2> QED BY <1>1, <2>1, FramesKept
<1>9. Goes BY <1>1, <1>4, <1>5, <1>8, <1>14 DEF Goes, Settled
<1>10. Unread'
  <2>1. link'[1].toClient = Tail(link[1].toClient) BY <1>1, <1>2, <1>3
  <2>2. Floor(client.ws)' \in Nat
    BY <1>1, <1>5, <1>2, <1>3 DEF Floor, Shaped, IsStream, AreSocks, IsSock
  <2>3. link[1].toClient \in Seq(Mail) /\ link[1].toClient # <<>>
    BY <1>1, <1>2, <1>3 DEF Shaped, AreLinks, IsLink
  <2>4. link'[1].toClient \in Seq(Mail) BY <2>1, <2>3
  <2>5. \A i \in 1..Len(link'[1].toClient) : link'[1].toClient[i].seq \in Nat
    BY <2>4, MailSeq
  <2> QED BY <1>5, <2>2, <2>5 DEF Unread
<1>11. Numbers'
  <2>1. stream.next = 0 BY <1>8 DEF Fed, Shaped, IsStream
  <2>2. Contiguous(client, captured)'
    <3>1. client'.acked..(client'.next - 1) = {} BY <1>5
    <3>2. 1..Len(client'.queue) = {} /\ Len(client'.queue) = 0 BY <1>5
    <3>3. client'.acked <= client'.next /\ client'.next <= client'.acked + MaxInFlight
          /\ client'.next + Len(client'.queue) <= captured'
      BY <1>1, <1>5, <1>8, <3>2, WindowIsNat
    <3>4. /\ DOMAIN client'.inFlight = client'.acked..(client'.next - 1)
          /\ \A s \in DOMAIN client'.inFlight : client'.inFlight[s] = s + 1
          /\ \A i \in 1..Len(client'.queue) : client'.queue[i] = client'.next + i
      BY <1>5, <3>1, <3>2
    <3> QED BY <3>3, <3>4 DEF Contiguous
  <2>3. client'.acked <= stream'.next /\ stream'.next <= client'.next
        /\ client'.next + Len(client'.queue) = captured'
    BY <1>1, <1>5, <1>8, <2>1
  <2> QED BY <1>5, <2>2, <2>3 DEF Numbers
<1>12. Commits'
  <2>1. ~(provider.commits > 0 /\ ~stream.vad.ended) \/ client.mode = "idle"
    BY <1>4 DEF Fresh, Commits, Settled
  <2>2. client.mode = "idle" => mode = "idle" OBVIOUS
  <2>3. provider'.commits > 0 /\ ~stream'.vad.ended => Settled' BY <1>1, <1>5, <2>1, <2>2 DEF Settled
  <2>4. captured \in Nat /\ captured' \in Nat BY <1>1, <1>8
  <2> QED BY <1>1, <1>5, <1>14, <2>3, <2>4, CommittedWaits DEF Commits, Shaped
<1>13. ~Begins(link'[1].toServer, "open") /\ ~Begins(link'[1].toClient, "opened")
  <2>1. link'[1].toServer = link[1].toServer /\ link'[1].toClient = Tail(link[1].toClient)
    BY <1>1, <1>2, <1>3 DEF ClientReads
  <2>2. ~Begins(link[1].toServer, "open") BY <1>1, <1>3 DEF Opening
  <2>3. link[1].toClient \in Seq(Mail) /\ link[1].toClient # <<>>
    BY <1>1, <1>2, <1>3 DEF Shaped, AreLinks, IsLink
  <2>4. ASSUME Tail(link[1].toClient) # <<>>
        PROVE  Tail(link[1].toClient)[1].type # "opened"
    <3>1. 2 \in 1..Len(link[1].toClient) /\ Tail(link[1].toClient)[1] = link[1].toClient[2]
      BY <2>3, <2>4
    <3> QED BY <3>1, SocketNumbers DEF Opening, OpenedIsFirst
  <2> QED BY <2>1, <2>2, <2>4 DEF Begins
<1> QED BY <1>1, <1>6, <1>7, <1>9, <1>10, <1>11, <1>12, <1>13, ClientStepKeeps

\* The client on its way to another socket.
Connecting(cl, c) == [cl EXCEPT !.ws = c, !.recovery = "reconnecting"]

LEMMA ConnectingEffect ==
  ASSUME NEW cl, IsClient(cl), NEW c \in Sockets, NEW k, k = Connecting(cl, c)
  PROVE  /\ SameFrames(cl, k) /\ k.mode = cl.mode /\ k.ws = c /\ k.recovery = "reconnecting"
         /\ k.stopping = cl.stopping
BY DEF IsClient, SameFrames, Connecting

LEMMA AliveEffect ==
  ASSUME NEW s, IsSock(s), NEW t, t = [s EXCEPT !.alive = TRUE]
  PROVE  /\ IsSock(t) /\ t.busy = s.busy /\ t.seq = s.seq /\ t.frame = s.frame
         /\ t.attached = s.attached /\ t.pump = s.pump
BY DEF IsSock

LEMMA ConnectKeeps ==
  ASSUME AudioInv, NEW c \in Sockets, Connect(c)
  PROVE  AudioInv'
<1> USE DEF AudioInv
<1> DEFINE m == Msg("reconnect", client.acked, 0)
<1>1. /\ UNCHANGED <<captured, overtaken, stream, provider, expiry>> /\ IsClient(client)
      /\ client.sid /\ client.recovery = "connecting" /\ link[c].state = "new"
      /\ client' = Connecting(client, c)
      /\ link' = [link EXCEPT ![c] = [state |-> "up", toClient |-> <<>>, toServer |-> <<m>>]]
      /\ sock' = [sock EXCEPT ![c].alive = TRUE]
  BY DEF Connect, Connecting, Cursor, microphone, Shaped
<1>2. /\ SameFrames(client, client') /\ client'.mode = client.mode /\ client'.ws = c
      /\ client'.recovery = "reconnecting" /\ client'.stopping = client.stopping
  BY <1>1, ConnectingEffect
<1>3. client.acked \in Nat /\ client.next \in Nat /\ stream.next \in Nat /\ captured \in Nat
  BY DEF Shaped, IsClient, IsStream
<1>4. m \in Mail /\ <<m>> \in Seq(Mail) /\ m.type = "reconnect" /\ m.seq = client.acked
  <2>1. "reconnect" \in MailTypes BY DEF MailTypes
  <2> QED BY <1>3, <2>1, MsgIsMail
<1> HIDE DEF m
<1>5. SameSocks
  <2>1. /\ DOMAIN sock' = Sockets /\ \A d \in Sockets : d # c => sock'[d] = sock[d]
        /\ sock'[c] = [sock[c] EXCEPT !.alive = TRUE] /\ IsSock(sock[c])
    BY <1>1 DEF Shaped, AreSocks
  <2>2. /\ IsSock(sock'[c]) /\ sock'[c].busy = sock[c].busy /\ sock'[c].seq = sock[c].seq
        /\ sock'[c].frame = sock[c].frame
        /\ sock'[c].attached = sock[c].attached /\ sock'[c].pump = sock[c].pump
    BY <2>1, AliveEffect
  <2>3. AreSocks(sock') BY <2>1, <2>2 DEF Shaped, AreSocks
  <2> QED BY <2>1, <2>2, <2>3 DEF SameSocks
<1>6. /\ DOMAIN link' = Sockets /\ \A d \in Sockets : d # c => link'[d] = link[d]
      /\ link'[c].state = "up" /\ link'[c].toClient = <<>> /\ link'[c].toServer = <<m>>
      /\ link'[c] = [state |-> link'[c].state, toServer |-> link'[c].toServer,
                     toClient |-> link'[c].toClient]
  BY <1>1 DEF Shaped, AreLinks
<1>7. <<>> \in Seq(Mail) OBVIOUS
<1>8. AreLinks(link') BY <1>4, <1>6, <1>7 DEF AreLinks, IsLink, Shaped
<1>9. link[c].toServer = <<>> /\ link[c].toClient = <<>> /\ sock[c].busy = "no"
  BY <1>1 DEF Lives
<1>10. LinksKeep(c, {m}, {})
  <2>1. Kept(link[c].toServer, link'[c].toServer, {m})
    <3>1. <<m>> = <<>> \o <<m>> BY <1>4
    <3> QED BY <1>4, <1>6, <1>7, <1>9, <3>1, KeptOne
  <2>2. Kept(link[c].toClient, link'[c].toClient, {}) BY <1>6, <1>7, <1>9, KeptNothing
  <2>3. \A d \in Sockets : d # c => /\ Kept(link[d].toServer, link'[d].toServer, {})
                                    /\ Kept(link[d].toClient, link'[d].toClient, {})
    <3>1. \A d \in Sockets : link[d].toServer \in Seq(Mail) /\ link[d].toClient \in Seq(Mail)
      BY DEF Shaped, AreLinks, IsLink
    <3> QED BY <1>6, <3>1, KeptAll
  <2> QED BY <2>1, <2>2, <2>3 DEF LinksKeep
<1>11. LinksFollow(c, {m}) BY <1>6, <1>8, <1>10 DEF LinksFollow
<1>12. stream.told /\ client.acked <= stream.next BY <1>1 DEF Lives, Numbers
<1>13. \A e \in {m} : ServerSound(e)' /\ e.type # "open"
  BY <1>1, <1>4, <1>12 DEF ServerSound
<1>19. Waits BY <1>1, <1>2, <1>3, FramesKept
<1>14. Goes BY <1>1, <1>2, <1>3, <1>12, <1>19 DEF Goes, SameFrames, Settled
<1>15. Unread'
  <2>1. Floor(client.ws)' = stream.next
    BY <1>1, <1>2, <1>5, <1>9 DEF Floor, SameSocks
  <2> QED BY <1>2, <1>6, <1>12, <2>1 DEF Unread, SameFrames
<1>16. Numbers' BY <1>1, <1>2 DEF Numbers, Contiguous, SameFrames, Exact
<1>17. Commits'
  <2>1. client'.stopping # "no" \/ client'.recovery = "flushing" => Settled'
    BY <1>2 DEF Commits, Settled
  <2> QED BY <1>1, <1>2, <1>3, <1>19, <2>1, CommittedWaits DEF Commits, Settled, Shaped
<1>18. NotOpening BY <1>1, NotFreshNotOpening DEF Fresh
<1> QED BY <1>1, <1>5, <1>11, <1>13, <1>14, <1>15, <1>16, <1>17, <1>18, ClientStepKeeps

-----------------------------------------------------------------------------
(* flushFrames *)

LEMMA SendableEffect ==
  ASSUME NEW cl, IsClient(cl), NEW n, cl.sid => Contiguous(cl, n)
  PROVE  /\ Sendable(cl) \in Nat /\ Sendable(cl) <= Len(cl.queue)
         /\ cl.sid => cl.next + Sendable(cl) <= cl.acked + MaxInFlight
         /\ cl.sid /\ cl.ws # NoSocket =>
              Sendable(cl) = Len(cl.queue) \/ cl.next + Sendable(cl) = cl.acked + MaxInFlight
         /\ ~cl.sid \/ cl.ws = NoSocket => Sendable(cl) = 0
<1>1. cl.acked \in Nat /\ cl.next \in Nat /\ Len(cl.queue) \in Nat /\ MaxInFlight \in Nat
  BY WindowIsNat DEF IsClient
<1>2. CASE ~cl.sid \/ cl.ws = NoSocket
  <2>1. Sendable(cl) = 0 BY <1>2 DEF Sendable
  <2> QED BY <1>1, <1>2, <2>1 DEF Contiguous
<1>3. CASE cl.sid /\ cl.ws # NoSocket
  <2> DEFINE pending == Cardinality(DOMAIN cl.inFlight)
             room == IF pending < MaxInFlight THEN MaxInFlight - pending ELSE 0
  <2>1. cl.acked <= cl.next /\ cl.next <= cl.acked + MaxInFlight
        /\ DOMAIN cl.inFlight = cl.acked..(cl.next - 1)
    BY <1>3 DEF Contiguous
  <2>2. pending = cl.next - cl.acked BY <1>1, <2>1, IntervalSize
  <2>3. Sendable(cl) = IF Len(cl.queue) < room THEN Len(cl.queue) ELSE room
    BY <1>3 DEF Sendable
  <2> DEFINE z == Len(cl.queue)
             sent == Sendable(cl)
  <2>4. room \in Nat /\ room = MaxInFlight - (cl.next - cl.acked) /\ z \in Nat /\ z = Len(cl.queue)
    <3> HIDE DEF pending
    <3> QED BY ONLY <1>1, <2>1, <2>2 DEF room, z
  <2>5. sent = IF z < room THEN z ELSE room BY <2>3
  <2> HIDE DEF pending, room, z, sent
  <2>6. sent \in Nat /\ sent <= z /\ cl.next + sent <= cl.acked + MaxInFlight
        /\ (sent = z \/ cl.next + sent = cl.acked + MaxInFlight)
    BY ONLY <1>1, <2>1, <2>4, <2>5
  <2> QED BY <1>3, <2>6 DEF sent, z
<1> QED BY <1>2, <1>3

LEMMA FlushedFields ==
  ASSUME NEW cl, IsClient(cl), Sendable(cl) \in Nat, Sendable(cl) <= Len(cl.queue)
  PROVE  LET k == Flushed(cl)
         IN  /\ IsClient(k) /\ k.sid = cl.sid /\ k.mode = cl.mode /\ k.acked = cl.acked
             /\ k.ws = cl.ws /\ k.recovery = cl.recovery /\ k.stopping = cl.stopping
             /\ k.next = cl.next + Sendable(cl)
             /\ k.queue = SubSeq(cl.queue, Sendable(cl) + 1, Len(cl.queue))
             /\ k.inFlight = [s \in DOMAIN cl.inFlight \cup Numbered(cl) |->
                                IF s \in Numbered(cl) THEN cl.queue[s - cl.next + 1]
                                ELSE cl.inFlight[s]]
<1> DEFINE n == Sendable(cl)
           q == SubSeq(cl.queue, n + 1, Len(cl.queue))
           f == [s \in DOMAIN cl.inFlight \cup Numbered(cl) |->
                   IF s \in Numbered(cl) THEN cl.queue[s - cl.next + 1] ELSE cl.inFlight[s]]
           k == Flushed(cl)
<1>1. q \in Seq(Nat) /\ n \in Nat BY DEF IsClient
<1>2. k = [cl EXCEPT !.queue = q, !.inFlight = f, !.next = cl.next + n] BY DEF Flushed
<1> HIDE DEF n, q, f, k
<1>3. k = [mode |-> cl.mode, sid |-> cl.sid, queue |-> q, inFlight |-> f,
           next |-> cl.next + n, acked |-> cl.acked, ws |-> cl.ws, recovery |-> cl.recovery,
           attempt |-> cl.attempt, stopping |-> cl.stopping]
  BY <1>2 DEF IsClient
<1>4. cl.next + n \in Nat BY <1>1 DEF IsClient
<1>5. /\ IsClient(k) /\ k.sid = cl.sid /\ k.mode = cl.mode /\ k.acked = cl.acked
      /\ k.ws = cl.ws /\ k.recovery = cl.recovery /\ k.stopping = cl.stopping
      /\ k.next = cl.next + n /\ k.queue = q /\ k.inFlight = f
  BY <1>1, <1>3, <1>4 DEF IsClient
<1> QED BY <1>5 DEF k, q, f, n

LEMMA FlushedContiguous ==
  ASSUME NEW cl, IsClient(cl), NEW n \in Nat, cl.sid, Contiguous(cl, n), NEW k, k = Flushed(cl)
  PROVE  Contiguous(k, n) /\ k.next + Len(k.queue) = cl.next + Len(cl.queue)
<1> DEFINE m == Sendable(cl)
           a == cl.acked
           x == cl.next
           z == Len(cl.queue)
<1>1. m \in Nat /\ m <= z /\ x + m <= a + MaxInFlight
  BY SendableEffect
<1>2. /\ k.acked = a /\ k.next = x + m /\ k.queue = SubSeq(cl.queue, m + 1, z)
      /\ k.inFlight = [s \in DOMAIN cl.inFlight \cup Numbered(cl) |->
                         IF s \in Numbered(cl) THEN cl.queue[s - x + 1] ELSE cl.inFlight[s]]
  BY <1>1, FlushedFields
<1>3. Numbered(cl) = x..(x + m - 1) BY DEF Numbered
<1>4. a \in Nat /\ x \in Nat /\ z \in Nat /\ cl.queue \in Seq(Nat) BY DEF IsClient
<1>5. /\ DOMAIN cl.inFlight = a..(x - 1) /\ a <= x /\ x + z <= n
      /\ \A s \in DOMAIN cl.inFlight : cl.inFlight[s] = s + 1
      /\ \A i \in 1..z : cl.queue[i] = x + i
  BY DEF Contiguous
<1> HIDE DEF m, a, x, z
<1>6. DOMAIN k.inFlight = a..(x + m - 1)
  BY <1>1, <1>2, <1>3, <1>4, <1>5
<1>7. ASSUME NEW s \in DOMAIN k.inFlight PROVE k.inFlight[s] = s + 1
  <2>0. s \in a..(x + m - 1) /\ s \in DOMAIN cl.inFlight \cup Numbered(cl)
    BY <1>2, <1>6, <1>7
  <2>1. CASE s \in Numbered(cl)
    <3>1. s - x + 1 \in 1..z BY <1>1, <1>3, <1>4, <2>1
    <3>2. k.inFlight[s] = cl.queue[s - x + 1] BY <1>2, <2>0, <2>1
    <3>3. cl.queue[s - x + 1] = x + (s - x + 1) BY <1>5, <3>1
    <3> QED BY <1>4, <2>0, <3>2, <3>3
  <2>2. CASE s \notin Numbered(cl)
    <3>1. k.inFlight[s] = cl.inFlight[s] /\ s \in DOMAIN cl.inFlight BY <1>2, <2>0, <2>2
    <3> QED BY <1>5, <3>1
  <2> QED BY <2>1, <2>2
<1>8. /\ Len(k.queue) = z - m /\ \A i \in 1..(z - m) : k.queue[i] = cl.queue[m + i]
  BY <1>1, <1>2, <1>4 DEF z
<1>9. \A i \in 1..Len(k.queue) : k.queue[i] = k.next + i
  <2> SUFFICES ASSUME NEW i \in 1..(z - m) PROVE k.queue[i] = k.next + i
    BY <1>8
  <2>1. k.queue[i] = cl.queue[m + i] /\ m + i \in 1..z BY <1>1, <1>4, <1>8
  <2>2. cl.queue[m + i] = x + (m + i) BY <1>5, <2>1
  <2> QED BY <1>1, <1>2, <1>4, <2>1, <2>2
<1>10. k.next + Len(k.queue) = x + z /\ k.acked <= k.next /\ k.next <= k.acked + MaxInFlight
  BY <1>1, <1>2, <1>4, <1>5, <1>8, WindowIsNat
<1>11. DOMAIN k.inFlight = k.acked..(k.next - 1)
  <2>1. k.acked = a /\ k.next = x + m BY <1>2
  <2> QED BY ONLY <1>1, <1>4, <1>6, <2>1
<1> QED BY <1>5, <1>7, <1>9, <1>10, <1>11 DEF Contiguous, x, z

\* The chunks that a client cl with frames up to n may send.
Sent(cl, n) == {m \in Mail : /\ m.type = "chunk" /\ m.arg = m.seq + 1 /\ m.arg <= n
                             /\ m.seq < cl.next + Sendable(cl)}

LEMMA ChunksEffect ==
  ASSUME NEW cl, IsClient(cl), NEW n \in Nat, cl.sid => Contiguous(cl, n)
  PROVE  /\ Chunks(cl) \in Seq(Mail)
         /\ \A i \in 1..Len(Chunks(cl)) : Chunks(cl)[i] \in Sent(cl, n)
<1>1. Sendable(cl) \in Nat /\ Sendable(cl) <= Len(cl.queue) /\ (~cl.sid => Sendable(cl) = 0)
  BY SendableEffect
<1>2. cl.next \in Nat /\ cl.queue \in Seq(Nat) /\ Len(cl.queue) \in Nat BY DEF IsClient
<1>3. ASSUME NEW i \in 1..Sendable(cl), NEW m, m = Msg("chunk", cl.next + i - 1, cl.queue[i])
      PROVE  m \in Mail /\ m \in Sent(cl, n)
  <2>0. cl.sid /\ i \in 1..Len(cl.queue) BY <1>1, <1>2
  <2>1. cl.queue[i] = cl.next + i /\ cl.next + Len(cl.queue) <= n BY <2>0 DEF Contiguous
  <2>2. "chunk" \in MailTypes BY DEF MailTypes
  <2> DEFINE seq == cl.next + i - 1
             arg == cl.queue[i]
  <2>3. seq \in Nat /\ arg \in Nat /\ m = Msg("chunk", seq, arg) BY <1>2, <1>3, <2>0
  <2>5. arg = seq + 1 /\ arg <= n /\ seq < cl.next + Sendable(cl) BY <1>1, <1>2, <2>0, <2>1
  <2> HIDE DEF seq, arg
  <2>4. m \in Mail /\ m.type = "chunk" /\ m.seq = seq /\ m.arg = arg BY <2>2, <2>3, MsgIsMail
  <2> QED BY <2>4, <2>5 DEF Sent
<1> DEFINE e(i) == Msg("chunk", cl.next + i - 1, cl.queue[i])
<1>4. Chunks(cl) = [i \in 1..Sendable(cl) |-> e(i)] BY DEF Chunks
<1>5. \A i \in 1..Sendable(cl) : e(i) \in Mail /\ e(i) \in Sent(cl, n) BY <1>3
<1> HIDE DEF e
<1>6. Chunks(cl) \in Seq(Mail) BY <1>1, <1>4, <1>5
<1>7. Len(Chunks(cl)) = Sendable(cl) BY <1>1, <1>4
<1> QED BY <1>4, <1>5, <1>6, <1>7

\* The client's state becomes cl, and then it sends what it can.
LEMMA FlushKeeps ==
  ASSUME AudioInv, NotOpening, UNCHANGED <<sock, stream, provider, expiry>>,
         NEW l, ClientReads(l), NEW cl, IsClient(cl),
         client' = Flushed(cl), link' = ToServer(l, cl.ws, Chunks(cl)),
         captured' \in Nat, captured <= captured', overtaken' = overtaken,
         Settled => captured' + Held(cl) <= captured + Held(client),
         Settled => cl.mode \in {"committing", "idle"},
         cl.sid = client.sid, cl.ws = client.ws,
         cl.sid => /\ Contiguous(cl, captured') /\ cl.acked <= stream.next
                   /\ client.next <= cl.next + Sendable(cl)
                   /\ Exact(cl) =>
                        cl.next + Len(cl.queue) = captured',
         ~cl.sid => DOMAIN cl.inFlight = {},
         cl.stopping # "no" \/ cl.recovery = "flushing" => cl.mode \in {"committing", "idle"},
         cl.sid /\ cl.ws # NoSocket =>
           /\ cl.acked <= Floor(cl.ws)
           /\ \A i \in 1..Len(l[cl.ws].toClient) :
                IsCursor(l[cl.ws].toClient[i]) => cl.acked <= l[cl.ws].toClient[i].seq
  PROVE  AudioInv'
<1> USE DEF AudioInv
<1> DEFINE n == Sendable(cl)
           news == Sent(cl, captured')
<1>1. n \in Nat /\ n <= Len(cl.queue) /\ (~cl.sid \/ cl.ws = NoSocket => n = 0)
  BY SendableEffect
<1>2. /\ IsClient(client') /\ client'.sid = cl.sid /\ client'.mode = cl.mode
      /\ client'.acked = cl.acked /\ client'.ws = cl.ws /\ client'.recovery = cl.recovery
      /\ client'.stopping = cl.stopping /\ client'.next = cl.next + n
      /\ DOMAIN client'.inFlight = DOMAIN cl.inFlight \cup Numbered(cl)
  <2>1. LET k == Flushed(cl)
        IN  /\ IsClient(k) /\ k.sid = cl.sid /\ k.mode = cl.mode /\ k.acked = cl.acked
            /\ k.ws = cl.ws /\ k.recovery = cl.recovery /\ k.stopping = cl.stopping
            /\ k.next = cl.next + n
            /\ k.queue = SubSeq(cl.queue, n + 1, Len(cl.queue))
            /\ k.inFlight = [s \in DOMAIN cl.inFlight \cup Numbered(cl) |->
                               IF s \in Numbered(cl) THEN cl.queue[s - cl.next + 1]
                               ELSE cl.inFlight[s]]
    BY <1>1, FlushedFields
  <2> QED BY <2>1
<1>3. cl.next \in Nat /\ client.next \in Nat /\ stream.next \in Nat /\ captured \in Nat
  BY DEF Shaped, IsClient, IsStream
<1>4. /\ Chunks(cl) \in Seq(Mail)
      /\ \A i \in 1..Len(Chunks(cl)) : Chunks(cl)[i] \in news
  BY ChunksEffect
<1>5. /\ LinksFollow(cl.ws, news)
      /\ \A d \in Sockets : link'[d].toClient = l[d].toClient
  <2> DEFINE ms == Chunks(cl)
             w == cl.ws
  <2>1. ms \in Seq(Mail) /\ (\A i \in 1..Len(ms) : ms[i] \in news) /\ link' = ToServer(l, w, ms)
    BY <1>4
  <2> HIDE DEF ms, news, w
  <2>2. LinksFollow(w, news) /\ \A d \in Sockets : link'[d].toClient = l[d].toClient
    BY <2>1, SentFollows
  <2> QED BY <2>2 DEF w
<1>6. \A m \in news : ServerSound(m)' /\ m.type # "open"
  BY <1>2 DEF Sent, ServerSound, Mail
<1>7. SameSocks BY DEF SameSocks, Shaped
<1> HIDE DEF n, news
<1>12. Waits BY <1>2 DEF Waits, Expected, Held, Late
<1>8. Goes
  <2>1. cl.sid => stream.told BY DEF Lives
  <2>2. cl.sid => client.next <= client'.next BY <1>2 DEF n
  <2> QED BY <1>2, <1>12, <2>1, <2>2 DEF Goes, Settled
<1>9. Unread'
  <2>1. cl.ws # NoSocket => cl.ws \in Sockets BY DEF IsClient
  <2>2. cl.ws # NoSocket => Floor(client.ws)' = Floor(cl.ws) BY <1>2, <2>1 DEF Floor
  <2> QED BY <1>2, <1>5, <2>1, <2>2 DEF Unread
<1>10. Numbers'
  <2>1. CASE cl.sid
    <3>1. Contiguous(client', captured') /\ client'.next + Len(client'.queue) = cl.next + Len(cl.queue)
      BY <2>1, FlushedContiguous
    <3>2. Contiguous(client, captured)' BY <3>1 DEF Contiguous
    <3>3. client'.acked <= stream'.next BY <1>2, <2>1
    <3>4. stream'.next <= client'.next
      <4>1. stream.next <= client.next BY <2>1 DEF Numbers
      <4>2. client.next <= cl.next + n BY <2>1 DEF n
      <4> QED BY <1>1, <1>2, <1>3, <4>1, <4>2
    <3>5. Exact(client)' =>
            client'.next + Len(client'.queue) = captured'
      BY <1>2, <2>1, <3>1 DEF Exact
    <3> QED BY <1>2, <2>1, <3>2, <3>3, <3>4, <3>5 DEF Numbers, Exact
  <2>2. CASE ~cl.sid
    <3>1. Numbered(cl) = {} BY <1>1, <1>3, <2>2 DEF Numbered, n
    <3> QED BY <1>2, <2>2, <3>1 DEF Numbers
  <2> QED BY <2>1, <2>2
<1>11. Commits'
  <2>1. Settled => Settled' BY <1>2 DEF Settled
  <2>2. client'.stopping # "no" \/ client'.recovery = "flushing" => Settled' BY <1>2 DEF Settled
  <2> QED BY <1>3, <1>12, <2>1, <2>2, CommittedWaits DEF Commits, Shaped
<1> QED BY <1>5, <1>6, <1>7, <1>8, <1>9, <1>10, <1>11, ClientStepKeeps

LEMMA PollKeeps ==
  ASSUME AudioInv, Poll
  PROVE  AudioInv'
<1> USE DEF AudioInv
<1>1. /\ UNCHANGED <<captured, overtaken, sock, stream, provider, expiry>> /\ IsClient(client)
      /\ client' = Flushed(client) /\ link' = ToServer(link, client.ws, Chunks(client))
      /\ client.stopping # "no" \/ client.recovery = "flushing"
  BY DEF Poll, Flush, microphone, serverVars, Shaped
<1>2. NotOpening BY <1>1, NotFreshNotOpening DEF Fresh
<1>3. ClientReads(link) BY ReadsNothing
<1>4. captured \in Nat /\ client.next \in Nat BY DEF Shaped, IsClient
<1>5. client.mode \in {"committing", "idle"} BY <1>1 DEF Commits, Settled
<1>6. client.sid => client.next <= client.next + Sendable(client)
  <2>1. client.sid => Contiguous(client, captured) BY DEF Numbers
  <2>2. Sendable(client) \in Nat BY <1>1, <1>4, <2>1, SendableEffect
  <2> DEFINE n == Sendable(client)
  <2>3. n \in Nat BY <2>2
  <2> HIDE DEF n
  <2> QED BY <1>4, <2>3 DEF n
<1>7. client.sid /\ client.ws # NoSocket =>
        /\ client.acked <= Floor(client.ws)
        /\ \A i \in 1..Len(link[client.ws].toClient) :
             IsCursor(link[client.ws].toClient[i]) => client.acked <= link[client.ws].toClient[i].seq
  BY DEF Unread
<1>8. client.sid => /\ Contiguous(client, captured') /\ client.acked <= stream.next
                    /\ Exact(client) =>
                         client.next + Len(client.queue) = captured'
  BY <1>1 DEF Numbers
<1>9. ~client.sid => DOMAIN client.inFlight = {} BY DEF Numbers
<1>10. captured' + Held(client) <= captured + Held(client) BY <1>1, <1>4, FramesHeld
<1> QED BY <1>1, <1>2, <1>3, <1>4, <1>5, <1>6, <1>7, <1>8, <1>9, <1>10, FlushKeeps

\* The client with another queue.
WithQueue(cl, q) == [cl EXCEPT !.queue = q]

LEMMA WithQueueEffect ==
  ASSUME NEW cl, IsClient(cl), NEW q \in Seq(Nat), NEW k, k = WithQueue(cl, q)
  PROVE  /\ IsClient(k) /\ k.sid = cl.sid /\ k.inFlight = cl.inFlight /\ k.mode = cl.mode
         /\ k.queue = q /\ k.next = cl.next /\ k.acked = cl.acked /\ k.ws = cl.ws
         /\ k.recovery = cl.recovery /\ k.stopping = cl.stopping
<1>1. k = [mode |-> cl.mode, sid |-> cl.sid, queue |-> q, inFlight |-> cl.inFlight,
           next |-> cl.next, acked |-> cl.acked, ws |-> cl.ws, recovery |-> cl.recovery,
           attempt |-> cl.attempt, stopping |-> cl.stopping]
  BY DEF IsClient, WithQueue
<1> QED BY <1>1 DEF IsClient

LEMMA QueuedContiguous ==
  ASSUME NEW cl, IsClient(cl), NEW n \in Nat, Contiguous(cl, n), cl.next + Len(cl.queue) = n,
         NEW k, k.inFlight = cl.inFlight, k.next = cl.next, k.acked = cl.acked,
         Len(k.queue) = Len(cl.queue) + 1, k.queue[Len(cl.queue) + 1] = n + 1,
         \A i \in 1..Len(cl.queue) : k.queue[i] = cl.queue[i]
  PROVE  Contiguous(k, n + 1) /\ k.next + Len(k.queue) = n + 1
<1> DEFINE z == Len(cl.queue)
<1>1. k.inFlight = cl.inFlight /\ k.next = cl.next /\ k.acked = cl.acked
  OBVIOUS
<1>2. cl.next \in Nat /\ cl.acked \in Nat /\ z \in Nat BY DEF IsClient
<1>3. Len(k.queue) = z + 1 /\ k.queue[z + 1] = n + 1 /\ \A i \in 1..z : k.queue[i] = cl.queue[i]
  OBVIOUS
<1>4. /\ \A i \in 1..z : cl.queue[i] = cl.next + i
      /\ cl.next + z = n
      /\ DOMAIN cl.inFlight = cl.acked..(cl.next - 1)
      /\ \A s \in DOMAIN cl.inFlight : cl.inFlight[s] = s + 1
      /\ cl.acked <= cl.next /\ cl.next <= cl.acked + MaxInFlight
  BY DEF Contiguous
<1> HIDE DEF z
<1>5. \A i \in 1..Len(k.queue) : k.queue[i] = k.next + i
  <2> SUFFICES ASSUME NEW i \in 1..(z + 1) PROVE k.queue[i] = k.next + i BY <1>1, <1>3
  <2>1. CASE i \in 1..z BY <1>1, <1>3, <1>4, <2>1
  <2>2. CASE i = z + 1
      <3>1. cl.next + z = n BY <1>4
      <3>2. k.queue[i] = n + 1 BY <1>3, <2>2
      <3> QED BY ONLY <1>1, <1>2, <2>2, <3>1, <3>2
  <2> QED BY <1>2, <2>1, <2>2
<1>6. k.next + Len(k.queue) = n + 1
  <2>1. cl.next + z = n BY <1>4
  <2> QED BY ONLY <1>1, <1>2, <1>3, <2>1
<1>7. k.next + Len(k.queue) <= n + 1 BY <1>6
<1> QED BY <1>1, <1>4, <1>5, <1>6, <1>7 DEF Contiguous

LEMMA CaptureKeeps ==
  ASSUME AudioInv, Capture
  PROVE  AudioInv'
<1> USE DEF AudioInv
<1> DEFINE q == Append(client.queue, captured + 1)
           cl == WithQueue(client, q)
<1>1. /\ UNCHANGED <<sock, stream, provider, expiry>> /\ IsClient(client)
      /\ client.mode = "active" /\ captured' = captured + 1
      /\ captured \in Nat /\ captured + 1 \in Nat /\ client.next \in Nat
      /\ overtaken' = overtaken
  BY DEF Capture, serverVars, Shaped, IsClient
<1>2. \/ client' = Flushed(cl) /\ link' = ToServer(link, cl.ws, Chunks(cl))
      \/ client' = Failed(cl) /\ UNCHANGED link
  BY DEF Capture, Flush, WithQueue
<1>3. q \in Seq(Nat) BY <1>1 DEF IsClient
<1>4. /\ Len(q) = Len(client.queue) + 1 /\ q[Len(client.queue) + 1] = captured + 1
      /\ \A i \in 1..Len(client.queue) : q[i] = client.queue[i]
  <2>1. client.queue \in Seq(Nat) BY <1>1 DEF IsClient
  <2> QED BY <1>1, <2>1
<1>5. cl = WithQueue(client, q) OBVIOUS
<1> HIDE DEF q, cl
<1>6. /\ IsClient(cl) /\ cl.sid = client.sid /\ cl.inFlight = client.inFlight /\ cl.mode = "active"
      /\ cl.queue = q /\ cl.next = client.next /\ cl.acked = client.acked /\ cl.ws = client.ws
      /\ cl.recovery = client.recovery /\ cl.stopping = client.stopping
  BY <1>1, <1>3, <1>5, WithQueueEffect
<1>12. client.sid => Contiguous(cl, captured') /\ cl.next + Len(cl.queue) = captured'
  <2> SUFFICES ASSUME client.sid
               PROVE  Contiguous(cl, captured') /\ cl.next + Len(cl.queue) = captured'
    OBVIOUS
  <2>1. Contiguous(client, captured) /\ client.next + Len(client.queue) = captured
    BY <1>1 DEF Numbers, Exact
  <2>2. Contiguous(cl, captured + 1) /\ cl.next + Len(cl.queue) = captured + 1
    BY <1>1, <1>4, <1>6, <2>1, QueuedContiguous
  <2> QED BY <1>1, <2>2
<1>7. NotOpening BY <1>1, NotFreshNotOpening DEF Fresh
<1>8. ~Settled /\ captured <= captured' /\ captured' \in Nat BY <1>1 DEF Settled
<1>10. CASE client' = Failed(cl) /\ UNCHANGED link
  <2>1. Idle(client, client') BY <1>6, <1>10, FailedEffect DEF Idle
  <2>2. LinksFollow(1, {}) BY <1>10, StaysFollows
  <2> QED BY <1>1, <1>7, <1>8, <2>1, <2>2, IdleKeeps
<1>11. CASE client' = Flushed(cl) /\ link' = ToServer(link, cl.ws, Chunks(cl))
  <2>1. ClientReads(link) BY ReadsNothing
  <2>2. cl.sid => client.next <= cl.next + Sendable(cl)
    <3>1. Sendable(cl) \in Nat BY <1>6, <1>8, <1>12, SendableEffect
    <3> DEFINE n == Sendable(cl)
    <3>2. n \in Nat BY <3>1
    <3> HIDE DEF n
    <3> QED BY <1>1, <1>6, <3>2 DEF n
  <2>3. cl.sid /\ cl.ws # NoSocket =>
          /\ cl.acked <= Floor(cl.ws)
          /\ \A i \in 1..Len(link[cl.ws].toClient) :
               IsCursor(link[cl.ws].toClient[i]) => cl.acked <= link[cl.ws].toClient[i].seq
    BY <1>6 DEF Unread
  <2>4. cl.sid => cl.acked <= stream.next BY <1>6 DEF Numbers
  <2>5. ~cl.sid => DOMAIN cl.inFlight = {} BY <1>6 DEF Numbers
  <2>6. ~(cl.stopping # "no" \/ cl.recovery = "flushing") BY <1>6, <1>8 DEF Commits
  <2> QED BY <1>1, <1>12, <1>6, <1>7, <1>8, <1>11, <2>1, <2>2, <2>3, <2>4, <2>5, <2>6, FlushKeeps
<1> QED BY <1>2, <1>10, <1>11

\* The client that has closed its capture, with another queue.
Flushing(cl) == [cl EXCEPT !.stopping = "flush"]

LEMMA FlushingEffect ==
  ASSUME NEW cl, IsClient(cl), NEW k, k = Flushing(cl)
  PROVE  /\ SameFrames(cl, k) /\ k.mode = cl.mode /\ k.ws = cl.ws
         /\ k.recovery = cl.recovery /\ k.stopping = "flush"
BY DEF IsClient, SameFrames, Flushing

LEMMA CaptureStopsKeeps ==
  ASSUME AudioInv, CaptureStops
  PROVE  AudioInv'
<1> USE DEF AudioInv
<1> DEFINE q == Append(client.queue, captured + 1)
           c == Flushing(client)
           cl == WithQueue(c, q)
<1>1. /\ UNCHANGED <<overtaken, sock, stream, provider, expiry>> /\ IsClient(client)
      /\ client.stopping = "capture"
      /\ captured \in Nat /\ captured + 1 \in Nat /\ client.next \in Nat
  BY DEF CaptureStops, serverVars, Shaped, IsClient
<1>2. \/ /\ client.sid /\ captured' = captured + 1
         /\ client' = Flushed(cl) /\ link' = ToServer(link, cl.ws, Chunks(cl))
      \/ client' = c /\ UNCHANGED <<captured, link>>
  BY DEF CaptureStops, Flush, WithQueue, Flushing
<1>3. q \in Seq(Nat) BY <1>1 DEF IsClient
<1>4. /\ Len(q) = Len(client.queue) + 1 /\ q[Len(client.queue) + 1] = captured + 1
      /\ \A i \in 1..Len(client.queue) : q[i] = client.queue[i]
  <2>1. client.queue \in Seq(Nat) BY <1>1 DEF IsClient
  <2> QED BY <1>1, <2>1
<1>5. c = Flushing(client) /\ cl = WithQueue(c, q) OBVIOUS
<1> HIDE DEF q, c, cl
<1>6. /\ SameFrames(client, c) /\ c.mode = client.mode /\ c.ws = client.ws
      /\ c.recovery = client.recovery /\ c.stopping = "flush"
  BY <1>1, <1>5, FlushingEffect
<1>7. /\ IsClient(cl) /\ cl.sid = c.sid /\ cl.inFlight = c.inFlight /\ cl.mode = c.mode
      /\ cl.queue = q /\ cl.next = c.next /\ cl.acked = c.acked /\ cl.ws = c.ws
      /\ cl.recovery = c.recovery /\ cl.stopping = c.stopping
  <2>1. IsClient(c) BY <1>6 DEF SameFrames
  <2> QED BY <1>3, <1>5, <2>1, WithQueueEffect
<1>8. /\ cl.sid = client.sid /\ cl.inFlight = client.inFlight /\ cl.mode = client.mode
      /\ cl.queue = q /\ cl.next = client.next /\ cl.acked = client.acked /\ cl.ws = client.ws
      /\ cl.stopping = "flush"
  BY <1>6, <1>7 DEF SameFrames
<1>9. NotOpening BY <1>1, NotFreshNotOpening DEF Fresh
<1>10. Settled BY <1>1 DEF Commits
<1>11. CASE client' = c /\ UNCHANGED <<captured, link>>
  <2>1. LinksFollow(1, {}) BY <1>11, StaysFollows
  <2>2. Waits BY <1>1, <1>6, <1>11 DEF Waits, Expected, Held, Late
  <2>3. Settled' BY <1>6, <1>10, <1>11 DEF Settled
  <2> QED BY <1>1, <1>6, <1>9, <1>11, <2>1, <2>2, <2>3, SameFramesKeeps DEF SameFrames
<1>12. CASE /\ client.sid /\ captured' = captured + 1
            /\ client' = Flushed(cl) /\ link' = ToServer(link, cl.ws, Chunks(cl))
  <2>1. ClientReads(link) BY ReadsNothing
  <2>2. Contiguous(cl, captured') /\ cl.next + Len(cl.queue) = captured'
    <3>1. Contiguous(client, captured) /\ client.next + Len(client.queue) = captured
      BY <1>1, <1>12 DEF Numbers, Exact
    <3>2. Contiguous(cl, captured + 1) /\ cl.next + Len(cl.queue) = captured + 1
      BY <1>1, <1>4, <1>8, <3>1, QueuedContiguous
    <3> QED BY <1>12, <3>2
  <2>3. captured' \in Nat /\ captured <= captured' BY <1>1, <1>12
  <2>4. client.next <= cl.next + Sendable(cl)
    <3>1. Sendable(cl) \in Nat BY <1>7, <2>2, <2>3, SendableEffect
    <3> DEFINE n == Sendable(cl)
    <3>2. n \in Nat BY <3>1
    <3> HIDE DEF n
    <3> QED BY <1>1, <1>8, <3>2 DEF n
  <2>5. cl.sid /\ cl.ws # NoSocket =>
          /\ cl.acked <= Floor(cl.ws)
          /\ \A i \in 1..Len(link[cl.ws].toClient) :
               IsCursor(link[cl.ws].toClient[i]) => cl.acked <= link[cl.ws].toClient[i].seq
    BY <1>8 DEF Unread
  <2>6. cl.sid => cl.acked <= stream.next BY <1>8 DEF Numbers
  <2>7. ~cl.sid => DOMAIN cl.inFlight = {} BY <1>8, <1>12
  <2>8. cl.mode \in {"committing", "idle"} BY <1>8, <1>10 DEF Settled
  <2>9. captured' + Held(cl) <= captured + Held(client) BY <1>1, <1>8, <1>12 DEF Held
  <2> QED BY <1>1, <1>7, <1>8, <1>9, <1>12, <2>1, <2>2, <2>3, <2>4, <2>5, <2>6, <2>7, <2>8, <2>9,
             FlushKeeps
<1> QED BY <1>2, <1>11, <1>12

-----------------------------------------------------------------------------
(* What the client does with the server's cursor *)

LEMMA FloorIsAccepted ==
  ASSUME AudioInv, NEW c \in Sockets
  PROVE  Floor(c) \in Nat /\ Floor(c) <= stream.next
<1>1. sock[c].seq \in Nat /\ stream.next \in Nat BY DEF AudioInv, Shaped, AreSocks, IsSock, IsStream
<1>2. Len(provider.audio) \in Nat BY DEF AudioInv, Shaped, IsProvider
<1>3. /\ Len(provider.audio) <= stream.next
      /\ sock[c].busy = "push" => sock[c].seq < Len(provider.audio)
  BY DEF AudioInv, Fed
<1> QED BY <1>1, <1>2, <1>3 DEF Floor

LEMMA TookCursor ==
  ASSUME AudioInv, NEW type \in {"ack", "reconnected"}, Arrives(type)
  PROVE  /\ Arrived.seq \in Nat /\ Arrived.seq <= Floor(client.ws) /\ Arrived.seq <= stream.next
         /\ client.sid => client.acked <= Arrived.seq
         /\ \A i \in 1..Len(Took[client.ws].toClient) :
              IsCursor(Took[client.ws].toClient[i]) => Arrived.seq <= Took[client.ws].toClient[i].seq
         /\ type = "ack" /\ Arrived.arg = 1 => stream.vad.ended
<1> USE DEF AudioInv
<1> DEFINE w == client.ws
           s == link[w].toClient
           m == Arrived
<1>1. /\ w # NoSocket /\ s # <<>> /\ m.type = type BY DEF Arrives, Arrived
<1>2. /\ w \in Sockets /\ Took[w].toClient = Tail(s) /\ m = s[1] /\ m \in Mail /\ 1 \in 1..Len(s)
  BY <1>1, TookReads
<1>3. s \in Seq(Mail) BY <1>2 DEF Shaped, AreLinks, IsLink
<1>4. IsCursor(m) BY <1>1 DEF IsCursor
<1>5. ClientSound(w, m) /\ Ordered(s) BY <1>2 DEF ClientMail
<1>6. client.sid => client.acked <= m.seq BY <1>1, <1>2, <1>4 DEF Unread
<1> HIDE DEF w, s, m
<1>7. m.seq \in Nat /\ m.seq <= Floor(w) BY <1>2, <1>4, <1>5 DEF Mail, ClientSound
<1>8. m.seq <= stream.next
  <2>1. Floor(w) \in Nat /\ Floor(w) <= stream.next BY <1>2, FloorIsAccepted
  <2>2. stream.next \in Nat BY DEF Shaped, IsStream
  <2> QED BY <1>7, <2>1, <2>2
<1>9. ASSUME NEW i \in 1..Len(Tail(s)), IsCursor(Tail(s)[i]) PROVE m.seq <= Tail(s)[i].seq
  <2>1. Tail(s)[i] = s[i + 1] /\ i + 1 \in 1..Len(s) /\ 1 < i + 1 BY <1>1, <1>3
  <2> QED BY <1>2, <1>4, <1>5, <1>9, <2>1 DEF Ordered
<1>10. type = "ack" /\ m.arg = 1 => stream.vad.ended BY <1>1, <1>5 DEF ClientSound
<1> QED BY <1>2, <1>6, <1>7, <1>8, <1>9, <1>10 DEF w, m

LEMMA AcknowledgedEffect ==
  ASSUME NEW cl, IsClient(cl), NEW v \in Nat, NEW k, k = Acknowledged(cl, v)
  PROVE  /\ IsClient(k) /\ k.sid = cl.sid /\ k.mode = cl.mode /\ k.queue = cl.queue
         /\ k.next = cl.next /\ k.acked = v /\ k.ws = cl.ws
         /\ k.recovery = cl.recovery /\ k.stopping = cl.stopping
         /\ DOMAIN k.inFlight = Unaccepted(cl, v)
         /\ \A s \in Unaccepted(cl, v) : k.inFlight[s] = cl.inFlight[s]
<1> DEFINE f == [s \in Unaccepted(cl, v) |-> cl.inFlight[s]]
<1>1. k = [cl EXCEPT !.acked = v, !.inFlight = f] BY DEF Acknowledged
<1>2. DOMAIN f = Unaccepted(cl, v) /\ \A s \in Unaccepted(cl, v) : f[s] = cl.inFlight[s]
  OBVIOUS
<1> HIDE DEF f
<1>3. k = [mode |-> cl.mode, sid |-> cl.sid, queue |-> cl.queue, inFlight |-> f,
           next |-> cl.next, acked |-> v, ws |-> cl.ws, recovery |-> cl.recovery,
           attempt |-> cl.attempt, stopping |-> cl.stopping]
  BY <1>1 DEF IsClient
<1>4. /\ IsClient(k) /\ k.sid = cl.sid /\ k.mode = cl.mode /\ k.queue = cl.queue
      /\ k.next = cl.next /\ k.acked = v /\ k.ws = cl.ws
      /\ k.recovery = cl.recovery /\ k.stopping = cl.stopping /\ k.inFlight = f
  BY <1>3 DEF IsClient
<1> QED BY <1>2, <1>4

LEMMA UnacceptedNumbers ==
  ASSUME NEW cl, IsClient(cl), NEW n, Contiguous(cl, n), NEW v \in Nat, cl.acked <= v
  PROVE  Unaccepted(cl, v) = v..(cl.next - 1)
<1>1. DOMAIN cl.inFlight = cl.acked..(cl.next - 1) BY DEF Contiguous
<1>2. cl.acked \in Nat /\ cl.next \in Nat BY DEF IsClient
<1> QED BY <1>1, <1>2 DEF Unaccepted

LEMMA AcknowledgedContiguous ==
  ASSUME NEW cl, IsClient(cl), NEW n, Contiguous(cl, n), NEW v \in Nat,
         cl.acked <= v, v <= cl.next, NEW k, k.queue = cl.queue, k.next = cl.next, k.acked = v,
         DOMAIN k.inFlight = Unaccepted(cl, v),
         \A s \in Unaccepted(cl, v) : k.inFlight[s] = cl.inFlight[s]
  PROVE  Contiguous(k, n)
<1>1. Unaccepted(cl, v) = v..(cl.next - 1) BY UnacceptedNumbers
<1>2. cl.acked \in Nat /\ cl.next \in Nat /\ MaxInFlight \in Nat BY WindowIsNat DEF IsClient
<1>3. \A s \in DOMAIN k.inFlight : k.inFlight[s] = s + 1 BY DEF Contiguous, Unaccepted
<1>4. k.next <= k.acked + MaxInFlight
  <2>1. cl.next <= cl.acked + MaxInFlight BY DEF Contiguous
  <2> QED BY <1>2, <2>1
<1> QED BY <1>1, <1>3, <1>4 DEF Contiguous

\* The client when the server has found the end of the utterance.
Ending(cl) == [cl EXCEPT !.mode = "committing", !.queue = <<>>]

LEMMA EndingEffect ==
  ASSUME NEW cl, IsClient(cl), NEW k, k = Ending(cl)
  PROVE  /\ IsClient(k) /\ k.sid = cl.sid /\ k.mode = "committing" /\ Len(k.queue) = 0
         /\ k.next = cl.next /\ k.acked = cl.acked /\ k.ws = cl.ws
         /\ k.recovery = cl.recovery /\ k.stopping = cl.stopping /\ k.inFlight = cl.inFlight
<1>1. k = [mode |-> "committing", sid |-> cl.sid, queue |-> <<>>, inFlight |-> cl.inFlight,
           next |-> cl.next, acked |-> cl.acked, ws |-> cl.ws, recovery |-> cl.recovery,
           attempt |-> cl.attempt, stopping |-> cl.stopping]
  BY DEF IsClient, Ending
<1> QED BY <1>1 DEF IsClient

LEMMA OnAckKeeps ==
  ASSUME AudioInv, OnAck
  PROVE  AudioInv'
<1> USE DEF AudioInv
<1> DEFINE v == Arrived.seq
           cl == Acknowledged(client, v)
           l == Took
<1>1. /\ UNCHANGED <<captured, overtaken, sock, stream, provider, expiry>> /\ IsClient(client)
      /\ Arrives("ack") /\ client.ws # NoSocket
      /\ captured \in Nat /\ client.next \in Nat /\ stream.next \in Nat /\ client.acked \in Nat
  BY DEF OnAck, microphone, serverVars, Shaped, IsClient, IsStream, Arrives
<1>2. \/ /\ Arrived.arg = 1 /\ client.mode = "active"
         /\ client' = Ending(cl) /\ link' = l
      \/ client' = Flushed(cl) /\ link' = ToServer(l, cl.ws, Chunks(cl))
  BY DEF OnAck, Flush, Ending
<1>3. /\ v \in Nat /\ v <= Floor(client.ws) /\ v <= stream.next
      /\ client.sid => client.acked <= v
      /\ \A i \in 1..Len(l[client.ws].toClient) :
           IsCursor(l[client.ws].toClient[i]) => v <= l[client.ws].toClient[i].seq
      /\ Arrived.arg = 1 => stream.vad.ended
  BY <1>1, TookCursor
<1>4. ClientReads(l) /\ client.ws \in Sockets BY <1>1, TookReads DEF Arrives
<1>5. NotOpening BY <1>1, ReadNotFirst
<1>6. cl = Acknowledged(client, v) OBVIOUS
<1> HIDE DEF v, cl, l
<1>7. /\ IsClient(cl) /\ cl.sid = client.sid /\ cl.mode = client.mode /\ cl.queue = client.queue
      /\ cl.next = client.next /\ cl.acked = v /\ cl.ws = client.ws
      /\ cl.recovery = client.recovery /\ cl.stopping = client.stopping
      /\ DOMAIN cl.inFlight = Unaccepted(client, v)
      /\ \A s \in Unaccepted(client, v) : cl.inFlight[s] = client.inFlight[s]
  <2>1. IsClient(client) BY <1>1
  <2>2. v \in Nat BY <1>3
  <2> QED BY ONLY <1>6, <2>1, <2>2, AcknowledgedEffect
<1>8. client.sid => /\ Contiguous(client, captured) /\ client.acked <= stream.next
                    /\ stream.next <= client.next
                    /\ Exact(client) =>
                         client.next + Len(client.queue) = captured
  BY DEF Numbers
<1>9. client.sid => Contiguous(cl, captured)
  <2> SUFFICES ASSUME client.sid PROVE Contiguous(cl, captured) OBVIOUS
  <2>1. v <= client.next BY <1>1, <1>3, <1>8
  <2> QED BY <1>1, <1>3, <1>7, <1>8, <2>1, AcknowledgedContiguous
<1>10. ~client.sid => DOMAIN cl.inFlight = {}
  BY <1>7 DEF Numbers, Unaccepted
<1>11. CASE client' = Flushed(cl) /\ link' = ToServer(l, cl.ws, Chunks(cl))
  <2>1. cl.sid => client.next <= cl.next + Sendable(cl)
    <3>1. Sendable(cl) \in Nat BY <1>1, <1>7, <1>9, SendableEffect
    <3> DEFINE n == Sendable(cl)
    <3>2. n \in Nat BY <3>1
    <3> HIDE DEF n
    <3> QED BY <1>1, <1>7, <3>2 DEF n
  <2>2. cl.sid /\ cl.ws # NoSocket =>
          /\ cl.acked <= Floor(cl.ws)
          /\ \A i \in 1..Len(l[cl.ws].toClient) :
               IsCursor(l[cl.ws].toClient[i]) => cl.acked <= l[cl.ws].toClient[i].seq
    BY <1>3, <1>7
  <2>3. captured' \in Nat /\ captured <= captured' /\ captured' = captured BY <1>1
  <2>4. cl.stopping # "no" \/ cl.recovery = "flushing" => cl.mode \in {"committing", "idle"}
    BY <1>7 DEF Commits, Settled
  <2>5. Settled => cl.mode \in {"committing", "idle"} BY <1>7 DEF Settled
  <2>6. cl.sid => /\ Contiguous(cl, captured') /\ cl.acked <= stream.next
                  /\ Exact(cl) =>
                       cl.next + Len(cl.queue) = captured'
    BY <1>3, <1>7, <1>8, <1>9, <2>3 DEF Exact
  <2>7. captured' + Held(cl) <= captured + Held(client) BY <1>1, <1>7, FramesHeld
  <2> QED BY <1>1, <1>4, <1>5, <1>7, <1>10, <1>11, <2>1, <2>2, <2>3, <2>4, <2>5, <2>6, <2>7, FlushKeeps
<1>12. CASE Arrived.arg = 1 /\ client.mode = "active" /\ client' = Ending(cl) /\ link' = l
  <2>1. /\ IsClient(client') /\ client'.sid = cl.sid /\ client'.mode = "committing"
        /\ Len(client'.queue) = 0 /\ client'.next = cl.next /\ client'.acked = cl.acked
        /\ client'.ws = cl.ws /\ client'.inFlight = cl.inFlight
        /\ client'.stopping = client.stopping
    BY <1>7, <1>12, EndingEffect
  <2>10. Waits BY <1>1, <2>1, FramesKept
  <2>11. client'.stopping = "no" BY <1>12, <2>1 DEF Commits, Settled
  <2>2. LinksFollow(1, {}) BY <1>4, <1>12, ReadFollows
  <2>3. SameSocks BY <1>1 DEF SameSocks, Shaped
  <2>4. Goes
    <3>1. client.sid => stream.told BY DEF Lives
    <3> QED BY <1>1, <1>7, <2>1, <2>10, <3>1 DEF Goes, Settled
  <2>5. Unread'
    <3>1. Floor(client.ws)' = Floor(client.ws) BY <1>1, <1>7, <2>1 DEF Floor
    <3> QED BY <1>3, <1>7, <1>12, <2>1, <3>1 DEF Unread
  <2>6. stream'.vad.ended BY <1>1, <1>3, <1>12
  <2>7. client.sid => Contiguous(client, captured)'
    <3> SUFFICES ASSUME client.sid PROVE Contiguous(client, captured)' OBVIOUS
    <3>1. 1..Len(client'.queue) = {} BY <2>1
    <3>2. client'.next + Len(client'.queue) <= captured'
      <4>1. client.next + Len(client.queue) <= captured /\ Len(client.queue) \in Nat
        BY <1>1, <1>8 DEF Contiguous, IsClient
      <4>2. client'.next + Len(client'.queue) = client.next BY <1>1, <1>7, <2>1
      <4> QED BY <1>1, <4>1, <4>2
    <3> QED BY <1>9, <2>1, <3>1, <3>2 DEF Contiguous
  <2>8. Numbers'
    <3>1. client'.mode # "active" BY <2>1
    <3>2. client.sid => client'.acked <= stream'.next /\ stream'.next <= client'.next
      BY <1>1, <1>3, <1>7, <1>8, <2>1
    <3>3. ~client.sid => DOMAIN client'.inFlight = {} BY <1>10, <2>1
    <3> QED BY <1>7, <2>1, <2>6, <2>7, <2>11, <3>1, <3>2, <3>3 DEF Numbers, Exact
  <2>9. Commits' BY <2>1, <2>6 DEF Commits, Settled
  <2> QED BY <1>1, <1>5, <2>2, <2>3, <2>4, <2>5, <2>8, <2>9, ClientStepKeeps
<1> QED BY <1>2, <1>11, <1>12

LEMMA NthOfInterval ==
  ASSUME NEW a \in Nat, NEW b \in Nat, a <= b, NEW i \in 1..(b - a)
  PROVE  Nth(i, a..(b - 1)) = a + (i - 1)
<1> DEFINE S == a..(b - 1)
           Below(s) == {r \in S : r < s}
           P(s) == Cardinality(Below(s)) = i - 1
<1>1. ASSUME NEW s \in S PROVE Cardinality(Below(s)) = s - a
  <2>1. s \in Nat /\ a <= s BY <1>1
  <2>2. Below(s) = a..(s - 1) BY <1>1, <2>1
  <2> HIDE DEF Below
  <2> QED BY <2>1, <2>2, IntervalSize
<1>2. a + (i - 1) \in S /\ (a + (i - 1)) - a = i - 1 OBVIOUS
<1>3. P(a + (i - 1)) BY <1>1, <1>2
<1>4. \A s \in S : P(s) => s = a + (i - 1) BY <1>1
<1>5. Nth(i, S) = CHOOSE s \in S : P(s) BY DEF Nth
<1> HIDE DEF P, S
<1>6. Nth(i, S) \in S /\ P(Nth(i, S)) BY <1>2, <1>3, <1>5
<1>7. Nth(i, S) = a + (i - 1) BY <1>4, <1>6
<1> QED BY <1>7 DEF S

\* The frames in flight that the server has not accepted, in the order they were captured.
LEMMA FramesInOrder ==
  ASSUME NEW cl, IsClient(cl), NEW n, Contiguous(cl, n), NEW v \in Nat,
         cl.acked <= v, v <= cl.next
  PROVE  LET q == Frames(cl, Unaccepted(cl, v))
         IN  /\ q \in Seq(Nat) /\ Len(q) = cl.next - v
             /\ \A i \in 1..(cl.next - v) : q[i] = v + i
<1> DEFINE U == Unaccepted(cl, v)
           q == Frames(cl, U)
<1>1. U = v..(cl.next - 1) BY UnacceptedNumbers
<1>2. cl.acked \in Nat /\ cl.next \in Nat /\ cl.next - v \in Nat BY DEF IsClient
<1> HIDE DEF U
<1>3. Cardinality(U) = cl.next - v BY <1>1, <1>2, IntervalSize
<1>4. q = [i \in 1..(cl.next - v) |-> cl.inFlight[Nth(i, U)]] BY <1>3 DEF Frames
<1> HIDE DEF q
<1>5. ASSUME NEW i \in 1..(cl.next - v) PROVE q[i] = v + i
  <2>1. Nth(i, U) = v + (i - 1) BY <1>1, <1>2, NthOfInterval
  <2>2. v + (i - 1) \in DOMAIN cl.inFlight BY <1>2 DEF Contiguous
  <2>3. cl.inFlight[v + (i - 1)] = (v + (i - 1)) + 1 BY <2>2 DEF Contiguous
  <2>4. q[i] = cl.inFlight[v + (i - 1)] BY <1>4, <2>1
  <2> QED BY <1>2, <2>3, <2>4
<1>6. q \in Seq(Nat) /\ Len(q) = cl.next - v
  <2> DEFINE m == cl.next - v
  <2>1. m \in Nat /\ DOMAIN q = 1..m BY <1>2, <1>4
  <2>2. \A i \in 1..m : q[i] \in Nat BY <1>5
  <2>3. q = [i \in 1..m |-> q[i]] BY <1>4, <2>1
  <2> HIDE DEF m
  <2>4. q \in [1..m -> Nat] BY ONLY <2>2, <2>3
  <2>5. q \in Seq(Nat) BY ONLY <2>1, <2>4, SeqDef
  <2>6. Len(q) = m BY ONLY <2>1, <2>5, LenProperties
  <2> QED BY <2>5, <2>6 DEF m
<1> QED BY <1>5, <1>6 DEF q, U

LEMMA NothingInFlight ==
  ASSUME NEW cl, DOMAIN cl.inFlight = {}, NEW v
  PROVE  Frames(cl, Unaccepted(cl, v)) = <<>>
<1>1. Unaccepted(cl, v) = {} BY DEF Unaccepted
<1>2. Cardinality({}) = 0 BY FS_EmptySet
<1>3. 1..Cardinality(Unaccepted(cl, v)) = {} BY <1>1, <1>2
<1> QED BY <1>3 DEF Frames

\* The client that goes on from the server's cursor, to commit what it has or to capture.
Replaying(cl, v) == [Reconciled(cl, v) EXCEPT !.recovery = "flushing"]
Resumed(cl, v) == [Reconciled(cl, v) EXCEPT !.recovery = "no", !.attempt = 0]

\* k: the client cl whose frames from v on are in its queue q.
GoesOn(cl, k, v, q) ==
  /\ IsClient(k) /\ k.sid = cl.sid /\ k.mode = cl.mode /\ k.queue = q
  /\ DOMAIN k.inFlight = {} /\ k.next = v /\ k.acked = v /\ k.ws = cl.ws
  /\ k.stopping = cl.stopping

LEMMA ReconciledEffect ==
  ASSUME NEW cl, IsClient(cl), NEW v \in Nat, NEW q \in Seq(Nat),
         q = Frames(cl, Unaccepted(cl, v)) \o cl.queue,
         NEW k, k = Replaying(cl, v) \/ k = Resumed(cl, v)
  PROVE  /\ GoesOn(cl, k, v, q)
         /\ k = Resumed(cl, v) => k.recovery # "flushing"
<1> DEFINE p == Frames(cl, Unaccepted(cl, v)) \o cl.queue
           r == Reconciled(cl, v)
<1>1. r = [cl EXCEPT !.queue = p, !.inFlight = <<>>, !.acked = v, !.next = v] BY DEF Reconciled
<1>2. p = q OBVIOUS
<1>3. k = [r EXCEPT !.recovery = "flushing"] \/ k = [r EXCEPT !.recovery = "no", !.attempt = 0]
  BY DEF Replaying, Resumed
<1>4. IsClient(cl) /\ q \in Seq(Nat) OBVIOUS
<1> HIDE DEF p, r
<1>5. r = [mode |-> cl.mode, sid |-> cl.sid, queue |-> q, inFlight |-> <<>>,
           next |-> v, acked |-> v, ws |-> cl.ws, recovery |-> cl.recovery,
           attempt |-> cl.attempt, stopping |-> cl.stopping]
  BY ONLY <1>1, <1>2, <1>4 DEF IsClient
<1>6. \/ k = [mode |-> cl.mode, sid |-> cl.sid, queue |-> q, inFlight |-> <<>>,
              next |-> v, acked |-> v, ws |-> cl.ws, recovery |-> "flushing",
              attempt |-> cl.attempt, stopping |-> cl.stopping]
      \/ k = [mode |-> cl.mode, sid |-> cl.sid, queue |-> q, inFlight |-> <<>>,
              next |-> v, acked |-> v, ws |-> cl.ws, recovery |-> "no",
              attempt |-> 0, stopping |-> cl.stopping]
  BY ONLY <1>3, <1>5
<1>7. v \in Nat OBVIOUS
<1>8. GoesOn(cl, k, v, q) BY ONLY <1>4, <1>6, <1>7 DEF GoesOn, IsClient
<1>9. k = Resumed(cl, v) => k.recovery # "flushing"
  <2>1. Resumed(cl, v) = [r EXCEPT !.recovery = "no", !.attempt = 0] BY DEF Resumed, r
  <2> QED BY ONLY <1>5, <2>1
<1> QED BY <1>8, <1>9

LEMMA GoesOnContiguous ==
  ASSUME NEW cl, IsClient(cl), NEW n, Contiguous(cl, n), NEW v \in Nat,
         v <= cl.next, NEW q, NEW k, GoesOn(cl, k, v, q),
         Len(q) = (cl.next - v) + Len(cl.queue),
         \A i \in 1..(cl.next - v) : q[i] = v + i,
         \A j \in 1..Len(cl.queue) : q[(cl.next - v) + j] = cl.queue[j]
  PROVE  Contiguous(k, n) /\ k.next + Len(k.queue) = cl.next + Len(cl.queue)
<1> DEFINE x == cl.next
           z == Len(cl.queue)
           m == x - v
<1>1. /\ k.queue = q /\ DOMAIN k.inFlight = {} /\ k.next = v /\ k.acked = v BY DEF GoesOn
<1>2. x \in Nat /\ z \in Nat /\ m \in Nat /\ v \in Nat /\ m = x - v BY DEF IsClient
<1>3. /\ Len(q) = m + z /\ \A i \in 1..m : q[i] = v + i
      /\ \A j \in 1..z : q[m + j] = cl.queue[j]
  OBVIOUS
<1>4. (\A j \in 1..z : cl.queue[j] = x + j) /\ x + z <= n BY DEF Contiguous
<1> HIDE DEF x, z, m
<1>5. ASSUME NEW i \in 1..(m + z) PROVE q[i] = v + i
  <2>1. CASE i \in 1..m BY <1>3, <2>1
  <2>2. CASE i \notin 1..m
    <3>1. i - m \in 1..z /\ i = m + (i - m) BY <1>2, <2>2
    <3>2. q[i] = cl.queue[i - m] BY <1>3, <3>1
    <3>3. cl.queue[i - m] = x + (i - m) BY <1>4, <3>1
    <3> QED BY ONLY <1>2, <1>5, <3>2, <3>3
  <2> QED BY <2>1, <2>2
<1>6. \A i \in 1..Len(k.queue) : k.queue[i] = k.next + i BY <1>1, <1>3, <1>5
<1>7. k.next + Len(k.queue) = x + z BY ONLY <1>1, <1>2, <1>3
<1>8. k.acked..(k.next - 1) = {} BY ONLY <1>1, <1>2
<1>9. k.acked <= k.next /\ k.next <= k.acked + MaxInFlight BY <1>1, <1>2, WindowIsNat
<1>10. k.next + Len(k.queue) <= n BY <1>4, <1>7
<1>11. /\ DOMAIN k.inFlight = k.acked..(k.next - 1)
       /\ \A s \in DOMAIN k.inFlight : k.inFlight[s] = s + 1
  BY <1>1, <1>8
<1>12. Contiguous(k, n) BY <1>6, <1>9, <1>10, <1>11 DEF Contiguous
<1> QED BY <1>7, <1>12 DEF x, z

LEMMA ReconciledContiguous ==
  ASSUME AudioInv, NEW v \in Nat, v <= stream.next, client.sid => client.acked <= v,
         NEW k, k = Replaying(client, v) \/ k = Resumed(client, v)
  PROVE  /\ IsClient(k) /\ k.sid = client.sid /\ k.mode = client.mode
         /\ DOMAIN k.inFlight = {} /\ k.next = v /\ k.acked = v /\ k.ws = client.ws
         /\ k.stopping = client.stopping /\ (k = Resumed(client, v) => k.recovery # "flushing")
         /\ client.sid => /\ Contiguous(k, captured)
                          /\ k.next + Len(k.queue) = client.next + Len(client.queue)
<1> USE DEF AudioInv
<1> DEFINE f == Frames(client, Unaccepted(client, v))
           q == f \o client.queue
<1>1. /\ IsClient(client) /\ client.next \in Nat /\ stream.next \in Nat /\ client.acked \in Nat
      /\ client.queue \in Seq(Nat) /\ Len(client.queue) \in Nat
  BY DEF Shaped, IsClient, IsStream
<1>2. client.sid => Contiguous(client, captured) /\ stream.next <= client.next BY DEF Numbers
<1>3. client.sid => v <= client.next BY <1>1, <1>2
<1>4. client.sid => /\ f \in Seq(Nat) /\ Len(f) = client.next - v
                    /\ \A i \in 1..(client.next - v) : f[i] = v + i
  BY <1>1, <1>2, <1>3, FramesInOrder
<1>5. ~client.sid => f = <<>> BY NothingInFlight DEF Numbers
<1>6. f \in Seq(Nat)
  <2>1. <<>> \in Seq(Nat) OBVIOUS
  <2> HIDE DEF f
  <2> QED BY <1>4, <1>5, <2>1
<1>7. q \in Seq(Nat) /\ q = f \o client.queue
  <2> HIDE DEF f
  <2> QED BY <1>1, <1>6
<1>8. GoesOn(client, k, v, q) /\ (k = Resumed(client, v) => k.recovery # "flushing")
  <2>1. q = Frames(client, Unaccepted(client, v)) \o client.queue OBVIOUS
  <2>2. (k = Replaying(client, v) \/ k = Resumed(client, v)) /\ v \in Nat OBVIOUS
  <2> HIDE DEF f, q
  <2> QED BY ONLY <1>1, <1>7, <2>1, <2>2, ReconciledEffect
<1> HIDE DEF f, q
<1>9. ASSUME client.sid
      PROVE  /\ Contiguous(k, captured)
             /\ k.next + Len(k.queue) = client.next + Len(client.queue)
  <2> DEFINE m == client.next - v
             p == client.queue
             z == Len(p)
  <2>1. m \in Nat /\ z = Len(p) /\ z \in Nat /\ p \in Seq(Nat) BY <1>1, <1>3, <1>9
  <2>2. f \in Seq(Nat) /\ Len(f) = m /\ q = f \o p /\ \A i \in 1..m : f[i] = v + i
    BY <1>4, <1>7, <1>9
  <2> HIDE DEF m, p, z
  <2>3. /\ Len(q) = m + z /\ (\A i \in 1..m : q[i] = v + i)
        /\ \A j \in 1..z : q[m + j] = p[j]
    <3>1. /\ Len(q) = Len(f) + Len(p)
          /\ \A i \in 1..(Len(f) + Len(p)) : q[i] = IF i <= Len(f) THEN f[i] ELSE p[i - Len(f)]
      BY ONLY <2>1, <2>2, ConcatProperties
    <3>2. Len(q) = m + z /\ \A i \in 1..(m + z) : q[i] = IF i <= m THEN f[i] ELSE p[i - m]
      BY ONLY <2>1, <2>2, <3>1
    <3>3. ASSUME NEW i \in 1..m PROVE q[i] = v + i
      <4>1. i \in 1..(m + z) /\ i <= m BY ONLY <2>1, <3>3
      <4> QED BY ONLY <2>2, <3>2, <3>3, <4>1
    <3>4. ASSUME NEW j \in 1..z PROVE q[m + j] = p[j]
      <4>1. m + j \in 1..(m + z) /\ ~(m + j <= m) /\ (m + j) - m = j BY ONLY <2>1, <3>4
      <4> QED BY ONLY <3>2, <4>1
    <3> QED BY ONLY <3>2, <3>3, <3>4
  <2>4. /\ Len(q) = (client.next - v) + Len(client.queue)
        /\ \A i \in 1..(client.next - v) : q[i] = v + i
        /\ \A j \in 1..Len(client.queue) : q[(client.next - v) + j] = client.queue[j]
    BY <2>3 DEF m, p, z
  <2>5. IsClient(client) /\ Contiguous(client, captured) /\ v \in Nat /\ v <= client.next
    BY <1>1, <1>2, <1>3, <1>9
  <2> QED BY ONLY <1>8, <2>4, <2>5, GoesOnContiguous
<1> QED BY <1>8, <1>9 DEF GoesOn

LEMMA OnReconnectedKeeps ==
  ASSUME AudioInv, OnReconnected
  PROVE  AudioInv'
<1> USE DEF AudioInv
<1> DEFINE v == Arrived.seq
           l == Took
           k == IF client.mode = "committing" THEN Replaying(client, v) ELSE Resumed(client, v)
<1>1. /\ UNCHANGED <<captured, overtaken, sock, stream, provider, expiry>>
      /\ Arrives("reconnected") /\ client.ws # NoSocket
      /\ captured \in Nat /\ client.next \in Nat /\ stream.next \in Nat /\ client.acked \in Nat
      /\ Len(client.queue) \in Nat
  BY DEF OnReconnected, microphone, serverVars, Shaped, IsClient, IsStream, Arrives
<1>2. client' = Flushed(k) /\ link' = ToServer(l, k.ws, Chunks(k))
  BY DEF OnReconnected, Flush, Replaying, Resumed
<1>3. (k = Replaying(client, v) /\ client.mode = "committing") \/ k = Resumed(client, v)
  OBVIOUS
<1>4. /\ v \in Nat /\ v <= Floor(client.ws) /\ v <= stream.next
      /\ client.sid => client.acked <= v
      /\ \A i \in 1..Len(l[client.ws].toClient) :
           IsCursor(l[client.ws].toClient[i]) => v <= l[client.ws].toClient[i].seq
  BY <1>1, TookCursor
<1>5. ClientReads(l) /\ client.ws \in Sockets BY <1>1, TookReads DEF Arrives
<1>6. NotOpening BY <1>1, ReadNotFirst
<1>7. client.sid => /\ Contiguous(client, captured) /\ stream.next <= client.next
                    /\ Exact(client) =>
                         client.next + Len(client.queue) = captured
  BY DEF Numbers
<1> HIDE DEF v, l, k
<1>8. /\ IsClient(k) /\ k.sid = client.sid /\ k.mode = client.mode
      /\ DOMAIN k.inFlight = {} /\ k.next = v /\ k.acked = v /\ k.ws = client.ws
      /\ k.stopping = client.stopping /\ (k = Resumed(client, v) => k.recovery # "flushing")
      /\ client.sid => /\ Contiguous(k, captured)
                       /\ k.next + Len(k.queue) = client.next + Len(client.queue)
  BY <1>3, <1>4, ReconciledContiguous
<1>9. k.recovery = "flushing" => client.mode = "committing" BY ONLY <1>3, <1>8
<1>10. k.sid => client.next <= k.next + Sendable(k)
  <2> SUFFICES ASSUME client.sid PROVE client.next <= k.next + Sendable(k) BY <1>8
  <2> DEFINE n == Sendable(k)
  <2>1. n \in Nat /\ (n = Len(k.queue) \/ k.next + n = k.acked + MaxInFlight)
    BY <1>1, <1>8, SendableEffect
  <2>2. client.next <= client.acked + MaxInFlight BY <1>7 DEF Contiguous
  <2>3. MaxInFlight \in Nat BY WindowIsNat
  <2> HIDE DEF n
  <2> SUFFICES client.next <= k.next + n BY DEF n
  <2>4. CASE n = Len(k.queue)
    <3>1. k.next + Len(k.queue) = client.next + Len(client.queue) BY <1>8
    <3>2. client.next \in Nat /\ Len(client.queue) \in Nat BY <1>1
    <3> QED BY ONLY <2>4, <3>1, <3>2
  <2>5. CASE k.next + n = k.acked + MaxInFlight
    <3>1. client.acked <= v /\ v \in Nat BY <1>4
    <3>2. client.next \in Nat /\ client.acked \in Nat BY <1>1
    <3>3. k.acked = v BY <1>8
    <3> QED BY ONLY <2>2, <2>3, <2>5, <3>1, <3>2, <3>3
  <2> QED BY <2>1, <2>4, <2>5 DEF n
<1>11. captured' \in Nat /\ captured <= captured' /\ captured' = captured BY <1>1
<1>12. k.stopping # "no" \/ k.recovery = "flushing" => k.mode \in {"committing", "idle"}
  BY <1>8, <1>9 DEF Commits, Settled
<1>13. Settled => k.mode \in {"committing", "idle"} BY <1>8 DEF Settled
<1>14. k.sid => /\ Contiguous(k, captured') /\ k.acked <= stream.next
                /\ Exact(k) => k.next + Len(k.queue) = captured'
  BY <1>4, <1>7, <1>8, <1>11 DEF Exact
<1>16. captured' + Held(k) <= captured + Held(client) BY <1>1, <1>8, FramesHeld
<1>15. k.sid /\ k.ws # NoSocket =>
         /\ k.acked <= Floor(k.ws)
         /\ \A i \in 1..Len(l[k.ws].toClient) :
              IsCursor(l[k.ws].toClient[i]) => k.acked <= l[k.ws].toClient[i].seq
  BY <1>4, <1>8
<1> QED BY <1>1, <1>2, <1>5, <1>6, <1>8, <1>10, <1>11, <1>12, <1>13, <1>14, <1>15, <1>16, FlushKeeps

-----------------------------------------------------------------------------
(* The inductive invariant *)

LEMMA InitHolds ==
  ASSUME Init
  PROVE  AudioInv
<1> DEFINE open == Msg("open", 0, 0)
<1>1. /\ captured = 0
      /\ client = [mode |-> "opening", sid |-> FALSE, queue |-> <<>>, inFlight |-> <<>>,
                   next |-> 0, acked |-> 0, ws |-> 1, recovery |-> "no", attempt |-> 0,
                   stopping |-> "no"]
      /\ link = [c \in Sockets |->
                   [state |-> IF c = 1 THEN "up" ELSE "new",
                    toServer |-> IF c = 1 THEN <<open>> ELSE <<>>, toClient |-> <<>>]]
      /\ sock = [c \in Sockets |-> [alive |-> c = 1, attached |-> FALSE, busy |-> "no",
                                    frame |-> 0, seq |-> 0, pump |-> FALSE]]
      /\ stream = [opened |-> FALSE, told |-> FALSE, closed |-> FALSE, record |-> FALSE,
                   next |-> 0, committed |-> FALSE, vad |-> NewVad, queue |-> <<>>,
                   pump |-> "none", holding |-> <<>>]
      /\ provider = [up |-> FALSE, audio |-> <<>>, commits |-> 0]
      /\ expiry = [entry |-> NoSocket, tasks |-> [t \in Sockets |-> "none"]]
  BY DEF Init
<1>2. open \in Mail /\ <<open>> \in Seq(Mail) /\ open.type = "open"
  <2>1. "open" \in MailTypes BY DEF MailTypes
  <2> QED BY <2>1, MsgIsMail
<1>3. <<>> \in Seq(Mail) /\ <<>> \in Seq(Nat) /\ 1 \in Sockets BY SocketNumbers
<1> HIDE DEF open
<1>4. /\ DOMAIN link = Sockets
      /\ \A c \in Sockets :
           /\ link[c].toClient = <<>>
           /\ link[c].state = IF c = 1 THEN "up" ELSE "new"
           /\ link[c].toServer = IF c = 1 THEN <<open>> ELSE <<>>
           /\ link[c] = [state |-> link[c].state, toServer |-> link[c].toServer,
                         toClient |-> link[c].toClient]
  BY <1>1
<1>5. AreLinks(link) BY <1>2, <1>3, <1>4 DEF AreLinks, IsLink
<1>6. /\ AreSocks(sock)
      /\ \A c \in Sockets : ~sock[c].attached /\ sock[c].busy = "no" /\ ~sock[c].pump
  BY <1>1 DEF AreSocks, IsSock
<1>7. IsClient(client) BY <1>1, <1>3 DEF IsClient
<1>8. IsStream(stream) BY <1>1 DEF IsStream
<1>9. IsProvider(provider) BY <1>1, <1>3 DEF IsProvider
<1>10. IsExpiry(expiry) BY <1>1 DEF IsExpiry
<1>11. Shaped BY <1>1, <1>5, <1>6, <1>7, <1>8, <1>9, <1>10 DEF Shaped
<1>12. \A c \in Sockets : \A i \in 1..Len(link[c].toServer) :
         c = 1 /\ i = 1 /\ link[c].toServer[i] = open
  <2>1. \A i \in 1..Len(<<open>>) : i = 1 /\ <<open>>[i] = open OBVIOUS
  <2>2. 1..Len(<<>>) = {} OBVIOUS
  <2> QED BY <1>4, <2>1, <2>2
<1>13. \A c \in Sockets : 1..Len(link[c].toClient) = {}
  <2>1. 1..Len(<<>>) = {} OBVIOUS
  <2> QED BY <1>4, <2>1
<1>14. Opening
  <2>1. Fresh BY <1>1 DEF Fresh
  <2>2. OpenIsFirst /\ OpenedIsFirst BY <1>12, <1>13 DEF OpenIsFirst, OpenedIsFirst
  <2>3. link[1].toClient = <<>> /\ sock[1].busy = "no" /\ ~sock[1].pump BY <1>3, <1>4, <1>6
  <2>4. ~stream.told BY <1>1
  <2> QED BY <2>1, <2>2, <2>3, <2>4 DEF Opening, Begins
<1>15. Lives
  <2>1. ~stream.told /\ ~stream.closed /\ ~client.sid BY <1>1
  <2>2. \A c \in Sockets : expiry.tasks[c] = "none" BY <1>1
  <2>3. \A c \in Sockets : link[c].state = "new" => link[c].toServer = <<>>
    BY <1>4
  <2> QED BY <1>4, <1>6, <2>1, <2>2, <2>3 DEF Lives
<1>16. ServerMail BY <1>2, <1>12 DEF ServerMail, ServerSound
<1>17. ClientMail BY <1>13 DEF ClientMail, Ordered
<1>18. Unread BY <1>1 DEF Unread
<1>19. Fed
  <2>1. Len(provider.audio) = 0 /\ 1..Len(provider.audio) = {} BY <1>1
  <2> QED BY <1>1, <1>6, <2>1 DEF Fed
<1>20. Numbers BY <1>1 DEF Numbers
<1>21. Commits BY <1>1 DEF Commits
<1> QED BY <1>11, <1>14, <1>15, <1>16, <1>17, <1>18, <1>19, <1>20, <1>21 DEF AudioInv

LEMMA StutterKeeps ==
  ASSUME AudioInv, UNCHANGED vars
  PROVE  AudioInv'
<1> UNCHANGED <<captured, overtaken, client, link, sock, stream, provider, expiry>> BY DEF vars
<1>1. (Shaped /\ Opening)'
  BY DEF AudioInv, Shaped, AreLinks, AreSocks, Opening, OpenIsFirst, OpenedIsFirst, Fresh
<1>2. (Lives /\ Fed /\ Unread)' BY DEF AudioInv, Lives, Fed, Unread, Floor
<1>3. ServerMail' BY DEF AudioInv, ServerMail, ServerSound, Settled, Expected, Late
<1>4. ClientMail' BY DEF AudioInv, ClientMail, ClientSound, Floor
<1>5. Numbers' BY DEF AudioInv, Numbers, Exact
<1>6. Commits' BY DEF AudioInv, Commits, Settled, Expected, Late
<1> QED BY <1>1, <1>2, <1>3, <1>4, <1>5, <1>6 DEF AudioInv

LEMMA ClientStepsKeep ==
  ASSUME AudioInv, ClientSteps
  PROVE  AudioInv'
<1>1. CASE Capture BY <1>1, CaptureKeeps
<1>2. CASE Stop BY <1>2, StopKeeps
<1>3. CASE StopCommits BY <1>3, StopCommitsKeeps
<1>4. CASE RecoveryCommits BY <1>4, RecoveryCommitsKeeps
<1>5. CASE Poll BY <1>5, PollKeeps
<1>6. CASE UserCancel BY <1>6, UserCancelKeeps
<1>7. CASE StopTimesOut BY <1>7, StopTimesOutKeeps
<1>8. CASE OpenTimesOut BY <1>8, OpenTimesOutKeeps
<1>9. CASE ConnectFails \/ ReconnectTimesOut \/ FlushTimesOut
  BY <1>9, RetryOrGiveUpKeeps DEF ConnectFails, ReconnectTimesOut, FlushTimesOut
<1>10. CASE NoticeCut BY <1>10, NoticeCutKeeps
<1>11. CASE ClientReceives
  BY <1>11, OnOpenedKeeps, OnAckKeeps, OnReconnectedKeeps, OnFinalKeeps, OnClosedKeeps, OnErrorKeeps
     DEF ClientReceives
<1>12. CASE \E c \in Sockets : Connect(c) BY <1>12, ConnectKeeps
<1>13. CASE CaptureStops BY <1>13, CaptureStopsKeeps
<1> QED BY <1>1, <1>2, <1>3, <1>4, <1>5, <1>6, <1>7, <1>8, <1>9, <1>10, <1>11, <1>12, <1>13
        DEF ClientSteps

LEMMA SocketStepsKeep ==
  ASSUME AudioInv, NEW c \in Sockets, SocketSteps(c) \/ Cut(c) \/ Expire(c) \/ ExpiryEnds(c)
  PROVE  AudioInv'
<1>1. CASE Open(c) BY <1>1, OpenKeeps
<1>2. CASE Reconnect(c) BY <1>2, ReconnectKeeps
<1>3. CASE ChunkRefused(c) BY <1>3, ChunkRefusedKeeps
<1>4. CASE ChunkAccepted(c) BY <1>4, ChunkAcceptedKeeps
<1>5. CASE PushDone(c) BY <1>5, PushDoneKeeps
<1>6. CASE Commit(c) BY <1>6, CommitKeeps
<1>7. CASE Endpoint(c) BY <1>7, EndpointKeeps
<1>8. CASE CommitDone(c) BY <1>8, CommitDoneKeeps
<1>9. CASE Close(c) BY <1>9, CloseKeeps
<1>10. CASE CloseDone(c) BY <1>10, CloseDoneKeeps
<1>11. CASE Disconnect(c) BY <1>11, DisconnectKeeps
<1>12. CASE SendEvent(c) BY <1>12, SendEventKeeps
<1>13. CASE Cut(c) BY <1>13, CutKeeps
<1>14. CASE Expire(c) BY <1>14, ExpireKeeps
<1>15. CASE ExpiryEnds(c) BY <1>15, ExpiryEndsKeeps
<1> QED BY <1>1, <1>2, <1>3, <1>4, <1>5, <1>6, <1>7, <1>8, <1>9, <1>10, <1>11, <1>12, <1>13,
           <1>14, <1>15 DEF SocketSteps

LEMMA NextKeeps ==
  ASSUME AudioInv, [Next]_vars
  PROVE  AudioInv'
<1>1. CASE ClientSteps BY <1>1, ClientStepsKeep
<1>2. CASE \E c \in Sockets : SocketSteps(c) \/ Cut(c) \/ Expire(c) \/ ExpiryEnds(c)
  BY <1>2, SocketStepsKeep
<1>3. CASE RecognizeFinal BY <1>3, RecognizeFinalKeeps
<1>4. CASE Answer BY <1>4, AnswerKeeps
<1>5. CASE ProviderDrops BY <1>5, ProviderDropsKeeps
<1>6. CASE PumpEnds BY <1>6, PumpEndsKeeps
<1>7. CASE PumpPuts BY <1>7, PumpPutsKeeps
<1>8. CASE UNCHANGED vars BY <1>8, StutterKeeps
<1> QED BY <1>1, <1>2, <1>3, <1>4, <1>5, <1>6, <1>7, <1>8 DEF Next

LEMMA AudioInvHolds == Spec => []AudioInv
<1>1. Init => AudioInv BY InitHolds
<1>2. AudioInv /\ [Next]_vars => AudioInv' BY NextKeeps
<1> QED BY <1>1, <1>2, PTL DEF Spec

-----------------------------------------------------------------------------
(* What the stream promises *)

\* For any network, any number of sockets and any window: a reconnect never asks to go on
\* from beyond what the server has accepted (AudioStreamManager.reconnect would refuse it).
THEOREM CursorsAreBehind == Spec => []CursorNeverAhead
<1>1. AudioInv => CursorNeverAhead
  BY DEF AudioInv, ServerMail, ServerSound, CursorNeverAhead, Shaped, AreLinks, IsLink
<1> QED BY <1>1, AudioInvHolds, PTL

\* For any network: when the candidate's stop has become a commit at the provider, every
\* captured frame is there (flushAndCommit drains its frames before it commits), unless
\* a recovery has committed while stop waited for its capture: then one frame, the last,
\* can be missing, and no other.
THEOREM CommitsAreComplete == Spec => []CommitIsComplete
<1>1. AudioInv => CommitIsComplete
  <2> SUFFICES ASSUME AudioInv, provider.commits > 0, ~stream.vad.ended
               PROVE  \/ Len(provider.audio) = captured
                      \/ overtaken /\ Len(provider.audio) = captured - 1
    BY DEF CommitIsComplete
  <2> DEFINE n == Len(provider.audio)
  <2>1. captured \in Nat /\ stream.next \in Nat /\ n \in Nat
    BY DEF AudioInv, Shaped, IsStream, IsProvider
  <2>2. n <= stream.next /\ stream.next <= captured BY DEF AudioInv, Fed
  <2>3. Expected <= n + Late BY DEF AudioInv, Commits
  <2>4. Expected \in Nat /\ captured <= Expected BY <2>1, FramesAwaited
  <2> HIDE DEF n
  <2>5. CASE overtaken
    <3>1. Late = 1 BY <2>5 DEF Late
    <3>2. n = captured \/ n = captured - 1 BY <2>1, <2>2, <2>3, <2>4, <3>1
    <3> QED BY <2>5, <3>2 DEF n
  <2>6. CASE ~overtaken
    <3>1. Late = 0 BY <2>6 DEF Late
    <3>2. n = captured BY <2>1, <2>2, <2>3, <2>4, <3>1
    <3> QED BY <3>2 DEF n
  <2> QED BY <2>5, <2>6
<1> QED BY <1>1, AudioInvHolds, PTL

\* What a step leaves of the frames captured, of those the provider has, and of the commit.
SameAudio == UNCHANGED <<captured, provider.audio, stream.committed>>

LEMMA SameStreamSameAudio ==
  ASSUME UNCHANGED <<captured, stream, provider>>
  PROVE  SameAudio
BY DEF SameAudio

LEMMA ClientDelivers ==
  ASSUME ClientSteps
  PROVE  Delivery!Capture \/ SameAudio
<1>1. CASE Capture BY <1>1 DEF Capture, serverVars, Delivery!Capture
<1>3. CASE CaptureStops
  <2>1. captured' = captured + 1 \/ UNCHANGED captured BY <1>3 DEF CaptureStops
  <2>2. UNCHANGED <<stream, provider>> BY <1>3 DEF CaptureStops, serverVars
  <2> QED BY <2>1, <2>2 DEF SameAudio, Delivery!Capture
<1>2. CASE ~Capture /\ ~CaptureStops
  <2>1. UNCHANGED <<captured, stream, provider>>
    BY <1>2 DEF ClientSteps, Stop, StopCommits, RecoveryCommits, Poll, UserCancel, StopTimesOut,
       CancelCapture, OpenTimesOut, ConnectFails, ReconnectTimesOut, FlushTimesOut, RetryOrGiveUp,
       NoticeCut, ClientReceives, OnOpened, OnAck, OnReconnected, OnFinal, OnClosed, OnError,
       Connect, microphone, serverVars
  <2> QED BY <2>1, SameStreamSameAudio
<1> QED BY <1>1, <1>2, <1>3

LEMMA UpSameAudio ==
  ASSUME AudioInv, NEW up, provider' = [provider EXCEPT !.up = up],
         stream'.committed = stream.committed, UNCHANGED captured
  PROVE  SameAudio
<1>1. IsProvider(provider) BY DEF AudioInv, Shaped
<1>2. provider'.audio = provider.audio BY ONLY <1>1, provider' = [provider EXCEPT !.up = up], ProviderLeft
<1> QED BY <1>2 DEF SameAudio

LEMMA OpenDelivers ==
  ASSUME AudioInv, NEW c \in Sockets, Open(c)
  PROVE  SameAudio
<1>1. UNCHANGED captured BY DEF Open, microphone
<1>2. IsStream(stream) /\ IsProvider(provider) BY DEF AudioInv, Shaped
<1> DEFINE registered == [stream EXCEPT !.opened = TRUE]
           bridged == [registered EXCEPT !.record = TRUE, !.pump = "running"]
<1>3. \/ /\ \/ stream' = [bridged EXCEPT !.told = TRUE]
            \/ stream' = registered \/ stream' = bridged
         /\ provider' = [provider EXCEPT !.up = TRUE]
      \/ UNCHANGED <<stream, provider>>
  BY DEF Open
<1>4. SameStream(stream, registered) BY <1>2, RegisteredEffect
<1>5. registered = registered /\ bridged = [registered EXCEPT !.record = TRUE, !.pump = "running"]
  OBVIOUS
<1> HIDE DEF registered, bridged
<1>6. SameStream(registered, bridged) BY <1>4, <1>5, BridgedEffect DEF SameStream
<1>7. stream'.committed = stream.committed
  <2>1. CASE stream' = [bridged EXCEPT !.told = TRUE]
    BY <1>4, <1>6, <2>1, ToldEffect DEF SameStream
  <2>2. CASE stream' = registered \/ stream' = bridged BY <1>4, <1>6, <2>2 DEF SameStream
  <2>3. CASE UNCHANGED stream BY <2>3
  <2> QED BY <1>3, <2>1, <2>2, <2>3
<1>8. CASE provider' = [provider EXCEPT !.up = TRUE]
  <2> DEFINE up == TRUE
  <2>1. provider' = [provider EXCEPT !.up = up] BY <1>8
  <2> HIDE DEF up
  <2> QED BY <1>1, <1>7, <2>1, UpSameAudio
<1>9. CASE UNCHANGED <<stream, provider>> BY <1>1, <1>9, SameStreamSameAudio
<1> QED BY <1>3, <1>8, <1>9

LEMMA ChunkDelivers ==
  ASSUME AudioInv, NEW c \in Sockets, ChunkAccepted(c)
  PROVE  Delivery!Deliver \/ SameAudio
<1>1. UNCHANGED captured BY DEF ChunkAccepted, microphone
<1>2. IsStream(stream) /\ IsProvider(provider) /\ stream.next \in Nat BY DEF AudioInv, Shaped, IsStream
<1>3. stream' = [stream EXCEPT !.next = stream.next + 1] BY DEF ChunkAccepted
<1>4. stream'.committed = stream.committed BY <1>2, <1>3, NextEffect
<1>5. CASE UNCHANGED provider BY <1>1, <1>4, <1>5 DEF SameAudio
<1>6. CASE /\ ~stream.committed /\ provider.up
           /\ provider' = [provider EXCEPT !.audio = Append(@, Request(c).arg)]
  <2>1. Request(c).arg = stream.next + 1 /\ stream.next + 1 <= captured
    BY ChunkIsNext DEF ChunkAccepted
  <2>2. Len(provider.audio) = stream.next BY <1>6 DEF AudioInv, Fed
  <2> DEFINE heard == Append(provider.audio, Len(provider.audio) + 1)
  <2>3. provider' = [provider EXCEPT !.audio = heard] BY <1>6, <2>1, <2>2
  <2> HIDE DEF heard
  <2>4. provider'.audio = heard BY <1>2, <2>3 DEF IsProvider
  <2>5. Len(provider.audio) < captured
    BY <1>2, <2>1, <2>2 DEF AudioInv, Shaped
  <2> QED BY <1>1, <1>4, <1>6, <2>4, <2>5 DEF Delivery!Deliver, heard
<1> QED BY <1>5, <1>6 DEF ChunkAccepted

LEMMA BeginCommitDelivers ==
  ASSUME AudioInv, NEW c, NEW l, BeginCommit(c, l), UNCHANGED <<captured, stream>>
  PROVE  SameAudio
<1>1. CASE UNCHANGED provider BY <1>1, SameStreamSameAudio
<1>2. CASE provider' = [provider EXCEPT !.commits = @ + 1]
  <2>1. provider'.audio = provider.audio BY <1>2 DEF AudioInv, Shaped, IsProvider
  <2> QED BY <2>1 DEF SameAudio
<1> QED BY <1>1, <1>2 DEF BeginCommit

LEMMA CommitDelivers ==
  ASSUME AudioInv, NEW c \in Sockets, CommitDone(c)
  PROVE  Delivery!End \/ SameAudio
<1>1. UNCHANGED <<captured, provider>> /\ IsStream(stream) BY DEF CommitDone, microphone, AudioInv, Shaped
<1>2. CASE stream' = [stream EXCEPT !.committed = TRUE]
  <2>1. stream'.committed = TRUE BY <1>1, <1>2 DEF IsStream
  <2> QED BY <1>1, <2>1 DEF Delivery!End
<1>3. CASE UNCHANGED stream BY <1>1, <1>3, SameStreamSameAudio
<1> QED BY <1>2, <1>3 DEF CommitDone

LEMMA CloseDelivers ==
  ASSUME AudioInv, stream.told, CloseBridge \/ CloseBridgeFails, UNCHANGED captured
  PROVE  SameAudio
BY CloseBridgeEffect DEF SameAudio

LEMMA SocketDelivers ==
  ASSUME AudioInv, NEW c \in Sockets, SocketSteps(c) \/ Cut(c) \/ Expire(c) \/ ExpiryEnds(c)
  PROVE  Delivery!Next \/ SameAudio
<1>1. CASE Open(c) BY <1>1, OpenDelivers
<1>2. CASE ChunkAccepted(c) BY <1>2, ChunkDelivers DEF Delivery!Next
<1>3. CASE Commit(c) \/ Endpoint(c)
  <2>1. UNCHANGED <<captured, stream>> BY <1>3 DEF Commit, Endpoint, microphone
  <2>2. (\E l : BeginCommit(c, l)) \/ UNCHANGED provider BY <1>3 DEF Commit, Endpoint
  <2> QED BY <2>1, <2>2, BeginCommitDelivers, SameStreamSameAudio
<1>4. CASE CommitDone(c) BY <1>4, CommitDelivers DEF Delivery!Next
<1>5. CASE Close(c) \/ Expire(c)
  <2>1. UNCHANGED captured BY <1>5 DEF Close, Expire, microphone
  <2>2. CASE /\ CloseBridge \/ CloseBridgeFails
             /\ sock[c].attached \/ expiry.tasks[c] = "sleeping"
    <3>1. stream.told BY <2>2 DEF AudioInv, Lives
    <3> QED BY <2>1, <2>2, <3>1, CloseDelivers
  <2>3. CASE UNCHANGED <<stream, provider>> BY <2>1, <2>3, SameStreamSameAudio
  <2> QED BY <1>5, <2>2, <2>3 DEF Close, Expire
<1>6. CASE PushDone(c)
  <2>1. UNCHANGED <<captured, provider>> /\ IsStream(stream)
    BY <1>6 DEF PushDone, microphone, AudioInv, Shaped
  <2>2. PICK v : stream' = [stream EXCEPT !.vad = v] \/ UNCHANGED stream
    BY <1>6 DEF PushDone
  <2>3. stream'.committed = stream.committed BY <2>1, <2>2, VadEffect
  <2> QED BY <2>1, <2>3 DEF SameAudio
<1>7. CASE SendEvent(c)
  <2>1. UNCHANGED <<captured, provider>> /\ IsStream(stream)
    BY <1>7 DEF SendEvent, microphone, AudioInv, Shaped
  <2>2. stream' = [stream EXCEPT !.queue = Tail(@)] BY <1>7 DEF SendEvent
  <2>3. stream'.committed = stream.committed BY <2>1, <2>2 DEF IsStream
  <2> QED BY <2>1, <2>3 DEF SameAudio
<1>8. CASE \/ Reconnect(c) \/ ChunkRefused(c) \/ CloseDone(c) \/ Disconnect(c) \/ Cut(c)
           \/ ExpiryEnds(c)
  <2>1. UNCHANGED <<captured, stream, provider>>
    BY <1>8 DEF Reconnect, ChunkRefused, CloseDone, Disconnect, Cut, ExpiryEnds, microphone, serverVars
  <2> QED BY <2>1, SameStreamSameAudio
<1> QED BY <1>1, <1>2, <1>3, <1>4, <1>5, <1>6, <1>7, <1>8 DEF SocketSteps

LEMMA StreamDelivers ==
  ASSUME AudioInv, [Next]_vars
  PROVE  Delivery!Next \/ SameAudio
<1>1. CASE ClientSteps BY <1>1, ClientDelivers DEF Delivery!Next
<1>2. CASE \E c \in Sockets : SocketSteps(c) \/ Cut(c) \/ Expire(c) \/ ExpiryEnds(c)
  BY <1>2, SocketDelivers
<1>3. CASE ProviderDrops
  BY <1>3 DEF ProviderDrops, microphone, AudioInv, Shaped, IsProvider, SameAudio
<1>4. CASE RecognizeFinal \/ Answer \/ PumpEnds \/ PumpPuts
  <2>1. UNCHANGED <<captured, provider>> /\ IsStream(stream)
    BY <1>4 DEF RecognizeFinal, Answer, PumpEnds, PumpPuts, microphone, AudioInv, Shaped
  <2>2. stream'.committed = stream.committed
    BY <1>4, <2>1 DEF RecognizeFinal, Answer, PumpEnds, PumpPuts, IsStream
  <2> QED BY <2>1, <2>2 DEF SameAudio
<1>5. CASE UNCHANGED vars BY <1>5, SameStreamSameAudio DEF vars
<1> QED BY <1>1, <1>2, <1>3, <1>4, <1>5 DEF Next

\* For any network, number of sockets, window and buffer: the transport is one that hands
\* the provider the captured frames once each and in order, and none after the commit
\* (accept_chunk against reconcileAfterReconnect).
THEOREM StreamIsOrdered == Spec => DeliversInOrder
<1>1. Init => Delivery!Init BY DEF Init, Delivery!Init
<1>2. AudioInv /\ [Next]_vars => [Delivery!Next]_<<captured, provider.audio, stream.committed>>
  BY StreamDelivers DEF SameAudio
<1> QED BY <1>1, <1>2, AudioInvHolds, PTL DEF Spec, DeliversInOrder, Delivery!Spec

-----------------------------------------------------------------------------
(* A stream that nobody is attached to expires *)

\* The stream can still be used.
Usable == stream.told /\ ~stream.closed /\ provider.up
Sleeps == \E t \in Sockets : expiry.tasks[t] = "sleeping"

LEMMA ExpiringMeans ==
  DetachedIsExpiring <=> (Usable /\ (\A d \in Sockets : ~sock[d].attached) => Sleeps)
<1>1. Attached = {} <=> \A d \in Sockets : ~sock[d].attached BY DEF Attached
<1> QED BY <1>1 DEF DetachedIsExpiring, Usable, Sleeps

LEMMA UsedIsExpiring ==
  ASSUME ~Usable' \/ \E d \in Sockets : sock'[d].attached
  PROVE  DetachedIsExpiring'
<1>1. Attached' = {} => \A d \in Sockets : ~sock'[d].attached BY DEF Attached
<1> QED BY <1>1 DEF DetachedIsExpiring, Usable

\* Nobody leaves the stream, and no timer is stopped.
LEMMA StaysExpiring ==
  ASSUME DetachedIsExpiring, Usable' => Usable,
         \A d \in Sockets : sock[d].attached => sock'[d].attached,
         \A t \in Sockets : expiry.tasks[t] = "sleeping" => expiry'.tasks[t] = "sleeping"
  PROVE  DetachedIsExpiring'
<1>1. Attached' = {} => \A d \in Sockets : ~sock'[d].attached BY DEF Attached
<1>2. Usable /\ (\A d \in Sockets : ~sock[d].attached) => Sleeps BY ExpiringMeans
<1> QED BY <1>1, <1>2 DEF DetachedIsExpiring, Usable, Sleeps

\* A socket that ends as it should leaves a timer.
LEMMA AbandonedExpires ==
  ASSUME AudioInv, DetachedIsExpiring, Usable' => Usable, NEW c \in Sockets,
         \A d \in Sockets : d # c => sock'[d] = sock[d], expiry' = Abandoned(c)
  PROVE  DetachedIsExpiring'
<1>1. IsExpiry(expiry) BY DEF AudioInv, Shaped
<1>2. CASE sock[c].attached
  <2>1. expiry'.tasks[c] = "sleeping" BY <1>1, <1>2, AbandonedEffect
  <2> QED BY <2>1 DEF DetachedIsExpiring
<1>3. CASE ~sock[c].attached
  <2>1. expiry' = expiry BY <1>1, <1>3, AbandonedEffect
  <2>2. \A d \in Sockets : sock[d].attached => sock'[d].attached BY <1>3
  <2> QED BY <2>1, <2>2, StaysExpiring
<1> QED BY <1>2, <1>3

LEMMA RefuseExpires ==
  ASSUME AudioInv, DetachedIsExpiring, Usable' => Usable, NEW c \in Sockets, NEW l, Refuse(c, l)
  PROVE  DetachedIsExpiring'
<1>1. \A d \in Sockets : d # c => sock'[d] = sock[d] BY DEF Refuse, AudioInv, Shaped, AreSocks
<1> QED BY <1>1, AbandonedExpires DEF Refuse

LEMMA BusyExpires ==
  ASSUME AudioInv, DetachedIsExpiring, Usable' => Usable, NEW c \in Sockets, NEW busy,
         sock' = [sock EXCEPT ![c].busy = busy], UNCHANGED expiry
  PROVE  DetachedIsExpiring'
<1>1. \A d \in Sockets : sock'[d].attached = sock[d].attached
  BY BusyEffect DEF AudioInv
<1> QED BY <1>1, StaysExpiring

LEMMA BeginCommitExpires ==
  ASSUME AudioInv, DetachedIsExpiring, NEW c \in Sockets, NEW l, BeginCommit(c, l), UNCHANGED stream
  PROVE  DetachedIsExpiring'
<1>1. CASE UNCHANGED <<provider, expiry>> /\ sock' = [sock EXCEPT ![c].busy = "no"]
  <2>1. Usable' => Usable BY <1>1 DEF Usable
  <2> DEFINE busy == "no"
  <2>2. sock' = [sock EXCEPT ![c].busy = busy] BY <1>1
  <2> HIDE DEF busy
  <2> QED BY <1>1, <2>1, <2>2, BusyExpires
<1>2. CASE /\ provider.up /\ UNCHANGED expiry /\ sock' = [sock EXCEPT ![c].busy = "commit"]
  <2>1. Usable' => Usable BY <1>2 DEF Usable
  <2> DEFINE busy == "commit"
  <2>2. sock' = [sock EXCEPT ![c].busy = busy] BY <1>2
  <2> HIDE DEF busy
  <2> QED BY <1>2, <2>1, <2>2, BusyExpires
<1>3. CASE (~stream.record \/ ~provider.up) /\ UNCHANGED provider
  <2>1. ~Usable' BY <1>3 DEF Usable, AudioInv, Lives
  <2> QED BY <2>1, UsedIsExpiring
<1> QED BY <1>1, <1>2, <1>3 DEF BeginCommit

LEMMA AttachesExpires ==
  ASSUME AudioInv, NEW c \in Sockets,
         sock' = [sock EXCEPT ![c].attached = TRUE, ![c].pump = TRUE]
  PROVE  DetachedIsExpiring'
<1>1. /\ sock'[c] = [sock[c] EXCEPT !.attached = TRUE, !.pump = TRUE] /\ IsSock(sock[c])
  BY DEF AudioInv, Shaped, AreSocks
<1>2. sock'[c].attached BY <1>1 DEF IsSock
<1> QED BY <1>2, UsedIsExpiring

LEMMA OpenExpires ==
  ASSUME AudioInv, DetachedIsExpiring, NEW c \in Sockets, Open(c)
  PROVE  DetachedIsExpiring'
<1>1. CASE sock' = [sock EXCEPT ![c].attached = TRUE, ![c].pump = TRUE]
  BY <1>1, AttachesExpires
<1>2. ~stream.told
  <2>1. 1 \in 1..Len(link[c].toServer) /\ link[c].toServer[1].type = "open"
        /\ link[c].toServer # <<>>
    BY HeardReads DEF Open
  <2>2. c = 1 BY <2>1 DEF AudioInv, Opening, OpenIsFirst
  <2> QED BY <2>1, <2>2 DEF AudioInv, Opening, Begins
<1>3. CASE \/ stream' = [stream EXCEPT !.opened = TRUE]
           \/ stream' = [[stream EXCEPT !.opened = TRUE] EXCEPT !.record = TRUE, !.pump = "running"]
           \/ UNCHANGED stream
  <2>1. IsStream(stream) BY DEF AudioInv, Shaped
  <2> DEFINE registered == [stream EXCEPT !.opened = TRUE]
  <2>2. registered = [stream EXCEPT !.opened = TRUE] OBVIOUS
  <2>3. \/ stream' = registered \/ UNCHANGED stream
        \/ stream' = [registered EXCEPT !.record = TRUE, !.pump = "running"]
    BY <1>3
  <2> HIDE DEF registered
  <2>4. SameStream(stream, registered) /\ registered.told = stream.told
    BY ONLY <2>1, <2>2, RegisteredEffect
  <2>5. stream'.told = stream.told
    BY <2>3, <2>4, BridgedEffect DEF SameStream
  <2> QED BY <1>2, <2>5, UsedIsExpiring DEF Usable
<1> QED BY <1>1, <1>3 DEF Open

LEMMA ReconnectExpires ==
  ASSUME AudioInv, DetachedIsExpiring, NEW c \in Sockets, Reconnect(c)
  PROVE  DetachedIsExpiring'
<1>1. CASE sock' = [sock EXCEPT ![c].attached = TRUE, ![c].pump = TRUE]
  BY <1>1, AttachesExpires
<1>2. UNCHANGED <<stream, provider>> BY DEF Reconnect
<1>3. Usable' => Usable BY <1>2 DEF Usable
<1>4. CASE \E l : Refuse(c, l) BY <1>3, <1>4, RefuseExpires
<1> QED BY <1>1, <1>4 DEF Reconnect

LEMMA ChunkRefusedExpires ==
  ASSUME AudioInv, DetachedIsExpiring, NEW c \in Sockets, ChunkRefused(c)
  PROVE  DetachedIsExpiring'
<1>1. UNCHANGED <<stream, provider>> BY DEF ChunkRefused
<1>2. Usable' => Usable BY <1>1 DEF Usable
<1>3. CASE \E l : Refuse(c, l) BY <1>2, <1>3, RefuseExpires
<1>4. CASE UNCHANGED <<sock, expiry>> BY <1>2, <1>4, StaysExpiring
<1> QED BY <1>3, <1>4 DEF ChunkRefused

LEMMA ChunkAcceptedExpires ==
  ASSUME AudioInv, DetachedIsExpiring, NEW c \in Sockets, ChunkAccepted(c)
  PROVE  DetachedIsExpiring'
<1>1. stream'.told = stream.told /\ stream'.closed = stream.closed
  <2>1. IsStream(stream) BY DEF AudioInv, Shaped
  <2>2. stream' = [stream EXCEPT !.next = stream.next + 1] BY DEF ChunkAccepted
  <2> QED BY <2>1, <2>2 DEF IsStream
<1>2. CASE UNCHANGED <<sock, provider, expiry>>
  <2>1. Usable' => Usable BY <1>1, <1>2 DEF Usable
  <2> QED BY <1>2, <2>1, StaysExpiring
<1>3. CASE /\ provider.up /\ UNCHANGED expiry
           /\ sock' = [sock EXCEPT ![c].busy = "push", ![c].frame = Request(c).arg,
                                   ![c].seq = Request(c).seq]
  <2>1. Usable' => Usable BY <1>1, <1>3 DEF Usable
  <2>2. /\ sock'[c] = [sock[c] EXCEPT !.busy = "push", !.frame = Request(c).arg,
                                      !.seq = Request(c).seq]
        /\ \A d \in Sockets : d # c => sock'[d] = sock[d]
    BY <1>3 DEF AudioInv, Shaped, AreSocks
  <2>3. sock'[c].attached = sock[c].attached
    BY <2>2 DEF AudioInv, Shaped, AreSocks, IsSock
  <2>4. \A d \in Sockets : sock[d].attached => sock'[d].attached BY <2>2, <2>3
  <2> QED BY <1>3, <2>1, <2>4, StaysExpiring
<1>4. CASE ~provider.up /\ UNCHANGED provider BY <1>4, UsedIsExpiring DEF Usable
<1> QED BY <1>2, <1>3, <1>4 DEF ChunkAccepted

LEMMA PushDoneExpires ==
  ASSUME AudioInv, DetachedIsExpiring, NEW c \in Sockets, PushDone(c)
  PROVE  DetachedIsExpiring'
<1> DEFINE vad == Observed(stream.vad, level[sock[c].frame])
           busy == IF vad.ended THEN "endpoint" ELSE "no"
<1>1. UNCHANGED provider /\ IsStream(stream) BY DEF PushDone, AudioInv, Shaped
<1>2. CASE /\ stream' = [stream EXCEPT !.vad = vad] /\ UNCHANGED expiry
           /\ sock' = [sock EXCEPT ![c].busy = busy, ![c].frame = 0, ![c].seq = 0]
  <2> HIDE DEF vad, busy
  <2>1. stream'.told = stream.told /\ stream'.closed = stream.closed
    BY <1>1, <1>2, VadEffect
  <2>2. Usable' => Usable BY <1>1, <2>1 DEF Usable
  <2>3. /\ sock'[c] = Heeded(sock[c], busy) /\ \A d \in Sockets : d # c => sock'[d] = sock[d]
    BY <1>2 DEF AudioInv, Shaped, AreSocks, Heeded
  <2>4. sock'[c].attached = sock[c].attached
    <3>1. sock'[c] = [sock[c] EXCEPT !.busy = busy, !.frame = 0, !.seq = 0] BY <2>3 DEF Heeded
    <3> QED BY <3>1 DEF AudioInv, Shaped, AreSocks, IsSock
  <2>5. \A d \in Sockets : sock[d].attached => sock'[d].attached BY <2>3, <2>4
  <2> QED BY <1>2, <2>2, <2>5, StaysExpiring
<1>3. CASE (~provider.up \/ stream.closed) /\ UNCHANGED stream
  BY <1>1, <1>3, UsedIsExpiring DEF Usable
<1> QED BY <1>2, <1>3 DEF PushDone

LEMMA CommitExpires ==
  ASSUME AudioInv, DetachedIsExpiring, NEW c \in Sockets, Commit(c) \/ Endpoint(c)
  PROVE  DetachedIsExpiring'
<1>1. UNCHANGED stream BY DEF Commit, Endpoint
<1>2. CASE \E l : BeginCommit(c, l) BY <1>1, <1>2, BeginCommitExpires
<1>3. CASE Refuse(c, link) /\ UNCHANGED provider
  <2>1. Usable' => Usable BY <1>1, <1>3 DEF Usable
  <2> QED BY <1>3, <2>1, RefuseExpires
<1> QED BY <1>2, <1>3 DEF Commit, Endpoint

LEMMA CommitDoneExpires ==
  ASSUME AudioInv, DetachedIsExpiring, NEW c \in Sockets, CommitDone(c)
  PROVE  DetachedIsExpiring'
<1>1. UNCHANGED provider /\ IsStream(stream) BY DEF CommitDone, AudioInv, Shaped
<1>2. CASE /\ stream' = [stream EXCEPT !.committed = TRUE] /\ UNCHANGED expiry
           /\ sock' = [sock EXCEPT ![c].busy = "no"]
  <2>1. stream'.told = stream.told /\ stream'.closed = stream.closed
    BY <1>1, <1>2, CommittedEffect
  <2>2. Usable' => Usable BY <1>1, <2>1 DEF Usable
  <2> DEFINE busy == "no"
  <2>3. sock' = [sock EXCEPT ![c].busy = busy] BY <1>2
  <2> HIDE DEF busy
  <2> QED BY <1>2, <2>2, <2>3, BusyExpires
<1>3. CASE ~provider.up BY <1>1, <1>3, UsedIsExpiring DEF Usable
<1> QED BY <1>2, <1>3 DEF CommitDone

\* The bridge is closed: by the client, or when a timer fires.
LEMMA CloseBridgeExpires ==
  ASSUME AudioInv, stream.told, CloseBridge \/ CloseBridgeFails
  PROVE  DetachedIsExpiring'
BY CloseBridgeEffect, UsedIsExpiring DEF Usable

LEMMA CloseExpires ==
  ASSUME AudioInv, DetachedIsExpiring, NEW c \in Sockets, Close(c) \/ Expire(c)
  PROVE  DetachedIsExpiring'
<1>1. CASE /\ CloseBridge \/ CloseBridgeFails
           /\ sock[c].attached \/ expiry.tasks[c] = "sleeping"
  <2>1. stream.told BY <1>1 DEF AudioInv, Lives
  <2> QED BY <1>1, <2>1, CloseBridgeExpires
<1>2. CASE UNCHANGED <<sock, stream, provider, expiry>>
  <2>1. Usable' => Usable BY <1>2 DEF Usable
  <2> QED BY <1>2, <2>1, StaysExpiring
<1> QED BY <1>1, <1>2 DEF Close, Expire

LEMMA CloseDoneExpires ==
  ASSUME AudioInv, NEW c \in Sockets, CloseDone(c)
  PROVE  DetachedIsExpiring'
<1>1. stream.closed BY DEF CloseDone, AudioInv, Lives
<1> QED BY <1>1, UsedIsExpiring DEF Usable, CloseDone

LEMMA DisconnectExpires ==
  ASSUME AudioInv, DetachedIsExpiring, NEW c \in Sockets, Disconnect(c)
  PROVE  DetachedIsExpiring'
<1>1. \A d \in Sockets : d # c => sock'[d] = sock[d]
  BY DEF Disconnect, AudioInv, Shaped, AreSocks
<1>2. Usable' => Usable BY DEF Disconnect, Usable
<1> QED BY <1>1, <1>2, AbandonedExpires DEF Disconnect

LEMMA SendEventExpires ==
  ASSUME AudioInv, DetachedIsExpiring, NEW c \in Sockets, SendEvent(c)
  PROVE  DetachedIsExpiring'
<1>1. UNCHANGED <<provider, expiry>> /\ IsStream(stream) BY DEF SendEvent, AudioInv, Shaped
<1>2. stream' = [stream EXCEPT !.queue = Tail(@)] BY DEF SendEvent
<1>3. stream'.told = stream.told /\ stream'.closed = stream.closed
  BY <1>1, <1>2 DEF IsStream
<1>4. Usable' => Usable BY <1>1, <1>3 DEF Usable
<1>5. PICK on : sock' = [sock EXCEPT ![c].pump = on] BY DEF SendEvent
<1>6. /\ sock'[c] = [sock[c] EXCEPT !.pump = on] /\ \A d \in Sockets : d # c => sock'[d] = sock[d]
  BY <1>5 DEF AudioInv, Shaped, AreSocks
<1>7. sock'[c].attached = sock[c].attached BY <1>6 DEF AudioInv, Shaped, AreSocks, IsSock
<1>8. \A d \in Sockets : sock[d].attached => sock'[d].attached BY <1>6, <1>7
<1> QED BY <1>1, <1>4, <1>8, StaysExpiring

LEMMA ExpiryEndsExpires ==
  ASSUME AudioInv, DetachedIsExpiring, NEW c \in Sockets, ExpiryEnds(c)
  PROVE  DetachedIsExpiring'
<1>1. UNCHANGED <<sock, stream, provider>> /\ expiry.tasks[c] # "sleeping" BY DEF ExpiryEnds
<1>2. Usable' => Usable BY <1>1 DEF Usable
<1>3. expiry'.tasks = [expiry.tasks EXCEPT ![c] = "done"] BY DEF ExpiryEnds
<1>4. \A t \in Sockets : expiry.tasks[t] = "sleeping" => expiry'.tasks[t] = "sleeping"
  BY <1>1, <1>3 DEF AudioInv, Shaped, IsExpiry
<1> QED BY <1>1, <1>2, <1>4, StaysExpiring

LEMMA ClientExpires ==
  ASSUME AudioInv, DetachedIsExpiring, ClientSteps
  PROVE  DetachedIsExpiring'
<1>1. UNCHANGED <<stream, provider, expiry>>
  BY DEF ClientSteps, Capture, Stop, CaptureStops, StopCommits, RecoveryCommits, Poll, UserCancel,
     StopTimesOut, CancelCapture, OpenTimesOut, ConnectFails, ReconnectTimesOut, FlushTimesOut, RetryOrGiveUp,
     NoticeCut, ClientReceives, OnOpened, OnAck, OnReconnected, OnFinal, OnClosed, OnError,
     Connect, serverVars
<1>2. Usable' => Usable BY <1>1 DEF Usable
<1>3. CASE UNCHANGED sock BY <1>1, <1>2, <1>3, StaysExpiring
<1>4. CASE \E c \in Sockets : Connect(c)
  <2>1. PICK c \in Sockets : sock' = [sock EXCEPT ![c].alive = TRUE] BY <1>4 DEF Connect
  <2>2. /\ sock'[c] = [sock[c] EXCEPT !.alive = TRUE] /\ IsSock(sock[c])
        /\ \A d \in Sockets : d # c => sock'[d] = sock[d]
    BY <2>1 DEF AudioInv, Shaped, AreSocks
  <2>3. sock'[c].attached = sock[c].attached BY <2>2, AliveEffect
  <2> QED BY <1>1, <1>2, <2>2, <2>3, StaysExpiring
<1>5. UNCHANGED sock \/ \E c \in Sockets : Connect(c)
  BY DEF ClientSteps, Capture, Stop, CaptureStops, StopCommits, RecoveryCommits, Poll, UserCancel,
     StopTimesOut, CancelCapture, OpenTimesOut, ConnectFails, ReconnectTimesOut, FlushTimesOut, RetryOrGiveUp,
     NoticeCut, ClientReceives, OnOpened, OnAck, OnReconnected, OnFinal, OnClosed, OnError,
     serverVars
<1> QED BY <1>3, <1>4, <1>5

LEMMA NextExpires ==
  ASSUME AudioInv, DetachedIsExpiring, [Next]_vars
  PROVE  DetachedIsExpiring'
<1>1. CASE ClientSteps BY <1>1, ClientExpires
<1>2. ASSUME NEW c \in Sockets, SocketSteps(c) \/ Cut(c) \/ Expire(c) \/ ExpiryEnds(c)
      PROVE  DetachedIsExpiring'
  <2>1. CASE Open(c) BY <2>1, OpenExpires
  <2>2. CASE Reconnect(c) BY <2>2, ReconnectExpires
  <2>3. CASE ChunkRefused(c) BY <2>3, ChunkRefusedExpires
  <2>4. CASE ChunkAccepted(c) BY <2>4, ChunkAcceptedExpires
  <2>5. CASE PushDone(c) BY <2>5, PushDoneExpires
  <2>6. CASE Commit(c) \/ Endpoint(c) BY <2>6, CommitExpires
  <2>7. CASE CommitDone(c) BY <2>7, CommitDoneExpires
  <2>8. CASE Close(c) \/ Expire(c) BY <2>8, CloseExpires
  <2>9. CASE CloseDone(c) BY <2>9, CloseDoneExpires
  <2>10. CASE Disconnect(c) BY <2>10, DisconnectExpires
  <2>11. CASE SendEvent(c) BY <2>11, SendEventExpires
  <2>12. CASE ExpiryEnds(c) BY <2>12, ExpiryEndsExpires
  <2>13. CASE Cut(c)
    <3>1. UNCHANGED <<sock, stream, provider, expiry>> BY <2>13 DEF Cut, serverVars
    <3>2. Usable' => Usable BY <3>1 DEF Usable
    <3> QED BY <3>1, <3>2, StaysExpiring
  <2> QED BY <1>2, <2>1, <2>2, <2>3, <2>4, <2>5, <2>6, <2>7, <2>8, <2>9, <2>10, <2>11, <2>12, <2>13
          DEF SocketSteps
<1>3. CASE ProviderDrops
  <2>1. provider' = [provider EXCEPT !.up = FALSE] /\ IsProvider(provider)
    BY <1>3 DEF ProviderDrops, AudioInv, Shaped
  <2>2. ~provider'.up BY <2>1 DEF IsProvider
  <2> QED BY <2>2, UsedIsExpiring DEF Usable
<1>4. CASE RecognizeFinal \/ Answer \/ PumpEnds \/ PumpPuts
  <2>1. UNCHANGED <<sock, provider, expiry>> /\ IsStream(stream)
    BY <1>4 DEF RecognizeFinal, Answer, PumpEnds, PumpPuts, AudioInv, Shaped
  <2>2. stream'.told = stream.told /\ stream'.closed = stream.closed
    BY <1>4, <2>1 DEF RecognizeFinal, Answer, PumpEnds, PumpPuts, IsStream
  <2>3. Usable' => Usable BY <2>1, <2>2 DEF Usable
  <2> QED BY <2>1, <2>3, StaysExpiring
<1>5. CASE UNCHANGED vars
  <2>1. UNCHANGED <<sock, stream, provider, expiry>> BY <1>5 DEF vars
  <2>2. Usable' => Usable BY <2>1 DEF Usable
  <2> QED BY <2>1, <2>2, StaysExpiring
<1> QED BY <1>1, <1>2, <1>3, <1>4, <1>5 DEF Next

\* For any network: when the last socket of a stream the client knows has gone, a timer
\* of the api is counting the grace period of the stream (_schedule_audio_expiry).
THEOREM DetachedStreamsExpire == Spec => []DetachedIsExpiring
<1>1. Init => DetachedIsExpiring
  <2>1. Init => ~stream.told BY DEF Init
  <2> QED BY <2>1 DEF DetachedIsExpiring
<1>2. AudioInv /\ DetachedIsExpiring /\ [Next]_vars => DetachedIsExpiring' BY NextExpires
<1> QED BY <1>1, <1>2, AudioInvHolds, PTL DEF Spec

-----------------------------------------------------------------------------
(* The end of an utterance *)

\* The definitions of IsDue, of any frames l.
IsRun(l, i, j, S) == \A k \in i..j : l[k] \in S
Starts(l, s) ==
  /\ IsRun(l, s - SpeechStart + 1, s, {"loud"})
  /\ \A r \in SpeechStart..(s - 1) : ~IsRun(l, r - SpeechStart + 1, r, {"loud"})
Stops(l, s, e) ==
  \/ e - s >= EndSilence /\ IsRun(l, e - EndSilence + 1, e, {"quiet"})
  \/ e - s + SpeechStart >= MaxUtterance
Due(l, n) ==
  \E s \in SpeechStart..n : Starts(l, s) /\ \E e \in (s + 1)..n : Stops(l, s, e)

LEMMA DueMeans ==
  ASSUME NEW n
  PROVE  IsDue(n) <=> Due(level, n)
BY DEF IsDue, Due, Starts, Stops, Run, IsRun

\* Of the frames m + 1 to n, the last k are in S, and no more.
Trails(l, k, m, n, S) ==
  /\ k \in Nat /\ k <= n - m /\ IsRun(l, n - k + 1, n, S)
  /\ k < n - m => l[n - k] \notin S

LEMMA VadSettings ==
  /\ SpeechStart \in Nat /\ EndSilence \in Nat /\ MaxUtterance \in Nat
  /\ SpeechStart > 0 /\ EndSilence > 0 /\ MaxUtterance > 0
BY AudioAssumption

LEMMA TrailsGrow ==
  ASSUME NEW l, NEW k, NEW m \in Nat, NEW n \in Nat, NEW S, Trails(l, k, m, n, S), l[n + 1] \in S
  PROVE  Trails(l, k + 1, m, n + 1, S)
<1>1. IsRun(l, n + 1 - (k + 1) + 1, n + 1, S)
  <2> SUFFICES ASSUME NEW i \in (n + 1 - (k + 1) + 1)..(n + 1) PROVE l[i] \in S BY DEF IsRun
  <2>1. CASE i = n + 1 BY <2>1
  <2>2. CASE i # n + 1
    <3>1. i \in (n - k + 1)..n BY <2>2 DEF Trails
    <3> QED BY <3>1 DEF Trails, IsRun
  <2> QED BY <2>1, <2>2
<1>2. k + 1 < n + 1 - m => l[n + 1 - (k + 1)] \notin S
  <2>1. n + 1 - (k + 1) = n - k BY DEF Trails
  <2> QED BY <2>1 DEF Trails
<1> QED BY <1>1, <1>2 DEF Trails

LEMMA TrailsBreak ==
  ASSUME NEW l, NEW m \in Nat, NEW n \in Nat, m <= n, NEW S, l[n] \notin S
  PROVE  Trails(l, 0, m, n, S)
<1>1. IsRun(l, n - 0 + 1, n, S) BY DEF IsRun
<1>2. n - 0 = n OBVIOUS
<1> QED BY <1>1, <1>2 DEF Trails

LEMMA TrailsRun ==
  ASSUME NEW l, NEW k, NEW m \in Nat, NEW n \in Nat, NEW S, Trails(l, k, m, n, S),
         NEW j \in Nat, j <= n - m
  PROVE  IsRun(l, n - j + 1, n, S) <=> j <= k
<1>1. CASE j <= k
  <2>1. \A i \in (n - j + 1)..n : i \in (n - k + 1)..n BY <1>1 DEF Trails
  <2> QED BY <1>1, <2>1 DEF Trails, IsRun
<1>2. CASE ~(j <= k)
  <2>1. n - k \in (n - j + 1)..n /\ k < n - m BY <1>2 DEF Trails
  <2> QED BY <1>2, <2>1 DEF Trails, IsRun
<1> QED BY <1>1, <1>2

IsVad(v) ==
  v = [speaking |-> v.speaking, ended |-> v.ended, candidate |-> v.candidate,
       utterance |-> v.utterance, silence |-> v.silence]

\* No utterance has begun; the one that began with frame s goes on.
Silent(l, v, n) ==
  /\ Trails(l, v.candidate, 0, n, {"loud"})
  /\ \A r \in SpeechStart..n : ~IsRun(l, r - SpeechStart + 1, r, {"loud"})
Speaks(l, v, n, s) ==
  /\ Starts(l, s) /\ v.utterance = n - s + SpeechStart
  /\ Trails(l, v.silence, s, n, {"quiet"})
  /\ \A e \in (s + 1)..n : ~Stops(l, s, e)

\* v is what the VAD makes of the first n frames of l.
Hears(l, v, n) ==
  /\ IsVad(v)
  /\ v.ended => Due(l, n)
  /\ ~v.ended /\ ~v.speaking => Silent(l, v, n)
  /\ ~v.ended /\ v.speaking => \E s \in SpeechStart..n : Speaks(l, v, n, s)

LEMMA HearsNothing ==
  ASSUME NEW l
  PROVE  Hears(l, NewVad, 0)
<1>1. /\ IsVad(NewVad) /\ ~NewVad.ended /\ ~NewVad.speaking /\ NewVad.candidate = 0
  BY DEF IsVad, NewVad
<1>2. Silent(l, NewVad, 0) BY <1>1, VadSettings DEF Silent, Trails, IsRun
<1> QED BY <1>1, <1>2 DEF Hears

\* The VAD has ended exactly when the definition says so.
LEMMA HearsTheEnd ==
  ASSUME NEW l, NEW v, NEW n \in Nat, Hears(l, v, n)
  PROVE  v.ended <=> Due(l, n)
<1>1. CASE ~v.ended /\ ~v.speaking BY <1>1 DEF Hears, Silent, Due, Starts
<1>2. CASE ~v.ended /\ v.speaking
  <2>1. PICK s \in SpeechStart..n : Speaks(l, v, n, s) BY <1>2 DEF Hears
  <2>2. ASSUME NEW t \in SpeechStart..n, Starts(l, t) PROVE t = s
    BY <2>1, <2>2, VadSettings DEF Speaks, Starts
  <2> QED BY <1>2, <2>1, <2>2 DEF Due, Speaks
<1> QED BY <1>1, <1>2 DEF Hears

LEMMA StopsWhen ==
  ASSUME NEW l, NEW k, NEW n \in Nat, NEW s \in SpeechStart..n, Trails(l, k, s, n, {"quiet"}), n > s
  PROVE  Stops(l, s, n) <=> k >= EndSilence \/ n - s + SpeechStart >= MaxUtterance
<1>1. s \in Nat /\ k \in Nat /\ n - s \in Nat /\ k <= n - s BY VadSettings DEF Trails
<1>2. CASE EndSilence <= n - s
  <2>1. IsRun(l, n - EndSilence + 1, n, {"quiet"}) <=> EndSilence <= k
    BY <1>1, <1>2, VadSettings, TrailsRun
  <2> QED BY <1>1, <1>2, <2>1, VadSettings DEF Stops
<1>3. CASE ~(EndSilence <= n - s) BY <1>1, <1>3, VadSettings DEF Stops
<1> QED BY <1>2, <1>3

LEMMA LoudRun ==
  ASSUME NEW l, NEW k, NEW n \in Nat, Trails(l, k, 0, n, {"loud"}), NEW j \in Nat, j <= n
  PROVE  IsRun(l, n - j + 1, n, {"loud"}) <=> j <= k
<1> DEFINE loud == {"loud"}
           m == 0
<1>1. Trails(l, k, m, n, loud) /\ m \in Nat /\ j <= n - m OBVIOUS
<1> HIDE DEF loud, m
<1>2. IsRun(l, n - j + 1, n, loud) <=> j <= k BY <1>1, TrailsRun
<1> QED BY <1>2 DEF loud

\* The VAD before speech, with k loud frames in a row; at the first frame of speech; and in it.
WithCandidate(v, k) == [v EXCEPT !.candidate = k]
WithSpeech(v, k) == [v EXCEPT !.candidate = k, !.speaking = TRUE, !.utterance = k, !.silence = 0]
WithFrame(v, u, k, ended) == [v EXCEPT !.utterance = u, !.silence = k, !.ended = ended]

LEMMA WithCandidateEffect ==
  ASSUME NEW v, IsVad(v), NEW k, NEW w, w = WithCandidate(v, k)
  PROVE  IsVad(w) /\ w.ended = v.ended /\ w.speaking = v.speaking /\ w.candidate = k
<1>1. w = [v EXCEPT !.candidate = k] BY DEF WithCandidate
<1> QED BY <1>1 DEF IsVad

LEMMA WithSpeechEffect ==
  ASSUME NEW v, IsVad(v), NEW k, NEW w, w = WithSpeech(v, k)
  PROVE  IsVad(w) /\ w.ended = v.ended /\ w.speaking /\ w.utterance = k /\ w.silence = 0
<1>1. w = [speaking |-> TRUE, ended |-> v.ended, candidate |-> k, utterance |-> k, silence |-> 0]
  BY DEF WithSpeech, IsVad
<1> QED BY <1>1 DEF IsVad

LEMMA WithFrameEffect ==
  ASSUME NEW v, IsVad(v), NEW u, NEW k, NEW ended, NEW w, w = WithFrame(v, u, k, ended)
  PROVE  IsVad(w) /\ w.ended = ended /\ w.speaking = v.speaking /\ w.utterance = u /\ w.silence = k
<1>1. w = [speaking |-> v.speaking, ended |-> ended, candidate |-> v.candidate,
           utterance |-> u, silence |-> k]
  BY DEF WithFrame, IsVad
<1> QED BY <1>1 DEF IsVad

LEMMA WaitsOn ==
  ASSUME NEW l, NEW v, NEW n \in Nat, Hears(l, v, n), ~v.ended, ~v.speaking,
         NEW w, w = HearWaiting(v, l[n + 1])
  PROVE  Hears(l, w, n + 1)
<1> DEFINE k == v.candidate
           loud == {"loud"}
<1>1. IsVad(v) /\ Silent(l, v, n) BY DEF Hears
<1>2. /\ Trails(l, k, 0, n, loud) /\ k \in Nat /\ k <= n
      /\ \A r \in SpeechStart..n : ~IsRun(l, r - SpeechStart + 1, r, loud)
  BY <1>1 DEF Silent, Trails
<1>3. k < SpeechStart
  <2>1. CASE SpeechStart <= n
    <3>1. IsRun(l, n - SpeechStart + 1, n, loud) <=> SpeechStart <= k
      BY <1>2, <2>1, VadSettings, LoudRun
    <3> QED BY <1>2, <2>1, <3>1, VadSettings
  <2> QED BY <1>2, <2>1, VadSettings
<1>4. ASSUME NEW j \in Nat, j < SpeechStart, Trails(l, j, 0, n + 1, loud), w = WithCandidate(v, j)
      PROVE  Hears(l, w, n + 1)
  <2>1. IsVad(w) /\ ~w.ended /\ ~w.speaking /\ w.candidate = j
    BY <1>1, <1>4, WithCandidateEffect
  <2>2. SpeechStart <= n + 1 => ~IsRun(l, (n + 1) - SpeechStart + 1, n + 1, loud)
    <3>1. n + 1 \in Nat OBVIOUS
    <3>2. ASSUME SpeechStart <= n + 1
          PROVE  IsRun(l, (n + 1) - SpeechStart + 1, n + 1, loud) <=> SpeechStart <= j
      <4> DEFINE x == n + 1
      <4>1. x \in Nat /\ SpeechStart <= x /\ Trails(l, j, 0, x, {"loud"}) BY <1>4, <3>1, <3>2
      <4> HIDE DEF x
      <4>2. IsRun(l, x - SpeechStart + 1, x, {"loud"}) <=> SpeechStart <= j
        BY <4>1, VadSettings, LoudRun
      <4> QED BY <4>2 DEF x
    <3> QED BY <1>4, <3>2, VadSettings
  <2>3. \A r \in SpeechStart..(n + 1) : ~IsRun(l, r - SpeechStart + 1, r, loud)
    <3> SUFFICES ASSUME NEW r \in SpeechStart..(n + 1)
                 PROVE  ~IsRun(l, r - SpeechStart + 1, r, loud)
      OBVIOUS
    <3>1. CASE r = n + 1
      <4>1. SpeechStart <= n + 1 BY <3>1, VadSettings
      <4>2. ~IsRun(l, (n + 1) - SpeechStart + 1, n + 1, loud) BY <2>2, <4>1
      <4> HIDE DEF loud
      <4> QED BY <3>1, <4>2
    <3>2. CASE r # n + 1
      <4>1. r \in SpeechStart..n BY <3>2, VadSettings
      <4> QED BY <1>2, <4>1
    <3> QED BY <3>1, <3>2
  <2> QED BY <1>4, <2>1, <2>3 DEF Hears, Silent
<1>5. CASE l[n + 1] # "loud"
  <2>1. Trails(l, 0, 0, n + 1, loud) BY <1>5, TrailsBreak
  <2>2. w = WithCandidate(v, 0) BY <1>5 DEF HearWaiting, WithCandidate
  <2> QED BY <1>4, <2>1, <2>2, VadSettings
<1>6. CASE l[n + 1] = "loud"
  <2>1. Trails(l, k + 1, 0, n + 1, loud) BY <1>2, <1>6, TrailsGrow
  <2>2. CASE k + 1 < SpeechStart
    <3>1. w = WithCandidate(v, k + 1) BY <1>6, <2>2 DEF HearWaiting, WithCandidate
    <3> QED BY <1>2, <1>4, <2>1, <2>2, <3>1
  <2>3. CASE ~(k + 1 < SpeechStart)
    <3>1. k + 1 = SpeechStart BY <1>2, <1>3, <2>3, VadSettings
    <3>2. w = WithSpeech(v, k + 1) BY <1>6, <2>3 DEF HearWaiting, WithSpeech
    <3>3. IsVad(w) /\ ~w.ended /\ w.speaking /\ w.utterance = SpeechStart /\ w.silence = 0
      BY <1>1, <3>1, <3>2, WithSpeechEffect
    <3>4. n + 1 \in SpeechStart..(n + 1) BY <1>2, <3>1, VadSettings
    <3>5. Starts(l, n + 1)
      <4>1. IsRun(l, (n + 1) - SpeechStart + 1, n + 1, loud)
        <5> DEFINE x == n + 1
        <5>1. x \in Nat /\ SpeechStart <= x /\ Trails(l, k + 1, 0, x, {"loud"}) /\ SpeechStart <= k + 1
          BY <2>1, <3>1, <3>4, VadSettings
        <5> HIDE DEF x, k
        <5>2. IsRun(l, x - SpeechStart + 1, x, {"loud"})
          BY <5>1, VadSettings, LoudRun
        <5> QED BY <5>2 DEF x
      <4>2. (n + 1) - 1 = n OBVIOUS
      <4>3. \A r \in SpeechStart..((n + 1) - 1) : ~IsRun(l, r - SpeechStart + 1, r, {"loud"})
        BY <1>2, <4>2
      <4> QED BY <4>1, <4>3 DEF Starts
    <3>6. Trails(l, 0, n + 1, n + 1, {"quiet"}) BY DEF Trails, IsRun
    <3>7. Speaks(l, w, n + 1, n + 1) BY <3>3, <3>5, <3>6, VadSettings DEF Speaks
    <3> QED BY <3>3, <3>4, <3>7 DEF Hears
  <2> QED BY <2>2, <2>3
<1> QED BY <1>5, <1>6

LEMMA SpeaksOn ==
  ASSUME NEW l, NEW v, NEW n \in Nat, Hears(l, v, n), ~v.ended, v.speaking,
         NEW w, w = HearSpeaking(v, l[n + 1])
  PROVE  Hears(l, w, n + 1)
<1> DEFINE k == IF l[n + 1] = "quiet" THEN v.silence + 1 ELSE 0
           u == v.utterance + 1
           ended == u >= MaxUtterance \/ k >= EndSilence
<1>1. PICK s \in SpeechStart..n : Speaks(l, v, n, s) BY DEF Hears
<1>2. s \in SpeechStart..(n + 1) /\ s \in Nat /\ n + 1 > s BY VadSettings
<1>3. u = (n + 1) - s + SpeechStart BY <1>1, <1>2, VadSettings DEF Speaks
<1>4. Trails(l, k, s, n + 1, {"quiet"})
  <2>1. Trails(l, v.silence, s, n, {"quiet"}) BY <1>1 DEF Speaks
  <2>2. CASE l[n + 1] = "quiet" BY <1>2, <2>1, <2>2, TrailsGrow
  <2>3. CASE l[n + 1] # "quiet" BY <1>2, <2>3, TrailsBreak
  <2> QED BY <2>2, <2>3
<1>5. Stops(l, s, n + 1) <=> ended
  BY <1>2, <1>3, <1>4, StopsWhen
<1>e. PICK b \in BOOLEAN : b = ended OBVIOUS
<1>6. w = WithFrame(v, u, k, b) BY <1>e DEF HearSpeaking, WithFrame
<1>7. IsVad(v) BY DEF Hears
<1> HIDE DEF k, u, ended
<1>8. IsVad(w) /\ w.ended = b /\ w.speaking = v.speaking /\ w.utterance = u /\ w.silence = k
  BY ONLY <1>6, <1>7, WithFrameEffect
<1>9. CASE b
  <2>1. n + 1 \in (s + 1)..(n + 1) BY <1>2
  <2>2. Due(l, n + 1) BY <1>1, <1>2, <1>5, <1>e, <1>9, <2>1 DEF Due, Speaks
  <2> QED BY <1>8, <1>9, <2>2 DEF Hears
<1>10. CASE ~b
  <2>1. \A e \in (s + 1)..(n + 1) : ~Stops(l, s, e)
    <3> SUFFICES ASSUME NEW e \in (s + 1)..(n + 1) PROVE ~Stops(l, s, e) OBVIOUS
    <3>1. CASE e = n + 1 BY <1>5, <1>e, <1>10, <3>1
    <3>2. CASE e # n + 1
      <4>1. e \in (s + 1)..n BY <1>2, <3>2
      <4> QED BY <1>1, <4>1 DEF Speaks
    <3> QED BY <3>1, <3>2
  <2>2. Speaks(l, w, n + 1, s) BY <1>1, <1>3, <1>4, <1>8, <2>1 DEF Speaks
  <2> QED BY <1>2, <1>8, <1>10, <2>2 DEF Hears
<1> QED BY <1>9, <1>10

\* One frame more.
LEMMA HearsMore ==
  ASSUME NEW l, NEW v, NEW n \in Nat, Hears(l, v, n), NEW w, w = Observed(v, l[n + 1])
  PROVE  Hears(l, w, n + 1)
<1>1. CASE v.ended
  <2>1. w = v BY <1>1 DEF Observed
  <2>2. PICK s \in SpeechStart..n : Starts(l, s) /\ \E e \in (s + 1)..n : Stops(l, s, e)
    BY <1>1 DEF Hears, Due
  <2>3. s \in SpeechStart..(n + 1) /\ \A e \in (s + 1)..n : e \in (s + 1)..(n + 1) BY VadSettings
  <2>4. Due(l, n + 1) BY <2>2, <2>3 DEF Due
  <2> QED BY <1>1, <2>1, <2>4 DEF Hears
<1>2. CASE ~v.ended /\ v.speaking BY <1>2, SpeaksOn DEF Observed
<1>3. CASE ~v.ended /\ ~v.speaking BY <1>3, WaitsOn DEF Observed
<1> QED BY <1>1, <1>2, <1>3

\* Of len frames that the provider has, the VAD has heard the first n; a socket of its own
\* awaits each of the others.
Awaited(socks, n, len) ==
  /\ n \in Nat /\ n <= len
  /\ \A c \in Sockets : socks[c].busy = "push" => socks[c].seq \in n..(len - 1)
  /\ \A i \in n..(len - 1) : \E c \in Sockets : socks[c].busy = "push" /\ socks[c].seq = i
  /\ \A c, d \in Sockets :
       socks[c].busy = "push" /\ socks[d].busy = "push" /\ socks[c].seq = socks[d].seq => c = d

Listens ==
  /\ provider.up => \E n \in Nat : Awaited(sock, n, Len(provider.audio)) /\ Hears(level, stream.vad, n)
  /\ Len(provider.audio) = 0 => stream.vad = NewVad

LEMMA BufferedIsAwaited ==
  ASSUME NEW n, NEW len \in Nat, Awaited(sock, n, len)
  PROVE  Buffered = len - n
<1> DEFINE S == {c \in Sockets : sock[c].busy = "push"}
           T == n..(len - 1)
           f == [c \in S |-> sock[c].seq]
<1>1. IsFiniteSet(S)
  <2>1. MaxSockets \in Nat BY AudioAssumption
  <2>2. IsFiniteSet(Sockets) BY <2>1, FS_Interval DEF Sockets
  <2> QED BY <2>2, FS_Subset
<1>2. f \in [S -> T] BY DEF Awaited
<1>3. IsInjective(f) BY DEF Awaited, IsInjective
<1>4. \A i \in T : \E c \in S : f[c] = i BY DEF Awaited
<1>5. Cardinality(T) = len - n BY IntervalSize DEF Awaited
<1> HIDE DEF f, S, T
<1>6. f \in Surjection(S, T) /\ f \in Injection(S, T)
  BY <1>2, <1>3, <1>4 DEF Surjection, Injection
<1>7. Cardinality(T) = Cardinality(S) BY <1>1, <1>6, FS_Surjection
<1>8. Buffered = Cardinality(S) BY DEF Buffered, S
<1> QED BY <1>5, <1>7, <1>8

LEMMA ListensToTheEnd ==
  ASSUME AudioInv, Listens
  PROVE  EndpointIsDue
<1> SUFFICES ASSUME provider.up PROVE stream.vad.ended <=> IsDue(Len(provider.audio) - Buffered)
  BY DEF EndpointIsDue
<1> DEFINE len == Len(provider.audio)
<1>1. PICK n \in Nat : Awaited(sock, n, len) /\ Hears(level, stream.vad, n) BY DEF Listens
<1>2. len \in Nat BY DEF AudioInv, Shaped, IsProvider
<1> HIDE DEF len
<1>3. Buffered = len - n BY <1>1, <1>2, BufferedIsAwaited
<1>4. len - Buffered = n BY <1>1, <1>2, <1>3 DEF Awaited
<1>5. stream.vad.ended <=> Due(level, n) BY <1>1, HearsTheEnd
<1>6. IsDue(n) <=> Due(level, n) BY DueMeans
<1> QED BY <1>4, <1>5, <1>6 DEF len

\* What socket d pushes, if anything, is what it pushed before.
Pushes(d) ==
  /\ sock'[d].busy = "push" <=> sock[d].busy = "push"
  /\ sock[d].busy = "push" => sock'[d].seq = sock[d].seq

LEMMA StaysListening ==
  ASSUME Listens, level' = level, provider'.audio = provider.audio, stream'.vad = stream.vad,
         provider'.up => provider.up /\ \A d \in Sockets : Pushes(d)
  PROVE  Listens'
<1>1. ASSUME provider'.up
      PROVE  \E n \in Nat : Awaited(sock', n, Len(provider.audio)) /\ Hears(level, stream.vad, n)
  <2> DEFINE len == Len(provider.audio)
             v == stream.vad
  <2>1. PICK n \in Nat : Awaited(sock, n, len) /\ Hears(level, v, n)
    BY <1>1 DEF Listens
  <2> HIDE DEF len, v
  <2>2. Awaited(sock', n, len)
    <3>1. \A d \in Sockets : Pushes(d) BY <1>1
    <3> QED BY <2>1, <3>1 DEF Awaited, Pushes
  <2> QED BY <2>1, <2>2 DEF len, v
<1> QED BY <1>1 DEF Listens

\* A stream without frames has heard none.
LEMMA NothingToHear ==
  ASSUME AudioInv, AudioInv', Listens, captured = 0, captured' = 0, stream'.vad = stream.vad
  PROVE  Listens'
<1>1. Len(provider.audio) = 0 /\ Len(provider'.audio) = 0
  BY DEF AudioInv, Shaped, Fed, IsStream, IsProvider
<1>2. stream'.vad = NewVad BY <1>1 DEF Listens
<1>3. \A d \in Sockets : sock'[d].busy # "push"
  BY <1>1 DEF AudioInv, Shaped, Fed, AreSocks, IsSock
<1>4. Awaited(sock', 0, 0) BY <1>3 DEF Awaited
<1>5. Hears(level', NewVad, 0) BY HearsNothing
<1> QED BY <1>1, <1>2, <1>4, <1>5 DEF Listens

LEMMA NobodyPushes ==
  ASSUME NEW c \in Sockets, \A d \in Sockets : d # c => sock'[d] = sock[d],
         sock[c].busy # "push", sock'[c].busy # "push"
  PROVE  \A d \in Sockets : Pushes(d)
BY DEF Pushes

LEMMA EndedPushes ==
  ASSUME AudioInv, NEW c \in Sockets, sock[c].busy # "push", NEW keep,
         sock' = [sock EXCEPT ![c] = Closed(@, keep)]
  PROVE  \A d \in Sockets : Pushes(d)
<1>1. sock'[c] = Closed(sock[c], keep) /\ \A d \in Sockets : d # c => sock'[d] = sock[d]
  BY DEF AudioInv, Shaped, AreSocks
<1>2. sock'[c].busy = "no" BY <1>1, ClosedEffect DEF AudioInv, Shaped, AreSocks
<1> QED BY <1>1, <1>2, NobodyPushes

LEMMA BusyPushes ==
  ASSUME AudioInv, NEW c \in Sockets, sock[c].busy # "push", NEW busy, busy # "push",
         sock' = [sock EXCEPT ![c].busy = busy]
  PROVE  \A d \in Sockets : Pushes(d)
<1>1. sock'[c].busy = busy /\ \A d \in Sockets : d # c => sock'[d] = sock[d]
  BY BusyEffect DEF AudioInv
<1> QED BY <1>1, NobodyPushes

LEMMA OpenListens ==
  ASSUME AudioInv, AudioInv', Listens, NEW c \in Sockets, Open(c)
  PROVE  Listens'
<1>1. captured = 0 /\ captured' = 0
  <2>1. 1 \in 1..Len(link[c].toServer) /\ link[c].toServer[1].type = "open"
        /\ link[c].toServer # <<>>
    BY HeardReads DEF Open
  <2>2. c = 1 BY <2>1 DEF AudioInv, Opening, OpenIsFirst
  <2>3. Fresh BY <2>1, <2>2 DEF AudioInv, Opening, Begins
  <2> QED BY <2>3 DEF Fresh, Open, microphone
<1>2. stream'.vad = stream.vad
  <2> DEFINE registered == [stream EXCEPT !.opened = TRUE]
             bridged == [registered EXCEPT !.record = TRUE, !.pump = "running"]
  <2>1. IsStream(stream) /\ registered = [stream EXCEPT !.opened = TRUE]
        /\ bridged = [registered EXCEPT !.record = TRUE, !.pump = "running"]
    BY DEF AudioInv, Shaped
  <2>2. \/ stream' \in {registered, bridged} \/ UNCHANGED stream
        \/ stream' = [bridged EXCEPT !.told = TRUE]
    BY DEF Open
  <2> HIDE DEF registered, bridged
  <2>3. SameStream(stream, registered) BY ONLY <2>1, RegisteredEffect
  <2>4. SameStream(stream, bridged) BY <2>1, <2>3, BridgedEffect DEF SameStream
  <2>5. stream' = [bridged EXCEPT !.told = TRUE] => SameStream(stream, stream')
    BY <2>4, ToldEffect DEF SameStream
  <2> QED BY <2>2, <2>3, <2>4, <2>5 DEF SameStream
<1> QED BY <1>1, <1>2, NothingToHear

\* A socket that attaches to the stream, or that answers without touching it.
LEMMA AnswersListen ==
  ASSUME AudioInv, Listens, NEW c \in Sockets, Reconnect(c) \/ ChunkRefused(c)
  PROVE  Listens'
<1>1. UNCHANGED <<level, stream, provider>> BY DEF Reconnect, ChunkRefused, microphone
<1>2. sock[c].busy # "push" BY HeardReads DEF Reconnect, ChunkRefused
<1>3. CASE UNCHANGED sock BY <1>1, <1>3, StaysListening DEF Pushes
<1>4. CASE \E l : Refuse(c, l)
  <2>1. sock' = [sock EXCEPT ![c] = Closed(@, FALSE)] BY <1>4 DEF Refuse
  <2>2. \A d \in Sockets : Pushes(d) BY <1>2, <2>1, EndedPushes
  <2> QED BY <1>1, <2>2, StaysListening
<1>5. CASE sock' = [sock EXCEPT ![c].attached = TRUE, ![c].pump = TRUE]
  <2>1. /\ sock'[c] = [sock[c] EXCEPT !.attached = TRUE, !.pump = TRUE] /\ IsSock(sock[c])
        /\ \A d \in Sockets : d # c => sock'[d] = sock[d]
    BY <1>5 DEF AudioInv, Shaped, AreSocks
  <2>2. sock'[c].busy = sock[c].busy BY <2>1 DEF IsSock
  <2>3. \A d \in Sockets : Pushes(d) BY <1>2, <2>1, <2>2, NobodyPushes
  <2> QED BY <1>1, <2>3, StaysListening
<1> QED BY <1>3, <1>4, <1>5 DEF Reconnect, ChunkRefused

LEMMA ChunkAcceptedListens ==
  ASSUME AudioInv, Listens, NEW c \in Sockets, ChunkAccepted(c)
  PROVE  Listens'
<1>1. sock[c].busy = "no" BY HeardReads DEF ChunkAccepted
<1>2. level' = level /\ stream'.vad = stream.vad
  <2>1. IsStream(stream) /\ stream' = [stream EXCEPT !.next = stream.next + 1]
    BY DEF ChunkAccepted, AudioInv, Shaped
  <2> QED BY <2>1, NextEffect DEF ChunkAccepted, microphone, IsStream
<1>3. CASE UNCHANGED <<sock, provider, expiry>>
  BY <1>2, <1>3, StaysListening DEF Pushes
<1>4. CASE ~provider.up /\ UNCHANGED provider
  BY <1>2, <1>4, StaysListening
<1>5. CASE /\ ~stream.committed /\ provider.up
           /\ provider' = [provider EXCEPT !.audio = Append(@, Request(c).arg)]
           /\ sock' = [sock EXCEPT ![c].busy = "push", ![c].frame = Request(c).arg,
                                   ![c].seq = Request(c).seq]
  <2> DEFINE len == Len(provider.audio)
             v == stream.vad
             arg == Request(c).arg
             seq == Request(c).seq
  <2>1. /\ seq = len /\ len \in Nat /\ arg \in Nat /\ IsProvider(provider) /\ IsSock(sock[c])
    <3>1. seq = stream.next /\ arg = stream.next + 1 BY ChunkIsNext DEF ChunkAccepted
    <3> QED BY <1>5, <3>1 DEF AudioInv, Shaped, Fed, IsStream, IsProvider, AreSocks
  <2>2. Len(provider'.audio) = len + 1
    <3> DEFINE heard == Append(provider.audio, arg)
    <3>1. Len(heard) = len + 1 /\ provider' = [provider EXCEPT !.audio = heard]
      BY <1>5, <2>1 DEF IsProvider
    <3> HIDE DEF heard, len, arg
    <3>2. provider'.audio = heard BY <2>1, <3>1 DEF IsProvider
    <3> QED BY <3>1, <3>2
  <2>3. /\ sock'[c] = Pushed(sock[c], arg, seq)
        /\ \A d \in Sockets : d # c => sock'[d] = sock[d]
    BY <1>5 DEF AudioInv, Shaped, AreSocks, Pushed
  <2>4. sock'[c].busy = "push" /\ sock'[c].seq = len
    <3> DEFINE s == sock[c]
    <3>1. IsSock(s) /\ arg \in Nat /\ seq \in Nat /\ sock'[c] = Pushed(s, arg, seq) BY <2>1, <2>3
    <3>2. seq = len BY <2>1
    <3> HIDE DEF s, arg, seq, len
    <3> QED BY <3>1, <3>2, PushedEffect
  <2>5. PICK n \in Nat : Awaited(sock, n, len) /\ Hears(level, v, n) BY <1>5 DEF Listens
  <2> HIDE DEF len, v, arg, seq
  <2>6. Awaited(sock', n, len + 1)
    <3>1. \A d \in Sockets : sock'[d].busy = "push" => sock'[d].seq \in n..((len + 1) - 1)
      BY <2>1, <2>3, <2>4, <2>5 DEF Awaited
    <3>2. ASSUME NEW i \in n..((len + 1) - 1)
          PROVE  \E d \in Sockets : sock'[d].busy = "push" /\ sock'[d].seq = i
      <4>1. CASE i = len BY <2>4, <4>1
      <4>2. CASE i # len
        <5>1. i \in n..(len - 1) BY <2>1, <4>2
        <5>2. PICK d \in Sockets : sock[d].busy = "push" /\ sock[d].seq = i BY <2>5, <5>1 DEF Awaited
        <5> QED BY <1>1, <2>3, <5>2
      <4> QED BY <4>1, <4>2
    <3>3. ASSUME NEW d \in Sockets, NEW e \in Sockets, sock'[d].busy = "push", sock'[e].busy = "push",
                 sock'[d].seq = sock'[e].seq
          PROVE  d = e
      <4>1. \A x \in Sockets : x # c /\ sock'[x].busy = "push" => sock'[x].seq < len
        BY <2>1, <2>3, <2>5 DEF Awaited
      <4> QED BY <2>1, <2>3, <2>4, <2>5, <3>3, <4>1 DEF Awaited
    <3> QED BY <2>1, <2>5, <3>1, <3>2, <3>3 DEF Awaited
  <2>7. Listens'
    <3>1. Len(provider'.audio) # 0 BY <2>1, <2>2
    <3> QED BY <1>2, <2>2, <2>5, <2>6, <3>1 DEF Listens, v
  <2> QED BY <2>7
<1> QED BY <1>3, <1>4, <1>5 DEF ChunkAccepted

LEMMA PushDoneListens ==
  ASSUME AudioInv, Listens, NEW c \in Sockets, PushDone(c)
  PROVE  Listens'
<1> DEFINE vad == Observed(stream.vad, level[sock[c].frame])
           busy == IF vad.ended THEN "endpoint" ELSE "no"
           len == Len(provider.audio)
<1>1. UNCHANGED <<level, provider>> /\ IsStream(stream) /\ IsSock(sock[c]) /\ sock[c].busy = "push"
  BY DEF PushDone, microphone, AudioInv, Shaped, AreSocks
<1>2. CASE (~provider.up \/ stream.closed) /\ UNCHANGED stream
  <2>1. ~provider'.up BY <1>1, <1>2 DEF AudioInv, Lives
  <2> QED BY <1>1, <1>2, <2>1, StaysListening
<1>3. CASE /\ provider.up
           /\ stream' = [stream EXCEPT !.vad = vad]
           /\ sock' = [sock EXCEPT ![c].busy = busy, ![c].frame = 0, ![c].seq = 0]
  <2>1. stream'.vad = vad
    <3> HIDE DEF vad
    <3> QED BY <1>1, <1>3, VadEffect
  <2>2. busy # "push" OBVIOUS
  <2>3. sock'[c].busy # "push" /\ \A d \in Sockets : d # c => sock'[d] = sock[d]
    <3> HIDE DEF busy
    <3>1. /\ sock'[c] = Heeded(sock[c], busy) /\ \A d \in Sockets : d # c => sock'[d] = sock[d]
      BY <1>3 DEF AudioInv, Shaped, AreSocks, Heeded
    <3> QED BY <1>1, <2>2, <3>1, HeededEffect
  <2>4. PICK n \in Nat : Awaited(sock, n, len) /\ Hears(level, stream.vad, n) BY <1>3 DEF Listens
  <2>5. len \in Nat /\ sock[c].seq \in Nat BY <1>1 DEF AudioInv, Shaped, IsProvider, IsSock
  <2>6. sock[c].seq = n /\ n < len
    <3>1. sock[c].seq \in n..(len - 1) BY <1>1, <2>4 DEF Awaited
    <3>2. n \in n..(len - 1) BY <2>5, <3>1
    <3>3. PICK d \in Sockets : sock[d].busy = "push" /\ sock[d].seq = n BY <2>4, <3>2 DEF Awaited
    <3>4. sock[c].seq <= n BY <3>3 DEF PushDone
    <3> QED BY <2>5, <3>1, <3>4
  <2>7. sock[c].frame = n + 1 BY <1>1, <2>6 DEF AudioInv, Fed
  <2>8. Hears(level, vad, n + 1)
    <3> DEFINE v == stream.vad
               w == vad
    <3>1. Hears(level, v, n) /\ w = Observed(v, level[n + 1]) BY <2>4, <2>7
    <3> HIDE DEF v, w
    <3>2. Hears(level, w, n + 1) BY <3>1, HearsMore
    <3> QED BY <3>2 DEF w
  <2> HIDE DEF len, vad, busy
  <2>9. Awaited(sock', n + 1, len)
    <3>1. ASSUME NEW d \in Sockets, sock'[d].busy = "push"
          PROVE  sock'[d].seq \in (n + 1)..(len - 1)
      <4>1. d # c /\ sock'[d] = sock[d] BY <2>3, <3>1
      <4>2. sock[d].seq \in n..(len - 1) /\ sock[d].seq # n
        BY <1>1, <2>4, <2>6, <3>1, <4>1 DEF Awaited
      <4> QED BY <2>5, <4>1, <4>2
    <3>2. ASSUME NEW i \in (n + 1)..(len - 1)
          PROVE  \E d \in Sockets : sock'[d].busy = "push" /\ sock'[d].seq = i
      <4>1. i \in n..(len - 1) /\ i # n BY <2>5
      <4>2. PICK d \in Sockets : sock[d].busy = "push" /\ sock[d].seq = i BY <2>4, <4>1 DEF Awaited
      <4>3. d # c BY <2>6, <4>1, <4>2
      <4> QED BY <2>3, <4>2, <4>3
    <3>3. \A d, e \in Sockets : sock'[d].busy = "push" /\ sock'[e].busy = "push"
                                /\ sock'[d].seq = sock'[e].seq => d = e
      BY <2>3, <2>4 DEF Awaited
    <3> QED BY <2>5, <2>6, <3>1, <3>2, <3>3 DEF Awaited
  <2>10. provider' = provider /\ len # 0 /\ len = Len(provider.audio) BY <1>1, <2>5, <2>6 DEF len
  <2> QED BY <1>1, <2>1, <2>8, <2>9, <2>10 DEF Listens
<1> QED BY <1>2, <1>3 DEF PushDone

LEMMA BeginCommitListens ==
  ASSUME AudioInv, Listens, NEW c \in Sockets, sock[c].busy # "push", NEW l, BeginCommit(c, l),
         UNCHANGED <<level, stream>>
  PROVE  Listens'
<1>1. \A d \in Sockets : Pushes(d)
  <2>1. CASE \E busy \in {"no", "commit"} : sock' = [sock EXCEPT ![c].busy = busy]
    <3>1. PICK busy \in {"no", "commit"} : sock' = [sock EXCEPT ![c].busy = busy] BY <2>1
    <3>2. busy # "push" OBVIOUS
    <3> QED BY <3>1, <3>2, BusyPushes
  <2>2. CASE Die(c, l) BY <2>2, EndedPushes DEF Die
  <2> QED BY <2>1, <2>2 DEF BeginCommit
<1>2. provider'.audio = provider.audio /\ provider'.up = provider.up
  <2>1. IsProvider(provider) BY DEF AudioInv, Shaped
  <2>2. UNCHANGED provider \/ provider' = [provider EXCEPT !.commits = @ + 1] BY DEF BeginCommit
  <2> QED BY <2>1, <2>2 DEF IsProvider
<1> QED BY <1>1, <1>2, StaysListening

LEMMA CommitListens ==
  ASSUME AudioInv, Listens, NEW c \in Sockets, Commit(c) \/ Endpoint(c)
  PROVE  Listens'
<1>1. UNCHANGED <<level, stream>> BY DEF Commit, Endpoint, microphone
<1>2. sock[c].busy # "push" BY HeardReads DEF Commit, Endpoint
<1>3. CASE \E l : BeginCommit(c, l) BY <1>1, <1>2, <1>3, BeginCommitListens
<1>4. CASE Refuse(c, link) /\ UNCHANGED provider
  <2>1. \A d \in Sockets : Pushes(d) BY <1>2, <1>4, EndedPushes DEF Refuse
  <2> QED BY <1>1, <1>4, <2>1, StaysListening
<1> QED BY <1>3, <1>4 DEF Commit, Endpoint

LEMMA CommitDoneListens ==
  ASSUME AudioInv, Listens, NEW c \in Sockets, CommitDone(c)
  PROVE  Listens'
<1>1. UNCHANGED <<level, provider>> /\ sock[c].busy # "push" BY DEF CommitDone, microphone
<1>2. stream'.vad = stream.vad
  BY CommittedEffect DEF CommitDone, AudioInv, Shaped
<1>3. \A d \in Sockets : Pushes(d)
  <2>1. CASE sock' = [sock EXCEPT ![c].busy = "no"]
    <3> DEFINE busy == "no"
    <3>1. sock' = [sock EXCEPT ![c].busy = busy] /\ busy # "push" BY <2>1
    <3> HIDE DEF busy
    <3> QED BY <1>1, <3>1, BusyPushes
  <2>2. CASE Die(c, link) BY <1>1, <2>2, EndedPushes DEF Die
  <2> QED BY <2>1, <2>2 DEF CommitDone
<1> QED BY <1>1, <1>2, <1>3, StaysListening

LEMMA CloseListens ==
  ASSUME AudioInv, Listens, NEW c \in Sockets, Close(c) \/ Expire(c)
  PROVE  Listens'
<1>1. level' = level BY DEF Close, Expire, microphone
<1>2. CASE /\ CloseBridge \/ CloseBridgeFails
           /\ sock[c].attached \/ expiry.tasks[c] = "sleeping"
  <2>1. stream.told BY <1>2 DEF AudioInv, Lives
  <2>2. provider'.audio = provider.audio /\ stream'.vad = stream.vad /\ ~provider'.up
    BY <1>2, <2>1, CloseBridgeEffect
  <2> QED BY <1>1, <2>2, StaysListening
<1>3. CASE UNCHANGED <<sock, stream, provider, expiry>>
  BY <1>1, <1>3, StaysListening DEF Pushes
<1> QED BY <1>2, <1>3 DEF Close, Expire

\* A socket that is done with what it did.
LEMMA SocketEndsListens ==
  ASSUME AudioInv, Listens, NEW c \in Sockets, CloseDone(c) \/ Disconnect(c)
  PROVE  Listens'
<1>1. UNCHANGED <<level, stream, provider>> /\ sock[c].busy # "push"
  BY DEF CloseDone, Disconnect, microphone, Waiting
<1>2. CASE sock' = [sock EXCEPT ![c] = Closed(@, FALSE)]
  <2>1. \A d \in Sockets : Pushes(d) BY <1>1, <1>2, EndedPushes
  <2> QED BY <1>1, <2>1, StaysListening
<1>3. CASE CloseDone(c)
  <2>1. ~provider'.up BY <1>1, <1>3 DEF CloseDone, AudioInv, Lives
  <2> QED BY <1>1, <2>1, StaysListening
<1> QED BY <1>2, <1>3 DEF Disconnect

LEMMA SendEventListens ==
  ASSUME AudioInv, Listens, NEW c \in Sockets, SendEvent(c)
  PROVE  Listens'
<1>1. UNCHANGED <<level, provider>> /\ IsStream(stream)
  BY DEF SendEvent, microphone, AudioInv, Shaped
<1>2. stream' = [stream EXCEPT !.queue = Tail(@)] BY DEF SendEvent
<1>3. stream'.vad = stream.vad BY <1>1, <1>2 DEF IsStream
<1>4. PICK on : sock' = [sock EXCEPT ![c].pump = on] BY DEF SendEvent
<1>5. /\ sock'[c] = [sock[c] EXCEPT !.pump = on] /\ \A d \in Sockets : d # c => sock'[d] = sock[d]
      /\ IsSock(sock[c])
  BY <1>4 DEF AudioInv, Shaped, AreSocks
<1>6. sock'[c].busy = sock[c].busy /\ sock'[c].seq = sock[c].seq BY <1>5 DEF IsSock
<1>7. \A d \in Sockets : Pushes(d) BY <1>5, <1>6 DEF Pushes
<1> QED BY <1>1, <1>3, <1>7, StaysListening

LEMMA ClientListens ==
  ASSUME AudioInv, Listens, ClientSteps
  PROVE  Listens'
<1>1. UNCHANGED <<level, stream, provider>>
  BY DEF ClientSteps, Capture, Stop, CaptureStops, StopCommits, RecoveryCommits, Poll, UserCancel,
     StopTimesOut, CancelCapture, OpenTimesOut, ConnectFails, ReconnectTimesOut, FlushTimesOut, RetryOrGiveUp,
     NoticeCut, ClientReceives, OnOpened, OnAck, OnReconnected, OnFinal, OnClosed, OnError,
     Connect, serverVars, microphone
<1>2. CASE UNCHANGED sock BY <1>1, <1>2, StaysListening DEF Pushes
<1>3. CASE \E c \in Sockets : Connect(c)
  <2>1. PICK c \in Sockets : sock' = [sock EXCEPT ![c].alive = TRUE] BY <1>3 DEF Connect
  <2>2. /\ sock'[c] = [sock[c] EXCEPT !.alive = TRUE] /\ IsSock(sock[c])
        /\ \A d \in Sockets : d # c => sock'[d] = sock[d]
    BY <2>1 DEF AudioInv, Shaped, AreSocks
  <2>3. sock'[c].busy = sock[c].busy /\ sock'[c].seq = sock[c].seq BY <2>2, AliveEffect
  <2>4. \A d \in Sockets : Pushes(d) BY <2>2, <2>3 DEF Pushes
  <2> QED BY <1>1, <2>4, StaysListening
<1>4. UNCHANGED sock \/ \E c \in Sockets : Connect(c)
  BY DEF ClientSteps, Capture, Stop, CaptureStops, StopCommits, RecoveryCommits, Poll, UserCancel,
     StopTimesOut, CancelCapture, OpenTimesOut, ConnectFails, ReconnectTimesOut, FlushTimesOut, RetryOrGiveUp,
     NoticeCut, ClientReceives, OnOpened, OnAck, OnReconnected, OnFinal, OnClosed, OnError,
     serverVars
<1> QED BY <1>2, <1>3, <1>4

LEMMA NextListens ==
  ASSUME AudioInv, AudioInv', Listens, [Next]_vars
  PROVE  Listens'
<1>1. CASE ClientSteps BY <1>1, ClientListens
<1>2. ASSUME NEW c \in Sockets, SocketSteps(c) \/ Cut(c) \/ Expire(c) \/ ExpiryEnds(c)
      PROVE  Listens'
  <2>1. CASE Open(c) BY <2>1, OpenListens
  <2>2. CASE Reconnect(c) \/ ChunkRefused(c) BY <2>2, AnswersListen
  <2>3. CASE ChunkAccepted(c) BY <2>3, ChunkAcceptedListens
  <2>4. CASE PushDone(c) BY <2>4, PushDoneListens
  <2>5. CASE Commit(c) \/ Endpoint(c) BY <2>5, CommitListens
  <2>6. CASE CommitDone(c) BY <2>6, CommitDoneListens
  <2>7. CASE Close(c) \/ Expire(c) BY <2>7, CloseListens
  <2>8. CASE CloseDone(c) \/ Disconnect(c) BY <2>8, SocketEndsListens
  <2>9. CASE SendEvent(c) BY <2>9, SendEventListens
  <2>10. CASE Cut(c) \/ ExpiryEnds(c)
    <3>1. UNCHANGED <<level, sock, stream, provider>>
      BY <2>10 DEF Cut, ExpiryEnds, microphone, serverVars
    <3> QED BY <3>1, StaysListening DEF Pushes
  <2> QED BY <1>2, <2>1, <2>2, <2>3, <2>4, <2>5, <2>6, <2>7, <2>8, <2>9, <2>10 DEF SocketSteps
<1>3. CASE ProviderDrops
  <2>1. /\ provider' = [provider EXCEPT !.up = FALSE] /\ IsProvider(provider)
        /\ UNCHANGED <<level, stream>>
    BY <1>3 DEF ProviderDrops, microphone, AudioInv, Shaped
  <2>2. ~provider'.up /\ provider'.audio = provider.audio BY <2>1 DEF IsProvider
  <2> QED BY <2>1, <2>2, StaysListening
<1>4. CASE RecognizeFinal \/ Answer \/ PumpEnds \/ PumpPuts
  <2>1. UNCHANGED <<level, sock, provider>> /\ IsStream(stream)
    BY <1>4 DEF RecognizeFinal, Answer, PumpEnds, PumpPuts, microphone, AudioInv, Shaped
  <2>2. stream'.vad = stream.vad
    BY <1>4, <2>1 DEF RecognizeFinal, Answer, PumpEnds, PumpPuts, IsStream
  <2> QED BY <2>1, <2>2, StaysListening DEF Pushes
<1>5. CASE UNCHANGED vars
  <2>1. UNCHANGED <<level, sock, stream, provider>> BY <1>5 DEF vars
  <2> QED BY <2>1, StaysListening DEF Pushes
<1> QED BY <1>1, <1>2, <1>3, <1>4, <1>5 DEF Next

\* For any frames, settings and number of sockets whose pushes are awaited at the same time:
\* as long as the provider takes the audio, the VAD has ended the utterance when, and only
\* when, the frames it has heard say so (Pcm16EnergyVad.observe under push_chunk).
THEOREM UtterancesEndInTime == Spec => []EndpointIsDue
<1>1. Init => Listens
  <2> SUFFICES ASSUME Init PROVE Listens OBVIOUS
  <2>1. ~provider.up /\ stream.vad = NewVad BY DEF Init
  <2> QED BY <2>1 DEF Listens
<1>2. AudioInv /\ AudioInv' /\ Listens /\ [Next]_vars => Listens' BY NextListens
<1>3. AudioInv /\ Listens => EndpointIsDue BY ListensToTheEnd
<1> QED BY <1>1, <1>2, <1>3, AudioInvHolds, PTL DEF Spec

-----------------------------------------------------------------------------
(* The types *)

RequestTypes == {"open", "reconnect", "chunk", "commit", "close"}
Requests == {m \in Mail : /\ m.type \in RequestTypes
                          /\ m.type # "chunk" => m.arg = 0
                          /\ m.type \notin {"chunk", "reconnect"} => m.seq = 0}

LinkFits(l) ==
  /\ l = [state |-> l.state, toServer |-> l.toServer, toClient |-> l.toClient]
  /\ l.state \in {"new", "up", "cut"} /\ l.toServer \in Seq(Requests)
LinksFit(l) == DOMAIN l = Sockets /\ \A c \in Sockets : LinkFits(l[c])

SockFits(s) ==
  /\ s = [alive |-> s.alive, attached |-> s.attached, busy |-> s.busy,
          frame |-> s.frame, seq |-> s.seq, pump |-> s.pump]
  /\ s.busy \in {"no", "push", "endpoint", "commit", "close"}
  /\ s.attached => s.alive
SocksFit(s) == DOMAIN s = Sockets /\ \A c \in Sockets : SockFits(s[c])

ProviderEvents == {"final", "failure", "END"}
StreamFits(s) ==
  /\ s.pump \in {"none", "running", "answering", "ending", "done"}
  /\ s.queue \in Seq(ProviderEvents) /\ s.holding \in Seq(ProviderEvents)
  /\ Len(s.queue) <= EventQueueSize

\* A client without a stream keeps the numbers of one that was acknowledged.
ClientFits(cl, n) ==
  /\ cl.mode \in {"opening", "active", "committing", "idle"}
  /\ cl.recovery \in {"no", "connecting", "reconnecting", "flushing"}
  /\ cl.attempt \in 0..MaxAttempts
  /\ ~cl.sid => cl.next <= n /\ cl.acked <= n

Fits ==
  /\ captured <= MaxFrames /\ ClientFits(client, captured) /\ overtaken \in BOOLEAN
  /\ LinksFit(link) /\ SocksFit(sock) /\ StreamFits(stream)

LEMMA FitsIsTypeOK ==
  ASSUME AudioInv, Fits
  PROVE  TypeOK
<1> USE DEF AudioInv, Fits
<1>1. /\ captured \in Nat /\ MaxFrames \in Nat /\ captured \in 0..MaxFrames
      /\ IsClient(client) /\ stream.next \in Nat
  BY AudioAssumption DEF Shaped, IsStream
<1>2. stream.next \in 0..MaxFrames BY <1>1 DEF Fed
<1>3. /\ client.next \in 0..MaxFrames /\ client.acked \in 0..MaxFrames
      /\ Cardinality(DOMAIN client.inFlight) <= MaxInFlight
  <2>0. client.next \in Nat /\ client.acked \in Nat /\ MaxInFlight \in Nat
        /\ Len(client.queue) \in Nat
    BY <1>1, WindowIsNat DEF IsClient
  <2>1. CASE client.sid
    <3>1. Contiguous(client, captured) BY <2>1 DEF Numbers
    <3>2. Cardinality(client.acked..(client.next - 1)) = client.next - client.acked
      BY <2>0, <3>1, IntervalSize DEF Contiguous
    <3> QED BY <1>1, <2>0, <3>1, <3>2 DEF Contiguous
  <2>2. CASE ~client.sid
    <3>1. Cardinality(DOMAIN client.inFlight) = 0 BY <2>2, FS_EmptySet DEF Numbers
    <3> QED BY <1>1, <2>0, <2>2, <3>1 DEF ClientFits
  <2> QED BY <2>1, <2>2
<1>4. ASSUME NEW c \in Sockets
      PROVE  /\ link[c].state \in {"new", "up", "cut"}
             /\ \A i \in DOMAIN link[c].toServer : link[c].toServer[i] \in
                  UNION {Messages(t) : t \in {"open", "reconnect", "chunk", "commit", "close"}}
             /\ sock[c].busy \in {"no", "push", "endpoint", "commit", "close"}
             /\ sock[c].attached => sock[c].alive
  <2>1. LinkFits(link[c]) /\ SockFits(sock[c]) BY DEF LinksFit, SocksFit
  <2>2. ASSUME NEW i \in DOMAIN link[c].toServer
        PROVE  link[c].toServer[i] \in
                 UNION {Messages(t) : t \in {"open", "reconnect", "chunk", "commit", "close"}}
    <3> DEFINE m == link[c].toServer[i]
    <3>1. m \in Requests /\ i \in 1..Len(link[c].toServer) BY <2>1 DEF LinkFits
    <3>2. ServerSound(m) BY <3>1 DEF ServerMail
    <3> HIDE DEF m
    <3>3. /\ m = [type |-> m.type, seq |-> m.seq, arg |-> m.arg]
          /\ m.type \in RequestTypes /\ m.seq \in Nat /\ m.arg \in Nat
          /\ m.type # "chunk" => m.arg = 0
          /\ m.type \notin {"chunk", "reconnect"} => m.seq = 0
      BY <3>1 DEF Requests, Mail
    <3>4. m.seq \in 0..MaxFrames /\ m.arg \in 0..MaxFrames
      BY <1>1, <1>2, <3>2, <3>3 DEF ServerSound, Fed
    <3>5. m \in Messages(m.type) BY <3>3, <3>4 DEF Messages
    <3> QED BY <3>3, <3>5 DEF m, RequestTypes
  <2> QED BY <2>1, <2>2 DEF LinkFits, SockFits
<1>5. client.ws \in Sockets \cup {NoSocket} /\ client.stopping \in {"no", "capture", "flush"}
  BY <1>1 DEF IsClient
<1> QED BY <1>1, <1>2, <1>3, <1>4, <1>5 DEF TypeOK, ClientFits, StreamFits

-----------------------------------------------------------------------------
LEMMA RequestsAreMail ==
  ASSUME NEW type \in {"open", "commit", "close"}
  PROVE  <<Msg(type, 0, 0)>> \in Seq(Requests)
BY DEF Msg, Requests, RequestTypes, Mail, MailTypes

LEMMA ToServerFits ==
  ASSUME NEW l, LinksFit(l), NEW c, NEW ms \in Seq(Requests)
  PROVE  LinksFit(ToServer(l, c, ms))
<1> SUFFICES ASSUME NEW d \in Sockets PROVE LinkFits(ToServer(l, c, ms)[d])
  BY DEF ToServer, LinksFit
<1>1. LinkFits(l[d]) BY DEF LinksFit
<1>2. CASE d = c /\ l[d].state = "up"
  <2>1. ToServer(l, c, ms)[d] = [l[d] EXCEPT !.toServer = l[d].toServer \o ms]
    BY <1>2 DEF ToServer
  <2>2. l[d].toServer \o ms \in Seq(Requests) BY <1>1 DEF LinkFits
  <2> QED BY <1>1, <2>1, <2>2 DEF LinkFits
<1>3. CASE ~(d = c /\ l[d].state = "up") BY <1>1, <1>3 DEF ToServer
<1> QED BY <1>2, <1>3

LEMMA ToClientFits ==
  ASSUME NEW l, LinksFit(l), NEW c, NEW ms
  PROVE  LinksFit(ToClient(l, c, ms))
<1> SUFFICES ASSUME NEW d \in Sockets PROVE LinkFits(ToClient(l, c, ms)[d])
  BY DEF ToClient, LinksFit
<1>1. LinkFits(l[d]) BY DEF LinksFit
<1>2. CASE d = c /\ l[d].state = "up"
  <2> DEFINE s == l[d].toClient \o ms
  <2>1. ToClient(l, c, ms)[d] = [l[d] EXCEPT !.toClient = s] BY <1>2 DEF ToClient
  <2> HIDE DEF s
  <2> QED BY <1>1, <2>1 DEF LinkFits
<1>3. CASE ~(d = c /\ l[d].state = "up") BY <1>1, <1>3 DEF ToClient
<1> QED BY <1>2, <1>3

LEMMA ServerTookFits ==
  ASSUME NEW l, LinksFit(l), NEW c \in Sockets, l[c].toServer # <<>>
  PROVE  LinksFit(ServerTook(l, c))
<1>1. LinkFits(l[c]) BY DEF LinksFit
<1>2. Tail(l[c].toServer) \in Seq(Requests) BY <1>1 DEF LinkFits
<1>3. LinkFits([l[c] EXCEPT !.toServer = Tail(l[c].toServer)]) BY <1>1, <1>2 DEF LinkFits
<1> QED BY <1>3 DEF ServerTook, LinksFit

LEMMA ClientTookFits ==
  ASSUME NEW l, LinksFit(l), NEW c
  PROVE  LinksFit(ClientTook(l, c))
<1> DEFINE s == Tail(l[c].toClient)
<1>1. ClientTook(l, c) = [l EXCEPT ![c].toClient = s] BY DEF ClientTook
<1> HIDE DEF s
<1>2. ASSUME c \in Sockets PROVE LinkFits([l[c] EXCEPT !.toClient = s])
  BY <1>2 DEF LinksFit, LinkFits
<1> QED BY <1>1, <1>2 DEF LinksFit

LEMMA ClientHangsFits ==
  ASSUME NEW l, LinksFit(l), NEW c
  PROVE  LinksFit(ClientHangs(l, c))
<1> SUFFICES ASSUME NEW d \in Sockets PROVE LinkFits(ClientHangs(l, c)[d])
  BY DEF ClientHangs, LinksFit
<1>1. LinkFits(l[d]) BY DEF LinksFit
<1> QED BY <1>1 DEF ClientHangs, LinkFits

LEMMA ServerHangsFits ==
  ASSUME NEW l, LinksFit(l), NEW c \in Sockets
  PROVE  LinksFit(ServerHangs(l, c))
<1> DEFINE k == ServerHangs(l, c)
<1>1. LinkFits(l[c]) /\ <<>> \in Seq(Requests) BY DEF LinksFit
<1>2. DOMAIN k = Sockets /\ (\A d \in Sockets : d # c => k[d] = l[d])
      /\ k[c] = [l[c] EXCEPT !.state = "cut", !.toServer = <<>>]
  BY DEF ServerHangs, LinksFit
<1> HIDE DEF k
<1>3. k[c] = [state |-> "cut", toServer |-> <<>>, toClient |-> l[c].toClient]
  BY <1>1, <1>2 DEF LinkFits
<1>4. LinkFits(k[c]) BY <1>1, <1>3 DEF LinkFits
<1> QED BY <1>2, <1>4 DEF LinksFit, k

-----------------------------------------------------------------------------
(* The client's steps *)

LEMMA FlushedFits ==
  ASSUME NEW cl, IsClient(cl), NEW n, ClientFits(cl, n)
  PROVE  ClientFits(Flushed(cl), n)
<1> DEFINE z == Sendable(cl)
           q == SubSeq(cl.queue, z + 1, Len(cl.queue))
           f == [s \in DOMAIN cl.inFlight \cup Numbered(cl) |->
                   IF s \in Numbered(cl) THEN cl.queue[s - cl.next + 1] ELSE cl.inFlight[s]]
           m == cl.next + z
           k == Flushed(cl)
<1>1. k = [cl EXCEPT !.queue = q, !.inFlight = f, !.next = m] BY DEF Flushed
<1>2. ~cl.sid => m = cl.next
  <2>1. ~cl.sid => z = 0 BY DEF Sendable
  <2>2. cl.next \in Nat BY DEF IsClient
  <2> QED BY <2>1, <2>2
<1> HIDE DEF z, q, f, m, k
<1>3. k = [mode |-> cl.mode, sid |-> cl.sid, queue |-> q, inFlight |-> f,
           next |-> m, acked |-> cl.acked, ws |-> cl.ws, recovery |-> cl.recovery,
           attempt |-> cl.attempt, stopping |-> cl.stopping]
  BY <1>1 DEF IsClient
<1>4. /\ k.mode = cl.mode /\ k.sid = cl.sid /\ k.next = m /\ k.acked = cl.acked
      /\ k.recovery = cl.recovery /\ k.attempt = cl.attempt
  BY <1>3
<1>5. ClientFits(k, n) BY <1>2, <1>4 DEF ClientFits
<1> QED BY <1>5 DEF k

\* The client with other control fields, the same numbers, or fitting ones.
LEMMA ControlFits ==
  ASSUME NEW cl, NEW k, NEW n, ClientFits(cl, n),
         k.mode \in {cl.mode, "active", "committing", "idle"},
         k.recovery \in {cl.recovery, "no", "connecting", "reconnecting", "flushing"},
         k.attempt \in {cl.attempt, 0, 1},
         k.sid \/ (k.sid = cl.sid /\ k.next = cl.next /\ k.acked = cl.acked)
  PROVE  ClientFits(k, n)
<1>1. 0 \in 0..MaxAttempts /\ 1 \in 0..MaxAttempts BY AudioAssumption
<1>2. k.attempt \in 0..MaxAttempts BY <1>1 DEF ClientFits
<1> QED BY <1>2 DEF ClientFits

LEMMA ResetFits ==
  ASSUME NEW cl, IsClient(cl), NEW n \in Nat, ClientFits(cl, n)
  PROVE  ClientFits(Reset(cl), n) /\ Reset(cl).attempt = cl.attempt
<1> DEFINE k == Reset(cl)
<1>1. k = [cl EXCEPT !.sid = FALSE, !.queue = <<>>, !.inFlight = <<>>, !.next = 0, !.acked = 0]
  BY DEF Reset
<1> HIDE DEF k
<1>2. k.attempt = cl.attempt BY <1>1 DEF IsClient
<1>3. k.mode = cl.mode /\ k.recovery = cl.recovery /\ k.next = 0 /\ k.acked = 0
  BY ResetEffect DEF k
<1>4. ClientFits(k, n) BY <1>2, <1>3 DEF ClientFits
<1> QED BY <1>2, <1>4 DEF k

LEMMA FailedFits ==
  ASSUME NEW cl, IsClient(cl), NEW n \in Nat, ClientFits(cl, n)
  PROVE  ClientFits(Failed(cl), n) /\ IsClient(Failed(cl))
<1> DEFINE r == Reset(cl)
           k == Failed(cl)
<1>1. IsClient(r) /\ ClientFits(r, n) BY ResetEffect, ResetFits
<1>2. k = [r EXCEPT !.mode = "idle"] BY DEF Failed
<1> HIDE DEF r, k
<1>3. /\ IsClient(k) /\ k.mode = "idle" /\ k.sid = r.sid /\ k.next = r.next /\ k.acked = r.acked
      /\ k.recovery = r.recovery /\ k.attempt = r.attempt
  BY <1>1, <1>2 DEF IsClient
<1>4. ClientFits(k, n) BY <1>1, <1>3, ControlFits
<1> QED BY <1>3, <1>4 DEF k

LEMMA AttemptFailedFits ==
  ASSUME NEW cl, IsClient(cl), NEW n \in Nat, ClientFits(cl, n)
  PROVE  ClientFits(AttemptFailed(cl), n)
<1> DEFINE a == cl.attempt + 1
           g == Failed(cl)
           k == AttemptFailed(cl)
<1>1. CASE cl.attempt < MaxAttempts
  <2>1. k = [cl EXCEPT !.ws = NoSocket, !.recovery = "connecting", !.attempt = a]
    BY <1>1 DEF AttemptFailed
  <2>2. a \in 0..MaxAttempts BY <1>1, AudioAssumption DEF ClientFits
  <2> HIDE DEF a, k
  <2>3. /\ k.mode = cl.mode /\ k.sid = cl.sid /\ k.next = cl.next /\ k.acked = cl.acked
        /\ k.recovery = "connecting" /\ k.attempt = a
    BY <2>1 DEF IsClient
  <2>4. ClientFits(k, n) BY <2>2, <2>3 DEF ClientFits
  <2> QED BY <2>4 DEF k
<1>2. CASE ~(cl.attempt < MaxAttempts)
  <2>1. k = [g EXCEPT !.ws = NoSocket, !.recovery = "no", !.attempt = 0]
    BY <1>2 DEF AttemptFailed
  <2>2. IsClient(g) /\ ClientFits(g, n) BY FailedFits
  <2> HIDE DEF g, k
  <2>3. /\ k.mode = g.mode /\ k.sid = g.sid /\ k.next = g.next /\ k.acked = g.acked
        /\ k.recovery = "no" /\ k.attempt = 0
    BY <2>1, <2>2 DEF IsClient
  <2>4. ClientFits(k, n) BY <2>2, <2>3, ControlFits
  <2> QED BY <2>4 DEF k
<1> QED BY <1>1, <1>2

LEMMA StartRecoveryFits ==
  ASSUME NEW cl, IsClient(cl), NEW n, ClientFits(cl, n)
  PROVE  ClientFits(StartRecovery(cl), n)
<1> DEFINE k == StartRecovery(cl)
<1>1. k = [cl EXCEPT !.recovery = "connecting", !.attempt = 1] BY DEF StartRecovery
<1> HIDE DEF k
<1>2. /\ k.mode = cl.mode /\ k.sid = cl.sid /\ k.next = cl.next /\ k.acked = cl.acked
      /\ k.recovery = "connecting" /\ k.attempt = 1
  BY <1>1 DEF IsClient
<1>3. ClientFits(k, n) BY <1>2, ControlFits
<1> QED BY <1>3 DEF k

LEMMA AcknowledgedFits ==
  ASSUME NEW cl, IsClient(cl), NEW n, ClientFits(cl, n), NEW v \in Nat, v <= n
  PROVE  ClientFits(Acknowledged(cl, v), n)
<1> DEFINE f == [s \in Unaccepted(cl, v) |-> cl.inFlight[s]]
           k == Acknowledged(cl, v)
<1>1. k = [cl EXCEPT !.acked = v, !.inFlight = f] BY DEF Acknowledged
<1> HIDE DEF f, k
<1>2. /\ k.mode = cl.mode /\ k.sid = cl.sid /\ k.next = cl.next /\ k.acked = v
      /\ k.recovery = cl.recovery /\ k.attempt = cl.attempt
  BY <1>1 DEF IsClient
<1>3. ClientFits(k, n) BY <1>2 DEF ClientFits
<1> QED BY <1>3 DEF k

LEMMA ReconciledFits ==
  ASSUME NEW cl, IsClient(cl), NEW n, ClientFits(cl, n), NEW v \in Nat, v <= n
  PROVE  LET k == Reconciled(cl, v)
         IN  /\ ClientFits(k, n) /\ k.next = v /\ k.acked = v
             /\ k = [mode |-> k.mode, sid |-> k.sid, queue |-> k.queue, inFlight |-> k.inFlight,
                     next |-> k.next, acked |-> k.acked, ws |-> k.ws, recovery |-> k.recovery,
                     attempt |-> k.attempt, stopping |-> k.stopping]
<1> DEFINE q == Frames(cl, Unaccepted(cl, v)) \o cl.queue
           k == Reconciled(cl, v)
<1>1. k = [cl EXCEPT !.queue = q, !.inFlight = <<>>, !.acked = v, !.next = v] BY DEF Reconciled
<1> HIDE DEF q, k
<1>2. k = [mode |-> cl.mode, sid |-> cl.sid, queue |-> q, inFlight |-> <<>>, next |-> v,
           acked |-> v, ws |-> cl.ws, recovery |-> cl.recovery, attempt |-> cl.attempt,
           stopping |-> cl.stopping]
  BY <1>1 DEF IsClient
<1>3. /\ k.mode = cl.mode /\ k.next = v /\ k.acked = v
      /\ k.recovery = cl.recovery /\ k.attempt = cl.attempt
  BY <1>2
<1>4. ClientFits(k, n) BY <1>3 DEF ClientFits
<1> QED BY <1>2, <1>3, <1>4 DEF k

LEMMA ChunksFit ==
  ASSUME NEW cl, IsClient(cl), NEW n \in Nat, cl.sid => Contiguous(cl, n)
  PROVE  Chunks(cl) \in Seq(Requests)
<1> DEFINE s == Chunks(cl)
<1>1. s \in Seq(Mail) /\ \A i \in 1..Len(s) : s[i] \in Sent(cl, n) BY ChunksEffect
<1>2. \A m \in Sent(cl, n) : m \in Requests BY DEF Sent, Requests, RequestTypes
<1> HIDE DEF s
<1>3. s \in Seq(Requests) BY <1>1, <1>2
<1> QED BY <1>3 DEF s

\* The client's state becomes cl, and then it sends what it can.
LEMMA FlushFits ==
  ASSUME NEW cl, IsClient(cl), NEW n \in Nat, cl.sid => Contiguous(cl, n), ClientFits(cl, n),
         NEW l, LinksFit(l), client' = Flushed(cl), link' = ToServer(l, cl.ws, Chunks(cl))
  PROVE  ClientFits(client', n) /\ LinksFit(link')
<1> DEFINE s == Chunks(cl)
<1>1. s \in Seq(Requests) BY ChunksFit
<1>2. link' = ToServer(l, cl.ws, s) OBVIOUS
<1> HIDE DEF s
<1>3. LinksFit(link') BY <1>1, <1>2, ToServerFits
<1> QED BY <1>3, FlushedFits

\* What the client may do to its links without more frames.
LEMMA RequestFits ==
  ASSUME NEW l, LinksFit(l), NEW type \in {"open", "commit", "close"},
         link' = l \/ link' = ToServer(l, client.ws, <<Msg(type, 0, 0)>>)
  PROVE  LinksFit(link')
<1> DEFINE s == <<Msg(type, 0, 0)>>
<1>1. s \in Seq(Requests) BY RequestsAreMail
<1>2. link' = l \/ link' = ToServer(l, client.ws, s) OBVIOUS
<1> HIDE DEF s
<1> QED BY <1>1, <1>2, ToServerFits

ClientKeepsFit == ClientFits(client', captured') /\ LinksFit(link')

LEMMA CaptureFits ==
  ASSUME AudioInv, Fits, Capture
  PROVE  captured' <= MaxFrames /\ ClientKeepsFit
<1> DEFINE q == Append(client.queue, captured + 1)
           cl == WithQueue(client, q)
<1>1. /\ IsClient(client) /\ captured' = captured + 1 /\ captured < MaxFrames
      /\ captured \in Nat /\ captured + 1 \in Nat /\ MaxFrames \in Nat /\ client.mode = "active"
  BY AudioAssumption DEF Capture, AudioInv, Shaped
<1>2. \/ client' = Flushed(cl) /\ link' = ToServer(link, cl.ws, Chunks(cl))
      \/ client' = Failed(cl) /\ UNCHANGED link
  BY DEF Capture, Flush, WithQueue
<1>3. q \in Seq(Nat) /\ cl = WithQueue(client, q) BY <1>1 DEF IsClient
<1>4. /\ Len(q) = Len(client.queue) + 1 /\ q[Len(client.queue) + 1] = captured + 1
      /\ \A i \in 1..Len(client.queue) : q[i] = client.queue[i]
  <2>1. client.queue \in Seq(Nat) BY <1>1 DEF IsClient
  <2> QED BY <1>1, <2>1
<1> HIDE DEF q, cl
<1>5. /\ IsClient(cl) /\ cl.sid = client.sid /\ cl.inFlight = client.inFlight
      /\ cl.queue = q /\ cl.next = client.next /\ cl.acked = client.acked
      /\ cl.mode = client.mode /\ cl.recovery = client.recovery
  BY <1>1, <1>3, WithQueueEffect
<1>6. cl.attempt = client.attempt BY <1>1, <1>3 DEF WithQueue, IsClient
<1>7. cl.sid => Contiguous(cl, captured + 1)
  <2> SUFFICES ASSUME client.sid PROVE Contiguous(cl, captured + 1) BY <1>5
  <2>1. Contiguous(client, captured) /\ client.next + Len(client.queue) = captured
    BY <1>1 DEF AudioInv, Numbers, Exact
  <2> QED BY <1>1, <1>4, <1>5, <2>1, QueuedContiguous
<1>8. ClientFits(cl, captured + 1)
  <2>1. ClientFits(client, captured) BY DEF Fits
  <2>2. client.next \in Nat /\ client.acked \in Nat BY <1>1 DEF IsClient
  <2>3. ~cl.sid => cl.next <= captured + 1 /\ cl.acked <= captured + 1
    BY <1>1, <1>5, <2>1, <2>2 DEF ClientFits
  <2> QED BY <1>5, <1>6, <2>1, <2>3 DEF ClientFits
<1>9. LinksFit(link) BY DEF Fits
<1>10. CASE client' = Flushed(cl) /\ link' = ToServer(link, cl.ws, Chunks(cl))
  <2>1. ClientFits(client', captured + 1) /\ LinksFit(link')
    BY <1>1, <1>5, <1>7, <1>8, <1>9, <1>10, FlushFits
  <2> QED BY <1>1, <2>1 DEF ClientKeepsFit
<1>11. CASE client' = Failed(cl) /\ UNCHANGED link
  <2>1. ClientFits(client', captured + 1) BY <1>1, <1>5, <1>8, <1>11, FailedFits
  <2> QED BY <1>1, <1>9, <1>11, <2>1 DEF ClientKeepsFit
<1> QED BY <1>1, <1>2, <1>10, <1>11

LEMMA StopFits ==
  ASSUME AudioInv, Fits, Stop \/ StopCommits \/ RecoveryCommits \/ OpenTimesOut
  PROVE  ClientKeepsFit
<1>1. IsClient(client) /\ ClientFits(client, captured) /\ LinksFit(link) /\ UNCHANGED captured
  BY DEF AudioInv, Shaped, Fits, Stop, StopCommits, RecoveryCommits, OpenTimesOut, microphone
<1>2. LinksFit(link')
  <2>1. link' = link \/ link' = ToServer(link, client.ws, <<Msg("commit", 0, 0)>>)
    BY DEF Stop, StopCommits, RecoveryCommits, OpenTimesOut
  <2> QED BY <1>1, <2>1, RequestFits
<1>3. CASE Stop \/ RecoveryCommits \/ OpenTimesOut
  <2>1. \/ client' = [client EXCEPT !.mode = "committing", !.stopping = "capture"]
        \/ client' = [client EXCEPT !.recovery = "no", !.attempt = 0]
        \/ client' = [client EXCEPT !.mode = "idle"]
    BY <1>3 DEF Stop, RecoveryCommits, OpenTimesOut
  <2>2. /\ client'.mode \in {client.mode, "committing", "idle"}
        /\ client'.recovery \in {client.recovery, "no"} /\ client'.attempt \in {client.attempt, 0}
        /\ client'.sid = client.sid /\ client'.next = client.next /\ client'.acked = client.acked
    BY <1>1, <2>1 DEF IsClient
  <2> QED BY <1>1, <1>2, <2>2, ControlFits DEF ClientKeepsFit
<1>4. CASE StopCommits
  <2> DEFINE done == [client EXCEPT !.stopping = "no"]
  <2>1. client' = done \/ client' = StartRecovery(done) BY <1>4 DEF StopCommits
  <2>2. done = Stopped(client) BY DEF Stopped
  <2>3. done.attempt = client.attempt BY <1>1 DEF IsClient
  <2> HIDE DEF done
  <2>4. /\ SameFrames(client, done) /\ done.mode = client.mode /\ done.recovery = client.recovery
    BY <1>1, <2>2, StoppedEffect
  <2>5. ClientFits(done, captured) BY <1>1, <2>3, <2>4, ControlFits DEF SameFrames
  <2>6. ClientFits(client', captured) BY <2>1, <2>4, <2>5, StartRecoveryFits DEF SameFrames
  <2> QED BY <1>1, <1>2, <2>6 DEF ClientKeepsFit
<1> QED BY <1>3, <1>4

LEMMA CaptureStopsFits ==
  ASSUME AudioInv, Fits, CaptureStops
  PROVE  captured' <= MaxFrames /\ ClientKeepsFit
<1> DEFINE q == Append(client.queue, captured + 1)
           k == Flushing(client)
           cl == WithQueue(k, q)
<1>1. /\ IsClient(client) /\ ClientFits(client, captured) /\ LinksFit(link)
      /\ client.stopping = "capture" /\ captured <= MaxFrames
      /\ captured \in Nat /\ captured + 1 \in Nat /\ MaxFrames \in Nat
  BY AudioAssumption DEF CaptureStops, AudioInv, Shaped, Fits
<1>2. \/ /\ client.sid /\ captured < MaxFrames /\ captured' = captured + 1
         /\ client' = Flushed(cl) /\ link' = ToServer(link, cl.ws, Chunks(cl))
      \/ client' = k /\ UNCHANGED <<captured, link>>
  BY DEF CaptureStops, Flush, WithQueue, Flushing
<1>3. q \in Seq(Nat) /\ k = Flushing(client) /\ cl = WithQueue(k, q) BY <1>1 DEF IsClient
<1>4. /\ Len(q) = Len(client.queue) + 1 /\ q[Len(client.queue) + 1] = captured + 1
      /\ \A i \in 1..Len(client.queue) : q[i] = client.queue[i]
  <2>1. client.queue \in Seq(Nat) BY <1>1 DEF IsClient
  <2> QED BY <1>1, <2>1
<1>a. k.attempt = client.attempt /\ cl.attempt = k.attempt
  BY <1>1 DEF Flushing, WithQueue, IsClient
<1> HIDE DEF q, k, cl
<1>5. /\ SameFrames(client, k) /\ k.mode = client.mode /\ k.ws = client.ws
      /\ k.recovery = client.recovery
  BY <1>1, <1>3, FlushingEffect
<1>6. /\ IsClient(cl) /\ cl.sid = k.sid /\ cl.inFlight = k.inFlight /\ cl.mode = k.mode
      /\ cl.queue = q /\ cl.next = k.next /\ cl.acked = k.acked /\ cl.recovery = k.recovery
  <2>1. IsClient(k) BY <1>5 DEF SameFrames
  <2> QED BY <1>3, <2>1, WithQueueEffect
<1>7. ClientFits(k, captured) BY <1>1, <1>5, <1>a, ControlFits DEF SameFrames
<1>8. CASE client' = k /\ UNCHANGED <<captured, link>> BY <1>1, <1>7, <1>8 DEF ClientKeepsFit
<1>9. CASE /\ client.sid /\ captured < MaxFrames /\ captured' = captured + 1
           /\ client' = Flushed(cl) /\ link' = ToServer(link, cl.ws, Chunks(cl))
  <2>1. /\ cl.sid /\ cl.inFlight = client.inFlight /\ cl.next = client.next
        /\ cl.acked = client.acked
    BY <1>5, <1>6, <1>9 DEF SameFrames
  <2>2. Contiguous(client, captured) /\ client.next + Len(client.queue) = captured
    BY <1>1, <1>9 DEF AudioInv, Numbers, Exact
  <2>3. Contiguous(cl, captured + 1) BY <1>1, <1>4, <1>6, <2>1, <2>2, QueuedContiguous
  <2>4. ClientFits(cl, captured + 1) BY <1>6, <1>7, <1>a, <2>1 DEF ClientFits
  <2>5. ClientFits(client', captured + 1) /\ LinksFit(link')
    BY <1>1, <1>6, <1>9, <2>3, <2>4, FlushFits
  <2> QED BY <1>1, <1>9, <2>5 DEF ClientKeepsFit
<1> QED BY <1>2, <1>8, <1>9

LEMMA PollFits ==
  ASSUME AudioInv, Fits, Poll
  PROVE  ClientKeepsFit
<1>1. /\ client' = Flushed(client) /\ link' = ToServer(link, client.ws, Chunks(client))
      /\ IsClient(client) /\ ClientFits(client, captured) /\ LinksFit(link)
      /\ captured' = captured /\ captured \in Nat
  BY DEF AudioInv, Shaped, Fits, Poll, Flush, microphone
<1>2. client.sid => Contiguous(client, captured) BY DEF AudioInv, Numbers
<1>3. ClientFits(client', captured) /\ LinksFit(link') BY <1>1, <1>2, FlushFits
<1> QED BY <1>1, <1>3 DEF ClientKeepsFit

LEMMA CancelFits ==
  ASSUME AudioInv, Fits, UserCancel \/ StopTimesOut
  PROVE  ClientKeepsFit
<1>1. IsClient(client) /\ ClientFits(client, captured) /\ LinksFit(link) /\ captured \in Nat
  BY DEF AudioInv, Shaped, Fits
<1>2. PICK cl \in {client, Stopped(client)} : CancelCapture(cl)
  BY DEF UserCancel, StopTimesOut, Stopped
<1>3. Stopped(client).attempt = client.attempt /\ Stopped(client).ws = client.ws
  BY <1>1 DEF Stopped, IsClient
<1>4. /\ SameFrames(client, cl) /\ cl.mode = client.mode /\ cl.recovery = client.recovery
      /\ cl.attempt = client.attempt /\ cl.ws = client.ws
  BY <1>1, <1>2, <1>3, StoppedEffect DEF SameFrames
<1>5. ClientFits(cl, captured) BY <1>1, <1>4, ControlFits DEF SameFrames
<1>6. client' = Failed(cl) /\ UNCHANGED captured BY <1>2 DEF CancelCapture, Failed, microphone
<1>7. ClientFits(client', captured) BY <1>1, <1>4, <1>5, <1>6, FailedFits DEF SameFrames
<1>8. link' = link \/ link' = ToServer(link, client.ws, <<Msg("close", 0, 0)>>)
  BY <1>2, <1>4 DEF CancelCapture
<1>9. LinksFit(link') BY <1>1, <1>8, RequestFits
<1> QED BY <1>6, <1>7, <1>9 DEF ClientKeepsFit

LEMMA RetryFits ==
  ASSUME AudioInv, Fits, RetryOrGiveUp
  PROVE  ClientKeepsFit
<1>1. IsClient(client) /\ ClientFits(client, captured) /\ LinksFit(link) /\ captured \in Nat
      /\ UNCHANGED captured /\ client' = AttemptFailed(client) /\ link' = ClientHangs(link, client.ws)
  BY DEF AudioInv, Shaped, Fits, RetryOrGiveUp, microphone
<1>2. ClientFits(client', captured) BY <1>1, AttemptFailedFits
<1>3. LinksFit(link') BY <1>1, ClientHangsFits
<1> QED BY <1>1, <1>2, <1>3 DEF ClientKeepsFit

LEMMA NoticeCutFits ==
  ASSUME AudioInv, Fits, NoticeCut
  PROVE  ClientKeepsFit
<1> DEFINE lost == Lost(client)
<1>1. IsClient(client) /\ ClientFits(client, captured) /\ LinksFit(link) /\ captured \in Nat
      /\ UNCHANGED <<captured, overtaken, link>>
  BY DEF AudioInv, Shaped, Fits, NoticeCut, microphone
<1>2. client' = lost \/ client' = StartRecovery(lost) \/ client' = Failed(lost)
  BY DEF NoticeCut, Lost
<1>3. lost.attempt = client.attempt /\ lost = Lost(client) BY <1>1 DEF Lost, IsClient
<1> HIDE DEF lost
<1>4. /\ SameFrames(client, lost) /\ lost.mode = client.mode /\ lost.recovery = client.recovery
  BY <1>1, <1>3, LostEffect
<1>5. ClientFits(lost, captured) /\ IsClient(lost) BY <1>1, <1>3, <1>4, ControlFits DEF SameFrames
<1>6. ClientFits(client', captured) BY <1>1, <1>2, <1>5, StartRecoveryFits, FailedFits
<1> QED BY <1>1, <1>6 DEF ClientKeepsFit

LEMMA TookFits ==
  ASSUME AudioInv, Fits
  PROVE  /\ IsClient(client) /\ ClientFits(client, captured) /\ LinksFit(link)
         /\ LinksFit(Took) /\ captured \in Nat /\ stream.next \in Nat /\ stream.next <= captured
<1>1. /\ IsClient(client) /\ ClientFits(client, captured) /\ LinksFit(link)
      /\ captured \in Nat /\ stream.next \in Nat /\ stream.next <= captured
  BY DEF AudioInv, Shaped, IsStream, Fed, Fits
<1> QED BY <1>1, ClientTookFits DEF Took

LEMMA OnOpenedFits ==
  ASSUME AudioInv, Fits, OnOpened \/ OnFinal \/ OnClosed
  PROVE  ClientKeepsFit
<1>1. /\ IsClient(client) /\ ClientFits(client, captured) /\ LinksFit(Took) /\ captured \in Nat
      /\ UNCHANGED captured
  BY TookFits DEF OnOpened, OnFinal, OnClosed, microphone
<1>2. LinksFit(link')
  <2>1. link' = Took \/ link' = ToServer(Took, client.ws, <<Msg("close", 0, 0)>>)
    BY DEF OnOpened, OnFinal, OnClosed
  <2> QED BY <1>1, <2>1, RequestFits
<1>3. CASE OnOpened
  <2> DEFINE mode == IF client.mode = "opening" THEN "active" ELSE client.mode
  <2>1. client' = [client EXCEPT !.sid = TRUE, !.mode = mode] BY <1>3 DEF OnOpened
  <2>2. mode \in {client.mode, "active"} OBVIOUS
  <2> HIDE DEF mode
  <2>3. /\ client'.sid /\ client'.mode = mode /\ client'.recovery = client.recovery
        /\ client'.attempt = client.attempt
    BY <1>1, <2>1 DEF IsClient
  <2> QED BY <1>1, <1>2, <2>2, <2>3, ControlFits DEF ClientKeepsFit
<1>4. CASE OnFinal
  <2>1. client' = [client EXCEPT !.mode = "idle"] BY <1>4 DEF OnFinal
  <2>2. /\ client'.mode = "idle" /\ client'.recovery = client.recovery
        /\ client'.attempt = client.attempt /\ client'.sid = client.sid
        /\ client'.next = client.next /\ client'.acked = client.acked
    BY <1>1, <2>1 DEF IsClient
  <2> QED BY <1>1, <1>2, <2>2, ControlFits DEF ClientKeepsFit
<1>5. CASE OnClosed
  <2>1. ClientFits(client', captured) BY <1>1, <1>5, ResetFits DEF OnClosed
  <2> QED BY <1>1, <1>2, <2>1 DEF ClientKeepsFit
<1> QED BY <1>3, <1>4, <1>5

LEMMA OnErrorFits ==
  ASSUME AudioInv, Fits, OnError
  PROVE  ClientKeepsFit
<1>1. /\ IsClient(client) /\ ClientFits(client, captured) /\ LinksFit(Took) /\ captured \in Nat
      /\ UNCHANGED captured
  BY TookFits DEF OnError, microphone
<1>2. \/ client' = AttemptFailed(client) /\ link' = ClientHangs(Took, client.ws)
      \/ client' = Failed(client) /\ link' = Took
  BY DEF OnError
<1>3. ClientFits(client', captured) BY <1>1, <1>2, AttemptFailedFits, FailedFits
<1>4. LinksFit(link')
  <2> DEFINE l == Took
  <2>1. LinksFit(l) /\ (link' = ClientHangs(l, client.ws) \/ link' = l) BY <1>1, <1>2
  <2> HIDE DEF l
  <2> QED BY <2>1, ClientHangsFits
<1> QED BY <1>1, <1>3, <1>4 DEF ClientKeepsFit

LEMMA OnAckFits ==
  ASSUME AudioInv, Fits, OnAck
  PROVE  ClientKeepsFit
<1> DEFINE v == Arrived.seq
           cl == Acknowledged(client, v)
           l == Took
<1>1. /\ IsClient(client) /\ ClientFits(client, captured) /\ LinksFit(l)
      /\ captured \in Nat /\ stream.next \in Nat /\ stream.next <= captured
  BY TookFits
<1>2. Arrives("ack") /\ UNCHANGED captured BY DEF OnAck, microphone
<1>3. \/ client' = Ending(cl) /\ link' = l
      \/ client' = Flushed(cl) /\ link' = ToServer(l, cl.ws, Chunks(cl))
  BY DEF OnAck, Flush, Ending
<1>4. v \in Nat /\ v <= stream.next /\ (client.sid => client.acked <= v)
  BY <1>2, TookCursor
<1>5. cl = Acknowledged(client, v) OBVIOUS
<1> HIDE DEF v, cl, l
<1>6. v <= captured BY <1>1, <1>4
<1>7. ClientFits(cl, captured) BY <1>1, <1>4, <1>5, <1>6, AcknowledgedFits
<1>8. /\ IsClient(cl) /\ cl.sid = client.sid /\ cl.queue = client.queue
      /\ cl.next = client.next /\ cl.acked = v
      /\ DOMAIN cl.inFlight = Unaccepted(client, v)
      /\ \A s \in Unaccepted(client, v) : cl.inFlight[s] = client.inFlight[s]
  <2>1. IsClient(client) BY <1>1
  <2>2. v \in Nat BY <1>4
  <2> QED BY ONLY <1>5, <2>1, <2>2, AcknowledgedEffect
<1>9. cl.sid => Contiguous(cl, captured)
  <2> SUFFICES ASSUME client.sid PROVE Contiguous(cl, captured) BY <1>8
  <2>1. Contiguous(client, captured) /\ stream.next <= client.next BY DEF AudioInv, Numbers
  <2>2. v <= client.next BY <1>1, <1>4, <2>1 DEF IsClient
  <2> QED BY <1>1, <1>4, <1>8, <2>1, <2>2, AcknowledgedContiguous
<1>10. CASE client' = Flushed(cl) /\ link' = ToServer(l, cl.ws, Chunks(cl))
  <2>1. ClientFits(client', captured) /\ LinksFit(link')
    BY <1>1, <1>7, <1>8, <1>9, <1>10, FlushFits
  <2> QED BY <1>2, <2>1 DEF ClientKeepsFit
<1>11. CASE client' = Ending(cl) /\ link' = l
  <2>1. client' = [cl EXCEPT !.mode = "committing", !.queue = <<>>] BY <1>11 DEF Ending
  <2>2. /\ client'.mode = "committing" /\ client'.recovery = cl.recovery
        /\ client'.attempt = cl.attempt /\ client'.sid = cl.sid
        /\ client'.next = cl.next /\ client'.acked = cl.acked
    BY <1>8, <2>1 DEF IsClient
  <2>3. ClientFits(client', captured) BY <1>7, <2>2, ControlFits
  <2> QED BY <1>1, <1>2, <1>11, <2>3 DEF ClientKeepsFit
<1> QED BY <1>3, <1>10, <1>11

LEMMA OnReconnectedFits ==
  ASSUME AudioInv, Fits, OnReconnected
  PROVE  ClientKeepsFit
<1> DEFINE v == Arrived.seq
           k == IF client.mode = "committing" THEN Replaying(client, v) ELSE Resumed(client, v)
           l == Took
           r == Reconciled(client, v)
<1>1. /\ IsClient(client) /\ ClientFits(client, captured) /\ LinksFit(l)
      /\ captured \in Nat /\ stream.next \in Nat /\ stream.next <= captured
  BY TookFits
<1>2. Arrives("reconnected") /\ UNCHANGED captured BY DEF OnReconnected, microphone
<1>3. client' = Flushed(k) /\ link' = ToServer(l, k.ws, Chunks(k))
  BY DEF OnReconnected, Flush, Replaying, Resumed
<1>4. v \in Nat /\ v <= stream.next /\ (client.sid => client.acked <= v)
  BY <1>2, TookCursor
<1>5. k = Replaying(client, v) \/ k = Resumed(client, v) OBVIOUS
<1>6. k = [r EXCEPT !.recovery = "flushing"] \/ k = [r EXCEPT !.recovery = "no", !.attempt = 0]
  BY DEF Replaying, Resumed
<1>7. r = Reconciled(client, v) OBVIOUS
<1> HIDE DEF v, k, l, r
<1>8. IsClient(k) /\ (k.sid => Contiguous(k, captured)) BY <1>4, <1>5, ReconciledContiguous
<1>9. v <= captured BY <1>1, <1>4
<1>10. /\ ClientFits(r, captured)
       /\ r = [mode |-> r.mode, sid |-> r.sid, queue |-> r.queue, inFlight |-> r.inFlight,
               next |-> r.next, acked |-> r.acked, ws |-> r.ws, recovery |-> r.recovery,
               attempt |-> r.attempt, stopping |-> r.stopping]
  BY <1>1, <1>4, <1>7, <1>9, ReconciledFits
<1>11. /\ k.mode = r.mode /\ k.sid = r.sid /\ k.next = r.next /\ k.acked = r.acked
       /\ k.recovery \in {"flushing", "no"} /\ k.attempt \in {r.attempt, 0}
  BY <1>6, <1>10
<1>12. ClientFits(k, captured) BY <1>10, <1>11, ControlFits
<1>13. ClientFits(client', captured) /\ LinksFit(link')
  BY <1>1, <1>3, <1>8, <1>12, FlushFits
<1> QED BY <1>2, <1>13 DEF ClientKeepsFit

LEMMA SocksStep ==
  ASSUME NEW ss, SocksFit(ss), NEW c \in Sockets, NEW s, SockFits(s), NEW t, t = [ss EXCEPT ![c] = s]
  PROVE  SocksFit(t)
BY DEF SocksFit

Alive(s) == [s EXCEPT !.alive = TRUE]

LEMMA AliveFits ==
  ASSUME NEW s, SockFits(s)
  PROVE  SockFits(Alive(s))
<1> DEFINE t == Alive(s)
<1>1. t = [s EXCEPT !.alive = TRUE] BY DEF Alive
<1> HIDE DEF t
<1>2. t = [alive |-> TRUE, attached |-> s.attached, busy |-> s.busy, frame |-> s.frame,
           seq |-> s.seq, pump |-> s.pump]
  BY <1>1 DEF SockFits
<1>3. /\ t.alive /\ t.busy = s.busy
      /\ t = [alive |-> t.alive, attached |-> t.attached, busy |-> t.busy, frame |-> t.frame,
              seq |-> t.seq, pump |-> t.pump]
  BY <1>2
<1>4. SockFits(t) BY <1>3 DEF SockFits
<1> QED BY <1>4 DEF t

LEMMA ConnectFits ==
  ASSUME AudioInv, Fits, NEW c \in Sockets, Connect(c)
  PROVE  ClientKeepsFit /\ SocksFit(sock')
<1> DEFINE m == Msg("reconnect", client.acked, 0)
<1>1. /\ IsClient(client) /\ ClientFits(client, captured) /\ LinksFit(link) /\ SocksFit(sock)
      /\ UNCHANGED captured /\ client' = Connecting(client, c)
      /\ link' = [link EXCEPT ![c] = [state |-> "up", toClient |-> <<>>, toServer |-> <<m>>]]
      /\ sock' = [sock EXCEPT ![c].alive = TRUE]
  BY DEF AudioInv, Shaped, Fits, Connect, Cursor, Connecting, microphone
<1>2. ClientFits(client', captured)
  <2>1. client'.attempt = client.attempt BY <1>1 DEF Connecting, IsClient
  <2>2. SameFrames(client, client') /\ client'.mode = client.mode /\ client'.recovery = "reconnecting"
    BY <1>1, ConnectingEffect
  <2> QED BY <1>1, <2>1, <2>2, ControlFits DEF SameFrames
<1>3. <<m>> \in Seq(Requests)
  <2>1. client.acked \in Nat BY <1>1 DEF IsClient
  <2>2. m \in Requests BY <2>1 DEF Msg, Requests, RequestTypes, Mail, MailTypes
  <2> QED BY <2>2
<1> HIDE DEF m
<1>4. LinkFits([state |-> "up", toClient |-> <<>>, toServer |-> <<m>>]) BY <1>3 DEF LinkFits
<1>5. LinksFit(link') BY <1>1, <1>4 DEF LinksFit
<1>6. SocksFit(sock')
  <2>1. SockFits(sock[c]) BY <1>1 DEF SocksFit
  <2>2. sock' = [sock EXCEPT ![c] = Alive(sock[c])] BY <1>1 DEF Alive
  <2>3. SockFits(Alive(sock[c])) BY <2>1, AliveFits
  <2> QED BY <1>1, <2>2, <2>3, SocksStep
<1> QED BY <1>1, <1>2, <1>5, <1>6 DEF ClientKeepsFit

LEMMA ClientStepsFit ==
  ASSUME AudioInv, Fits, ClientSteps
  PROVE  Fits'
<1>1. CASE Capture
  <2>1. captured' <= MaxFrames /\ ClientKeepsFit BY <1>1, CaptureFits
  <2>2. UNCHANGED <<overtaken, sock, stream>> BY <1>1 DEF Capture, serverVars
  <2> QED BY <2>1, <2>2 DEF Fits, ClientKeepsFit, SocksFit, StreamFits
<1>9. CASE CaptureStops
  <2>1. captured' <= MaxFrames /\ ClientKeepsFit BY <1>9, CaptureStopsFits
  <2>2. UNCHANGED <<overtaken, sock, stream>> BY <1>9 DEF CaptureStops, serverVars
  <2> QED BY <2>1, <2>2 DEF Fits, ClientKeepsFit, SocksFit, StreamFits
<1>2. ASSUME ClientKeepsFit, overtaken' \in BOOLEAN, UNCHANGED <<captured, sock, stream>> PROVE Fits'
  BY <1>2 DEF Fits, ClientKeepsFit, SocksFit, StreamFits
<1>3. ASSUME NEW c \in Sockets, Connect(c) PROVE Fits'
  <2>1. ClientKeepsFit /\ SocksFit(sock') BY <1>3, ConnectFits
  <2>2. UNCHANGED <<captured, overtaken, stream>> BY <1>3 DEF Connect, microphone
  <2> QED BY <2>1, <2>2 DEF Fits, ClientKeepsFit, StreamFits
<1>4. CASE Stop \/ StopCommits \/ RecoveryCommits \/ OpenTimesOut
  <2>3. overtaken' \in BOOLEAN
    BY <1>4 DEF Stop, StopCommits, RecoveryCommits, OpenTimesOut, microphone, Fits
  <2>1. UNCHANGED <<captured, sock, stream>>
    BY <1>4 DEF Stop, StopCommits, RecoveryCommits, OpenTimesOut, microphone, serverVars
  <2> QED BY <1>2, <1>4, <2>1, <2>3, StopFits
<1>5. CASE Poll \/ NoticeCut
  <2>1. UNCHANGED <<captured, overtaken, sock, stream>> BY <1>5 DEF Poll, NoticeCut, microphone, serverVars
  <2> QED BY <1>2, <1>5, <2>1, PollFits, NoticeCutFits DEF Fits
<1>6. CASE UserCancel \/ StopTimesOut
  <2>1. UNCHANGED <<captured, overtaken, sock, stream>>
    BY <1>6 DEF UserCancel, StopTimesOut, CancelCapture, microphone, serverVars
  <2> QED BY <1>2, <1>6, <2>1, CancelFits DEF Fits
<1>7. CASE ConnectFails \/ ReconnectTimesOut \/ FlushTimesOut
  <2>1. RetryOrGiveUp BY <1>7 DEF ConnectFails, ReconnectTimesOut, FlushTimesOut
  <2>2. UNCHANGED <<captured, overtaken, sock, stream>> BY <2>1 DEF RetryOrGiveUp, microphone, serverVars
  <2> QED BY <1>2, <2>1, <2>2, RetryFits DEF Fits
<1>8. CASE ClientReceives
  <2>1. UNCHANGED <<captured, overtaken, sock, stream>>
    BY <1>8 DEF ClientReceives, OnOpened, OnAck, OnReconnected, OnFinal, OnClosed, OnError,
       microphone, serverVars
  <2> QED BY <1>2, <1>8, <2>1, OnOpenedFits, OnAckFits, OnReconnectedFits, OnErrorFits
          DEF ClientReceives, Fits
<1> QED BY <1>1, <1>3, <1>4, <1>5, <1>6, <1>7, <1>8, <1>9 DEF ClientSteps

-----------------------------------------------------------------------------
(* The sockets' steps *)

Busy == {"no", "push", "endpoint", "commit", "close"}

LEMMA SetBusyFits ==
  ASSUME NEW s, SockFits(s), NEW busy \in Busy, NEW t, t = [s EXCEPT !.busy = busy]
  PROVE  SockFits(t)
<1>1. /\ t.busy = busy /\ t.alive = s.alive /\ t.attached = s.attached
      /\ t = [alive |-> t.alive, attached |-> t.attached, busy |-> t.busy, frame |-> t.frame,
              seq |-> t.seq, pump |-> t.pump]
  BY DEF SockFits
<1> QED BY <1>1 DEF SockFits, Busy

LEMMA PushedFits ==
  ASSUME NEW s, SockFits(s), NEW frame, NEW seq, NEW t, t = Pushed(s, frame, seq)
  PROVE  SockFits(t)
<1>1. /\ t.busy = "push" /\ t.alive = s.alive /\ t.attached = s.attached
      /\ t = [alive |-> t.alive, attached |-> t.attached, busy |-> t.busy, frame |-> t.frame,
              seq |-> t.seq, pump |-> t.pump]
  BY DEF SockFits, Pushed
<1> QED BY <1>1 DEF SockFits

LEMMA HeededFits ==
  ASSUME NEW s, SockFits(s), NEW busy \in Busy, NEW t, t = Heeded(s, busy)
  PROVE  SockFits(t)
<1>1. /\ t.busy = busy /\ t.alive = s.alive /\ t.attached = s.attached
      /\ t = [alive |-> t.alive, attached |-> t.attached, busy |-> t.busy, frame |-> t.frame,
              seq |-> t.seq, pump |-> t.pump]
  BY DEF SockFits, Heeded
<1> QED BY <1>1 DEF SockFits, Busy

Attaching(s) == [s EXCEPT !.attached = TRUE, !.pump = TRUE]

LEMMA AttachFits ==
  ASSUME NEW s, SockFits(s), s.alive, NEW t, t = Attaching(s)
  PROVE  SockFits(t)
<1>1. /\ t.busy = s.busy /\ t.alive = s.alive
      /\ t = [alive |-> t.alive, attached |-> t.attached, busy |-> t.busy, frame |-> t.frame,
              seq |-> t.seq, pump |-> t.pump]
  BY DEF SockFits, Attaching
<1> QED BY <1>1 DEF SockFits

Detached(s) == [s EXCEPT !.busy = "no", !.attached = FALSE, !.pump = FALSE]

LEMMA DetachFits ==
  ASSUME NEW s, SockFits(s), NEW t, t = Detached(s)
  PROVE  SockFits(t)
<1>1. /\ t.busy = "no" /\ ~t.attached
      /\ t = [alive |-> t.alive, attached |-> t.attached, busy |-> t.busy, frame |-> t.frame,
              seq |-> t.seq, pump |-> t.pump]
  BY DEF SockFits, Detached
<1> QED BY <1>1 DEF SockFits

LEMMA PumpingFits ==
  ASSUME NEW s, SockFits(s), NEW p, NEW t, t = [s EXCEPT !.pump = p]
  PROVE  SockFits(t)
<1>1. /\ t.busy = s.busy /\ t.alive = s.alive /\ t.attached = s.attached
      /\ t = [alive |-> t.alive, attached |-> t.attached, busy |-> t.busy, frame |-> t.frame,
              seq |-> t.seq, pump |-> t.pump]
  BY DEF SockFits
<1> QED BY <1>1 DEF SockFits

LEMMA ClosedFits ==
  ASSUME NEW s, SockFits(s), NEW keepPump, NEW t, t = Closed(s, keepPump)
  PROVE  SockFits(t)
<1> DEFINE p == s.pump /\ keepPump
<1>1. t = [s EXCEPT !.alive = FALSE, !.attached = FALSE, !.busy = "no",
                    !.frame = 0, !.seq = 0, !.pump = p]
  BY DEF Closed
<1> HIDE DEF p
<1>2. t = [alive |-> FALSE, attached |-> FALSE, busy |-> "no", frame |-> 0, seq |-> 0, pump |-> p]
  BY <1>1 DEF SockFits
<1> QED BY <1>2 DEF SockFits

LEMMA EndsFit ==
  ASSUME NEW l, LinksFit(l), SocksFit(sock), NEW c \in Sockets, Refuse(c, l) \/ Die(c, l)
  PROVE  LinksFit(link') /\ SocksFit(sock')
<1>1. SockFits(sock[c]) BY DEF SocksFit
<1>2. CASE Refuse(c, l)
  <2> DEFINE ms == <<Msg("error", 0, 0)>>
             k == ToClient(l, c, ms)
             s == Closed(sock[c], FALSE)
  <2>1. LinksFit(k) BY ToClientFits
  <2>2. link' = ServerHangs(k, c) /\ sock' = [sock EXCEPT ![c] = s] BY <1>2 DEF Refuse
  <2>3. SockFits(s) BY <1>1, ClosedFits
  <2> HIDE DEF k, s
  <2> QED BY <2>1, <2>2, <2>3, ServerHangsFits, SocksStep
<1>3. CASE Die(c, l)
  <2> DEFINE s == Closed(sock[c], TRUE)
  <2>1. link' = ServerHangs(l, c) /\ sock' = [sock EXCEPT ![c] = s] BY <1>3 DEF Die
  <2>2. SockFits(s) BY <1>1, ClosedFits
  <2> HIDE DEF s
  <2> QED BY <2>1, <2>2, ServerHangsFits, SocksStep
<1> QED BY <1>2, <1>3

LEMMA HeardFits ==
  ASSUME Fits, NEW c \in Sockets, NEW type, Heard(c, type)
  PROVE  LinksFit(ServerTook(link, c)) /\ SocksFit(sock) /\ SockFits(sock[c]) /\ sock[c].alive
BY ServerTookFits DEF Fits, Heard, Waiting, SocksFit

SocketKeepsFit == LinksFit(link') /\ SocksFit(sock')

LEMMA ReconnectFits ==
  ASSUME Fits, NEW c \in Sockets, Reconnect(c)
  PROVE  SocketKeepsFit
<1> DEFINE l == ServerTook(link, c)
           ms == <<Msg("reconnected", stream.next, 0)>>
           s == Attaching(sock[c])
<1>1. LinksFit(l) /\ SocksFit(sock) /\ SockFits(sock[c]) /\ sock[c].alive
  BY HeardFits DEF Reconnect
<1>2. \/ sock' = [sock EXCEPT ![c] = s] /\ link' = ToClient(l, c, ms)
      \/ Refuse(c, l)
  BY DEF Reconnect, Attaching
<1>3. SockFits(s) BY <1>1, AttachFits
<1> HIDE DEF l, ms, s
<1> QED BY <1>1, <1>2, <1>3, EndsFit, ToClientFits, SocksStep DEF SocketKeepsFit

LEMMA ChunkFits ==
  ASSUME Fits, NEW c \in Sockets, ChunkRefused(c) \/ ChunkAccepted(c)
  PROVE  SocketKeepsFit
<1> DEFINE l == ServerTook(link, c)
           no == <<Ack(stream.next, FALSE)>>
           yes == <<Ack(stream.next + 1, FALSE)>>
           s == Pushed(sock[c], Request(c).arg, Request(c).seq)
<1>1. LinksFit(l) /\ SocksFit(sock) /\ SockFits(sock[c])
  BY HeardFits DEF ChunkRefused, ChunkAccepted
<1>2. \/ sock' = sock /\ link' = ToClient(l, c, no)
      \/ sock' = sock /\ link' = ToClient(l, c, yes)
      \/ sock' = [sock EXCEPT ![c] = s] /\ link' = l
      \/ Refuse(c, l) \/ Die(c, l)
  BY DEF ChunkRefused, ChunkAccepted, Pushed
<1>3. SockFits(s) BY <1>1, PushedFits
<1> HIDE DEF l, no, yes, s
<1> QED BY <1>1, <1>2, <1>3, EndsFit, ToClientFits, SocksStep DEF SocketKeepsFit

LEMMA PushDoneFits ==
  ASSUME Fits, NEW c \in Sockets, PushDone(c)
  PROVE  SocketKeepsFit
<1> DEFINE vad == Observed(stream.vad, level[sock[c].frame])
           busy == IF vad.ended THEN "endpoint" ELSE "no"
           ms == <<Ack(sock[c].seq + 1, vad.ended)>>
           s == Heeded(sock[c], busy)
<1>1. LinksFit(link) /\ SocksFit(sock) /\ SockFits(sock[c]) BY DEF Fits, SocksFit
<1>2. \/ sock' = [sock EXCEPT ![c] = s] /\ link' = ToClient(link, c, ms)
      \/ Die(c, link)
  BY DEF PushDone, Heeded
<1>3. SockFits(s)
  <2>1. busy \in Busy BY DEF Busy
  <2> HIDE DEF busy
  <2> QED BY <1>1, <2>1, HeededFits
<1> HIDE DEF ms, s
<1> QED BY <1>1, <1>2, <1>3, EndsFit, ToClientFits, SocksStep DEF SocketKeepsFit

LEMMA BeginCommitFits ==
  ASSUME NEW l, LinksFit(l), SocksFit(sock), NEW c \in Sockets, BeginCommit(c, l)
  PROVE  SocketKeepsFit
<1>1. SockFits(sock[c]) BY DEF SocksFit
<1>2. CASE Die(c, l) BY <1>2, EndsFit DEF SocketKeepsFit
<1>3. ASSUME NEW busy \in Busy, sock' = [sock EXCEPT ![c].busy = busy], link' = l
      PROVE  SocketKeepsFit
  <2> DEFINE s == [sock[c] EXCEPT !.busy = busy]
  <2>1. SockFits(s) BY <1>1, SetBusyFits
  <2>2. sock' = [sock EXCEPT ![c] = s] BY <1>3
  <2> HIDE DEF s
  <2> QED BY <1>3, <2>1, <2>2, SocksStep DEF SocketKeepsFit
<1>4. "no" \in Busy /\ "commit" \in Busy BY DEF Busy
<1> QED BY <1>2, <1>3, <1>4 DEF BeginCommit

LEMMA CommitFits ==
  ASSUME Fits, NEW c \in Sockets, Commit(c) \/ Endpoint(c)
  PROVE  SocketKeepsFit
<1>1. CASE Commit(c) BY <1>1, HeardFits, BeginCommitFits DEF Commit
<1>2. CASE Endpoint(c)
  <2>1. LinksFit(link) /\ SocksFit(sock) BY DEF Fits
  <2> QED BY <1>2, <2>1, BeginCommitFits, EndsFit DEF Endpoint, SocketKeepsFit
<1> QED BY <1>1, <1>2

LEMMA CommitDoneFits ==
  ASSUME Fits, NEW c \in Sockets, CommitDone(c)
  PROVE  SocketKeepsFit
<1> DEFINE s == [sock[c] EXCEPT !.busy = "no"]
<1>1. LinksFit(link) /\ SocksFit(sock) /\ SockFits(sock[c]) BY DEF Fits, SocksFit
<1>2. (sock' = [sock EXCEPT ![c] = s] /\ link' = link) \/ Die(c, link) BY DEF CommitDone
<1>3. SockFits(s)
  <2>1. "no" \in Busy BY DEF Busy
  <2> QED BY <1>1, <2>1, SetBusyFits
<1> HIDE DEF s
<1> QED BY <1>1, <1>2, <1>3, EndsFit, SocksStep DEF SocketKeepsFit

LEMMA CloseFits ==
  ASSUME Fits, NEW c \in Sockets, Close(c)
  PROVE  SocketKeepsFit
<1> DEFINE l == ServerTook(link, c)
           ms == <<Msg("closed", 0, 0)>>
           s == [sock[c] EXCEPT !.busy = "close"]
           d == Closed(sock[c], TRUE)
<1>1. LinksFit(l) /\ SocksFit(sock) /\ SockFits(sock[c]) BY HeardFits DEF Close
<1>2. \/ sock' = sock /\ link' = ToClient(l, c, ms)
      \/ sock' = [sock EXCEPT ![c] = s] /\ link' = l
      \/ sock' = [sock EXCEPT ![c] = d] /\ link' = ServerHangs(l, c)
  BY DEF Close
<1>3. SockFits(s) /\ SockFits(d)
  <2>1. "close" \in Busy BY DEF Busy
  <2> QED BY <1>1, <2>1, SetBusyFits, ClosedFits
<1> HIDE DEF l, ms, s, d
<1> QED BY <1>1, <1>2, <1>3, ToClientFits, ServerHangsFits, SocksStep DEF SocketKeepsFit

LEMMA CloseDoneFits ==
  ASSUME Fits, NEW c \in Sockets, CloseDone(c)
  PROVE  SocketKeepsFit
<1> DEFINE ms == <<Msg("closed", 0, 0)>>
           s == Detached(sock[c])
<1>1. LinksFit(link) /\ SocksFit(sock) /\ SockFits(sock[c]) BY DEF Fits, SocksFit
<1>2. sock' = [sock EXCEPT ![c] = s] /\ link' = ToClient(link, c, ms) BY DEF CloseDone, Detached
<1>3. SockFits(s) BY <1>1, DetachFits
<1> HIDE DEF ms, s
<1> QED BY <1>1, <1>2, <1>3, ToClientFits, SocksStep DEF SocketKeepsFit

LEMMA DisconnectFits ==
  ASSUME Fits, NEW c \in Sockets, Disconnect(c)
  PROVE  SocketKeepsFit
<1> DEFINE s == Closed(sock[c], FALSE)
<1>1. LinksFit(link) /\ SocksFit(sock) /\ SockFits(sock[c]) BY DEF Fits, SocksFit
<1>2. sock' = [sock EXCEPT ![c] = s] /\ link' = link BY DEF Disconnect
<1>3. SockFits(s) BY <1>1, ClosedFits
<1> HIDE DEF s
<1> QED BY <1>1, <1>2, <1>3, SocksStep DEF SocketKeepsFit

LEMMA CutFits ==
  ASSUME Fits, NEW c \in Sockets, Cut(c)
  PROVE  LinksFit(link')
<1>1. LinksFit(link) /\ LinkFits(link[c]) BY DEF Fits, LinksFit
<1>2. PICK late \in {<<>>, link[c].toServer} :
        link' = [link EXCEPT ![c] = [state |-> "cut", toServer |-> late, toClient |-> <<>>]]
  BY DEF Cut
<1>3. late \in Seq(Requests)
  <2>1. link[c].toServer \in Seq(Requests) /\ <<>> \in Seq(Requests) BY <1>1 DEF LinkFits
  <2> QED BY <2>1
<1>4. LinkFits([state |-> "cut", toServer |-> late, toClient |-> <<>>]) BY <1>3 DEF LinkFits
<1> QED BY <1>1, <1>2, <1>4 DEF LinksFit

-----------------------------------------------------------------------------
(* The stream, and every step *)

Pumps == {"none", "running", "answering", "ending", "done"}

\* t: the stream s with the pump and what it holds.
LEMMA HoldsFits ==
  ASSUME NEW s, StreamFits(s), NEW t, t.queue = s.queue,
         t.pump \in Pumps, t.holding \in Seq(ProviderEvents)
  PROVE  StreamFits(t)
BY DEF StreamFits, Pumps

LEMMA HoldingEvents ==
  /\ <<"END">> \in Seq(ProviderEvents) /\ <<>> \in Seq(ProviderEvents)
  /\ <<"final", "END">> \in Seq(ProviderEvents) /\ <<"failure", "END">> \in Seq(ProviderEvents)
BY DEF ProviderEvents

LEMMA PumpCancelledFits ==
  ASSUME NEW s, IsStream(s), StreamFits(s)
  PROVE  StreamFits(PumpCancelled(s))
<1> DEFINE t == PumpCancelled(s)
<1>1. \/ t = s
      \/ t = [s EXCEPT !.pump = "done", !.holding = <<>>]
      \/ t = [s EXCEPT !.pump = "ending", !.holding = <<"END">>]
  BY DEF PumpCancelled
<1> HIDE DEF t
<1>2. CASE t # s
  <2>1. t.queue = s.queue /\ t.pump \in Pumps /\ t.holding \in {<<>>, <<"END">>}
    BY <1>1, <1>2 DEF IsStream, Pumps
  <2>2. t.holding \in Seq(ProviderEvents) BY <2>1, HoldingEvents
  <2>3. StreamFits(t) BY <2>1, <2>2, HoldsFits
  <2> QED BY <2>3 DEF t
<1> QED BY <1>2 DEF t

LEMMA CloseBridgeFits ==
  ASSUME Fits, IsStream(stream), CloseBridge \/ CloseBridgeFails
  PROVE  StreamFits(stream')
<1> DEFINE r == [stream EXCEPT !.closed = TRUE, !.record = FALSE]
           b == BridgeClosed(stream)
<1>1. b = r \/ b = PumpCancelled(r) BY DEF BridgeClosed
<1>2. r = [stream EXCEPT !.closed = TRUE, !.record = FALSE] OBVIOUS
<1>3. stream' = b \/ stream' = r BY DEF CloseBridge, CloseBridgeFails
<1> HIDE DEF r, b
<1>5. IsStream(r) /\ r.queue = stream.queue /\ r.pump = stream.pump /\ r.holding = stream.holding
  BY <1>2 DEF IsStream
<1>6. StreamFits(r) BY <1>5 DEF Fits, StreamFits
<1>7. StreamFits(b) BY <1>1, <1>5, <1>6, PumpCancelledFits
<1> QED BY <1>3, <1>6, <1>7

LEMMA OpenFits ==
  ASSUME Fits, IsStream(stream), NEW c \in Sockets, Open(c)
  PROVE  SocketKeepsFit /\ StreamFits(stream')
<1> DEFINE l == ServerTook(link, c)
           ms == <<Msg("opened", 0, 0)>>
           s == Attaching(sock[c])
           registered == [stream EXCEPT !.opened = TRUE]
           bridged == [registered EXCEPT !.record = TRUE, !.pump = "running"]
           told == [bridged EXCEPT !.told = TRUE]
<1>1. LinksFit(l) /\ SocksFit(sock) /\ SockFits(sock[c]) /\ sock[c].alive
  BY HeardFits DEF Open
<1>2. /\ \/ sock' = [sock EXCEPT ![c] = s] /\ link' = ToClient(l, c, ms)
         \/ Refuse(c, l) \/ Die(c, l)
      /\ stream' \in {stream, registered, bridged, told}
  BY DEF Open, Attaching
<1>3. SockFits(s) BY <1>1, AttachFits
<1>4. /\ stream'.queue = stream.queue /\ stream'.holding = stream.holding
      /\ stream'.pump \in {stream.pump, "running"}
  BY <1>2 DEF IsStream
<1>5. StreamFits(stream') BY <1>4 DEF Fits, StreamFits
<1> HIDE DEF l, ms, s, registered, bridged, told
<1> QED BY <1>1, <1>2, <1>3, <1>5, EndsFit, ToClientFits, SocksStep DEF SocketKeepsFit

LEMMA SendEventFits ==
  ASSUME Fits, IsStream(stream), NEW c \in Sockets, SendEvent(c)
  PROVE  SocketKeepsFit /\ StreamFits(stream')
<1> DEFINE q == Tail(stream.queue)
<1>1. LinksFit(link) /\ SocksFit(sock) /\ SockFits(sock[c]) /\ StreamFits(stream)
  BY DEF Fits, SocksFit
<1>2. PICK p, ms : sock' = [sock EXCEPT ![c].pump = p] /\ link' = ToClient(link, c, ms)
  BY DEF SendEvent
<1>3. stream.queue # <<>> /\ stream' = [stream EXCEPT !.queue = q] BY DEF SendEvent
<1>4. q \in Seq(ProviderEvents) /\ Len(q) <= EventQueueSize
  <2>1. stream.queue \in Seq(ProviderEvents) /\ Len(stream.queue) <= EventQueueSize
        /\ EventQueueSize \in Nat
    BY <1>1, AudioAssumption DEF StreamFits
  <2>2. Len(q) = Len(stream.queue) - 1 /\ Len(stream.queue) \in Nat BY <1>3, <2>1
  <2> QED BY <1>3, <2>1, <2>2
<1> HIDE DEF q
<1>5. stream'.queue = q /\ stream'.pump = stream.pump /\ stream'.holding = stream.holding
  BY <1>3 DEF IsStream
<1>6. StreamFits(stream') BY <1>1, <1>4, <1>5 DEF StreamFits
<1>7. SocksFit(sock')
  <2> DEFINE s == [sock[c] EXCEPT !.pump = p]
  <2>1. SockFits(s) BY <1>1, PumpingFits
  <2>2. sock' = [sock EXCEPT ![c] = s] BY <1>2
  <2> HIDE DEF s
  <2> QED BY <1>1, <2>1, <2>2, SocksStep
<1> QED BY <1>1, <1>2, <1>6, <1>7, ToClientFits DEF SocketKeepsFit

\* The provider's pump waits for room in the queue: it never overflows.
LEMMA PumpPutsFits ==
  ASSUME Fits, IsStream(stream), PumpPuts
  PROVE  StreamFits(stream')
<1> DEFINE e == Head(stream.holding)
           q == Append(stream.queue, e)
           h == Tail(stream.holding)
           p == IF e = "END" THEN "done" ELSE stream.pump
<1>1. StreamFits(stream) /\ EventQueueSize \in Nat BY AudioAssumption DEF Fits
<1>2. /\ stream.holding # <<>> /\ Len(stream.queue) < EventQueueSize
      /\ stream' = [stream EXCEPT !.queue = q, !.holding = h, !.pump = p]
  BY DEF PumpPuts
<1>3. e \in ProviderEvents /\ h \in Seq(ProviderEvents) BY <1>1, <1>2 DEF StreamFits
<1>4. p \in Pumps BY <1>1 DEF StreamFits, Pumps
<1> HIDE DEF e, h, p
<1>5. q \in Seq(ProviderEvents) /\ Len(q) = Len(stream.queue) + 1 /\ Len(stream.queue) \in Nat
  BY <1>1, <1>3 DEF StreamFits
<1> HIDE DEF q
<1>6. stream'.queue = q /\ stream'.pump = p /\ stream'.holding = h BY <1>2 DEF IsStream
<1>7. Len(q) <= EventQueueSize BY <1>1, <1>2, <1>5
<1> QED BY <1>3, <1>4, <1>5, <1>6, <1>7 DEF StreamFits, Pumps

LEMMA PumpFits ==
  ASSUME Fits, IsStream(stream), RecognizeFinal \/ Answer \/ PumpEnds
  PROVE  StreamFits(stream')
<1>1. /\ stream'.queue = stream.queue /\ stream'.pump \in {"answering", "ending"}
      /\ stream'.holding \in {stream.holding, <<"final", "END">>, <<"failure", "END">>, <<"END">>}
  <2>1. CASE RecognizeFinal BY <2>1 DEF RecognizeFinal, IsStream
  <2>2. CASE Answer BY <2>2 DEF Answer, IsStream
  <2>3. CASE PumpEnds BY <2>3 DEF PumpEnds, IsStream
  <2> QED BY <2>1, <2>2, <2>3
<1>2. StreamFits(stream) BY DEF Fits
<1>3. stream'.holding \in Seq(ProviderEvents) BY <1>1, <1>2, HoldingEvents DEF StreamFits
<1> QED BY <1>1, <1>2, <1>3, HoldsFits DEF Pumps

LEMMA SocketStepsFit ==
  ASSUME AudioInv, Fits, NEW c \in Sockets,
         SocketSteps(c) \/ Cut(c) \/ Expire(c) \/ ExpiryEnds(c)
  PROVE  Fits'
<1>1. IsStream(stream) BY DEF AudioInv, Shaped
<1>2. UNCHANGED <<captured, overtaken, client>>
  BY DEF SocketSteps, Open, Reconnect, ChunkRefused, ChunkAccepted, PushDone, Commit, Endpoint,
     CommitDone, Close, CloseDone, Disconnect, SendEvent, Cut, Expire, ExpiryEnds, microphone
<1>3. ASSUME SocketKeepsFit, StreamFits(stream') PROVE Fits'
  BY <1>2, <1>3 DEF Fits, SocketKeepsFit, ClientFits
<1>4. CASE Open(c) BY <1>1, <1>3, <1>4, OpenFits
<1>5. CASE SendEvent(c) BY <1>1, <1>3, <1>5, SendEventFits
<1>6. CASE Close(c) \/ Expire(c)
  <2>1. StreamFits(stream')
    <3>1. CloseBridge \/ CloseBridgeFails \/ UNCHANGED stream BY <1>6 DEF Close, Expire
    <3> QED BY <1>1, <3>1, CloseBridgeFits DEF Fits, StreamFits
  <2>2. SocketKeepsFit
    <3>1. CASE Close(c) BY <3>1, CloseFits
    <3>2. CASE Expire(c) BY <3>2 DEF Expire, Fits, SocketKeepsFit, LinksFit, SocksFit
    <3> QED BY <1>6, <3>1, <3>2
  <2> QED BY <1>3, <2>1, <2>2
<1>7. ASSUME SocketKeepsFit, stream'.queue = stream.queue, stream'.pump = stream.pump,
             stream'.holding = stream.holding
      PROVE  Fits'
  <2>1. StreamFits(stream') BY <1>7 DEF Fits, StreamFits
  <2> QED BY <1>3, <1>7, <2>1
<1>8. CASE Reconnect(c) \/ Commit(c) \/ Endpoint(c) \/ CloseDone(c) \/ Disconnect(c)
           \/ ChunkRefused(c)
  <2>1. UNCHANGED stream
    BY <1>8 DEF Reconnect, Commit, Endpoint, CloseDone, Disconnect, ChunkRefused
  <2>2. SocketKeepsFit
    BY <1>8, ReconnectFits, CommitFits, CloseDoneFits, DisconnectFits, ChunkFits
  <2> QED BY <1>7, <2>1, <2>2
<1>9. CASE ChunkAccepted(c) \/ PushDone(c) \/ CommitDone(c)
  <2>1. /\ stream'.queue = stream.queue /\ stream'.pump = stream.pump
        /\ stream'.holding = stream.holding
    <3>1. CASE ChunkAccepted(c) BY <1>1, <3>1 DEF ChunkAccepted, IsStream
    <3>2. CASE PushDone(c) BY <1>1, <3>2 DEF PushDone, IsStream
    <3>3. CASE CommitDone(c) BY <1>1, <3>3 DEF CommitDone, IsStream
    <3> QED BY <1>9, <3>1, <3>2, <3>3
  <2>2. SocketKeepsFit BY <1>9, ChunkFits, PushDoneFits, CommitDoneFits
  <2> QED BY <1>7, <2>1, <2>2
<1>10. CASE Cut(c)
  <2>1. UNCHANGED <<sock, stream>> BY <1>10 DEF Cut, serverVars
  <2>2. SocketKeepsFit BY <1>10, <2>1, CutFits DEF Fits, SocketKeepsFit, SocksFit
  <2> QED BY <1>7, <2>1, <2>2
<1>11. CASE ExpiryEnds(c)
  <2>1. UNCHANGED <<link, sock, stream>> BY <1>11 DEF ExpiryEnds
  <2>2. SocketKeepsFit BY <2>1 DEF Fits, SocketKeepsFit, LinksFit, SocksFit
  <2> QED BY <1>7, <2>1, <2>2
<1> QED BY <1>4, <1>5, <1>6, <1>8, <1>9, <1>10, <1>11 DEF SocketSteps

LEMMA NextFits ==
  ASSUME AudioInv, Fits, [Next]_vars
  PROVE  Fits'
<1>1. CASE ClientSteps BY <1>1, ClientStepsFit
<1>2. ASSUME NEW c \in Sockets, SocketSteps(c) \/ Cut(c) \/ Expire(c) \/ ExpiryEnds(c)
      PROVE  Fits'
  BY <1>2, SocketStepsFit
<1>3. ASSUME StreamFits(stream'), UNCHANGED <<captured, overtaken, client, link, sock>> PROVE Fits'
  BY <1>3 DEF Fits, ClientFits, LinksFit, SocksFit
<1>4. CASE RecognizeFinal \/ Answer \/ PumpEnds \/ PumpPuts
  <2>1. IsStream(stream) BY DEF AudioInv, Shaped
  <2>2. UNCHANGED <<captured, overtaken, client, link, sock>>
    BY <1>4 DEF RecognizeFinal, Answer, PumpEnds, PumpPuts, microphone
  <2>3. StreamFits(stream') BY <1>4, <2>1, PumpFits, PumpPutsFits
  <2> QED BY <1>3, <2>2, <2>3
<1>5. CASE ProviderDrops \/ UNCHANGED vars
  <2>1. UNCHANGED <<captured, overtaken, client, link, sock, stream>>
    BY <1>5 DEF ProviderDrops, vars, microphone
  <2>2. StreamFits(stream') BY <2>1 DEF Fits, StreamFits
  <2> QED BY <1>3, <2>1, <2>2
<1> QED BY <1>1, <1>2, <1>4, <1>5 DEF Next

LEMMA InitFits ==
  ASSUME Init
  PROVE  Fits
<1> DEFINE open == Msg("open", 0, 0)
<1>1. <<open>> \in Seq(Requests) /\ <<>> \in Seq(Requests) BY RequestsAreMail
<1>2. /\ link = [c \in Sockets |->
                   [state |-> IF c = 1 THEN "up" ELSE "new",
                    toServer |-> IF c = 1 THEN <<open>> ELSE <<>>, toClient |-> <<>>]]
      /\ sock = [c \in Sockets |-> [alive |-> c = 1, attached |-> FALSE, busy |-> "no",
                                    frame |-> 0, seq |-> 0, pump |-> FALSE]]
      /\ captured = 0 /\ stream.queue = <<>> /\ stream.pump = "none" /\ stream.holding = <<>>
      /\ client.mode = "opening" /\ client.recovery = "no" /\ client.attempt = 0
      /\ client.next = 0 /\ client.acked = 0 /\ overtaken = FALSE
  BY DEF Init
<1> HIDE DEF open
<1>3. LinksFit(link) BY <1>1, <1>2 DEF LinksFit, LinkFits
<1>4. SocksFit(sock) BY <1>2 DEF SocksFit, SockFits
<1>5. StreamFits(stream)
  <2>1. Len(<<>>) = 0 /\ <<>> \in Seq(ProviderEvents) OBVIOUS
  <2> QED BY <1>2, <2>1, AudioAssumption DEF StreamFits
<1>6. ClientFits(client, captured)
  <2>1. 0 \in 0..MaxAttempts BY AudioAssumption
  <2> QED BY <1>2, <2>1 DEF ClientFits
<1>7. overtaken \in BOOLEAN BY <1>2
<1>8. captured <= MaxFrames BY <1>2, AudioAssumption
<1> QED BY <1>3, <1>4, <1>5, <1>6, <1>7, <1>8 DEF Fits

\* For any window, queue size and number of sockets and attempts: the client never has more
\* than maxInFlight frames unacknowledged, whatever it replays after a reconnect, the
\* provider's events never overflow their queue, and what is on a link to the server is a
\* request whose frame exists (flushFrames, recoverSocket; VoiceStreamBridge's event queue).
THEOREM AudioTypesAreKept == Spec => []TypeOK
<1>1. Init => Fits BY InitFits
<1>2. AudioInv /\ Fits /\ [Next]_vars => Fits' BY NextFits
<1>3. AudioInv /\ Fits => TypeOK BY FitsIsTypeOK
<1> QED BY <1>1, <1>2, <1>3, AudioInvHolds, PTL DEF Spec

=============================================================================
