---------------------------- MODULE CloudflareService ----------------------------
(* CloudflareService (signaling/cloudflare_service.cpp): one device that keeps a  *)
(* WebSocket to the Cloudflare worker open and, from a wake until a sleep, keeps  *)
(* one PeerConnection published through it.                                       *)
(*                                                                                *)
(* Every handler of the service runs on the io_context thread, one at a time.     *)
(* The callbacks of the peer run on the signaling thread and post closures to     *)
(* the io_context (posted); a closure carries the publication it belongs to.  The *)
(* worker is external: it answers the offers of a connection in order, each one   *)
(* with an answer or an error, and sends joined first.  Back-off times are left   *)
(* out, and so are tokens, ICE servers and SDP: a generation is the publication   *)
(* whose offer the worker answered.                                               *)
EXTENDS Naturals, Sequences, FiniteSets

CONSTANT MaxEvents    \* bound: failures, wakes and sleeps together

ASSUME EventsAssumption == MaxEvents \in Nat

VARIABLES
  stopped, publishing,
  connection,   \* connection_
  token,        \* the connections whose token request is under way
  socket,       \* socket_: "none", "opening" or "open"
  reconnecting, \* reconnect_pending_, with its timer
  publication,  \* publication_
  peer,         \* peer_ of this publication
  generation,   \* generation_
  unanswered, offerSent, readySent,
  retry,        \* retry_timer_ is armed
  retryQueued,  \* handlers of retry_timer_ that expired and wait to run
  health,       \* health_timer_ is armed
  posted,       \* closures posted by the callbacks of the peer
  up, down,     \* messages under way on the socket
  answered,     \* the last publication the worker answered
  readySeen,    \* the publications the worker knows to be ready
  early,        \* did an offer go out on an open socket before joined was read?
  budget        \* events left

connVars == <<connection, token, socket, reconnecting>>
pubVars  == <<publication, peer, generation, offerSent, readySent, retry, health>>
wireVars == <<up, down>>
workerVars == <<answered, readySeen, early>>
vars == <<stopped, publishing, connVars, pubVars, unanswered, retryQueued, posted, wireVars,
          workerVars, budget>>

NoPeer == [live |-> FALSE, offering |-> FALSE, answer |-> 0, channels |-> 0, conn |-> "closed"]
NewPeer == [live |-> TRUE, offering |-> TRUE, answer |-> 0, channels |-> 0, conn |-> "new"]

Message(t) == [type |-> t, of |-> 0]
About(t, k) == [type |-> t, of |-> k]
JoinedTypes == {"joined", "joined_sleeping"}
DownTypes == JoinedTypes \cup {"wake", "sleep", "answer", "stale", "error", "channels"}

TypeOK ==
  /\ stopped \in BOOLEAN /\ publishing \in BOOLEAN /\ reconnecting \in BOOLEAN
  /\ offerSent \in BOOLEAN /\ readySent \in BOOLEAN /\ early \in BOOLEAN
  /\ retry \in BOOLEAN /\ health \in BOOLEAN
  /\ connection \in Nat /\ publication \in Nat /\ generation \in Nat
  /\ unanswered \in Nat /\ answered \in Nat /\ retryQueued \in Nat
  /\ token \subseteq Nat /\ readySeen \subseteq Nat
  /\ socket \in {"none", "opening", "open"}
  /\ peer \in [live : BOOLEAN, offering : BOOLEAN, answer : Nat, channels : Nat,
               conn : {"new", "connected", "failed", "closed"}]
  /\ posted \in Seq([type : {"offer", "connected", "failed"}, of : Nat])
  /\ up \in Seq([type : {"offer", "ready"}, of : Nat])
  /\ down \in Seq([type : DownTypes, of : Nat])
  /\ budget \in 0..MaxEvents

\* Connect has asked for the first token.
Init ==
  /\ stopped = FALSE /\ publishing = FALSE
  /\ connection = 1 /\ token = {1} /\ socket = "none" /\ reconnecting = FALSE
  /\ publication = 0 /\ peer = NoPeer /\ generation = 0
  /\ unanswered = 0 /\ offerSent = FALSE /\ readySent = FALSE
  /\ retry = FALSE /\ retryQueued = 0 /\ health = FALSE
  /\ posted = <<>> /\ up = <<>> /\ down = <<>>
  /\ answered = 0 /\ readySeen = {} /\ early = FALSE
  /\ budget = MaxEvents

Event == budget > 0 /\ budget' = budget - 1

-------------------------------------------------------------------------------
(* Publishing.  Each of these sets pubVars. *)

\* StopPublishing; cancel stops an armed timer, not a handler that is already queued.
StopPublishing ==
  /\ publication' = publication + 1
  /\ peer' = NoPeer
  /\ generation' = 0
  /\ offerSent' = FALSE /\ readySent' = FALSE
  /\ retry' = FALSE /\ health' = FALSE

\* RetryPublishing while publishing.
StopAndRetry ==
  /\ publication' = publication + 1
  /\ peer' = NoPeer
  /\ generation' = 0
  /\ offerSent' = FALSE /\ readySent' = FALSE
  /\ retry' = TRUE /\ health' = FALSE

RetryPublishing == IF publishing THEN StopAndRetry ELSE UNCHANGED pubVars

\* StartPublishing stops the publication there may be, creates the peer, lets it make
\* its offer and monitors it.
CreatePublication ==
  /\ publication' = publication + 1
  /\ peer' = NewPeer
  /\ generation' = 0
  /\ offerSent' = FALSE /\ readySent' = FALSE
  /\ retry' = FALSE /\ health' = TRUE

\* The second disjunct: no PeerConnection could be created.
StartPublishing ==
  \/ CreatePublication /\ UNCHANGED budget
  \/ StopAndRetry /\ Event

\* Send: a request is lost unless the socket is open.
Send(request) == up' = IF socket = "open" THEN Append(up, request) ELSE up

SendReady ==
  /\ readySent' = TRUE
  /\ Send(About("ready", publication))
  /\ UNCHANGED <<publication, peer, generation, offerSent, retry, health>>

-------------------------------------------------------------------------------
(* The connection to the worker. *)

\* The socket and what was on its way are gone.
DropSocket == socket' = "none" /\ up' = <<>> /\ down' = <<>>

\* No caller finds a reconnect scheduled while it has a socket.
ScheduleReconnect ==
  IF stopped \/ reconnecting
  THEN UNCHANGED <<connection, reconnecting>> /\ DropSocket
  ELSE reconnecting' = TRUE /\ connection' = connection + 1 /\ DropSocket

\* Variant: a failed token request is only logged.
TokenReplyGivesUp(c) ==
  /\ c \in token
  /\ token' = token \ {c}
  /\ \/ /\ stopped \/ c # connection
        /\ UNCHANGED <<connection, socket, reconnecting, wireVars, budget>>
     \/ /\ ~stopped /\ c = connection
        /\ socket' = "opening"
        /\ UNCHANGED <<connection, reconnecting, wireVars, budget>>
     \/ /\ ~stopped /\ c = connection
        /\ UNCHANGED <<connection, socket, reconnecting, wireVars>>
        /\ Event
  /\ UNCHANGED <<stopped, publishing, pubVars, unanswered, retryQueued, posted, workerVars>>

\* The reply to the token request of connection c; an older one is ignored.
TokenReply(c) ==
  /\ c \in token
  /\ token' = token \ {c}
  /\ \/ /\ stopped \/ c # connection
        /\ UNCHANGED <<connection, socket, reconnecting, wireVars, budget>>
     \/ /\ ~stopped /\ c = connection
        /\ socket' = "opening"
        /\ UNCHANGED <<connection, reconnecting, wireVars, budget>>
     \/ /\ ~stopped /\ c = connection
        /\ ScheduleReconnect
        /\ Event
  /\ UNCHANGED <<stopped, publishing, pubVars, unanswered, retryQueued, posted, workerVars>>

SocketOpens ==
  /\ socket = "opening"
  /\ socket' = "open"
  /\ \E t \in JoinedTypes : down' = <<Message(t)>>
  /\ UNCHANGED <<stopped, publishing, connection, token, reconnecting, pubVars, unanswered,
                 retryQueued, posted, up, workerVars, budget>>

\* Variant: no reconnect while another connection uses this id.
OnSocketClosedTaken(taken) ==
  /\ socket # "none"
  /\ Event
  /\ IF taken
     THEN StopPublishing /\ publishing' = FALSE /\ DropSocket /\ UNCHANGED <<connection, reconnecting>>
     ELSE UNCHANGED <<pubVars, publishing>> /\ ScheduleReconnect
  /\ UNCHANGED <<stopped, token, unanswered, retryQueued, posted, workerVars>>

\* The socket could not open, was lost, or the worker closed it, perhaps because another
\* connection uses this id.
OnSocketClosed(taken) ==
  /\ socket # "none"
  /\ Event
  /\ ScheduleReconnect
  /\ IF taken
     THEN StopPublishing /\ publishing' = FALSE
     ELSE UNCHANGED <<pubVars, publishing>>
  /\ UNCHANGED <<stopped, token, unanswered, retryQueued, posted, workerVars>>

\* StartConnection, out of the reconnect timer.
ReconnectTimer ==
  /\ reconnecting /\ ~stopped
  /\ reconnecting' = FALSE
  /\ connection' = connection + 1
  /\ token' = token \cup {connection'}
  /\ UNCHANGED <<stopped, publishing, socket, pubVars, unanswered, retryQueued, posted, wireVars,
                 workerVars, budget>>

Disconnect ==
  /\ ~stopped
  /\ stopped' = TRUE
  /\ connection' = connection + 1
  /\ StopPublishing
  /\ publishing' = FALSE
  /\ DropSocket
  /\ UNCHANGED <<token, reconnecting, unanswered, retryQueued, posted, workerVars, budget>>

-------------------------------------------------------------------------------
(* OnMessage: the next message of the worker is m. *)

Max0(n) == IF n > 0 THEN n - 1 ELSE 0

Receive(m) == socket = "open" /\ down # <<>> /\ m = Head(down) /\ down' = Tail(down)

\* Variant: the offers of the old connection still count.
OnJoinedKeepsCount(m) ==
  /\ m.type \in JoinedTypes
  /\ \/ /\ publishing /\ m.type = "joined_sleeping"
        /\ StopPublishing
        /\ publishing' = FALSE
        /\ UNCHANGED up
     \/ /\ publishing /\ m.type = "joined" /\ peer.conn = "connected"
        /\ SendReady
        /\ UNCHANGED publishing
     \/ /\ ~publishing \/ (m.type = "joined" /\ peer.conn # "connected")
        /\ UNCHANGED <<pubVars, publishing, up>>
  /\ UNCHANGED <<unanswered, budget>>

\* Variant: ready is not repeated on the new connection.
OnJoinedNoReady(m) ==
  /\ m.type \in JoinedTypes
  /\ unanswered' = 0
  /\ IF publishing /\ m.type = "joined_sleeping"
     THEN StopPublishing /\ publishing' = FALSE
     ELSE UNCHANGED <<pubVars, publishing>>
  /\ UNCHANGED <<up, budget>>

OnJoined(m) ==
  /\ m.type \in JoinedTypes
  /\ unanswered' = 0
  /\ \/ /\ publishing /\ m.type = "joined_sleeping"
        /\ StopPublishing
        /\ publishing' = FALSE
        /\ UNCHANGED up
     \/ /\ publishing /\ m.type = "joined" /\ peer.conn = "connected"
        /\ SendReady
        /\ UNCHANGED publishing
     \/ /\ ~publishing \/ (m.type = "joined" /\ peer.conn # "connected")
        /\ UNCHANGED <<pubVars, publishing, up>>
  /\ UNCHANGED budget

OnWake(m) ==
  /\ m.type = "wake"
  /\ publishing' = TRUE
  /\ StartPublishing
  /\ UNCHANGED <<unanswered, up>>

\* Variant: the peer is left to expire on its own.
OnSleepKeepsPeer(m) ==
  /\ m.type = "sleep"
  /\ publishing' = FALSE
  /\ UNCHANGED <<pubVars, unanswered, up, budget>>

OnSleep(m) ==
  /\ m.type = "sleep"
  /\ StopPublishing
  /\ publishing' = FALSE
  /\ UNCHANGED <<unanswered, up, budget>>

\* Variant: any reply counts once an offer was sent.
AnyReply == peer.live /\ offerSent

\* Only the reply to the last offer counts.
LastReply == peer.live /\ offerSent /\ unanswered' = 0

OnAnswer(m) ==
  /\ m.type = "answer"
  /\ unanswered' = Max0(unanswered)
  /\ IF LastReply
     THEN generation' = m.of /\ peer' = [peer EXCEPT !.answer = m.of]
     ELSE UNCHANGED <<generation, peer>>
  /\ UNCHANGED <<publication, offerSent, readySent, retry, health, publishing, up, budget>>

\* Variant: a stale offer ends the publication but not the wake.
OnErrorKeepsPublishing(m) ==
  /\ m.type \in {"stale", "error"}
  /\ unanswered' = Max0(unanswered)
  /\ \/ /\ ~offerSent \/ unanswered' > 0
        /\ UNCHANGED <<pubVars, publishing>>
     \/ /\ offerSent /\ unanswered' = 0 /\ m.type = "stale"
        /\ StopPublishing /\ UNCHANGED publishing
     \/ /\ offerSent /\ unanswered' = 0 /\ m.type = "error"
        /\ RetryPublishing /\ UNCHANGED publishing
  /\ UNCHANGED <<up, budget>>

OnError(m) ==
  /\ m.type \in {"stale", "error"}
  /\ unanswered' = Max0(unanswered)
  /\ \/ /\ ~offerSent \/ unanswered' > 0
        /\ UNCHANGED <<pubVars, publishing>>
     \/ /\ offerSent /\ unanswered' = 0 /\ m.type = "stale"
        /\ StopPublishing /\ publishing' = FALSE
     \/ /\ offerSent /\ unanswered' = 0 /\ m.type = "error"
        /\ RetryPublishing /\ UNCHANGED publishing
  /\ UNCHANGED <<up, budget>>

\* OnChannels, and OnVoicesOffer, which has the same guard.
OnChannels(m) ==
  /\ m.type = "channels"
  /\ peer' = IF peer.live /\ generation > 0 /\ unanswered = 0
             THEN [peer EXCEPT !.channels = m.of] ELSE peer
  /\ UNCHANGED <<publication, generation, offerSent, readySent, retry, health, publishing,
                 unanswered, up, budget>>

OnMessage(m) ==
  /\ Receive(m)
  /\ OnJoined(m) \/ OnWake(m) \/ OnSleep(m) \/ OnAnswer(m) \/ OnError(m) \/ OnChannels(m)
  /\ UNCHANGED <<stopped, connVars, retryQueued, posted, workerVars>>

-------------------------------------------------------------------------------
(* Closures the peer's callbacks posted.  One of an older publication does nothing. *)

PostedStale(c) == (stopped \/ c.of # publication) /\ UNCHANGED <<pubVars, unanswered, up, budget>>

SendOffer(c) ==
  /\ ~stopped /\ c.of = publication /\ c.type = "offer"
  /\ \/ RetryPublishing /\ Event /\ UNCHANGED <<unanswered, up>>    \* the offer has no tracks
     \/ /\ Send(c)
        /\ IF socket = "open"
           THEN unanswered' = unanswered + 1 /\ offerSent' = TRUE
           ELSE UNCHANGED <<unanswered, offerSent>>
        /\ UNCHANGED <<publication, peer, generation, readySent, retry, health, budget>>

OnPeerState(c) ==
  /\ ~stopped /\ c.of = publication /\ c.type # "offer"
  /\ \/ c.type = "connected" /\ ~readySent /\ SendReady
     \/ c.type = "connected" /\ readySent /\ UNCHANGED <<pubVars, up>>
     \/ c.type = "failed" /\ RetryPublishing /\ UNCHANGED up
  /\ UNCHANGED <<unanswered, budget>>

Joining == \E i \in 1..Len(down) : down[i].type \in JoinedTypes

RunPosted ==
  /\ posted # <<>>
  /\ LET c == Head(posted) IN PostedStale(c) \/ SendOffer(c) \/ OnPeerState(c)
  /\ posted' = Tail(posted)
  /\ early' = (early \/ (up' # up /\ Joining))
  /\ UNCHANGED <<stopped, publishing, connVars, retryQueued, down, answered, readySeen>>

-------------------------------------------------------------------------------
(* Timers of the publication. *)

\* An expired timer queues its handler, which cancel no longer reaches.
RetryTimer ==
  /\ retry
  /\ retry' = FALSE
  /\ retryQueued' = retryQueued + 1
  /\ UNCHANGED <<stopped, publishing, connVars, publication, peer, generation, offerSent, readySent,
                 health, unanswered, posted, wireVars, workerVars, budget>>

RetryHandler ==
  /\ retryQueued > 0
  /\ retryQueued' = retryQueued - 1
  /\ IF stopped \/ ~publishing THEN UNCHANGED <<pubVars, budget>> ELSE StartPublishing
  /\ UNCHANGED <<stopped, publishing, connVars, unanswered, posted, wireVars, workerVars>>

\* MonitorPeer: the peer expired, or it has been down for too long.  Otherwise the
\* timer is armed again, which changes nothing here.
MonitorPeer ==
  /\ health /\ ~stopped
  /\ peer.conn # "connected"
  /\ IF peer.conn = "closed" THEN UNCHANGED budget ELSE Event
  /\ RetryPublishing
  /\ UNCHANGED <<stopped, publishing, connVars, unanswered, retryQueued, posted, wireVars, workerVars>>

-------------------------------------------------------------------------------
(* The peer of this publication, on the signaling thread.  A terminated peer no  *)
(* longer calls back.                                                            *)

PeerSays(p, what) ==
  /\ peer' = p
  /\ posted' = IF what = "" THEN posted ELSE Append(posted, About(what, publication))
  /\ UNCHANGED <<stopped, publishing, connVars, publication, generation, offerSent, readySent, retry,
                 health, unanswered, retryQueued, wireVars, workerVars>>

LocalOffer ==
  /\ peer.offering
  /\ PeerSays([peer EXCEPT !.offering = FALSE], "offer")
  /\ UNCHANGED budget

PeerConnects ==
  /\ peer.conn = "new" /\ peer.answer # 0
  /\ PeerSays([peer EXCEPT !.conn = "connected"], "connected")
  /\ UNCHANGED budget

PeerFails ==
  /\ peer.answer # 0 /\ peer.conn \in {"new", "connected"}
  /\ PeerSays([peer EXCEPT !.conn = "failed"], "failed")
  /\ Event

\* The remote side closes: the peer expires, which only MonitorPeer looks at.
PeerCloses ==
  /\ peer.conn = "connected"
  /\ PeerSays([peer EXCEPT !.conn = "closed"], "")
  /\ Event

-------------------------------------------------------------------------------
(* The worker (external). *)

Tell(m) ==
  /\ socket = "open"
  /\ down' = Append(down, m)
  /\ UNCHANGED <<stopped, publishing, connVars, pubVars, unanswered, retryQueued, posted>>

WorkerWakesOrSleeps ==
  /\ Event
  /\ \E t \in {"wake", "sleep"} : Tell(Message(t))
  /\ UNCHANGED <<up, workerVars>>

WorkerReplies ==
  /\ up # <<>> /\ Head(up).type = "offer"
  /\ LET k == Head(up).of IN
     \/ Tell(About("answer", k)) /\ answered' = k /\ UNCHANGED budget
     \/ \E t \in {"stale", "error"} : Tell(About(t, k)) /\ Event /\ UNCHANGED answered
  /\ up' = Tail(up)
  /\ UNCHANGED <<readySeen, early>>

WorkerSendsChannels ==
  /\ answered # 0
  /\ Event
  /\ Tell(About("channels", answered))
  /\ UNCHANGED <<up, workerVars>>

WorkerHearsReady ==
  /\ up # <<>> /\ Head(up).type = "ready"
  /\ readySeen' = readySeen \cup {Head(up).of}
  /\ up' = Tail(up)
  /\ UNCHANGED <<stopped, publishing, connVars, pubVars, unanswered, retryQueued, posted, down,
                 answered, early, budget>>

-------------------------------------------------------------------------------

ConnectionStep == (\E c \in token : TokenReply(c)) \/ SocketOpens \/ ReconnectTimer
MessageStep == \E m \in {Head(down)} : OnMessage(m)
PeerStep == LocalOffer \/ PeerConnects
WorkerStep == WorkerReplies \/ WorkerHearsReady

Next ==
  \/ ConnectionStep \/ \E taken \in BOOLEAN : OnSocketClosed(taken)
  \/ (down # <<>> /\ MessageStep) \/ RunPosted
  \/ RetryTimer \/ RetryHandler \/ MonitorPeer
  \/ PeerStep \/ PeerFails \/ PeerCloses
  \/ WorkerStep \/ WorkerWakesOrSleeps \/ WorkerSendsChannels
  \/ Disconnect

\* The io_context runs what is ready, and the network and the worker make progress;
\* failures, wakes, sleeps and the stop may happen or not.
Fairness ==
  /\ WF_vars(ConnectionStep)
  /\ WF_vars(down # <<>> /\ MessageStep)
  /\ WF_vars(RunPosted)
  /\ WF_vars(RetryTimer) /\ WF_vars(RetryHandler)
  /\ WF_vars(PeerStep)
  /\ WF_vars(WorkerStep)

Spec == Init /\ [][Next]_vars /\ Fairness

-------------------------------------------------------------------------------
(* Properties. *)

\* What a peer is given comes from the reply to its own offer, never from the reply to
\* an offer of an earlier publication ("Only the reply to the last offer counts",
\* cloudflare_service.h).
ReplyToLastOffer == {peer.answer, peer.channels} \subseteq {0, publication}

\* The same, as long as joined is the first thing that is read on every connection.
ReplyAfterJoined == ~early => ReplyToLastOffer

\* unanswered_ counts the offers under way on this connection ("Offers sent on this
\* connection with no reply yet", cloudflare_service.h), unless one went out before joined.
Replies == {"answer", "stale", "error"}
OffersUnderWay ==
  Cardinality({i \in 1..Len(up) : up[i].type = "offer"})
    + Cardinality({i \in 1..Len(down) : down[i].type \in Replies})
UnansweredIsExact == ~early /\ socket = "open" /\ ~Joining => unanswered = OffersUnderWay

\* Until it is stopped the service is always connecting in exactly one way: a token is
\* asked for, a socket exists, or a reconnect is scheduled (ScheduleReconnect).
OneWayToConnect ==
  ~stopped =>
    \/ token = {connection} /\ socket = "none" /\ ~reconnecting
    \/ token = {} /\ socket # "none" /\ ~reconnecting
    \/ token = {} /\ socket = "none" /\ reconnecting

\* From wake until sleep something always drives the publication on: a monitored peer
\* or a retry to come.
PublishingIsDriven == publishing => (peer.live /\ health) \/ retry \/ retryQueued > 0

\* No stream outlives the wake that asked for it.
AsleepIsQuiet == ~publishing => ~peer.live /\ ~retry /\ ~health /\ generation = 0

\* Types; a service that sleeps does nothing; one that does not is driven on, in one way
\* (OnSleep, StopPublishing, ScheduleReconnect, SchedulePublishRetry).
SessionInv == TypeOK /\ AsleepIsQuiet /\ OneWayToConnect /\ PublishingIsDriven

\* Replies are told apart by counting the offers under way.
RepliesMatch == ReplyAfterJoined /\ UnansweredIsExact

\* Once failures end, the service is connected.
Reconnects == <>[](stopped \/ socket = "open")

\* A publication that stays connected is announced to the worker, although ready may be
\* sent while there is no socket or be lost with one (SendReady, OnJoined).  The bound is
\* past the last publication that the events allow.
ReadyArrives ==
  \A k \in 1..(3 * MaxEvents + 3) :
    <>[](publication = k /\ peer.conn = "connected" /\ socket = "open" /\ ~Joining)
      => <>(k \in readySeen)

\* Neither lost sockets nor lost messages keep a publication from the worker for ever.
SessionReturns == Reconnects /\ ReadyArrives
=============================================================================
