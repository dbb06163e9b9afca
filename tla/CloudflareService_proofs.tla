------------------------ MODULE CloudflareService_proofs ------------------------
(* Proofs about CloudflareService, for any number of events. *)
EXTENDS CloudflareService, FunctionTheorems, FiniteSetTheorems, SequenceTheorems, TLAPS

-------------------------------------------------------------------------------
(* A service that was stopped has no socket and publishes nothing. *)

StoppedIsQuiet == stopped => socket = "none" /\ ~publishing

IInv == SessionInv /\ StoppedIsQuiet

LEMMA Initial == Init => IInv
<1> SUFFICES ASSUME Init PROVE IInv
  OBVIOUS
<1>1. TypeOK
  <2>1. /\ stopped \in BOOLEAN /\ publishing \in BOOLEAN /\ reconnecting \in BOOLEAN
        /\ offerSent \in BOOLEAN /\ readySent \in BOOLEAN /\ early \in BOOLEAN
        /\ retry \in BOOLEAN /\ health \in BOOLEAN
    BY DEF Init
  <2>2. /\ connection \in Nat /\ publication \in Nat /\ generation \in Nat
        /\ unanswered \in Nat /\ answered \in Nat /\ retryQueued \in Nat
        /\ token \subseteq Nat /\ readySeen \subseteq Nat
        /\ socket \in {"none", "opening", "open"} /\ budget \in 0..MaxEvents
    BY EventsAssumption DEF Init
  <2>3. peer \in [live : BOOLEAN, offering : BOOLEAN, answer : Nat, channels : Nat,
                  conn : {"new", "connected", "failed", "closed"}]
    BY DEF Init, NoPeer
  <2>4. /\ posted \in Seq([type : {"offer", "connected", "failed"}, of : Nat])
        /\ up \in Seq([type : {"offer", "ready"}, of : Nat])
        /\ down \in Seq([type : DownTypes, of : Nat])
    BY DEF Init
  <2>5. QED
    BY <2>1, <2>2, <2>3, <2>4 DEF TypeOK
<1>2. AsleepIsQuiet /\ OneWayToConnect /\ PublishingIsDriven /\ StoppedIsQuiet
  BY DEF Init, AsleepIsQuiet, OneWayToConnect, PublishingIsDriven, StoppedIsQuiet, NoPeer
<1>3. QED
  BY <1>1, <1>2 DEF IInv, SessionInv

-------------------------------------------------------------------------------
(* Types, by the groups of variables that an action changes together. *)

ConnTypes ==
  connection \in Nat /\ token \subseteq Nat /\ socket \in {"none", "opening", "open"} /\ reconnecting \in BOOLEAN

PeerRecords == [live : BOOLEAN, offering : BOOLEAN, answer : Nat, channels : Nat,
                conn : {"new", "connected", "failed", "closed"}]

PubTypes ==
  /\ publication \in Nat /\ generation \in Nat /\ peer \in PeerRecords
  /\ offerSent \in BOOLEAN /\ readySent \in BOOLEAN /\ retry \in BOOLEAN /\ health \in BOOLEAN

PostedRecords == [type : {"offer", "connected", "failed"}, of : Nat]
UpRecords == [type : {"offer", "ready"}, of : Nat]
DownRecords == [type : DownTypes, of : Nat]

WireTypes == up \in Seq(UpRecords) /\ down \in Seq(DownRecords)

OtherTypes ==
  /\ stopped \in BOOLEAN /\ publishing \in BOOLEAN /\ unanswered \in Nat /\ retryQueued \in Nat
  /\ posted \in Seq(PostedRecords)
  /\ answered \in Nat /\ readySeen \subseteq Nat /\ early \in BOOLEAN
  /\ budget \in 0..MaxEvents

LEMMA Types == TypeOK <=> ConnTypes /\ PubTypes /\ WireTypes /\ OtherTypes
  BY DEF TypeOK, ConnTypes, PubTypes, WireTypes, OtherTypes, PeerRecords, PostedRecords, UpRecords, DownRecords

LEMMA EventCounts == ASSUME TypeOK, Event PROVE budget' \in 0..MaxEvents
  BY EventsAssumption DEF TypeOK, Event

(* The ends and beginnings of a publication. *)
LEMMA StopTypes ==
  ASSUME TypeOK, StopPublishing
  PROVE  PubTypes' /\ ~peer'.live /\ ~retry' /\ ~health' /\ generation' = 0
<1>1. /\ publication' = publication + 1 /\ publication \in Nat /\ peer' = NoPeer /\ generation' = 0
      /\ offerSent' = FALSE /\ readySent' = FALSE /\ retry' = FALSE /\ health' = FALSE
  BY DEF StopPublishing, TypeOK
<1>2. NoPeer \in PeerRecords /\ ~NoPeer.live
  BY DEF NoPeer, PeerRecords
<1>3. publication' \in Nat /\ generation' \in Nat
  BY <1>1
<1>4. offerSent' \in BOOLEAN /\ readySent' \in BOOLEAN /\ retry' \in BOOLEAN /\ health' \in BOOLEAN
  BY <1>1
<1>5. QED
  BY <1>1, <1>2, <1>3, <1>4 DEF PubTypes

LEMMA RetryTypes ==
  ASSUME TypeOK, StopAndRetry
  PROVE  PubTypes' /\ retry'
<1>1. /\ publication' = publication + 1 /\ publication \in Nat /\ peer' = NoPeer /\ generation' = 0
      /\ offerSent' = FALSE /\ readySent' = FALSE /\ retry' = TRUE /\ health' = FALSE
  BY DEF StopAndRetry, TypeOK
<1>2. NoPeer \in PeerRecords
  BY DEF NoPeer, PeerRecords
<1>3. publication' \in Nat /\ generation' \in Nat
  BY <1>1
<1>4. offerSent' \in BOOLEAN /\ readySent' \in BOOLEAN /\ retry' \in BOOLEAN /\ health' \in BOOLEAN
  BY <1>1
<1>5. QED
  BY <1>1, <1>2, <1>3, <1>4 DEF PubTypes

LEMMA StartTypes ==
  ASSUME TypeOK, StartPublishing
  PROVE  /\ PubTypes' /\ budget' \in 0..MaxEvents
         /\ (peer'.live /\ health') \/ retry'
<1>1. CASE StopAndRetry /\ Event
  BY <1>1, RetryTypes, EventCounts
<1>2. CASE CreatePublication /\ UNCHANGED budget
  <2>1. /\ publication' = publication + 1 /\ publication \in Nat /\ peer' = NewPeer /\ generation' = 0
        /\ offerSent' = FALSE /\ readySent' = FALSE /\ retry' = FALSE /\ health' = TRUE
    BY <1>2 DEF CreatePublication, TypeOK
  <2>2. NewPeer \in PeerRecords /\ NewPeer.live
    BY DEF NewPeer, PeerRecords
  <2>3. publication' \in Nat /\ generation' \in Nat
    BY <2>1
  <2>4. offerSent' \in BOOLEAN /\ readySent' \in BOOLEAN /\ retry' \in BOOLEAN /\ health' \in BOOLEAN
    BY <2>1
  <2>5. budget' \in 0..MaxEvents
    BY <1>2 DEF TypeOK
  <2>6. QED
    BY <2>1, <2>2, <2>3, <2>4, <2>5 DEF PubTypes
<1>3. QED
  BY <1>1, <1>2 DEF StartPublishing

(* Sockets that come and go. *)
LEMMA DropTypes == ASSUME DropSocket PROVE WireTypes' /\ socket' = "none"
  BY DEF DropSocket, WireTypes

LEMMA ReconnectScheduled ==
  ASSUME IInv, ScheduleReconnect, ~stopped, ~reconnecting
  PROVE  /\ connection' \in Nat /\ socket' = "none" /\ reconnecting' \in BOOLEAN /\ reconnecting'
         /\ WireTypes'
<1>1. reconnecting' = TRUE /\ connection' = connection + 1 /\ DropSocket
  BY DEF ScheduleReconnect
<1>2. connection \in Nat
  BY DEF IInv, SessionInv, TypeOK
<1>3. QED
  BY <1>1, <1>2, DropTypes

\* Nothing that the loop does while nothing is published touches the publication.
Driven == AsleepIsQuiet /\ PublishingIsDriven

LEMMA ConnectionKeeps ==
  ASSUME IInv, UNCHANGED <<pubVars, publishing, retryQueued>>
  PROVE  PubTypes' /\ Driven' /\ publishing' \in BOOLEAN /\ retryQueued' \in Nat
<1>1. PubTypes' /\ publishing' \in BOOLEAN /\ retryQueued' \in Nat
  BY Types DEF IInv, SessionInv, PubTypes, OtherTypes, pubVars
<1>2. Driven'
  BY DEF IInv, SessionInv, Driven, AsleepIsQuiet, PublishingIsDriven, pubVars
<1>3. QED
  BY <1>1, <1>2

LEMMA Together ==
  ASSUME ConnTypes', PubTypes', WireTypes', OtherTypes', Driven', OneWayToConnect', StoppedIsQuiet'
  PROVE  IInv'
<1>1. TypeOK'
  BY DEF TypeOK, ConnTypes, PubTypes, WireTypes, OtherTypes, PeerRecords, PostedRecords, UpRecords, DownRecords
<1>2. QED
  BY <1>1 DEF IInv, SessionInv, Driven

-------------------------------------------------------------------------------
(* The connection. *)

LEMMA TokenReplyKeeps == ASSUME IInv, NEW c \in token, TokenReply(c) PROVE IInv'
<1>1. /\ token' = token \ {c}
      /\ UNCHANGED <<stopped, publishing, pubVars, unanswered, retryQueued, posted, workerVars>>
  BY DEF TokenReply
<1>2. PubTypes' /\ Driven' /\ StoppedIsQuiet
  BY <1>1, ConnectionKeeps DEF IInv
<1>3. ConnTypes /\ WireTypes /\ OtherTypes
  BY Types DEF IInv, SessionInv
<1>4. CASE stopped /\ UNCHANGED <<connection, socket, reconnecting, wireVars, budget>>
  <2>1. ConnTypes' /\ WireTypes' /\ OtherTypes'
    BY <1>1, <1>3, <1>4 DEF ConnTypes, WireTypes, OtherTypes, wireVars, workerVars
  <2>2. OneWayToConnect' /\ StoppedIsQuiet'
    BY <1>1, <1>2, <1>4 DEF OneWayToConnect, StoppedIsQuiet
  <2>3. QED
    BY <1>2, <2>1, <2>2, Together
<1>5. CASE ~stopped
  <2>1. token = {connection} /\ socket = "none" /\ ~reconnecting /\ c = connection /\ token' = {}
    BY <1>1, <1>5 DEF IInv, SessionInv, OneWayToConnect
  <2>2. CASE socket' = "opening" /\ UNCHANGED <<connection, reconnecting, wireVars, budget>>
    <3>1. ConnTypes' /\ WireTypes' /\ OtherTypes'
      BY <1>1, <1>3, <2>1, <2>2 DEF ConnTypes, WireTypes, OtherTypes, wireVars, workerVars
    <3>2. OneWayToConnect' /\ StoppedIsQuiet'
      BY <1>1, <1>5, <2>1, <2>2 DEF OneWayToConnect, StoppedIsQuiet
    <3>3. QED
      BY <1>2, <3>1, <3>2, Together
  <2>3. CASE ScheduleReconnect /\ Event
    <3>1. /\ connection' \in Nat /\ socket' = "none" /\ reconnecting' \in BOOLEAN /\ reconnecting'
          /\ WireTypes'
      BY <1>5, <2>1, <2>3, ReconnectScheduled
    <3>2. budget' \in 0..MaxEvents
      BY <2>3, EventCounts DEF IInv, SessionInv
    <3>3. ConnTypes' /\ OtherTypes'
      BY <1>1, <1>3, <2>1, <3>1, <3>2 DEF ConnTypes, OtherTypes, workerVars
    <3>4. OneWayToConnect' /\ StoppedIsQuiet'
      BY <1>1, <1>5, <2>1, <3>1 DEF OneWayToConnect, StoppedIsQuiet
    <3>5. QED
      BY <1>2, <3>1, <3>3, <3>4, Together
  <2>4. QED
    BY <1>5, <2>1, <2>2, <2>3 DEF TokenReply
<1>6. QED
  BY <1>4, <1>5 DEF TokenReply

LEMMA SocketOpensKeeps == ASSUME IInv, SocketOpens PROVE IInv'
<1>1. /\ socket = "opening" /\ socket' = "open" /\ \E t \in JoinedTypes : down' = <<Message(t)>>
      /\ UNCHANGED <<stopped, publishing, connection, token, reconnecting, pubVars, unanswered,
                     retryQueued, posted, up, workerVars, budget>>
  BY DEF SocketOpens
<1>2. PubTypes' /\ Driven' /\ StoppedIsQuiet
  BY <1>1, ConnectionKeeps DEF IInv
<1>3. ConnTypes /\ WireTypes /\ OtherTypes
  BY Types DEF IInv, SessionInv
<1>4. down' \in Seq(DownRecords)
  <2>1. PICK t \in JoinedTypes : down' = <<Message(t)>>
    BY <1>1
  <2>2. Message(t) \in DownRecords
    BY DEF Message, DownRecords, DownTypes, JoinedTypes
  <2>3. QED
    BY <2>1, <2>2
<1>5. ConnTypes' /\ WireTypes' /\ OtherTypes'
  BY <1>1, <1>3, <1>4 DEF ConnTypes, WireTypes, OtherTypes, workerVars
<1>6. OneWayToConnect' /\ StoppedIsQuiet'
  BY <1>1, <1>2 DEF IInv, SessionInv, OneWayToConnect, StoppedIsQuiet
<1>7. QED
  BY <1>2, <1>5, <1>6, Together

LEMMA SocketClosedKeeps == ASSUME IInv, NEW taken \in BOOLEAN, OnSocketClosed(taken) PROVE IInv'
<1>1. /\ socket # "none" /\ ScheduleReconnect /\ Event
      /\ UNCHANGED <<stopped, token, unanswered, retryQueued, posted, workerVars>>
  BY DEF OnSocketClosed
<1>2. ~stopped /\ token = {} /\ ~reconnecting
  BY <1>1 DEF IInv, SessionInv, StoppedIsQuiet, OneWayToConnect
<1>3. ConnTypes /\ WireTypes /\ OtherTypes
  BY Types DEF IInv, SessionInv
<1>4. /\ connection' \in Nat /\ socket' = "none" /\ reconnecting' \in BOOLEAN /\ reconnecting'
      /\ WireTypes'
  BY <1>1, <1>2, ReconnectScheduled
<1>5. budget' \in 0..MaxEvents
  BY <1>1, EventCounts DEF IInv, SessionInv
<1>6. PubTypes' /\ Driven' /\ publishing' \in BOOLEAN
  <2>1. CASE taken
    <3>1. StopPublishing /\ publishing' = FALSE
      BY <2>1 DEF OnSocketClosed
    <3>2. PubTypes' /\ ~peer'.live /\ ~retry' /\ ~health' /\ generation' = 0 /\ publishing' \in BOOLEAN
      BY <3>1, StopTypes DEF IInv, SessionInv
    <3>3. QED
      BY <3>1, <3>2 DEF Driven, AsleepIsQuiet, PublishingIsDriven
  <2>2. CASE ~taken
    BY <1>1, <2>2, ConnectionKeeps DEF OnSocketClosed
  <2>3. QED
    BY <2>1, <2>2
<1>7. ConnTypes' /\ OtherTypes'
  BY <1>1, <1>3, <1>4, <1>5, <1>6 DEF ConnTypes, OtherTypes, workerVars
<1>8. OneWayToConnect' /\ StoppedIsQuiet'
  BY <1>1, <1>2, <1>4 DEF OneWayToConnect, StoppedIsQuiet
<1>9. QED
  BY <1>4, <1>6, <1>7, <1>8, Together

LEMMA ReconnectTimerKeeps == ASSUME IInv, ReconnectTimer PROVE IInv'
<1>1. /\ reconnecting /\ ~stopped /\ reconnecting' = FALSE /\ connection' = connection + 1
      /\ token' = token \cup {connection'}
      /\ UNCHANGED <<stopped, publishing, socket, pubVars, unanswered, retryQueued, posted, wireVars,
                     workerVars, budget>>
  BY DEF ReconnectTimer
<1>2. PubTypes' /\ Driven' /\ StoppedIsQuiet
  BY <1>1, ConnectionKeeps DEF IInv
<1>3. ConnTypes /\ WireTypes /\ OtherTypes
  BY Types DEF IInv, SessionInv
<1>4. token = {} /\ socket = "none"
  BY <1>1 DEF IInv, SessionInv, OneWayToConnect
<1>5. ConnTypes'
  <2>1. connection' \in Nat
    BY <1>1, <1>3 DEF ConnTypes
  <2>2. reconnecting' \in BOOLEAN
    BY <1>1
  <2>3. QED
    BY <1>1, <1>3, <2>1, <2>2 DEF ConnTypes
<1>6. WireTypes' /\ OtherTypes'
  BY <1>1, <1>3 DEF WireTypes, OtherTypes, wireVars, workerVars
<1>7. OneWayToConnect' /\ StoppedIsQuiet'
  BY <1>1, <1>2, <1>4 DEF OneWayToConnect, StoppedIsQuiet
<1>8. QED
  BY <1>2, <1>5, <1>6, <1>7, Together

LEMMA DisconnectKeeps == ASSUME IInv, Disconnect PROVE IInv'
<1>1. /\ stopped' = TRUE /\ connection' = connection + 1 /\ StopPublishing /\ publishing' = FALSE /\ DropSocket
      /\ UNCHANGED <<token, reconnecting, unanswered, retryQueued, posted, workerVars, budget>>
  BY DEF Disconnect
<1>2. ConnTypes /\ WireTypes /\ OtherTypes
  BY Types DEF IInv, SessionInv
<1>3. PubTypes' /\ ~peer'.live /\ ~retry' /\ ~health' /\ generation' = 0
  BY <1>1, StopTypes DEF IInv, SessionInv
<1>4. WireTypes' /\ socket' = "none"
  BY <1>1, DropTypes
<1>5. connection' \in Nat /\ stopped' \in BOOLEAN /\ publishing' \in BOOLEAN
  <2>1. connection' \in Nat
    BY <1>1, <1>2 DEF ConnTypes
  <2>2. stopped' \in BOOLEAN /\ publishing' \in BOOLEAN
    BY <1>1
  <2>3. QED
    BY <2>1, <2>2
<1>6. ConnTypes' /\ OtherTypes'
  BY <1>1, <1>2, <1>4, <1>5 DEF ConnTypes, OtherTypes, workerVars
<1>7. Driven' /\ OneWayToConnect' /\ StoppedIsQuiet'
  BY <1>1, <1>3, <1>4 DEF Driven, AsleepIsQuiet, PublishingIsDriven, OneWayToConnect, StoppedIsQuiet
<1>8. QED
  BY <1>3, <1>4, <1>6, <1>7, Together

-------------------------------------------------------------------------------
(* Messages of the worker. *)

LEMMA SendTypes ==
  ASSUME WireTypes, NEW request \in UpRecords, Send(request)
  PROVE  up' \in Seq(UpRecords)
<1>1. up \in Seq(UpRecords)
  BY DEF WireTypes
<1>2. Append(up, request) \in Seq(UpRecords)
  BY <1>1, AppendProperties
<1>3. QED
  BY <1>1, <1>2 DEF Send

LEMMA ReadyTypes ==
  ASSUME IInv, SendReady
  PROVE  up' \in Seq(UpRecords) /\ PubTypes'
<1>1. /\ readySent' = TRUE /\ Send(About("ready", publication))
      /\ UNCHANGED <<publication, peer, generation, offerSent, retry, health>>
  BY DEF SendReady
<1>2. PubTypes /\ WireTypes
  BY Types DEF IInv, SessionInv
<1>3. About("ready", publication) \in UpRecords
  BY <1>2 DEF About, UpRecords, PubTypes
<1>4. up' \in Seq(UpRecords)
  BY <1>1, <1>2, <1>3, SendTypes
<1>5. readySent' \in BOOLEAN
  BY <1>1
<1>6. PubTypes'
  BY <1>1, <1>2, <1>5 DEF PubTypes
<1>7. QED
  BY <1>4, <1>6

LEMMA RetryKeeps ==
  ASSUME IInv, RetryPublishing, publishing' = publishing, retryQueued' = retryQueued
  PROVE  PubTypes' /\ Driven'
<1>1. CASE publishing
  <2>1. PubTypes' /\ retry'
    BY <1>1, RetryTypes DEF RetryPublishing, IInv, SessionInv
  <2>2. QED
    BY <1>1, <2>1 DEF Driven, AsleepIsQuiet, PublishingIsDriven
<1>2. CASE ~publishing
  BY <1>2, ConnectionKeeps DEF RetryPublishing
<1>3. QED
  BY <1>1, <1>2

LEMMA SleepKeeps ==
  ASSUME IInv, StopPublishing, publishing' = FALSE
  PROVE  PubTypes' /\ Driven' /\ publishing' \in BOOLEAN
<1>1. PubTypes' /\ ~peer'.live /\ ~retry' /\ ~health' /\ generation' = 0
  BY StopTypes DEF IInv, SessionInv
<1>2. QED
  BY <1>1 DEF Driven, AsleepIsQuiet, PublishingIsDriven

(* What a message changes, whatever it is. *)
Heard == PubTypes' /\ Driven' /\ publishing' \in BOOLEAN /\ unanswered' \in Nat /\ up' \in Seq(UpRecords) /\ budget' \in 0..MaxEvents

LEMMA Same ==
  ASSUME IInv, UNCHANGED <<retryQueued>>
  PROVE  /\ publishing' = publishing => publishing' \in BOOLEAN
         /\ unanswered' = unanswered => unanswered' \in Nat
         /\ up' = up => up' \in Seq(UpRecords)
         /\ budget' = budget => budget' \in 0..MaxEvents
         /\ unanswered' = Max0(unanswered) => unanswered' \in Nat
         /\ UNCHANGED <<pubVars, publishing>> => PubTypes' /\ Driven'
<1>1. publishing \in BOOLEAN /\ unanswered \in Nat /\ up \in Seq(UpRecords) /\ budget \in 0..MaxEvents
  BY Types DEF IInv, SessionInv, OtherTypes, WireTypes
<1>2. unanswered' = Max0(unanswered) => unanswered' \in Nat
  BY <1>1 DEF Max0
<1>3. UNCHANGED <<pubVars, publishing>> => PubTypes' /\ Driven'
  BY ConnectionKeeps
<1>4. QED
  BY <1>1, <1>2, <1>3

LEMMA JoinedKeeps ==
  ASSUME IInv, NEW m, OnJoined(m), UNCHANGED retryQueued
  PROVE  Heard
<1>1. unanswered' = 0 /\ UNCHANGED budget
  BY DEF OnJoined
<1>2. unanswered' \in Nat /\ budget' \in 0..MaxEvents
  BY <1>1, Same
<1>3. CASE StopPublishing /\ publishing' = FALSE /\ UNCHANGED up
  BY <1>2, <1>3, SleepKeeps, Same DEF Heard
<1>4. CASE SendReady /\ UNCHANGED publishing
  <2>1. up' \in Seq(UpRecords) /\ PubTypes' /\ UNCHANGED <<peer, generation, retry, health>>
    BY <1>4, ReadyTypes DEF SendReady
  <2>2. Driven'
    BY <1>4, <2>1 DEF IInv, SessionInv, Driven, AsleepIsQuiet, PublishingIsDriven
  <2>3. publishing' \in BOOLEAN
    BY <1>4, Same
  <2>4. QED
    BY <1>2, <2>1, <2>2, <2>3 DEF Heard
<1>5. CASE UNCHANGED <<pubVars, publishing, up>>
  BY <1>2, <1>5, Same DEF Heard
<1>6. QED
  BY <1>3, <1>4, <1>5 DEF OnJoined

LEMMA WakeKeeps ==
  ASSUME IInv, NEW m, OnWake(m), UNCHANGED retryQueued
  PROVE  Heard
<1>1. publishing' = TRUE /\ StartPublishing /\ UNCHANGED <<unanswered, up>>
  BY DEF OnWake
<1>2. PubTypes' /\ budget' \in 0..MaxEvents /\ ((peer'.live /\ health') \/ retry')
  BY <1>1, StartTypes DEF IInv, SessionInv
<1>3. Driven' /\ publishing' \in BOOLEAN
  BY <1>1, <1>2 DEF Driven, AsleepIsQuiet, PublishingIsDriven
<1>4. QED
  BY <1>1, <1>2, <1>3, Same DEF Heard

(* A peer that is told something stays what it is. *)
LEMMA PeerTypes ==
  ASSUME IInv, NEW k \in Nat
  PROVE  /\ [peer EXCEPT !.answer = k] \in PeerRecords /\ [peer EXCEPT !.answer = k].live = peer.live
         /\ [peer EXCEPT !.channels = k] \in PeerRecords /\ [peer EXCEPT !.channels = k].live = peer.live
         /\ [peer EXCEPT !.offering = FALSE] \in PeerRecords /\ [peer EXCEPT !.offering = FALSE].live = peer.live
         /\ \A conn \in {"new", "connected", "failed", "closed"} :
              [peer EXCEPT !.conn = conn] \in PeerRecords /\ [peer EXCEPT !.conn = conn].live = peer.live
<1>1. peer \in PeerRecords
  BY Types DEF IInv, SessionInv, PubTypes
<1>2. QED
  BY <1>1 DEF PeerRecords

LEMMA AnswerKeeps ==
  ASSUME IInv, NEW m \in DownRecords, OnAnswer(m), UNCHANGED retryQueued
  PROVE  Heard
<1>1. /\ unanswered' = Max0(unanswered)
      /\ UNCHANGED <<publication, offerSent, readySent, retry, health, publishing, up, budget>>
  BY DEF OnAnswer
<1>2. unanswered' \in Nat /\ publishing' \in BOOLEAN /\ up' \in Seq(UpRecords) /\ budget' \in 0..MaxEvents
  BY <1>1, Same
<1>3. PubTypes
  BY Types DEF IInv, SessionInv
<1>4. CASE LastReply
  <2>1. generation' = m.of /\ peer' = [peer EXCEPT !.answer = m.of] /\ m.of \in Nat /\ peer.live
    BY <1>4 DEF OnAnswer, LastReply, DownRecords
  <2>2. peer' \in PeerRecords /\ peer'.live = peer.live
    BY <2>1, PeerTypes
  <2>3. PubTypes'
    BY <1>1, <1>3, <2>1, <2>2 DEF PubTypes
  <2>4. publishing
    BY <2>1 DEF IInv, SessionInv, AsleepIsQuiet
  <2>5. Driven'
    BY <1>1, <2>2, <2>4 DEF IInv, SessionInv, Driven, AsleepIsQuiet, PublishingIsDriven
  <2>6. QED
    BY <1>2, <2>3, <2>5 DEF Heard
<1>5. CASE ~LastReply
  <2>1. UNCHANGED <<generation, peer>>
    BY <1>5 DEF OnAnswer
  <2>2. QED
    BY <1>1, <1>2, <2>1, Same DEF Heard, pubVars
<1>6. QED
  BY <1>4, <1>5

LEMMA ErrorKeeps ==
  ASSUME IInv, NEW m, OnError(m), UNCHANGED retryQueued
  PROVE  Heard
<1>1. unanswered' = Max0(unanswered) /\ UNCHANGED <<up, budget>>
  BY DEF OnError
<1>2. unanswered' \in Nat /\ up' \in Seq(UpRecords) /\ budget' \in 0..MaxEvents
  BY <1>1, Same
<1>3. CASE UNCHANGED <<pubVars, publishing>>
  BY <1>2, <1>3, Same DEF Heard
<1>4. CASE StopPublishing /\ publishing' = FALSE
  BY <1>2, <1>4, SleepKeeps DEF Heard
<1>5. CASE RetryPublishing /\ UNCHANGED publishing
  BY <1>2, <1>5, RetryKeeps, Same DEF Heard
<1>6. QED
  BY <1>3, <1>4, <1>5 DEF OnError

LEMMA ChannelsKeeps ==
  ASSUME IInv, NEW m \in DownRecords, OnChannels(m), UNCHANGED retryQueued
  PROVE  Heard
<1>1. UNCHANGED <<publication, generation, offerSent, readySent, retry, health, publishing,
                  unanswered, up, budget>>
  BY DEF OnChannels
<1>2. unanswered' \in Nat /\ publishing' \in BOOLEAN /\ up' \in Seq(UpRecords) /\ budget' \in 0..MaxEvents
  BY <1>1, Same
<1>3. PubTypes
  BY Types DEF IInv, SessionInv
<1>4. peer' \in PeerRecords /\ peer'.live = peer.live
  <2>1. m.of \in Nat /\ peer \in PeerRecords
    BY <1>3 DEF DownRecords, PubTypes
  <2>2. peer' = [peer EXCEPT !.channels = m.of] \/ peer' = peer
    BY DEF OnChannels
  <2>3. QED
    BY <2>1, <2>2, PeerTypes
<1>5. PubTypes'
  BY <1>1, <1>3, <1>4 DEF PubTypes
<1>6. Driven'
  BY <1>1, <1>4 DEF IInv, SessionInv, Driven, AsleepIsQuiet, PublishingIsDriven
<1>7. QED
  BY <1>2, <1>5, <1>6 DEF Heard

LEMMA SleepMessage ==
  ASSUME IInv, NEW m, OnSleep(m), UNCHANGED retryQueued
  PROVE  Heard
<1>1. StopPublishing /\ publishing' = FALSE /\ UNCHANGED <<unanswered, up, budget>>
  BY DEF OnSleep
<1>2. QED
  BY <1>1, SleepKeeps, Same DEF Heard

LEMMA MessageKeeps == ASSUME IInv, NEW m, OnMessage(m) PROVE IInv'
<1>1. /\ socket = "open" /\ down # <<>> /\ m = Head(down) /\ down' = Tail(down)
      /\ UNCHANGED <<stopped, connVars, retryQueued, posted, workerVars>>
  BY DEF OnMessage, Receive
<1>2. ConnTypes /\ WireTypes /\ OtherTypes
  BY Types DEF IInv, SessionInv
<1>3. m \in DownRecords /\ down' \in Seq(DownRecords)
  BY <1>1, <1>2, HeadTailProperties DEF WireTypes
<1>4. Heard
  BY <1>1, <1>3, JoinedKeeps, WakeKeeps, AnswerKeeps, ErrorKeeps, ChannelsKeeps, SleepMessage DEF OnMessage
<1>5. ConnTypes' /\ WireTypes' /\ OtherTypes' /\ PubTypes' /\ Driven'
  BY <1>1, <1>2, <1>3, <1>4 DEF Heard, ConnTypes, WireTypes, OtherTypes, connVars, workerVars
<1>6. OneWayToConnect' /\ StoppedIsQuiet'
  BY <1>1 DEF IInv, SessionInv, OneWayToConnect, StoppedIsQuiet, connVars
<1>7. QED
  BY <1>5, <1>6, Together

-------------------------------------------------------------------------------
(* What the loop runs besides messages, the peer and the worker. *)

LEMMA Away ==
  ASSUME IInv, UNCHANGED <<stopped, publishing, connVars>>
  PROVE  ConnTypes' /\ OneWayToConnect' /\ StoppedIsQuiet'
<1>1. ConnTypes
  BY Types DEF IInv, SessionInv
<1>2. UNCHANGED <<connection, token, socket, reconnecting>>
  BY DEF connVars
<1>3. ConnTypes'
  BY <1>1, <1>2 DEF ConnTypes
<1>4. OneWayToConnect' /\ StoppedIsQuiet'
  BY <1>2 DEF IInv, SessionInv, OneWayToConnect, StoppedIsQuiet
<1>5. QED
  BY <1>3, <1>4

LEMMA SendOfferKeeps ==
  ASSUME IInv, NEW c \in PostedRecords, SendOffer(c), UNCHANGED <<publishing, retryQueued>>
  PROVE  Heard
<1>1. CASE RetryPublishing /\ Event /\ UNCHANGED <<unanswered, up>>
  <2>1. PubTypes' /\ Driven'
    BY <1>1, RetryKeeps
  <2>2. budget' \in 0..MaxEvents
    BY <1>1, EventCounts DEF IInv, SessionInv
  <2>3. QED
    BY <1>1, <2>1, <2>2, Same DEF Heard
<1>2. CASE /\ Send(c)
           /\ IF socket = "open"
              THEN unanswered' = unanswered + 1 /\ offerSent' = TRUE
              ELSE UNCHANGED <<unanswered, offerSent>>
           /\ UNCHANGED <<publication, peer, generation, readySent, retry, health, budget>>
  <2>1. PubTypes /\ WireTypes /\ OtherTypes
    BY Types DEF IInv, SessionInv
  <2>2. c \in UpRecords
    BY DEF SendOffer, PostedRecords, UpRecords
  <2>3. up' \in Seq(UpRecords)
    BY <1>2, <2>1, <2>2, SendTypes
  <2>4. unanswered' \in Nat
    BY <1>2, <2>1 DEF OtherTypes
  <2>5. offerSent' = TRUE \/ offerSent' = offerSent
    BY <1>2
  <2>6. offerSent' \in BOOLEAN
    BY <2>1, <2>5 DEF PubTypes
  <2>7. PubTypes'
    BY <1>2, <2>1, <2>6 DEF PubTypes
  <2>8. Driven'
    BY <1>2 DEF IInv, SessionInv, Driven, AsleepIsQuiet, PublishingIsDriven
  <2>9. QED
    BY <1>2, <2>3, <2>4, <2>7, <2>8, Same DEF Heard
<1>3. QED
  BY <1>1, <1>2 DEF SendOffer

LEMMA PeerStateKeeps ==
  ASSUME IInv, NEW c, OnPeerState(c), UNCHANGED <<publishing, retryQueued>>
  PROVE  Heard
<1>1. UNCHANGED <<unanswered, budget>>
  BY DEF OnPeerState
<1>2. CASE SendReady
  <2>1. up' \in Seq(UpRecords) /\ PubTypes' /\ UNCHANGED <<peer, generation, retry, health>>
    BY <1>2, ReadyTypes DEF SendReady
  <2>2. Driven'
    BY <2>1 DEF IInv, SessionInv, Driven, AsleepIsQuiet, PublishingIsDriven
  <2>3. QED
    BY <1>1, <2>1, <2>2, Same DEF Heard
<1>3. CASE UNCHANGED <<pubVars, up>>
  BY <1>1, <1>3, Same DEF Heard
<1>4. CASE RetryPublishing /\ UNCHANGED up
  BY <1>1, <1>4, RetryKeeps, Same DEF Heard
<1>5. QED
  BY <1>2, <1>3, <1>4 DEF OnPeerState

LEMMA RunPostedKeeps == ASSUME IInv, RunPosted PROVE IInv'
<1> DEFINE c == Head(posted)
<1>1. /\ posted # <<>> /\ posted' = Tail(posted)
      /\ PostedStale(c) \/ SendOffer(c) \/ OnPeerState(c)
      /\ early' = (early \/ (up' # up /\ Joining))
      /\ UNCHANGED <<stopped, publishing, connVars, retryQueued, down, answered, readySeen>>
  BY DEF RunPosted
<1>2. WireTypes /\ OtherTypes
  BY Types DEF IInv, SessionInv
<1>3. c \in PostedRecords /\ posted' \in Seq(PostedRecords)
  BY <1>1, <1>2, HeadTailProperties DEF OtherTypes
<1>4. early' \in BOOLEAN
  BY <1>1
<1> HIDE DEF c
<1>5. Heard
  <2>1. CASE PostedStale(c)
    BY <1>1, <2>1, Same DEF PostedStale, Heard
  <2>2. QED
    BY <1>1, <1>3, <2>1, SendOfferKeeps, PeerStateKeeps
<1>6. WireTypes' /\ OtherTypes'
  BY <1>1, <1>2, <1>3, <1>4, <1>5 DEF Heard, WireTypes, OtherTypes
<1>7. QED
  BY <1>1, <1>5, <1>6, Away, Together DEF Heard

LEMMA RetryTimerKeeps == ASSUME IInv, RetryTimer PROVE IInv'
<1>1. /\ retry /\ retry' = FALSE /\ retryQueued' = retryQueued + 1
      /\ UNCHANGED <<stopped, publishing, connVars, publication, peer, generation, offerSent, readySent,
                     health, unanswered, posted, wireVars, workerVars, budget>>
  BY DEF RetryTimer
<1>2. PubTypes /\ WireTypes /\ OtherTypes
  BY Types DEF IInv, SessionInv
<1>3. retry' \in BOOLEAN
  BY <1>1
<1>4. retryQueued' \in Nat /\ retryQueued' > 0
  BY <1>1, <1>2 DEF OtherTypes
<1>5. PubTypes' /\ WireTypes' /\ OtherTypes'
  BY <1>1, <1>2, <1>3, <1>4 DEF PubTypes, WireTypes, OtherTypes, wireVars, workerVars
<1>6. Driven'
  BY <1>1, <1>4 DEF IInv, SessionInv, Driven, AsleepIsQuiet, PublishingIsDriven
<1>7. QED
  BY <1>1, <1>5, <1>6, Away, Together

LEMMA RetryHandlerKeeps == ASSUME IInv, RetryHandler PROVE IInv'
<1>1. /\ retryQueued > 0 /\ retryQueued' = retryQueued - 1
      /\ IF stopped \/ ~publishing THEN UNCHANGED <<pubVars, budget>> ELSE StartPublishing
      /\ UNCHANGED <<stopped, publishing, connVars, unanswered, posted, wireVars, workerVars>>
  BY DEF RetryHandler
<1>2. PubTypes /\ WireTypes /\ OtherTypes
  BY Types DEF IInv, SessionInv
<1>3. retryQueued' \in Nat
  BY <1>1, <1>2 DEF OtherTypes
<1>4. PubTypes' /\ Driven' /\ budget' \in 0..MaxEvents
  <2>1. CASE ~publishing
    <3>1. UNCHANGED <<pubVars, budget, publishing>>
      BY <1>1, <2>1
    <3>2. UNCHANGED <<publication, peer, generation, offerSent, readySent, retry, health>>
      BY <3>1 DEF pubVars
    <3>3. PubTypes' /\ budget' \in 0..MaxEvents
      BY <1>2, <3>1, <3>2 DEF PubTypes, OtherTypes
    <3>4. Driven'
      BY <2>1, <3>1, <3>2 DEF IInv, SessionInv, Driven, AsleepIsQuiet, PublishingIsDriven
    <3>5. QED
      BY <3>3, <3>4
  <2>2. CASE publishing
    <3>1. StartPublishing /\ publishing'
      BY <1>1, <2>2 DEF IInv, StoppedIsQuiet
    <3>2. PubTypes' /\ budget' \in 0..MaxEvents /\ ((peer'.live /\ health') \/ retry')
      BY <3>1, StartTypes DEF IInv, SessionInv
    <3>3. QED
      BY <3>1, <3>2 DEF Driven, AsleepIsQuiet, PublishingIsDriven
  <2>3. QED
    BY <2>1, <2>2
<1>5. WireTypes' /\ OtherTypes'
  BY <1>1, <1>2, <1>3, <1>4 DEF WireTypes, OtherTypes, wireVars, workerVars
<1>6. QED
  BY <1>1, <1>4, <1>5, Away, Together

LEMMA MonitorPeerKeeps == ASSUME IInv, MonitorPeer PROVE IInv'
<1>1. /\ RetryPublishing /\ (UNCHANGED budget \/ Event)
      /\ UNCHANGED <<stopped, publishing, connVars, unanswered, retryQueued, posted, wireVars, workerVars>>
  BY DEF MonitorPeer
<1>2. WireTypes /\ OtherTypes
  BY Types DEF IInv, SessionInv
<1>3. PubTypes' /\ Driven'
  BY <1>1, RetryKeeps
<1>4. budget' \in 0..MaxEvents
  BY <1>1, <1>2, EventCounts DEF IInv, SessionInv, OtherTypes
<1>5. WireTypes' /\ OtherTypes'
  BY <1>1, <1>2, <1>4 DEF WireTypes, OtherTypes, wireVars, workerVars
<1>6. QED
  BY <1>1, <1>3, <1>5, Away, Together

LEMMA PeerSaysKeeps ==
  ASSUME IInv, NEW p \in PeerRecords, p.live = peer.live,
         NEW what \in {"", "offer", "connected", "failed"},
         PeerSays(p, what), UNCHANGED budget \/ Event
  PROVE  IInv'
<1>1. /\ peer' = p
      /\ posted' = IF what = "" THEN posted ELSE Append(posted, About(what, publication))
      /\ UNCHANGED <<stopped, publishing, connVars, publication, generation, offerSent, readySent, retry,
                     health, unanswered, retryQueued, wireVars, workerVars>>
  BY DEF PeerSays
<1>2. PubTypes /\ WireTypes /\ OtherTypes
  BY Types DEF IInv, SessionInv
<1>3. posted' \in Seq(PostedRecords)
  <2>1. posted \in Seq(PostedRecords) /\ publication \in Nat
    BY <1>2 DEF PubTypes, OtherTypes
  <2>2. CASE what # ""
    <3>1. About(what, publication) \in PostedRecords
      BY <2>1, <2>2 DEF About, PostedRecords
    <3>2. Append(posted, About(what, publication)) \in Seq(PostedRecords)
      BY <2>1, <3>1, AppendProperties
    <3>3. QED
      BY <1>1, <2>2, <3>2
  <2>3. QED
    BY <1>1, <2>1, <2>2
<1>4. budget' \in 0..MaxEvents
  BY <1>2, EventCounts DEF IInv, SessionInv, OtherTypes
<1>5. PubTypes' /\ WireTypes' /\ OtherTypes'
  BY <1>1, <1>2, <1>3, <1>4 DEF PubTypes, WireTypes, OtherTypes, wireVars, workerVars
<1>6. Driven'
  BY <1>1 DEF IInv, SessionInv, Driven, AsleepIsQuiet, PublishingIsDriven
<1>7. QED
  BY <1>1, <1>5, <1>6, Away, Together

LEMMA PeerKeeps == ASSUME IInv, PeerStep \/ PeerFails \/ PeerCloses PROVE IInv'
<1>1. CASE LocalOffer
  <2>1. PeerSays([peer EXCEPT !.offering = FALSE], "offer") /\ UNCHANGED budget
    BY <1>1 DEF LocalOffer
  <2>2. QED
    BY <2>1, PeerTypes, PeerSaysKeeps
<1>2. CASE PeerConnects
  <2>1. PeerSays([peer EXCEPT !.conn = "connected"], "connected") /\ UNCHANGED budget
    BY <1>2 DEF PeerConnects
  <2>2. QED
    BY <2>1, PeerTypes, PeerSaysKeeps
<1>3. CASE PeerFails
  <2>1. PeerSays([peer EXCEPT !.conn = "failed"], "failed") /\ Event
    BY <1>3 DEF PeerFails
  <2>2. QED
    BY <2>1, PeerTypes, PeerSaysKeeps
<1>4. CASE PeerCloses
  <2>1. PeerSays([peer EXCEPT !.conn = "closed"], "") /\ Event
    BY <1>4 DEF PeerCloses
  <2>2. QED
    BY <2>1, PeerTypes, PeerSaysKeeps
<1>5. QED
  BY <1>1, <1>2, <1>3, <1>4 DEF PeerStep

-------------------------------------------------------------------------------
(* The worker only touches what is on the wire. *)

LEMMA WorkerTouches ==
  ASSUME IInv, WireTypes', answered' \in Nat, readySeen' \subseteq Nat, early' = early,
         UNCHANGED budget \/ Event,
         UNCHANGED <<stopped, publishing, connVars, pubVars, unanswered, retryQueued, posted>>
  PROVE  IInv'
<1>1. OtherTypes
  BY Types DEF IInv, SessionInv
<1>2. budget' \in 0..MaxEvents
  BY <1>1, EventCounts DEF IInv, SessionInv, OtherTypes
<1>3. OtherTypes'
  BY <1>1, <1>2 DEF OtherTypes
<1>4. PubTypes' /\ Driven'
  BY ConnectionKeeps
<1>5. QED
  BY <1>3, <1>4, Away, Together

LEMMA TellTypes ==
  ASSUME WireTypes, NEW t \in DownTypes, NEW k \in Nat, Tell(About(t, k))
  PROVE  down' \in Seq(DownRecords)
<1>1. down \in Seq(DownRecords) /\ About(t, k) \in DownRecords
  BY DEF WireTypes, About, DownRecords
<1>2. Append(down, About(t, k)) \in Seq(DownRecords)
  BY <1>1, AppendProperties
<1>3. QED
  BY <1>2 DEF Tell

LEMMA WorkerKeeps == ASSUME IInv, WorkerStep \/ WorkerWakesOrSleeps \/ WorkerSendsChannels PROVE IInv'
<1>1. WireTypes /\ answered \in Nat /\ readySeen \subseteq Nat
  BY Types DEF IInv, SessionInv, OtherTypes
<1>2. CASE WorkerReplies
  <2> DEFINE k == Head(up).of
  <2>1. Head(up) \in UpRecords /\ up' \in Seq(UpRecords) /\ UNCHANGED <<readySeen, early>>
    BY <1>1, <1>2, HeadTailProperties DEF WorkerReplies, WireTypes
  <2>2. k \in Nat
    BY <2>1 DEF UpRecords
  <2>3. \/ Tell(About("answer", k)) /\ answered' = k /\ UNCHANGED budget
        \/ \E t \in {"stale", "error"} : Tell(About(t, k)) /\ Event /\ UNCHANGED answered
    BY <1>2 DEF WorkerReplies
  <2> HIDE DEF k
  <2>4. PICK t \in {"answer", "stale", "error"} : Tell(About(t, k))
    BY <2>3
  <2>5. t \in DownTypes
    BY DEF DownTypes
  <2>6. WireTypes'
    BY <1>1, <2>1, <2>2, <2>4, <2>5, TellTypes DEF WireTypes
  <2>7. answered' \in Nat /\ (UNCHANGED budget \/ Event)
    BY <1>1, <2>2, <2>3
  <2>8. QED
    BY <1>1, <2>1, <2>4, <2>6, <2>7, WorkerTouches DEF Tell
<1>3. CASE WorkerHearsReady
  <2>1. /\ up # <<>> /\ up' = Tail(up) /\ readySeen' = readySeen \cup {Head(up).of}
        /\ UNCHANGED <<stopped, publishing, connVars, pubVars, unanswered, retryQueued, posted, down,
                       answered, early, budget>>
    BY <1>3 DEF WorkerHearsReady
  <2>2. Head(up) \in UpRecords /\ up' \in Seq(UpRecords)
    BY <1>1, <2>1, HeadTailProperties DEF WireTypes
  <2>3. readySeen' \subseteq Nat
    BY <1>1, <2>1, <2>2 DEF UpRecords
  <2>4. WireTypes'
    BY <1>1, <2>1, <2>2 DEF WireTypes
  <2>5. QED
    BY <1>1, <2>1, <2>3, <2>4, WorkerTouches
<1>4. CASE WorkerWakesOrSleeps
  <2>1. PICK t \in {"wake", "sleep"} : Tell(Message(t))
    BY <1>4 DEF WorkerWakesOrSleeps
  <2>2. Tell(About(t, 0)) /\ t \in DownTypes
    BY <2>1 DEF Message, About, DownTypes
  <2>3. WireTypes'
    BY <1>1, <1>4, <2>2, TellTypes DEF WireTypes, WorkerWakesOrSleeps
  <2>4. QED
    BY <1>1, <1>4, <2>2, <2>3, WorkerTouches DEF WorkerWakesOrSleeps, workerVars, Tell
<1>5. CASE WorkerSendsChannels
  <2>1. Tell(About("channels", answered)) /\ Event /\ UNCHANGED <<up, workerVars>>
    BY <1>5 DEF WorkerSendsChannels
  <2>2. "channels" \in DownTypes
    BY DEF DownTypes
  <2>3. WireTypes'
    BY <1>1, <2>1, <2>2, TellTypes DEF WireTypes
  <2>4. QED
    BY <1>1, <2>1, <2>3, WorkerTouches DEF workerVars, Tell
<1>6. QED
  BY <1>2, <1>3, <1>4, <1>5 DEF WorkerStep

-------------------------------------------------------------------------------

LEMMA Preserved == ASSUME IInv, [Next]_vars PROVE IInv'
<1>1. CASE UNCHANGED vars
  BY <1>1 DEF vars, connVars, pubVars, wireVars, workerVars, IInv, SessionInv, TypeOK,
     AsleepIsQuiet, OneWayToConnect, PublishingIsDriven, StoppedIsQuiet
<1>2. CASE Next
  <2>1. CASE ConnectionStep
    BY <2>1, TokenReplyKeeps, SocketOpensKeeps, ReconnectTimerKeeps DEF ConnectionStep
  <2>2. CASE \E taken \in BOOLEAN : OnSocketClosed(taken)
    BY <2>2, SocketClosedKeeps
  <2>3. CASE MessageStep
    BY <2>3, MessageKeeps DEF MessageStep
  <2>4. CASE PeerStep \/ PeerFails \/ PeerCloses
    BY <2>4, PeerKeeps
  <2>5. CASE WorkerStep \/ WorkerWakesOrSleeps \/ WorkerSendsChannels
    BY <2>5, WorkerKeeps
  <2>6. QED
    BY <1>2, <2>1, <2>2, <2>3, <2>4, <2>5, RunPostedKeeps, RetryTimerKeeps, RetryHandlerKeeps,
       MonitorPeerKeeps, DisconnectKeeps DEF Next
<1>3. QED
  BY <1>1, <1>2

(* A service that sleeps has no peer and no timer left; one that was woken is driven on by a  *)
(* monitored peer or a retry; and until it is stopped it is connecting in exactly one way, so *)
(* that neither a lost socket nor a failed token request leaves it with two connections or    *)
(* none (ScheduleReconnect, StopPublishing, SchedulePublishRetry in cloudflare_service.cpp).  *)
THEOREM SessionAlwaysKept == Spec => []SessionInv
<1>1. Init => IInv
  BY Initial
<1>2. IInv /\ [Next]_vars => IInv'
  BY Preserved
<1>3. IInv => SessionInv
  BY DEF IInv
<1>4. QED
  BY <1>1, <1>2, <1>3, PTL DEF Spec

-------------------------------------------------------------------------------
(* Counting: how many messages of some types a sequence has. *)

Places(s, T) == {i \in 1..Len(s) : s[i].type \in T}
CountOf(s, T) == Cardinality(Places(s, T))

(* A count is a number, and it is zero where there is nothing to count. *)
LEMMA CountIsNat ==
  ASSUME NEW S, NEW s \in Seq(S), NEW T
  PROVE  /\ IsFiniteSet(Places(s, T)) /\ CountOf(s, T) \in Nat
         /\ CountOf(s, T) = 0 <=> Places(s, T) = {}
<1>1. Len(s) \in Nat
  BY LenProperties
<1>2. IsFiniteSet(1..Len(s))
  BY <1>1, FS_Interval
<1>3. Places(s, T) \in SUBSET (1..Len(s))
  BY DEF Places
<1>4. IsFiniteSet(Places(s, T))
  BY <1>2, <1>3, FS_Subset
<1>5. Cardinality(Places(s, T)) \in Nat
  BY <1>4, FS_CardinalityType
<1>6. Cardinality(Places(s, T)) = 0 <=> Places(s, T) = {}
  BY <1>4, FS_EmptySet
<1>7. QED
  BY <1>4, <1>5, <1>6 DEF CountOf

(* One more message counts if it is of the types. *)
LEMMA CountAppend ==
  ASSUME NEW S, NEW s \in Seq(S), NEW x \in S, NEW T
  PROVE  CountOf(Append(s, x), T) = IF x.type \in T THEN CountOf(s, T) + 1 ELSE CountOf(s, T)
<1> DEFINE n == Len(s)
           a == Append(s, x)
<1>1. n \in Nat /\ Len(a) = n + 1 /\ a[n + 1] = x /\ \A i \in 1..n : a[i] = s[i]
  BY AppendProperties, LenProperties
<1> HIDE DEF a, n
<1>2. 1..Len(a) = 1..n \cup {n + 1} /\ n + 1 \notin 1..n
  BY <1>1
<1>3. Places(s, T) = {i \in 1..n : s[i].type \in T}
  BY DEF Places, n
<1>4. Places(a, T) = IF x.type \in T THEN Places(s, T) \cup {n + 1} ELSE Places(s, T)
  BY <1>1, <1>2, <1>3 DEF Places
<1>5. n + 1 \notin Places(s, T)
  BY <1>2, <1>3
<1>6. Cardinality(Places(s, T) \cup {n + 1}) = Cardinality(Places(s, T)) + 1
  BY <1>5, CountIsNat, FS_AddElement
<1>7. QED
  BY <1>4, <1>6 DEF CountOf, a

(* And the head no longer counts once it is taken. *)
LEMMA CountTail ==
  ASSUME NEW S, NEW s \in Seq(S), s # <<>>, NEW T
  PROVE  CountOf(s, T) = IF Head(s).type \in T THEN CountOf(Tail(s), T) + 1 ELSE CountOf(Tail(s), T)
<1> DEFINE n == Len(s)
           t == Tail(s)
           P == Places(s, T)
           Q == Places(t, T)
           f == [i \in Q |-> i + 1]
<1>1. n \in Nat \ {0} /\ Head(s) = s[1] /\ t \in Seq(S) /\ Len(t) = n - 1 /\ \A i \in 1..Len(t) : t[i] = s[i + 1]
  <2>1. n \in Nat /\ n # 0 /\ s[1] \in S
    BY EmptySeq, LenProperties, ElementOfSeq
  <2>2. QED
    BY <2>1, HeadTailProperties
<1> HIDE DEF n, t
<1>2. P = {i \in 1..n : s[i].type \in T} /\ Q = {i \in 1..(n - 1) : s[i + 1].type \in T}
  BY <1>1 DEF Places, n
<1> HIDE DEF P, Q
<1>3. Q \subseteq Nat /\ 1 \in 1..n
  BY <1>1, <1>2
<1>4. \A j \in P \ {1} : j - 1 \in Q /\ (j - 1) + 1 = j
  BY <1>1, <1>2
<1>5. \A i \in Q : i + 1 \in P \ {1}
  BY <1>1, <1>2
<1>6. f \in Bijection(Q, P \ {1})
  <2>1. f \in [Q -> P \ {1}] /\ \A i \in Q : f[i] = i + 1
    BY <1>5
  <2> HIDE DEF f
  <2>2. \A i, j \in Q : f[i] = f[j] => i = j
    BY <1>3, <2>1
  <2>3. \A j \in P \ {1} : \E i \in Q : f[i] = j
    BY <1>4, <2>1
  <2>4. QED
    BY <2>1, <2>2, <2>3, Fun_IsBij
<1>7. IsFiniteSet(Q) /\ IsFiniteSet(P) /\ Cardinality(P) \in Nat /\ Cardinality(Q) \in Nat
  BY <1>1, CountIsNat DEF CountOf, P, Q
<1>8. Cardinality(P \ {1}) = Cardinality(Q)
  <2>1. ExistsBijection(Q, P \ {1})
    BY <1>6 DEF ExistsBijection
  <2>2. QED
    BY <1>7, <2>1, FS_Bijection
<1>9. Cardinality(P \ {1}) = IF 1 \in P THEN Cardinality(P) - 1 ELSE Cardinality(P)
  BY <1>7, FS_RemoveElement
<1>10. 1 \in P <=> Head(s).type \in T
  BY <1>1, <1>2, <1>3
<1>11. CountOf(s, T) = Cardinality(P) /\ CountOf(t, T) = Cardinality(Q)
  BY DEF CountOf, P, Q
<1>12. QED
  BY <1>7, <1>8, <1>9, <1>10, <1>11 DEF t

-------------------------------------------------------------------------------
(* What is on the way.  u is what goes to the worker and d what comes from it; the offers *)
(* that went out so far are those below b, and a is the last one that was answered.       *)

(* Offers and replies follow each other in the order of their publications, and the       *)
(* channels told after an answer are not older than it.                                    *)
Ordered(u, d, a, b) ==
  /\ a = 0 \/ a < b
  /\ \A i \in 1..Len(u) : u[i].type = "offer" =>
       /\ a < u[i].of /\ u[i].of < b
       /\ \A j \in 1..Len(u) : u[j].type = "offer" /\ i < j => u[i].of < u[j].of
       /\ \A j \in 1..Len(d) : d[j].type \in Replies => d[j].of < u[i].of
  /\ \A i \in 1..Len(d) : d[i].type \in Replies =>
       /\ d[i].of < b
       /\ \A j \in 1..Len(d) : d[j].type \in Replies /\ i < j => d[i].of < d[j].of
  /\ \A i \in 1..Len(d) : d[i].type \in {"answer", "channels"} =>
       /\ d[i].of <= a
       /\ \A j \in 1..Len(d) : d[j].type = "channels" /\ d[i].type = "answer" /\ i < j => d[i].of <= d[j].of

(* While anything is under way, the offer of publication p or its reply is.               *)
UnderWay(u, d) == Places(u, {"offer"}) # {} \/ Places(d, Replies) # {}
HasOwn(u, d, p) ==
  UnderWay(u, d) => \/ \E i \in 1..Len(u) : u[i].type = "offer" /\ u[i].of = p
                    \/ \E i \in 1..Len(d) : d[i].type \in Replies /\ d[i].of = p

LEMMA Numbered ==
  ASSUME NEW u \in Seq(UpRecords), NEW d \in Seq(DownRecords)
  PROVE  /\ Len(u) \in Nat /\ \A i \in 1..Len(u) : u[i].of \in Nat
         /\ Len(d) \in Nat /\ \A i \in 1..Len(d) : d[i].of \in Nat
<1>1. \A i \in 1..Len(u) : u[i] \in UpRecords
  BY ElementOfSeq
<1>2. \A i \in 1..Len(d) : d[i] \in DownRecords
  BY ElementOfSeq
<1>3. \A x \in UpRecords : x.of \in Nat
  BY DEF UpRecords
<1>4. \A x \in DownRecords : x.of \in Nat
  BY DEF DownRecords
<1>5. QED
  BY <1>1, <1>2, <1>3, <1>4, LenProperties

LEMMA Nothing == ASSUME NEW a \in Nat, NEW b \in Nat, a = 0 \/ a < b PROVE Ordered(<<>>, <<>>, a, b)
  BY DEF Ordered

LEMMA OrderedLater ==
  ASSUME NEW u \in Seq(UpRecords), NEW d \in Seq(DownRecords), NEW a \in Nat, NEW b \in Nat,
         NEW c \in Nat, Ordered(u, d, a, b), b <= c
  PROVE  Ordered(u, d, a, c)
<1>1. a = 0 \/ a < c
  BY DEF Ordered
<1>2. ASSUME NEW i \in 1..Len(u), u[i].type = "offer" PROVE u[i].of < c
  <2>1. u[i].of < b /\ u[i].of \in Nat
    BY <1>2, Numbered DEF Ordered
  <2>2. QED
    BY <2>1
<1>3. ASSUME NEW i \in 1..Len(d), d[i].type \in Replies PROVE d[i].of < c
  <2>1. d[i].of < b /\ d[i].of \in Nat
    BY <1>3, Numbered DEF Ordered
  <2>2. QED
    BY <2>1
<1>4. QED
  BY <1>1, <1>2, <1>3 DEF Ordered

(* The service takes the next message.  It was the oldest reply, if it was one at all.    *)
LEMMA OrderedHears ==
  ASSUME NEW u \in Seq(UpRecords), NEW d \in Seq(DownRecords), d # <<>>, NEW a \in Nat, NEW b \in Nat,
         Ordered(u, d, a, b)
  PROVE  Ordered(u, Tail(d), a, b)
<1>1. /\ Len(Tail(d)) = Len(d) - 1 /\ Len(d) \in Nat /\ Len(u) \in Nat
      /\ \A i \in 1..Len(Tail(d)) : Tail(d)[i] = d[i + 1]
  BY HeadTailProperties, LenProperties
<1> DEFINE t == Tail(d)
<1>2. \A i \in 1..Len(t) : i + 1 \in 1..Len(d) /\ t[i] = d[i + 1]
  BY <1>1
<1> HIDE DEF t
<1>3. \A i, j \in 1..Len(t) : i < j => i + 1 < j + 1
  BY <1>1 DEF t
<1>4. Ordered(u, t, a, b)
  BY <1>2, <1>3 DEF Ordered
<1>5. QED
  BY <1>4 DEF t

LEMMA HasOwnHears ==
  ASSUME NEW u \in Seq(UpRecords), NEW d \in Seq(DownRecords), d # <<>>, NEW a \in Nat, NEW p \in Nat,
         Ordered(u, d, a, p + 1), HasOwn(u, d, p)
  PROVE  HasOwn(u, Tail(d), p)
<1> DEFINE t == Tail(d)
<1>1. /\ Len(t) = Len(d) - 1 /\ Len(d) \in Nat /\ Len(u) \in Nat
      /\ \A i \in 1..Len(t) : t[i] = d[i + 1]
  BY HeadTailProperties, LenProperties
<1>a. \A i \in 1..Len(t) : i + 1 \in 1..Len(d) /\ 1 < i + 1
  BY <1>1
<1>b. \A i \in 1..Len(d) : i = 1 \/ (i - 1 \in 1..Len(t) /\ t[i - 1] = d[i])
  BY <1>1
<1>c. 1 \in 1..Len(d)
  <2>1. Len(d) # 0
    BY EmptySeq
  <2>2. QED
    BY <1>1, <2>1
<1>2. /\ \A i \in 1..Len(u) : u[i].of \in Nat
      /\ \A i \in 1..Len(d) : d[i].of \in Nat
  BY Numbered
<1> HIDE DEF t
<1> SUFFICES ASSUME UnderWay(u, t)
             PROVE  \/ \E i \in 1..Len(u) : u[i].type = "offer" /\ u[i].of = p
                    \/ \E i \in 1..Len(t) : t[i].type \in Replies /\ t[i].of = p
  BY DEF HasOwn, t
<1>3. \/ \E i \in 1..Len(u) : u[i].type = "offer"
      \/ \E i \in 1..Len(t) : t[i].type \in Replies
  BY DEF UnderWay, Places
<1>4. UnderWay(u, d)
  BY <1>1, <1>a, <1>3 DEF UnderWay, Places
<1>5. CASE \E i \in 1..Len(u) : u[i].type = "offer" /\ u[i].of = p
  BY <1>5
<1>6. CASE \E i \in 1..Len(d) : d[i].type \in Replies /\ d[i].of = p
  <2>1. PICK i \in 1..Len(d) : d[i].type \in Replies /\ d[i].of = p
    BY <1>6
  <2>2. CASE i = 1
    <3>1. \A j \in 1..Len(u) : u[j].type = "offer" => p < u[j].of /\ u[j].of < p + 1
      BY <2>1 DEF Ordered
    <3>2. \A j \in 1..Len(d) : d[j].type \in Replies /\ 1 < j => p < d[j].of /\ d[j].of < p + 1
      BY <1>c, <2>1, <2>2 DEF Ordered
    <3>3. \A j \in 1..Len(t) : t[j].type \in Replies => p < d[j + 1].of /\ d[j + 1].of < p + 1
      BY <1>1, <1>a, <3>2
    <3>a. \A n \in Nat : ~(p < n /\ n < p + 1)
      OBVIOUS
    <3>4. \A j \in 1..Len(u) : u[j].type # "offer"
      BY <1>2, <3>1, <3>a
    <3>5. \A j \in 1..Len(t) : t[j].type \notin Replies
      BY <1>2, <1>a, <3>3, <3>a
    <3>6. QED
      BY <1>3, <3>4, <3>5
  <2>3. QED
    BY <1>b, <2>1, <2>2
<1>7. QED
  BY <1>4, <1>5, <1>6 DEF HasOwn

(* Ready goes after what is there, and the worker takes it off again.                     *)
LEMMA OrderedReady ==
  ASSUME NEW u \in Seq(UpRecords), NEW d \in Seq(DownRecords), NEW a \in Nat, NEW b \in Nat,
         NEW k \in Nat, Ordered(u, d, a, b)
  PROVE  Ordered(Append(u, About("ready", k)), d, a, b)
<1> DEFINE x == About("ready", k)
           v == Append(u, x)
<1>1. x.type # "offer" /\ x \in UpRecords
  BY DEF About, UpRecords
<1> HIDE DEF x
<1>2. Len(u) \in Nat /\ Len(v) = Len(u) + 1 /\ v[Len(u) + 1] = x /\ \A i \in 1..Len(u) : v[i] = u[i]
  BY <1>1, AppendProperties, LenProperties
<1> HIDE DEF v
<1>3. \A i \in 1..Len(v) : v[i].type = "offer" => i \in 1..Len(u) /\ v[i] = u[i]
  BY <1>1, <1>2
<1>4. Ordered(v, d, a, b)
  BY <1>3 DEF Ordered
<1>5. QED
  BY <1>4 DEF v, x

LEMMA HasOwnReady ==
  ASSUME NEW u \in Seq(UpRecords), NEW d \in Seq(DownRecords), NEW p \in Nat,
         NEW k \in Nat, HasOwn(u, d, p)
  PROVE  HasOwn(Append(u, About("ready", k)), d, p)
<1> DEFINE x == About("ready", k)
           v == Append(u, x)
<1>1. x.type # "offer" /\ x \in UpRecords
  BY DEF About, UpRecords
<1> HIDE DEF x
<1>2. Len(u) \in Nat /\ Len(v) = Len(u) + 1 /\ v[Len(u) + 1] = x /\ \A i \in 1..Len(u) : v[i] = u[i]
  BY <1>1, AppendProperties, LenProperties
<1> HIDE DEF v
<1>3. \A i \in 1..Len(v) : v[i].type = "offer" => i \in 1..Len(u) /\ v[i] = u[i]
  BY <1>1, <1>2
<1>a. \A i \in 1..Len(u) : i \in 1..Len(v) /\ v[i] = u[i]
  BY <1>2
<1>4. UnderWay(v, d) <=> UnderWay(u, d)
  BY <1>3, <1>a DEF UnderWay, Places
<1>5. HasOwn(v, d, p)
  BY <1>a, <1>4 DEF HasOwn
<1>6. QED
  BY <1>5 DEF v, x

LEMMA OrderedTakesReady ==
  ASSUME NEW u \in Seq(UpRecords), u # <<>>, NEW d \in Seq(DownRecords), NEW a \in Nat, NEW b \in Nat,
         Ordered(u, d, a, b)
  PROVE  Ordered(Tail(u), d, a, b)
<1> DEFINE t == Tail(u)
<1>1. /\ Len(t) = Len(u) - 1 /\ Len(u) \in Nat
      /\ \A i \in 1..Len(t) : t[i] = u[i + 1]
  BY HeadTailProperties, LenProperties
<1> HIDE DEF t
<1>2. \A i \in 1..Len(t) : i + 1 \in 1..Len(u) /\ t[i] = u[i + 1]
  BY <1>1
<1>3. \A i, j \in 1..Len(t) : i < j => i + 1 < j + 1
  BY <1>1
<1>4. Ordered(t, d, a, b)
  BY <1>2, <1>3 DEF Ordered
<1>5. QED
  BY <1>4 DEF t

LEMMA HasOwnTakesReady ==
  ASSUME NEW u \in Seq(UpRecords), u # <<>>, Head(u).type # "offer", NEW d \in Seq(DownRecords), NEW p \in Nat,
         HasOwn(u, d, p)
  PROVE  HasOwn(Tail(u), d, p)
<1> DEFINE t == Tail(u)
<1>1. /\ Len(t) = Len(u) - 1 /\ Len(u) \in Nat /\ Head(u) = u[1]
      /\ \A i \in 1..Len(t) : t[i] = u[i + 1]
  BY HeadTailProperties, LenProperties
<1> HIDE DEF t
<1>2. \A i \in 1..Len(t) : i + 1 \in 1..Len(u) /\ t[i] = u[i + 1]
  BY <1>1
<1>3. \A i \in 1..Len(u) : u[i].type = "offer" => i - 1 \in 1..Len(t) /\ t[i - 1] = u[i]
  BY <1>1
<1>4. UnderWay(t, d) => UnderWay(u, d)
  BY <1>2 DEF UnderWay, Places
<1>5. HasOwn(t, d, p)
  BY <1>3, <1>4 DEF HasOwn
<1>6. QED
  BY <1>5 DEF t

(* The offer of publication p goes out: every earlier one was of an earlier publication.  *)
LEMMA OrderedOffer ==
  ASSUME NEW u \in Seq(UpRecords), NEW d \in Seq(DownRecords), NEW a \in Nat, NEW p \in Nat \ {0},
         Ordered(u, d, a, p)
  PROVE  /\ Ordered(Append(u, About("offer", p)), d, a, p + 1)
         /\ HasOwn(Append(u, About("offer", p)), d, p)
<1> DEFINE x == About("offer", p)
           v == Append(u, x)
           n == Len(u)
<1>1. x.type = "offer" /\ x.of = p /\ x \in UpRecords
  BY DEF About, UpRecords
<1> HIDE DEF x
<1>2. n \in Nat /\ Len(v) = n + 1 /\ v[n + 1] = x /\ \A i \in 1..n : v[i] = u[i]
  BY <1>1, AppendProperties, LenProperties
<1>3. /\ \A i \in 1..n : u[i].of \in Nat
      /\ \A i \in 1..Len(d) : d[i].of \in Nat
  BY Numbered
<1> HIDE DEF v
<1>4. 1..Len(v) = 1..n \cup {n + 1} /\ \A i \in 1..n : i < n + 1 /\ ~(n + 1 < i)
  BY <1>2
<1>5. a = 0 \/ a < p + 1
  BY DEF Ordered
<1>6. ASSUME NEW i \in 1..Len(v), v[i].type = "offer"
      PROVE  /\ a < v[i].of /\ v[i].of < p + 1
             /\ \A j \in 1..Len(v) : v[j].type = "offer" /\ i < j => v[i].of < v[j].of
             /\ \A j \in 1..Len(d) : d[j].type \in Replies => d[j].of < v[i].of
  <2>1. CASE i \in 1..n
    <3>1. /\ a < u[i].of /\ u[i].of < p /\ u[i].of \in Nat /\ v[i] = u[i]
          /\ \A j \in 1..n : u[j].type = "offer" /\ i < j => u[i].of < u[j].of
          /\ \A j \in 1..Len(d) : d[j].type \in Replies => d[j].of < u[i].of
      BY <1>2, <1>3, <1>6, <2>1 DEF Ordered, n
    <3>2. \A j \in 1..Len(v) : v[j].type = "offer" /\ i < j => v[i].of < v[j].of
      BY <1>1, <1>2, <1>4, <3>1
    <3>3. u[i].of < p + 1
      BY <3>1
    <3>4. QED
      BY <3>1, <3>2, <3>3
  <2>2. CASE i = n + 1
    <3>1. v[i].of = p
      BY <1>1, <1>2, <2>2
    <3>2. a < p /\ p < p + 1
      BY DEF Ordered
    <3>3. \A j \in 1..Len(v) : ~(i < j)
      BY <1>2, <1>4, <2>2
    <3>4. \A j \in 1..Len(d) : d[j].type \in Replies => d[j].of < p
      BY DEF Ordered
    <3>5. QED
      BY <3>1, <3>2, <3>3, <3>4
  <2>3. QED
    BY <1>4, <2>1, <2>2
<1>7. /\ \A i \in 1..Len(d) : d[i].type \in Replies =>
           /\ d[i].of < p + 1
           /\ \A j \in 1..Len(d) : d[j].type \in Replies /\ i < j => d[i].of < d[j].of
      /\ \A i \in 1..Len(d) : d[i].type \in {"answer", "channels"} =>
           /\ d[i].of <= a
           /\ \A j \in 1..Len(d) : d[j].type = "channels" /\ d[i].type = "answer" /\ i < j => d[i].of <= d[j].of
  BY <1>3 DEF Ordered
<1>8. Ordered(v, d, a, p + 1)
  BY <1>5, <1>6, <1>7 DEF Ordered
<1>9. HasOwn(v, d, p)
  BY <1>1, <1>2, <1>4 DEF HasOwn
<1>10. QED
  BY <1>8, <1>9 DEF v, x

(* The worker says something that is not a reply; what it says of channels is of the last *)
(* answer.                                                                                *)
LEMMA OrderedTells ==
  ASSUME NEW u \in Seq(UpRecords), NEW d \in Seq(DownRecords), NEW a \in Nat, NEW b \in Nat,
         NEW x \in DownRecords, x.type \notin Replies, x.type = "channels" => x.of = a,
         Ordered(u, d, a, b)
  PROVE  Ordered(u, Append(d, x), a, b)
<1> DEFINE v == Append(d, x)
           n == Len(d)
<1>1. n \in Nat /\ Len(v) = n + 1 /\ v[n + 1] = x /\ \A i \in 1..n : v[i] = d[i]
  BY AppendProperties, LenProperties
<1>2. \A i \in 1..n : d[i].of \in Nat
  BY Numbered
<1>3. x.type # "answer"
  BY DEF Replies
<1> HIDE DEF v
<1>4. 1..Len(v) = 1..n \cup {n + 1} /\ \A i \in 1..n : i < n + 1 /\ ~(n + 1 < i)
  BY <1>1
<1>5. \A i \in 1..Len(v) : v[i].type \in Replies => i \in 1..n /\ v[i] = d[i]
  BY <1>1, <1>4
<1>6. ASSUME NEW i \in 1..Len(v), v[i].type \in {"answer", "channels"}
      PROVE  /\ v[i].of <= a
             /\ \A j \in 1..Len(v) : v[j].type = "channels" /\ v[i].type = "answer" /\ i < j => v[i].of <= v[j].of
  <2>1. CASE i \in 1..n
    <3>1. /\ d[i].of <= a /\ v[i] = d[i]
          /\ \A j \in 1..n : d[j].type = "channels" /\ d[i].type = "answer" /\ i < j => d[i].of <= d[j].of
      BY <1>1, <1>6, <2>1 DEF Ordered, n
    <3>2. QED
      BY <1>1, <1>4, <3>1
  <2>2. CASE i = n + 1
    BY <1>1, <1>3, <1>6, <2>2
  <2>3. QED
    BY <1>4, <2>1, <2>2
<1>7. Ordered(u, v, a, b)
  <2>1. a = 0 \/ a < b
    BY DEF Ordered
  <2>2. \A i \in 1..Len(u) : u[i].type = "offer" =>
          /\ a < u[i].of /\ u[i].of < b
          /\ \A j \in 1..Len(u) : u[j].type = "offer" /\ i < j => u[i].of < u[j].of
          /\ \A j \in 1..Len(v) : v[j].type \in Replies => v[j].of < u[i].of
    BY <1>5 DEF Ordered
  <2>3. \A i \in 1..Len(v) : v[i].type \in Replies =>
          /\ v[i].of < b
          /\ \A j \in 1..Len(v) : v[j].type \in Replies /\ i < j => v[i].of < v[j].of
    BY <1>5 DEF Ordered
  <2>4. QED
    BY <1>6, <2>1, <2>2, <2>3 DEF Ordered
<1>8. QED
  BY <1>7 DEF v

LEMMA HasOwnTells ==
  ASSUME NEW u \in Seq(UpRecords), NEW d \in Seq(DownRecords), NEW p \in Nat,
         NEW x \in DownRecords, x.type \notin Replies, HasOwn(u, d, p)
  PROVE  HasOwn(u, Append(d, x), p)
<1> DEFINE v == Append(d, x)
           n == Len(d)
<1>1. n \in Nat /\ Len(v) = n + 1 /\ v[n + 1] = x /\ \A i \in 1..n : v[i] = d[i]
  BY AppendProperties, LenProperties
<1> HIDE DEF v
<1>2. \A i \in 1..Len(v) : v[i].type \in Replies => i \in 1..n /\ v[i] = d[i]
  BY <1>1
<1>3. \A i \in 1..n : i \in 1..Len(v) /\ v[i] = d[i]
  BY <1>1
<1>4. UnderWay(u, v) <=> UnderWay(u, d)
  BY <1>2, <1>3 DEF UnderWay, Places
<1>5. HasOwn(u, v, p)
  BY <1>3, <1>4 DEF HasOwn
<1>6. QED
  BY <1>5 DEF v

(* The worker replies to the oldest offer, which is newer than all it replied to so far.  *)
LEMMA OrderedReplies ==
  ASSUME NEW u \in Seq(UpRecords), u # <<>>, Head(u).type = "offer", NEW d \in Seq(DownRecords),
         NEW a \in Nat, NEW b \in Nat, Ordered(u, d, a, b), NEW t \in Replies
  PROVE  Ordered(Tail(u), Append(d, About(t, Head(u).of)), IF t = "answer" THEN Head(u).of ELSE a, b)
<1> DEFINE k == Head(u).of
           x == About(t, k)
           v == Append(d, x)
           w == Tail(u)
           n == Len(d)
           m == Len(u)
           c == IF t = "answer" THEN k ELSE a
<1>1. /\ Len(w) = m - 1 /\ m \in Nat /\ Head(u) = u[1] /\ m # 0
      /\ \A i \in 1..Len(w) : w[i] = u[i + 1]
  BY HeadTailProperties, LenProperties, EmptySeq
<1>2. k \in Nat
  BY <1>1, Numbered
<1>3. x.type = t /\ x.of = k /\ x \in DownRecords
  BY <1>2 DEF About, DownRecords, DownTypes, Replies
<1>a. t \in {"answer", "stale", "error"}
  BY DEF Replies
<1> HIDE DEF w, x, v
<1>4. n \in Nat /\ Len(v) = n + 1 /\ v[n + 1] = x /\ \A i \in 1..n : v[i] = d[i]
  BY <1>3, AppendProperties, LenProperties DEF v
<1>5. /\ \A i \in 1..m : u[i].of \in Nat
      /\ \A i \in 1..n : d[i].of \in Nat
  BY Numbered
<1>6. 1..Len(v) = 1..n \cup {n + 1} /\ \A i \in 1..n : i < n + 1 /\ ~(n + 1 < i)
  BY <1>4
<1>7. \A i \in 1..Len(w) : i + 1 \in 1..m /\ w[i] = u[i + 1] /\ 1 < i + 1 /\ 1 \in 1..m
  BY <1>1
<1>8. /\ a < k /\ k < b /\ \A j \in 1..m : u[j].type = "offer" /\ 1 < j => k < u[j].of
      /\ \A j \in 1..n : d[j].type \in Replies => d[j].of < k
  <2>1. 1 \in 1..m /\ u[1].type = "offer" /\ u[1].of = k
    BY <1>1
  <2>2. QED
    BY <2>1 DEF Ordered
<1>9. c \in Nat /\ (c = k \/ c = a) /\ c <= k /\ a <= c /\ (t = "answer" => c = k)
  BY <1>2, <1>8
<1> HIDE DEF k, c, n, m
<1>10. c = 0 \/ c < b
  BY <1>2, <1>8, <1>9
<1>11. ASSUME NEW i \in 1..Len(w), w[i].type = "offer"
       PROVE  /\ c < w[i].of /\ w[i].of < b
              /\ \A j \in 1..Len(w) : w[j].type = "offer" /\ i < j => w[i].of < w[j].of
              /\ \A j \in 1..Len(v) : v[j].type \in Replies => v[j].of < w[i].of
  <2>1. /\ k < u[i + 1].of /\ u[i + 1].of < b /\ u[i + 1].of \in Nat /\ w[i] = u[i + 1] /\ i + 1 \in 1..m
        /\ \A j \in 1..m : u[j].type = "offer" /\ i + 1 < j => u[i + 1].of < u[j].of
        /\ \A j \in 1..n : d[j].type \in Replies => d[j].of < u[i + 1].of
    BY <1>5, <1>7, <1>8, <1>11 DEF Ordered, n, m
  <2>2. c < w[i].of /\ w[i].of < b
    BY <1>2, <1>9, <2>1
  <2>3. \A j \in 1..Len(w) : i < j => i + 1 < j + 1
    BY <1>1
  <2>4. \A j \in 1..Len(w) : w[j].type = "offer" /\ i < j => w[i].of < w[j].of
    BY <1>7, <2>1, <2>3
  <2>5. \A j \in 1..Len(v) : v[j].type \in Replies => v[j].of < w[i].of
    BY <1>3, <1>4, <1>6, <2>1
  <2>6. QED
    BY <2>2, <2>4, <2>5
<1>12. ASSUME NEW i \in 1..Len(v), v[i].type \in Replies
       PROVE  /\ v[i].of < b
              /\ \A j \in 1..Len(v) : v[j].type \in Replies /\ i < j => v[i].of < v[j].of
  <2>1. CASE i \in 1..n
    <3>1. /\ d[i].of < b /\ v[i] = d[i] /\ d[i].of < k
          /\ \A j \in 1..n : d[j].type \in Replies /\ i < j => d[i].of < d[j].of
      BY <1>4, <1>8, <1>12, <2>1 DEF Ordered, n
    <3>2. QED
      BY <1>3, <1>4, <1>6, <3>1
  <2>2. CASE i = n + 1
    BY <1>3, <1>4, <1>6, <1>8, <2>2
  <2>3. QED
    BY <1>6, <2>1, <2>2
<1>13. ASSUME NEW i \in 1..Len(v), v[i].type \in {"answer", "channels"}
       PROVE  /\ v[i].of <= c
              /\ \A j \in 1..Len(v) : v[j].type = "channels" /\ v[i].type = "answer" /\ i < j => v[i].of <= v[j].of
  <2>1. CASE i \in 1..n
    <3>1. /\ d[i].of <= a /\ v[i] = d[i] /\ d[i].of \in Nat
          /\ \A j \in 1..n : d[j].type = "channels" /\ d[i].type = "answer" /\ i < j => d[i].of <= d[j].of
      BY <1>4, <1>5, <1>13, <2>1 DEF Ordered, n
    <3>2. v[i].of <= c
      BY <1>9, <3>1
    <3>3. \A j \in 1..Len(v) : v[j].type = "channels" => j \in 1..n /\ v[j] = d[j]
      BY <1>3, <1>4, <1>6, <1>a
    <3>4. QED
      BY <3>1, <3>2, <3>3
  <2>2. CASE i = n + 1
    <3>1. v[i].type = t /\ v[i].of = k /\ t = "answer"
      BY <1>3, <1>4, <1>13, <1>a, <2>2
    <3>2. \A j \in 1..Len(v) : ~(i < j)
      BY <1>4, <1>6, <2>2
    <3>3. QED
      BY <1>2, <1>9, <3>1, <3>2
  <2>3. QED
    BY <1>6, <2>1, <2>2
<1>14. Ordered(w, v, c, b)
  BY <1>10, <1>11, <1>12, <1>13 DEF Ordered
<1>15. QED
  BY <1>14 DEF w, v, x, c, k

LEMMA HasOwnReplies ==
  ASSUME NEW u \in Seq(UpRecords), u # <<>>, Head(u).type = "offer", NEW d \in Seq(DownRecords),
         NEW p \in Nat, NEW t \in Replies, HasOwn(u, d, p)
  PROVE  HasOwn(Tail(u), Append(d, About(t, Head(u).of)), p)
<1> DEFINE k == Head(u).of
           x == About(t, k)
           v == Append(d, x)
           w == Tail(u)
           n == Len(d)
           m == Len(u)
<1>1. /\ Len(w) = m - 1 /\ m \in Nat /\ Head(u) = u[1] /\ m # 0
      /\ \A i \in 1..Len(w) : w[i] = u[i + 1]
  BY HeadTailProperties, LenProperties, EmptySeq
<1>2. k \in Nat
  BY <1>1, Numbered
<1>3. x.type = t /\ x.of = k /\ x \in DownRecords
  BY <1>2 DEF About, DownRecords, DownTypes, Replies
<1> HIDE DEF w, x, v
<1>4. n \in Nat /\ Len(v) = n + 1 /\ v[n + 1] = x /\ \A i \in 1..n : v[i] = d[i]
  BY <1>3, AppendProperties, LenProperties DEF v
<1>5. UnderWay(u, d)
  BY <1>1 DEF UnderWay, Places
<1>6. \A i \in 1..m : i = 1 \/ (i - 1 \in 1..Len(w) /\ w[i - 1] = u[i])
  BY <1>1
<1>7. n + 1 \in 1..Len(v) /\ \A i \in 1..n : i \in 1..Len(v) /\ v[i] = d[i]
  BY <1>4
<1>8. CASE \E i \in 1..m : u[i].type = "offer" /\ u[i].of = p
  <2>1. PICK i \in 1..m : u[i].type = "offer" /\ u[i].of = p
    BY <1>8
  <2>2. CASE i = 1
    <3>1. v[n + 1].type \in Replies /\ v[n + 1].of = p
      BY <1>1, <1>3, <1>4, <2>1, <2>2
    <3>2. QED
      BY <1>7, <3>1 DEF HasOwn, v, w, x, k
  <2>3. CASE i # 1
    <3>1. HasOwn(w, v, p)
      BY <1>6, <2>1, <2>3 DEF HasOwn
    <3>2. QED
      BY <3>1 DEF v, w, x, k
  <2>4. QED
    BY <2>2, <2>3
<1>9. CASE \E i \in 1..n : d[i].type \in Replies /\ d[i].of = p
  <2>1. HasOwn(w, v, p)
    BY <1>7, <1>9 DEF HasOwn
  <2>2. QED
    BY <2>1 DEF v, w, x, k
<1>10. QED
  BY <1>5, <1>8, <1>9 DEF HasOwn

-------------------------------------------------------------------------------
(* What a step does to the publication, as far as replies are concerned. *)

SamePub == UNCHANGED <<publication, offerSent>> /\ peer'.offering = peer.offering
NewPub == publication' = publication + 1 /\ offerSent' = FALSE
SameGiven == generation' = generation /\ peer'.answer = peer.answer /\ peer'.channels = peer.channels
NewGiven == generation' = 0 /\ peer'.answer = 0 /\ peer'.channels = 0
Settles == (SamePub /\ SameGiven) \/ (NewPub /\ NewGiven)

LEMMA UnchangedSettles == ASSUME UNCHANGED pubVars PROVE Settles
  BY DEF pubVars, Settles, SamePub, SameGiven

LEMMA StopSettles == ASSUME StopPublishing PROVE Settles
  BY DEF StopPublishing, Settles, NewPub, NewGiven, NoPeer

LEMMA RetrySettles == ASSUME RetryPublishing PROVE Settles
  BY DEF RetryPublishing, StopAndRetry, pubVars, Settles, SamePub, SameGiven, NewPub, NewGiven, NoPeer

LEMMA StartSettles == ASSUME StartPublishing PROVE Settles
  BY DEF StartPublishing, CreatePublication, StopAndRetry, Settles, NewPub, NewGiven, NoPeer, NewPeer

LEMMA ReadySettles ==
  ASSUME SendReady
  PROVE  /\ SamePub /\ SameGiven
         /\ up' = up \/ (socket = "open" /\ up' = Append(up, About("ready", publication)))
  BY DEF SendReady, Send, SamePub, SameGiven

-------------------------------------------------------------------------------
(* A publication makes one offer; it is to come, posted or sent. *)

OfferWaits ==
  /\ peer.offering => ~offerSent /\ publication > 0
  /\ \A i \in 1..Len(posted) : posted[i].type = "offer" =>
       /\ 0 < posted[i].of /\ posted[i].of <= publication
       /\ posted[i].of = publication =>
            /\ ~offerSent /\ ~peer.offering
            /\ \A j \in 1..Len(posted) : posted[j].type = "offer" /\ posted[j].of = publication => i = j

LEMMA PostedNumbered ==
  ASSUME IInv
  PROVE  /\ posted \in Seq(PostedRecords) /\ Len(posted) \in Nat /\ publication \in Nat
         /\ \A i \in 1..Len(posted) : posted[i] \in PostedRecords /\ posted[i].of \in Nat
<1>1. posted \in Seq(PostedRecords) /\ publication \in Nat
  BY Types DEF IInv, SessionInv, OtherTypes, PubTypes
<1>2. \A i \in 1..Len(posted) : posted[i] \in PostedRecords
  BY <1>1, ElementOfSeq
<1>3. \A x \in PostedRecords : x.of \in Nat
  BY DEF PostedRecords
<1>4. QED
  BY <1>1, <1>2, <1>3, LenProperties

LEMMA WaitsOn ==
  ASSUME IInv, OfferWaits, SamePub \/ NewPub, posted' = posted
  PROVE  OfferWaits'
<1>1. CASE SamePub
  BY <1>1 DEF SamePub, OfferWaits
<1>2. CASE NewPub
  <2>1. publication' > 0 /\ offerSent' = FALSE
    BY <1>2, PostedNumbered DEF NewPub
  <2>2. \A i \in 1..Len(posted) : posted[i].type = "offer" => posted[i].of <= publication' /\ posted[i].of # publication'
    BY <1>2, PostedNumbered DEF NewPub, OfferWaits
  <2>3. \A i \in 1..Len(posted) : posted[i].type = "offer" => 0 < posted[i].of
    BY DEF OfferWaits
  <2>4. QED
    BY <2>1, <2>2, <2>3 DEF OfferWaits
<1>3. QED
  BY <1>1, <1>2

(* The io_context runs the oldest closure. *)
LEMMA TailIndex ==
  ASSUME IInv, posted # <<>>, posted' = Tail(posted)
  PROVE  /\ Len(posted') \in Nat /\ Head(posted) = posted[1] /\ 1 \in 1..Len(posted)
         /\ \A i \in 1..Len(posted') : i + 1 \in 1..Len(posted) /\ posted'[i] = posted[i + 1] /\ i + 1 # 1
         /\ \A i, j \in 1..Len(posted') : i + 1 = j + 1 => i = j
<1>1. Len(posted) # 0 /\ Len(posted) \in Nat
  BY PostedNumbered, EmptySeq
<1>2. Len(posted') = Len(posted) - 1 /\ Head(posted) = posted[1] /\ \A i \in 1..Len(posted') : posted'[i] = posted[i + 1]
  BY PostedNumbered, HeadTailProperties
<1>3. QED
  BY <1>1, <1>2

LEMMA WaitsRun ==
  ASSUME IInv, OfferWaits, SamePub \/ NewPub, posted # <<>>, posted' = Tail(posted)
  PROVE  OfferWaits'
<1>1. CASE SamePub
  BY <1>1, TailIndex DEF SamePub, OfferWaits
<1>2. CASE NewPub
  <2>1. publication' > 0 /\ offerSent' = FALSE
    BY <1>2, PostedNumbered DEF NewPub
  <2>2. \A i \in 1..Len(posted) : posted[i].type = "offer" =>
          0 < posted[i].of /\ posted[i].of <= publication' /\ posted[i].of # publication'
    BY <1>2, PostedNumbered DEF NewPub, OfferWaits
  <2>3. \A i \in 1..Len(posted') : posted'[i].type = "offer" =>
          0 < posted'[i].of /\ posted'[i].of <= publication' /\ posted'[i].of # publication'
    BY <2>2, TailIndex
  <2>4. QED
    BY <2>1, <2>3 DEF OfferWaits
<1>3. QED
  BY <1>1, <1>2

LEMMA WaitsSend ==
  ASSUME IInv, OfferWaits, posted # <<>>, posted' = Tail(posted),
         Head(posted).type = "offer", Head(posted).of = publication,
         publication' = publication, peer'.offering = peer.offering
  PROVE  OfferWaits' /\ ~offerSent /\ publication > 0
<1>1. 1 \in 1..Len(posted) /\ posted[1].type = "offer" /\ posted[1].of = publication
  BY TailIndex
<1>2. ~offerSent /\ ~peer.offering /\ 0 < publication
  BY <1>1 DEF OfferWaits
<1>3. \A j \in 1..Len(posted) : posted[j].type = "offer" /\ posted[j].of = publication => j = 1
  BY <1>1 DEF OfferWaits
<1>4. \A i \in 1..Len(posted') : posted'[i].type = "offer" =>
        0 < posted'[i].of /\ posted'[i].of <= publication /\ posted'[i].of # publication
  BY <1>3, TailIndex DEF OfferWaits
<1>5. OfferWaits'
  BY <1>2, <1>4 DEF OfferWaits
<1>6. QED
  BY <1>2, <1>5, PostedNumbered

(* The peer posts its offer, or that its state has changed. *)
LEMMA WaitsPost ==
  ASSUME IInv, OfferWaits, UNCHANGED <<publication, offerSent>>,
         NEW t \in {"offer", "connected", "failed"}, posted' = Append(posted, About(t, publication)),
         \/ t = "offer" /\ peer.offering /\ ~peer'.offering
         \/ t # "offer" /\ peer'.offering = peer.offering
  PROVE  OfferWaits'
<1> DEFINE n == Len(posted)
           x == About(t, publication)
<1>1. x.type = t /\ x.of = publication /\ x \in PostedRecords
  BY PostedNumbered DEF About, PostedRecords
<1> HIDE DEF x
<1>2. n \in Nat /\ Len(posted') = n + 1 /\ posted'[n + 1] = x /\ \A i \in 1..n : posted'[i] = posted[i]
  BY <1>1, PostedNumbered, AppendProperties DEF x
<1>3. 1..Len(posted') = 1..n \cup {n + 1} /\ n + 1 \notin 1..n
  BY <1>2
<1>4. CASE t = "offer"
  <2>1. ~offerSent /\ publication > 0 /\ peer.offering /\ ~peer'.offering
    BY <1>4 DEF OfferWaits
  <2>2. \A i \in 1..n : posted[i].type = "offer" =>
          0 < posted[i].of /\ posted[i].of <= publication /\ posted[i].of # publication
    BY <2>1 DEF OfferWaits, n
  <2>3. \A i \in 1..Len(posted') : posted'[i].type = "offer" =>
          /\ 0 < posted'[i].of /\ posted'[i].of <= publication
          /\ posted'[i].of = publication => i = n + 1
    BY <1>1, <1>2, <1>3, <2>1, <2>2, PostedNumbered
  <2>4. QED
    BY <2>1, <2>3 DEF OfferWaits
<1>5. CASE t # "offer"
  <2>1. peer'.offering = peer.offering
    BY <1>5
  <2>2. \A i \in 1..Len(posted') : posted'[i].type = "offer" => i \in 1..n /\ posted'[i] = posted[i]
    BY <1>1, <1>2, <1>3, <1>5
  <2>3. QED
    BY <2>1, <2>2 DEF OfferWaits
<1>6. QED
  BY <1>4, <1>5

-------------------------------------------------------------------------------
(* The wire of this connection, the count of what is under way on it, and what the peer *)
(* was given.                                                                            *)

Below == IF offerSent THEN publication + 1 ELSE publication

InTransit(u, d) == Ordered(u, d, answered, Below) /\ (offerSent => HasOwn(u, d, publication))

JoinedIn(d) == \E i \in 1..Len(d) : d[i].type \in JoinedTypes
Counted(u, d, n) ==
  /\ JoinedIn(d) => ~UnderWay(u, d)
  /\ socket = "open" /\ ~JoinedIn(d) => n = CountOf(u, {"offer"}) + CountOf(d, Replies)

ChannelsOf(d, p) == \A i \in 1..Len(d) : d[i].type = "channels" => d[i].of = p
Given(d) ==
  /\ ReplyToLastOffer
  /\ generation \in {0, publication}
  /\ generation > 0 => answered = publication /\ ChannelsOf(d, publication)

WireInv ==
  /\ socket # "open" => up = <<>> /\ down = <<>>
  /\ InTransit(up, down)
  /\ ~early => Counted(up, down, unanswered) /\ Given(down)

LEMMA Wired ==
  ASSUME IInv
  PROVE  /\ up \in Seq(UpRecords) /\ down \in Seq(DownRecords)
         /\ publication \in Nat /\ answered \in Nat /\ generation \in Nat /\ unanswered \in Nat /\ Below \in Nat
         /\ peer.answer \in Nat /\ peer.channels \in Nat
<1>1. PubTypes /\ WireTypes /\ OtherTypes
  BY Types DEF IInv, SessionInv
<1>2. up \in Seq(UpRecords) /\ down \in Seq(DownRecords) /\ publication \in Nat /\ answered \in Nat
      /\ generation \in Nat /\ unanswered \in Nat /\ peer \in PeerRecords
  BY <1>1 DEF PubTypes, WireTypes, OtherTypes
<1>3. Below \in Nat
  BY <1>2 DEF Below
<1>4. peer.answer \in Nat /\ peer.channels \in Nat
  BY <1>2 DEF PeerRecords
<1>5. QED
  BY <1>2, <1>3, <1>4

LEMMA TransitSettles ==
  ASSUME IInv, NEW u \in Seq(UpRecords), NEW d \in Seq(DownRecords), InTransit(u, d), SamePub \/ NewPub,
         answered' = answered
  PROVE  Ordered(u, d, answered', Below') /\ (offerSent' => HasOwn(u, d, publication'))
<1>1. CASE SamePub
  BY <1>1 DEF SamePub, InTransit, Below
<1>2. CASE NewPub
  <2>1. Below' = publication + 1 /\ ~offerSent'
    BY <1>2 DEF NewPub, Below
  <2>2. Below <= publication + 1 /\ publication + 1 \in Nat
    BY Wired DEF Below
  <2>3. Ordered(u, d, answered, publication + 1)
    BY <2>2, Wired, OrderedLater DEF InTransit
  <2>4. QED
    BY <2>1, <2>3
<1>3. QED
  BY <1>1, <1>2

LEMMA GivenSettles ==
  ASSUME IInv, NEW d, Given(d), Settles, answered' = answered
  PROVE  /\ ReplyToLastOffer' /\ generation' \in {0, publication'}
         /\ generation' > 0 => answered' = publication' /\ ChannelsOf(d, publication')
<1>1. CASE SamePub /\ SameGiven
  <2>1. /\ publication' = publication /\ generation' = generation
        /\ peer'.answer = peer.answer /\ peer'.channels = peer.channels
    BY <1>1 DEF SamePub, SameGiven
  <2>2. QED
    BY <2>1 DEF Given, ReplyToLastOffer
<1>2. CASE NewPub /\ NewGiven
  <2>1. generation' = 0 /\ peer'.answer = 0 /\ peer'.channels = 0
    BY <1>2 DEF NewGiven
  <2>2. QED
    BY <2>1 DEF ReplyToLastOffer
<1>3. QED
  BY <1>1, <1>2 DEF Settles

LEMMA Composed ==
  ASSUME Ordered(up', down', answered', Below'), offerSent' => HasOwn(up', down', publication'),
         socket' # "open" => up' = <<>> /\ down' = <<>>,
         ~early' => /\ JoinedIn(down') => ~UnderWay(up', down')
                    /\ socket' = "open" /\ ~JoinedIn(down') => unanswered' = CountOf(up', {"offer"}) + CountOf(down', Replies)
                    /\ ReplyToLastOffer' /\ generation' \in {0, publication'}
                    /\ generation' > 0 => answered' = publication' /\ ChannelsOf(down', publication')
  PROVE  WireInv'
  BY DEF WireInv, InTransit, Counted, Given, JoinedIn, UnderWay, Places, CountOf, ChannelsOf, HasOwn, Ordered

(* Nothing moves on the wire. *)
LEMMA StillWire ==
  ASSUME IInv, WireInv, Settles, UNCHANGED <<up, down, answered, unanswered>>, early => early',
         socket' = "open" <=> socket = "open"
  PROVE  WireInv'
<1>1. Ordered(up', down', answered', Below') /\ (offerSent' => HasOwn(up', down', publication'))
  BY Wired, TransitSettles DEF Settles, WireInv
<1>2. socket' # "open" => up' = <<>> /\ down' = <<>>
  BY DEF WireInv
<1>3. ASSUME ~early'
      PROVE  /\ ReplyToLastOffer' /\ generation' \in {0, publication'}
             /\ generation' > 0 => answered' = publication' /\ ChannelsOf(down', publication')
  BY <1>3, GivenSettles DEF WireInv
<1>4. ASSUME ~early'
      PROVE  /\ JoinedIn(down') => ~UnderWay(up', down')
             /\ socket' = "open" /\ ~JoinedIn(down') => unanswered' = CountOf(up', {"offer"}) + CountOf(down', Replies)
  BY <1>4 DEF WireInv, Counted
<1>5. QED
  BY <1>1, <1>2, <1>3, <1>4, Composed

(* The socket goes with what was on its way, or a new one opens with joined. *)
LEMMA EmptyIsOrdered ==
  ASSUME IInv, WireInv, NEW d \in Seq(DownRecords), \A i \in 1..Len(d) : d[i].type \in JoinedTypes
  PROVE  InTransit(<<>>, d) /\ ~UnderWay(<<>>, d) /\ \A p : ChannelsOf(d, p)
<1>1. answered = 0 \/ answered < Below
  BY DEF WireInv, InTransit, Ordered
<1>2. \A i \in 1..Len(d) : d[i].type \notin Replies /\ d[i].type \notin {"answer", "channels"}
  BY DEF JoinedTypes, Replies
<1>3. Ordered(<<>>, d, answered, Below)
  BY <1>1, <1>2 DEF Ordered
<1>4. ~UnderWay(<<>>, d)
  BY <1>2 DEF UnderWay, Places
<1>5. \A p : ChannelsOf(d, p)
  BY <1>2 DEF ChannelsOf
<1>6. QED
  BY <1>3, <1>4, <1>5 DEF InTransit, HasOwn

LEMMA EmptyWire ==
  ASSUME IInv, WireInv, Settles, up' = <<>>, down' \in Seq(DownRecords), UNCHANGED <<answered, early>>,
         \A i \in 1..Len(down') : down'[i].type \in JoinedTypes,
         \/ socket' # "open" /\ down' = <<>>
         \/ socket' = "open" /\ JoinedIn(down')
  PROVE  WireInv'
<1>1. InTransit(<<>>, down') /\ ~UnderWay(<<>>, down') /\ \A p : ChannelsOf(down', p)
  BY EmptyIsOrdered
<1>a. <<>> \in Seq(UpRecords) /\ (SamePub \/ NewPub)
  BY DEF Settles
<1>b. Ordered(<<>>, down', answered', Below') /\ (offerSent' => HasOwn(<<>>, down', publication'))
  BY <1>1, <1>a, TransitSettles
<1>2. Ordered(up', down', answered', Below') /\ (offerSent' => HasOwn(up', down', publication'))
  BY <1>b
<1>3. ASSUME ~early'
      PROVE  /\ ReplyToLastOffer' /\ generation' \in {0, publication'}
             /\ generation' > 0 => answered' = publication' /\ ChannelsOf(down', publication')
  BY <1>1, <1>3, GivenSettles DEF WireInv
<1>4. QED
  BY <1>1, <1>2, <1>3, Composed

(* Ready is sent, or lost. *)
LEMMA UpReady ==
  ASSUME NEW u \in Seq(UpRecords), NEW d \in Seq(DownRecords), IInv, InTransit(u, d), NEW k \in Nat
  PROVE  LET v == Append(u, About("ready", k)) IN
         /\ v \in Seq(UpRecords) /\ InTransit(v, d) /\ (UnderWay(v, d) <=> UnderWay(u, d))
         /\ CountOf(v, {"offer"}) = CountOf(u, {"offer"})
<1> DEFINE x == About("ready", k)
           v == Append(u, x)
<1>1. x \in UpRecords /\ x.type \notin {"offer"}
  BY DEF About, UpRecords
<1>2. v \in Seq(UpRecords)
  BY <1>1, AppendProperties
<1>3. InTransit(v, d)
  BY Wired, OrderedReady, HasOwnReady DEF InTransit
<1>4. CountOf(v, {"offer"}) = CountOf(u, {"offer"})
  BY <1>1, CountAppend
<1> HIDE DEF v
<1>5. Places(v, {"offer"}) = {} <=> Places(u, {"offer"}) = {}
  BY <1>2, <1>4, CountIsNat
<1>6. UnderWay(v, d) <=> UnderWay(u, d)
  BY <1>5 DEF UnderWay
<1>7. QED
  BY <1>2, <1>3, <1>4, <1>6 DEF v

LEMMA MaybeReady ==
  ASSUME IInv, NEW d \in Seq(DownRecords), InTransit(up, d),
         up' = up \/ up' = Append(up, About("ready", publication))
  PROVE  /\ up' \in Seq(UpRecords) /\ InTransit(up', d) /\ (UnderWay(up', d) <=> UnderWay(up, d))
         /\ CountOf(up', {"offer"}) = CountOf(up, {"offer"})
<1>1. CASE up' = up
  BY <1>1, Wired
<1>2. CASE up' = Append(up, About("ready", publication))
  BY <1>2, Wired, UpReady
<1>3. QED
  BY <1>1, <1>2

LEMMA ReadyOnWire ==
  ASSUME IInv, WireInv, SamePub, SameGiven, UNCHANGED <<down, answered, unanswered, socket>>, early => early',
         up' = up \/ (socket = "open" /\ up' = Append(up, About("ready", publication)))
  PROVE  WireInv'
<1>1. /\ up' \in Seq(UpRecords) /\ InTransit(up', down) /\ (UnderWay(up', down) <=> UnderWay(up, down))
      /\ CountOf(up', {"offer"}) = CountOf(up, {"offer"})
  BY Wired, MaybeReady DEF WireInv
<1>2. Ordered(up', down', answered', Below') /\ (offerSent' => HasOwn(up', down', publication'))
  BY <1>1, Wired, TransitSettles
<1>3. socket' # "open" => up' = <<>> /\ down' = <<>>
  BY DEF WireInv
<1>4. ASSUME ~early'
      PROVE  /\ ReplyToLastOffer' /\ generation' \in {0, publication'}
             /\ generation' > 0 => answered' = publication' /\ ChannelsOf(down', publication')
  BY <1>4, GivenSettles DEF WireInv, Settles
<1>5. ASSUME ~early'
      PROVE  /\ JoinedIn(down') => ~UnderWay(up', down')
             /\ socket' = "open" /\ ~JoinedIn(down') => unanswered' = CountOf(up', {"offer"}) + CountOf(down', Replies)
  BY <1>1, <1>5 DEF WireInv, Counted
<1>6. QED
  BY <1>2, <1>3, <1>4, <1>5, Composed

(* The service takes the next message off. *)
LEMMA DownHears ==
  ASSUME IInv, WireInv, down # <<>>
  PROVE  /\ Tail(down) \in Seq(DownRecords) /\ InTransit(up, Tail(down))
         /\ Head(down) = down[1] /\ 1 \in 1..Len(down) /\ Head(down) \in DownRecords
         /\ UnderWay(up, Tail(down)) => UnderWay(up, down)
         /\ \A p : ChannelsOf(down, p) => ChannelsOf(Tail(down), p)
         /\ JoinedIn(down) <=> (Head(down).type \in JoinedTypes \/ JoinedIn(Tail(down)))
<1> DEFINE t == Tail(down)
<1>1. Len(down) # 0 /\ Len(down) \in Nat /\ down \in Seq(DownRecords)
  BY Wired, EmptySeq, LenProperties
<1>2. /\ Len(t) = Len(down) - 1 /\ Head(down) = down[1] /\ t \in Seq(DownRecords)
      /\ \A i \in 1..Len(t) : t[i] = down[i + 1]
  BY <1>1, HeadTailProperties
<1>3. Head(down) \in DownRecords /\ 1 \in 1..Len(down)
  BY <1>1, <1>2, ElementOfSeq
<1>4. Ordered(up, t, answered, Below)
  BY <1>1, Wired, OrderedHears DEF WireInv, InTransit
<1>5. offerSent => HasOwn(up, t, publication)
  <2> SUFFICES ASSUME offerSent PROVE HasOwn(up, t, publication)
    OBVIOUS
  <2>1. Below = publication + 1
    BY DEF Below
  <2>2. Ordered(up, down, answered, publication + 1) /\ HasOwn(up, down, publication)
    BY <2>1 DEF WireInv, InTransit
  <2>3. QED
    BY <2>2, Wired, HasOwnHears
<1>6. InTransit(up, t)
  BY <1>4, <1>5 DEF InTransit
<1> HIDE DEF t
<1>7. \A i \in 1..Len(t) : i + 1 \in 1..Len(down) /\ t[i] = down[i + 1]
  BY <1>1, <1>2
<1>8. \A i \in 1..Len(down) : i = 1 \/ (i - 1 \in 1..Len(t) /\ t[i - 1] = down[i])
  BY <1>1, <1>2
<1>9. UnderWay(up, t) => UnderWay(up, down)
  BY <1>7 DEF UnderWay, Places
<1>10. \A p : ChannelsOf(down, p) => ChannelsOf(t, p)
  BY <1>7 DEF ChannelsOf
<1>11. JoinedIn(down) <=> (Head(down).type \in JoinedTypes \/ JoinedIn(t))
  BY <1>2, <1>3, <1>7, <1>8 DEF JoinedIn
<1>12. QED
  BY <1>2, <1>3, <1>6, <1>9, <1>10, <1>11 DEF t

(* Nothing under way is a count of zero. *)
LEMMA CountsNothing ==
  ASSUME NEW u \in Seq(UpRecords), NEW d \in Seq(DownRecords)
  PROVE  /\ CountOf(u, {"offer"}) \in Nat /\ CountOf(d, Replies) \in Nat
         /\ ~UnderWay(u, d) <=> CountOf(u, {"offer"}) = 0 /\ CountOf(d, Replies) = 0
<1>1. CountOf(u, {"offer"}) \in Nat /\ (CountOf(u, {"offer"}) = 0 <=> Places(u, {"offer"}) = {})
  BY CountIsNat
<1>2. CountOf(d, Replies) \in Nat /\ (CountOf(d, Replies) = 0 <=> Places(d, Replies) = {})
  BY CountIsNat
<1>3. QED
  BY <1>1, <1>2 DEF UnderWay

(* joined: the offers of the old connection no longer count, and ready may follow. *)
LEMMA JoinedHeard ==
  ASSUME IInv, WireInv, socket = "open", down # <<>>, Head(down).type \in JoinedTypes, down' = Tail(down),
         Settles, UNCHANGED <<answered, early, socket>>, unanswered' = 0,
         up' = up \/ (SamePub /\ SameGiven /\ up' = Append(up, About("ready", publication)))
  PROVE  WireInv'
<1>1. /\ Tail(down) \in Seq(DownRecords) /\ InTransit(up, Tail(down))
      /\ UnderWay(up, Tail(down)) => UnderWay(up, down)
      /\ \A p : ChannelsOf(down, p) => ChannelsOf(Tail(down), p)
      /\ JoinedIn(down)
  BY DownHears
<1>2. /\ up' \in Seq(UpRecords) /\ InTransit(up', down') /\ (UnderWay(up', down') <=> UnderWay(up, Tail(down)))
      /\ CountOf(up', {"offer"}) = CountOf(up, {"offer"})
  BY <1>1, MaybeReady
<1>3. Ordered(up', down', answered', Below') /\ (offerSent' => HasOwn(up', down', publication'))
  BY <1>1, <1>2, TransitSettles DEF Settles
<1>4. ASSUME ~early'
      PROVE  /\ ReplyToLastOffer' /\ generation' \in {0, publication'}
             /\ generation' > 0 => answered' = publication' /\ ChannelsOf(down', publication')
  <2>1. Given(down')
    BY <1>1, <1>4 DEF WireInv, Given
  <2>2. QED
    BY <2>1, GivenSettles
<1>5. ASSUME ~early'
      PROVE  /\ JoinedIn(down') => ~UnderWay(up', down')
             /\ socket' = "open" /\ ~JoinedIn(down') => unanswered' = CountOf(up', {"offer"}) + CountOf(down', Replies)
  <2>1. ~UnderWay(up', down')
    BY <1>1, <1>2, <1>5 DEF WireInv, Counted
  <2>2. CountOf(up', {"offer"}) = 0 /\ CountOf(down', Replies) = 0
    BY <1>1, <1>2, <2>1, CountsNothing
  <2>3. QED
    BY <2>1, <2>2
<1>6. QED
  BY <1>3, <1>4, <1>5, Composed

(* Any other message that is not a reply leaves the count alone. *)
LEMMA OtherHeard ==
  ASSUME IInv, WireInv, socket = "open", down # <<>>, Head(down).type \notin JoinedTypes \cup Replies,
         down' = Tail(down), SamePub \/ NewPub, UNCHANGED <<up, answered, early, socket, unanswered>>,
         ~early => /\ ReplyToLastOffer' /\ generation' \in {0, publication'}
                   /\ generation' > 0 => answered' = publication' /\ ChannelsOf(down', publication')
  PROVE  WireInv'
<1>1. /\ Tail(down) \in Seq(DownRecords) /\ InTransit(up, Tail(down))
      /\ UnderWay(up, Tail(down)) => UnderWay(up, down)
      /\ JoinedIn(down) <=> JoinedIn(Tail(down))
  BY DownHears
<1>2. Ordered(up', down', answered', Below') /\ (offerSent' => HasOwn(up', down', publication'))
  BY <1>1, Wired, TransitSettles
<1>3. CountOf(down', Replies) = CountOf(down, Replies)
  BY Wired, CountTail
<1>4. ASSUME ~early'
      PROVE  /\ JoinedIn(down') => ~UnderWay(up', down')
             /\ socket' = "open" /\ ~JoinedIn(down') => unanswered' = CountOf(up', {"offer"}) + CountOf(down', Replies)
  BY <1>1, <1>3, <1>4 DEF WireInv, Counted
<1>5. QED
  BY <1>2, <1>4, Composed

(* A reply: unless an offer overtook joined it was counted. *)
LEMMA ReplyCounted ==
  ASSUME IInv, WireInv, ~early, socket = "open", down # <<>>, Head(down).type \in Replies,
         down' = Tail(down), up' = up, unanswered' = Max0(unanswered)
  PROVE  /\ ~JoinedIn(down) /\ ~JoinedIn(down')
         /\ unanswered' = CountOf(up', {"offer"}) + CountOf(down', Replies)
<1>1. 1 \in 1..Len(down) /\ Head(down) = down[1] /\ Tail(down) \in Seq(DownRecords)
  BY DownHears
<1>2. UnderWay(up, down)
  BY <1>1 DEF UnderWay, Places
<1>3. ~JoinedIn(down) /\ unanswered = CountOf(up, {"offer"}) + CountOf(down, Replies)
  BY <1>2 DEF WireInv, Counted
<1>4. ~JoinedIn(down')
  BY <1>3, DownHears
<1>5. CountOf(down, Replies) = CountOf(Tail(down), Replies) + 1
  BY Wired, CountTail
<1>6. CountOf(up, {"offer"}) \in Nat /\ CountOf(Tail(down), Replies) \in Nat
  BY <1>1, Wired, CountsNothing
<1>7. Max0(unanswered) = CountOf(up, {"offer"}) + CountOf(Tail(down), Replies)
  BY <1>3, <1>5, <1>6 DEF Max0
<1>8. QED
  BY <1>3, <1>4, <1>7

LEMMA ReplyHeard ==
  ASSUME IInv, WireInv, socket = "open", down # <<>>, Head(down).type \in Replies,
         down' = Tail(down), SamePub \/ NewPub, UNCHANGED <<up, answered, early, socket>>,
         unanswered' = Max0(unanswered),
         ~early => /\ ReplyToLastOffer' /\ generation' \in {0, publication'}
                   /\ generation' > 0 => answered' = publication' /\ ChannelsOf(down', publication')
  PROVE  WireInv'
<1>1. Tail(down) \in Seq(DownRecords) /\ InTransit(up, Tail(down))
  BY DownHears
<1>2. Ordered(up', down', answered', Below') /\ (offerSent' => HasOwn(up', down', publication'))
  BY <1>1, Wired, TransitSettles
<1>3. ASSUME ~early'
      PROVE  /\ JoinedIn(down') => ~UnderWay(up', down')
             /\ socket' = "open" /\ ~JoinedIn(down') => unanswered' = CountOf(up', {"offer"}) + CountOf(down', Replies)
  BY <1>3, ReplyCounted
<1>4. QED
  BY <1>2, <1>3, Composed

(* The last reply under way answers the last offer: what is left of the channels is its own. *)
LEMMA LastIsOwn ==
  ASSUME IInv, WireInv, ~early, socket = "open", down # <<>>, Head(down).type = "answer",
         down' = Tail(down), up' = up, unanswered' = Max0(unanswered), unanswered' = 0, offerSent
  PROVE  Head(down).of = publication /\ answered = publication /\ ChannelsOf(down', publication)
<1> DEFINE k == Head(down).of
<1>1. 1 \in 1..Len(down) /\ Head(down) = down[1] /\ Tail(down) \in Seq(DownRecords) /\ Head(down).type \in Replies
  BY DownHears DEF Replies
<1>2. unanswered' = CountOf(up', {"offer"}) + CountOf(down', Replies)
  BY <1>1, ReplyCounted
<1>3. CountOf(up, {"offer"}) \in Nat /\ CountOf(Tail(down), Replies) \in Nat
  BY <1>1, Wired, CountsNothing
<1>4. CountOf(up, {"offer"}) = 0 /\ CountOf(Tail(down), Replies) = 0
  BY <1>2, <1>3
<1>5. ~UnderWay(up, Tail(down))
  BY <1>1, <1>4, Wired, CountsNothing
<1>6. UnderWay(up, down)
  BY <1>1 DEF UnderWay, Places
<1>7. HasOwn(up, down, publication) /\ Ordered(up, down, answered, publication + 1)
  BY DEF WireInv, InTransit, Below
<1>8. /\ \A i \in 1..Len(up) : up[i].type # "offer"
      /\ \A i \in 1..Len(Tail(down)) : Tail(down)[i].type \notin Replies
  BY <1>5 DEF UnderWay, Places
<1>9. /\ \A i \in 1..Len(Tail(down)) : i + 1 \in 1..Len(down) /\ Tail(down)[i] = down[i + 1] /\ 1 < i + 1
      /\ \A i \in 1..Len(down) : i = 1 \/ (i - 1 \in 1..Len(Tail(down)) /\ Tail(down)[i - 1] = down[i])
  <2>1. down \in Seq(DownRecords) /\ Len(down) \in Nat
    BY Wired, LenProperties
  <2>2. Len(Tail(down)) = Len(down) - 1 /\ \A i \in 1..Len(Tail(down)) : Tail(down)[i] = down[i + 1]
    BY <2>1, HeadTailProperties
  <2>3. QED
    BY <2>1, <2>2
<1>10. down[1].of = publication
  <2>1. \E i \in 1..Len(down) : down[i].type \in Replies /\ down[i].of = publication
    BY <1>6, <1>7, <1>8 DEF HasOwn
  <2>2. QED
    BY <1>8, <1>9, <2>1
<1>11. answered = publication
  <2>1. down[1].of <= answered /\ (answered = 0 \/ answered < publication + 1)
    BY <1>1, <1>7 DEF Ordered
  <2>2. QED
    BY <1>10, <2>1, Wired
<1>12. ASSUME NEW i \in 1..Len(Tail(down)), Tail(down)[i].type = "channels" PROVE Tail(down)[i].of = publication
  <2>1. i + 1 \in 1..Len(down) /\ Tail(down)[i] = down[i + 1] /\ 1 < i + 1 /\ down[i + 1].type = "channels"
    BY <1>9, <1>12
  <2>2. down[i + 1].of <= answered
    BY <1>7, <2>1 DEF Ordered
  <2>3. down[1].of <= down[i + 1].of
    BY <1>1, <1>7, <2>1 DEF Ordered
  <2>4. down[i + 1].of \in Nat
    BY <2>1, Wired, Numbered
  <2>5. QED
    BY <1>10, <1>11, <2>1, <2>2, <2>3, <2>4, Wired
<1>13. QED
  BY <1>1, <1>10, <1>11, <1>12 DEF ChannelsOf

(* The offer goes out; an early one, before joined was read, ends what the count says. *)
LEMMA OfferOnWire ==
  ASSUME IInv, IInv', WireInv, ~offerSent, publication > 0, socket = "open", offerSent' = TRUE, publication' = publication,
         SameGiven, UNCHANGED <<down, answered, socket>>, up' = Append(up, About("offer", publication)),
         unanswered' = unanswered + 1, early' = (early \/ (up' # up /\ JoinedIn(down)))
  PROVE  WireInv'
<1> DEFINE x == About("offer", publication)
<1>1. x \in UpRecords /\ x.type \in {"offer"}
  BY Wired DEF About, UpRecords
<1>2. Below = publication /\ Below' = publication' + 1 /\ publication \in Nat \ {0}
  BY Wired DEF Below
<1>3. Ordered(up, down, answered, publication)
  BY <1>2 DEF WireInv, InTransit
<1>4. Ordered(up', down, answered, publication + 1) /\ HasOwn(up', down, publication)
  BY <1>2, <1>3, Wired, OrderedOffer
<1>5. Ordered(up', down', answered', Below') /\ (offerSent' => HasOwn(up', down', publication'))
  BY <1>2, <1>4
<1>6. CountOf(up', {"offer"}) = CountOf(up, {"offer"}) + 1
  BY <1>1, Wired, CountAppend
<1>7. up' # up
  <2>1. Len(up') = Len(up) + 1 /\ Len(up) \in Nat
    BY <1>1, Wired, AppendProperties, LenProperties
  <2>2. QED
    BY <2>1
<1>8. ASSUME ~early'
      PROVE  /\ JoinedIn(down') => ~UnderWay(up', down')
             /\ socket' = "open" /\ ~JoinedIn(down') => unanswered' = CountOf(up', {"offer"}) + CountOf(down', Replies)
  <2>1. ~early /\ ~JoinedIn(down)
    BY <1>7, <1>8
  <2>2. unanswered = CountOf(up, {"offer"}) + CountOf(down, Replies)
    BY <2>1 DEF WireInv, Counted
  <2>3. CountOf(up, {"offer"}) \in Nat /\ CountOf(down, Replies) \in Nat
    BY Wired, CountsNothing
  <2>4. unanswered' = CountOf(up', {"offer"}) + CountOf(down, Replies)
    BY <1>6, <2>2, <2>3
  <2>5. QED
    BY <2>1, <2>4
<1>9. ASSUME ~early'
      PROVE  /\ ReplyToLastOffer' /\ generation' \in {0, publication'}
             /\ generation' > 0 => answered' = publication' /\ ChannelsOf(down', publication')
  <2>1. Given(down)
    BY <1>9 DEF WireInv
  <2>2. answered # publication
    BY <1>2, <1>3, Wired DEF Ordered
  <2>3. generation = 0
    BY <2>1, <2>2, Wired DEF Given
  <2>4. ReplyToLastOffer'
    BY <2>1 DEF Given, ReplyToLastOffer, SameGiven
  <2>5. QED
    BY <2>3, <2>4 DEF SameGiven
<1>10. QED
  BY <1>5, <1>8, <1>9, Composed

(* The worker says something else. *)
LEMMA TellsOnWire ==
  ASSUME IInv, WireInv, SamePub, SameGiven, UNCHANGED <<up, answered, unanswered, early, socket>>, socket = "open",
         NEW x \in DownRecords, x.type \notin Replies \cup JoinedTypes, x.type = "channels" => x.of = answered,
         down' = Append(down, x)
  PROVE  WireInv'
<1> DEFINE n == Len(down)
<1>1. down \in Seq(DownRecords) /\ n \in Nat
  BY Wired, LenProperties
<1>2. /\ down' \in Seq(DownRecords) /\ Len(down') = n + 1 /\ down'[n + 1] = x
      /\ \A i \in 1..n : down'[i] = down[i]
  BY <1>1, AppendProperties
<1>3. 1..Len(down') = 1..n \cup {n + 1}
  BY <1>1, <1>2
<1>4. InTransit(up, down')
  <2>1. Ordered(up, down, answered, Below) /\ (offerSent => HasOwn(up, down, publication))
    BY DEF WireInv, InTransit
  <2>2. Ordered(up, down', answered, Below)
    BY <2>1, Wired, OrderedTells
  <2>3. offerSent => HasOwn(up, down', publication)
    BY <2>1, Wired, HasOwnTells
  <2>4. QED
    BY <2>2, <2>3 DEF InTransit
<1>5. Ordered(up', down', answered', Below') /\ (offerSent' => HasOwn(up', down', publication'))
  BY <1>2, <1>4, Wired, TransitSettles
<1>6. CountOf(down', Replies) = CountOf(down, Replies)
  BY <1>1, CountAppend
<1>7. JoinedIn(down') <=> JoinedIn(down)
  BY <1>2, <1>3 DEF JoinedIn
<1>8. UnderWay(up, down') <=> UnderWay(up, down)
  BY <1>2, <1>6, Wired, CountsNothing
<1>9. ASSUME ~early'
      PROVE  /\ JoinedIn(down') => ~UnderWay(up', down')
             /\ socket' = "open" /\ ~JoinedIn(down') => unanswered' = CountOf(up', {"offer"}) + CountOf(down', Replies)
  BY <1>6, <1>7, <1>8, <1>9 DEF WireInv, Counted
<1>10. ASSUME ~early'
       PROVE  /\ ReplyToLastOffer' /\ generation' \in {0, publication'}
              /\ generation' > 0 => answered' = publication' /\ ChannelsOf(down', publication')
  <2>1. Given(down)
    BY <1>10 DEF WireInv
  <2>2. generation > 0 => answered = publication /\ ChannelsOf(down, publication)
    BY <2>1 DEF Given
  <2>3. generation > 0 => ChannelsOf(down', publication)
    BY <1>2, <1>3, <2>2 DEF ChannelsOf
  <2>4. Given(down')
    BY <2>1, <2>2, <2>3 DEF Given
  <2>5. QED
    BY <2>4, GivenSettles DEF Settles
<1>11. QED
  BY <1>5, <1>9, <1>10, Composed

(* It replies to an offer, which is newer than any that it answered before. *)
LEMMA RepliesOnWire ==
  ASSUME IInv, WireInv, SamePub, SameGiven, UNCHANGED <<unanswered, early, socket>>, socket = "open",
         up # <<>>, Head(up).type = "offer", up' = Tail(up),
         NEW t \in Replies, down' = Append(down, About(t, Head(up).of)),
         answered' = IF t = "answer" THEN Head(up).of ELSE answered
  PROVE  WireInv'
<1> DEFINE x == About(t, Head(up).of)
<1>1. Len(up) # 0 /\ Len(up) \in Nat /\ up \in Seq(UpRecords) /\ down \in Seq(DownRecords)
  BY Wired, EmptySeq, LenProperties
<1>2. Head(up) = up[1] /\ 1 \in 1..Len(up) /\ Tail(up) \in Seq(UpRecords)
  BY <1>1, HeadTailProperties
<1>3. Head(up).of \in Nat
  BY <1>1, <1>2, Numbered
<1>4. x \in DownRecords /\ x.type \in Replies /\ x.type = t
  BY <1>3 DEF About, DownRecords, DownTypes, Replies
<1>5. x.type \notin JoinedTypes
  BY <1>4 DEF Replies, JoinedTypes
<1>6. Ordered(up, down, answered, Below) /\ (offerSent => HasOwn(up, down, publication))
  BY DEF WireInv, InTransit
<1>7. Ordered(up', down', answered', Below)
  BY <1>1, <1>6, Wired, OrderedReplies
<1>8. offerSent => HasOwn(up', down', publication)
  BY <1>1, <1>6, Wired, HasOwnReplies
<1>9. Ordered(up', down', answered', Below') /\ (offerSent' => HasOwn(up', down', publication'))
  BY <1>7, <1>8 DEF SamePub, Below
<1>10. UnderWay(up, down)
  BY <1>2 DEF UnderWay, Places
<1>11. ASSUME ~early'
       PROVE  /\ JoinedIn(down') => ~UnderWay(up', down')
              /\ socket' = "open" /\ ~JoinedIn(down') => unanswered' = CountOf(up', {"offer"}) + CountOf(down', Replies)
  <2>1. ~JoinedIn(down) /\ unanswered = CountOf(up, {"offer"}) + CountOf(down, Replies)
    BY <1>10, <1>11 DEF WireInv, Counted
  <2>2. ~JoinedIn(down')
    <3>1. Len(down) \in Nat /\ Len(down') = Len(down) + 1 /\ down'[Len(down) + 1] = x
          /\ \A i \in 1..Len(down) : down'[i] = down[i]
      BY <1>1, <1>4, AppendProperties, LenProperties
    <3>2. \A i \in 1..Len(down') : i = Len(down) + 1 \/ i \in 1..Len(down)
      BY <3>1
    <3>3. QED
      BY <1>5, <2>1, <3>1, <3>2 DEF JoinedIn
  <2>3. CountOf(up, {"offer"}) = CountOf(Tail(up), {"offer"}) + 1
    BY <1>1, CountTail
  <2>4. CountOf(down', Replies) = CountOf(down, Replies) + 1
    BY <1>1, <1>4, CountAppend
  <2>5. CountOf(Tail(up), {"offer"}) \in Nat /\ CountOf(down, Replies) \in Nat
    BY <1>1, <1>2, CountsNothing
  <2>6. unanswered = CountOf(Tail(up), {"offer"}) + CountOf(down', Replies)
    BY <2>1, <2>3, <2>4, <2>5
  <2>7. QED
    BY <2>2, <2>6
<1>12. ASSUME ~early'
       PROVE  /\ ReplyToLastOffer' /\ generation' \in {0, publication'}
              /\ generation' > 0 => answered' = publication' /\ ChannelsOf(down', publication')
  <2>1. Given(down)
    BY <1>12 DEF WireInv
  <2>2. answered < Head(up).of /\ Head(up).of < Below
    BY <1>2, <1>6 DEF Ordered
  <2>3. Below <= publication + 1
    BY Wired DEF Below
  <2>4. answered # publication
    BY <1>3, <2>2, <2>3, Wired
  <2>5. generation = 0
    BY <2>1, <2>4, Wired DEF Given
  <2>6. ReplyToLastOffer'
    BY <2>1 DEF Given, ReplyToLastOffer, SameGiven, SamePub
  <2>7. QED
    BY <2>5, <2>6 DEF SameGiven
<1>13. QED
  BY <1>9, <1>11, <1>12, Composed

(* It hears that a publication is ready. *)
LEMMA ReadyHeard ==
  ASSUME IInv, WireInv, SamePub, SameGiven, UNCHANGED <<down, answered, unanswered, early, socket>>,
         up # <<>>, Head(up).type = "ready", up' = Tail(up)
  PROVE  WireInv'
<1>1. up \in Seq(UpRecords) /\ Tail(up) \in Seq(UpRecords)
  <2>1. up \in Seq(UpRecords)
    BY Wired
  <2>2. QED
    BY <2>1, HeadTailProperties
<1>2. Ordered(up, down, answered, Below) /\ (offerSent => HasOwn(up, down, publication))
  BY DEF WireInv, InTransit
<1>3. Ordered(Tail(up), down, answered, Below)
  BY <1>2, Wired, OrderedTakesReady
<1>4. offerSent => HasOwn(Tail(up), down, publication)
  BY <1>2, Wired, HasOwnTakesReady
<1>5. InTransit(Tail(up), down)
  BY <1>3, <1>4 DEF InTransit
<1>6. Ordered(up', down', answered', Below') /\ (offerSent' => HasOwn(up', down', publication'))
  BY <1>1, <1>5, Wired, TransitSettles
<1>7. CountOf(up', {"offer"}) = CountOf(up, {"offer"})
  BY <1>1, CountTail
<1>8. UnderWay(up', down) <=> UnderWay(up, down)
  BY <1>1, <1>7, Wired, CountsNothing
<1>9. socket' # "open" => up' = <<>> /\ down' = <<>>
  BY DEF WireInv
<1>10. ASSUME ~early'
       PROVE  /\ JoinedIn(down') => ~UnderWay(up', down')
              /\ socket' = "open" /\ ~JoinedIn(down') => unanswered' = CountOf(up', {"offer"}) + CountOf(down', Replies)
  BY <1>7, <1>8, <1>10 DEF WireInv, Counted
<1>11. ASSUME ~early'
       PROVE  /\ ReplyToLastOffer' /\ generation' \in {0, publication'}
              /\ generation' > 0 => answered' = publication' /\ ChannelsOf(down', publication')
  BY <1>11, GivenSettles DEF WireInv, Settles
<1>12. QED
  BY <1>6, <1>9, <1>10, <1>11, Composed

-------------------------------------------------------------------------------
(* The actions, one by one. *)

RepliesInv == OfferWaits /\ WireInv

LEMMA RepliesInitial == Init => RepliesInv
<1> SUFFICES ASSUME Init PROVE RepliesInv
  OBVIOUS
<1>1. /\ socket = "none" /\ up = <<>> /\ down = <<>> /\ posted = <<>> /\ answered = 0 /\ publication = 0
      /\ generation = 0 /\ offerSent = FALSE /\ peer = NoPeer
  BY DEF Init
<1>2. OfferWaits
  BY <1>1 DEF OfferWaits, NoPeer
<1>3. InTransit(up, down)
  BY <1>1 DEF InTransit, Ordered
<1>4. Counted(up, down, unanswered)
  BY <1>1 DEF Counted, JoinedIn
<1>5. Given(down)
  BY <1>1 DEF Given, ReplyToLastOffer, NoPeer
<1>6. QED
  BY <1>1, <1>2, <1>3, <1>4, <1>5 DEF RepliesInv, WireInv

(* Timers, token replies and the monitor leave the wire alone. *)
LEMMA QuietMatches ==
  ASSUME IInv, RepliesInv, Settles, UNCHANGED <<posted, wireVars, workerVars, unanswered>>,
         socket' = "open" <=> socket = "open"
  PROVE  RepliesInv'
<1>1. OfferWaits'
  BY WaitsOn DEF RepliesInv, Settles
<1>2. WireInv'
  BY StillWire DEF RepliesInv, wireVars, workerVars
<1>3. QED
  BY <1>1, <1>2 DEF RepliesInv

LEMMA DropMatches ==
  ASSUME IInv, RepliesInv, Settles, DropSocket, UNCHANGED <<posted, workerVars, unanswered>>
  PROVE  RepliesInv'
<1>1. OfferWaits'
  BY WaitsOn DEF RepliesInv, Settles
<1>2. up' = <<>> /\ down' = <<>> /\ socket' # "open" /\ down' \in Seq(DownRecords)
  BY DEF DropSocket
<1>3. \A i \in 1..Len(down') : down'[i].type \in JoinedTypes
  BY <1>2
<1>4. WireInv'
  BY <1>2, <1>3, EmptyWire DEF RepliesInv, workerVars
<1>5. QED
  BY <1>1, <1>4 DEF RepliesInv

LEMMA ScheduleDrops == ASSUME ScheduleReconnect PROVE DropSocket
  BY DEF ScheduleReconnect

LEMMA ConnectionMatches ==
  ASSUME IInv, RepliesInv, ConnectionStep
  PROVE  RepliesInv'
<1>1. ASSUME NEW c \in token, TokenReply(c) PROVE RepliesInv'
  <2>1. UNCHANGED <<posted, workerVars, unanswered>> /\ Settles
    BY <1>1, UnchangedSettles DEF TokenReply
  <2>2. CASE ScheduleReconnect
    BY <2>1, <2>2, ScheduleDrops, DropMatches
  <2>3. CASE UNCHANGED <<connection, socket, reconnecting, wireVars, budget>>
    BY <2>1, <2>3, QuietMatches
  <2>4. CASE ~stopped /\ c = connection /\ socket' = "opening" /\ UNCHANGED wireVars
    <3>1. socket = "none"
      BY <2>4 DEF IInv, SessionInv, OneWayToConnect
    <3>2. QED
      BY <2>1, <2>4, <3>1, QuietMatches
  <2>5. QED
    BY <1>1, <2>2, <2>3, <2>4 DEF TokenReply
<1>2. CASE SocketOpens
  <2>1. /\ socket = "opening" /\ socket' = "open" /\ UNCHANGED <<pubVars, unanswered, posted, up, workerVars>>
    BY <1>2 DEF SocketOpens
  <2>2. PICK t \in JoinedTypes : down' = <<Message(t)>>
    BY <1>2 DEF SocketOpens
  <2>3. Message(t) \in DownRecords /\ Message(t).type = t
    BY DEF Message, DownRecords, DownTypes
  <2>4. down' \in Seq(DownRecords) /\ Len(down') = 1 /\ down'[1].type \in JoinedTypes
    BY <2>2, <2>3
  <2>5. (\A i \in 1..Len(down') : down'[i].type \in JoinedTypes) /\ JoinedIn(down')
    BY <2>4 DEF JoinedIn
  <2>6. up' = <<>>
    BY <2>1 DEF RepliesInv, WireInv
  <2>7. Settles /\ (SamePub \/ NewPub)
    BY <2>1, UnchangedSettles DEF Settles
  <2>8. WireInv'
    BY <2>1, <2>4, <2>5, <2>6, <2>7, EmptyWire DEF RepliesInv, workerVars
  <2>9. QED
    BY <2>1, <2>7, <2>8, WaitsOn DEF RepliesInv
<1>3. CASE ReconnectTimer
  <2>1. Settles
    BY <1>3, UnchangedSettles DEF ReconnectTimer
  <2>2. QED
    BY <1>3, <2>1, QuietMatches DEF ReconnectTimer
<1>4. QED
  BY <1>1, <1>2, <1>3 DEF ConnectionStep

LEMMA EndsMatch ==
  ASSUME IInv, RepliesInv, Disconnect \/ \E taken \in BOOLEAN : OnSocketClosed(taken)
  PROVE  RepliesInv'
<1>1. CASE Disconnect
  <2>1. Settles
    BY <1>1, StopSettles DEF Disconnect
  <2>2. QED
    BY <1>1, <2>1, DropMatches DEF Disconnect
<1>2. ASSUME NEW taken \in BOOLEAN, OnSocketClosed(taken) PROVE RepliesInv'
  <2>1. Settles
    BY <1>2, StopSettles, UnchangedSettles DEF OnSocketClosed
  <2>2. DropSocket
    BY <1>2, ScheduleDrops DEF OnSocketClosed
  <2>3. QED
    BY <1>2, <2>1, <2>2, DropMatches DEF OnSocketClosed
<1>3. QED
  BY <1>1, <1>2

LEMMA TimersMatch ==
  ASSUME IInv, RepliesInv, RetryTimer \/ RetryHandler \/ MonitorPeer
  PROVE  RepliesInv'
<1>1. CASE RetryTimer
  <2>1. Settles
    BY <1>1 DEF RetryTimer, Settles, SamePub, SameGiven
  <2>2. QED
    BY <1>1, <2>1, QuietMatches DEF RetryTimer, connVars
<1>2. CASE RetryHandler
  <2>1. Settles
    BY <1>2, UnchangedSettles, StartSettles DEF RetryHandler
  <2>2. QED
    BY <1>2, <2>1, QuietMatches DEF RetryHandler, connVars
<1>3. CASE MonitorPeer
  <2>1. Settles
    BY <1>3, RetrySettles DEF MonitorPeer
  <2>2. QED
    BY <1>3, <2>1, QuietMatches DEF MonitorPeer, connVars
<1>4. QED
  BY <1>1, <1>2, <1>3

(* OnMessage. *)
LEMMA MessageMatches ==
  ASSUME IInv, RepliesInv, down # <<>>, MessageStep
  PROVE  RepliesInv'
<1> DEFINE m == Head(down)
<1>1. /\ socket = "open" /\ down' = Tail(down)
      /\ OnJoined(m) \/ OnWake(m) \/ OnSleep(m) \/ OnAnswer(m) \/ OnError(m) \/ OnChannels(m)
      /\ UNCHANGED <<stopped, connVars, retryQueued, posted, workerVars>>
  BY DEF MessageStep, OnMessage, Receive
<1>2. UNCHANGED <<posted, answered, early, socket>>
  BY <1>1 DEF workerVars, connVars
<1>3. m \in DownRecords
  BY DownHears DEF RepliesInv
<1>4. ASSUME ~early, Settles
      PROVE  /\ ReplyToLastOffer' /\ generation' \in {0, publication'}
             /\ generation' > 0 => answered' = publication' /\ ChannelsOf(down', publication')
  <2>1. Given(down)
    BY <1>4 DEF RepliesInv, WireInv
  <2>2. Given(down')
    BY <1>1, <2>1, DownHears DEF Given, RepliesInv
  <2>3. QED
    BY <1>2, <1>4, <2>2, GivenSettles
<1> HIDE DEF m
<1>5. ASSUME SamePub \/ NewPub PROVE OfferWaits'
  BY <1>2, <1>5, WaitsOn DEF RepliesInv
<1>6. CASE OnJoined(m)
  <2>1. m.type \in JoinedTypes /\ unanswered' = 0
    BY <1>6 DEF OnJoined
  <2>2. /\ Settles
        /\ up' = up \/ (SamePub /\ SameGiven /\ up' = Append(up, About("ready", publication)))
    <3>1. CASE StopPublishing /\ UNCHANGED up
      BY <3>1, StopSettles
    <3>2. CASE SendReady
      BY <3>2, ReadySettles DEF Settles
    <3>3. CASE UNCHANGED <<pubVars, publishing, up>>
      BY <3>3, UnchangedSettles
    <3>4. QED
      BY <1>6, <3>1, <3>2, <3>3 DEF OnJoined
  <2>3. WireInv'
    BY <1>1, <1>2, <2>1, <2>2, JoinedHeard DEF RepliesInv, m
  <2>4. QED
    BY <1>5, <2>2, <2>3 DEF RepliesInv, Settles
<1>7. CASE OnWake(m) \/ OnSleep(m)
  <2>1. m.type \in {"wake", "sleep"} /\ UNCHANGED <<unanswered, up>> /\ Settles
    BY <1>7, StartSettles, StopSettles DEF OnWake, OnSleep
  <2>2. m.type \notin JoinedTypes \cup Replies
    BY <2>1 DEF JoinedTypes, Replies
  <2>3. SamePub \/ NewPub
    BY <2>1 DEF Settles
  <2>4. WireInv'
    BY <1>1, <1>2, <1>4, <2>1, <2>2, <2>3, OtherHeard DEF RepliesInv, m
  <2>5. QED
    BY <1>5, <2>3, <2>4 DEF RepliesInv
<1>8. CASE OnAnswer(m)
  <2>1. /\ m.type = "answer" /\ m.type \in Replies /\ unanswered' = Max0(unanswered)
        /\ UNCHANGED <<publication, offerSent, up>>
    BY <1>8 DEF OnAnswer, Replies
  <2>2. CASE LastReply
    <3>1. generation' = m.of /\ peer' = [peer EXCEPT !.answer = m.of]
      BY <1>8, <2>2 DEF OnAnswer
    <3>2. peer \in PeerRecords /\ m.of \in Nat
      BY <1>3, Types DEF IInv, SessionInv, PubTypes, DownRecords
    <3>3. peer'.offering = peer.offering /\ peer'.answer = m.of /\ peer'.channels = peer.channels
      BY <3>1, <3>2 DEF PeerRecords
    <3>4. SamePub
      BY <2>1, <3>3 DEF SamePub
    <3>5. ASSUME ~early
          PROVE  /\ ReplyToLastOffer' /\ generation' \in {0, publication'}
                 /\ generation' > 0 => answered' = publication' /\ ChannelsOf(down', publication')
      <4>1. m.of = publication /\ answered = publication /\ ChannelsOf(down', publication)
        BY <1>1, <2>1, <2>2, <3>5, LastIsOwn DEF RepliesInv, m, LastReply
      <4>2. peer.channels \in {0, publication}
        BY <3>5 DEF RepliesInv, WireInv, Given, ReplyToLastOffer
      <4>3. QED
        BY <1>2, <2>1, <3>1, <3>3, <4>1, <4>2 DEF ReplyToLastOffer
    <3>6. WireInv'
      BY <1>1, <1>2, <2>1, <3>4, <3>5, ReplyHeard DEF RepliesInv, m
    <3>7. QED
      BY <1>5, <3>4, <3>6 DEF RepliesInv
  <2>3. CASE ~LastReply
    <3>1. UNCHANGED <<generation, peer>>
      BY <1>8, <2>3 DEF OnAnswer
    <3>2. Settles /\ (SamePub \/ NewPub)
      BY <2>1, <3>1 DEF Settles, SamePub, SameGiven
    <3>3. WireInv'
      BY <1>1, <1>2, <1>4, <2>1, <3>2, ReplyHeard DEF RepliesInv, m
    <3>4. QED
      BY <1>5, <3>2, <3>3 DEF RepliesInv
  <2>4. QED
    BY <2>2, <2>3
<1>9. CASE OnError(m)
  <2>1. m.type \in {"stale", "error"} /\ unanswered' = Max0(unanswered) /\ up' = up
    BY <1>9 DEF OnError
  <2>2. m.type \in Replies
    BY <2>1 DEF Replies
  <2>3. Settles /\ (SamePub \/ NewPub)
    <3>1. UNCHANGED pubVars \/ StopPublishing \/ RetryPublishing
      BY <1>9 DEF OnError
    <3>2. QED
      BY <3>1, UnchangedSettles, StopSettles, RetrySettles DEF Settles
  <2>4. WireInv'
    BY <1>1, <1>2, <1>4, <2>1, <2>2, <2>3, ReplyHeard DEF RepliesInv, m
  <2>5. QED
    BY <1>5, <2>3, <2>4 DEF RepliesInv
<1>10. CASE OnChannels(m)
  <2>1. /\ m.type = "channels" /\ UNCHANGED <<publication, generation, offerSent, unanswered, up>>
        /\ peer' = IF peer.live /\ generation > 0 /\ unanswered = 0
                   THEN [peer EXCEPT !.channels = m.of] ELSE peer
    BY <1>10 DEF OnChannels
  <2>2. m.type \notin JoinedTypes \cup Replies
    BY <2>1 DEF JoinedTypes, Replies
  <2>3. peer \in PeerRecords
    BY Types DEF IInv, SessionInv, PubTypes
  <2>4. /\ peer'.offering = peer.offering /\ peer'.answer = peer.answer
        /\ peer'.channels = peer.channels \/ (generation > 0 /\ peer'.channels = m.of)
    BY <2>1, <2>3 DEF PeerRecords
  <2>5. SamePub
    BY <2>1, <2>4 DEF SamePub
  <2>6. ASSUME ~early
        PROVE  /\ ReplyToLastOffer' /\ generation' \in {0, publication'}
               /\ generation' > 0 => answered' = publication' /\ ChannelsOf(down', publication')
    <3>1. Given(down)
      BY <2>6 DEF RepliesInv, WireInv
    <3>2. generation > 0 => m.of = publication
      BY <2>1, <3>1, DownHears DEF Given, ChannelsOf, RepliesInv, m
    <3>3. peer.answer \in {0, publication} /\ peer.channels \in {0, publication}
      BY <3>1 DEF Given, ReplyToLastOffer
    <3>4. ReplyToLastOffer'
      BY <2>1, <2>4, <3>2, <3>3 DEF ReplyToLastOffer
    <3>5. generation > 0 => ChannelsOf(down', publication)
      BY <1>1, <3>1, DownHears DEF Given, RepliesInv
    <3>6. QED
      BY <1>2, <2>1, <3>1, <3>4, <3>5 DEF Given
  <2>7. WireInv'
    BY <1>1, <1>2, <2>1, <2>2, <2>5, <2>6, OtherHeard DEF RepliesInv, m
  <2>8. QED
    BY <1>5, <2>5, <2>7 DEF RepliesInv
<1>11. QED
  BY <1>1, <1>6, <1>7, <1>8, <1>9, <1>10

(* The closures of the peer. *)
LEMMA RunMatches ==
  ASSUME IInv, IInv', RepliesInv, RunPosted
  PROVE  RepliesInv'
<1> DEFINE c == Head(posted)
<1>1. /\ posted # <<>> /\ posted' = Tail(posted)
      /\ PostedStale(c) \/ SendOffer(c) \/ OnPeerState(c)
      /\ early' = (early \/ (up' # up /\ Joining))
      /\ UNCHANGED <<stopped, publishing, connVars, retryQueued, down, answered, readySeen>>
  BY DEF RunPosted
<1>2. UNCHANGED <<down, answered, socket>>
  BY <1>1 DEF connVars
<1>3. c \in PostedRecords
  BY <1>1, TailIndex, PostedNumbered
<1>4. Joining <=> JoinedIn(down)
  BY DEF Joining, JoinedIn
<1>5. early => early'
  BY <1>1
<1> HIDE DEF c
<1>6. ASSUME Settles, UNCHANGED <<up, unanswered>> PROVE RepliesInv'
  <2>1. WireInv'
    BY <1>2, <1>5, <1>6, StillWire DEF RepliesInv
  <2>2. OfferWaits'
    BY <1>1, <1>6, WaitsRun DEF RepliesInv, Settles
  <2>3. QED
    BY <2>1, <2>2 DEF RepliesInv
<1>7. ASSUME SendReady, UNCHANGED unanswered PROVE RepliesInv'
  <2>1. /\ SamePub /\ SameGiven
        /\ up' = up \/ (socket = "open" /\ up' = Append(up, About("ready", publication)))
    BY <1>7, ReadySettles
  <2>2. WireInv'
    BY <1>2, <1>5, <1>7, <2>1, ReadyOnWire DEF RepliesInv
  <2>3. OfferWaits'
    BY <1>1, <2>1, WaitsRun DEF RepliesInv
  <2>4. QED
    BY <2>2, <2>3 DEF RepliesInv
<1>8. CASE PostedStale(c)
  BY <1>6, <1>8, UnchangedSettles DEF PostedStale
<1>9. CASE SendOffer(c)
  <2>1. c.of = publication /\ c.type = "offer"
    BY <1>9 DEF SendOffer
  <2>2. CASE RetryPublishing /\ UNCHANGED <<unanswered, up>>
    BY <1>6, <2>2, RetrySettles
  <2>3. CASE /\ Send(c)
             /\ IF socket = "open"
                THEN unanswered' = unanswered + 1 /\ offerSent' = TRUE
                ELSE UNCHANGED <<unanswered, offerSent>>
             /\ UNCHANGED <<publication, peer, generation, readySent, retry, health, budget>>
    <3>1. CASE socket = "open"
      <4>1. c = About("offer", publication)
        BY <1>3, <2>1 DEF PostedRecords, About
      <4>2. up' = Append(up, About("offer", publication)) /\ unanswered' = unanswered + 1 /\ offerSent' = TRUE
        BY <2>3, <3>1, <4>1 DEF Send
      <4>3. publication' = publication /\ SameGiven /\ peer'.offering = peer.offering
        BY <2>3 DEF SameGiven
      <4>4. OfferWaits' /\ ~offerSent /\ publication > 0
        BY <1>1, <2>1, <4>3, WaitsSend DEF RepliesInv, c
      <4>5. early' = (early \/ (up' # up /\ JoinedIn(down)))
        BY <1>1, <1>4
      <4>6. WireInv'
        BY <1>2, <3>1, <4>2, <4>3, <4>4, <4>5, OfferOnWire DEF RepliesInv
      <4>7. QED
        BY <4>4, <4>6 DEF RepliesInv
    <3>2. CASE socket # "open"
      <4>1. UNCHANGED <<unanswered, offerSent, up>>
        BY <2>3, <3>2 DEF Send
      <4>2. Settles
        BY <2>3, <4>1 DEF Settles, SamePub, SameGiven
      <4>3. QED
        BY <1>6, <4>1, <4>2
    <3>3. QED
      BY <3>1, <3>2
  <2>4. QED
    BY <1>9, <2>2, <2>3 DEF SendOffer
<1>10. CASE OnPeerState(c)
  <2>1. unanswered' = unanswered
    BY <1>10 DEF OnPeerState
  <2>2. CASE SendReady
    BY <1>7, <2>1, <2>2
  <2>3. CASE UNCHANGED <<pubVars, up>>
    BY <1>6, <2>1, <2>3, UnchangedSettles
  <2>4. CASE RetryPublishing /\ UNCHANGED up
    BY <1>6, <2>1, <2>4, RetrySettles
  <2>5. QED
    BY <1>10, <2>2, <2>3, <2>4 DEF OnPeerState
<1>11. QED
  BY <1>1, <1>8, <1>9, <1>10

(* The peer on the signaling thread. *)
LEMMA SaysMatch ==
  ASSUME IInv, RepliesInv, NEW p \in PeerRecords, p.answer = peer.answer, p.channels = peer.channels,
         NEW t \in {"", "offer", "connected", "failed"}, PeerSays(p, t),
         IF t = "offer" THEN peer.offering /\ ~p.offering ELSE p.offering = peer.offering
  PROVE  RepliesInv'
<1>1. /\ peer' = p /\ UNCHANGED <<publication, generation, offerSent, unanswered>>
      /\ posted' = IF t = "" THEN posted ELSE Append(posted, About(t, publication))
      /\ UNCHANGED <<connVars, wireVars, workerVars>>
  BY DEF PeerSays
<1>2. UNCHANGED <<up, down, answered, early, socket>>
  BY <1>1 DEF connVars, wireVars, workerVars
<1>3. SameGiven
  BY <1>1 DEF SameGiven
<1>4. OfferWaits'
  <2>1. CASE t = ""
    BY <1>1, <2>1, WaitsOn DEF RepliesInv, SamePub
  <2>2. CASE t # ""
    BY <1>1, <2>2, WaitsPost DEF RepliesInv
  <2>3. QED
    BY <2>1, <2>2
<1>5. Ordered(up', down', answered', Below') /\ (offerSent' => HasOwn(up', down', publication'))
  BY <1>1, <1>2 DEF RepliesInv, WireInv, InTransit, Below
<1>6. ASSUME ~early'
      PROVE  /\ JoinedIn(down') => ~UnderWay(up', down')
             /\ socket' = "open" /\ ~JoinedIn(down') => unanswered' = CountOf(up', {"offer"}) + CountOf(down', Replies)
             /\ ReplyToLastOffer' /\ generation' \in {0, publication'}
             /\ generation' > 0 => answered' = publication' /\ ChannelsOf(down', publication')
  <2>1. Counted(up, down, unanswered) /\ Given(down)
    BY <1>2, <1>6 DEF RepliesInv, WireInv
  <2>2. QED
    BY <1>1, <1>2, <1>3, <2>1 DEF Counted, Given, ReplyToLastOffer, SameGiven
<1>7. WireInv'
  BY <1>2, <1>5, <1>6, Composed DEF RepliesInv, WireInv
<1>8. QED
  BY <1>4, <1>7 DEF RepliesInv

LEMMA PeerMatches ==
  ASSUME IInv, RepliesInv, PeerStep \/ PeerFails \/ PeerCloses
  PROVE  RepliesInv'
<1>1. peer \in PeerRecords
  BY Types DEF IInv, SessionInv, PubTypes
<1>2. CASE LocalOffer
  <2> DEFINE p == [peer EXCEPT !.offering = FALSE]
  <2>1. p \in PeerRecords /\ p.answer = peer.answer /\ p.channels = peer.channels /\ ~p.offering
    BY <1>1 DEF PeerRecords
  <2>2. peer.offering /\ PeerSays(p, "offer")
    BY <1>2 DEF LocalOffer
  <2> HIDE DEF p
  <2>3. QED
    BY <2>1, <2>2, SaysMatch
<1>3. ASSUME NEW s \in {"connected", "failed", "closed"}, NEW t \in {"", "connected", "failed"},
             PeerSays([peer EXCEPT !.conn = s], t)
      PROVE  RepliesInv'
  <2> DEFINE p == [peer EXCEPT !.conn = s]
  <2>1. p \in PeerRecords /\ p.answer = peer.answer /\ p.channels = peer.channels /\ p.offering = peer.offering
    BY <1>1 DEF PeerRecords
  <2>2. PeerSays(p, t)
    BY <1>3
  <2> HIDE DEF p
  <2>3. QED
    BY <2>1, <2>2, SaysMatch
<1>4. CASE PeerConnects
  BY <1>3, <1>4 DEF PeerConnects
<1>5. CASE PeerFails
  BY <1>3, <1>5 DEF PeerFails
<1>6. CASE PeerCloses
  BY <1>3, <1>6 DEF PeerCloses
<1>7. QED
  BY <1>2, <1>4, <1>5, <1>6 DEF PeerStep

(* The worker. *)
LEMMA WorkerMatches ==
  ASSUME IInv, RepliesInv, WorkerStep \/ WorkerWakesOrSleeps \/ WorkerSendsChannels
  PROVE  RepliesInv'
<1>1. UNCHANGED <<stopped, publishing, connVars, pubVars, unanswered, retryQueued, posted>> /\ early' = early
  BY DEF WorkerStep, WorkerReplies, WorkerHearsReady, WorkerWakesOrSleeps, WorkerSendsChannels, Tell, workerVars
<1>2. SamePub /\ SameGiven /\ UNCHANGED <<unanswered, early, socket, posted>>
  BY <1>1 DEF SamePub, SameGiven, connVars, pubVars
<1>3. OfferWaits'
  BY <1>2, WaitsOn DEF RepliesInv
<1>4. ASSUME NEW x \in DownRecords, x.type \notin Replies \cup JoinedTypes, x.type = "channels" => x.of = answered,
             Tell(x), UNCHANGED <<up, answered>>
      PROVE  WireInv'
  BY <1>2, <1>4, TellsOnWire DEF RepliesInv, Tell
<1>5. CASE WorkerWakesOrSleeps
  <2>1. PICK t \in {"wake", "sleep"} : Tell(Message(t))
    BY <1>5 DEF WorkerWakesOrSleeps
  <2>2. Message(t) \in DownRecords /\ Message(t).type = t
    BY DEF Message, DownRecords, DownTypes
  <2>3. t \notin Replies \cup JoinedTypes /\ t # "channels"
    BY DEF Replies, JoinedTypes
  <2>4. UNCHANGED <<up, answered>>
    BY <1>5 DEF WorkerWakesOrSleeps, workerVars
  <2>5. WireInv'
    BY <1>4, <2>1, <2>2, <2>3, <2>4
  <2>6. QED
    BY <1>3, <2>5 DEF RepliesInv
<1>6. CASE WorkerSendsChannels
  <2> DEFINE x == About("channels", answered)
  <2>1. x \in DownRecords /\ x.type = "channels" /\ x.of = answered
    BY Wired DEF About, DownRecords, DownTypes
  <2>2. x.type \notin Replies \cup JoinedTypes
    BY <2>1 DEF Replies, JoinedTypes
  <2>3. Tell(x) /\ UNCHANGED <<up, answered>>
    BY <1>6 DEF WorkerSendsChannels, workerVars
  <2> HIDE DEF x
  <2>4. WireInv'
    BY <1>4, <2>1, <2>2, <2>3
  <2>5. QED
    BY <1>3, <2>4 DEF RepliesInv
<1>7. CASE WorkerReplies
  <2>1. up # <<>> /\ Head(up).type = "offer" /\ up' = Tail(up)
    BY <1>7 DEF WorkerReplies
  <2>2. PICK t \in Replies : /\ Tell(About(t, Head(up).of))
                             /\ answered' = IF t = "answer" THEN Head(up).of ELSE answered
    <3>1. CASE Tell(About("answer", Head(up).of)) /\ answered' = Head(up).of
      BY <3>1 DEF Replies
    <3>2. CASE \E t \in {"stale", "error"} : Tell(About(t, Head(up).of)) /\ answered' = answered
      BY <3>2 DEF Replies
    <3>3. QED
      BY <1>7, <3>1, <3>2 DEF WorkerReplies
  <2>3. socket = "open" /\ down' = Append(down, About(t, Head(up).of))
    BY <2>2 DEF Tell
  <2>4. WireInv'
    BY <1>2, <2>1, <2>2, <2>3, RepliesOnWire DEF RepliesInv
  <2>5. QED
    BY <1>3, <2>4 DEF RepliesInv
<1>8. CASE WorkerHearsReady
  <2>1. up # <<>> /\ Head(up).type = "ready" /\ up' = Tail(up) /\ UNCHANGED <<down, answered>>
    BY <1>8 DEF WorkerHearsReady
  <2>2. WireInv'
    BY <1>2, <2>1, ReadyHeard DEF RepliesInv
  <2>3. QED
    BY <1>3, <2>2 DEF RepliesInv
<1>9. QED
  BY <1>5, <1>6, <1>7, <1>8 DEF WorkerStep

LEMMA RepliesPreserved == ASSUME IInv, RepliesInv, [Next]_vars PROVE RepliesInv'
<1>1. CASE UNCHANGED vars
  <2>1. Settles /\ UNCHANGED <<posted, wireVars, workerVars, unanswered, socket>>
    BY <1>1, UnchangedSettles DEF vars, connVars
  <2>2. QED
    BY <2>1, QuietMatches
<1>2. CASE Next
  <2>1. IInv'
    BY Preserved
  <2>2. QED
    BY <1>2, <2>1, ConnectionMatches, EndsMatch, TimersMatch, MessageMatches, RunMatches, PeerMatches, WorkerMatches
       DEF Next
<1>3. QED
  BY <1>1, <1>2

LEMMA RepliesDo == ASSUME IInv, RepliesInv PROVE RepliesMatch
<1>1. ASSUME ~early PROVE ReplyToLastOffer
  BY <1>1 DEF RepliesInv, WireInv, Given
<1>2. ASSUME ~early, socket = "open", ~Joining PROVE unanswered = OffersUnderWay
  <2>1. unanswered = CountOf(up, {"offer"}) + CountOf(down, Replies)
    BY <1>2 DEF RepliesInv, WireInv, Counted, Joining, JoinedIn
  <2>2. Places(up, {"offer"}) = {i \in 1..Len(up) : up[i].type = "offer"}
    BY DEF Places
  <2>3. QED
    BY <2>1, <2>2 DEF OffersUnderWay, CountOf, Places
<1>3. QED
  BY <1>1, <1>2 DEF RepliesMatch, ReplyAfterJoined, UnansweredIsExact

(* A peer is given what answers its own offer, and never the answer to an offer of an earlier  *)
(* publication, although replies name no offer and are told apart by their count alone         *)
(* (unanswered_ in OnAnswer, OnError and OnChannels); the count is exact whenever joined was   *)
(* read before an offer was sent.                                                              *)
THEOREM RepliesAlwaysMatch == Spec => []RepliesMatch
<1>1. Init => IInv /\ RepliesInv
  BY Initial, RepliesInitial
<1>2. IInv /\ RepliesInv /\ [Next]_vars => (IInv /\ RepliesInv)'
  BY Preserved, RepliesPreserved
<1>3. IInv /\ RepliesInv => RepliesMatch
  BY RepliesDo
<1>4. QED
  BY <1>1, <1>2, <1>3, PTL DEF Spec
=============================================================================
