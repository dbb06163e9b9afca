------------------------------ MODULE LiveKitService ------------------------------
(* LiveKitService (signaling/livekit_service.cpp): one connection to an SFU that  *)
(* is not renewed, a publishing and a subscribing peer, and a write queue that the *)
(* io_context thread and the peers' callbacks, on libwebrtc's signaling thread,    *)
(* fill.  An operation of the socket that is under way when it is closed ends with *)
(* an error, and its handler runs as any other.                                    *)
EXTENDS Naturals, Sequences

CONSTANTS MaxJoins,   \* bound: joins of the SFU
          MaxSignals, \* bound: offers, answers and candidates of the peers
          MaxPings    \* bound: pings that wait to be written

ASSUME LiveKitAssumption == MaxJoins \in Nat /\ MaxSignals \in Nat /\ MaxPings \in Nat

VARIABLES
  link,     \* the socket, or the operation that opens it
  receives, \* a read is under way
  outbox,   \* write_queue_
  pings,    \* ping_timer_: off, armed, or its handler is queued
  peersMade, \* pub_peer_ and sub_peer_ are set
  offering, \* the publisher is asked for an offer
  onWire,   \* what the SFU got of the tracks and the publisher's offer
  joins, signals

liveKitVars == <<link, receives, outbox, pings, peersMade, offering, onWire, joins, signals>>

Words == {"tracks", "offer", "signal", "ping"}

LiveKitTypeOK ==
  /\ link \in {"off", "resolve", "connect", "handshake", "open", "closing", "closed"}
  /\ receives \in BOOLEAN /\ peersMade \in BOOLEAN
  /\ outbox \in Seq(Words)
  /\ pings \in {"off", "armed", "due"}
  /\ offering \in 0..MaxJoins
  /\ onWire \in SUBSET {"tracks", "offer"}
  /\ joins \in 0..MaxJoins /\ signals \in 0..MaxSignals

LiveKitInit ==
  /\ link = "off" /\ receives = FALSE /\ outbox = <<>> /\ pings = "off"
  /\ peersMade = FALSE /\ offering = 0 /\ onWire = {} /\ joins = 0 /\ signals = 0

-------------------------------------------------------------------------------
(* Connection. *)

LkConnect ==
  /\ link = "off"
  /\ link' = "resolve"
  /\ UNCHANGED <<receives, outbox, pings, peersMade, offering, onWire, joins, signals>>

\* Resolved, connected, and through the TLS handshake if there is one.
LkNext ==
  /\ link' = CASE link = "resolve" -> "connect" [] link = "connect" -> "handshake" [] OTHER -> link
  /\ link \in {"resolve", "connect"}
  /\ UNCHANGED <<receives, outbox, pings, peersMade, offering, onWire, joins, signals>>

\* A failure is logged, and that is all.
LkOpenFails ==
  /\ link \in {"resolve", "connect", "handshake"}
  /\ link' = "closed"
  /\ UNCHANGED <<receives, outbox, pings, peersMade, offering, onWire, joins, signals>>

LkOnHandshake ==
  /\ link = "handshake"
  /\ link' = "open"
  /\ receives' = TRUE
  /\ pings' = "armed"
  /\ UNCHANGED <<outbox, peersMade, offering, onWire, joins, signals>>

\* A handler that is queued already is not cancelled.
LkDisconnect ==
  /\ pings' = IF pings = "armed" THEN "off" ELSE pings
  /\ link' = IF link = "open" THEN "closing" ELSE link

\* The close handshake is done, or the connection breaks.
LkClosed ==
  /\ link \in {"open", "closing"}
  /\ link' = "closed"
  /\ UNCHANGED <<receives, outbox, pings, peersMade, offering, onWire, joins, signals>>

-------------------------------------------------------------------------------
(* Messages of the SFU, which follow its protocol: nothing for a peer before join. *)

LkRead == link = "open" /\ receives /\ receives' = TRUE

\* Variant: the offer is asked for before the tracks are announced.
OnJoinOffersFirst ==
  /\ LkRead /\ joins < MaxJoins
  /\ joins' = joins + 1
  /\ peersMade' = TRUE
  /\ outbox' = outbox \o <<"offer", "tracks">>
  /\ UNCHANGED <<link, pings, offering, onWire, signals>>

\* New peers replace old ones; then the tracks are announced, and an offer is made.
OnJoin ==
  /\ LkRead /\ joins < MaxJoins
  /\ joins' = joins + 1
  /\ peersMade' = TRUE
  /\ outbox' = Append(outbox, "tracks")
  /\ offering' = offering + 1
  /\ UNCHANGED <<link, pings, onWire, signals>>

OnLeave ==
  /\ LkRead
  /\ LkDisconnect
  /\ UNCHANGED <<outbox, peersMade, offering, onWire, joins, signals>>

LkReadError ==
  /\ receives /\ link \in {"closing", "closed"}
  /\ receives' = FALSE
  /\ LkDisconnect
  /\ UNCHANGED <<outbox, peersMade, offering, onWire, joins, signals>>

-------------------------------------------------------------------------------
(* Writing, under write_mutex_: a write is under way while the queue is not empty. *)

LkWrite(word) == outbox' = Append(outbox, word)

\* On the signaling thread: the publisher's offer, ...
OnLocalOffer ==
  /\ offering > 0
  /\ offering' = offering - 1
  /\ LkWrite("offer")
  /\ UNCHANGED <<link, receives, pings, peersMade, onWire, joins, signals>>

\* ... an answer, or a candidate.
OnLocalSignal ==
  /\ peersMade /\ signals < MaxSignals
  /\ signals' = signals + 1
  /\ LkWrite("signal")
  /\ UNCHANGED <<link, receives, pings, peersMade, offering, onWire, joins>>

OnWriteDone ==
  /\ outbox # <<>> /\ link = "open"
  /\ onWire' = onWire \cup ({Head(outbox)} \cap {"tracks", "offer"})
  /\ outbox' = Tail(outbox)
  /\ UNCHANGED <<link, receives, pings, peersMade, offering, joins, signals>>

\* Variant: an error is only logged.
OnWriteFailsLogged ==
  /\ outbox # <<>> /\ link # "open"
  /\ outbox' = Tail(outbox)
  /\ UNCHANGED <<link, receives, pings, peersMade, offering, onWire, joins, signals>>

\* An error closes the connection, and the queue goes on.
OnWriteFails ==
  /\ outbox # <<>> /\ link # "open"
  /\ LkDisconnect
  /\ outbox' = Tail(outbox)
  /\ UNCHANGED <<receives, peersMade, offering, onWire, joins, signals>>

-------------------------------------------------------------------------------
(* Pings. *)

\* A write on a broken connection fails well within the interval of the pings.
PingExpires ==
  /\ pings = "armed" /\ Len(outbox) < MaxPings
  /\ link # "open" => outbox = <<>>
  /\ pings' = "due"
  /\ UNCHANGED <<link, receives, outbox, peersMade, offering, onWire, joins, signals>>

LkOnPing ==
  /\ pings = "due"
  /\ LkWrite("ping")
  /\ pings' = "armed"
  /\ UNCHANGED <<link, receives, peersMade, offering, onWire, joins, signals>>

LiveKitHandler ==
  \/ LkNext \/ LkOpenFails \/ LkOnHandshake
  \/ LkReadError \/ OnWriteDone \/ OnWriteFails \/ LkOnPing

LiveKitStep ==
  \/ LkConnect \/ LkClosed \/ OnJoin \/ OnLeave
  \/ OnLocalOffer \/ OnLocalSignal \/ PingExpires
  \/ LiveKitHandler
=============================================================================
