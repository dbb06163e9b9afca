------------------------------- MODULE MqttService -------------------------------
(* MqttService on top of its PeerRegistry (signaling/mqtt_service.cpp).  The     *)
(* loop thread of the MQTT client turns messages into calls on a client's peer,  *)
(* creating the peer when the client has none that is live.  Two maps relate     *)
(* clients and peers; the loop thread writes them, the cleaner thread erases     *)
(* from them, and the signaling thread reads them to address what it sends.      *)
(* The lock around each use of the maps is the atomicity of each action here.    *)
EXTENDS PeerRegistry

CONSTANTS Clients, NoClient

ASSUME NoClientAssumption == NoClient \notin Clients

\* mosquitto_loop_start starts one thread.
ASSUME LoopThreadAssumption == \E u \in Users : Users = {u}

VARIABLES
  peerOf,     \* client_id_to_peer_id_
  clientOf,   \* peer_id_to_client_id_
  at,         \* where the loop thread is in OnMessage
  from,       \* client_id of the message being handled
  offering,   \* the message carries an offer
  mapped,     \* mapped_peer_id
  due,        \* the client whose offer a peer has yet to answer
  lost        \* peers that had a local description and no client to send it to

mapVars == <<peerOf, clientOf>>
messageVars == <<at, from, offering, mapped>>
mqttVars == <<mapVars, messageVars, due, lost>>
allVars == <<vars, mqttVars>>

MqttTypeOK ==
  /\ TypeOK
  /\ peerOf \in [Clients -> Peers \cup {NoPeer}]
  /\ clientOf \in [Peers -> Clients \cup {NoClient}]
  /\ at \in {"idle", "get", "create", "map", "apply", "set"}
  /\ from \in Clients \cup {NoClient}
  /\ offering \in BOOLEAN
  /\ mapped \in Peers \cup {NoPeer}
  /\ due \in [Peers -> Clients \cup {NoClient}]
  /\ lost \in SUBSET Peers

MqttInit ==
  /\ Init
  /\ peerOf = [c \in Clients |-> NoPeer]
  /\ clientOf = [p \in Peers |-> NoClient]
  /\ at = "idle" /\ from = NoClient /\ offering = FALSE /\ mapped = NoPeer
  /\ due = [p \in Peers |-> NoClient]
  /\ lost = {}

-------------------------------------------------------------------------------
(* OnMessage, on the loop thread u. *)

\* Variant: the lookup does not depend on the client.
OnMessageAnyClient(u, c, isOffer) ==
  /\ at = "idle" /\ Free(u)
  /\ from' = c
  /\ offering' = isOffer
  /\ \E d \in Clients :
       /\ mapped' = peerOf[d]
       /\ peerOf[d] # NoPeer => offers[peerOf[d]] < MaxOffers
  /\ at' = "get"
  /\ UNCHANGED <<vars, mapVars, due, lost>>

\* The lookup of the client's peer opens the handler.  The bound on offers is on
\* what clients send.
OnMessage(u, c, isOffer) ==
  /\ at = "idle" /\ Free(u)
  /\ isOffer /\ peerOf[c] # NoPeer /\ Found(peerOf[c]) => offers[peerOf[c]] < MaxOffers
  /\ from' = c
  /\ offering' = isOffer
  /\ mapped' = peerOf[c]
  /\ at' = "get"
  /\ UNCHANGED <<vars, mapVars, due, lost>>

MessageDone == at' = "idle" /\ from' = NoClient /\ offering' = FALSE /\ mapped' = NoPeer

GetMapped(u) ==
  /\ at = "get"
  /\ mapped # NoPeer /\ Get(u, mapped)
  /\ at' = "apply"
  /\ UNCHANGED <<from, offering, mapped, mapVars, due, lost>>

NoLivePeer ==
  /\ at = "get"
  /\ mapped = NoPeer \/ ~Found(mapped)
  /\ at' = "create"
  /\ UNCHANGED <<vars, from, offering, mapped, mapVars, due, lost>>

\* Variant: the maps are not written before the message is applied.
CreatePeerUnmapped(u, p) ==
  /\ at = "create"
  /\ Add(u, p)
  /\ at' = "apply"
  /\ UNCHANGED <<from, offering, mapped, mapVars, due, lost>>

CreatePeer(u, p) ==
  /\ at = "create"
  /\ Add(u, p)
  /\ at' = "map"
  /\ UNCHANGED <<from, offering, mapped, mapVars, due, lost>>

\* The conductor could not create a connection; the message is dropped.
CreateFails ==
  /\ at = "create"
  /\ MessageDone
  /\ UNCHANGED <<vars, mapVars, due, lost>>

\* Variant: a client's entry is not overwritten (emplace for operator[]).
MapPeerEmplace(u) ==
  /\ at = "map"
  /\ peerOf' = IF peerOf[from] = NoPeer THEN [peerOf EXCEPT ![from] = holds[u]] ELSE peerOf
  /\ clientOf' = [clientOf EXCEPT ![holds[u]] = from]
  /\ at' = "apply"
  /\ UNCHANGED <<vars, from, offering, mapped, due, lost>>

\* The maps are written after the registry already holds the peer.
MapPeer(u) ==
  /\ at = "map"
  /\ peerOf' = [peerOf EXCEPT ![from] = holds[u]]
  /\ clientOf' = [clientOf EXCEPT ![holds[u]] = from]
  /\ at' = "apply"
  /\ UNCHANGED <<vars, from, offering, mapped, due, lost>>

\* OnRemoteSdp and OnRemoteIce look the peer up again.  Answers and candidates
\* change nothing that matters here.
LookupAgain(u) ==
  /\ at = "apply"
  /\ IF offering /\ Found(holds[u])
     THEN at' = "set" /\ UNCHANGED <<holds, from, offering, mapped>>
     ELSE MessageDone /\ holds' = [holds EXCEPT ![u] = NoPeer]
  /\ UNCHANGED <<peerVars, taskVars, cleanerVars, custodyVars, main, mapVars, due, lost>>

\* The offer is applied, and CreateAnswer will have an answer to send.
OnRemoteSdp(u) ==
  /\ at = "set"
  /\ due' = IF Open(holds[u]) THEN [due EXCEPT ![holds[u]] = from] ELSE due
  /\ ApplyOffer(u)
  /\ MessageDone
  /\ UNCHANGED <<mapVars, lost>>

-------------------------------------------------------------------------------
(* The callbacks the service gives out. *)

\* On the signaling thread, for a peer that is not terminating.  Terminate waits
\* for this callback to return.
OnLocalSdp(p) ==
  /\ ~waking
  /\ Open(p)
  /\ due[p] # NoClient
  /\ due' = [due EXCEPT ![p] = NoClient]
  /\ lost' = IF clientOf[p] = NoClient THEN lost \cup {p} ELSE lost
  /\ UNCHANGED <<vars, mapVars, messageVars>>

\* Variant: the client's entry is erased whichever peer it names.
OnPeerExpiredAny(p) ==
  /\ peerOf' = [c \in Clients |-> IF c = clientOf[p] THEN NoPeer ELSE peerOf[c]]
  /\ clientOf' = [clientOf EXCEPT ![p] = NoClient]
  /\ UNCHANGED <<messageVars, due, lost>>

\* Variant: only the peer's own entry is erased.
OnPeerExpiredHalf(p) ==
  /\ clientOf' = [clientOf EXCEPT ![p] = NoClient]
  /\ UNCHANGED <<peerOf, messageVars, due, lost>>

\* Variant: nothing is erased once the client has another peer.
OnPeerExpiredReturnsEarly(p) ==
  /\ LET current == clientOf[p] # NoClient /\ peerOf[clientOf[p]] = p IN
       /\ peerOf' = [c \in Clients |-> IF current /\ c = clientOf[p] THEN NoPeer ELSE peerOf[c]]
       /\ clientOf' = IF current THEN [clientOf EXCEPT ![p] = NoClient] ELSE clientOf
  /\ UNCHANGED <<messageVars, due, lost>>

\* On the cleaner thread: forget the peer, and the client's entry only if it still
\* names this peer.
OnPeerExpired(p) ==
  /\ peerOf' = [c \in Clients |-> IF c = clientOf[p] /\ peerOf[c] = p THEN NoPeer ELSE peerOf[c]]
  /\ clientOf' = [clientOf EXCEPT ![p] = NoClient]
  /\ UNCHANGED <<messageVars, due, lost>>

\* Disconnect stops the loop thread, then the registry, and clears the maps.
DisconnectBegins == at = "idle" /\ StopFlag /\ UNCHANGED mqttVars

DisconnectEnds ==
  /\ StopDone
  /\ peerOf' = [c \in Clients |-> NoPeer]
  /\ clientOf' = [p \in Peers |-> NoClient]
  /\ UNCHANGED <<messageVars, due, lost>>

-------------------------------------------------------------------------------

OnMessageStep ==
  \E u \in Users :
    \/ GetMapped(u) \/ MapPeer(u) \/ LookupAgain(u) \/ OnRemoteSdp(u)
    \/ \E p \in Peers : CreatePeer(u, p)
    \/ NoLivePeer \/ CreateFails

RegistryStep ==
  /\ \/ PeerEvent \/ ExpiryTask \/ Wake \/ Terminate \/ CleanerStep
     \/ Start \/ StopAbort \/ StopSwap \/ Finished
  /\ UNCHANGED mqttVars

PeerExpired == \E p \in Peers : ReportExpired(p) /\ OnPeerExpired(p)

MqttNext ==
  \/ RegistryStep
  \/ PeerExpired
  \/ \E p \in Peers : OnLocalSdp(p)
  \/ \E u \in Users, c \in Clients, isOffer \in BOOLEAN : OnMessage(u, c, isOffer)
  \/ OnMessageStep
  \/ DisconnectBegins \/ DisconnectEnds

MqttFairness ==
  /\ \A p \in Peers : WF_allVars(DeadlineTask(p) /\ UNCHANGED mqttVars)
  /\ WF_allVars(ExpiryTask /\ UNCHANGED mqttVars)
  /\ WF_allVars(Wake /\ UNCHANGED mqttVars)
  /\ \A t \in Threads :
       WF_allVars((TerminateClose(t) \/ \E p \in Peers : TerminateFlags(t, p)) /\ UNCHANGED mqttVars)
  /\ WF_allVars(CleanerStep /\ UNCHANGED mqttVars)
  /\ WF_allVars(PeerExpired)
  /\ WF_allVars(OnMessageStep)
  /\ WF_allVars(((StopAbort \/ StopSwap) /\ UNCHANGED mqttVars) \/ DisconnectEnds)

MqttSpec == MqttInit /\ [][MqttNext]_allVars /\ MqttFairness

-------------------------------------------------------------------------------
(* Properties. *)

\* The two maps agree: a client's peer is known to belong to that client, through
\* reconnects that replace a peer whose expiry was not swept yet (OnMessage,
\* OnPeerExpired).
MapsAgree == \A c \in Clients : peerOf[c] # NoPeer => clientOf[peerOf[c]] = c

\* Every live peer in the registry is the peer of exactly one client, except the one
\* OnMessage has added and not mapped yet.
LivePeerIsMapped ==
  \A p \in Peers :
    Found(p) /\ ~(at = "map" /\ \E u \in Users : holds[u] = p)
      => clientOf[p] # NoClient /\ peerOf[clientOf[p]] = p

\* Types; the maps agree; and every live peer has its entries.
MqttInv == MqttTypeOK /\ MapsAgree /\ LivePeerIsMapped

\* An answer goes to the client that made the offer (OnLocalSdp).
AnswerGoesHome == \A p \in Peers : due[p] # NoClient /\ clientOf[p] # NoClient => clientOf[p] = due[p]

\* No local description is dropped for want of a client: the maps are written before
\* an offer is applied and cleared after the peer is terminated.
NoSdpLost == lost = {}

\* So each answer is sent, and to whom it is due, though the signaling thread and the cleaner
\* read the maps while OnMessage writes them.
AnswersGoHome == AnswerGoesHome /\ NoSdpLost

\* While a client's peer is live, that client keeps it (the gamepad key "stays the same
\* across WebRTC reconnects", docs/integrations/gamepad.md).
ClientKeepsPeer ==
  [][\A c \in Clients, p \in Peers :
       peerOf[c] = p /\ Found(p) /\ p \in peers' /\ ~expired'[p] => peerOf'[c] = p]_allVars

\* The clients whose peer is live, and the peers that were.
foundPeers == {p \in peers : ~expired[p]}
LivePeerOf(c) == IF peerOf[c] \in foundPeers THEN peerOf[c] ELSE NoPeer
livePeers == [c \in Clients |-> LivePeerOf(c)]
gonePeers == {p \in Peers : link[p] # "none"} \ foundPeers

Directory == INSTANCE ClientDirectory WITH Nobody <- NoPeer, directory <- livePeers, gone <- gonePeers
DirectoryKept == Directory!Spec

\* The mappings of an expired peer are dropped, and of no other: the maps are a directory of
\* live peers at every step of OnMessage, the cleaner and Disconnect.
MappingsFollowPeers ==
  /\ DirectoryKept
  /\ \A p \in Peers :
       (Expiry(p) /\ clientOf[p] # NoClient)
         ~> (clientOf[p] = NoClient /\ \A c \in Clients : peerOf[c] # p)
=============================================================================
