------------------------------- MODULE IpcEndpoints -------------------------------
(* The two endpoints behind the viewers' IPC channels: the default one, which     *)
(* passes bytes both ways, and the gamepad one, which publishes snapshots of all  *)
(* gamepads (rtc/datachannel/ipc_channel.cpp, ipc/gamepad_endpoint.cpp,           *)
(* ipc/ipc_endpoint.cpp, ipc/endpoint_registry.cpp).  Each has a UnixSocketServer *)
(* of its own; a behaviour is about one of the two.  Packets of all viewers run   *)
(* on libwebrtc's signaling thread; "closer" destroys the channels of viewers     *)
(* that are gone.  A viewer numbers its reports, and the lossy channel delivers   *)
(* them in any order, late or never: any of them may arrive at any time.          *)
EXTENDS UnixSocketServer

CONSTANTS Remotes,         \* viewers
          MaxSequence,     \* bound: reports of a viewer
          Chunks,          \* chunks of a streamed payload, as its header declares them
          IpcPrograms,     \* programs that connect to the default endpoint
          GamepadPrograms  \* programs that connect to the gamepad endpoint

ASSUME EndpointsAssumption ==
  /\ Senders = {"signaling", "closer"} /\ MaxSequence \in Nat /\ Chunks \in Nat \ {0} /\ Nothing \notin Remotes
  /\ IpcPrograms \subseteq Clients /\ GamepadPrograms \subseteq Clients

VARIABLES
  kind,       \* which endpoint
  channel,    \* each viewer's IPC channels: up, terminated, or destroyed
  registered, \* viewers whose reliable channel is in message_callbacks_
  spoke,      \* viewers in remote_ids_
  last,       \* last_sequence_
  age,        \* since the last accepted report: 0, over 500 ms (1), over 1 s (2)
  regressed,  \* viewers from whom an older report was accepted after 1 s
  gamepads,   \* gamepads_: the report shown for each viewer, 0 for none
  publisher,  \* the thread that holds GamepadEndpoint::mutex_ to publish
  speaker,    \* the viewer whose packet the signaling thread is delivering
  assembly,   \* chunks each viewer's streamed payload has, if there is one
  astray      \* a callback ran into a channel that had been destroyed

lossyVars == <<last, age, regressed>>
lifeVars == <<kind, channel, registered, astray>>
endpointVars == <<lifeVars, spoke, lossyVars, gamepads, publisher, speaker, assembly>>
programVars == <<serverVars, endpointVars>>

Snapshots == [Remotes -> 0..MaxSequence]
NoGamepads == [r \in Remotes |-> 0]

EndpointTypeOK ==
  /\ kind \in {"ipc", "gamepad"}
  /\ channel \in [Remotes -> {"up", "terminated", "closing", "destroyed"}]
  /\ registered \in SUBSET Remotes /\ spoke \in SUBSET Remotes
  /\ last \in [Remotes -> 0..MaxSequence] /\ age \in [Remotes -> 0..2] /\ regressed \in SUBSET Remotes
  /\ gamepads \in Snapshots
  /\ latest \in Snapshots \cup {Nothing}
  /\ publisher \in Senders \cup {Nothing} /\ speaker \in Remotes \cup {Nothing}
  /\ assembly \in [Remotes -> 0..Chunks \cup {Nothing}]
  /\ astray \in BOOLEAN

\* The gamepad endpoint publishes an empty snapshot before it starts its server.
EndpointInit ==
  /\ kind \in {"ipc", "gamepad"}
  /\ ServerInit(IF kind = "gamepad" THEN NoGamepads ELSE Nothing)
  /\ channel = [r \in Remotes |-> "up"]
  /\ registered = (IF kind = "ipc" THEN Remotes ELSE {})
  /\ spoke = {}
  /\ last = [r \in Remotes |-> 0] /\ age = [r \in Remotes |-> 0] /\ regressed = {}
  /\ gamepads = NoGamepads /\ publisher = Nothing /\ speaker = Nothing
  /\ assembly = [r \in Remotes |-> Nothing]
  /\ astray = FALSE

-------------------------------------------------------------------------------
(* Time, for a viewer's lossy channel. *)

TimePasses(r) ==
  /\ last[r] # 0 /\ age[r] < 2
  /\ age' = [age EXCEPT ![r] = @ + 1]
  /\ UNCHANGED <<serverVars, lifeVars, spoke, last, regressed, gamepads, publisher, speaker, assembly>>

-------------------------------------------------------------------------------
(* OnPacket, on the signaling thread. *)

Deliver(r) == speaker = Nothing /\ channel[r] = "up"

\* Variant: only duplicates are refused.
AcceptDifferent(r, s) == s # last[r] \/ age[r] = 2

AcceptSequence(r, s) == s > last[r] \/ age[r] = 2

\* A report that is accepted reaches the endpoint.
Arrives(r, s) ==
  /\ Deliver(r)
  /\ AcceptSequence(r, s)
  /\ last' = [last EXCEPT ![r] = s]
  /\ age' = [age EXCEPT ![r] = 0]
  /\ regressed' = IF s < last[r] /\ age[r] = 2 THEN regressed \cup {r} ELSE regressed
  /\ speaker' = r

\* PruneLocked.
Prune(pads, ages) == [r \in Remotes |-> IF ages[r] > 0 THEN 0 ELSE pads[r]]

\* PruneLocked and PublishLocked, whose flush follows.
Publish(t, pads, ages) ==
  /\ publisher = Nothing
  /\ publisher' = t
  /\ gamepads' = Prune(pads, ages)
  /\ SetLatest(Prune(pads, ages))

\* The gamepad endpoint; input that is no gamepad report is dropped there.
Report(r, s) ==
  /\ kind = "gamepad" /\ Arrives(r, s)
  /\ \/ Publish("signaling", [gamepads EXCEPT ![r] = s], age')
     \/ UNCHANGED <<serverVars, gamepads, publisher>>
  /\ UNCHANGED <<lifeVars, spoke, assembly>>

\* The default endpoint, over the reliable channel, which refuses nothing.
Payload(r) ==
  /\ kind = "ipc" /\ Deliver(r)
  /\ Write("signaling")
  /\ speaker' = r
  /\ UNCHANGED <<lifeVars, spoke, lossyVars, gamepads, publisher, assembly>>

OnStreamHeader(r) ==
  /\ kind = "ipc" /\ Deliver(r)
  /\ assembly' = [assembly EXCEPT ![r] = 0]
  /\ UNCHANGED <<serverVars, lifeVars, spoke, lossyVars, gamepads, publisher, speaker>>

\* A chunk beyond the declared length ends the assembly.
OnStreamChunk(r) ==
  /\ kind = "ipc" /\ Deliver(r) /\ assembly[r] # Nothing
  /\ assembly' = [assembly EXCEPT ![r] = IF @ < Chunks THEN @ + 1 ELSE Nothing]
  /\ UNCHANGED <<serverVars, lifeVars, spoke, lossyVars, gamepads, publisher, speaker>>

OnStreamTrailer(r, aborted) ==
  /\ kind = "ipc" /\ Deliver(r) /\ assembly[r] # Nothing
  /\ assembly' = [assembly EXCEPT ![r] = Nothing]
  /\ IF assembly[r] = Chunks /\ ~aborted
     THEN Write("signaling") /\ speaker' = r
     ELSE UNCHANGED <<serverVars, speaker>>
  /\ UNCHANGED <<lifeVars, spoke, lossyVars, gamepads, publisher>>

\* WriteToEndpoint remembers the viewer once the endpoint has returned.
OnPacketReturns ==
  /\ speaker # Nothing /\ publisher # "signaling" /\ stale["signaling"] = {}
  /\ spoke' = spoke \cup {speaker}
  /\ speaker' = Nothing
  /\ UNCHANGED <<serverVars, lifeVars, lossyVars, gamepads, publisher, assembly>>

\* FlushLatest, still under the endpoint's mutex.
Flush ==
  /\ publisher # Nothing
  /\ FlushLatest(publisher)
  /\ publisher' = Nothing
  /\ UNCHANGED <<acceptVars, lifeVars, spoke, lossyVars, gamepads, speaker, assembly>>

-------------------------------------------------------------------------------
(* The end of a viewer's channels. *)

\* Terminate waits until OnPacket has returned.
TerminateChannels(r) ==
  /\ channel[r] = "up" /\ speaker # r
  /\ channel' = [channel EXCEPT ![r] = "terminated"]
  /\ UNCHANGED <<serverVars, kind, registered, astray, spoke, lossyVars, gamepads, publisher, speaker, assembly>>

\* ~IpcChannel: no callback any more ...
Unregister(r) ==
  /\ channel[r] = "terminated" /\ \A q \in Remotes : channel[q] # "closing"
  /\ channel' = [channel EXCEPT ![r] = "closing"]
  /\ registered' = registered \ {r}
  /\ UNCHANGED <<serverVars, kind, astray, spoke, lossyVars, gamepads, publisher, speaker, assembly>>

\* ... and the endpoints are told of everyone who spoke.
NotifyRemotesClosed(r) ==
  /\ channel[r] = "closing" /\ publisher = Nothing /\ stale["closer"] = {}
  /\ channel' = [channel EXCEPT ![r] = "destroyed"]
  /\ spoke' = spoke \ {r}
  /\ IF r \in spoke /\ gamepads[r] # 0 /\ kind = "gamepad"
     THEN Publish("closer", [gamepads EXCEPT ![r] = 0], age)
     ELSE UNCHANGED <<serverVars, gamepads, publisher>>
  /\ UNCHANGED <<kind, registered, astray, lossyVars, speaker, assembly>>

\* A program's message runs all callbacks, which pass it on while their channel is open.
Callbacks(c) ==
  /\ RunCallbacks(c)
  /\ astray' = (astray \/ \E r \in registered : channel[r] \in {"closing", "destroyed"})
  /\ UNCHANGED <<kind, channel, registered, spoke, lossyVars, gamepads, publisher, speaker, assembly>>

-------------------------------------------------------------------------------

Programs == IF kind = "gamepad" THEN GamepadPrograms ELSE IpcPrograms

\* The conductor starts the endpoints when it is created and stops them when it is
\* destroyed.  Bounds: programs at the gamepad endpoint only listen (it has no callback
\* to run), it stops only after its viewers have gone, and messages are read at the
\* default one only before a viewer streams.
EndpointStep ==
  /\ ServerStep \/ \E c \in Programs : ProgramStep(c)
  /\ written' # written => kind = "ipc" /\ \A r \in Remotes : assembly[r] = Nothing
  /\ kind = "gamepad" => (main' = "closing" => \A r \in Remotes : channel[r] = "destroyed")
  /\ UNCHANGED endpointVars

ViewerStep(r) ==
  \/ TimePasses(r)
  \/ \E s \in 1..MaxSequence : Report(r, s)
  \/ Payload(r) \/ OnStreamHeader(r) \/ OnStreamChunk(r) \/ \E aborted \in BOOLEAN : OnStreamTrailer(r, aborted)
  \/ TerminateChannels(r)

PeerThread == OnPacketReturns \/ Flush \/ \E r \in Remotes : Unregister(r) \/ NotifyRemotesClosed(r)

EndpointNext ==
  \/ EndpointStep
  \/ \E c \in Clients : Callbacks(c)
  \/ main # "off" /\ \E r \in Remotes : ViewerStep(r)
  \/ PeerThread

-------------------------------------------------------------------------------
(* Properties. *)

\* A viewer whose channels are destroyed has no gamepad left, in the endpoint or in the
\* snapshot that new clients get: whoever wrote was remembered before the channel could
\* go (WriteToEndpoint, NotifyRemotesClosed).
GoneIsGone == \A r \in Remotes : channel[r] = "destroyed" => gamepads[r] = 0 /\ (kind = "gamepad" => latest[r] = 0)

\* No callback runs into a channel that is being destroyed (~IpcChannel).
NothingAstray == ~astray

EndpointInv == ServerInv /\ EndpointTypeOK /\ GoneIsGone /\ NothingAstray

\* A program never reads an older report of a gamepad after a newer one, though the
\* channel reorders them and snapshots are skipped, unless the viewer was silent for a
\* second and may have started anew (AcceptSequence, SendLatest).
NeverOlder ==
  [][\A c \in Clients, r \in Remotes :
       seen[c] # Nothing /\ seen'[c] # seen[c] /\ r \notin regressed =>
         seen'[c][r] \in {0} \cup seen[c][r]..MaxSequence]_programVars

\* A program left, or was dropped by a write, and its descriptor is open still.
Dangling(c) == thread[c] # "none" /\ fd[c] # Nothing /\ clients[fd[c]] # c

\* Stop returns; and the descriptors of the programs that left, or were dropped by a write,
\* are closed in the end (there are only so many programs).
ServerSettles == []<>(main \notin {"closing", "draining"} /\ \A c \in Clients : ~Dangling(c))
=============================================================================
