------------------------------- MODULE DataChannels -------------------------------
(* What one viewer's channels carry (command_channel.cpp, stream_channel.cpp,     *)
(* the outbound half of ipc_channel.cpp, and the handlers that rtc/conductor.cpp  *)
(* and rtc_peer.cpp register).  Requests run on libwebrtc's signaling thread; a   *)
(* local program's message runs the reliable channel's callback on the thread of  *)
(* its socket, under the server's lock; the peer is ended by a third thread.      *)
EXTENDS RtcChannel

CONSTANTS MaxRequests, \* bound: requests of the viewer
          MaxPassed, \* bound: messages of local programs
          MaxChunks       \* most chunks of a streamed body

ASSUME DataAssumption == MaxRequests \in Nat /\ MaxPassed \in Nat /\ MaxChunks \in Nat
ASSUME RolesAssumption == {"command", "stream", "reliable"} \subseteq Role

VARIABLES
  requests,  \* requests handled
  messages,  \* messages passed on
  recording, \* the on-demand recorder records
  listening, \* the reliable channel's callback is known to the server
  alive,     \* the channels have not been destroyed
  strayed    \* a callback ran into a channel that had been destroyed

dataVars == <<requests, messages, recording, listening, alive, strayed>>

DataTypeOK ==
  /\ requests \in 0..MaxRequests /\ messages \in 0..MaxPassed
  /\ recording \in BOOLEAN /\ listening \in BOOLEAN /\ alive \in BOOLEAN /\ strayed \in BOOLEAN

\* Conductor makes the channels with the peer, and registers the handlers.
DataInit ==
  /\ ChannelInit
  /\ requests = 0 /\ messages = 0
  /\ recording = FALSE /\ listening = TRUE /\ alive = TRUE /\ strayed = FALSE

-------------------------------------------------------------------------------
(* The handlers, on the signaling thread. *)

OnPacket ==
  /\ observed["command"] /\ dc["command"] = "open" /\ requests < MaxRequests
  /\ requests' = requests + 1
  /\ UNCHANGED <<messages, listening, alive, strayed>>

\* The answer is sent after the recorder has started or stopped.
StartRecording == OnPacket /\ SendBytes("command", 1) /\ recording' = TRUE
StopRecording == OnPacket /\ SendBytes("command", 1) /\ recording' = FALSE

\* SendStream: header, chunks, trailer; a file that turns out shorter than its header
\* said has fewer chunks, and a reason in its trailer.
SendStream(r) == \E n \in 0..MaxChunks : SendBytes(r, n + 2)

\* The stream channel lives as long as the peer holds its channels.
TakeSnapshot == OnPacket /\ SendStream("stream") /\ UNCHANGED recording
QueryFile == OnPacket /\ SendStream("stream") /\ UNCHANGED recording

\* A file that cannot be opened is not answered.
TransferFile ==
  /\ OnPacket
  /\ SendStream("stream") \/ UNCHANGED channelVars
  /\ UNCHANGED recording

\* Camera controls, and requests that no handler knows, are not answered.
ControlCamera == OnPacket /\ UNCHANGED <<channelVars, recording>>

Disconnect == OnPacket /\ CloseConnection /\ UNCHANGED recording

Request ==
  \/ StartRecording \/ StopRecording
  \/ TakeSnapshot \/ QueryFile \/ TransferFile \/ ControlCamera \/ Disconnect

-------------------------------------------------------------------------------
(* Local programs, and the end of the peer. *)

\* Small messages go as they are, large ones as a stream.
SendToPeer ==
  IF dc["reliable"] = "open"
  THEN SendBytes("reliable", 1) \/ SendStream("reliable")
  ELSE UNCHANGED channelVars

Callback ==
  /\ messages < MaxPassed
  /\ messages' = messages + 1
  /\ IF listening THEN SendToPeer ELSE UNCHANGED channelVars
  /\ strayed' = (strayed \/ (listening /\ ~alive))
  /\ UNCHANGED <<requests, recording, listening, alive>>

\* Variant: the functions only run for a channel that is open.
RunClosedIfOpen ==
  /\ terminator = "closed"
  /\ NextChannel
  /\ recording' = IF Roles[role] = "command" /\ dc["command"] = "open" THEN FALSE ELSE recording
  /\ UNCHANGED <<requests, messages, listening, alive, strayed>>

\* The command channel stops the recorder when it is closed.
RunClosed ==
  /\ terminator = "closed"
  /\ NextChannel
  /\ recording' = IF Roles[role] = "command" THEN FALSE ELSE recording
  /\ UNCHANGED <<requests, messages, listening, alive, strayed>>

\* ~IpcChannel takes its callback back before anything else of it goes.
Destroy ==
  /\ terminator = "destroy"
  /\ terminator' = "done"
  /\ listening' = FALSE /\ alive' = FALSE
  /\ UNCHANGED <<dc, observed, queueVars, role, missed, requests, messages, recording, strayed>>

-------------------------------------------------------------------------------

Libwebrtc == OnTransportReady \/ CloseConnection \/ \E r \in Role : Drain(r)
EndStep == StopSendThread \/ JoinSendThread \/ UnregisterObserver

DataNext ==
  \/ Request
  \/ Callback
  \/ Libwebrtc /\ UNCHANGED dataVars
  \/ \E r \in Role : SendLoop(r) /\ UNCHANGED dataVars
  \/ (TerminatePeer \/ EndStep) /\ UNCHANGED dataVars
  \/ RunClosed \/ Destroy

-------------------------------------------------------------------------------
(* Properties. *)

\* Once a viewer's channels are terminated, no recording that it started goes on: no
\* request is handled after the OnClosed functions ran (RtcChannel::Terminate).
RecordingEnds == terminator \in {"destroy", "done"} => ~recording

\* Types; frames keep their order; and no program's thread calls a channel that was
\* destroyed (~IpcChannel takes its callback back under the lock callbacks run under), nor a
\* recording goes on that nobody asks for any more.
DataInv == ChannelInv /\ DataTypeOK /\ listening = alive /\ ~strayed /\ RecordingEnds

\* The end of a peer comes to its end, unless a send thread was told to stop in the
\* moment before it slept (StopSendThread).
PeerEnds == (terminator = "stop") ~> (terminator = "done" \/ missed # {})

\* What was queued is sent, unless the channel closes: again and again, no open channel has
\* frames waiting (SendBytes, SendLoop; a viewer asks only so often).
FramesLeave == []<>(\A r \in Role : queue[r] = <<>> \/ dc[r] # "open")
=============================================================================
