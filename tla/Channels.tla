--------------------------------- MODULE Channels ---------------------------------
(* The two ends of a viewer's channels, one at a time: the viewer's, where requests   *)
(* are handled and frames are sent, and the local programs', where endpoints pass on   *)
(* what channels deliver.                                                              *)
EXTENDS DataChannels, IpcEndpoints

VARIABLE part  \* "viewer" or "programs"

vars == <<part, channelVars, dataVars, programVars>>

Init ==
  /\ part \in {"viewer", "programs"}
  /\ DataInit /\ EndpointInit
  /\ part = "viewer" => kind = "ipc"

Viewer(A) == part = "viewer" /\ A /\ UNCHANGED <<part, programVars>>
Sends(A) == Viewer(A /\ UNCHANGED dataVars)
Program(A) == part = "programs" /\ A /\ UNCHANGED <<part, channelVars, dataVars>>
Server(A) == Program(A /\ UNCHANGED endpointVars)

Next == Viewer(DataNext) \/ Program(EndpointNext)

\* Threads that have work run it, and libwebrtc sends what it has buffered; nothing makes a
\* program or a viewer act, a peer end or the server stop, and nothing is asked of libwebrtc's
\* thread.
Fairness ==
  /\ \A r \in Role : WF_vars(Sends(SendLoop(r))) /\ WF_vars(Sends(Drain(r)))
  /\ WF_vars(Viewer((EndStep /\ UNCHANGED dataVars) \/ RunClosed \/ Destroy))
  /\ WF_vars(Server(AcceptStep)) /\ WF_vars(Server(StopStep))
  /\ \A c \in Clients : WF_vars(Program(Callbacks(c) \/ (HandleClient(c) /\ UNCHANGED endpointVars)))
  /\ \A t \in Senders : WF_vars(Server(ShutdownStale(t)))

Spec == Init /\ [][Next]_vars /\ Fairness
=============================================================================
