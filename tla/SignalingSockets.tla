----------------------------- MODULE SignalingSockets -----------------------------
(* The connections of a device to its signaling service, on one io_context: for    *)
(* Cloudflare a request for a token, and then the WebSocket that it is for; for     *)
(* LiveKit the service's own connection.                                            *)
EXTENDS WebSocketClient, HttpClient, LiveKitService

VARIABLE service \* which service the device was started with

vars == <<service, socketVars, httpVars, liveKitVars>>

Init ==
  /\ service \in {"cloudflare", "livekit"}
  /\ SocketInit /\ HttpInit /\ LiveKitInit

\* The socket is opened by the handler of the token's reply.
SocketNext ==
  /\ service = "cloudflare" /\ (stage = "new" => reply = "ok") /\ SocketStep
  /\ UNCHANGED <<service, httpVars, liveKitVars>>
HttpNext == service = "cloudflare" /\ HttpStep /\ UNCHANGED <<service, socketVars, liveKitVars>>
LiveKitNext == service = "livekit" /\ LiveKitStep /\ UNCHANGED <<service, socketVars, httpVars>>

Next == SocketNext \/ HttpNext \/ LiveKitNext

Socket(A) == SocketNext /\ A
Http(A) == HttpNext /\ A
LiveKit(A) == LiveKitNext /\ A

\* Handlers that are due run; operations with a time-out end, one way or the other; the
\* name service answers.  Nothing makes a server or a user act.
Fairness ==
  /\ WF_vars(Socket(OpenEnds)) /\ WF_vars(Socket(WriteEnds)) /\ WF_vars(Socket(OnReadError))
  /\ WF_vars(Socket(OnShut)) /\ WF_vars(Socket(OnPing \/ OnSilence)) /\ WF_vars(Socket(Tick))
  /\ WF_vars(Http(HttpResolveFails \/ HttpResolved)) /\ WF_vars(Http(HttpExpires))
  /\ WF_vars(LiveKit(LkReadError)) /\ WF_vars(LiveKit(OnWriteDone \/ OnWriteFails)) /\ WF_vars(LiveKit(LkOnPing))

Spec == Init /\ [][Next]_vars /\ Fairness

-------------------------------------------------------------------------------
(* Properties. *)

\* The tracks are announced to the SFU before the offer that carries them (OnMessage).
TracksBeforeOffer == LiveKitTypeOK /\ HttpTypeOK /\ ("offer" \in onWire => "tracks" \in onWire)

\* A connection that is finished is not open and has no timer; one write is under way
\* exactly while an open connection has something queued; at most the frame that is
\* being written outlives Finish (DoWrite, Finish, OnHandshake); and LiveKit's messages keep
\* their order.
SocketInv ==
  /\ SocketTypeOK
  /\ finished = (told # Untold)
  /\ finished => ~open /\ ping = Off /\ silence = Off
  /\ open => writing = (queue # <<>>) /\ silence # Off
  /\ ~open => Len(queue) = (IF writing THEN 1 ELSE 0)
  /\ shut => closing
  /\ TracksBeforeOffer

\* A server that answers pings is never given up for its silence (ping and silence timer).
LiveServerKept == [][silence = 0 /\ told' # told => server # "up"]_vars

\* WebSocketClient does what its header promises, and gives up no server that is there.
Promise == INSTANCE SocketPromise WITH asked <- closing
KeepsPromise == Promise!Spec /\ LiveServerKept

\* A connection that is being opened opens or is reported closed; one that is closed by
\* its user, lost, or silent because the server vanished is reported closed; a request for
\* a token is answered (Finish of WebSocketClient and of Session).
EndsAreHeard ==
  /\ (stage \in Opening /\ ~finished) ~> (open \/ finished)
  /\ (open /\ (closing \/ server # "up")) ~> finished
  /\ (request # "none") ~> (replies = 1)

\* What is written to a broken LiveKit connection does not pile up, and the pings end
\* with the connection, even if the timer was cancelled too late (DoWrite, Disconnect).
LiveKitWindsDown ==
  /\ (link = "closed" /\ outbox # <<>>) ~> (outbox = <<>>)
  /\ (link = "closed") ~> [](pings = "off")

\* Every end is heard of, by timers, pings and closes that come in any order.
ConnectionsEnd == EndsAreHeard /\ LiveKitWindsDown
=============================================================================
