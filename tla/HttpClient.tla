-------------------------------- MODULE HttpClient --------------------------------
(* One request of HttpClient (signaling/http_client.cpp): a Session resolves,     *)
(* connects, secures, writes and reads, each step in the handler of the one       *)
(* before, and calls on_complete once.  A server may stop answering at any point; *)
(* only the name service answers by itself.                                       *)
EXTENDS Naturals

VARIABLES
  request,  \* the operation of the session that is under way
  deadline, \* a time-out is set on the stream
  replies,  \* calls of on_complete_
  reply     \* what the last one said

httpVars == <<request, deadline, replies, reply>>

HttpTypeOK ==
  /\ request \in {"none", "resolve", "connect", "tls", "write", "read", "done"}
  /\ deadline \in BOOLEAN /\ replies \in 0..1
  /\ reply \in {"none", "ok", "refused", "failed"}

HttpInit == request = "none" /\ deadline = FALSE /\ replies = 0 /\ reply = "none"

\* Session::Finish and Shutdown.
Complete(response) ==
  /\ request' = "done"
  /\ deadline' = FALSE
  /\ replies' = replies + 1
  /\ reply' = response

\* A url that is none is answered before HttpClient::Send returns.
HttpSend ==
  /\ request = "none"
  /\ \/ request' = "resolve" /\ UNCHANGED <<deadline, replies, reply>>
     \/ Complete("failed")

HttpResolved ==
  /\ request = "resolve"
  /\ request' = "connect"
  /\ deadline' = TRUE
  /\ UNCHANGED <<replies, reply>>

HttpResolveFails == request = "resolve" /\ Complete("failed")

\* Variant: the time-out ends with the connection, as it does for a WebSocket.
HttpConnectedUntimed ==
  /\ request = "connect"
  /\ \/ request' = "tls" /\ deadline' = FALSE
     \/ request' = "write" /\ deadline' = TRUE
  /\ UNCHANGED <<replies, reply>>

\* The time-out of the connection goes on through the TLS handshake.
HttpConnected ==
  /\ request = "connect"
  /\ \/ request' = "tls" /\ UNCHANGED deadline
     \/ request' = "write" /\ deadline' = TRUE
  /\ UNCHANGED <<replies, reply>>

HttpSecured ==
  /\ request = "tls"
  /\ request' = "write" /\ deadline' = TRUE
  /\ UNCHANGED <<replies, reply>>

HttpWritten ==
  /\ request = "write"
  /\ request' = "read"
  /\ UNCHANGED <<deadline, replies, reply>>

HttpRead ==
  /\ request = "read"
  /\ Complete("ok") \/ Complete("refused")

\* The operation under way fails; when a time-out is set, it does so in the end.
HttpFails ==
  /\ request \in {"connect", "tls", "write", "read"}
  /\ Complete("failed")

HttpExpires == deadline /\ HttpFails

HttpStep ==
  \/ HttpSend \/ HttpResolved \/ HttpResolveFails
  \/ HttpConnected \/ HttpSecured \/ HttpWritten \/ HttpRead \/ HttpFails
=============================================================================
