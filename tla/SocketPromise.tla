------------------------------ MODULE SocketPromise ------------------------------
(* What signaling/websocket_client.h promises to the user of a WebSocketClient:  *)
(* frames leave in the order they were given, the close frame follows all of     *)
(* them, and the user is told once, with a code that says who ended it, that the *)
(* connection is over; nothing happens after that.                               *)
EXTENDS Naturals

CONSTANTS MaxFrames, Untold

VARIABLES given, \* frames the client has taken from its user
          gone,  \* of these, the ones that were sent
          asked, \* the user has closed the connection
          shut,  \* the close frame was sent
          told   \* the code that OnClose was called with

promiseVars == <<given, gone, asked, shut, told>>

PromiseTypeOK ==
  /\ given \in 0..MaxFrames /\ gone \in 0..given
  /\ asked \in BOOLEAN /\ shut \in BOOLEAN
  /\ told \in {Untold, "server", "own", "none"}

Promised == given = 0 /\ gone = 0 /\ asked = FALSE /\ shut = FALSE /\ told = Untold

Take ==
  /\ ~asked /\ given < MaxFrames
  /\ given' = given + 1
  /\ UNCHANGED <<gone, asked, shut, told>>

\* The close frame may follow at once when there is nothing left to send.
MayShut == shut' \in BOOLEAN /\ (shut' # shut => shut' /\ asked' /\ gone' = given)

Transmit ==
  /\ ~shut /\ gone < given
  /\ gone' = gone + 1
  /\ MayShut
  /\ UNCHANGED <<given, asked, told>>

Ask ==
  /\ asked' = TRUE
  /\ MayShut
  /\ UNCHANGED <<given, gone, told>>

\* A ping was the last frame that was sent.
Shut ==
  /\ shut' /\ MayShut
  /\ UNCHANGED <<given, gone, asked, told>>

\* Closing a connection that is not up yet tells at once.
Tell(code) ==
  /\ asked' \in {asked, TRUE}
  /\ code = "own" => asked'
  /\ told' = code
  /\ UNCHANGED <<given, gone, shut>>

PromiseNext ==
  /\ told = Untold
  /\ Take \/ Transmit \/ Ask \/ Shut \/ \E code \in {"server", "own", "none"} : Tell(code)

Spec == Promised /\ [][PromiseNext]_promiseVars
=============================================================================
