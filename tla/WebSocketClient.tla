----------------------------- MODULE WebSocketClient -----------------------------
(* One WebSocketClient (signaling/websocket_client.cpp): opening, the frame queue, *)
(* the ping and silence timers, and its end.  Everything runs on the io_context    *)
(* thread, so a handler is atomic.  An operation that is under way ("stage",       *)
(* "reading", "writing", "shutting") completes in a later handler, also when the   *)
(* connection was finished meanwhile.  Time is counted in ping intervals; a server *)
(* that is up answers a ping within one.                                           *)
EXTENDS Naturals, Sequences

CONSTANTS MaxFrames,      \* bound: frames the user sends
          SilenceTimeout, \* in ping intervals, rounded down
          Untold

ASSUME SilenceAssumption == SilenceTimeout \in Nat /\ SilenceTimeout > 1
ASSUME FramesAssumption == MaxFrames \in Nat /\ Untold \notin {"server", "own", "none"}

VARIABLES
  stage,    \* the operation under way that opens the connection
  open, closing, finished, \* open_, closing_, finished_
  writing,  \* writing_
  queue,    \* write_queue_: frames by number, pings as 0
  reading,  \* a read is under way
  shutting, \* a close is under way
  ping,     \* intervals until the ping timer expires, or Off
  silence,  \* intervals until the silence timer expires, or Off
  server,   \* what became of the server
  owed,     \* it has a ping to answer
  given, gone, shut, told \* see SocketPromise

loopVars == <<open, closing, finished, writing, queue, reading, shutting>>
timerVars == <<ping, silence>>
serverVars == <<server, owed>>
toldVars == <<given, gone, shut, told>>
socketVars == <<stage, loopVars, timerVars, serverVars, toldVars>>

Off == SilenceTimeout + 1
Opening == {"posted", "resolve", "connect", "tls", "handshake"}

SocketTypeOK ==
  /\ stage \in Opening \cup {"new", "up", "over"}
  /\ open \in BOOLEAN /\ closing \in BOOLEAN /\ finished \in BOOLEAN /\ writing \in BOOLEAN
  /\ reading \in BOOLEAN /\ shutting \in BOOLEAN /\ shut \in BOOLEAN /\ owed \in BOOLEAN
  /\ queue \in Seq(0..MaxFrames)
  /\ ping \in {0, 1, Off} /\ silence \in 0..SilenceTimeout \cup {Off}
  /\ server \in {"up", "closed", "lost", "vanished"}
  /\ given \in 0..MaxFrames /\ gone \in 0..MaxFrames
  /\ told \in {Untold, "server", "own", "none"}

SocketInit ==
  /\ stage = "new"
  /\ open = FALSE /\ closing = FALSE /\ finished = FALSE
  /\ writing = FALSE /\ queue = <<>> /\ reading = FALSE /\ shutting = FALSE
  /\ ping = Off /\ silence = Off
  /\ server = "up" /\ owed = FALSE
  /\ given = 0 /\ gone = 0 /\ shut = FALSE /\ told = Untold

-------------------------------------------------------------------------------
(* What several handlers end with. *)

\* Finish: once; a frame that is being written stays in the queue.
Finish(code) ==
  IF finished
  THEN UNCHANGED <<open, finished, queue, timerVars, told>>
  ELSE /\ finished' = TRUE /\ open' = FALSE
       /\ ping' = Off /\ silence' = Off
       /\ queue' = IF writing THEN <<Head(queue)>> ELSE <<>>
       /\ told' = code

\* DoWrite, with what the queue and the flags are when it is called.
DoWrite(q, busy, toClose) ==
  LET idle == ~busy /\ ~finished /\ open IN
  /\ queue' = q
  /\ writing' = (busy \/ (idle /\ q # <<>>))
  /\ shutting' = (shutting \/ (idle /\ q = <<>> /\ toClose))
  /\ shut' = (shut \/ shutting')

-------------------------------------------------------------------------------
(* The user. *)

\* A url that is none is reported by a handler of its own.
Open ==
  /\ stage = "new" /\ ~finished
  /\ stage' \in {"posted", "resolve"}
  /\ UNCHANGED <<loopVars, timerVars, serverVars, toldVars>>

\* Frames before the connection is up, or after Close, are dropped.
Send ==
  /\ given < MaxFrames /\ open /\ ~finished /\ ~closing
  /\ given' = given + 1
  /\ DoWrite(Append(queue, given'), writing, FALSE)
  /\ UNCHANGED <<stage, open, closing, finished, reading, timerVars, serverVars, gone, told>>

\* Variant: the close frame does not wait for the queue.
CloseAtOnce ==
  /\ ~finished /\ ~closing /\ stage # "new"
  /\ closing' = TRUE
  /\ IF open
     THEN /\ shutting' = TRUE /\ shut' = TRUE
          /\ UNCHANGED <<open, finished, writing, queue, timerVars, told>>
     ELSE Finish("own") /\ UNCHANGED <<writing, shutting, shut>>
  /\ UNCHANGED <<stage, reading, serverVars, given, gone>>

Close ==
  /\ ~finished /\ ~closing /\ stage # "new"
  /\ closing' = TRUE
  /\ IF open
     THEN DoWrite(queue, writing, TRUE) /\ UNCHANGED <<open, finished, timerVars, told>>
     ELSE Finish("own") /\ UNCHANGED <<writing, shutting, shut>>
  /\ UNCHANGED <<stage, reading, serverVars, given, gone>>

-------------------------------------------------------------------------------
(* Opening. *)

\* A handler that finds the connection finished does nothing.
HandlerDropped ==
  /\ finished /\ stage \in Opening
  /\ stage' = "over"
  /\ UNCHANGED <<loopVars, timerVars, serverVars, toldVars>>

\* The operation fails, or its time is up.
OpenFails ==
  /\ ~finished /\ stage \in Opening
  /\ stage' = "over"
  /\ Finish("none")
  /\ UNCHANGED <<closing, writing, reading, shutting, serverVars, given, gone, shut>>

OnResolve ==
  /\ ~finished /\ stage = "resolve"
  /\ stage' = "connect"
  /\ UNCHANGED <<loopVars, timerVars, serverVars, toldVars>>

OnConnect ==
  /\ ~finished /\ stage = "connect"
  /\ stage' \in {"tls", "handshake"}
  /\ UNCHANGED <<loopVars, timerVars, serverVars, toldVars>>

OnTlsHandshake ==
  /\ ~finished /\ stage = "tls"
  /\ stage' = "handshake"
  /\ UNCHANGED <<loopVars, timerVars, serverVars, toldVars>>

\* Variant: a connection that was closed meanwhile opens all the same.
OnHandshakeUnchecked ==
  /\ stage = "handshake"
  /\ stage' = "up"
  /\ open' = TRUE /\ reading' = TRUE
  /\ ping' = 1 /\ silence' = SilenceTimeout
  /\ UNCHANGED <<closing, finished, writing, queue, shutting, serverVars, toldVars>>

\* No user of the client registers OnOpen.
OnHandshake ==
  /\ ~finished /\ stage = "handshake"
  /\ stage' = "up"
  /\ open' = TRUE /\ reading' = TRUE
  /\ ping' = 1 /\ silence' = SilenceTimeout
  /\ UNCHANGED <<closing, finished, writing, queue, shutting, serverVars, toldVars>>

-------------------------------------------------------------------------------
(* Frames in and out. *)

\* Variant: text frames, which pongs are, do not count.
ResetSilenceTimerNot == UNCHANGED timerVars

ResetSilenceTimer ==
  /\ silence' = SilenceTimeout
  /\ UNCHANGED ping

\* A pong, and any other text, stays in the client.  What the user's function does with a
\* frame, it may as well do after the next read has been started: Close does not finish
\* a connection that is open.
OnFrame ==
  /\ reading /\ server = "up" /\ ~finished
  /\ owed' \in {owed, FALSE}
  /\ ResetSilenceTimer
  /\ UNCHANGED <<stage, loopVars, server, toldVars>>

OnReadError ==
  /\ reading /\ (finished \/ server \in {"closed", "lost"} \/ shut)
  /\ reading' = FALSE
  /\ Finish(IF server = "closed" \/ (shut /\ server = "up") THEN "server" ELSE IF closing THEN "own" ELSE "none")
  /\ UNCHANGED <<stage, closing, writing, shutting, serverVars, given, gone, shut>>

\* One frame at a time; the last one may be followed by the close frame.
OnWritten ==
  /\ writing /\ ~finished
  /\ DoWrite(Tail(queue), FALSE, closing)
  /\ gone' = IF Head(queue) = 0 THEN gone ELSE gone + 1
  /\ owed' = (owed \/ Head(queue) = 0)
  /\ UNCHANGED <<stage, open, closing, finished, reading, timerVars, server, given, told>>

OnWriteError ==
  /\ writing /\ (finished \/ server # "up")
  /\ writing' = FALSE
  /\ IF finished
     THEN queue' = <<>> /\ UNCHANGED <<open, finished, timerVars, told>>
     ELSE /\ finished' = TRUE /\ open' = FALSE
          /\ ping' = Off /\ silence' = Off /\ queue' = <<>>
          /\ told' = "none"
  /\ UNCHANGED <<stage, closing, reading, shutting, serverVars, given, gone, shut>>

\* The close handshake is done, has failed, or has timed out.
OnShut ==
  /\ shutting
  /\ shutting' = FALSE
  /\ Finish("own")
  /\ UNCHANGED <<stage, closing, writing, reading, serverVars, given, gone, shut>>

-------------------------------------------------------------------------------
(* Timers. *)

OnPing ==
  /\ ping = 0
  /\ IF closing
     THEN ping' = Off /\ UNCHANGED <<writing, queue, shutting, shut>>
     ELSE ping' = 1 /\ DoWrite(Append(queue, 0), writing, FALSE)
  /\ UNCHANGED <<stage, open, closing, finished, reading, silence, serverVars, given, gone, told>>

OnSilence ==
  /\ silence = 0
  /\ Finish("none")
  /\ UNCHANGED <<stage, closing, writing, reading, shutting, serverVars, given, gone, shut>>

\* A handler runs when it is due, and a server that is up keeps pace.
Prompt == ping # 0 /\ silence # 0 /\ (server = "up" => ~writing /\ ~owed /\ ~shutting)

Tick ==
  /\ open /\ Prompt
  /\ ping' = (IF ping = Off THEN Off ELSE ping - 1)
  /\ silence' = silence - 1
  /\ UNCHANGED <<stage, loopVars, serverVars, toldVars>>

\* The server closes, the connection breaks, or the server vanishes without a word.
ServerEnds ==
  /\ server = "up" /\ stage = "up"
  /\ server' \in {"closed", "lost", "vanished"}
  /\ owed' = FALSE
  /\ UNCHANGED <<stage, loopVars, timerVars, toldVars>>

-------------------------------------------------------------------------------

OpenEnds == HandlerDropped \/ OpenFails
WriteEnds == OnWritten \/ OnWriteError

SocketStep ==
  \/ Open \/ OnResolve \/ OnConnect \/ OnTlsHandshake \/ OnHandshake \/ OpenEnds
  \/ Send \/ WriteEnds \/ OnFrame \/ OnReadError
  \/ Close \/ OnShut
  \/ OnPing \/ OnSilence \/ Tick
  \/ ServerEnds
=============================================================================
