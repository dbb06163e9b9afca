-------------------------------- MODULE RtcChannel --------------------------------
(* The data channels of one peer (rtc/datachannel/rtc_channel.cpp): for each role *)
(* a queue of frames that other threads fill and a send thread that empties it,  *)
(* and the thread that ends the peer and terminates its channels one by one.     *)
(* Frames are numbered in the order they are queued.  A send thread that found   *)
(* nothing to do holds the lock until it sleeps ("dozing"), and only a notified  *)
(* thread wakes.                                                                 *)
EXTENDS Naturals, Sequences

CONSTANTS Roles,       \* roles of the peer's channels, in the order of ChannelRole
          MaxBuffered, \* MaxSendQueueSize, in frames
          NoFrame

ASSUME RoleNamesAssumption == Roles \in Seq(STRING)
ASSUME BufferedAssumption == MaxBuffered \in Nat \ {0}
ASSUME NoFrameAssumption == NoFrame \notin Nat

Role == {Roles[i] : i \in 1..Len(Roles)}

VARIABLES
  dc,         \* state of each libwebrtc channel
  observed,   \* the channel is registered as its observer
  sending,    \* send_thread_running_
  queue,      \* send_queue_
  sender,     \* where each send thread is
  frame,      \* the frame it has taken from the queue
  pushed,     \* frames queued so far
  sent,       \* frames given to libwebrtc, in order
  buffered,   \* of those, the ones still in libwebrtc's buffer
  terminator, \* where the thread is that ends the peer
  role, \* the channel it is terminating, by its place in Roles
  missed      \* channels whose send thread was told to stop just before it slept

queueVars == <<sending, queue, sender, frame, pushed, sent, buffered>>
endVars == <<terminator, role, missed>>
channelVars == <<dc, observed, queueVars, endVars>>

ChannelTypeOK ==
  /\ dc \in [Role -> {"connecting", "open", "closed"}]
  /\ observed \in [Role -> BOOLEAN]
  /\ sending \in [Role -> BOOLEAN]
  /\ queue \in [Role -> Seq(Nat)]
  /\ sender \in [Role -> {"check", "dozing", "asleep", "holding", "ended"}]
  /\ frame \in [Role -> Nat \cup {NoFrame}]
  /\ pushed \in [Role -> Nat]
  /\ sent \in [Role -> Seq(Nat)]
  /\ buffered \in [Role -> 0..MaxBuffered]
  /\ terminator \in {"off", "stop", "join", "close", "closed", "destroy", "done"}
  /\ role \in 1..Len(Roles) + 1
  /\ missed \in SUBSET Role

\* The channels are made with the peer (RtcPeer::AddChannel).
ChannelInit ==
  /\ dc = [r \in Role |-> "connecting"]
  /\ observed = [r \in Role |-> TRUE]
  /\ sending = [r \in Role |-> TRUE]
  /\ queue = [r \in Role |-> <<>>]
  /\ sender = [r \in Role |-> "check"]
  /\ frame = [r \in Role |-> NoFrame]
  /\ pushed = [r \in Role |-> 0]
  /\ sent = [r \in Role |-> <<>>]
  /\ buffered = [r \in Role |-> 0]
  /\ terminator = "off" /\ role = 1 /\ missed = {}

-------------------------------------------------------------------------------
(* libwebrtc. *)

\* The channels of a peer open together, when their common transport is up.
OnTransportReady ==
  /\ \A r \in Role : dc[r] = "connecting"
  /\ dc' = [r \in Role |-> "open"]
  /\ UNCHANGED <<observed, queueVars, endVars>>

\* The peer connection is closed, by the other side, or by a disconnect request.
CloseConnection ==
  /\ \E r \in Role : dc[r] # "closed"
  /\ dc' = [r \in Role |-> "closed"]
  /\ UNCHANGED <<observed, queueVars, endVars>>

Drain(r) ==
  /\ buffered[r] > 0
  /\ buffered' = [buffered EXCEPT ![r] = @ - 1]
  /\ UNCHANGED <<dc, observed, sending, queue, sender, frame, pushed, sent, endVars>>

-------------------------------------------------------------------------------
(* The queue and its thread. *)

\* Variant: the send thread is not notified.
SendBytesQuietly(r, n) ==
  /\ sender[r] # "dozing"
  /\ queue' = [queue EXCEPT ![r] = @ \o [i \in 1..n |-> pushed[r] + i]]
  /\ pushed' = [pushed EXCEPT ![r] = @ + n]
  /\ UNCHANGED <<dc, observed, sending, sender, frame, sent, buffered, endVars>>

\* The n frames of one message; none but the caller fills this queue meanwhile.
SendBytes(r, n) ==
  /\ sender[r] # "dozing"
  /\ queue' = [queue EXCEPT ![r] = @ \o [i \in 1..n |-> pushed[r] + i]]
  /\ pushed' = [pushed EXCEPT ![r] = @ + n]
  /\ sender' = [sender EXCEPT ![r] = IF @ = "asleep" THEN "check" ELSE @]
  /\ UNCHANGED <<dc, observed, sending, frame, sent, buffered, endVars>>

\* The wait's predicate, under the lock, and what follows it.
TakeFrame(r) ==
  /\ sender[r] = "check"
  /\ IF queue[r] # <<>>
     THEN /\ frame' = [frame EXCEPT ![r] = Head(queue[r])]
          /\ queue' = [queue EXCEPT ![r] = Tail(@)]
          /\ sender' = [sender EXCEPT ![r] = "holding"]
     ELSE /\ sender' = [sender EXCEPT ![r] = IF sending[r] THEN "dozing" ELSE "ended"]
          /\ UNCHANGED <<frame, queue>>
  /\ UNCHANGED <<dc, observed, sending, pushed, sent, buffered, endVars>>

Sleep(r) ==
  /\ sender[r] = "dozing"
  /\ sender' = [sender EXCEPT ![r] = "asleep"]
  /\ UNCHANGED <<dc, observed, sending, queue, frame, pushed, sent, buffered, endVars>>

\* Variant: a full buffer drops the frame.
SendFrameOrDrop(r) ==
  /\ sender[r] = "holding" /\ sending[r] /\ dc[r] = "open"
  /\ IF buffered[r] < MaxBuffered
     THEN /\ sent' = [sent EXCEPT ![r] = Append(@, frame[r])]
          /\ buffered' = [buffered EXCEPT ![r] = @ + 1]
     ELSE UNCHANGED <<sent, buffered>>
  /\ frame' = [frame EXCEPT ![r] = NoFrame]
  /\ sender' = [sender EXCEPT ![r] = "check"]
  /\ UNCHANGED <<dc, observed, sending, queue, pushed, endVars>>

\* While the buffer is full the thread looks again every millisecond.
SendFrame(r) ==
  /\ sender[r] = "holding" /\ sending[r] /\ dc[r] = "open"
  /\ buffered[r] < MaxBuffered
  /\ sent' = [sent EXCEPT ![r] = Append(@, frame[r])]
  /\ buffered' = [buffered EXCEPT ![r] = @ + 1]
  /\ frame' = [frame EXCEPT ![r] = NoFrame]
  /\ sender' = [sender EXCEPT ![r] = "check"]
  /\ UNCHANGED <<dc, observed, sending, queue, pushed, endVars>>

\* Told to stop, or the channel is not open: the frame is dropped and the thread ends.
GiveUp(r) ==
  /\ sender[r] = "holding" /\ (~sending[r] \/ dc[r] # "open")
  /\ frame' = [frame EXCEPT ![r] = NoFrame]
  /\ sender' = [sender EXCEPT ![r] = "ended"]
  /\ UNCHANGED <<dc, observed, sending, queue, pushed, sent, buffered, endVars>>

SendLoop(r) == TakeFrame(r) \/ Sleep(r) \/ SendFrame(r) \/ GiveUp(r)

-------------------------------------------------------------------------------
(* Terminate, on the thread that ends the peer. *)

\* RtcPeer::Terminate closes the connection before its channels.
TerminatePeer ==
  /\ terminator = "off"
  /\ terminator' = "stop"
  /\ dc' = [r \in Role |-> "closed"]
  /\ UNCHANGED <<observed, queueVars, role, missed>>

\* Variant: the send thread is not notified.
StopSendThreadQuietly ==
  /\ terminator = "stop"
  /\ sending' = [sending EXCEPT ![Roles[role]] = FALSE]
  /\ terminator' = "join"
  /\ UNCHANGED <<dc, observed, queue, sender, frame, pushed, sent, buffered, role, missed>>

\* StopSendThread: the flag and the notification, without the lock.  A thread that is
\* about to sleep gets neither.
StopSendThread ==
  /\ terminator = "stop"
  /\ LET r == Roles[role] IN
     /\ sending' = [sending EXCEPT ![r] = FALSE]
     /\ sender' = [sender EXCEPT ![r] = IF @ = "asleep" THEN "check" ELSE @]
     /\ missed' = IF sender[r] = "dozing" THEN missed \cup {r} ELSE missed
  /\ terminator' = "join"
  /\ UNCHANGED <<dc, observed, queue, frame, pushed, sent, buffered, role>>

JoinSendThread ==
  /\ terminator = "join" /\ sender[Roles[role]] = "ended"
  /\ terminator' = "close"
  /\ UNCHANGED <<dc, observed, queueVars, role, missed>>

\* No callback of the channel runs from here on.
UnregisterObserver ==
  /\ terminator = "close"
  /\ observed' = [observed EXCEPT ![Roles[role]] = FALSE]
  /\ terminator' = "closed"
  /\ UNCHANGED <<dc, queueVars, role, missed>>

\* The OnClosed functions have run; the channels are destroyed once all are terminated.
NextChannel ==
  /\ role' = IF role = Len(Roles) THEN 1 ELSE role + 1
  /\ terminator' = IF role = Len(Roles) THEN "destroy" ELSE "stop"
  /\ UNCHANGED <<dc, observed, queueVars, missed>>

-------------------------------------------------------------------------------
(* Properties. *)

\* What a viewer gets is what was queued, in order and without a gap, up to where the
\* channel ended: a full buffer delays frames, and a stop drops only what comes after
\* the last one sent (SendLoop, Terminate).
InOrder ==
  \A r \in Role :
    /\ sent[r] = [i \in 1..Len(sent[r]) |-> i]
    /\ sender[r] # "ended" =>
         sent[r] \o (IF frame[r] = NoFrame THEN <<>> ELSE <<frame[r]>>) \o queue[r] = [i \in 1..pushed[r] |-> i]

\* A send thread never sleeps over a frame (SendBytes, SendLoop).
NeverSleepsOverFrame == \A r \in Role : sender[r] \in {"dozing", "asleep"} => queue[r] = <<>>

\* Once a channel is terminated its thread has ended, so nothing uses it any more.
TerminatedIsQuiet == \A r \in Role : ~observed[r] => sender[r] = "ended" /\ ~sending[r]

ChannelInv == ChannelTypeOK /\ InOrder /\ NeverSleepsOverFrame /\ TerminatedIsQuiet
=============================================================================
