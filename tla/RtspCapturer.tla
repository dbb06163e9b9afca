------------------------------ MODULE RtspCapturer ------------------------------
(* A camera behind RTSP (capturer/rtsp_capturer.cpp): one thread opens the stream, *)
(* reads packets and gives them to the decoder, and opens the stream again when it *)
(* is lost.  The decoder outlives the connections, so each must begin with a key   *)
(* frame and with the parameter sets of that connection.                           *)
EXTENDS Naturals

CONSTANTS Layouts,     \* codec and size of a stream
          Unsupported, \* what no decoder takes
          MaxEpochs    \* bound: times that the camera starts

ASSUME RtspAssumption == Layouts # {} /\ Unsupported \notin Layouts /\ MaxEpochs \in Nat \ {0}

VARIABLES
  stage,  \* "new" inside Create, "on", "leaving" inside the destructor, "gone", "exit"
  at,     \* the thread: "open", "wait", "top" of ReadPacket, "read"
  link,   \* the camera's epoch in which fmt_ctx_ was opened, or 0
  layout, \* stream_
  keyed,  \* has_first_keyframe_
  sets,   \* the epoch that stream_.parameter_sets are from, or 0 if they come in the packets
  up,     \* the camera answers,
  epoch,  \*   has started so often,
  offers, \*   and sends this
  given,    \* history: the epoch of the last packet that the decoder had
  primed, \* history: the epoch of the last key frame that it had with its parameter sets
  missed  \* history: the epochs whose first key frame it did not take

cameraVars == <<up, epoch, offers>>
rtspVars == <<stage, at, link, layout, keyed, sets, cameraVars, given, primed, missed>>

RtspTypeOK ==
  /\ stage \in {"new", "on", "leaving", "gone", "exit"} /\ at \in {"open", "wait", "top", "read"}
  /\ link \in 0..MaxEpochs /\ sets \in 0..MaxEpochs /\ epoch \in 1..MaxEpochs
  /\ given \in 0..MaxEpochs /\ primed \in 0..MaxEpochs /\ missed \subseteq 1..MaxEpochs
  /\ layout \in Layouts \cup {Unsupported} /\ offers \in Layouts \cup {Unsupported}
  /\ keyed \in BOOLEAN /\ up \in BOOLEAN

RtspInit ==
  /\ stage = "new" /\ at = "open" /\ link = 0 /\ layout = Unsupported /\ keyed = FALSE /\ sets = 0
  /\ up \in BOOLEAN /\ epoch = 1 /\ offers \in Layouts \cup {Unsupported}
  /\ given = 0 /\ primed = 0 /\ missed = {}

\* Variant: the next connection may begin in the middle of a picture.
CloseKeepsKey == link' = 0 /\ UNCHANGED keyed

Close == link' = 0 /\ keyed' = FALSE

-------------------------------------------------------------------------------
(* Open, by Initialize and by Reconnect. *)

\* Initialize takes what it finds, Reconnect only what it had before.
Fits == IF stage = "new" THEN offers # Unsupported ELSE offers = layout

Opens ==
  /\ at = "open" /\ up /\ Fits
  /\ at' = "top" /\ link' = epoch
  /\ sets' \in {0, epoch}
  /\ IF stage = "new"
     THEN stage' = "on" /\ layout' = offers
     ELSE UNCHANGED <<stage, layout>>
  /\ UNCHANGED <<keyed, cameraVars, given, primed, missed>>

\* The stream has changed, or was never one to follow.
GivesUp ==
  /\ at = "open" /\ up /\ ~Fits
  /\ stage' = "exit" /\ at' = "top"
  /\ UNCHANGED <<link, layout, keyed, sets, cameraVars, given, primed, missed>>

\* No camera, or Interrupt.
OpenFails ==
  /\ at = "open" /\ (~up \/ stage = "leaving")
  /\ Close
  /\ at' = IF stage = "new" THEN "wait" ELSE "top"
  /\ UNCHANGED <<stage, layout, sets, cameraVars, given, primed, missed>>

WaitToRetry ==
  /\ at = "wait"
  /\ at' = IF stage = "leaving" THEN "top" ELSE "open"
  /\ UNCHANGED <<stage, link, layout, keyed, sets, cameraVars, given, primed, missed>>

-------------------------------------------------------------------------------
(* ReadPacket, in a loop of the worker. *)

ReadPacket ==
  /\ stage = "on" /\ at = "top"
  /\ at' = IF link = 0 THEN "wait" ELSE "read"
  /\ UNCHANGED <<stage, link, layout, keyed, sets, cameraVars, given, primed, missed>>

\* EmplaceBuffer, whose refusal (no free input, or a packet too large for one) is not looked at.
Give(primes) ==
  \/ given' = link /\ primed' = (IF primes THEN link ELSE primed) /\ UNCHANGED missed
  \/ missed' = (IF keyed THEN missed ELSE missed \cup {link}) /\ UNCHANGED <<given, primed>>

\* Packets before the first key frame are dropped; that one gets the parameter sets in front.
OnPacket ==
  /\ at = "read" /\ up /\ link = epoch
  /\ at' = "top"
  /\ \E isKey \in BOOLEAN :
       IF keyed \/ isKey
       THEN keyed' = TRUE /\ Give(isKey /\ sets \in (IF keyed THEN {0} ELSE {0, link}))
       ELSE UNCHANGED <<keyed, given, primed, missed>>
  /\ UNCHANGED <<stage, link, layout, sets, cameraVars>>

\* Variant: the lost stream is read again and again.
OnLostStays ==
  /\ at = "read" /\ (~up \/ link # epoch \/ stage = "leaving")
  /\ at' = "top"
  /\ UNCHANGED <<stage, link, keyed, layout, sets, cameraVars, given, primed, missed>>

\* The camera is gone, or silent for five seconds, or Interrupt.
OnLost ==
  /\ at = "read" /\ (~up \/ link # epoch \/ stage = "leaving")
  /\ at' = "top"
  /\ Close
  /\ UNCHANGED <<stage, layout, sets, cameraVars, given, primed, missed>>

-------------------------------------------------------------------------------

\* The destructor sets stopping_ ...
RtspStops ==
  /\ stage = "on"
  /\ stage' = "leaving"
  /\ UNCHANGED <<at, link, layout, keyed, sets, cameraVars, given, primed, missed>>

\* ... and joins the worker.
RtspJoined ==
  /\ stage = "leaving" /\ at = "top"
  /\ stage' = "gone"
  /\ Close
  /\ UNCHANGED <<at, layout, sets, cameraVars, given, primed, missed>>

CameraDrops ==
  /\ up
  /\ up' = FALSE
  /\ UNCHANGED <<stage, at, link, layout, keyed, sets, epoch, offers, given, primed, missed>>

CameraReturns ==
  /\ ~up /\ epoch < MaxEpochs
  /\ up' = TRUE /\ epoch' = epoch + 1
  /\ offers' \in Layouts \cup {Unsupported}
  /\ UNCHANGED <<stage, at, link, layout, keyed, sets, given, primed, missed>>

RtspRuns == stage \notin {"gone", "exit"}
RtspThread == RtspRuns /\ (Opens \/ GivesUp \/ OpenFails \/ WaitToRetry \/ ReadPacket \/ OnPacket \/ OnLost \/ RtspJoined)
RtspStep == RtspThread \/ (RtspRuns /\ (RtspStops \/ CameraDrops \/ CameraReturns))

-------------------------------------------------------------------------------

\* "The decoder stays: the first packet is a keyframe carrying the parameter sets", whatever
\* was read before the stream was lost (rtsp_capturer.cpp:194, ReadPacket and Close); unless
\* EmplaceBuffer refused that key frame of this connection, since has_first_keyframe_ is set
\* before it is called.
DecoderPrimed == RtspTypeOK /\ (primed = given \/ given \in missed)

\* A stream that is lost is opened again while there is a camera (Reconnect), and the
\* destructor returns (Interrupt, WaitToRetry).
StreamReturns ==
  /\ (stage = "on" /\ link = 0) ~> (link # 0 \/ ~up \/ stage # "on")
  /\ (stage = "on" /\ link # epoch) ~> (link = epoch \/ ~up \/ stage # "on")
  /\ (stage = "leaving") ~> (stage # "leaving")
=============================================================================
