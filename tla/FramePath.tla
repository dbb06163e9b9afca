-------------------------------- MODULE FramePath --------------------------------
(* What a frame meets on its way, one codec at a time.                             *)
(*   "decoder": V4L2Capturer's thread feeds it; each picture is handed to the       *)
(*       subscribers of the stream, who come and go on other threads.               *)
(*   "scaler": V4L2DmaTrackSource adapts frames on the capturer's thread: one is    *)
(*       dropped, goes straight on, or goes through a scaler of its size.           *)
(*   "encoder": libwebrtc's encoder thread calls V4L2H264Encoder through            *)
(*       TracingVideoEncoder, and gets the pictures on the codec's worker.          *)
EXTENDS V4L2Codec

CONSTANTS Roles,       \* the paths that are looked at
          Observers,   \* the subscriptions that are ever made to a stream
          Sizes,       \* what frames are scaled to
          MaxSessions, \* bound: times that the encoder is initialized
          Nothing

ASSUME FramePathAssumption == MaxSessions \in Nat /\ IsFiniteSet(Observers) /\ Nothing \notin Sizes \cup {"direct"}

VARIABLES
  role,
  started,    \* has_first_keyframe_
  latest,     \* frame_buffer_ of the capturer
  subscribed, \* observers_ of stream_subject_
  gone,       \* subscriptions that have ended
  calling,    \* observers that Next has yet to call
  late,       \* history: calls of an observer after its subscription has ended
  size,       \* config_width_ and config_height_ of the track
  wanted,     \* what the track does with the frame that it waits for the old scaler with
  sent,       \* the last frame given to OnFrame
  session,    \* sessions of the encoder that were begun
  registered, \* callback_ of V4L2H264Encoder is set
  loaded,     \* SendFrame has seen it set
  encoding    \* libwebrtc is between InitEncode and the return of Release

streamVars == <<started, latest, subscribed, gone, calling, late>>
trackVars == <<size, wanted, sent>>
encoderVars == <<session, registered, loaded, encoding>>
frameVars == <<role, codecVars, streamVars, trackVars, encoderVars>>

TypeOK ==
  /\ CodecTypeOK
  /\ role \in Roles
  /\ started \in BOOLEAN
  /\ latest \in Frames
  /\ subscribed \in SUBSET Observers /\ gone \in SUBSET Observers /\ calling \in SUBSET Observers
  /\ late \in [Observers -> Nat]
  /\ size \in Sizes \cup {Nothing} /\ wanted \in Sizes \cup {"direct", Nothing}
  /\ sent \in Frames /\ session \in 0..MaxSessions
  /\ registered \in BOOLEAN /\ loaded \in BOOLEAN /\ encoding \in BOOLEAN

Orders == {order \in [1..Cardinality(Buffers) -> Buffers] : \A i, j \in DOMAIN order : i # j => order[i] # order[j]}

\* A buffer is like any other: one order will do.
Order == CHOOSE order \in Orders : TRUE

FrameInit ==
  /\ role \in Roles
  /\ CodecInit
  /\ started = FALSE /\ latest = 0
  /\ subscribed = {} /\ gone = {} /\ calling = {} /\ late = [o \in Observers |-> 0]
  /\ size = Nothing /\ wanted = Nothing /\ sent = 0
  /\ session = 0 /\ registered = FALSE /\ loaded = FALSE /\ encoding = FALSE

Emplace == filling' = "pop" /\ UNCHANGED <<free, tasks>>

-------------------------------------------------------------------------------
(* V4L2Capturer and Subject. *)

CreateDecoder == Start(Order)

\* The decoder is made once, before the worker that captures.
StartCapture ==
  /\ role = "decoder" /\ codec = "none" /\ frame = 0
  /\ CreateDecoder
  /\ UNCHANGED <<filling, frame, faults, streamVars>>

\* Frames before the first key frame go back to the camera.
CaptureImage ==
  /\ role = "decoder" /\ codec = "on" /\ filling = "idle" /\ frame < MaxFrames
  /\ frame' = frame + 1
  /\ \E isKey \in BOOLEAN :
       /\ started' = (started \/ isKey)
       /\ IF started' THEN Emplace ELSE UNCHANGED <<filling, free, tasks>>
  /\ UNCHANGED <<codec, driverVars, workerVars, slips, faults, latest, subscribed, gone, calling, late>>

\* The thread that captures has ended before the decoder is destroyed.
EndCapture ==
  /\ role = "decoder" /\ filling = "idle"
  /\ Destroy
  /\ UNCHANGED <<inputVars, driverVars, workerVars, slips, faults, streamVars>>

Subscribe(o) ==
  /\ role = "decoder" /\ o \notin subscribed \cup gone
  /\ subscribed' = subscribed \cup {o}
  /\ UNCHANGED <<codecVars, started, latest, gone, calling, late>>

\* Variant: the observer stays in the list.
UnsubscribeLeaves(o) ==
  /\ role = "decoder" /\ o \in subscribed \ gone
  /\ gone' = gone \cup {o}
  /\ UNCHANGED <<codecVars, started, latest, subscribed, calling, late>>

Unsubscribe(o) ==
  /\ role = "decoder" /\ o \in subscribed
  /\ subscribed' = subscribed \ {o}
  /\ gone' = gone \cup {o}
  /\ UNCHANGED <<codecVars, started, latest, calling, late>>

\* The task of a picture: it becomes the latest one, and Next takes a snapshot.
Publish ==
  /\ role = "decoder" /\ worker = "task" /\ latest # task
  /\ latest' = task
  /\ calling' = subscribed
  /\ UNCHANGED <<codecVars, started, subscribed, gone, late>>

CallObserver ==
  /\ role = "decoder" /\ worker = "task" /\ latest = task
  /\ \E o \in calling :
       /\ calling' = calling \ {o}
       /\ late' = IF o \in gone THEN [late EXCEPT ![o] = @ + 1] ELSE late
  /\ UNCHANGED <<codecVars, started, latest, subscribed, gone>>

NextReturns ==
  /\ role = "decoder" /\ worker = "task" /\ latest = task /\ calling = {}
  /\ TaskReturns
  /\ UNCHANGED <<codec, inputVars, driverVars, slips, faults, streamVars>>

StreamStep ==
  \/ StartCapture \/ CaptureImage \/ EndCapture
  \/ \E o \in Observers : Subscribe(o) \/ Unsubscribe(o)
  \/ Publish \/ CallObserver \/ NextReturns

-------------------------------------------------------------------------------
(* V4L2DmaTrackSource. *)

\* Frames that AdaptFrame drops are frames that this skips.
OnFrameCaptured ==
  /\ role = "scaler" /\ wanted = Nothing /\ filling = "idle" /\ frame < MaxFrames
  /\ frame' \in (frame + 1)..MaxFrames
  /\ wanted' \in Sizes \cup {"direct"}
  /\ UNCHANGED <<codec, free, filling, tasks, driverVars, workerVars, slips, faults, size, sent>>

\* Another size is wanted, or none, and there is a scaler.
DropScaler ==
  /\ role = "scaler" /\ wanted # Nothing /\ codec = "on" /\ wanted # size
  /\ Destroy
  /\ UNCHANGED <<inputVars, driverVars, workerVars, slips, faults, trackVars>>

\* Variant: the scaler stays when a frame goes straight on.
OnFrameDirectKeeps ==
  /\ role = "scaler" /\ wanted = "direct"
  /\ sent' = frame /\ wanted' = Nothing
  /\ UNCHANGED <<codecVars, size>>

OnFrameDirect ==
  /\ role = "scaler" /\ wanted = "direct" /\ codec = "none"
  /\ sent' = frame /\ wanted' = Nothing
  /\ UNCHANGED <<codecVars, size>>

\* A scaler that cannot be made leaves the track without one, until the next frame.
CreateScaler ==
  \/ Start(Order) /\ UNCHANGED <<filling, frame, faults, wanted>>
  \/ /\ faults < MaxFaults
     /\ faults' = faults + 1 /\ wanted' = Nothing
     /\ UNCHANGED <<codec, inputVars, driverVars, workerVars, slips>>

NewScaler ==
  /\ role = "scaler" /\ wanted \in Sizes /\ codec = "none"
  /\ size' = wanted
  /\ CreateScaler
  /\ UNCHANGED sent

Scale ==
  /\ role = "scaler" /\ wanted \in Sizes /\ codec = "on" /\ wanted = size
  /\ Emplace /\ wanted' = Nothing
  /\ UNCHANGED <<codec, frame, driverVars, workerVars, slips, faults, size, sent>>

\* The task of a scaled picture.
OnScaled ==
  /\ role = "scaler" /\ worker = "task"
  /\ sent' = task
  /\ TaskReturns
  /\ UNCHANGED <<codec, inputVars, driverVars, slips, faults, size, wanted>>

TrackStep == OnFrameCaptured \/ DropScaler \/ OnFrameDirect \/ NewScaler \/ Scale \/ OnScaled

-------------------------------------------------------------------------------
(* V4L2H264Encoder behind TracingVideoEncoder. *)

\* InitEncode and RegisterEncodeCompleteCallback.
InitEncode ==
  /\ role = "encoder" /\ ~encoding /\ session < MaxSessions
  /\ encoding' = TRUE /\ registered' = TRUE
  /\ session' = session + 1
  /\ UNCHANGED <<codecVars, loaded>>

CreateEncoder == Start(Order)

\* The codec is made for the first frame; libwebrtc skips frames when it is late.
Encode ==
  /\ role = "encoder" /\ registered /\ filling = "idle" /\ frame < MaxFrames
  /\ frame' \in (frame + 1)..MaxFrames
  /\ filling' = "pop"
  /\ IF codec = "none"
     THEN CreateEncoder /\ UNCHANGED faults
     ELSE UNCHANGED <<codec, free, tasks, driverVars, workerVars, slips, faults>>
  /\ UNCHANGED encoderVars

\* The callback is cleared, and the codec destroyed if there is one.
Release ==
  /\ role = "encoder" /\ registered /\ filling = "idle"
  /\ registered' = FALSE
  /\ IF codec = "on" THEN Destroy ELSE UNCHANGED codec
  /\ UNCHANGED <<inputVars, driverVars, workerVars, slips, faults, session, loaded, encoding>>

Released ==
  /\ role = "encoder" /\ encoding /\ ~registered /\ codec = "none"
  /\ encoding' = FALSE
  /\ UNCHANGED <<codecVars, session, registered, loaded>>

\* SendFrame looks at the callback once ...
SendFrame ==
  /\ role = "encoder" /\ worker = "task" /\ ~loaded
  /\ IF registered
     THEN loaded' = TRUE /\ UNCHANGED workerVars
     ELSE TaskReturns /\ UNCHANGED loaded
  /\ UNCHANGED <<codec, inputVars, driverVars, slips, faults, session, registered, encoding>>

\* ... and calls it.
OnEncodedImage ==
  /\ role = "encoder" /\ worker = "task" /\ loaded
  /\ loaded' = FALSE
  /\ TaskReturns
  /\ UNCHANGED <<codec, inputVars, driverVars, slips, faults, session, registered, encoding>>

EncoderStep == InitEncode \/ Encode \/ Release \/ Released \/ SendFrame \/ OnEncodedImage

-------------------------------------------------------------------------------

OnCodec(A) == A /\ UNCHANGED <<role, streamVars, trackVars, encoderVars>>
OnStream(A) == A /\ UNCHANGED <<role, trackVars, encoderVars>>
OnTrack(A) == A /\ UNCHANGED <<role, streamVars, encoderVars>>
OnEncoder(A) == A /\ UNCHANGED <<role, streamVars, trackVars>>

FrameNext ==
  \/ OnCodec(CodecStep \/ (role = "decoder" /\ SourceChange))
  \/ OnStream(StreamStep) \/ OnTrack(TrackStep) \/ OnEncoder(EncoderStep)

-------------------------------------------------------------------------------
(* Properties. *)

Taken == IF filling = "index" THEN 1 ELSE 0
ToSet(s) == {s[i] : i \in DOMAIN s}

\* Every input buffer is free, being filled, or with the driver, and a capture buffer is in one
\* place only.  Unless a picture went without a task or a task without a picture, a task runs on
\* the picture of its own frame, which the driver does not write to meanwhile (EmplaceBuffer and
\* CaptureBuffer, on their threads).
BuffersKept ==
  /\ TypeOK
  /\ codec = "on" => free + Taken + lent + spent = Inputs
  /\ Cardinality(ToSet(empties) \cup ToSet(full) \cup {buffer}) =
       Cardinality({buffer}) + Len(empties) + Len(full)
  /\ worker = "task" /\ slips = 0 => picture[buffer] = task

\* An observer is called at most once after its subscription has ended (Next), and no picture
\* reaches libwebrtc after Release has returned, however late it was.
CallsEnd ==
  /\ \A o \in Observers : late[o] <= 1
  /\ role = "encoder" /\ worker = "task" => encoding

\* OnFrame gets frames in the order of their capture, whichever way they go.
FramesInOrder == [][sent' = sent \/ sent' > sent]_frameVars

\* A frame given to a codec gives its buffer back, while the driver has a buffer to write to;
\* and a destructor returns.
BuffersReturn ==
  /\ (codec = "on") ~> (free = Inputs \/ codec # "on" \/ changed \/ faults > 0)
  /\ (codec = "leaving") ~> (codec = "none")
=============================================================================
