---------------------------- MODULE LibcameraCapturer ----------------------------
(* The requests of a libcamera capturer (capturer/libcamera_capturer.cpp) go round *)
(* between the camera and RequestComplete, on the camera's thread; another thread   *)
(* changes controls, which the next request to be queued takes along.               *)
EXTENDS Naturals, Sequences, FiniteSets

CONSTANTS Requests,    \* a request has a buffer of every stream
          Streams,     \* how many streams there are
          MaxControls, \* bound: calls of SetControls
          NoRequest

ASSUME LibcameraAssumption ==
  Streams \in Nat \ {0} /\ MaxControls \in Nat /\ IsFiniteSet(Requests) /\ NoRequest \notin Requests

VARIABLES
  queued,   \* requests at the camera, in order
  request,  \* the one that RequestComplete has
  streamAt, \* the stream that it looks at
  frames,   \* frame_buffer of each stream: the request whose buffer it shows
  controls, \* controls_: the number of the last change
  updated,  \* is_controls_updated_
  carries,  \* the change that each request carries, or 0
  applied   \* the change that the camera has applied last

libcameraVars == <<queued, request, streamAt, frames, controls, updated, carries, applied>>

LibcameraTypeOK ==
  /\ queued \in Seq(Requests) /\ request \in Requests \cup {NoRequest} /\ streamAt \in 1..Streams + 1
  /\ frames \in [1..Streams -> Requests \cup {NoRequest}]
  /\ controls \in 0..MaxControls /\ applied \in 0..MaxControls /\ updated \in BOOLEAN
  /\ carries \in [Requests -> 0..MaxControls]

\* StartCapture has queued every request.
LibcameraInit(order) ==
  /\ queued = order /\ request = NoRequest /\ streamAt = 1
  /\ frames = [s \in 1..Streams |-> NoRequest]
  /\ controls = 0 /\ updated = FALSE
  /\ carries = [r \in Requests |-> 0] /\ applied = 0

SetControls ==
  /\ controls < MaxControls
  /\ controls' = controls + 1 /\ updated' = TRUE
  /\ UNCHANGED <<queued, request, streamAt, frames, carries, applied>>

\* The camera has filled a request, with the controls that it carried.
Completes ==
  /\ request = NoRequest /\ queued # <<>>
  /\ request' = Head(queued) /\ queued' = Tail(queued)
  /\ streamAt' = 1
  /\ applied' = IF carries[Head(queued)] = 0 THEN applied ELSE carries[Head(queued)]
  /\ UNCHANGED <<frames, controls, updated, carries>>

RequestComplete ==
  /\ request # NoRequest /\ streamAt <= Streams
  /\ frames' = [frames EXCEPT ![streamAt] = request]
  /\ streamAt' = streamAt + 1
  /\ UNCHANGED <<queued, request, controls, updated, carries, applied>>

\* Variant: a request that is used again keeps the controls that it had.
RequeueKeeps ==
  /\ request # NoRequest /\ streamAt > Streams
  /\ carries' = IF updated THEN [carries EXCEPT ![request] = controls] ELSE carries
  /\ updated' = FALSE
  /\ queued' = Append(queued, request) /\ request' = NoRequest /\ streamAt' = 1
  /\ UNCHANGED <<frames, controls, applied>>

\* reuse() forgets the controls; what has changed since the last request goes with this one.
RequeueRequest ==
  /\ request # NoRequest /\ streamAt > Streams
  /\ carries' = [carries EXCEPT ![request] = IF updated THEN controls ELSE 0]
  /\ updated' = FALSE
  /\ queued' = Append(queued, request) /\ request' = NoRequest /\ streamAt' = 1
  /\ UNCHANGED <<frames, controls, applied>>

LibcameraThread == Completes \/ RequestComplete \/ RequeueRequest
LibcameraStep == SetControls \/ LibcameraThread

-------------------------------------------------------------------------------

\* An observer reads a picture that the camera does not write to meanwhile, and all streams of a
\* frame come from one request (RequestComplete).
PicturesStand ==
  /\ LibcameraTypeOK
  /\ request # NoRequest =>
       /\ \A i \in DOMAIN queued : queued[i] # request
       /\ \A s \in 1..streamAt - 1 : frames[s] = request

\* However many requests are in flight, a control never goes back to a value that was
\* replaced (SetControls, RequestComplete).
ControlsInOrder == [][applied' >= applied]_libcameraVars

\* That, and the last value reaches the camera.
ControlsArrive ==
  /\ ControlsInOrder
  /\ \A n \in 1..MaxControls : (controls = n) ~> (applied >= n)
=============================================================================
