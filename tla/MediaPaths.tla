-------------------------------- MODULE MediaPaths --------------------------------
(* The devices and what hangs on them, one at a time: the three owners of a codec    *)
(* (FramePath), and the capturers and the player that have a protocol of their own.  *)
EXTENDS FramePath, RtspCapturer, LibcameraCapturer, AudioBridge

vars == <<frameVars, rtspVars, libcameraVars, audioVars>>

RequestOrder == CHOOSE order \in [1..Cardinality(Requests) -> Requests] : \A i, j \in DOMAIN order : i # j => order[i] # order[j]

\* What is not looked at has one initial state.
Init ==
  /\ FrameInit /\ RtspInit /\ LibcameraInit(RequestOrder) /\ AudioInit
  /\ role # "rtsp" => up /\ offers = Unsupported
  /\ role # "audio" => backend = "alsa"

Frame(A) == A /\ UNCHANGED <<rtspVars, libcameraVars, audioVars>>
Rtsp(A) == role = "rtsp" /\ A /\ UNCHANGED <<frameVars, libcameraVars, audioVars>>
Libcamera(A) == role = "libcamera" /\ A /\ UNCHANGED <<frameVars, rtspVars, audioVars>>
Audio(A) == role = "audio" /\ A /\ UNCHANGED <<frameVars, rtspVars, libcameraVars>>

Next == Frame(FrameNext) \/ Rtsp(RtspStep) \/ Libcamera(LibcameraStep) \/ Audio(AudioStep)

\* Threads go on, drivers and cameras work, and functions that are called return; no frame has
\* to come, and no one has to end anything.
Fairness ==
  /\ WF_vars(Frame(OnCodec(EmplaceBuffer))) /\ WF_vars(Frame(OnCodec(Process)))
  /\ WF_vars(Frame(OnCodec(Done)))
  /\ WF_vars(Frame(OnCodec(DequeueInput))) /\ WF_vars(Frame(OnCodec(Leave)))
  /\ WF_vars(Frame(OnCodec(DequeueCapture \/ PopTask \/ Requeue \/ WorkerEnds)))
  /\ WF_vars(Frame(OnStream(Publish \/ CallObserver \/ NextReturns)))
  /\ WF_vars(Frame(OnTrack(OnScaled)))
  /\ WF_vars(Frame(OnEncoder(SendFrame \/ OnEncodedImage \/ Released)))
  /\ WF_vars(Rtsp(RtspThread)) /\ WF_vars(Libcamera(LibcameraThread))
  /\ WF_vars(Audio(PlayoutStopped /\ UNCHANGED backend)) /\ WF_vars(Audio(Playout /\ UNCHANGED backend))

Spec == Init /\ [][Next]_vars /\ Fairness

-------------------------------------------------------------------------------

\* What a capturer or a player holds is used by one at a time (RequestComplete, StopPlayout).
DevicesKept == PicturesStand /\ AudioKept

\* A codec gives its buffers back, and a capturer or a player that waits for another thread or for
\* its device does not wait for ever (CaptureBuffer, Reconnect, StopPlayout).
DevicesReturn == BuffersReturn /\ StreamReturns /\ PlayoutStops
=============================================================================
