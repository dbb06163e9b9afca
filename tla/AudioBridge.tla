------------------------------- MODULE AudioBridge -------------------------------
(* The audio device module (rtc/audio_device_bridge.h) between libwebrtc's worker   *)
(* thread, which calls it, the thread of a capturer (capturer/pa_capturer.cpp,       *)
(* alsa_capturer.cpp), which gives it the microphone's samples, and the thread that  *)
(* plays what comes from the peers on a player (player/pa_player.cpp,                *)
(* alsa_player.cpp).                                                                 *)
EXTENDS Naturals

CONSTANTS MaxRecoveries, \* kMaxRecoveriesPerWrite
          MaxRegistered  \* bound: calls of RegisterAudioCallback with a transport

ASSUME AudioAssumption == MaxRecoveries \in Nat /\ MaxRegistered \in Nat

VARIABLES
  backend,    \* "pulse" or "alsa"
  initialized, recording, \* initialized_, recording_
  transport,  \* audio_transport_ is set
  transports, \* how often it was
  mic,        \* the capturer's source is there
  capturing,  \* its thread: "idle", "called" (OnAudioBuffer), "loaded"
  caller,     \* libwebrtc's worker thread: "idle", "stop" or "terminate" waiting for the player
  playout,    \* the player's thread: "none", "top", "loaded", "write"
  playing, readied, \* playing_, playout_initialized_
  sink,       \* the player's device is open
  recoveries, \* of the write that is under way
  belated     \* history: calls of a transport, by thread, since it was taken back

callerVars == <<initialized, recording, transport, transports, caller>>
playerVars == <<playout, playing, readied, sink, recoveries>>
audioVars == <<backend, callerVars, mic, capturing, playerVars, belated>>

Threads == {"capture", "playout"}

AudioTypeOK ==
  /\ backend \in {"pulse", "alsa"} /\ recoveries \in 0..MaxRecoveries
  /\ initialized \in BOOLEAN /\ recording \in BOOLEAN /\ transport \in BOOLEAN /\ mic \in BOOLEAN
  /\ playing \in BOOLEAN /\ readied \in BOOLEAN /\ sink \in BOOLEAN
  /\ transports \in 0..MaxRegistered
  /\ capturing \in {"idle", "called", "loaded"} /\ caller \in {"idle", "stop", "terminate"}
  /\ playout \in {"none", "top", "loaded", "write"}
  /\ belated \in [Threads -> Nat]

\* Conductor calls Init and SetCapturer before libwebrtc has the module.
AudioInit ==
  /\ backend \in {"pulse", "alsa"} /\ recoveries = 0
  /\ initialized = TRUE /\ recording = FALSE /\ transport = FALSE /\ transports = 0
  /\ mic = TRUE /\ capturing = "idle" /\ caller = "idle"
  /\ playout = "none" /\ playing = FALSE /\ readied = FALSE /\ sink = FALSE
  /\ belated = [t \in Threads |-> 0]

Called(t) == IF transport THEN belated ELSE [belated EXCEPT ![t] = @ + 1]

-------------------------------------------------------------------------------
(* libwebrtc's worker thread, until Conductor terminates the module. *)

Calls == initialized /\ caller = "idle"

RegisterAudioCallback ==
  /\ Calls
  /\ \/ /\ transports < MaxRegistered
        /\ transport' = TRUE /\ transports' = transports + 1
        /\ belated' = [t \in Threads |-> 0]
     \/ transport' = FALSE /\ UNCHANGED <<transports, belated>>
  /\ UNCHANGED <<initialized, recording, caller, mic, capturing, playerVars>>

StartStopRecording ==
  /\ Calls
  /\ recording' = ~recording
  /\ UNCHANGED <<initialized, transport, transports, caller, mic, capturing, playerVars, belated>>

\* InitPlayout opens the device, if it can.
StartPlayout ==
  /\ Calls /\ playout = "none"
  /\ \/ playout' = "top" /\ playing' = TRUE /\ readied' = TRUE /\ sink' = TRUE /\ UNCHANGED recoveries
     \/ ~readied /\ UNCHANGED playerVars
  /\ UNCHANGED <<callerVars, mic, capturing, belated>>

InitPlayout ==
  /\ Calls /\ ~readied
  /\ readied' = TRUE /\ sink' = TRUE
  /\ UNCHANGED <<callerVars, mic, capturing, playout, playing, recoveries, belated>>

\* StopPlayout, by itself or for Terminate, first waits for the thread that plays ...
StopPlayout ==
  /\ Calls
  /\ caller' \in {"stop", "terminate"}
  /\ playing' = FALSE
  /\ UNCHANGED <<initialized, recording, transport, transports, mic, capturing, playout, readied, sink, recoveries, belated>>

\* Variant: the device is closed and the thread that plays goes on.
PlayoutStoppedRuns ==
  /\ caller # "idle"
  /\ sink' = FALSE /\ readied' = FALSE
  /\ caller' = "idle"
  /\ IF caller = "terminate"
     THEN transport' = FALSE /\ initialized' = FALSE
     ELSE UNCHANGED <<transport, initialized>>
  /\ UNCHANGED <<recording, transports, mic, capturing, playout, playing, recoveries, belated>>

\* ... and closes the device.  Terminate goes on; its subscription_ = {} moves an empty function over
\* the one that would unsubscribe, so the capturer calls OnAudioBuffer as before.
PlayoutStopped ==
  /\ caller # "idle" /\ playout \in {"none", "top"}
  /\ playout' = "none" /\ sink' = FALSE /\ readied' = FALSE
  /\ caller' = "idle"
  /\ IF caller = "terminate"
     THEN transport' = FALSE /\ initialized' = FALSE
     ELSE UNCHANGED <<transport, initialized>>
  /\ UNCHANGED <<recording, transports, mic, capturing, playing, recoveries, belated>>

-------------------------------------------------------------------------------
(* The capturer's thread. *)

\* PulseAudio's source is not opened again after an error.
PaCaptureSamples ==
  /\ backend = "pulse" /\ capturing = "idle" /\ mic
  /\ \/ capturing' = "called" /\ UNCHANGED mic
     \/ mic' = FALSE /\ UNCHANGED capturing
  /\ UNCHANGED <<callerVars, playerVars, belated>>

\* What ALSA fails to read is read again.
AlsaCaptureSamples ==
  /\ backend = "alsa" /\ capturing = "idle"
  /\ capturing' = "called"
  /\ UNCHANGED <<callerVars, mic, playerVars, belated>>

OnAudioBuffer ==
  /\ capturing = "called"
  /\ capturing' = IF initialized /\ recording /\ transport THEN "loaded" ELSE "idle"
  /\ UNCHANGED <<callerVars, mic, playerVars, belated>>

RecordedDataIsAvailable ==
  /\ capturing = "loaded"
  /\ capturing' = "idle" /\ belated' = Called("capture")
  /\ UNCHANGED <<callerVars, mic, playerVars>>

-------------------------------------------------------------------------------
(* PlayoutOnce, until the thread is asked to end. *)

PlayoutOnce ==
  /\ playout = "top" /\ caller = "idle"
  /\ playout' = IF transport THEN "loaded" ELSE "write"
  /\ UNCHANGED <<callerVars, mic, capturing, playing, readied, sink, recoveries, belated>>

NeedMorePlayData ==
  /\ playout = "loaded"
  /\ playout' = "write" /\ belated' = Called("playout")
  /\ UNCHANGED <<callerVars, mic, capturing, playing, readied, sink, recoveries>>

\* A player that PulseAudio refuses closes its device.
PaWrite ==
  /\ playout = "write" /\ backend = "pulse"
  /\ playout' = "top"
  /\ sink' \in {sink, FALSE}
  /\ UNCHANGED <<callerVars, mic, capturing, playing, readied, recoveries, belated>>

\* Variant: the count begins again.
AlsaRecoversOn ==
  /\ playout = "write" /\ backend = "alsa" /\ sink
  /\ recoveries' = (recoveries + 1) % MaxRecoveries
  /\ UNCHANGED <<callerVars, mic, capturing, playout, playing, readied, sink, belated>>

\* "Recover from underrun/suspend, but don't spin forever."
AlsaRecovers ==
  /\ playout = "write" /\ backend = "alsa" /\ sink /\ recoveries < MaxRecoveries
  /\ recoveries' = recoveries + 1
  /\ UNCHANGED <<callerVars, mic, capturing, playout, playing, readied, sink, belated>>

\* All is written, or it cannot recover, or not once more.
AlsaWrite ==
  /\ playout = "write" /\ backend = "alsa"
  /\ playout' = "top" /\ recoveries' = 0
  /\ UNCHANGED <<callerVars, mic, capturing, playing, readied, sink, belated>>

Playout == PlayoutOnce \/ NeedMorePlayData \/ PaWrite \/ AlsaRecovers \/ AlsaWrite
Capture == PaCaptureSamples \/ AlsaCaptureSamples \/ OnAudioBuffer \/ RecordedDataIsAvailable

AudioStep ==
  /\ UNCHANGED backend
  /\ \/ RegisterAudioCallback \/ StartStopRecording \/ StartPlayout \/ InitPlayout \/ StopPlayout
     \/ PlayoutStopped \/ Capture \/ Playout

-------------------------------------------------------------------------------

\* A device is open only for a thread that plays or is about to, and only that thread uses it
\* meanwhile; a transport that was taken back is called at most once more by each thread, after
\* Terminate too, though the capturer goes on calling (StopPlayout, Terminate, OnAudioBuffer).
AudioKept ==
  /\ AudioTypeOK
  /\ sink => readied
  /\ playing => readied /\ playout # "none"
  /\ caller = "idle" /\ playout # "none" => playing
  /\ \A t \in Threads : belated[t] <= 1
  /\ ~initialized => playout = "none" /\ ~sink /\ ~transport

\* StopPlayout returns: the player's thread is never waited for for ever (PlayoutOnce, Write).
PlayoutStops == (caller # "idle") ~> (caller = "idle")
=============================================================================
