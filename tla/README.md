# A TLA+ model of pi-webrtc

pi-webrtc turns a Raspberry Pi or a Jetson into a WebRTC camera: it captures
video and audio, encodes them, streams them to browsers through one of four
signaling services, records them to MP4 files, and carries commands and
application data over data channels. These modules model its control logic, the
part where threads, callbacks, timers, devices and remote parties meet. Paths
below are relative to `src/src/`.

## 1. The system

### Threads

* libwebrtc's **signaling thread** runs every callback of a `PeerConnection` and
  of a data channel; a call of the connection from another thread waits until
  this thread serves it.
* The **service's thread**: the loop of the MQTT client, or the `io_context` of
  the Cloudflare, WHEP and LiveKit services.
* The registry's **cleaner**, the recorder's **capture**, **worker** and
  **rotation** threads, and a **send thread** per data channel.
* The **accept thread** of a Unix socket and a thread for each local program
  that is connected to it.
* A **capture thread** per camera, a **worker** per V4L2 codec, libcamera's own
  thread, libwebrtc's **encoder** and **worker** threads, and the **playout**
  thread of the audio device.

### Components

| Component | State | Operations | Talks to | Hard part, and what makes it right |
|---|---|---|---|---|
| `RtcPeer` (`rtc/rtc_peer.*`) | connected, expired, negotiating and renegotiation flags, connect deadline, buffered ICE, channels | `CreateOffer`, `SetRemoteSdp`, `SetRemoteIce`, `RestartIce`, `Terminate`, libwebrtc's callbacks | its service, its registry | callbacks of a dying peer, deadlines, colliding offers: a peer connects or expires, every offer is answered |
| `PeerRegistry` (`signaling/peer_registry.*`) | `peers_`, `Cleaner` flags | `Start`, `Stop`, `Add`, `Get`, `Remove`, `Sweep` | `RtcPeer`, its service | hand-over of peers outside the lock: one owner for each connection, no expiry lost, `Stop` returns |
| `MqttService` | client-to-peer and peer-to-client maps | `OnMessage`, `OnLocalSdp`, `OnLocalIce`, `OnPeerExpired`, `Disconnect` | registry, broker | maps read and written by three threads: they agree, and answers go home |
| `CloudflareService` | connection, publication, peer, timers, `unanswered_` | `OnMessage` and its handlers, timers, posted closures | worker, token service, `WebSocketClient` | replies without a number, reconnects, retries: always on the way to a connection and a publication |
| `WhepService`, `HttpSession` | a peer per session, a timer per request | POST, PATCH, DELETE, time-out | registry | answer against time-out, concurrent ICE restarts: one response per request, for its own request |
| `LiveKitService` | two peers, a write queue, a ping timer | join, offers and answers, ping, leave | an SFU | two threads fill the queue; tracks are announced before their offer, and the queue winds down with the connection |
| `WebSocketClient`, `HttpClient` | write queue, ping and silence timers; one request | `Open`, `Send`, `Close`, `Finish` | services | operations that complete after the end: frames in order, one close frame, one report |
| `RecorderManager` (`recorder/`) | `is_recording_`, `fmt_ctx`, `header_written_`, file number, worker | frame callback, `Start`, `Stop`, `WriteIntoFile` | capturer, encoder, disk, viewers | start, stop and rotation on three kinds of threads: every file is closed, off means off |
| Rotation (`RotateFiles`) | the tree of files | a rotation thread per recorder | recorders' files | looks and removals without a lock: the oldest pair goes first, space comes back, the thread survives |
| `media_query` | none | three searches | the tree of files | walks over hours and dates with holes |
| `Conductor` | tracks, capturers, recorders | peers, tracks, command handlers | everything | shared by all viewers |
| `RtcChannel` and its subclasses | send queue and thread, terminate flag | `Send`, `SendLoop`, `Terminate` | peer, recorder, endpoints | a send thread stopped from another thread: frames whole and in order, nothing after the end |
| `IpcChannel`, `UnixSocketServer`, `GamepadEndpoint`, `IpcEndpoint` | clients, latest message, gamepads, last sequence numbers, reassembly | `Start`, `Stop`, `Write`, `PublishLatest`, `OnRemoteClosed` | local programs | descriptors the kernel gives out again, reordered packets, viewers that are gone |
| `V4L2Codec` and its owners | buffers, tasks | `EmplaceBuffer`, `CaptureBuffer`, callbacks | drivers | pairing of buffers and callbacks, changes of resolution, an encoder that is released while it works |
| `RtspCapturer`, `LibcameraCapturer` | connection, decoder, requests, controls | capture loops, `SetControls` | cameras | a stream that comes back different; requests that go round |
| Audio device, capturers and players | transport, flags, device | `RegisterAudioCallback`, start and stop of both directions | ALSA, PulseAudio | three threads, a device that fails |
| `parser`, `main` | options | start-up | everything | sequential |

A service makes an `RtcPeer` with `Conductor`, adds it to its registry and hands
it the remote offer; the peer's callbacks send what it answers, connect it or
mark it expired; the registry's cleaner terminates expired peers and tells the
service. Data channels reach the recorder and the endpoints through the
handlers that `Conductor` registered. The recorder takes frames from the same
capturers as the tracks.

`PROJECT.json` lists every component with what is left out of it, and every
hazard with its line and the properties about it.

## 2. Modules

| Module | Models | Extends |
|---|---|---|
| `PeerCustody` | abstract: a peer is admitted once, taken out by one thread, released by it | |
| `PeerRegistry` | `PeerRegistry`, and of `RtcPeer` what the registry depends on | |
| `ClientDirectory` | abstract: a client keeps its peer while it lives, and a peer that ended never comes back | |
| `MqttService` | the client maps over the registry | `PeerRegistry` |
| `Negotiation` | offers and answers of one `RtcPeer` and its viewer | |
| `CloudflareService` | the service with its worker | |
| `WhepService` | HTTP requests, sessions and their peers | |
| `SocketPromise` | abstract: what `websocket_client.h` promises its user | |
| `WebSocketClient`, `HttpClient`, `LiveKitService` | one connection each | |
| `SignalingSockets` | a device's connections to its service | the three above |
| `RecorderManager` | recording, rotation of files, the viewers' commands | |
| `DiskRotation`, `MediaQuery` | deletion beside the recorders; the searches | |
| `RecordingFiles` | recordings from their first frame to their deletion | the three above |
| `RtcChannel` | send threads and the end of a peer's channels | |
| `DataChannels` | requests and messages of one viewer | `RtcChannel` |
| `UnixSocketServer` | the server of local programs | |
| `IpcEndpoints` | both endpoints and the viewers' IPC channels | `UnixSocketServer` |
| `Channels` | the two ends of a viewer's channels | `DataChannels`, `IpcEndpoints` |
| `V4L2Codec` | a codec with its driver | |
| `FramePath` | a codec as decoder, scaler or encoder | `V4L2Codec` |
| `RtspCapturer`, `LibcameraCapturer`, `AudioBridge` | devices with a protocol of their own | |
| `MediaPaths` | the devices, one at a time | `FramePath` and these three |

Each `MC...` module instantiates one module for TLC, and each `..._proofs`
module proves theorems about one. Operators are named after the functions they
translate. Beside an action, a `Variant` is what the action would be with a
plausible mistake; TLC finds the property it is paired with violated when it
stands in for the action. `Channels`, `SignalingSockets`, `RecordingFiles` and
`MediaPaths` put components that share a role, and no state, behind one Init and
Next; a behaviour is about one of them, or, in `SignalingSockets`, about the
token request and then the WebSocket it is for.

**PeerRegistry.** One variable per flag of the code. An action covers what one
thread does under one lock or in one callback, so `Remove`, `Sweep` and `Stop`
first move peers into the `hand` of the thread and then terminate them in two
steps, `TerminateFlags` (up to the flags) and `TerminateClose` (from `Close`,
which runs the `kClosed` callback on the signaling thread). Calls that wait for
that thread are enabled only while it is not inside `Cleaner::Wake` (`~waking`).
Peer ids are UUIDs and never used twice. The service's threads have ended
before the registry stops (`Disconnect` of each service).

**MqttService.** `OnMessage` is cut at its lookups: in the registry, at the
creation of a peer, at the maps, at the second lookup before the message is
applied. `due` (who made the offer that a peer has to answer) and `lost` are
history variables. It implements `ClientDirectory`, whose `directory` is
`livePeers`, the peer that `peerOf` names where it is still live, and whose `gone`
are the peers that were live: to the directory a client is only ever
without a live peer or with one, whatever the two maps hold between two writes.

**Negotiation.** libwebrtc chains its operations; a set operation runs as soon
as it is first in the chain, without leaving the signaling thread, and a create
operation takes time and posts `OnSuccess` when it has left the chain. The
service's thread checks the signaling state (`CheckSdp`) and makes its calls
one by one, with other steps between. A rollback does not by itself make
libwebrtc look whether a negotiation is needed; an answer does. `kConnected` may
come at any time after the viewer's first answer (`CanConnect`), also while a later
offer of the viewer is with the service's thread, in the chain or being answered: a
negotiation that is still needed is then put off once more (`OnConnectionChange`). The viewer
ignores an offer of the device while its own is open. `raced` is a history
variable: an operation of `SetRemoteSdp` ran in another signaling state than
the one its check saw. Nothing drops a peer here: that is PeerRegistry's part.

**CloudflareService.** Handlers are atomic, since they share one `io_context`
thread; callbacks of the peer only post closures to it (`posted`). The worker
answers the offers of a connection in order. Back-off times are left out: a
timer that is armed may fire at any time. `early` records that an offer went
out on an open socket before `joined` was read.

**WhepService.** A request is an `HttpSession`; a session is named by the POST
that made it, and offers, answers and descriptions by the request they belong
to. The `io_context` thread runs one handler at a time; `io` holds what is left
of one that calls the peer more than once. `timer` is "expired" while the
handler of an elapsed `answer_timer_` is queued, too late to be cancelled.
Requests that only read, or are refused by their headers, are left out, and the
service is not disconnected. `mixed` is a history variable: the sessions in
which an ICE restart came before the last exchange had ended.

**WebSocketClient.** `stage`, `reading`, `writing` and `shutting` are the
asynchronous operations under way; each completes in an action of its own, also
after `Finish`, whose `finished_` it then finds set. Frames are numbers, pings
are 0. Time is counted in ping intervals: `ping` and `silence` are what is left
of the two timers, and `Tick` passes an interval, before which a handler that is
due and a server that is up have done their part (`Prompt`). The 35 s of the
silence timer are two whole intervals of 15 s.

**HttpClient, LiveKitService.** A request is the operation of its `Session`;
`deadline` says whether the stream has a time-out, which the resolver has not.
LiveKit's `outbox` is `write_queue_`, whose head is being written; `offering`
counts the offers that the publisher was asked for and has not yet handed back
on the signaling thread. Its connection is never renewed.

**RecorderManager.** Three kinds of threads run the same operations on one
recorder: the capture thread, which rotates; the signaling thread, which starts
and stops for a viewer; and the threads that end peers (`Enders`), since
`Terminate` of a viewer's command channel runs `OnClosed` there, which stops the
recorder (`ViewerLeaves`). So a leaving viewer's stop runs beside another
viewer's start or stop, and beside a rotation. Each operation is the list of its
parts between locks (`open`, `run`, `flag`; `clear`, `abort`, `join`, `close`),
and `pc` says which comes next. `auto` tells the background recorder, which
starts itself and hears no viewer, from the on-demand one; `asked` records which
of the two commands came last. The clock stops at `MaxTime` while frames go on.

**DiskRotation.** A folder is the sequence of the names that lead to it, in the
order of the names; each file takes one unit of space. `recorders` are those that
`record_mode` asks for: background, on-demand or both. Each has a rotation thread
and a record path, and the on-demand path lies within the other's. `RotateFiles`
is a step for every look (`ScanDates`, `ScanHours`, `ScanFiles`, `CheckHour`,
`CheckDate`) and every removal; `aim` is what a thread has found, which may be
stale when it is used. Between any two steps recorders make folders, files and,
three seconds later, preview images. A directory iterator throws when its folder
is gone, outside the `try` for dates and hours: the thread, and with it the
program, then ends (`dead`). A thread alone never gets there (`AloneSurvives`);
when both recorders run, the background thread takes the on-demand folders for a
date when no date is left, and may remove what the other thread is about to
iterate. Two simplifications: recordings have different names (no two in one
second), and files are `.mp4` or `.jpg`.

**MediaQuery.** A query's state is an archive; the answer is computed by the recursive functions that translate the
walks, and compared with a search over all recordings.

**RtcChannel, DataChannels.** Each channel has a queue of numbered frames, the
frame in its send thread's hand, and what is on the wire. A send thread that
found nothing to do is "dozing" from its test to its sleep, since `StopSendThread`
writes the flag that it tested without the lock; `missed` holds the channels
whose notification fell in between. The thread that ends the peer goes through
the roles in order: it stops the send thread, joins it, closes the channel and
runs what was registered for its end (`Terminate`); then it destroys them all.
`DataChannels` adds what requests send back and on which channel,
and `recording`, which a request starts and the end of the command channel
stops.

**UnixSocketServer, IpcEndpoints.** Descriptors are numbers that are given out
again, the lowest first. `link` is the connection as the kernel sees it, `fd` the
descriptor it has, `clients` the server's map, `stale` the descriptors that a
sender has dropped under the lock and shuts down after it. `latest`, `current`
and `unread` are the snapshot, who has been sent it, and what is in each
program's socket. `IpcEndpoints` adds the viewers: any report may arrive at any
time, or never (the lossy channel), and is taken if its sequence number is new
or the viewer was silent for a second (`AcceptSequence`). `regressed` is a
history variable: viewers whose numbers started anew.

**V4L2Codec, FramePath.** A buffer is with the driver, with a task or free; an
input is queued to the driver before its task is pushed, and the push may be
refused. A frame is the number of its capture, a picture the number it shows, so
a task that runs on another frame's picture can be told. The driver is done with an
input whenever it likes, before its picture or long after, and keeps none that it
needs for no picture (`ReleaseInput`, `Done`); that it makes its pictures without
waiting for more inputs is assumed for liveness only. Faults (a refused
buffer, an input without a picture, a change of resolution) are bounded by
`MaxFaults`. `FramePath` puts the codec below the decoder of `V4L2Capturer` with
its subscribers, below `V4L2DmaTrackSource`, and below `V4L2H264Encoder` with
`TracingVideoEncoder`; `Subject::Next` calls observers from a snapshot.

**RtspCapturer, LibcameraCapturer, AudioBridge.** The RTSP thread with a camera
that goes and comes back with another stream or one that no decoder takes; each
packet may be refused by `EmplaceBuffer` (`Give`), of which `ReadPacket` learns
nothing, and `missed` is a history variable: the connections whose first key frame
was refused. Two
libcamera requests with `SetControls` on another thread; the audio device module
between the worker thread, the capturer and the playout thread, on ALSA, which
recovers, or PulseAudio, which does not.

## 3. Runs

| Run | Instance | What it shows |
|---|---|---|
| `peer_registry` | 2 peers, 1 service thread, 2 offers each | `PeerInv` (types, one owner, stages, no expiry lost, deadlines run, no orphan, released peers are down); in the end offers settle, expired peers are released and `Stop` returns; the registry implements `PeerCustody` |
| `mqtt_service` | 2 peers, 2 clients, 1 offer each | maps agree and cover live peers (`MqttInv`), answers go to who offered and none is dropped (`AnswersGoHome`), the maps are a directory of live peers (`ClientDirectory`) and mappings of expired peers go (`MappingsFollowPeers`) |
| `negotiation` | 4 offers of the viewer | answers fit and both sides come to rest stable (`NegotiationInv`), offers are answered and tracks negotiated, all unless a check went stale |
| `negotiation_offer_lost` | 2 offers | finding 1 |
| `cloudflare_service` | 4 failures, wakes and sleeps | one way to connect at a time, a publication is driven, sleep leaves nothing (`SessionInv`), replies are told apart unless an offer was early (`RepliesMatch`), connected and announced again in the end (`SessionReturns`) |
| `whep_service` | 3 requests, 2 of which may be POSTs | every request is answered, with its own description unless restarts of a session overlap; a session answered with 201 outlives the timer of its POST; sessions connect or end |
| `signaling_sockets` | 2 frames, silence of 2 ping intervals; 2 joins, 2 signals, 3 waiting pings | `SocketInv` (flags, timers, queue and writes fit, tracks before their offer), `KeepsPromise` (refinement of `SocketPromise`, and no server that answers is given up), `ConnectionsEnd` (every end is heard of) |
| `recorder_stop_lost` | 1 peer-ending thread, 3 commands or leavings, 2 failures | finding 2 |
| `recording_files` | 1 peer-ending thread, 3 commands or leavings, 1 failure; 2 dates of 2 hours, room for 1 file, 2 recordings of one recorder or 1 of each, an old file each on demand and from elsewhere; archives of up to 4 recordings on 3 dates of 2 hours of 2, nested and flat, 2 requested | header and trailer belong to one file, files are closed, off means off, calls return, background recording goes on and opens a file again after a failure; a lone rotation thread survives, oldest pairs go first, tidying deletes no file, space comes back; answers are complete when no date is missing, and newest first when one is |
| `query_at_time` | the same archives | finding 3 |
| `channels` | 3 channels, 1 frame of buffer, 2 requests, 1 message passed on; 2 programs, 2 descriptors, 1 viewer with sequence numbers up to 2 | frames whole and in order, nothing of a viewer after its end (`DataInv`, `EndpointInv`), the end ends unless a notification was missed, queues empty, no older report after a newer, `Stop` returns and descriptors are closed |
| `media_paths` | 2 inputs and 2 buffers, 2 tasks, 3 frames, 1 fault, 1 subscriber, 2 sizes, 2 encoder sessions; 3 starts of the RTSP camera, 2 layouts; 2 requests, 2 streams, 3 changes of controls; 2 recoveries, 2 audio registrations | no buffer lost or in two places, an observer called at most once after it left and nothing after `Release`, the decoder begins at a key frame unless it refused it, a picture that is shown is not being filled, order, every wait ends, controls arrive |

Why these bounds are enough. Two peers suffice for each conflict of the
registry, which is about one peer and the sweep that another one caused; two
clients let one come back before its old peer is swept, or another one come.
Three offers of the viewer are a first exchange, one that collides with the
renegotiation, and one more; the run has four. Four events of Cloudflare's run
combine two failures with a wake and a sleep. Three requests of WHEP are a
session and two restarts that overlap, or two sessions and a DELETE. Two frames
of a WebSocket are one being written and one that waits, with pings between and
the close frame behind; two joins of LiveKit make the peers be replaced while an
offer is out. A failure of the recorder is one to open a file or one to write a
header, and `recorder_stop_lost` has room for both; three commands are a start, a
stop and a leaving beside a rotation, and with `FileDuration = 1` and `MaxGap = 2` rotations are due at
every frame or missed by one. Two dates of two hours have all the boundaries that rotation
crosses; one recording of each recorder is the least with which two rotation
threads meet, and two of one recorder are one that goes and one that stays. Two hours on
three dates have all that the walks cross, with a hole in the middle, and four
recordings are the two that a query may return and two that it must not. One frame of buffer is full at once, and three channels are each kind
that a request answers on. A second program gets the descriptor that the first
one has left, which is the conflict of the server; two sequence numbers arrive
in either order. Two buffers on either side of a codec, three frames and two
tasks make every queue empty and full, with one frame beyond. Three starts of
the RTSP camera are one stream, another, and one that no decoder takes.
Deadlock is only checked where the system goes on for ever or ends in a state
that stutters; the other runs end when the bounded events are used up.

**Fairness.** Weak fairness of a thread's steps: the operating system runs it
while it has work, and its timers fire; a handler that is due runs. Weak
fairness of messages that were sent over a connection that is up. Operations
with a time-out end one way or the other; an operation without one ends where
only the name service is waited for. libwebrtc drains what data channels give
it, and a driver gives back what it was given unless a fault says otherwise.
Nothing makes a viewer, a program, a worker, a server or a user act, except that
the Cloudflare worker answers what it got. `RecorderManager` needs strong
fairness to take the encoder's mutex, and `Negotiation` to get a call through to
the signaling thread, whose queue is first in, first out.

## 4. Findings

1. `negotiation_offer_lost` (`rtc/rtc_peer.cpp:475`): `SetRemoteSdp` decides by
   the signaling state of the moment; the device's own offer can be set before
   the viewer's is. libwebrtc refuses the latter, no answer is made, nobody is
   told, and both sides wait, against the comment "The Pi always yields to the
   remote offer here."
2. `recorder_stop_lost` (`recorder/recorder_manager.cpp:266`): a viewer's stop of
   the on-demand recorder that falls into a rotation is overtaken by the last line
   of the rotation's `Start`, and the recorder is on when the stop has returned. The
   property is about the on-demand recorder only: the background recorder is meant
   to record with no viewer.
3. `query_at_time` (`recorder/media_query.cpp:221`): a `BEFORE_TIME` query compares
   the time with when a file was last written, and so never returns the file
   recorded at that time, against "The file at that time, or the one before it"
   (`src/docs/recording/README.md:84`). `AnswersRight` states what the code does
   find, the newest file written before the time.

Met while modelling and shown by no run; the properties state what the code does
hold in these cases (`NoDateMissing`, `Written`, `Dated`, `raced`, `early`,
`mixed`, `missed`, `regressed` name the exceptions):

* Signaling. `OnJoined` zeroes `unanswered_` although an offer may be out, so
  that a peer can be given the answer to the offer before its own
  (`cloudflare_service.cpp:313`). A second ICE restart of a WHEP session that
  comes before the first is answered replaces the callback of the first, gets
  its answer, and leaves it to time out (`whep_service.cpp:458`). MQTT adds a
  peer to the registry before it tests that there is one (`mqtt_service.cpp:40`).
  LiveKit does not connect again, and a message for a peer that comes before
  `join` finds no peer.
* Channels. `StopSendThread` clears `send_thread_running_` without the lock, so
  that its notification can fall between a send thread's test and its sleep, and
  the join waits for ever (`rtc/datachannel/rtc_channel.cpp:61`). `Stop` of the
  server closes a descriptor that the client's thread has closed
  (`ipc/unix_socket_server.cpp:181`), and a stale descriptor is shut down after
  the lock was released (`:75`). The gamepad documentation
  (`src/docs/integrations/gamepad.md:82`) has every snapshot delivered, where
  `SendLatest` skips those that a slow program did not read (`:84`).
* Recording. A viewer that leaves stops the recording for others
  (`rtc/conductor.cpp:322`, against "while a viewer asks"); after a pause of the
  camera, rotations that catch up make very short files
  (`recorder_manager.cpp:266`); disk rotation takes `on-demand/` and `timelapse/`
  for dates when no date is left (`recorder_manager.cpp:48`), though "rotation and
  browsing treat them separately" (`src/docs/recording/README.md:72`), and can then
  end the program when the on-demand rotation thread iterates a folder that is gone
  (`:48`, `:60`, outside the `try`); it deletes one pair
  at a time where the docs say an hour; an hour or a date that was empty when it was
  looked at is removed with what came into it since (`remove_all`, `:68` and `:86`); the walk to older files ends at a missing
  date (`media_query.cpp:327`);
  `before_file` needs a path where the docs say a name (`:266`).
* Media. A change of resolution leaves no capture buffer queued
  (`codecs/v4l2/v4l2_codec.cpp:114`). `V4L2H264Encoder::Encode` uses the encoder
  that a failed `Create` left null (`codecs/v4l2/v4l2_h264_encoder.cpp:81`). `V4L2Codec::EmplaceBuffer` refuses a packet that
  waited 200 ms in vain for an input buffer or is too large for one
  (`codecs/v4l2/v4l2_codec.cpp:152`, `:173`), and a connection's first key packet
  is then gone although `has_first_keyframe_` was set before
  (`capturer/rtsp_capturer.cpp:246`): the decoder goes on unprimed until a key frame
  with parameter sets of its own comes, or for ever. `DecoderPrimed` exempts such a
  connection by name (`missed`). A failed `V4L2Encoder::Create` is not modelled
  (`CreateEncoder` succeeds): what follows is undefined, and no state of the model
  would stand for it.
  `LibcameraCapturer::GetI420Frame` reads without the lock that its writer takes
  (`capturer/libcamera_capturer.cpp:369`). `~V4L2DmaTrackSource` resets its scaler
  before its subscription ends (`track/v4l2dma_track_source.cpp:30`). Assigning an
  empty subscription does not unsubscribe the audio device
  (`rtc/audio_device_bridge.h:77`), so that a capturer may call a bridge that
  `~Conductor` has freed.

## 5. Proofs

Each proof follows one scheme: an inductive invariant that contains the
invariant of the run, a lemma for each action or for each conjunct that actions
disturb, and one temporal step. The constants are arbitrary within the named
assumptions.

**`MqttService_proofs`**, its first part about `PeerRegistry` alone (any peers,
service threads and offers; `NoPeerAssumption`, `UsersAssumption`, `OffersAssumption`):
`RegistryInvariant`, `Spec => []PeerInv`, and from it `TypeCorrect`,
`ExpiryNeverLost`, `DeadlineAlwaysRuns`, `NoConnectionOrphaned`; and
`ImplementsCustody`, a step of the registry is one of `PeerCustody` or a stutter.
`PeerInv` is inductive. `NoOrphan` alone is not: a step out of a state in which
two threads hold the same peer would release it under the other, so `OneOwner`
is needed; a sweep adds what it takes to the cleaner's hand, so `Stages` says
that hand is empty then, and that the cleaner runs only between `Start` and
`Stop`; a peer added later must not be expired already, so `FreshPeer`.
`ExpiryNoticed` follows an expiry from the flag of the peer through the posted
task to the cleaner's flag and its round.

Its second part is about `MqttService` (any clients and peers): `MapsAlwaysAgree`,
`AnswersAlwaysGoHome` and the action property `LivePeerKeepsClient`. The
invariant adds to `PeerInv`, which is reused by name, where the loop thread
stands between its lookups and what it has found, and that a peer in the
cleaner's hands is expired. It needs `LoopThreadAssumption`: mosquitto starts one
loop thread, and two would overwrite each other's mapping. `ImplementsDirectory`,
`MqttSpec => DirectoryKept`, rests on the same invariant: a step that leaves the maps
alone can only end peers (`MapsSame`), what `OnMessage` maps was created by it and
mapped by nobody (`MapPeerEnters`), and what the cleaner and `Disconnect` erase is
gone already (`ErasedIsGone`). `ServiceKeepsCustody` says that the registry
under the service is still the registry, and keeps custody of its peers.

**`Negotiation_proofs`** (any number of offers): `AnswersFitAndCollisionsEnd`,
`Spec => []NegotiationInv`. An open offer of the viewer is in one place only: in
a message, with the service's thread, in the chain of operations, among the
callbacks, or on its way back as its answer. `OneExchange` counts it there: never
twice, and not at all once the viewer has its answer, so that no answer can be to
an earlier offer. That both sides come to rest needs what the chain may hold:
`Sorted`, an answer is set before the next offer is, and an offer before its answer
is made; `RemoteKept`, the device is in the state "remote" exactly from the offer
to the answer; and `LocalKept`, when no offer of the device is still to be made,
the chain is short or harmless, and while its last offer is open something is under
way that closes it: the offer itself, its answer, or the viewer's offer that rolls it
back. When the viewer drops that offer because its own is open, it is `OneExchange`
that says where the viewer's own is. The last two parts only hold as long as no
operation ran in another signaling state than its check had seen (`raced`), which is
the finding of `negotiation_offer_lost`.

**`SignalingSockets_proofs`** (any number of frames, joins and pings, any silence
of more than one interval): `SocketsAlwaysKept`, and `PromiseKept`, which is the
refinement of `SocketPromise` and the action property `LiveServerKept`. `InLine`
says that the frames from the last sent to the last given stand in the queue in
order, with pings anywhere between; three lemmas carry it over `Append` and
`Tail`. `Heard` is why no live server is given up: before its silence timer runs
out, a ping is due, queued, or being answered. LiveKit's invariant follows the
tracks from the queue to the wire ahead of each offer, as long as the connection
is open: once it is not, a failed write may lose them, but nothing is sent then.

**`Channels_proofs`** (any programs, viewers, senders, channels, and any number
of descriptors, requests and reports): `DataAlwaysKept`, `EndpointsAlwaysKept`
and the action property `ReportsNeverOlder`. A frame of a channel is in the queue,
in the send thread's hand or on the wire, and their concatenation only grows at
its end; the invariant relates the thread that ends the peer to the roles that it
has passed. An entry of `clients_` names the program whose connection has the
descriptor now, because a client's thread closes its descriptor only after it has
erased the entry, and no one else closes it. For the reports, `SnapshotsAscend`
says that the one a program read last, the one that waits for it and the
endpoint's own follow each other without going back, for every gamepad that did
not start anew.

**`CloudflareService_proofs`** (any number of failures, wakes and sleeps;
`EventsAssumption`): `SessionAlwaysKept`. The invariant adds `StoppedIsQuiet`, a
stopped service has neither a socket nor a publication: without it a message or
a retry handler that comes after the stop could start one. Retries that wait to
run are what `PublishingIsDriven` rests on, since `cancel` does not reach them.
`RepliesAlwaysMatch` is the deeper one: a reply names no offer, so the service
tells replies apart by counting. `Ordered` has the offers and replies on the way
in the order of their publications, all newer than the last answer that the
worker gave; `HasOwn`, that while anything is under way the last offer or its
reply is; `OfferWaits`, that a publication makes one offer, which is to come,
posted or sent. So when the count of a connection reaches zero the reply is the
last one, hence the publication's own, and what the worker says of channels after
it is too. Three lemmas on counting (`CountAppend`, `CountTail`, `CountIsNat`)
carry the count over each queue.

**`WhepService_proofs`** (any requests and sessions; `WhepAssumption`):
`AnswersAreOwn`, `Spec => []WhepInv`, and the action property
`CreatedSessionsSurvive`. `OwnAnswer` rests on what becomes of a description before
it is a response, so the invariant follows it back: `PostedOwn` for the closures
on their way to the `io_context`, and `OwnExchange` for the peer, in which every
operation, answer and description under way belongs to the request that
`on_local_sdp_fn_` is set for. A restart sets the callback anew; that nothing of an
earlier exchange is left then, unless `mixed` says so, needs to know that an offer
stays open only as long as an answer to it is still to be made or set, which is why
`OwnExchange` has a `CreateAnswer` behind every `SetRemote` in the chain or still in
the hand of the `io_context` thread. `CreatedSurvives` follows from `StagesKept`: a
request that waits has no status yet, so its timer's handler has not seen it answered.

**`RecorderManager_proofs`** (any file duration, camera, peer-ending threads,
failures; `RecorderAssumption`): `OffMeansOff` and `FilesAlwaysWhole`. `QuietWhenOff` speaks
of moments when all threads are idle; `NoFileLeft` and `NoWorkerLeft` say for
every moment at which part some thread stands that will still close the file, end
the worker, or set the flag again. `OpensInTurn` says that the background
recorder's operations are the capture thread's alone, which is why no file of it
is overwritten unclosed.

Its second part is about `DiskRotation` within `RecordingFiles`, the other side of
`recorder_manager.cpp` (any capacity, calendar with at least one date, and choice of
recorders; `RotationAssumption`): `AloneRotatesSafely`, `RecordingSpec => []RotationInv`,
and the action property `OldestGoFirst`. Both rest on `RotationIInv`. `DiskTypes` and
`Tree` say which folders there can be: an hour in its date, a date in its record path,
on-demand names after every date's. `VideoInv` relates the recordings to the clock: a
file of a later hour has a later number, which is why the first name in the first hour of
the first date is the oldest recording. `Alone` is what a thread that works alone may
count on: the date that it has found is there while it looks for the hours in it, and
its record path always, because recorders remove nothing; so it cannot throw outside
the `try`. `Found`
is about what a thread has found and not yet used, with all its other steps and those
of both recorders in between: the file that it aims at was the oldest when it was
found, and stays no newer than any recording that is left, because what is
made later has a later number and what goes meanwhile only makes the rest newer. That an
image may come after its recording has gone is why the comparison is with the videos that
stay; such an image is the oldest file of its hour, and goes next.

Its third part is about the queries (`QueryAssumption`: any number of dates, hours
and recordings, any `request_num`, and `max_searching_folder` above one; it is 10):
`QueriesFindTheNewest`. An answer is compared by `Lists`, which says without
recursion that a sequence is the newest n of a set, newest first; there is one such
sequence (`OneList`), and the search over all recordings gives it (`NewestLists`).
`PreviousIs` has the walk go to the hour before, over any date that is there; so what
is left to find is what is in the hours before (`ReachIs`), and `ListsJoin` puts the
lists of two folders together. The walks are recursive functions: `DefinedByEarlier`
shows that there is a function with the values the definition asks for, since each
needs only those of earlier hours, and `HourByHour` is the induction that follows
what the walk finds. Both rest on `LeastNumber`, an argument by the least
counterexample, which needs no induction theorem with an operator as parameter. A
search by time needs no more than two folders, because all files of the second are
older than the time; that is where the bound on folders matters, and why one would be
too few.

**`MediaPaths_proofs`** (any streams, requests, observers, buffers, frames):
`DecoderAlwaysPrimed` (with the streams whose key packet the decoder refused set
apart, as in the code nothing asks for another), `DevicesAlwaysKept`, `CallsAlwaysEnd`, `BuffersAlwaysKept`
and the action properties `FramesStayInOrder` and `ControlsNeverGoBack`. A codec's buffers move between
places: `InputsKept` has the inputs add up (free, queued or lent to the driver), `PlacesKept` has no capture buffer in
two places at once, and `PicturesMatch` pairs the pictures
that are ready with the tasks that wait for them, which holds until the driver
gives a picture without a task or a task is left without a picture. For the order,
`TasksAscend` has the tasks of a scaler in order, all of them newer than the last
frame sent and older than the one being taken. `ControlsNeverGoBack` is the safety
part of `ControlsArrive`: the changes that the requests in flight carry ascend in the
order in which the camera completes them (`CarriesAscend`), above what is applied.

Only model-checked: liveness and everything that rests on fairness (`PeersSettle`,
`StopEnds`, that the mappings of expired peers go, `SessionReturns`, `ConnectionsEnd`, `PeerEnds`,
`FramesLeave`, `ServerSettles`, `DevicesReturn` and the like), which are out of
this prover's reach. Every invariant and every other action property that a run
checks is a theorem, or a theorem's conjunct.

## 6. What is left

`CloudflareService` as a refinement of a publication that is off, on its way or
announced; more than one peer-ending thread's commands on the on-demand recorder at
a time with rotation deleting its folders.

## 7. Not modelled

* The Jetson, FFmpeg and OpenH264 bindings, the audio recorder and the hardware
  recorders: each calls one library, and keeps no queue that two threads share
  but the driver's.
* libargus: its frames go the way of libcamera's.
* ICE candidates, TLS, HTTP and the framing of WebSockets and of data channels:
  a step that takes them is there, their bytes are not.
* `parser`, `main` and what `Conductor` constructs once: sequential. Parsing of
  commands and requests: only whether they are understood.
* `latency_tracer` and the helpers on strings, files and images: they do not
  change what any modelled state depends on.
* The recorder's destructor, conversions of samples and pictures, and volumes.
* LiveKit's two peers negotiate as in `Negotiation`, without collisions, and are
  not modelled a second time.
