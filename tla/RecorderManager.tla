----------------------------- MODULE RecorderManager -----------------------------
(* RecorderManager (recorder/recorder_manager.cpp) with the commands of the viewers *)
(* (rtc/conductor.cpp).  The capture thread starts and rotates files inside its      *)
(* frame callback; the signaling thread starts and stops the on-demand recorder for a *)
(* viewer; a thread that ends a peer stops it when that viewer's channel closes; the *)
(* worker of the video recorder writes packets.  Start and CloseCurrentFile hold     *)
(* ctx_mux only around fmt_ctx, so each of their parts is a step and the parts of    *)
(* two threads interleave.  A locked part does not block, so it is one step.         *)
(* The background recorder starts itself and hears no viewer.  Audio, whose recorder has  *)
(* the same shape as video's, paths and images are left out.                         *)
EXTENDS Integers, FiniteSets

CONSTANTS
  Enders,        \* threads that end peers: the cleaner of a registry, or a service's thread
  FileDuration,  \* config.file_duration, in ticks of the camera's clock
  MaxTime,       \* bound: the clock stops here, frames go on
  MaxGap,        \* bound: ticks between two frames
  MaxFailures,   \* bound: failures to open a file or to write a header
  MaxCommands    \* bound: commands and departures of viewers

ASSUME RecorderAssumption ==
  /\ Enders \cap {"capture", "signaling"} = {}
  /\ {FileDuration, MaxGap} \subseteq Nat \ {0}
  /\ {MaxTime, MaxFailures, MaxCommands} \subseteq Nat

VARIABLES
  auto,        \* auto_start_, which does not change
  recording,   \* is_recording_
  ctx,         \* the file of fmt_ctx: see Contexts
  header,      \* header_written_
  fileNumber, base,  \* file_number_, base_start_time_
  worker,      \* of the video recorder: see Workers
  encoder,     \* encoder is not null
  queue,       \* frame_buffer_queue, counted
  pc, why,     \* per thread: the next part, and the operation it belongs to
  now,         \* timestamp of the frame in the callback
  leaked,      \* history: fmt_ctx was overwritten while a file was open
  asked,       \* history: of the two commands, a start came last
  failures, commands \* left

fileVars == <<ctx, header, leaked>>
videoVars == <<worker, encoder, queue>>
clockVars == <<now, fileNumber, base>>
threadVars == <<auto, pc, why>>
viewerVars == <<asked, commands>>
vars == <<recording, fileVars, videoVars, clockVars, threadVars, viewerVars, failures>>

Threads == {"capture", "signaling"} \cup Enders
QueueDepth == 2      \* kFrameQueueDepth
StartParts == {"open", "run", "flag"}
CloseParts == {"clear", "abort", "join", "close"}
Parts == {"idle", "check", "count", "push", "reset"} \cup StartParts \cup CloseParts
Reasons == {"", "auto", "rotate", "start", "stop"}
Workers == {"none", "idle", "busy", "leaving"}   \* leaving: busy with abort_ set
Contexts == {"none", "opened", "begun"}   \* begun: the file has its header

TypeOK ==
  /\ auto \in BOOLEAN /\ recording \in BOOLEAN /\ header \in BOOLEAN /\ encoder \in BOOLEAN
  /\ ctx \in Contexts /\ leaked \in BOOLEAN
  /\ worker \in Workers /\ queue \in 0..QueueDepth
  /\ pc \in [Threads -> Parts] /\ why \in [Threads -> Reasons]
  /\ now \in 0..MaxTime /\ base \in 0..MaxTime /\ fileNumber \in Nat
  /\ asked \in BOOLEAN
  /\ failures \in 0..MaxFailures /\ commands \in 0..MaxCommands

Init ==
  /\ auto \in BOOLEAN
  /\ recording = FALSE /\ ctx = "none" /\ header = FALSE /\ leaked = FALSE
  /\ fileNumber = 0 /\ base = 0 /\ now = 0
  /\ worker = "none" /\ encoder = FALSE /\ queue = 0
  /\ pc = [t \in Threads |-> "idle"] /\ why = [t \in Threads |-> ""]
  /\ asked = FALSE /\ failures = MaxFailures /\ commands = MaxCommands

Begin(t, part, reason) == pc' = [pc EXCEPT ![t] = part] /\ why' = [why EXCEPT ![t] = reason] /\ UNCHANGED auto
Goto(t, part) == Begin(t, part, IF part = "idle" THEN "" ELSE why[t])

-------------------------------------------------------------------------------
(* Start *)

\* Where t goes on after Start.
StartReturns(t) ==
  Goto(t, CASE why[t] = "auto" -> "check" [] why[t] = "rotate" -> "count" [] OTHER -> "idle")

\* Variant: header_written_ is not reset.
OpenFileKeepsHeader(t) ==
  /\ pc[t] = "open"
  /\ \/ /\ ctx' = "opened" /\ leaked' = (leaked \/ ctx # "none")
        /\ encoder' = TRUE
        /\ Goto(t, "run")
        /\ UNCHANGED <<header, failures>>
     \/ /\ failures > 0 /\ failures' = failures - 1
        /\ ctx' = "none" /\ leaked' = (leaked \/ ctx # "none")
        /\ StartReturns(t)
        /\ UNCHANGED <<header, encoder>>
  /\ UNCHANGED <<recording, worker, queue, clockVars, viewerVars>>

\* fmt_ctx is overwritten whatever it was, and AddStream makes a new encoder.
OpenFile(t) ==
  /\ pc[t] = "open"
  /\ \/ /\ ctx' = "opened" /\ leaked' = (leaked \/ ctx # "none")
        /\ header' = FALSE
        /\ encoder' = TRUE
        /\ Goto(t, "run")
        /\ UNCHANGED failures
     \/ /\ failures > 0 /\ failures' = failures - 1
        /\ ctx' = "none" /\ leaked' = (leaked \/ ctx # "none")
        /\ StartReturns(t)
        /\ UNCHANGED <<header, encoder>>
  /\ UNCHANGED <<recording, worker, queue, clockVars, viewerVars>>

\* OnStart waits for the encoder and clears the queue; the new worker replaces one that
\* may still run.
RunRecorder(t) ==
  /\ pc[t] = "run"
  /\ worker \in {"none", "idle"}
  /\ worker' = "idle" /\ queue' = 0
  /\ Goto(t, "flag")
  /\ UNCHANGED <<recording, fileVars, encoder, clockVars, viewerVars, failures>>

SetRecording(t) ==
  /\ pc[t] = "flag"
  /\ recording' = TRUE
  /\ StartReturns(t)
  /\ UNCHANGED <<fileVars, videoVars, clockVars, viewerVars, failures>>

-------------------------------------------------------------------------------
(* CloseCurrentFile, and Stop *)

ClearRecording(t) ==
  /\ pc[t] = "clear"
  /\ recording' = FALSE
  /\ Goto(t, "abort")
  /\ UNCHANGED <<fileVars, videoVars, clockVars, viewerVars, failures>>

AbortWorker(t) ==
  /\ pc[t] = "abort"
  /\ worker' = IF worker \in {"busy", "leaving"} THEN "leaving" ELSE "none"
  /\ Goto(t, "join")
  /\ UNCHANGED <<recording, fileVars, encoder, queue, clockVars, viewerVars, failures>>

\* Variant: the worker is joined with its abort flag unset.
JoinWorkerIdle(t) ==
  /\ pc[t] = "join"
  /\ worker = "idle"
  /\ encoder' = FALSE
  /\ Goto(t, "close")
  /\ UNCHANGED <<recording, fileVars, worker, queue, clockVars, viewerVars, failures>>

JoinWorker(t) ==
  /\ pc[t] = "join"
  /\ worker # "leaving"
  /\ encoder' = FALSE
  /\ Goto(t, "close")
  /\ UNCHANGED <<recording, fileVars, worker, queue, clockVars, viewerVars, failures>>

\* Variant: a file without a header is not freed.
CloseFileWithHeader(t) ==
  /\ pc[t] = "close"
  /\ ctx' = IF header THEN "none" ELSE ctx
  /\ header' = FALSE
  /\ Goto(t, IF why[t] = "rotate" THEN "open" ELSE "reset")
  /\ UNCHANGED <<recording, leaked, videoVars, clockVars, viewerVars, failures>>

CloseFile(t) ==
  /\ pc[t] = "close"
  /\ ctx' = "none" /\ header' = FALSE
  /\ Goto(t, IF why[t] = "rotate" THEN "open" ELSE "reset")
  /\ UNCHANGED <<recording, leaked, videoVars, clockVars, viewerVars, failures>>

ResetNumber(t) ==
  /\ pc[t] = "reset"
  /\ fileNumber' = 0
  /\ Goto(t, "idle")
  /\ UNCHANGED <<recording, fileVars, videoVars, now, base, viewerVars, failures>>

-------------------------------------------------------------------------------
(* The capture thread: the callback of SubscribeVideoSource. *)

AtMost(a, b) == IF a < b THEN a ELSE b

\* Variant: the recorder is started once.
FrameStartsOnce(gap) ==
  /\ pc["capture"] = "idle"
  /\ now' = AtMost(now + gap, MaxTime)
  /\ IF auto /\ fileNumber = 0
     THEN Begin("capture", "open", "auto")
     ELSE Begin("capture", "check", "")
  /\ UNCHANGED <<recording, fileVars, videoVars, fileNumber, base, viewerVars, failures>>

Frame(gap) ==
  /\ pc["capture"] = "idle"
  /\ now' = AtMost(now + gap, MaxTime)
  /\ IF auto /\ ~recording
     THEN Begin("capture", "open", "auto")
     ELSE Begin("capture", "check", "")
  /\ UNCHANGED <<recording, fileVars, videoVars, fileNumber, base, viewerVars, failures>>

FirstNumber == IF fileNumber = 0 THEN 1 ELSE fileNumber
FirstBase == IF fileNumber = 0 THEN now ELSE base
RotationDue == now - FirstBase >= FirstNumber * FileDuration

\* Variant: the file before is not closed.
CheckFrameOnlyStarts ==
  /\ pc["capture"] = "check"
  /\ IF recording
     THEN /\ fileNumber' = FirstNumber /\ base' = FirstBase
          /\ IF RotationDue THEN Begin("capture", "open", "rotate") ELSE Begin("capture", "push", "")
     ELSE Begin("capture", "idle", "") /\ UNCHANGED <<fileNumber, base>>
  /\ UNCHANGED <<recording, fileVars, videoVars, now, viewerVars, failures>>

\* Variant: there is nothing to rotate without a file.
CheckFrameWithFile ==
  /\ pc["capture"] = "check"
  /\ IF recording
     THEN /\ fileNumber' = FirstNumber /\ base' = FirstBase
          /\ IF RotationDue /\ ctx # "none" THEN Begin("capture", "clear", "rotate") ELSE Begin("capture", "push", "")
     ELSE Begin("capture", "idle", "") /\ UNCHANGED <<fileNumber, base>>
  /\ UNCHANGED <<recording, fileVars, videoVars, now, viewerVars, failures>>

CheckFrame ==
  /\ pc["capture"] = "check"
  /\ IF recording
     THEN /\ fileNumber' = FirstNumber /\ base' = FirstBase
          /\ IF RotationDue THEN Begin("capture", "clear", "rotate") ELSE Begin("capture", "push", "")
     ELSE Begin("capture", "idle", "") /\ UNCHANGED <<fileNumber, base>>
  /\ UNCHANGED <<recording, fileVars, videoVars, now, viewerVars, failures>>

CountFile ==
  /\ pc["capture"] = "count"
  /\ fileNumber' = fileNumber + 1
  /\ Begin("capture", "push", "")
  /\ UNCHANGED <<recording, fileVars, videoVars, now, base, viewerVars, failures>>

\* A full queue drops the frame.
PushFrame ==
  /\ pc["capture"] = "push"
  /\ queue' = AtMost(queue + 1, QueueDepth)
  /\ Begin("capture", "idle", "")
  /\ UNCHANGED <<recording, fileVars, worker, encoder, clockVars, viewerVars, failures>>

-------------------------------------------------------------------------------
(* The worker of the video recorder. *)

\* ConsumeBuffer: without an encoder the frame is lost.
TakeFrame ==
  /\ worker = "idle" /\ queue > 0
  /\ queue' = queue - 1
  /\ worker' = IF encoder THEN "busy" ELSE "idle"
  /\ UNCHANGED <<recording, fileVars, encoder, clockVars, threadVars, viewerVars, failures>>

\* WriteIntoFile.  The first packet of a file that is written is a key frame and brings
\* the header; without its header the file is given up.
WriteIntoFile ==
  /\ worker \in {"busy", "leaving"}
  /\ worker' = IF worker = "busy" THEN "idle" ELSE "none"
  /\ \/ /\ ctx = "none" \/ ~recording \/ header    \* dropped, or appended to the file
        /\ UNCHANGED <<ctx, header, failures>>
     \/ /\ ctx # "none" /\ recording /\ ~header
        /\ \/ UNCHANGED <<ctx, header, failures>>    \* not a key frame
           \/ header' = TRUE /\ ctx' = "begun" /\ UNCHANGED failures
           \/ /\ failures > 0 /\ failures' = failures - 1
              /\ ctx' = "none"
              /\ UNCHANGED header
  /\ UNCHANGED <<recording, leaked, encoder, queue, clockVars, threadVars, viewerVars>>

-------------------------------------------------------------------------------
(* The viewers' commands, one at a time on the signaling thread, and their leaving, on *)
(* the threads that end their peers.                                                  *)

Request(t) == ~auto /\ pc[t] = "idle" /\ commands > 0 /\ commands' = commands - 1

StartRecording ==
  /\ Request("signaling")
  /\ asked' = TRUE
  /\ Begin("signaling", "open", "start")
  /\ UNCHANGED <<recording, fileVars, videoVars, clockVars, failures>>

StopRecording ==
  /\ Request("signaling")
  /\ asked' = FALSE
  /\ Begin("signaling", "clear", "stop")
  /\ UNCHANGED <<recording, fileVars, videoVars, clockVars, failures>>

\* Terminate of a viewer's command channel calls OnClosed of RegisterCommandHandlers.
ViewerLeaves(t) ==
  /\ Request(t)
  /\ IF recording THEN Begin(t, "clear", "stop") ELSE UNCHANGED threadVars
  /\ UNCHANGED <<recording, fileVars, videoVars, clockVars, asked, failures>>

-------------------------------------------------------------------------------

Part(t) ==
  OpenFile(t) \/ RunRecorder(t) \/ SetRecording(t)
    \/ ClearRecording(t) \/ AbortWorker(t) \/ JoinWorker(t) \/ CloseFile(t) \/ ResetNumber(t)
CaptureStep == Part("capture") \/ CheckFrame \/ CountFile \/ PushFrame
WorkerStep == TakeFrame \/ WriteIntoFile
NextFrame == \E gap \in 1..MaxGap : Frame(gap)

Next ==
  \/ CaptureStep \/ NextFrame
  \/ \E t \in Threads \ {"capture"} : Part(t)
  \/ WorkerStep
  \/ StartRecording \/ StopRecording
  \/ \E t \in Enders : ViewerLeaves(t)

\* The threads run and the camera goes on; viewers may do nothing.  The encoder's mutex is
\* granted in the end, and a join returns though another worker was started since.
Fairness ==
  /\ WF_vars(NextFrame) /\ WF_vars(WorkerStep)
  /\ SF_vars(CaptureStep) /\ \A t \in Threads \ {"capture"} : SF_vars(Part(t))

Spec == Init /\ [][Next]_vars /\ Fairness

-------------------------------------------------------------------------------
(* Properties. *)

CaptureIdle == pc["capture"] = "idle"
AllIdle == \A t \in Threads : pc[t] = "idle"

\* av_write_trailer may only be called on a context whose header was written
\* (CloseCurrentFile): header_written_ speaks of the file that is open, for any
\* interleaving of Start, CloseCurrentFile and WriteIntoFile.
HeaderMatchesFile == header => ctx # "opened"

\* Start never overwrites a file that is open, which would stay without its trailer
\* (background recorder).
NoFileLeaked == auto => ~leaked

\* When no operation is under way and nothing is recorded, no file is open and no worker
\* runs, however the operations before interleaved.
QuietWhenOff == AllIdle /\ ~recording => ctx = "none" /\ worker = "none"

\* Types, and a recorder that is off keeps nothing (CloseCurrentFile).
RecorderInv == TypeOK /\ QuietWhenOff

\* Rotation and Stop, in any order, leave no file without a trailer and no trailer without a header.
FilesAreWhole == NoFileLeaked /\ HeaderMatchesFile

\* Stop, which waits for the worker, always returns, and so does the frame callback.
CallsReturn == \A t \in Threads : []<>(pc[t] = "idle")

\* "recording never stops" (docs/recording/README.md): once nothing fails any more the
\* background recorder records again and never goes off for good; and when the header of a
\* file could not be written (WriteIntoFile), the next rotation that is due opens another.
KeepsRecording ==
  auto => /\ []<>(recording /\ CaptureIdle /\ worker # "none")
          /\ (ctx = "none" /\ (recording => RotationDue)) ~> ctx # "none"

\* "stop_recording: stops on-demand recording" (docs/reference/datachannels.md): once the
\* last command was a stop, and it has returned, nothing is recorded.
StopHolds == ~auto /\ AllIdle /\ ~asked => ~recording
=============================================================================
