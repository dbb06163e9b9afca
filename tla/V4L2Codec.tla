-------------------------------- MODULE V4L2Codec --------------------------------
(* A memory-to-memory codec (codecs/v4l2/v4l2_codec.cpp) with its driver: the      *)
(* producer's thread fills input buffers and pushes a task for each, the codec's   *)
(* worker takes finished buffers from the driver and runs the next task on each    *)
(* picture.  Frames are numbered by their capture; a picture is the frame it shows. *)
EXTENDS Naturals, Sequences, FiniteSets

CONSTANTS Inputs,    \* output buffers, in V4L2's words
          Buffers,   \* capture buffers
          TaskLimit, \* what capturing_tasks_ holds at most
          MaxFrames, \* bound: frames of the camera
          MaxFaults, \* bound: operations that fail
          NoBuffer

ASSUME CodecAssumption ==
  /\ Inputs \in Nat \ {0} /\ TaskLimit \in Nat /\ MaxFrames \in Nat /\ MaxFaults \in Nat
  /\ IsFiniteSet(Buffers) /\ Buffers # {} /\ NoBuffer \notin Buffers

VARIABLES
  codec,    \* "none", "on", or "leaving": its destructor waits for the worker
  free,     \* indices in output_buffer_index_
  filling,  \* EmplaceBuffer: "idle", "pop", "index", "queued"
  frame,    \* the frame that the producer has, or had last
  tasks,    \* capturing_tasks_, by frame
  fed,      \* frames of which the driver has yet to make a picture
  lent,     \* input buffers that it has
  spent,    \* input buffers it is done with
  empties,  \* capture buffers it may fill, in order
  full,     \* capture buffers it has filled
  picture,  \* what each capture buffer shows
  worker,   \* the worker: "select", "dequeued", "task", "requeue", "gone"
  buffer,   \* the capture buffer that it has
  task,     \* the frame whose task it runs
  changed,  \* the driver has announced another resolution
  slips,    \* history: pictures without a task, and tasks without a picture
  faults

inputVars == <<free, filling, frame, tasks>>
driverVars == <<fed, lent, spent, empties, full, picture, changed>>
workerVars == <<worker, buffer, task>>
codecVars == <<codec, inputVars, driverVars, workerVars, slips, faults>>

Frames == 0..MaxFrames

CodecTypeOK ==
  /\ codec \in {"none", "on", "leaving"}
  /\ free \in 0..Inputs /\ lent \in 0..Inputs /\ spent \in 0..Inputs
  /\ filling \in {"idle", "pop", "index", "queued"} /\ frame \in Frames
  /\ tasks \in Seq(Frames) /\ fed \in Seq(Frames)
  /\ empties \in Seq(Buffers) /\ full \in Seq(Buffers)
  /\ picture \in [Buffers -> Frames]
  /\ worker \in {"select", "dequeued", "task", "requeue", "gone"}
  /\ buffer \in Buffers \cup {NoBuffer} /\ task \in Frames
  /\ changed \in BOOLEAN /\ slips \in Nat /\ faults \in 0..MaxFaults

CodecInit ==
  /\ codec = "none"
  /\ free = 0 /\ filling = "idle" /\ frame = 0 /\ tasks = <<>>
  /\ fed = <<>> /\ lent = 0 /\ spent = 0 /\ empties = <<>> /\ full = <<>>
  /\ picture = [b \in Buffers |-> 0] /\ changed = FALSE
  /\ worker = "gone" /\ buffer = NoBuffer /\ task = 0
  /\ slips = 0 /\ faults = 0

-------------------------------------------------------------------------------
(* Queues: ThreadSafeQueue, and the driver's (common/v4l2_utils.cpp). *)

\* A queue that is full refuses.
Push(queue, x) == IF Len(queue) < TaskLimit THEN Append(queue, x) ELSE queue

QueueBuffer(queue, b) == Append(queue, b)
DequeueBuffer(queue) == Tail(queue)

\* StreamOff, DeallocateBuffer, AllocateBuffer and StreamOn: the driver has no buffer.
Reallocate == empties' = <<>> /\ full' = <<>>

-------------------------------------------------------------------------------
(* Construction and destruction, by the producer's thread. *)

\* Each index is free, and each capture buffer is the driver's.
PrepareBuffer(order) ==
  /\ free' = Inputs /\ tasks' = <<>>
  /\ fed' = <<>> /\ lent' = 0 /\ spent' = 0 /\ full' = <<>> /\ empties' = order
  /\ changed' = FALSE

Start(order) ==
  /\ PrepareBuffer(order)
  /\ codec' = "on"
  /\ worker' = "select" /\ buffer' = NoBuffer /\ task' = 0
  /\ slips' = 0
  /\ UNCHANGED picture

\* abort_, and the worker is joined.
Destroy ==
  /\ codec = "on"
  /\ codec' = "leaving"

\* Variant: nobody waits for the worker.
LeaveWithoutJoin ==
  /\ codec = "leaving"
  /\ codec' = "none"
  /\ UNCHANGED <<inputVars, driverVars, workerVars, slips, faults>>

Leave ==
  /\ codec = "leaving" /\ worker = "gone"
  /\ codec' = "none"
  /\ UNCHANGED <<inputVars, driverVars, workerVars, slips, faults>>

-------------------------------------------------------------------------------
(* EmplaceBuffer, whose caller has set frame and filling. *)

\* No index, at once for an encoder and a scaler, after a while for a decoder.
NoIndex ==
  /\ filling = "pop" /\ free = 0
  /\ filling' = "idle"
  /\ UNCHANGED <<codec, free, frame, tasks, driverVars, workerVars, slips, faults>>

PopIndex ==
  /\ filling = "pop" /\ free > 0
  /\ filling' = "index"
  /\ free' = free - 1
  /\ UNCHANGED <<codec, frame, tasks, driverVars, workerVars, slips, faults>>

\* Variant: the index of a frame that is too large is not given back.
NotQueuedKeeps ==
  /\ filling = "index" /\ faults < MaxFaults
  /\ filling' = "idle"
  /\ faults' = faults + 1
  /\ UNCHANGED <<codec, free, frame, tasks, driverVars, workerVars, slips>>

\* The frame is too large, or the driver refuses it.
NotQueued ==
  /\ filling = "index" /\ faults < MaxFaults
  /\ filling' = "idle"
  /\ free' = free + 1
  /\ faults' = faults + 1
  /\ UNCHANGED <<codec, frame, tasks, driverVars, workerVars, slips>>

QueueInput ==
  /\ filling = "index"
  /\ filling' = "queued"
  /\ fed' = QueueBuffer(fed, frame) /\ lent' = lent + 1
  /\ UNCHANGED <<codec, free, frame, tasks, spent, empties, full, picture, changed, workerVars, slips, faults>>

\* Whether the task was taken is not looked at.
PushTask ==
  /\ filling = "queued"
  /\ filling' = "idle"
  /\ tasks' = Push(tasks, frame)
  /\ slips' = IF tasks' = tasks THEN slips + 1 ELSE slips
  /\ UNCHANGED <<codec, free, frame, driverVars, workerVars, faults>>

EmplaceBuffer == NoIndex \/ PopIndex \/ NotQueued \/ QueueInput \/ PushTask

-------------------------------------------------------------------------------
(* The driver. *)

Process ==
  /\ codec # "none" /\ fed # <<>> /\ empties # <<>>
  /\ fed' = Tail(fed)
  /\ empties' = Tail(empties) /\ full' = Append(full, Head(empties))
  /\ picture' = [picture EXCEPT ![Head(empties)] = Head(fed)]
  /\ UNCHANGED <<codec, inputVars, lent, spent, changed, workerVars, slips, faults>>

\* An input from which no picture comes.
Swallow ==
  /\ codec # "none" /\ fed # <<>> /\ faults < MaxFaults
  /\ fed' = Tail(fed)
  /\ slips' = slips + 1 /\ faults' = faults + 1
  /\ UNCHANGED <<codec, inputVars, lent, spent, empties, full, picture, changed, workerVars>>

\* An input may be done with before there is a picture of it, or long after.
ReleaseInput ==
  /\ codec # "none" /\ lent > 0
  /\ lent' = lent - 1 /\ spent' = spent + 1
  /\ UNCHANGED <<codec, inputVars, fed, empties, full, picture, changed, workerVars, slips, faults>>

\* One that the driver keeps for no picture is done with in the end.
Done == lent > Len(fed) /\ ReleaseInput

-------------------------------------------------------------------------------
(* CaptureBuffer, in a loop of the worker. *)

DequeueInput ==
  /\ worker = "select" /\ codec = "on" /\ spent > 0
  /\ spent' = spent - 1
  /\ free' = free + 1
  /\ UNCHANGED <<codec, filling, frame, tasks, fed, lent, empties, full, picture, changed, workerVars, slips, faults>>

DequeueCapture ==
  /\ worker = "select" /\ codec = "on" /\ full # <<>>
  /\ worker' = "dequeued"
  /\ buffer' = Head(full) /\ full' = DequeueBuffer(full)
  /\ UNCHANGED <<codec, inputVars, fed, lent, spent, empties, picture, changed, task, slips, faults>>

\* Variant: the buffer is the driver's again while its task runs.
PopTaskRequeues ==
  /\ worker = "dequeued" /\ codec = "on"
  /\ IF tasks # <<>>
     THEN worker' = "task" /\ task' = Head(tasks) /\ tasks' = Tail(tasks) /\ UNCHANGED slips
     ELSE worker' = "select" /\ slips' = slips + 1 /\ UNCHANGED <<task, tasks>>
  /\ empties' = Append(empties, buffer)
  /\ UNCHANGED <<codec, buffer, free, filling, frame, fed, lent, spent, full, picture, changed, faults>>

\* A picture whose task is not there yet goes unseen.
PopTask ==
  /\ worker = "dequeued" /\ codec = "on"
  /\ IF tasks # <<>>
     THEN worker' = "task" /\ task' = Head(tasks) /\ tasks' = Tail(tasks) /\ UNCHANGED slips
     ELSE worker' = "requeue" /\ slips' = slips + 1 /\ UNCHANGED <<task, tasks>>
  /\ UNCHANGED <<codec, buffer, free, filling, frame, driverVars, faults>>

\* The end of a task, which its owner's action calls.
TaskReturns == worker' = "requeue" /\ UNCHANGED <<buffer, task>>

Requeue ==
  /\ worker = "requeue"
  /\ worker' = "select" /\ buffer' = NoBuffer /\ task' = 0
  /\ empties' = QueueBuffer(empties, buffer)
  /\ UNCHANGED <<codec, inputVars, fed, lent, spent, full, picture, changed, slips, faults>>

\* A buffer that the driver refuses stays away.
RequeueFails ==
  /\ worker = "requeue" /\ faults < MaxFaults
  /\ worker' = "select" /\ buffer' = NoBuffer /\ task' = 0
  /\ faults' = faults + 1
  /\ UNCHANGED <<codec, inputVars, driverVars, slips>>

\* HandleEvent: the capture buffers are allocated anew, and none is queued.
SourceChange ==
  /\ worker = "select" /\ codec = "on" /\ ~changed /\ faults < MaxFaults
  /\ changed' = TRUE
  /\ slips' = slips + Len(full)
  /\ Reallocate
  /\ faults' = faults + 1
  /\ UNCHANGED <<codec, inputVars, fed, lent, spent, picture, workerVars>>

\* Variant: the worker waits for the driver without a time-out.
WorkerEndsWoken ==
  /\ codec = "leaving" /\ worker \in {"select", "dequeued"}
  /\ worker = "select" => spent > 0 \/ full # <<>>
  /\ worker' = "gone" /\ buffer' = NoBuffer /\ task' = 0
  /\ UNCHANGED <<codec, inputVars, driverVars, slips, faults>>

\* abort_ is seen between the steps; a buffer that was taken is not given back.
WorkerEnds ==
  /\ codec = "leaving" /\ worker \in {"select", "dequeued"}
  /\ worker' = "gone" /\ buffer' = NoBuffer /\ task' = 0
  /\ UNCHANGED <<codec, inputVars, driverVars, slips, faults>>

Worker == DequeueInput \/ DequeueCapture \/ PopTask \/ Requeue \/ RequeueFails \/ WorkerEnds

CodecStep == Leave \/ EmplaceBuffer \/ Process \/ Swallow \/ ReleaseInput \/ Worker
=============================================================================
