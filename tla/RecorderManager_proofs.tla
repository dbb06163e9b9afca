------------------------- MODULE RecorderManager_proofs -------------------------
(* Proofs about the two sides of recorder_manager.cpp: RecorderManager, for any file   *)
(* duration, camera, failures, commands and peer-ending threads, and DiskRotation, for *)
(* any calendar and number of recordings, one recorder or both; and about the queries  *)
(* of media_query.cpp, for any archive.                                               *)
EXTENDS RecorderManager, RecordingFiles,
        SequenceTheorems, FiniteSetTheorems, WellFoundedInduction, TLAPS

-------------------------------------------------------------------------------
(* While nothing is recorded, whoever left a file open or a worker running has not *)
(* come to the part that closes the one or ends the other.                         *)

At(part) == \E t \in Threads : pc[t] = part

NoFileLeft == ~recording => ctx = "none" \/ \E part \in {"run", "flag", "abort", "join", "close"} : At(part)

NoWorkerLeft == ~recording => worker = "none" \/ At("flag") \/ At("abort") \/ (worker = "leaving" /\ At("join"))

(* The background recorder opens a file only when it has none. *)
OpensInTurn ==
  auto => (\A t \in Threads \ {"capture"} : pc[t] = "idle") /\ (pc["capture"] = "open" => ctx = "none")

Leftovers == NoFileLeft /\ NoWorkerLeft

IInv == TypeOK /\ Leftovers /\ OpensInTurn /\ FilesAreWhole

-------------------------------------------------------------------------------
(* Types, by the groups of variables that an action changes together. *)

FileTypes ==
  /\ ctx \in Contexts /\ header \in BOOLEAN /\ leaked \in BOOLEAN
VideoTypes == worker \in Workers /\ queue \in 0..QueueDepth /\ encoder \in BOOLEAN
ClockTypes == now \in 0..MaxTime /\ base \in 0..MaxTime /\ fileNumber \in Nat
ThreadTypes == auto \in BOOLEAN /\ pc \in [Threads -> Parts] /\ why \in [Threads -> Reasons]
RestTypes ==
  /\ recording \in BOOLEAN /\ asked \in BOOLEAN
  /\ failures \in 0..MaxFailures /\ commands \in 0..MaxCommands

LEMMA Types == TypeOK <=> FileTypes /\ VideoTypes /\ ClockTypes /\ ThreadTypes /\ RestTypes
  BY DEF TypeOK, FileTypes, VideoTypes, ClockTypes, ThreadTypes, RestTypes

LEMMA TypesNext ==
  ASSUME FileTypes', VideoTypes', ClockTypes', ThreadTypes', RestTypes'
  PROVE  TypeOK'
  BY DEF TypeOK, FileTypes, VideoTypes, ClockTypes, ThreadTypes, RestTypes

LEMMA FilesSame == ASSUME FileTypes, UNCHANGED fileVars PROVE FileTypes'
  BY DEF FileTypes, fileVars

LEMMA VideoSame == ASSUME VideoTypes, UNCHANGED videoVars PROVE VideoTypes'
  BY DEF VideoTypes, videoVars

LEMMA ClockSame == ASSUME ClockTypes, UNCHANGED clockVars PROVE ClockTypes'
  BY DEF ClockTypes, clockVars

LEMMA ThreadsSame == ASSUME ThreadTypes, UNCHANGED threadVars PROVE ThreadTypes'
  BY DEF ThreadTypes, threadVars

LEMMA RestSame == ASSUME RestTypes, UNCHANGED <<recording, viewerVars, failures>> PROVE RestTypes'
  BY DEF RestTypes, viewerVars

(* A failure is one of the failures left. *)
LEMMA OneFailure ==
  ASSUME RestTypes, failures > 0, failures' = failures - 1, UNCHANGED <<recording, viewerVars>>
  PROVE  RestTypes'
<1>1. failures \in 0..MaxFailures /\ MaxFailures \in Nat
  BY RecorderAssumption DEF RestTypes
<1>2. failures' \in 0..MaxFailures
  BY <1>1
<1>3. QED
  BY <1>2 DEF RestTypes, viewerVars

(* Where a thread goes on. *)
LEMMA BeginTypes ==
  ASSUME ThreadTypes, NEW t \in Threads, NEW part \in Parts, NEW reason \in Reasons,
         Begin(t, part, reason)
  PROVE  ThreadTypes' /\ auto' = auto /\ pc'[t] = part /\ \A u \in Threads \ {t} : pc'[u] = pc[u]
  BY DEF ThreadTypes, Begin

LEMMA GotoTypes ==
  ASSUME ThreadTypes, NEW t \in Threads, NEW part \in Parts, Goto(t, part)
  PROVE  ThreadTypes' /\ auto' = auto /\ pc'[t] = part /\ \A u \in Threads \ {t} : pc'[u] = pc[u]
<1>1. PICK reason \in Reasons : Begin(t, part, reason)
  BY DEF ThreadTypes, Goto, Reasons
<1>2. QED
  BY <1>1, BeginTypes

LEMMA ReturnTypes ==
  ASSUME ThreadTypes, NEW t \in Threads, StartReturns(t)
  PROVE  \E part \in {"check", "count", "idle"} :
           /\ ThreadTypes' /\ auto' = auto /\ pc'[t] = part
           /\ \A u \in Threads \ {t} : pc'[u] = pc[u]
<1>1. PICK part \in {"check", "count", "idle"} : Goto(t, part)
  BY DEF StartReturns
<1>2. part \in Parts
  BY DEF Parts
<1>3. QED
  BY <1>1, <1>2, GotoTypes

-------------------------------------------------------------------------------
(* The invariant from its parts. *)

LEMMA Initial == Init => IInv
<1> SUFFICES ASSUME Init PROVE IInv
  OBVIOUS
<1>1. /\ auto \in BOOLEAN /\ recording \in BOOLEAN /\ header \in BOOLEAN /\ encoder \in BOOLEAN
      /\ leaked \in BOOLEAN /\ ~recording /\ ~header /\ ~leaked
  BY DEF Init
<1>2. ctx = "none" /\ worker = "none" /\ queue = 0
  BY DEF Init
<1>11. ctx \in Contexts /\ queue \in 0..QueueDepth /\ worker \in Workers
  BY <1>2 DEF Workers, QueueDepth, Contexts
<1>12. FileTypes /\ VideoTypes
  BY <1>1, <1>2, <1>11 DEF FileTypes, VideoTypes
<1>13. now = 0 /\ base = 0 /\ fileNumber = 0 /\ failures = MaxFailures /\ commands = MaxCommands /\ asked = FALSE
  BY DEF Init
<1>14. MaxTime \in Nat /\ MaxFailures \in Nat /\ MaxCommands \in Nat
  BY RecorderAssumption
<1>15. failures \in 0..MaxFailures /\ commands \in 0..MaxCommands
  BY <1>13, <1>14
<1>3. ClockTypes
  BY <1>13, <1>14 DEF ClockTypes
<1>4. pc \in [Threads -> Parts] /\ why \in [Threads -> Reasons] /\ \A t \in Threads : pc[t] = "idle"
  BY DEF Init, Parts, Reasons
<1>5. ThreadTypes /\ RestTypes
  BY <1>1, <1>4, <1>13, <1>15 DEF ThreadTypes, RestTypes
<1>6. Leftovers /\ OpensInTurn
  BY <1>2, <1>4 DEF Leftovers, NoFileLeft, NoWorkerLeft, OpensInTurn, Threads
<1>7. FilesAreWhole
  BY <1>1, <1>2 DEF FilesAreWhole, NoFileLeaked, HeaderMatchesFile
<1>8. QED
  BY <1>3, <1>5, <1>6, <1>7, <1>12, Types DEF IInv

(* No file is open and no worker runs once all threads are done. *)
LEMMA Off == IInv => QuietWhenOff
  BY DEF IInv, Leftovers, NoFileLeft, NoWorkerLeft, At, QuietWhenOff, AllIdle

(* Files that stay as they are stay whole. *)
LEMMA WholeSame ==
  ASSUME FilesAreWhole, UNCHANGED fileVars, auto' = auto
  PROVE  FilesAreWhole'
  BY DEF FilesAreWhole, NoFileLeaked, HeaderMatchesFile, fileVars

(* A thread that moves on, from a part that leaves nothing behind. *)
Moves(t) == auto' = auto /\ \A u \in Threads \ {t} : pc'[u] = pc[u]

LEMMA FileMove ==
  ASSUME IInv, NEW t \in Threads, Moves(t), recording' = recording,
         ctx' \in {ctx, "none"}, pc[t] \notin {"run", "flag", "abort", "join", "close"}
  PROVE  NoFileLeft'
  BY DEF IInv, Leftovers, NoFileLeft, At, Moves

LEMMA WorkerMove ==
  ASSUME IInv, NEW t \in Threads, Moves(t), recording' = recording,
         worker' = worker, pc[t] \notin {"flag", "abort", "join"}
  PROVE  NoWorkerLeft'
  BY DEF IInv, Leftovers, NoWorkerLeft, At, Moves

LEMMA InTurn ==
  ASSUME IInv, NEW t \in Threads, Moves(t), auto => t = "capture",
         auto /\ pc'[t] = "open" => ctx' = "none"
  PROVE  OpensInTurn'
  BY DEF IInv, OpensInTurn, Moves, Threads

(* An operation of the background recorder is one of the capture thread. *)
LEMMA Whose == ASSUME IInv, NEW t \in Threads, pc[t] # "idle" PROVE auto => t = "capture"
  BY DEF IInv, OpensInTurn, Threads

-------------------------------------------------------------------------------
(* Start *)

LEMMA OpenFileKeeps == ASSUME IInv, NEW t \in Threads, OpenFile(t) PROVE IInv'
<1>1. /\ pc[t] = "open" /\ recording' = recording /\ worker' = worker /\ leaked' = (leaked \/ ctx # "none")
      /\ UNCHANGED <<queue, clockVars, viewerVars>>
  BY DEF OpenFile
<1>2. FileTypes /\ VideoTypes /\ ClockTypes /\ ThreadTypes /\ RestTypes
  BY Types DEF IInv
<1>3. auto => t = "capture" /\ ctx = "none"
  BY <1>1, Whose DEF IInv, OpensInTurn
<1>4. ClockTypes' /\ leaked' \in BOOLEAN
  BY <1>1, <1>2, ClockSame
<1>5. auto => ~leaked'
  BY <1>1, <1>3 DEF IInv, FilesAreWhole, NoFileLeaked
<1>6. CASE ctx' = "opened" /\ header' = FALSE /\ encoder' = TRUE /\ Goto(t, "run") /\ UNCHANGED failures
  <2>1. ThreadTypes' /\ Moves(t) /\ pc'[t] = "run"
    BY <1>2, <1>6, GotoTypes DEF Moves, Parts, StartParts
  <2>2. header' \in BOOLEAN /\ encoder' \in BOOLEAN /\ ~header'
    BY <1>6
  <2>3. FileTypes' /\ VideoTypes'
    BY <1>1, <1>2, <1>4, <1>6, <2>2 DEF FileTypes, VideoTypes, Contexts
  <2>4. RestTypes'
    BY <1>1, <1>2, <1>6, RestSame
  <2>5. NoFileLeft'
    BY <2>1 DEF NoFileLeft, At
  <2>6. NoWorkerLeft'
    BY <1>1, <2>1, WorkerMove
  <2>7. OpensInTurn'
    BY <1>1, <1>3, <2>1, InTurn
  <2>8. FilesAreWhole'
    BY <1>5, <2>1, <2>2 DEF FilesAreWhole, NoFileLeaked, HeaderMatchesFile, Moves
  <2>9. QED
    BY <1>4, <2>1, <2>3, <2>4, <2>5, <2>6, <2>7, <2>8, TypesNext DEF IInv, Leftovers
<1>7. CASE /\ failures > 0 /\ failures' = failures - 1 /\ ctx' = "none" /\ StartReturns(t)
           /\ UNCHANGED <<header, encoder>>
  <2>1. PICK part \in {"check", "count", "idle"} : ThreadTypes' /\ Moves(t) /\ pc'[t] = part
    BY <1>2, <1>7, ReturnTypes DEF Moves
  <2>2. FileTypes' /\ VideoTypes'
    BY <1>1, <1>2, <1>4, <1>7 DEF FileTypes, VideoTypes, Contexts
  <2>3. RestTypes'
    BY <1>1, <1>2, <1>7, OneFailure
  <2>4. Leftovers'
    BY <1>1, <1>7, <2>1, FileMove, WorkerMove DEF Leftovers
  <2>5. OpensInTurn'
    BY <1>3, <2>1, <1>7, InTurn
  <2>6. FilesAreWhole'
    BY <1>5, <1>7, <2>1 DEF FilesAreWhole, NoFileLeaked, HeaderMatchesFile, Moves
  <2>7. QED
    BY <1>4, <2>1, <2>2, <2>3, <2>4, <2>5, <2>6, TypesNext DEF IInv
<1>8. QED
  BY <1>6, <1>7 DEF OpenFile

LEMMA RunRecorderKeeps == ASSUME IInv, NEW t \in Threads, RunRecorder(t) PROVE IInv'
<1>1. /\ pc[t] = "run" /\ worker' = "idle" /\ queue' = 0 /\ Goto(t, "flag")
      /\ UNCHANGED <<recording, fileVars, encoder, clockVars, viewerVars, failures>>
  BY DEF RunRecorder
<1>2. FileTypes /\ VideoTypes /\ ClockTypes /\ ThreadTypes /\ RestTypes
  BY Types DEF IInv
<1>3. ThreadTypes' /\ Moves(t) /\ pc'[t] = "flag"
  BY <1>1, <1>2, GotoTypes DEF Moves, Parts, StartParts
<1>4. FileTypes' /\ ClockTypes' /\ RestTypes'
  BY <1>1, <1>2, FilesSame, ClockSame, RestSame
<1>5. VideoTypes'
  BY <1>1, <1>2 DEF VideoTypes, Workers, QueueDepth
<1>6. Leftovers'
  BY <1>3 DEF Leftovers, NoFileLeft, NoWorkerLeft, At
<1>7. OpensInTurn' /\ FilesAreWhole'
  BY <1>1, <1>3, Whose, InTurn, WholeSame DEF IInv, Moves
<1>8. QED
  BY <1>3, <1>4, <1>5, <1>6, <1>7, TypesNext DEF IInv

LEMMA SetRecordingKeeps == ASSUME IInv, NEW t \in Threads, SetRecording(t) PROVE IInv'
<1>1. /\ pc[t] = "flag" /\ recording' = TRUE /\ StartReturns(t)
      /\ UNCHANGED <<fileVars, videoVars, clockVars, viewerVars, failures>>
  BY DEF SetRecording
<1>2. FileTypes /\ VideoTypes /\ ClockTypes /\ ThreadTypes /\ RestTypes
  BY Types DEF IInv
<1>3. PICK part \in {"check", "count", "idle"} : ThreadTypes' /\ Moves(t) /\ pc'[t] = part
  BY <1>1, <1>2, ReturnTypes DEF Moves
<1>4. FileTypes' /\ VideoTypes' /\ ClockTypes'
  BY <1>1, <1>2, FilesSame, VideoSame, ClockSame
<1>5. recording' \in BOOLEAN
  BY <1>1
<1>6. RestTypes'
  BY <1>1, <1>2, <1>5 DEF RestTypes, viewerVars
<1>7. Leftovers'
  BY <1>1 DEF Leftovers, NoFileLeft, NoWorkerLeft
<1>8. OpensInTurn' /\ FilesAreWhole'
  BY <1>1, <1>3, Whose, InTurn, WholeSame DEF IInv, Moves
<1>9. QED
  BY <1>3, <1>4, <1>6, <1>7, <1>8, TypesNext DEF IInv

-------------------------------------------------------------------------------
(* CloseCurrentFile, and Stop *)

LEMMA ClearRecordingKeeps == ASSUME IInv, NEW t \in Threads, ClearRecording(t) PROVE IInv'
<1>1. /\ pc[t] = "clear" /\ recording' = FALSE /\ Goto(t, "abort")
      /\ UNCHANGED <<fileVars, videoVars, clockVars, viewerVars, failures>>
  BY DEF ClearRecording
<1>2. FileTypes /\ VideoTypes /\ ClockTypes /\ ThreadTypes /\ RestTypes
  BY Types DEF IInv
<1>3. ThreadTypes' /\ Moves(t) /\ pc'[t] = "abort"
  BY <1>1, <1>2, GotoTypes DEF Moves, Parts, CloseParts
<1>4. FileTypes' /\ VideoTypes' /\ ClockTypes'
  BY <1>1, <1>2, FilesSame, VideoSame, ClockSame
<1>5. recording' \in BOOLEAN
  BY <1>1
<1>6. RestTypes'
  BY <1>1, <1>2, <1>5 DEF RestTypes, viewerVars
<1>7. Leftovers'
  BY <1>3 DEF Leftovers, NoFileLeft, NoWorkerLeft, At
<1>8. OpensInTurn' /\ FilesAreWhole'
  BY <1>1, <1>3, Whose, InTurn, WholeSame DEF IInv, Moves
<1>9. QED
  BY <1>3, <1>4, <1>6, <1>7, <1>8, TypesNext DEF IInv

LEMMA AbortWorkerKeeps == ASSUME IInv, NEW t \in Threads, AbortWorker(t) PROVE IInv'
<1>1. /\ pc[t] = "abort" /\ worker' \in {"leaving", "none"} /\ Goto(t, "join")
      /\ UNCHANGED <<recording, fileVars, encoder, queue, clockVars, viewerVars, failures>>
  BY DEF AbortWorker
<1>2. FileTypes /\ VideoTypes /\ ClockTypes /\ ThreadTypes /\ RestTypes
  BY Types DEF IInv
<1>3. ThreadTypes' /\ Moves(t) /\ pc'[t] = "join"
  BY <1>1, <1>2, GotoTypes DEF Moves, Parts, CloseParts
<1>4. FileTypes' /\ ClockTypes' /\ RestTypes'
  BY <1>1, <1>2, FilesSame, ClockSame, RestSame
<1>5. VideoTypes'
  BY <1>1, <1>2 DEF VideoTypes, Workers
<1>6. Leftovers'
  BY <1>1, <1>3 DEF Leftovers, NoFileLeft, NoWorkerLeft, At
<1>7. OpensInTurn' /\ FilesAreWhole'
  BY <1>1, <1>3, Whose, InTurn, WholeSame DEF IInv, Moves
<1>8. QED
  BY <1>3, <1>4, <1>5, <1>6, <1>7, TypesNext DEF IInv

(* The worker has left, unless another thread has started one or will end it. *)
LEMMA JoinWorkerKeeps == ASSUME IInv, NEW t \in Threads, JoinWorker(t) PROVE IInv'
<1>1. /\ pc[t] = "join" /\ worker # "leaving" /\ encoder' = FALSE /\ Goto(t, "close")
      /\ UNCHANGED <<recording, fileVars, worker, queue, clockVars, viewerVars, failures>>
  BY DEF JoinWorker
<1>2. FileTypes /\ VideoTypes /\ ClockTypes /\ ThreadTypes /\ RestTypes
  BY Types DEF IInv
<1>3. ThreadTypes' /\ Moves(t) /\ pc'[t] = "close"
  BY <1>1, <1>2, GotoTypes DEF Moves, Parts, CloseParts
<1>4. FileTypes' /\ ClockTypes' /\ RestTypes'
  BY <1>1, <1>2, FilesSame, ClockSame, RestSame
<1>5. encoder' \in BOOLEAN
  BY <1>1
<1>6. VideoTypes'
  BY <1>1, <1>2, <1>5 DEF VideoTypes
<1>7. NoFileLeft'
  BY <1>3 DEF NoFileLeft, At
<1>8. NoWorkerLeft'
  BY <1>1, <1>3 DEF IInv, Leftovers, NoWorkerLeft, At, Moves
<1>9. OpensInTurn' /\ FilesAreWhole'
  BY <1>1, <1>3, Whose, InTurn, WholeSame DEF IInv, Moves
<1>10. QED
  BY <1>3, <1>4, <1>6, <1>7, <1>8, <1>9, TypesNext DEF IInv, Leftovers

LEMMA CloseFileKeeps == ASSUME IInv, NEW t \in Threads, CloseFile(t) PROVE IInv'
<1>1. /\ pc[t] = "close" /\ ctx' = "none" /\ header' = FALSE
      /\ UNCHANGED <<recording, leaked, videoVars, clockVars, viewerVars, failures>>
  BY DEF CloseFile
<1>2. FileTypes /\ VideoTypes /\ ClockTypes /\ ThreadTypes /\ RestTypes
  BY Types DEF IInv
<1>3. PICK part \in {"open", "reset"} : Goto(t, part)
  BY DEF CloseFile
<1>4. ThreadTypes' /\ Moves(t)
  BY <1>2, <1>3, GotoTypes DEF Moves, Parts, StartParts
<1>5. VideoTypes' /\ ClockTypes' /\ RestTypes'
  BY <1>1, <1>2, VideoSame, ClockSame, RestSame
<1>6. header' \in BOOLEAN /\ ~header'
  BY <1>1
<1>7. FileTypes'
  BY <1>1, <1>2, <1>6 DEF FileTypes, Contexts
<1>8. Leftovers'
  BY <1>1, <1>4, WorkerMove DEF Leftovers, NoFileLeft, videoVars
<1>9. OpensInTurn'
  BY <1>1, <1>4, Whose, InTurn
<1>10. FilesAreWhole'
  BY <1>1, <1>4, <1>6 DEF IInv, FilesAreWhole, NoFileLeaked, HeaderMatchesFile, Moves
<1>11. QED
  BY <1>4, <1>5, <1>7, <1>8, <1>9, <1>10, TypesNext DEF IInv

(* A thread that moves on without touching files, worker and flag. *)
LEMMA MovesOn ==
  ASSUME IInv, NEW t \in Threads, Moves(t), ThreadTypes', ClockTypes', RestTypes', VideoTypes',
         UNCHANGED <<recording, fileVars, worker>>,
         pc[t] \in {"idle", "check", "count", "push", "reset"}, auto => t = "capture",
         auto /\ pc'[t] = "open" => ctx = "none"
  PROVE  IInv'
<1>1. FileTypes'
  BY Types, FilesSame DEF IInv
<1>2. ctx' = ctx
  BY DEF fileVars
<1>3. Leftovers'
  BY <1>2, FileMove, WorkerMove DEF Leftovers
<1>4. OpensInTurn' /\ FilesAreWhole'
  BY <1>2, InTurn, WholeSame DEF IInv, Moves
<1>5. QED
  BY <1>1, <1>3, <1>4, TypesNext DEF IInv

LEMMA ResetNumberKeeps == ASSUME IInv, NEW t \in Threads, ResetNumber(t) PROVE IInv'
<1>1. /\ pc[t] = "reset" /\ fileNumber' = 0 /\ Goto(t, "idle")
      /\ UNCHANGED <<recording, fileVars, videoVars, now, base, viewerVars, failures>>
  BY DEF ResetNumber
<1>2. VideoTypes /\ ClockTypes /\ ThreadTypes /\ RestTypes
  BY Types DEF IInv
<1>3. ThreadTypes' /\ Moves(t) /\ pc'[t] = "idle"
  BY <1>1, <1>2, GotoTypes DEF Moves, Parts
<1>4. ClockTypes'
  BY <1>1, <1>2 DEF ClockTypes
<1>5. VideoTypes' /\ RestTypes' /\ UNCHANGED worker
  BY <1>1, <1>2, VideoSame, RestSame DEF videoVars
<1>6. QED
  BY <1>1, <1>3, <1>4, <1>5, Whose, MovesOn

-------------------------------------------------------------------------------
(* The capture thread. *)

LEMMA FrameKeeps == ASSUME IInv, NEW gap \in 1..MaxGap, Frame(gap) PROVE IInv'
<1>1. /\ pc["capture"] = "idle" /\ now' = AtMost(now + gap, MaxTime)
      /\ IF auto /\ ~recording
         THEN Begin("capture", "open", "auto")
         ELSE Begin("capture", "check", "")
      /\ UNCHANGED <<recording, fileVars, videoVars, fileNumber, base, viewerVars, failures>>
  BY DEF Frame
<1>2. VideoTypes /\ ClockTypes /\ ThreadTypes /\ RestTypes
  BY Types DEF IInv
<1>3. "capture" \in Threads /\ {"open", "check"} \subseteq Parts /\ {"auto", ""} \subseteq Reasons
  BY DEF Threads, Parts, Reasons, StartParts
<1>4. ThreadTypes' /\ Moves("capture")
  BY <1>1, <1>2, <1>3, BeginTypes DEF Moves
<1>5. now' \in 0..MaxTime
  <2>1. now \in 0..MaxTime /\ MaxTime \in Nat /\ gap \in Nat
    BY <1>2, RecorderAssumption DEF ClockTypes
  <2>2. now' = IF now + gap < MaxTime THEN now + gap ELSE MaxTime
    BY <1>1 DEF AtMost
  <2>3. QED
    BY <2>1, <2>2
<1>6. ClockTypes'
  BY <1>1, <1>2, <1>5 DEF ClockTypes
<1>7. VideoTypes' /\ RestTypes' /\ UNCHANGED worker
  BY <1>1, <1>2, VideoSame, RestSame DEF videoVars
<1>8. auto /\ ~recording => ctx = "none"
  BY <1>1, Off DEF QuietWhenOff, AllIdle, IInv, OpensInTurn
<1>9. pc'["capture"] = "open" => auto /\ ~recording
  BY <1>1, <1>2, <1>3, BeginTypes
<1>10. QED
  BY <1>1, <1>3, <1>4, <1>6, <1>7, <1>8, <1>9, MovesOn

LEMMA CheckFrameKeeps == ASSUME IInv, CheckFrame PROVE IInv'
<1>1. /\ pc["capture"] = "check"
      /\ UNCHANGED <<recording, fileVars, videoVars, now, viewerVars, failures>>
  BY DEF CheckFrame
<1>2. VideoTypes /\ ClockTypes /\ ThreadTypes /\ RestTypes
  BY Types DEF IInv
<1>3. /\ fileNumber' = fileNumber \/ fileNumber' = 1
      /\ base' = base \/ base' = now
  BY DEF CheckFrame, FirstNumber, FirstBase
<1>4. "capture" \in Threads
  BY DEF Threads
<1>5. PICK part \in {"clear", "push", "idle"}, reason \in {"rotate", ""} : Begin("capture", part, reason)
  BY DEF CheckFrame
<1>6. part \in Parts /\ reason \in Reasons
  BY <1>5 DEF Parts, Reasons, CloseParts
<1>7. ThreadTypes' /\ Moves("capture") /\ pc'["capture"] = part
  BY <1>2, <1>4, <1>5, <1>6, BeginTypes DEF Moves
<1>8. ClockTypes'
  <2>1. now' = now
    BY <1>1
  <2>2. now \in 0..MaxTime /\ base \in 0..MaxTime /\ fileNumber \in Nat
    BY <1>2 DEF ClockTypes
  <2>3. base' \in 0..MaxTime
    BY <1>3, <2>2
  <2>4. fileNumber' \in Nat
    <3>1. CASE fileNumber' = fileNumber
      BY <2>2, <3>1
    <3>2. CASE fileNumber' = 1
      BY <3>2
    <3>3. QED
      BY <1>3, <3>1, <3>2
  <2>5. QED
    BY <2>1, <2>2, <2>3, <2>4 DEF ClockTypes
<1>9. VideoTypes' /\ RestTypes' /\ UNCHANGED worker
  BY <1>1, <1>2, VideoSame, RestSame DEF videoVars
<1>10. QED
  BY <1>1, <1>4, <1>7, <1>8, <1>9, MovesOn

LEMMA CountFileKeeps == ASSUME IInv, CountFile PROVE IInv'
<1>1. /\ pc["capture"] = "count" /\ fileNumber' = fileNumber + 1 /\ Begin("capture", "push", "")
      /\ UNCHANGED <<recording, fileVars, videoVars, now, base, viewerVars, failures>>
  BY DEF CountFile
<1>2. VideoTypes /\ ClockTypes /\ ThreadTypes /\ RestTypes
  BY Types DEF IInv
<1>3. "capture" \in Threads /\ "push" \in Parts /\ "" \in Reasons
  BY DEF Threads, Parts, Reasons
<1>4. ThreadTypes' /\ Moves("capture") /\ pc'["capture"] = "push"
  BY <1>1, <1>2, <1>3, BeginTypes DEF Moves
<1>5. ClockTypes'
  <2>1. fileNumber' = fileNumber + 1 /\ now' = now /\ base' = base
    BY <1>1
  <2>2. QED
    BY <1>2, <2>1 DEF ClockTypes
<1>6. VideoTypes' /\ RestTypes' /\ UNCHANGED worker
  BY <1>1, <1>2, VideoSame, RestSame DEF videoVars
<1>7. QED
  BY <1>1, <1>3, <1>4, <1>5, <1>6, MovesOn

LEMMA PushFrameKeeps == ASSUME IInv, PushFrame PROVE IInv'
<1>1. /\ pc["capture"] = "push" /\ queue' = AtMost(queue + 1, QueueDepth) /\ Begin("capture", "idle", "")
      /\ UNCHANGED <<recording, fileVars, worker, encoder, clockVars, viewerVars, failures>>
  BY DEF PushFrame
<1>2. VideoTypes /\ ClockTypes /\ ThreadTypes /\ RestTypes
  BY Types DEF IInv
<1>3. "capture" \in Threads /\ "idle" \in Parts /\ "" \in Reasons
  BY DEF Threads, Parts, Reasons
<1>4. ThreadTypes' /\ Moves("capture") /\ pc'["capture"] = "idle"
  BY <1>1, <1>2, <1>3, BeginTypes DEF Moves
<1>5. queue' \in 0..QueueDepth
  <2>1. queue \in 0..2 /\ queue' = IF queue + 1 < 2 THEN queue + 1 ELSE 2
    BY <1>1, <1>2 DEF VideoTypes, AtMost, QueueDepth
  <2>2. QED
    BY <2>1 DEF QueueDepth
<1>6. VideoTypes'
  BY <1>1, <1>2, <1>5 DEF VideoTypes
<1>7. ClockTypes' /\ RestTypes'
  BY <1>1, <1>2, ClockSame, RestSame
<1>8. QED
  BY <1>1, <1>3, <1>4, <1>6, <1>7, MovesOn

-------------------------------------------------------------------------------
(* The worker. *)

LEMMA TakeFrameKeeps == ASSUME IInv, TakeFrame PROVE IInv'
<1>1. /\ worker = "idle" /\ queue > 0 /\ queue' = queue - 1 /\ worker' \in {"busy", "idle"}
      /\ UNCHANGED <<recording, fileVars, encoder, clockVars, threadVars, viewerVars, failures>>
  BY DEF TakeFrame
<1>2. FileTypes /\ VideoTypes /\ ClockTypes /\ ThreadTypes /\ RestTypes
  BY Types DEF IInv
<1>3. FileTypes' /\ ClockTypes' /\ ThreadTypes' /\ RestTypes'
  BY <1>1, <1>2, FilesSame, ClockSame, ThreadsSame, RestSame
<1>4. VideoTypes'
  BY <1>1, <1>2 DEF VideoTypes, Workers, QueueDepth
<1>5. Leftovers' /\ OpensInTurn'
  BY <1>1 DEF IInv, Leftovers, NoFileLeft, NoWorkerLeft, OpensInTurn, At, fileVars, threadVars
<1>6. FilesAreWhole'
  BY <1>1, WholeSame DEF IInv, threadVars
<1>7. QED
  BY <1>3, <1>4, <1>5, <1>6, TypesNext DEF IInv

LEMMA WriteIntoFileKeeps == ASSUME IInv, WriteIntoFile PROVE IInv'
<1>1. /\ worker \in {"busy", "leaving"} /\ worker' = IF worker = "busy" THEN "idle" ELSE "none"
      /\ UNCHANGED <<recording, leaked, encoder, queue, clockVars, threadVars, viewerVars>>
  BY DEF WriteIntoFile
<1>2. FileTypes /\ VideoTypes /\ ClockTypes /\ ThreadTypes /\ RestTypes
  BY Types DEF IInv
<1>3. ClockTypes' /\ ThreadTypes'
  BY <1>1, <1>2, ClockSame, ThreadsSame
<1>4. VideoTypes'
  BY <1>1, <1>2 DEF VideoTypes, Workers
<1>5. leaked' = leaked /\ auto' = auto /\ recording' = recording
  BY <1>1 DEF threadVars
<1>6. Leftovers' /\ OpensInTurn' /\ FileTypes' /\ RestTypes' /\ FilesAreWhole'
  <2>1. CASE UNCHANGED <<ctx, header, failures>>
    <3>1. UNCHANGED <<fileVars, failures>>
      BY <1>5, <2>1 DEF fileVars
    <3>2. Leftovers' /\ OpensInTurn'
      BY <1>1, <2>1 DEF IInv, Leftovers, NoFileLeft, NoWorkerLeft, OpensInTurn, At, threadVars
    <3>3. QED
      BY <1>1, <1>2, <1>5, <3>1, <3>2, FilesSame, RestSame, WholeSame DEF IInv
  <2>2. CASE ctx # "none" /\ recording /\ header' = TRUE /\ ctx' = "begun" /\ UNCHANGED failures
    <3>1. header' \in BOOLEAN
      BY <2>2
    <3>2. FileTypes'
      BY <1>2, <1>5, <2>2, <3>1 DEF FileTypes, Contexts
    <3>3. RestTypes'
      BY <1>1, <1>2, <2>2, RestSame
    <3>4. FilesAreWhole'
      BY <1>5, <2>2 DEF IInv, FilesAreWhole, NoFileLeaked, HeaderMatchesFile
    <3>5. Leftovers'
      BY <1>1, <2>2 DEF IInv, Leftovers, NoFileLeft, NoWorkerLeft, At, threadVars
    <3>6. OpensInTurn'
      BY <1>1, <2>2 DEF IInv, OpensInTurn, threadVars
    <3>7. QED
      BY <3>2, <3>3, <3>4, <3>5, <3>6
  <2>3. CASE failures > 0 /\ failures' = failures - 1 /\ ctx' = "none" /\ UNCHANGED header
    <3>1. FileTypes'
      BY <1>2, <1>5, <2>3 DEF FileTypes, Contexts
    <3>2. RestTypes'
      BY <1>1, <1>2, <2>3, OneFailure
    <3>3. FilesAreWhole'
      BY <1>5, <2>3 DEF IInv, FilesAreWhole, NoFileLeaked, HeaderMatchesFile
    <3>4. Leftovers' /\ OpensInTurn'
      BY <1>1, <2>3 DEF IInv, Leftovers, NoFileLeft, NoWorkerLeft, OpensInTurn, At, threadVars
    <3>5. QED
      BY <3>1, <3>2, <3>3, <3>4
  <2>4. QED
    BY <2>1, <2>2, <2>3 DEF WriteIntoFile
<1>7. QED
  BY <1>3, <1>4, <1>6, TypesNext DEF IInv

-------------------------------------------------------------------------------
(* Viewers only reach an on-demand recorder. *)

LEMMA CommandKeeps ==
  ASSUME IInv, StartRecording \/ StopRecording \/ \E t \in Enders : ViewerLeaves(t)
  PROVE  IInv'
<1>1. PICK t \in Threads \ {"capture"} :
        /\ Request(t) /\ UNCHANGED <<recording, fileVars, videoVars, clockVars, failures>>
        /\ asked' \in {TRUE, FALSE, asked}
        /\ Begin(t, "open", "start") \/ Begin(t, "clear", "stop") \/ UNCHANGED threadVars
  <2>1. CASE StartRecording
    BY <2>1 DEF StartRecording, Threads
  <2>2. CASE StopRecording
    BY <2>2 DEF StopRecording, Threads
  <2>3. CASE \E t \in Enders : ViewerLeaves(t)
    BY <2>3, RecorderAssumption DEF ViewerLeaves, Threads
  <2>4. QED
    BY <2>1, <2>2, <2>3
<1>2. ~auto /\ pc[t] = "idle" /\ commands > 0 /\ commands' = commands - 1
  BY <1>1 DEF Request
<1>3. FileTypes /\ VideoTypes /\ ClockTypes /\ ThreadTypes /\ RestTypes
  BY Types DEF IInv
<1>4. commands' \in 0..MaxCommands
  BY <1>2, <1>3, RecorderAssumption DEF RestTypes
<1>5. RestTypes'
  <2>1. asked \in BOOLEAN
    BY <1>3 DEF RestTypes
  <2>2. asked' \in BOOLEAN
    BY <1>1, <2>1
  <2>3. QED
    BY <1>1, <1>3, <1>4, <2>2 DEF RestTypes
<1>6. VideoTypes' /\ ClockTypes' /\ UNCHANGED worker
  BY <1>1, <1>3, VideoSame, ClockSame DEF videoVars
<1>7. ThreadTypes' /\ Moves(t)
  <2>1. CASE UNCHANGED threadVars
    BY <1>3, <2>1, ThreadsSame DEF Moves, threadVars
  <2>2. CASE Begin(t, "open", "start") \/ Begin(t, "clear", "stop")
    <3>1. {"open", "clear"} \subseteq Parts /\ {"start", "stop"} \subseteq Reasons
      BY DEF Parts, Reasons, StartParts, CloseParts
    <3>2. QED
      BY <1>3, <2>2, <3>1, BeginTypes DEF Moves
  <2>3. QED
    BY <1>1, <2>1, <2>2
<1>8. auto' = auto
  BY <1>7 DEF Moves
<1>9. QED
  BY <1>1, <1>2, <1>5, <1>6, <1>7, MovesOn

-------------------------------------------------------------------------------

LEMMA Preserved == ASSUME IInv, [Next]_vars PROVE IInv'
<1>1. CASE UNCHANGED vars
  <2>1. UNCHANGED <<recording, fileVars, videoVars, clockVars, threadVars, viewerVars, failures>>
    BY <1>1 DEF vars
  <2>2. FileTypes /\ VideoTypes /\ ClockTypes /\ ThreadTypes /\ RestTypes
    BY Types DEF IInv
  <2>3. FileTypes' /\ VideoTypes' /\ ClockTypes' /\ ThreadTypes' /\ RestTypes'
    BY <2>1, <2>2, FilesSame, VideoSame, ClockSame, ThreadsSame, RestSame
  <2>4. Leftovers' /\ OpensInTurn'
    BY <2>1 DEF IInv, Leftovers, NoFileLeft, NoWorkerLeft, OpensInTurn, At, fileVars, videoVars, threadVars
  <2>5. FilesAreWhole'
    BY <2>1, WholeSame DEF IInv, threadVars
  <2>6. QED
    BY <2>3, <2>4, <2>5, TypesNext DEF IInv
<1>2. CASE \E t \in Threads : Part(t)
  BY <1>2, OpenFileKeeps, RunRecorderKeeps, SetRecordingKeeps, ClearRecordingKeeps, AbortWorkerKeeps,
     JoinWorkerKeeps, CloseFileKeeps, ResetNumberKeeps DEF Part
<1>3. CASE NextFrame
  BY <1>3, FrameKeeps DEF NextFrame
<1>4. CASE WorkerStep
  BY <1>4, TakeFrameKeeps, WriteIntoFileKeeps DEF WorkerStep
<1>5. CASE StartRecording \/ StopRecording \/ \E t \in Enders : ViewerLeaves(t)
  BY <1>5, CommandKeeps
<1>6. QED
  BY <1>1, <1>2, <1>3, <1>4, <1>5, CheckFrameKeeps, CountFileKeeps, PushFrameKeeps
     DEF Next, CaptureStep, Threads

LEMMA Inductive == Spec => []IInv
  BY Initial, Preserved, PTL DEF Spec

(* Whatever the parts of a rotation, of Start and of Stop do between each other's, with stops  *)
(* from any number of threads that end peers among them (conductor.cpp, rtc_channel.cpp), a    *)
(* recorder that is off and in no operation has no open file and no worker.                    *)
THEOREM OffMeansOff == Spec => []RecorderInv
<1>1. IInv => RecorderInv
  BY Off DEF IInv, RecorderInv
<1>2. QED
  BY <1>1, Inductive, PTL

(* The background recorder closes every file that it has opened before it opens another, and   *)
(* header_written_ always speaks of the file that is open, so that av_write_trailer never ends *)
(* a file without a header (Start, CloseCurrentFile, WriteIntoFile).                           *)
THEOREM FilesAlwaysWhole == Spec => []FilesAreWhole
<1>1. IInv => FilesAreWhole
  BY DEF IInv
<1>2. QED
  BY <1>1, Inductive, PTL

-------------------------------------------------------------------------------
(* DiskRotation: the folders that recorders make, and what else is there. *)

DateDirs == {DateDir(q, d) : q \in Recorders, d \in 1..LastDate}
HourDirs == {HourDir(q, d, h) : q \in Recorders, d \in 1..LastDate, h \in 0..LastHour}
Folders == {<<>>, OnDemandDir, TimelapseDir} \cup DateDirs \cup HourDirs

LEMMA OtherFoldersAre ==
  /\ <<>> \in Seq(Nat) /\ Len(<<>>) = 0
  /\ OnDemandDir \in Seq(Nat) /\ Len(OnDemandDir) = 1 /\ OnDemandDir[1] = LastDate + 1
  /\ TimelapseDir \in Seq(Nat) /\ Len(TimelapseDir) = 1 /\ TimelapseDir[1] = LastDate + 2
  /\ LastDate \in Nat /\ LastHour \in Nat
<1>1. LastDate \in Nat /\ LastHour \in Nat
  BY RotationAssumption
<1>2. QED
  BY <1>1 DEF OnDemandDir, TimelapseDir

LEMMA BackgroundFolders ==
  ASSUME NEW d \in 1..LastDate, NEW h \in 0..LastHour
  PROVE  /\ DateDir("background", d) \in Seq(Nat) /\ Len(DateDir("background", d)) = 1
         /\ DateDir("background", d)[1] = d
         /\ HourDir("background", d, h) \in Seq(Nat) /\ Len(HourDir("background", d, h)) = 2
         /\ HourDir("background", d, h)[1] = d /\ HourDir("background", d, h)[2] = h
  BY OtherFoldersAre DEF DateDir, HourDir

LEMMA OnDemandFolders ==
  ASSUME NEW d \in 1..LastDate, NEW h \in 0..LastHour
  PROVE  /\ DateDir("on-demand", d) \in Seq(Nat) /\ Len(DateDir("on-demand", d)) = 2
         /\ DateDir("on-demand", d)[1] = LastDate + 1 /\ DateDir("on-demand", d)[2] = d
         /\ HourDir("on-demand", d, h) \in Seq(Nat) /\ Len(HourDir("on-demand", d, h)) = 3
         /\ HourDir("on-demand", d, h)[1] = LastDate + 1 /\ HourDir("on-demand", d, h)[2] = d
         /\ HourDir("on-demand", d, h)[3] = h
<1>1. LastDate + 1 \in Nat /\ d \in Nat /\ h \in Nat
  BY OtherFoldersAre
<1>2. DateDir("on-demand", d) = <<LastDate + 1, d>> /\ HourDir("on-demand", d, h) = <<LastDate + 1, d, h>>
  BY DEF DateDir, HourDir
<1>3. ASSUME NEW a \in Nat PROVE <<a, d>> \in Seq(Nat) /\ Len(<<a, d>>) = 2 /\ <<a, d>>[1] = a /\ <<a, d>>[2] = d
  BY <1>1
<1>4. ASSUME NEW a \in Nat
      PROVE  /\ <<a, d, h>> \in Seq(Nat) /\ Len(<<a, d, h>>) = 3
             /\ <<a, d, h>>[1] = a /\ <<a, d, h>>[2] = d /\ <<a, d, h>>[3] = h
  BY <1>1
<1>5. QED
  BY <1>1, <1>2, <1>3, <1>4, Zenon

LEMMA PathsAre ==
  /\ Path("background") = <<>> /\ Path("on-demand") = OnDemandDir
  /\ Path("background") \in Seq(Nat) /\ Path("on-demand") \in Seq(Nat)
  /\ Len(Path("background")) = 0 /\ Len(Path("on-demand")) = 1
  BY OtherFoldersAre DEF Path

\* One path, date and hour to a folder.
LEMMA DatesDiffer ==
  ASSUME NEW q \in Recorders, NEW d \in 1..LastDate, NEW p \in Recorders, NEW e \in 1..LastDate
  PROVE  /\ Len(DateDir(q, d)) = Len(Path(q)) + 1 /\ DateDir(q, d)[Len(DateDir(q, d))] = d
         /\ DateDir(q, d) \in Seq(Nat) /\ Path(q) \in Seq(Nat)
         /\ DateDir(q, d) # <<>> /\ DateDir(q, d) # OnDemandDir /\ DateDir(q, d) # TimelapseDir
         /\ Below(Path(q), DateDir(q, d))
         /\ DateDir(q, d) = DateDir(p, e) => q = p /\ d = e
<1>0. 0 \in 0..LastHour /\ LastDate \in Nat /\ d \in Nat /\ e \in Nat /\ d < LastDate + 1 /\ d < LastDate + 2
      /\ 0 + 1 = 1 /\ 1 + 1 = 2 /\ "background" # "on-demand"
  BY OtherFoldersAre
<1> DEFINE bd == DateDir("background", d)
           od == DateDir("on-demand", d)
           be == DateDir("background", e)
           oe == DateDir("on-demand", e)
<1>1. bd \in Seq(Nat) /\ Len(bd) = 1 /\ bd[1] = d /\ be \in Seq(Nat) /\ Len(be) = 1 /\ be[1] = e
  BY <1>0, BackgroundFolders
<1>2. /\ od \in Seq(Nat) /\ Len(od) = 2 /\ od[1] = LastDate + 1 /\ od[2] = d
      /\ oe \in Seq(Nat) /\ Len(oe) = 2 /\ oe[1] = LastDate + 1 /\ oe[2] = e
  BY <1>0, OnDemandFolders
<1> HIDE DEF bd, od, be, oe
<1>3. CASE q = "background"
  <2>1. DateDir(q, d) = bd
    BY <1>3 DEF bd
  <2>2. Below(<<>>, bd)
    BY <1>1 DEF Below
  <2>3. bd # <<>> /\ bd # OnDemandDir /\ bd # TimelapseDir
    BY <1>0, <1>1, OtherFoldersAre
  <2>4. CASE p = "background"
    <3>1. DateDir(p, e) = be
      BY <2>4 DEF be
    <3>2. bd = be => d = e
      BY <1>1
    <3>3. QED
      BY <1>0, <1>1, <1>3, <2>1, <2>2, <2>3, <2>4, <3>1, <3>2, PathsAre, Zenon
  <2>5. CASE p = "on-demand"
    <3>1. DateDir(p, e) = oe
      BY <2>5 DEF oe
    <3>2. bd # oe
      <4>1. 1 # 2
        OBVIOUS
      <4>2. QED
        BY <1>1, <1>2, <4>1, Zenon
    <3>3. QED
      BY <1>0, <1>1, <1>3, <2>1, <2>2, <2>3, <2>5, <3>1, <3>2, PathsAre, Zenon
  <2>6. QED
    BY <2>4, <2>5 DEF Recorders
<1>4. CASE q = "on-demand"
  <2>1. DateDir(q, d) = od
    BY <1>4 DEF od
  <2>2. Below(OnDemandDir, od)
    BY <1>2, OtherFoldersAre DEF Below
  <2>3. od # <<>> /\ od # OnDemandDir /\ od # TimelapseDir
    <3>1. 2 # 0 /\ 2 # 1
      OBVIOUS
    <3>2. QED
      BY <1>2, <3>1, OtherFoldersAre, Zenon
  <2>4. CASE p = "background"
    <3>1. DateDir(p, e) = be
      BY <2>4 DEF be
    <3>2. od # be
      <4>1. 1 # 2
        OBVIOUS
      <4>2. QED
        BY <1>1, <1>2, <4>1, Zenon
    <3>3. QED
      BY <1>0, <1>2, <1>4, <2>1, <2>2, <2>3, <2>4, <3>1, <3>2, PathsAre, Zenon
  <2>5. CASE p = "on-demand"
    <3>1. DateDir(p, e) = oe
      BY <2>5 DEF oe
    <3>2. od = oe => d = e
      BY <1>2
    <3>3. QED
      BY <1>0, <1>2, <1>4, <2>1, <2>2, <2>3, <2>5, <3>1, <3>2, PathsAre, Zenon
  <2>6. QED
    BY <2>4, <2>5 DEF Recorders
<1>5. QED
  BY <1>3, <1>4 DEF Recorders

LEMMA FolderShapes ==
  ASSUME NEW q \in Recorders, NEW d \in 1..LastDate, NEW h \in 0..LastHour
  PROVE  /\ DateDir(q, d) \in Seq(Nat) /\ HourDir(q, d, h) \in Seq(Nat)
         /\ q = "background" =>
              /\ Len(DateDir(q, d)) = 1 /\ DateDir(q, d)[1] = d
              /\ Len(HourDir(q, d, h)) = 2 /\ HourDir(q, d, h)[1] = d /\ HourDir(q, d, h)[2] = h
         /\ q = "on-demand" =>
              /\ Len(DateDir(q, d)) = 2 /\ DateDir(q, d)[1] = LastDate + 1 /\ DateDir(q, d)[2] = d
              /\ Len(HourDir(q, d, h)) = 3 /\ HourDir(q, d, h)[1] = LastDate + 1
              /\ HourDir(q, d, h)[2] = d /\ HourDir(q, d, h)[3] = h
<1>1. CASE q = "background"
  <2>1. DateDir(q, d) = DateDir("background", d) /\ HourDir(q, d, h) = HourDir("background", d, h)
    BY <1>1
  <2>2. "background" # "on-demand"
    OBVIOUS
  <2>3. QED
    BY <1>1, <2>1, <2>2, BackgroundFolders
<1>2. CASE q = "on-demand"
  <2>1. DateDir(q, d) = DateDir("on-demand", d) /\ HourDir(q, d, h) = HourDir("on-demand", d, h)
    BY <1>2
  <2>2. "background" # "on-demand"
    OBVIOUS
  <2>3. QED
    BY <1>2, <2>1, <2>2, OnDemandFolders
<1>3. QED
  BY <1>1, <1>2 DEF Recorders

LEMMA HoursDiffer ==
  ASSUME NEW q \in Recorders, NEW d \in 1..LastDate, NEW h \in 0..LastHour,
         NEW p \in Recorders, NEW e \in 1..LastDate, NEW i \in 0..LastHour
  PROVE  /\ Len(HourDir(q, d, h)) = Len(Path(q)) + 2 /\ HourDir(q, d, h)[Len(HourDir(q, d, h))] = h
         /\ HourDir(q, d, h) \in Seq(Nat) /\ Len(HourDir(q, d, h)) \in {2, 3} /\ HourDir(q, d, h) # DateDir(p, e)
         /\ HourDir(q, d, h) = HourDir(p, e, i) => q = p /\ d = e /\ h = i
         /\ Len(HourDir(q, d, h)) = Len(HourDir(p, e, i)) => q = p
<1> DEFINE b == HourDir(q, d, h)
           c == HourDir(p, e, i)
           a == DateDir(p, e)
<1>1. d # LastDate + 1 /\ 0 + 2 = 2 /\ 1 + 2 = 3 /\ 2 # 3 /\ 2 # 1 /\ 3 # 1 /\ 3 # 2
  BY OtherFoldersAre
<1>2. b \in Seq(Nat) /\ (q = "background" => Len(b) = 2 /\ b[1] = d /\ b[2] = h)
      /\ (q = "on-demand" => Len(b) = 3 /\ b[1] = LastDate + 1 /\ b[2] = d /\ b[3] = h)
  BY FolderShapes
<1>3. /\ p = "background" => Len(c) = 2 /\ c[1] = e /\ c[2] = i
      /\ p = "on-demand" => Len(c) = 3 /\ c[1] = LastDate + 1 /\ c[2] = e /\ c[3] = i
      /\ p = "background" => Len(a) = 1
      /\ p = "on-demand" => Len(a) = 2 /\ a[1] = LastDate + 1
  BY FolderShapes
<1>4. (q = "background" \/ q = "on-demand") /\ (p = "background" \/ p = "on-demand")
  BY DEF Recorders
<1>5. (q = "background" => Len(Path(q)) = 0) /\ (q = "on-demand" => Len(Path(q)) = 1)
  BY PathsAre, Zenon
<1> HIDE DEF a, b, c
<1>6. Len(b) \in {2, 3} /\ Len(b) = Len(Path(q)) + 2 /\ b[Len(b)] = h
  <2>1. CASE q = "background"
    BY <1>1, <1>2, <1>5, <2>1, Zenon
  <2>2. CASE q = "on-demand"
    BY <1>1, <1>2, <1>5, <2>2, Zenon
  <2>3. QED
    BY <1>4, <2>1, <2>2
<1>7. b # a
  BY <1>1, <1>2, <1>3, <1>4, Zenon
<1>8. Len(b) = Len(c) => q = p
  <2>1. CASE q = "background"
    BY <1>1, <1>2, <1>3, <1>4, <2>1, Zenon
  <2>2. CASE q = "on-demand"
    BY <1>1, <1>2, <1>3, <1>4, <2>2, Zenon
  <2>3. QED
    BY <1>4, <2>1, <2>2
<1>9. b = c => q = p /\ d = e /\ h = i
  BY <1>2, <1>3, <1>4, <1>8, Zenon
<1>10. QED
  BY <1>2, <1>6, <1>7, <1>8, <1>9 DEF a, b, c

\* What is below one of the folders, by its first names.
LEMMA BelowShort ==
  ASSUME NEW v, NEW w
  PROVE  /\ Len(v) = 1 /\ Len(w) \in {2, 3} => (Below(v, w) <=> w[1] = v[1])
         /\ Len(v) = 2 /\ Len(w) \in {2, 3} => (Below(v, w) <=> w[1] = v[1] /\ w[2] = v[2])
         /\ Len(v) = 3 /\ Len(w) = 3 => (Below(v, w) <=> w[1] = v[1] /\ w[2] = v[2] /\ w[3] = v[3])
         /\ Len(v) = 3 /\ Len(w) = 2 => ~Below(v, w)
<1>1. ASSUME Len(v) = 1, Len(w) \in {2, 3} PROVE Below(v, w) <=> w[1] = v[1]
  BY <1>1 DEF Below
<1>2. ASSUME Len(v) = 2, Len(w) \in {2, 3} PROVE Below(v, w) <=> w[1] = v[1] /\ w[2] = v[2]
  BY <1>2 DEF Below
<1>3. ASSUME Len(v) = 3, Len(w) = 3 PROVE Below(v, w) <=> w[1] = v[1] /\ w[2] = v[2] /\ w[3] = v[3]
  BY <1>3 DEF Below
<1>4. Len(v) = 3 /\ Len(w) = 2 => ~Below(v, w)
  BY DEF Below
<1>5. QED
  BY <1>1, <1>2, <1>3, <1>4

LEMMA BelowIs ==
  ASSUME NEW q \in Recorders, NEW d \in 1..LastDate, NEW h \in 0..LastHour,
         NEW p \in Recorders, NEW e \in 1..LastDate, NEW i \in 0..LastHour
  PROVE  /\ Below(HourDir(q, d, h), HourDir(p, e, i)) <=> q = p /\ d = e /\ h = i
         /\ Below(DateDir(q, d), HourDir(p, e, i)) <=> q = p /\ d = e
         /\ Below(OnDemandDir, HourDir(p, e, i)) <=> p = "on-demand"
         /\ ~Below(TimelapseDir, HourDir(p, e, i))
<1> DEFINE b == HourDir(q, d, h)
           c == HourDir(p, e, i)
           a == DateDir(q, d)
<1>1. /\ d # LastDate + 1 /\ e # LastDate + 1 /\ e # LastDate + 2 /\ LastDate + 1 # LastDate + 2
      /\ LastDate + 1 # d /\ LastDate + 1 # e /\ "background" # "on-demand"
  BY OtherFoldersAre
<1>2. q = "background" => Len(a) = 1 /\ a[1] = d /\ Len(b) = 2 /\ b[1] = d /\ b[2] = h
  BY FolderShapes
<1>3. q = "on-demand" => /\ Len(a) = 2 /\ a[1] = LastDate + 1 /\ a[2] = d
                         /\ Len(b) = 3 /\ b[1] = LastDate + 1 /\ b[2] = d /\ b[3] = h
  BY FolderShapes
<1>4. p = "background" => Len(c) = 2 /\ c[1] = e /\ c[2] = i
  BY FolderShapes
<1>5. p = "on-demand" => Len(c) = 3 /\ c[1] = LastDate + 1 /\ c[2] = e /\ c[3] = i
  BY FolderShapes
<1> HIDE DEF a, b, c
<1>6. Len(c) \in {2, 3} /\ (q = "background" \/ q = "on-demand") /\ (p = "background" \/ p = "on-demand")
  BY <1>4, <1>5 DEF Recorders
<1>7. Below(b, c) <=> q = p /\ d = e /\ h = i
  <2>1. CASE q = "background"
    <3>1. Below(b, c) <=> c[1] = d /\ c[2] = h
      BY <1>2, <1>6, <2>1, BelowShort
    <3>2. QED
      BY <1>1, <1>4, <1>5, <1>6, <2>1, <3>1, Zenon
  <2>2. CASE q = "on-demand"
    <3>1. Len(c) = 3 => (Below(b, c) <=> c[1] = LastDate + 1 /\ c[2] = d /\ c[3] = h)
      BY <1>3, <2>2, BelowShort
    <3>2. Len(c) = 2 => ~Below(b, c)
      BY <1>3, <2>2, BelowShort
    <3>3. QED
      BY <1>1, <1>4, <1>5, <1>6, <2>2, <3>1, <3>2, Zenon
  <2>3. QED
    BY <1>6, <2>1, <2>2
<1>8. Below(a, c) <=> q = p /\ d = e
  <2>1. CASE q = "background"
    <3>1. Below(a, c) <=> c[1] = d
      BY <1>2, <1>6, <2>1, BelowShort
    <3>2. QED
      BY <1>1, <1>4, <1>5, <1>6, <2>1, <3>1, Zenon
  <2>2. CASE q = "on-demand"
    <3>1. Below(a, c) <=> c[1] = LastDate + 1 /\ c[2] = d
      BY <1>3, <1>6, <2>2, BelowShort
    <3>2. QED
      BY <1>1, <1>4, <1>5, <1>6, <2>2, <3>1, Zenon
  <2>3. QED
    BY <1>6, <2>1, <2>2
<1>9. Below(OnDemandDir, c) <=> p = "on-demand"
  <2>1. Below(OnDemandDir, c) <=> c[1] = LastDate + 1
    BY <1>6, OtherFoldersAre, BelowShort
  <2>2. QED
    BY <1>1, <1>4, <1>5, <1>6, <2>1, Zenon
<1>10. ~Below(TimelapseDir, c)
  <2>1. Below(TimelapseDir, c) <=> c[1] = LastDate + 2
    BY <1>6, OtherFoldersAre, BelowShort
  <2>2. QED
    BY <1>1, <1>4, <1>5, <1>6, <2>1, Zenon
<1>11. QED
  BY <1>7, <1>8, <1>9, <1>10 DEF a, b, c

LEMMA BelowOn ==
  ASSUME NEW v \in Seq(Nat), NEW d \in Seq(Nat), NEW e \in Seq(Nat), Below(v, d), Below(d, e)
  PROVE  Below(v, e)
<1>1. Len(v) \in Nat /\ Len(d) \in Nat /\ Len(e) \in Nat
  BY LenProperties
<1>2. QED
  BY <1>1 DEF Below

LEMMA FolderTypes == \A d \in Folders : d \in Seq(Nat) /\ Len(d) \in 0..3
<1>0. 0 \in 0..LastHour
  BY OtherFoldersAre
<1>1. \A d \in DateDirs : d \in Seq(Nat) /\ Len(d) \in 0..3
  <2>1. ASSUME NEW q \in Recorders, NEW d \in 1..LastDate
        PROVE  DateDir(q, d) \in Seq(Nat) /\ Len(DateDir(q, d)) \in 0..3
    <3>1. DateDir(q, d) \in Seq(Nat) /\ (q = "background" => Len(DateDir(q, d)) = 1)
          /\ (q = "on-demand" => Len(DateDir(q, d)) = 2)
      BY <1>0, FolderShapes
    <3>2. QED
      BY <3>1 DEF Recorders
  <2>2. QED
    BY <2>1 DEF DateDirs
<1>2. \A d \in HourDirs : d \in Seq(Nat) /\ Len(d) \in 0..3
  BY HoursDiffer DEF HourDirs
<1>3. QED
  <2>1. 0 \in 0..3 /\ 1 \in 0..3
    OBVIOUS
  <2>2. QED
    BY <1>1, <1>2, <2>1, OtherFoldersAre, Zenon DEF Folders

-------------------------------------------------------------------------------
(* What rotation threads look for and remove is the oldest there is, and stays so. *)

(* The folders ds, at time c. *)
NotLater(d, h, c) == d < c.date \/ (d = c.date /\ h <= c.hour)
OldestDate(q, d, ds, c) == d <= c.date /\ \A e \in 1..LastDate : DateDir(q, e) \in ds => d <= e
OldestHour(q, d, h, ds, c) ==
  /\ OldestDate(q, d, ds, c) /\ NotLater(d, h, c)
  /\ \A i \in 0..LastHour : HourDir(q, d, i) \in ds => h <= i

Oldest(v, ds, c) ==
  \/ v \in {OnDemandDir, TimelapseDir}
  \/ \E q \in Recorders, d \in 1..LastDate : v = DateDir(q, d) /\ OldestDate(q, d, ds, c)
  \/ \E q \in Recorders, d \in 1..LastDate, h \in 0..LastHour : v = HourDir(q, d, h) /\ OldestHour(q, d, h, ds, c)

(* A date's folder is there with its hours; none is later than the clock. *)
Tree ==
  /\ dirs \subseteq Folders
  /\ \A q \in Recorders, d \in 1..LastDate : DateDir(q, d) \in dirs => d <= clock.date
  /\ \A q \in Recorders, d \in 1..LastDate, h \in 0..LastHour :
       HourDir(q, d, h) \in dirs => DateDir(q, d) \in dirs /\ NotLater(d, h, clock)

Videos == files \cup previews \cup starting    \* with their images, there or to come
Files == [dir : Folders, name : Nat, ext : {"mp4", "jpg"}]
InHours(fs) == \A f \in fs : f.dir \in HourDirs

(* Names are given in the order of the hours. *)
NamesInOrder ==
  /\ \A f \in Videos : f.name < clock.name
  /\ \A q \in Recorders, d \in 1..LastDate, h \in 0..LastHour : \A f \in Videos :
       f.dir = HourDir(q, d, h) => NotLater(d, h, clock)
  /\ \A q \in Recorders, d, e \in 1..LastDate, h, i \in 0..LastHour : \A f, g \in Videos :
       f.dir = HourDir(q, d, h) /\ g.dir = HourDir(q, e, i) /\ (d < e \/ (d = e /\ h < i)) => f.name < g.name

(* A recorder starts one recording at a time; its image is yet to come. *)
StartsInTurn ==
  /\ \A s \in starting : s.ext = "mp4" /\ \A g \in files \cup previews : Len(g.dir) = Len(s.dir) => g.name < s.name
  /\ \A s, t \in starting : Len(s.dir) = Len(t.dir) => s = t
  /\ \A p \in previews : p.ext = "jpg" /\ p \notin files

VideoInv ==
  /\ Videos \subseteq Files /\ InHours(previews) /\ InHours(starting)
  /\ \A f \in files : f.dir \in dirs \cap (HourDirs \cup {TimelapseDir})
  /\ NamesInOrder /\ StartsInTurn

(* What a thread has found, by its stage. *)
Descending == {"hours", "drop date"}
InHour == {"files", "drop hour", "file", "counterpart"}
Tidying == {"hour left", "hour", "date left", "date"}
Victim(f, h) ==
  /\ f.dir = h /\ h \in HourDirs /\ f.name < clock.name /\ f \notin previews
  /\ \A g \in files : g.dir = h /\ g.ext = "mp4" => f.name <= g.name
  /\ \A s \in starting : s.dir = h => f.name < s.name

Found(r) ==
  /\ stage[r] \in Descending \cup InHour \cup Tidying => Len(aim[r].date) = Len(Path(r)) + 1
  /\ stage[r] \in InHour \cup Tidying => Len(aim[r].hour) = Len(Path(r)) + 2
  /\ stage[r] \in Descending \cup InHour => Oldest(aim[r].date, dirs, clock)
  /\ stage[r] \in InHour => Oldest(aim[r].hour, dirs, clock)
  /\ stage[r] \in {"file", "counterpart"} => Victim(aim[r].file, aim[r].hour)
  /\ stage[r] = "counterpart" => aim[r].file \notin files

(* What a thread that works alone relies on. *)
Alone ==
  /\ \A r \in Recorders \ recorders : stage[r] = "rest"
  /\ \A r \in Recorders : recorders = {r} =>
       Path(r) \in dirs /\ stage[r] # "dead" /\ (stage[r] = "hours" => aim[r].date \in dirs)

DiskTypes ==
  /\ recorders \subseteq Recorders /\ recorders # {}
  /\ clock \in [date : 1..LastDate, hour : 0..LastHour, name : Nat]
  /\ stage \in [Recorders -> Stages] /\ full \in BOOLEAN
  /\ aim \in [Recorders -> [date : Folders, hour : Folders, file : Files]]

RotationIInv == DiskTypes /\ Tree /\ VideoInv /\ Alone /\ \A r \in Recorders : Found(r)

\* In an oldest folder there is no video later than one outside it.
LEMMA OldestBefore ==
  ASSUME Tree, VideoInv, DiskTypes, NEW v, Oldest(v, dirs, clock),
         NEW f \in files, f.dir \in HourDirs, Below(v, f.dir),
         NEW g \in files, g.dir \in HourDirs, ~Below(v, g.dir), Len(f.dir) = Len(g.dir)
  PROVE  f.name <= g.name
<1>1. f.name \in Nat /\ g.name \in Nat /\ g.dir \in dirs /\ f \in Videos /\ g \in Videos
  BY DEF VideoInv, Videos, Files
<1>2. PICK q \in Recorders, d \in 1..LastDate, h \in 0..LastHour : f.dir = HourDir(q, d, h)
  BY DEF HourDirs
<1>3. PICK p \in Recorders, e \in 1..LastDate, i \in 0..LastHour : g.dir = HourDir(p, e, i)
  BY DEF HourDirs
<1>4. q = p
  BY <1>2, <1>3, HoursDiffer
<1>5. DateDir(q, e) \in dirs
  BY <1>1, <1>3, <1>4 DEF Tree
<1>6. d \in Nat /\ e \in Nat /\ h \in Nat /\ i \in Nat
  BY OtherFoldersAre
<1>7. d < e \/ (d = e /\ h < i) => f.name <= g.name
  <2>1. d < e \/ (d = e /\ h < i) => f.name < g.name
    BY <1>1, <1>2, <1>3, <1>4 DEF VideoInv, NamesInOrder
  <2>2. QED
    BY <1>1, <2>1
<1>8. CASE v \in {OnDemandDir, TimelapseDir}
  BY <1>2, <1>3, <1>4, <1>8, BelowIs
<1>9. CASE \E x \in Recorders, y \in 1..LastDate : v = DateDir(x, y) /\ OldestDate(x, y, dirs, clock)
  <2>1. PICK x \in Recorders, y \in 1..LastDate : v = DateDir(x, y) /\ OldestDate(x, y, dirs, clock)
    BY <1>9
  <2>2. x = q /\ y = d
    BY <1>2, <2>1, BelowIs
  <2>3. d # e
    BY <1>2, <1>3, <1>4, <2>1, <2>2, BelowIs
  <2>4. d <= e
    BY <1>5, <2>1, <2>2 DEF OldestDate
  <2>5. QED
    BY <1>6, <1>7, <2>3, <2>4
<1>10. CASE \E x \in Recorders, y \in 1..LastDate, z \in 0..LastHour : v = HourDir(x, y, z) /\ OldestHour(x, y, z, dirs, clock)
  <2>1. PICK x \in Recorders, y \in 1..LastDate, z \in 0..LastHour : v = HourDir(x, y, z) /\ OldestHour(x, y, z, dirs, clock)
    BY <1>10
  <2>2. x = q /\ y = d /\ z = h
    BY <1>2, <2>1, BelowIs
  <2>3. d # e \/ h # i
    BY <1>2, <1>3, <1>4, <2>1, <2>2, BelowIs
  <2>4. d <= e /\ (d = e => h <= i)
    BY <1>1, <1>3, <1>4, <1>5, <2>1, <2>2 DEF OldestDate, OldestHour
  <2>5. QED
    BY <1>6, <1>7, <2>3, <2>4
<1>11. QED
  BY <1>8, <1>9, <1>10 DEF Oldest

ClockTimes == [date : 1..LastDate, hour : 0..LastHour, name : Nat]
NoEarlier(c, k) == c.date < k.date \/ (c.date = k.date /\ c.hour <= k.hour)
MadeLater(ds, es, c) ==
  /\ \A q \in Recorders, d \in 1..LastDate : DateDir(q, d) \in es \ ds => c.date <= d
  /\ \A q \in Recorders, d \in 1..LastDate, h \in 0..LastHour :
       HourDir(q, d, h) \in es \ ds => c.date < d \/ (c.date = d /\ c.hour <= h)

\* A later clock and the folders made since take nothing from the oldest.
LEMMA OldestStays ==
  ASSUME NEW v, NEW ds, NEW es, NEW c \in ClockTimes, NEW k \in ClockTimes,
         Oldest(v, ds, c), NoEarlier(c, k), MadeLater(ds, es, c)
  PROVE  Oldest(v, es, k)
<1>1. /\ c.date \in Nat /\ c.hour \in Nat /\ k.date \in Nat /\ k.hour \in Nat
      /\ \A d \in 1..LastDate : d \in Nat
      /\ \A h \in 0..LastHour : h \in Nat
  BY OtherFoldersAre DEF ClockTimes
<1>2. ASSUME NEW q \in Recorders, NEW d \in 1..LastDate, OldestDate(q, d, ds, c)
      PROVE  OldestDate(q, d, es, k)
  <2>1. d <= c.date /\ c.date <= k.date /\ d <= k.date
    BY <1>1, <1>2 DEF OldestDate, NoEarlier
  <2>2. ASSUME NEW e \in 1..LastDate, DateDir(q, e) \in es PROVE d <= e
    <3>1. CASE DateDir(q, e) \in ds
      BY <1>2, <3>1 DEF OldestDate
    <3>2. CASE DateDir(q, e) \notin ds
      <4>1. c.date <= e
        BY <2>2, <3>2 DEF MadeLater
      <4>2. QED
        BY <1>1, <2>1, <4>1
    <3>3. QED
      BY <3>1, <3>2
  <2>3. QED
    BY <2>1, <2>2 DEF OldestDate
<1>3. ASSUME NEW q \in Recorders, NEW d \in 1..LastDate, NEW h \in 0..LastHour, OldestHour(q, d, h, ds, c)
      PROVE  OldestHour(q, d, h, es, k)
  <2>1. OldestDate(q, d, es, k)
    BY <1>2, <1>3 DEF OldestHour
  <2>2. d < c.date \/ (d = c.date /\ h <= c.hour)
    BY <1>3 DEF OldestHour, NotLater
  <2>3. NotLater(d, h, k)
    BY <1>1, <2>2 DEF NotLater, NoEarlier
  <2>4. ASSUME NEW i \in 0..LastHour, HourDir(q, d, i) \in es PROVE h <= i
    <3>1. CASE HourDir(q, d, i) \in ds
      BY <1>3, <3>1 DEF OldestHour
    <3>2. CASE HourDir(q, d, i) \notin ds
      <4>1. c.date < d \/ (c.date = d /\ c.hour <= i)
        BY <2>4, <3>2 DEF MadeLater
      <4>2. QED
        BY <1>1, <2>2, <4>1
    <3>3. QED
      BY <3>1, <3>2
  <2>5. QED
    BY <2>1, <2>3, <2>4 DEF OldestHour
<1>4. QED
  BY <1>2, <1>3 DEF Oldest

LEMMA PathLengths ==
  \A q \in Recorders : Len(Path(q)) = (IF q = "background" THEN 0 ELSE 1) /\ Len(Path(q)) \in {0, 1}
<1>1. "background" # "on-demand"
  OBVIOUS
<1>2. QED
  BY <1>1, PathsAre, Zenon DEF Recorders

\* The first of the folders below a path, or below an oldest one, is an oldest one.
LEMMA FirstDate ==
  ASSUME DiskTypes, Tree, NEW r \in Recorders, NEW v \in FirstOf(SubDirs(Path(r)))
  PROVE  v \in dirs /\ Len(v) = Len(Path(r)) + 1 /\ Oldest(v, dirs, clock)
<1>1. v \in dirs /\ Len(v) = Len(Path(r)) + 1 /\ Below(Path(r), v) /\ v \in Folders
  BY DEF FirstOf, SubDirs, Tree
<1>2. \A e \in 1..LastDate : DateDir(r, e) \in dirs => DateDir(r, e) \in SubDirs(Path(r))
  BY DatesDiffer DEF SubDirs
<1>3. ASSUME NEW d \in 1..LastDate, v = DateDir(r, d) PROVE OldestDate(r, d, dirs, clock)
  <2>1. d <= clock.date
    BY <1>1, <1>3 DEF Tree
  <2>2. ASSUME NEW e \in 1..LastDate, DateDir(r, e) \in dirs PROVE d <= e
    <3>1. v[Len(v)] <= DateDir(r, e)[Len(DateDir(r, e))]
      BY <1>2, <2>2 DEF FirstOf
    <3>2. v[Len(v)] = d /\ DateDir(r, e)[Len(DateDir(r, e))] = e
      BY <1>3, DatesDiffer
    <3>3. QED
      BY <3>1, <3>2
  <2>3. QED
    BY <2>1, <2>2 DEF OldestDate
<1>4. CASE v \in {OnDemandDir, TimelapseDir}
  BY <1>1, <1>4 DEF Oldest
<1>5. CASE v \notin {OnDemandDir, TimelapseDir}
  <2>1. \E d \in 1..LastDate : v = DateDir(r, d)
    <3>1. v # <<>> /\ Len(Path(r)) \in {0, 1}
      <4>1. Len(Path(r)) \in {0, 1}
        BY PathsAre DEF Recorders
      <4>2. QED
        BY <1>1, <4>1, OtherFoldersAre
    <3>2. CASE v \in DateDirs
      <4>1. PICK p \in Recorders, e \in 1..LastDate : v = DateDir(p, e)
        BY <3>2 DEF DateDirs
      <4>2. Len(Path(p)) = Len(Path(r))
        <5>1. Len(v) = Len(Path(p)) + 1 /\ Len(Path(p)) \in {0, 1}
          BY <4>1, DatesDiffer, PathsAre DEF Recorders
        <5>2. QED
          BY <1>1, <3>1, <5>1
      <4>3. p = r
        BY <4>2, PathLengths DEF Recorders
      <4>4. QED
        BY <4>1, <4>3
    <3>3. CASE v \in HourDirs
      <4>1. PICK p \in Recorders, e \in 1..LastDate, i \in 0..LastHour : v = HourDir(p, e, i)
        BY <3>3 DEF HourDirs
      <4>2. Len(v) = Len(Path(p)) + 2 /\ Len(Path(p)) \in {0, 1}
        BY <4>1, HoursDiffer, PathLengths
      <4>3. Len(Path(p)) = 0 /\ Len(Path(r)) = 1
        BY <1>1, <3>1, <4>2
      <4>4. p = "background" /\ r = "on-demand"
        BY <4>3, PathLengths DEF Recorders
      <4>5. Below(OnDemandDir, v)
        BY <1>1, <4>4, PathsAre
      <4>6. QED
        BY <4>1, <4>4, <4>5, BelowIs
    <3>4. QED
      BY <1>1, <1>5, <3>1, <3>2, <3>3 DEF Folders
  <2>2. QED
    BY <1>1, <1>3, <2>1 DEF Oldest
<1>6. QED
  BY <1>1, <1>4, <1>5

LEMMA BelowDates ==
  ASSUME NEW q \in Recorders, NEW d \in 1..LastDate, NEW p \in Recorders, NEW e \in 1..LastDate
  PROVE  /\ Len(DateDir(p, e)) > Len(DateDir(q, d)) => ~Below(DateDir(q, d), DateDir(p, e))
         /\ ~Below(TimelapseDir, DateDir(p, e))
<1> DEFINE a == DateDir(q, d)
           c == DateDir(p, e)
<1>1. 0 \in 0..LastHour /\ d # LastDate + 1 /\ e # LastDate + 2 /\ LastDate + 1 # LastDate + 2
  BY OtherFoldersAre
<1>2. /\ q = "background" => Len(a) = 1 /\ a[1] = d
      /\ q = "on-demand" => Len(a) = 2
      /\ p = "background" => Len(c) = 1 /\ c[1] = e
      /\ p = "on-demand" => Len(c) = 2 /\ c[1] = LastDate + 1
  BY <1>1, FolderShapes
<1>3. (q = "background" \/ q = "on-demand") /\ (p = "background" \/ p = "on-demand")
  BY DEF Recorders
<1> HIDE DEF a, c
<1>4. Len(c) > Len(a) => ~Below(a, c)
  <2>1. HAVE Len(c) > Len(a)
  <2>2. (Len(a) = 1 \/ Len(a) = 2) /\ (Len(c) = 1 \/ Len(c) = 2)
    BY <1>2, <1>3, Zenon
  <2>3. Len(a) = 1 /\ Len(c) = 2
    <3>1. \A m, n \in {1, 2} : n > m => m = 1 /\ n = 2
      OBVIOUS
    <3>2. Len(a) \in {1, 2} /\ Len(c) \in {1, 2}
      BY <2>2, Zenon
    <3>3. QED
      BY <2>1, <3>1, <3>2, Zenon
  <2>4. 1 # 2
    OBVIOUS
  <2>5. a[1] = d /\ c[1] = LastDate + 1
    BY <1>2, <1>3, <2>3, <2>4, Zenon
  <2>6. Below(a, c) <=> c[1] = a[1]
    BY <2>3, BelowShort
  <2>7. QED
    BY <1>1, <2>5, <2>6
<1>5. ~Below(TimelapseDir, c)
  <2>1. Below(TimelapseDir, c) => c[1] = LastDate + 2
    <3>1. HAVE Below(TimelapseDir, c)
    <3>2. \A i \in 1..1 : c[i] = TimelapseDir[i]
      BY <3>1, OtherFoldersAre DEF Below
    <3>3. QED
      BY <3>2, OtherFoldersAre
  <2>2. QED
    BY <1>1, <1>2, <1>3, <2>1, Zenon
<1>6. QED
  BY <1>4, <1>5 DEF a, c

\* The folders below a date's are its hours.
LEMMA BelowDate ==
  ASSUME NEW q \in Recorders, NEW d \in 1..LastDate, NEW w \in Folders,
         Len(w) = Len(DateDir(q, d)) + 1, Below(DateDir(q, d), w)
  PROVE  \E h \in 0..LastHour : w = HourDir(q, d, h)
<1>1. Len(w) > Len(DateDir(q, d)) /\ Len(w) # 0 /\ Len(w) # 1
  BY DatesDiffer, PathLengths
<1>2. w \notin {<<>>, OnDemandDir, TimelapseDir}
  BY <1>1, OtherFoldersAre, Zenon
<1>3. w \notin DateDirs
  BY <1>1, BelowDates DEF DateDirs
<1>4. PICK p \in Recorders, e \in 1..LastDate, i \in 0..LastHour : w = HourDir(p, e, i)
  BY <1>2, <1>3 DEF Folders, HourDirs
<1>5. QED
  BY <1>4, BelowIs

LEMMA FirstHour ==
  ASSUME DiskTypes, Tree, NEW v \in dirs, Oldest(v, dirs, clock), NEW w \in FirstOf(SubDirs(v))
  PROVE  w \in dirs /\ Len(w) = Len(v) + 1 /\ Oldest(w, dirs, clock)
<1>1. w \in dirs /\ Len(w) = Len(v) + 1 /\ Below(v, w) /\ w \in Folders
  BY DEF FirstOf, SubDirs, Tree
<1>2. CASE v = OnDemandDir
  <2>1. v = Path("on-demand") /\ "on-demand" \in Recorders
    BY <1>2, PathsAre DEF Recorders
  <2>2. QED
    BY <1>1, <2>1, FirstDate
<1>3. CASE v = TimelapseDir
  <2>1. Len(w) = 2
    BY <1>1, <1>3, OtherFoldersAre
  <2>2. w \notin {<<>>, OnDemandDir, TimelapseDir}
    <3>1. 2 # 0 /\ 2 # 1
      OBVIOUS
    <3>2. QED
      BY <2>1, <3>1, OtherFoldersAre, Zenon
  <2>3. w \notin DateDirs
    BY <1>1, <1>3, BelowDates DEF DateDirs
  <2>4. w \notin HourDirs
    BY <1>1, <1>3, BelowIs DEF HourDirs
  <2>5. QED
    BY <1>1, <2>2, <2>3, <2>4 DEF Folders
<1>4. CASE \E q \in Recorders, d \in 1..LastDate : v = DateDir(q, d) /\ OldestDate(q, d, dirs, clock)
  <2>1. PICK q \in Recorders, d \in 1..LastDate : v = DateDir(q, d) /\ OldestDate(q, d, dirs, clock)
    BY <1>4
  <2>2. PICK h \in 0..LastHour : w = HourDir(q, d, h)
    BY <1>1, <2>1, BelowDate
  <2>3. NotLater(d, h, clock)
    BY <1>1, <2>2 DEF Tree
  <2>4. ASSUME NEW i \in 0..LastHour, HourDir(q, d, i) \in dirs PROVE h <= i
    <3>1. Len(HourDir(q, d, i)) = Len(v) + 1
      BY <2>1, HoursDiffer, DatesDiffer, PathLengths
    <3>2. Below(v, HourDir(q, d, i))
      BY <2>1, BelowIs
    <3>3. HourDir(q, d, i) \in SubDirs(v)
      BY <2>4, <3>1, <3>2 DEF SubDirs
    <3>4. w[Len(w)] <= HourDir(q, d, i)[Len(HourDir(q, d, i))]
      BY <3>3 DEF FirstOf
    <3>5. w[Len(w)] = h /\ HourDir(q, d, i)[Len(HourDir(q, d, i))] = i
      BY <2>2, HoursDiffer
    <3>6. QED
      BY <3>4, <3>5
  <2>5. OldestHour(q, d, h, dirs, clock)
    BY <2>1, <2>3, <2>4 DEF OldestHour
  <2>6. QED
    BY <1>1, <2>2, <2>5 DEF Oldest
<1>5. CASE \E q \in Recorders, d \in 1..LastDate, h \in 0..LastHour : v = HourDir(q, d, h)
  <2>1. PICK q \in Recorders, d \in 1..LastDate, h \in 0..LastHour : v = HourDir(q, d, h)
    BY <1>5
  <2>2. Len(v) \in {2, 3} /\ Len(w) \in {3, 4}
    BY <1>1, <2>1, HoursDiffer
  <2>3. w \in HourDirs
    <3>1. w \notin {<<>>, OnDemandDir, TimelapseDir}
      <4>1. Len(w) # 0 /\ Len(w) # 1
        BY <2>2
      <4>2. QED
        BY <4>1, OtherFoldersAre, Zenon
    <3>2. w \notin DateDirs
      <4>1. \A p \in Recorders, e \in 1..LastDate : Len(DateDir(p, e)) \in {1, 2}
        <5>1. ASSUME NEW p \in Recorders, NEW e \in 1..LastDate PROVE Len(DateDir(p, e)) \in {1, 2}
          <6>1. Len(DateDir(p, e)) = Len(Path(p)) + 1 /\ Len(Path(p)) \in {0, 1}
            BY DatesDiffer, PathLengths
          <6>2. \A m \in {0, 1} : m + 1 \in {1, 2}
            OBVIOUS
          <6>3. QED
            BY <6>1, <6>2, Zenon
        <5>2. QED
          BY <5>1
      <4>2. QED
        BY <2>2, <4>1 DEF DateDirs
    <3>3. QED
      BY <1>1, <3>1, <3>2 DEF Folders
  <2>4. PICK p \in Recorders, e \in 1..LastDate, i \in 0..LastHour : w = HourDir(p, e, i)
    BY <2>3 DEF HourDirs
  <2>5. w = v
    BY <1>1, <2>1, <2>4, BelowIs
  <2>6. QED
    BY <1>1, <2>2, <2>5
<1>6. QED
  BY <1>2, <1>3, <1>4, <1>5 DEF Oldest

-------------------------------------------------------------------------------
(* The kinds of step, for the folders and files that are left or come. *)

\* Removals.
LEMMA LessIsKept ==
  ASSUME DiskTypes, Tree, VideoInv, dirs' \subseteq dirs, files' \subseteq files,
         UNCHANGED <<clock, starting, previews>>,
         \A f \in files' : f.dir \in dirs',
         \A q \in Recorders, d \in 1..LastDate, h \in 0..LastHour : HourDir(q, d, h) \in dirs' => DateDir(q, d) \in dirs'
  PROVE  Tree' /\ VideoInv'
<1>1. Tree'
  BY DEF Tree, NotLater
<1>2. Videos' \subseteq Videos
  BY DEF Videos
<1>3. NamesInOrder'
  BY <1>2 DEF VideoInv, NamesInOrder, NotLater
<1>4. StartsInTurn'
  BY DEF VideoInv, StartsInTurn
<1>5. QED
  BY <1>1, <1>2, <1>3, <1>4 DEF VideoInv, InHours

\* What the other thread has found stays as it is in steps that remove.
LEMMA LessIsFound ==
  ASSUME DiskTypes, NEW r \in Recorders, Found(r), dirs' \subseteq dirs, files' \subseteq files,
         UNCHANGED <<clock, starting, previews>>, stage'[r] = stage[r], aim'[r] = aim[r]
  PROVE  Found(r)'
<1> DEFINE date == aim[r].date
           hour == aim[r].hour
<1>1. clock \in ClockTimes /\ NoEarlier(clock, clock) /\ MadeLater(dirs, dirs', clock)
  BY OtherFoldersAre DEF DiskTypes, ClockTimes, NoEarlier, MadeLater
<1>2. Oldest(date, dirs, clock) => Oldest(date, dirs', clock)
  BY <1>1, OldestStays
<1>3. Oldest(hour, dirs, clock) => Oldest(hour, dirs', clock)
  BY <1>1, OldestStays
<1>4. \A f, h : Victim(f, h) => Victim(f, h)'
  BY DEF Victim
<1>5. QED
  BY <1>2, <1>3, <1>4 DEF Found

LEMMA RemoveAllKeeps ==
  ASSUME DiskTypes, Tree, VideoInv, NEW v \in Folders, RemoveAll(v), UNCHANGED <<clock, starting, previews>>
  PROVE  Tree' /\ VideoInv'
<1>1. dirs' = {e \in dirs : ~Below(v, e)} /\ files' = {f \in files : ~Below(v, f.dir)}
  BY DEF RemoveAll
<1>2. ASSUME NEW q \in Recorders, NEW d \in 1..LastDate, NEW h \in 0..LastHour, HourDir(q, d, h) \in dirs'
      PROVE  DateDir(q, d) \in dirs'
  <2>1. DateDir(q, d) \in dirs /\ ~Below(v, HourDir(q, d, h))
    BY <1>1, <1>2 DEF Tree
  <2>2. Below(DateDir(q, d), HourDir(q, d, h))
    BY BelowIs
  <2>3. v \in Seq(Nat) /\ DateDir(q, d) \in Seq(Nat) /\ HourDir(q, d, h) \in Seq(Nat)
    BY FolderTypes, FolderShapes
  <2>4. ~Below(v, DateDir(q, d))
    BY <2>1, <2>2, <2>3, BelowOn
  <2>5. QED
    BY <1>1, <2>1, <2>4
<1>3. \A f \in files' : f.dir \in dirs'
  BY <1>1 DEF VideoInv
<1>4. QED
  BY <1>1, <1>2, <1>3, LessIsKept

LEMMA RemoveEmptyKeeps ==
  ASSUME DiskTypes, Tree, VideoInv, NEW v \in Folders, Empty(v), dirs' = dirs \ {v},
         UNCHANGED <<files, clock, starting, previews>>
  PROVE  Tree' /\ VideoInv'
<1>1. ASSUME NEW q \in Recorders, NEW d \in 1..LastDate, NEW h \in 0..LastHour, HourDir(q, d, h) \in dirs'
      PROVE  DateDir(q, d) \in dirs'
  <2>1. DateDir(q, d) \in dirs /\ HourDir(q, d, h) \in dirs
    BY <1>1 DEF Tree
  <2>2. ASSUME v = DateDir(q, d) PROVE FALSE
    <3>1. Below(v, HourDir(q, d, h)) /\ Len(HourDir(q, d, h)) = Len(v) + 1
      BY <2>2, BelowIs, DatesDiffer, HoursDiffer, PathLengths
    <3>2. HourDir(q, d, h) \in SubDirs(v)
      BY <2>1, <3>1 DEF SubDirs
    <3>3. QED
      BY <3>2 DEF Empty
  <2>3. QED
    BY <2>1, <2>2
<1>2. \A f \in files' : f.dir \in dirs'
  BY DEF VideoInv, Empty, FilesIn
<1>3. QED
  BY <1>1, <1>2, LessIsKept

-------------------------------------------------------------------------------
(* The steps of RotateFiles. *)

Aims == [date : Folders, hour : Folders, file : Files]

LEMMA ThreadKeeps ==
  ASSUME RotationIInv, NEW r \in recorders, NEW s \in Stages, NEW found \in Aims,
         Finds(r, s, found), dirs' \subseteq dirs, files' \subseteq files, Tree', VideoInv', Found(r)',
         recorders = {r} => Path(r) \in dirs' /\ s # "dead" /\ (s = "hours" => found.date \in dirs')
  PROVE  RotationIInv'
<1>1. /\ recorders' = recorders /\ full' = full /\ UNCHANGED <<clock, starting, previews>>
      /\ stage' = [stage EXCEPT ![r] = s] /\ aim' = [aim EXCEPT ![r] = found]
  BY DEF Finds, recorderVars
<1>2. DiskTypes /\ r \in Recorders /\ Alone
  BY DEF RotationIInv, DiskTypes
<1>3. DiskTypes'
  BY <1>1, <1>2 DEF DiskTypes, Aims
<1>4. stage'[r] = s /\ aim'[r] = found /\ \A q \in Recorders \ {r} : stage'[q] = stage[q] /\ aim'[q] = aim[q]
  BY <1>1, <1>2 DEF DiskTypes
<1>5. ASSUME NEW q \in Recorders \ {r} PROVE Found(q)'
  BY <1>1, <1>2, <1>4, LessIsFound DEF RotationIInv
<1>6. Alone'
  <2>1. \A q \in Recorders \ recorders' : stage'[q] = "rest"
    BY <1>1, <1>2, <1>4 DEF Alone
  <2>2. ASSUME NEW q \in Recorders, recorders' = {q}
        PROVE  Path(q) \in dirs' /\ stage'[q] # "dead" /\ (stage'[q] = "hours" => aim'[q].date \in dirs')
    <3>1. q = r
      BY <1>1, <2>2
    <3>2. QED
      BY <1>1, <1>4, <2>2, <3>1
  <2>3. QED
    BY <2>1, <2>2 DEF Alone
<1>7. QED
  BY <1>3, <1>5, <1>6 DEF RotationIInv

\* A step that only looks.
LEMMA LookKeeps ==
  ASSUME RotationIInv, NEW r \in recorders, NEW s \in Stages, NEW found \in Aims,
         Finds(r, s, found), Looks, s # "dead", Found(r)', s = "hours" => found.date \in dirs
  PROVE  RotationIInv'
<1>1. UNCHANGED <<dirs, files, clock, starting, previews>>
  BY DEF Looks, Finds, recorderVars
<1>2. Tree' /\ VideoInv'
  BY <1>1 DEF RotationIInv, Tree, NotLater, VideoInv, Videos, NamesInOrder, StartsInTurn, InHours
<1>3. recorders = {r} => Path(r) \in dirs
  BY DEF RotationIInv, Alone, DiskTypes
<1>4. QED
  BY <1>1, <1>2, <1>3, ThreadKeeps

LEMMA ThreadIs ==
  ASSUME RotationIInv, NEW r \in recorders
  PROVE  /\ r \in Recorders /\ aim[r] \in Aims /\ Nothing \in Aims /\ stage[r] \in Stages
         /\ stage \in [Recorders -> Stages] /\ aim \in [Recorders -> Aims]
<1>1. r \in Recorders /\ aim \in [Recorders -> Aims] /\ stage \in [Recorders -> Stages]
  BY DEF RotationIInv, DiskTypes, Aims
<1>2. Nothing \in Aims
  BY DEF Nothing, Aims, Folders, Files, File
<1>3. QED
  BY <1>1, <1>2

LEMMA EndsKeeps ==
  ASSUME RotationIInv, NEW r \in recorders, Ends(r), dirs' \subseteq dirs, files' \subseteq files, Tree', VideoInv',
         recorders = {r} => Path(r) \in dirs'
  PROVE  RotationIInv'
<1>1. r \in Recorders /\ Nothing \in Aims /\ "rest" \in Stages /\ stage \in [Recorders -> Stages]
  BY ThreadIs DEF Stages
<1>2. Finds(r, "rest", Nothing)
  BY DEF Ends
<1>3. stage'[r] = "rest"
  BY <1>1, <1>2 DEF Finds
<1>4. Found(r)'
  BY <1>3 DEF Found, Descending, InHour, Tidying
<1>5. QED
  BY <1>1, <1>2, <1>4, ThreadKeeps

LEMMA LookEnds ==
  ASSUME RotationIInv, NEW r \in recorders, Ends(r), Looks
  PROVE  RotationIInv'
<1>1. UNCHANGED <<dirs, files, clock, starting, previews>>
  BY DEF Ends, Looks, Finds, recorderVars
<1>2. Tree' /\ VideoInv'
  BY <1>1 DEF RotationIInv, Tree, NotLater, VideoInv, Videos, NamesInOrder, StartsInTurn, InHours
<1>3. recorders = {r} => Path(r) \in dirs
  BY DEF RotationIInv, Alone, DiskTypes
<1>4. QED
  BY <1>1, <1>2, <1>3, EndsKeeps

\* Where it goes on with what it has found.
LEMMA FoundNext ==
  ASSUME RotationIInv, NEW r \in recorders, NEW s \in Stages, NEW found \in Aims, Finds(r, s, found)
  PROVE  stage'[r] = s /\ aim'[r] = found /\ UNCHANGED <<clock, starting, previews>>
  BY ThreadIs DEF Finds, recorderVars

LEMMA WakesKeeps ==
  ASSUME RotationIInv, NEW r \in Recorders, RotationWakes(r) PROVE RotationIInv'
<1>1. r \in recorders /\ Finds(r, "dates", Nothing) /\ Looks /\ "dates" \in Stages
  BY DEF RotationWakes, Is, Stages
<1>2. Nothing \in Aims /\ stage'[r] = "dates"
  BY <1>1, ThreadIs, FoundNext
<1>3. Found(r)'
  BY <1>2 DEF Found, Descending, InHour, Tidying
<1>4. QED
  BY <1>1, <1>2, <1>3, LookKeeps

LEMMA ScanDatesKeeps ==
  ASSUME RotationIInv, NEW r \in Recorders, ScanDates(r) PROVE RotationIInv'
<1>1. r \in recorders /\ Looks
  BY DEF ScanDates, Is
<1>2. UNCHANGED <<dirs, files>>
  BY <1>1 DEF Looks
<1>3. CASE Ends(r)
  BY <1>1, <1>3, LookEnds
<1>4. CASE Path(r) \notin dirs /\ Finds(r, "dead", Nothing)
  <2>1. "dead" \in Stages /\ Nothing \in Aims
    BY <1>1, ThreadIs DEF Stages
  <2>2. stage'[r] = "dead" /\ UNCHANGED <<clock, starting, previews>>
    BY <1>1, <1>4, <2>1, FoundNext
  <2>3. Found(r)'
    BY <2>2 DEF Found, Descending, InHour, Tidying
  <2>4. Tree' /\ VideoInv'
    BY <1>2, <2>2 DEF RotationIInv, Tree, NotLater, VideoInv, Videos, NamesInOrder, StartsInTurn, InHours
  <2>5. recorders # {r}
    BY <1>4 DEF RotationIInv, Alone
  <2>6. QED
    BY <1>1, <1>2, <1>4, <2>1, <2>3, <2>4, <2>5, ThreadKeeps
<1>5. CASE \E d \in FirstOf(SubDirs(Path(r))) : Finds(r, "hours", [Nothing EXCEPT !.date = d])
  <2>1. PICK d \in FirstOf(SubDirs(Path(r))) : Finds(r, "hours", [Nothing EXCEPT !.date = d])
    BY <1>5
  <2>2. d \in dirs /\ Len(d) = Len(Path(r)) + 1 /\ Oldest(d, dirs, clock) /\ d \in Folders
    BY FirstDate DEF RotationIInv, Tree
  <2> DEFINE found == [Nothing EXCEPT !.date = d]
  <2>3. found \in Aims /\ found.date = d /\ "hours" \in Stages
    BY <1>1, <2>2, ThreadIs DEF Nothing, Aims, Stages
  <2> HIDE DEF found
  <2>4. Finds(r, "hours", found)
    BY <2>1 DEF found
  <2>5. stage'[r] = "hours" /\ aim'[r] = found /\ clock' = clock
    BY <1>1, <2>3, <2>4, FoundNext
  <2>6. Found(r)'
    BY <1>2, <2>2, <2>3, <2>5 DEF Found, Descending, InHour, Tidying
  <2>7. QED
    BY <1>1, <2>2, <2>3, <2>4, <2>6, LookKeeps
<1>6. QED
  BY <1>3, <1>4, <1>5 DEF ScanDates

LEMMA ScanHoursKeeps ==
  ASSUME RotationIInv, NEW r \in Recorders, ScanHours(r) PROVE RotationIInv'
<1> DEFINE date == aim[r].date
<1>1. r \in recorders /\ Looks /\ stage[r] = "hours" /\ aim[r] \in Aims
  BY ThreadIs DEF ScanHours, Is
<1>2. UNCHANGED <<dirs, files>> /\ Len(date) = Len(Path(r)) + 1 /\ Oldest(date, dirs, clock)
  BY <1>1 DEF Looks, RotationIInv, Found, Descending
<1>3. CASE date \notin dirs /\ Finds(r, "dead", Nothing)
  <2>1. "dead" \in Stages /\ Nothing \in Aims
    BY <1>1, ThreadIs DEF Stages
  <2>2. stage'[r] = "dead" /\ UNCHANGED <<clock, starting, previews>>
    BY <1>1, <1>3, <2>1, FoundNext
  <2>3. Found(r)'
    BY <2>2 DEF Found, Descending, InHour, Tidying
  <2>4. Tree' /\ VideoInv'
    BY <1>2, <2>2 DEF RotationIInv, Tree, NotLater, VideoInv, Videos, NamesInOrder, StartsInTurn, InHours
  <2>5. recorders # {r}
    BY <1>1, <1>3 DEF RotationIInv, Alone
  <2>6. QED
    BY <1>1, <1>2, <1>3, <2>1, <2>3, <2>4, <2>5, ThreadKeeps
<1>4. CASE Goes(r, "drop date")
  <2>1. Finds(r, "drop date", aim[r]) /\ "drop date" \in Stages
    BY <1>4 DEF Goes, Stages
  <2>2. stage'[r] = "drop date" /\ aim'[r] = aim[r] /\ clock' = clock
    BY <1>1, <2>1, FoundNext
  <2>3. Found(r)'
    BY <1>2, <2>2 DEF Found, Descending, InHour, Tidying
  <2>4. QED
    BY <1>1, <2>1, <2>3, LookKeeps
<1>5. CASE \E h \in FirstOf(SubDirs(date)) : date \in dirs /\ Finds(r, "files", [aim[r] EXCEPT !.hour = h])
  <2>1. PICK h \in FirstOf(SubDirs(date)) : date \in dirs /\ Finds(r, "files", [aim[r] EXCEPT !.hour = h])
    BY <1>5
  <2>2. h \in dirs /\ Len(h) = Len(date) + 1 /\ Oldest(h, dirs, clock) /\ h \in Folders
    BY <1>2, <2>1, FirstHour DEF RotationIInv, Tree
  <2> DEFINE found == [aim[r] EXCEPT !.hour = h]
  <2>3. found \in Aims /\ found.date = date /\ found.hour = h /\ "files" \in Stages
    BY <1>1, <2>2 DEF Aims, Stages
  <2> HIDE DEF found
  <2>4. Finds(r, "files", found)
    BY <2>1 DEF found
  <2>5. stage'[r] = "files" /\ aim'[r] = found /\ clock' = clock
    BY <1>1, <2>3, <2>4, FoundNext
  <2>6. Len(h) = Len(Path(r)) + 2
    BY <1>2, <2>2, PathLengths
  <2>7. Found(r)'
    BY <1>2, <2>2, <2>3, <2>5, <2>6 DEF Found, Descending, InHour, Tidying
  <2>8. QED
    BY <1>1, <2>3, <2>4, <2>7, LookKeeps
<1>6. QED
  BY <1>3, <1>4, <1>5 DEF ScanHours

\* The path is above what its thread removes.
LEMMA PathStays ==
  ASSUME RotationIInv, NEW r \in recorders, recorders = {r}, NEW v, Len(v) > Len(Path(r))
  PROVE  Path(r) \in dirs /\ ~Below(v, Path(r)) /\ v # Path(r)
<1>1. r \in Recorders
  BY ThreadIs
<1>2. Path(r) \in dirs
  BY <1>1 DEF RotationIInv, Alone
<1>3. ~(Len(v) <= Len(Path(r)))
  BY <1>1, PathLengths
<1>4. QED
  BY <1>1, <1>2, <1>3, PathLengths DEF Below

LEMMA DropDateKeeps ==
  ASSUME RotationIInv, NEW r \in Recorders, DropDate(r) PROVE RotationIInv'
<1> DEFINE date == aim[r].date
<1>1. r \in recorders /\ RemoveAll(date) /\ stage[r] = "drop date" /\ aim[r] \in Aims /\ Ends(r)
  BY ThreadIs DEF DropDate, Is
<1>2. date \in Folders /\ Len(date) = Len(Path(r)) + 1 /\ UNCHANGED <<clock, starting, previews>>
  BY <1>1 DEF RotationIInv, Found, Descending, Aims, Ends, Finds, recorderVars
<1>3. Tree' /\ VideoInv'
  BY <1>1, <1>2, RemoveAllKeeps DEF RotationIInv
<1>4. dirs' \subseteq dirs /\ files' \subseteq files
  BY <1>1 DEF RemoveAll
<1>5. Len(date) > Len(Path(r))
  BY <1>2, PathLengths
<1>6. recorders = {r} => Path(r) \in dirs'
  BY <1>1, <1>5, PathStays DEF RemoveAll
<1>7. QED
  BY <1>1, <1>3, <1>4, <1>6, EndsKeeps

LEMMA DropHourKeeps ==
  ASSUME RotationIInv, NEW r \in Recorders, DropHour(r) PROVE RotationIInv'
<1> DEFINE hour == aim[r].hour
<1>1. r \in recorders /\ RemoveAll(hour) /\ stage[r] = "drop hour" /\ aim[r] \in Aims /\ Ends(r)
  BY ThreadIs DEF DropHour, Is
<1>2. hour \in Folders /\ Len(hour) = Len(Path(r)) + 2 /\ UNCHANGED <<clock, starting, previews>>
  BY <1>1 DEF RotationIInv, Found, InHour, Aims, Ends, Finds, recorderVars
<1>3. Tree' /\ VideoInv'
  BY <1>1, <1>2, RemoveAllKeeps DEF RotationIInv
<1>4. dirs' \subseteq dirs /\ files' \subseteq files
  BY <1>1 DEF RemoveAll
<1>5. Len(hour) > Len(Path(r))
  BY <1>2, PathLengths
<1>6. recorders = {r} => Path(r) \in dirs'
  BY <1>1, <1>5, PathStays DEF RemoveAll
<1>7. QED
  BY <1>1, <1>3, <1>4, <1>6, EndsKeeps

LEMMA ScanFilesKeeps ==
  ASSUME RotationIInv, NEW r \in Recorders, ScanFiles(r) PROVE RotationIInv'
<1> DEFINE hour == aim[r].hour
<1>1. r \in recorders /\ Looks /\ stage[r] = "files" /\ aim[r] \in Aims
  BY ThreadIs DEF ScanFiles, Is
<1>2. /\ UNCHANGED <<dirs, files>> /\ Len(aim[r].date) = Len(Path(r)) + 1 /\ Oldest(aim[r].date, dirs, clock)
      /\ Len(hour) = Len(Path(r)) + 2 /\ Oldest(hour, dirs, clock)
  BY <1>1 DEF Looks, RotationIInv, Found, InHour
<1>3. CASE Ends(r)
  BY <1>1, <1>3, LookEnds
<1>4. CASE Goes(r, "drop hour")
  <2>1. Finds(r, "drop hour", aim[r]) /\ "drop hour" \in Stages
    BY <1>4 DEF Goes, Stages
  <2>2. stage'[r] = "drop hour" /\ aim'[r] = aim[r] /\ clock' = clock
    BY <1>1, <2>1, FoundNext
  <2>3. Found(r)'
    BY <1>2, <2>2 DEF Found, Descending, InHour, Tidying
  <2>4. QED
    BY <1>1, <2>1, <2>3, LookKeeps
<1>5. CASE \E f \in FilesIn(hour) : (\A g \in FilesIn(hour) : f.name <= g.name) /\ Finds(r, "file", [aim[r] EXCEPT !.file = f])
  <2>1. PICK f \in FilesIn(hour) : (\A g \in FilesIn(hour) : f.name <= g.name) /\ Finds(r, "file", [aim[r] EXCEPT !.file = f])
    BY <1>5
  <2>2. f \in files /\ f.dir = hour /\ f \in Files /\ VideoInv /\ f \in Videos
    <3>1. f \in files /\ f.dir = hour /\ VideoInv
      BY <2>1 DEF FilesIn, RotationIInv
    <3>2. QED
      BY <3>1 DEF VideoInv, Videos
  <2> DEFINE found == [aim[r] EXCEPT !.file = f]
  <2>3. found \in Aims /\ found.date = aim[r].date /\ found.hour = hour /\ found.file = f /\ "file" \in Stages
    BY <1>1, <2>2 DEF Aims, Stages
  <2> HIDE DEF found
  <2>4. Finds(r, "file", found)
    BY <2>1 DEF found
  <2>5. stage'[r] = "file" /\ aim'[r] = found /\ UNCHANGED <<clock, starting, previews>>
    BY <1>1, <2>3, <2>4, FoundNext
  <2>6. hour \in HourDirs
    <3>1. hour # TimelapseDir
      <4>1. Len(Path(r)) + 2 # 1
        BY PathLengths
      <4>2. QED
        BY <1>2, <4>1, OtherFoldersAre
    <3>2. QED
      BY <2>2, <3>1 DEF VideoInv
  <2>7. Victim(f, hour)
    <3>1. f.name < clock.name /\ f \notin previews
      BY <2>2 DEF VideoInv, NamesInOrder, StartsInTurn
    <3>2. \A g \in files : g.dir = hour /\ g.ext = "mp4" => f.name <= g.name
      BY <2>1 DEF FilesIn
    <3>3. \A s \in starting : s.dir = hour => f.name < s.name
      BY <2>2 DEF VideoInv, StartsInTurn
    <3>4. QED
      BY <2>2, <2>6, <3>1, <3>2, <3>3 DEF Victim
  <2>8. Found(r)'
    BY <1>2, <2>3, <2>5, <2>7 DEF Found, Descending, InHour, Tidying, Victim
  <2>9. QED
    BY <1>1, <2>3, <2>4, <2>8, LookKeeps
<1>6. QED
  BY <1>3, <1>4, <1>5 DEF ScanFiles

LEMMA RemoveFileKeeps ==
  ASSUME RotationIInv, NEW r \in Recorders, RemoveFile(r) PROVE RotationIInv'
<1> DEFINE f == aim[r].file
<1>1. r \in recorders /\ stage[r] = "file" /\ aim[r] \in Aims /\ files' = files \ {f} /\ dirs' = dirs
      /\ Finds(r, "counterpart", aim[r]) /\ "counterpart" \in Stages
  BY ThreadIs DEF RemoveFile, Is, Goes, Stages
<1>2. stage'[r] = "counterpart" /\ aim'[r] = aim[r] /\ UNCHANGED <<clock, starting, previews>>
  BY <1>1, FoundNext
<1>3. /\ Len(aim[r].date) = Len(Path(r)) + 1 /\ Oldest(aim[r].date, dirs, clock)
      /\ Len(aim[r].hour) = Len(Path(r)) + 2 /\ Oldest(aim[r].hour, dirs, clock) /\ Victim(f, aim[r].hour)
  BY <1>1 DEF RotationIInv, Found, InHour
<1>4. Tree' /\ VideoInv'
  BY <1>1, <1>2, LessIsKept DEF RotationIInv, Tree, VideoInv
<1>5. Found(r)'
  BY <1>1, <1>2, <1>3 DEF Found, Descending, InHour, Tidying, Victim
<1>6. recorders = {r} => Path(r) \in dirs'
  BY <1>1 DEF RotationIInv, Alone
<1>7. QED
  BY <1>1, <1>4, <1>5, <1>6, ThreadKeeps

LEMMA RemoveCounterpartKeeps ==
  ASSUME RotationIInv, NEW r \in Recorders, RemoveCounterpart(r) PROVE RotationIInv'
<1>1. r \in recorders /\ stage[r] = "counterpart" /\ aim[r] \in Aims /\ files' \subseteq files /\ dirs' = dirs
      /\ Finds(r, "hour left", aim[r]) /\ "hour left" \in Stages
  BY ThreadIs DEF RemoveCounterpart, Is, Goes, Stages
<1>2. stage'[r] = "hour left" /\ aim'[r] = aim[r] /\ UNCHANGED <<clock, starting, previews>>
  BY <1>1, FoundNext
<1>3. Len(aim[r].date) = Len(Path(r)) + 1 /\ Len(aim[r].hour) = Len(Path(r)) + 2
  BY <1>1 DEF RotationIInv, Found, InHour
<1>4. Tree' /\ VideoInv'
  BY <1>1, <1>2, LessIsKept DEF RotationIInv, Tree, VideoInv
<1>5. Found(r)'
  BY <1>2, <1>3 DEF Found, Descending, InHour, Tidying
<1>6. recorders = {r} => Path(r) \in dirs'
  BY <1>1 DEF RotationIInv, Alone
<1>7. QED
  BY <1>1, <1>4, <1>5, <1>6, ThreadKeeps

\* A thread that tidies goes on or ends.
LEMMA TidyKeeps ==
  ASSUME RotationIInv, NEW r \in recorders, stage[r] \in Tidying, NEW s \in Tidying, Goes(r, s),
         dirs' \subseteq dirs, files' \subseteq files, Tree', VideoInv', recorders = {r} => Path(r) \in dirs'
  PROVE  RotationIInv'
<1>1. r \in Recorders /\ aim[r] \in Aims /\ s \in Stages /\ s # "dead" /\ s # "hours"
      /\ s \notin Descending \cup InHour
  BY ThreadIs DEF Stages, Tidying, Descending, InHour
<1>2. Finds(r, s, aim[r])
  BY DEF Goes
<1>3. stage'[r] = s /\ aim'[r] = aim[r]
  BY <1>1, <1>2, FoundNext
<1>4. Len(aim[r].date) = Len(Path(r)) + 1 /\ Len(aim[r].hour) = Len(Path(r)) + 2
  BY <1>1 DEF RotationIInv, Found
<1>5. Found(r)'
  BY <1>1, <1>3, <1>4 DEF Found, InHour
<1>6. QED
  BY <1>1, <1>2, <1>5, ThreadKeeps

LEMMA CheckKeeps ==
  ASSUME RotationIInv, NEW r \in Recorders, CheckHour(r) \/ CheckDate(r) PROVE RotationIInv'
<1>1. /\ r \in recorders /\ Looks /\ stage[r] \in Tidying
      /\ Ends(r) \/ Goes(r, "hour") \/ Goes(r, "date")
  BY DEF CheckHour, CheckDate, Is, Tidying
<1>2. CASE Ends(r)
  BY <1>1, <1>2, LookEnds
<1>3. CASE Goes(r, "hour") \/ Goes(r, "date")
  <2>1. UNCHANGED <<dirs, files, clock, starting, previews>>
    BY <1>1, <1>3 DEF Looks, Goes, Finds, recorderVars
  <2>2. Tree' /\ VideoInv'
    BY <2>1 DEF RotationIInv, Tree, NotLater, VideoInv, Videos, NamesInOrder, StartsInTurn, InHours
  <2>3. recorders = {r} => Path(r) \in dirs'
    BY <2>1 DEF RotationIInv, Alone
  <2>4. QED
    BY <1>1, <1>3, <2>1, <2>2, <2>3, TidyKeeps DEF Tidying
<1>4. QED
  BY <1>1, <1>2, <1>3

LEMMA RemoveHourKeeps ==
  ASSUME RotationIInv, NEW r \in Recorders, RemoveHour(r) PROVE RotationIInv'
<1> DEFINE hour == aim[r].hour
<1>1. r \in recorders /\ stage[r] = "hour" /\ aim[r] \in Aims /\ stage[r] \in Tidying
  BY ThreadIs DEF RemoveHour, Is, Tidying
<1>2. CASE Looks /\ Ends(r)
  BY <1>1, <1>2, LookEnds
<1>3. CASE Empty(hour) /\ dirs' = dirs \ {hour} /\ UNCHANGED files /\ Goes(r, "date left")
  <2>1. hour \in Folders /\ Len(hour) = Len(Path(r)) + 2 /\ UNCHANGED <<clock, starting, previews>>
    BY <1>1, <1>3 DEF RotationIInv, Found, Aims, Goes, Finds, recorderVars
  <2>2. Tree' /\ VideoInv'
    BY <1>3, <2>1, RemoveEmptyKeeps DEF RotationIInv
  <2>3. Len(hour) > Len(Path(r))
    BY <2>1, PathLengths
  <2>4. recorders = {r} => Path(r) \in dirs'
    BY <1>1, <1>3, <2>3, PathStays
  <2>5. QED
    BY <1>1, <1>3, <2>2, <2>4, TidyKeeps DEF Tidying
<1>4. QED
  BY <1>2, <1>3 DEF RemoveHour

LEMMA RemoveDateKeeps ==
  ASSUME RotationIInv, NEW r \in Recorders, RemoveDate(r) PROVE RotationIInv'
<1> DEFINE date == aim[r].date
<1>1. r \in recorders /\ stage[r] = "date" /\ aim[r] \in Aims /\ stage[r] \in Tidying /\ Ends(r) /\ UNCHANGED files
  BY ThreadIs DEF RemoveDate, Is, Tidying
<1>2. CASE dirs' = dirs
  BY <1>1, <1>2, LookEnds DEF Looks
<1>3. CASE Empty(date) /\ dirs' = dirs \ {date}
  <2>1. date \in Folders /\ Len(date) = Len(Path(r)) + 1 /\ UNCHANGED <<clock, starting, previews>>
    BY <1>1 DEF RotationIInv, Found, Aims, Ends, Finds, recorderVars
  <2>2. Tree' /\ VideoInv'
    BY <1>1, <1>3, <2>1, RemoveEmptyKeeps DEF RotationIInv
  <2>3. Len(date) > Len(Path(r))
    BY <2>1, PathLengths
  <2>4. recorders = {r} => Path(r) \in dirs'
    BY <1>1, <1>3, <2>3, PathStays
  <2>5. QED
    BY <1>1, <1>3, <2>2, <2>4, EndsKeeps
<1>4. QED
  BY <1>2, <1>3 DEF RemoveDate

LEMMA RotateFilesKeeps ==
  ASSUME RotationIInv, NEW r \in Recorders, RotateFiles(r) PROVE RotationIInv'
  BY ScanDatesKeeps, ScanHoursKeeps, DropDateKeeps, ScanFilesKeeps, DropHourKeeps, RemoveFileKeeps,
     RemoveCounterpartKeeps, CheckKeeps, RemoveHourKeeps, RemoveDateKeeps DEF RotateFiles

-------------------------------------------------------------------------------
(* The steps of the recorders. *)

LEMMA CreateFolderKeeps ==
  ASSUME RotationIInv, NEW r \in Recorders, CreateFolder(r) PROVE RotationIInv'
<1>1. PICK d \in 1..LastDate, h \in 0..LastHour :
        /\ Later(d, h)
        /\ starting' = starting \cup {File(HourDir(r, d, h), clock.name, "mp4")}
        /\ clock' = [date |-> d, hour |-> h, name |-> clock.name + 1]
        /\ dirs' = dirs \cup {Path(r), DateDir(r, d), HourDir(r, d, h)}
  BY DEF CreateFolder
<1>2. UNCHANGED <<recorders, files, previews, stage, aim, full>> /\ r \in recorders /\ Of(r, starting) = {}
  BY DEF CreateFolder
<1>3. DiskTypes /\ Tree /\ VideoInv /\ Alone /\ NamesInOrder /\ StartsInTurn
  BY DEF RotationIInv, VideoInv
<1>4. /\ clock \in ClockTimes /\ clock' \in ClockTimes /\ clock'.date = d /\ clock'.hour = h
      /\ clock'.name = clock.name + 1 /\ clock.name \in Nat
      /\ clock.date \in Nat /\ clock.hour \in Nat /\ \A e \in 1..LastDate : e \in Nat /\ \A i \in 0..LastHour : i \in Nat
  BY <1>1, <1>3, OtherFoldersAre DEF DiskTypes, ClockTimes
<1>5. NoEarlier(clock, clock') /\ clock.date <= d
  BY <1>1, <1>4 DEF Later, NoEarlier
<1>6. DiskTypes'
  BY <1>2, <1>3, <1>4 DEF DiskTypes, ClockTimes
<1>7. Path(r) \in Folders /\ DateDir(r, d) \in Folders /\ HourDir(r, d, h) \in Folders /\ HourDir(r, d, h) \in HourDirs
  BY DEF Folders, Path, DateDirs, HourDirs
<1>8. \A q \in Recorders, e \in 1..LastDate : DateDir(q, e) \in dirs' => DateDir(q, e) \in dirs \/ (q = r /\ e = d)
  <2>1. ASSUME NEW q \in Recorders, NEW e \in 1..LastDate PROVE DateDir(q, e) # Path(r)
    BY DatesDiffer DEF Path
  <2>2. QED
    BY <1>1, <2>1, DatesDiffer, HoursDiffer
<1>9. \A q \in Recorders, e \in 1..LastDate, i \in 0..LastHour :
        HourDir(q, e, i) \in dirs' => HourDir(q, e, i) \in dirs \/ (q = r /\ e = d /\ i = h)
  <2>1. ASSUME NEW q \in Recorders, NEW e \in 1..LastDate, NEW i \in 0..LastHour PROVE HourDir(q, e, i) # Path(r)
    <3>1. Len(HourDir(q, e, i)) \in {2, 3} /\ Len(Path(r)) \in {0, 1}
      BY HoursDiffer, PathLengths
    <3>2. \A m \in {2, 3}, n \in {0, 1} : m # n
      OBVIOUS
    <3>3. QED
      BY <3>1, <3>2, Zenon
  <2>2. QED
    BY <1>1, <2>1, DatesDiffer, HoursDiffer
<1>10. \A e \in 1..LastDate, i \in 0..LastHour : NotLater(e, i, clock) => NotLater(e, i, clock')
  BY <1>4, <1>5 DEF NotLater, NoEarlier
<1>11. Tree'
  <2>1. dirs' \subseteq Folders
    BY <1>1, <1>3, <1>7 DEF Tree
  <2>2. ASSUME NEW q \in Recorders, NEW e \in 1..LastDate, DateDir(q, e) \in dirs' PROVE e <= clock'.date
    <3>1. CASE DateDir(q, e) \in dirs
      <4>1. e <= clock.date
        BY <1>3, <3>1 DEF Tree
      <4>2. QED
        BY <1>4, <1>5, <4>1
    <3>2. CASE e = d
      BY <1>4, <3>2
    <3>3. QED
      BY <1>8, <2>2, <3>1, <3>2
  <2>3. ASSUME NEW q \in Recorders, NEW e \in 1..LastDate, NEW i \in 0..LastHour, HourDir(q, e, i) \in dirs'
        PROVE  DateDir(q, e) \in dirs' /\ NotLater(e, i, clock')
    <3>1. CASE HourDir(q, e, i) \in dirs
      BY <1>1, <1>3, <1>10, <3>1 DEF Tree
    <3>2. CASE q = r /\ e = d /\ i = h
      BY <1>1, <1>4, <3>2 DEF NotLater
    <3>3. QED
      BY <1>9, <2>3, <3>1, <3>2
  <2>4. QED
    BY <2>1, <2>2, <2>3 DEF Tree
<1> DEFINE s == File(HourDir(r, d, h), clock.name, "mp4")
<1>12. s \in Files /\ s.dir = HourDir(r, d, h) /\ s.name = clock.name /\ s.ext = "mp4"
  BY <1>4, <1>7 DEF File, Files
<1> HIDE DEF s
<1>13. starting' = starting \cup {s} /\ Videos' = Videos \cup {s}
  BY <1>1, <1>2 DEF s, Videos
<1>14. \A f \in Videos : f \in Files /\ f.name < clock.name /\ f.name \in Nat
  BY <1>3 DEF VideoInv, NamesInOrder, Files
<1>15. NamesInOrder'
  <2>1. \A f \in Videos' : f.name < clock'.name
    BY <1>4, <1>12, <1>13, <1>14
  <2>2. ASSUME NEW q \in Recorders, NEW e \in 1..LastDate, NEW i \in 0..LastHour, NEW f \in Videos', f.dir = HourDir(q, e, i)
        PROVE  NotLater(e, i, clock')
    <3>1. CASE f \in Videos
      BY <1>3, <1>10, <2>2, <3>1 DEF NamesInOrder
    <3>2. CASE f = s
      <4>1. e = d /\ i = h
        <5>1. HourDir(r, d, h) = HourDir(q, e, i)
          BY <1>12, <2>2, <3>2
        <5>2. QED
          BY <5>1, HoursDiffer
      <4>2. QED
        BY <1>4, <4>1 DEF NotLater
    <3>3. QED
      BY <1>13, <3>1, <3>2
  <2>3. ASSUME NEW q \in Recorders, NEW e \in 1..LastDate, NEW i \in 0..LastHour, NEW f \in Videos', f.dir = HourDir(q, e, i),
               NEW b \in 1..LastDate, NEW j \in 0..LastHour, NEW g \in Videos', g.dir = HourDir(q, b, j),
               e < b \/ (e = b /\ i < j)
        PROVE  f.name < g.name
    <3>1. CASE f \in Videos /\ g \in Videos
      BY <1>3, <2>3, <3>1 DEF NamesInOrder
    <3>2. CASE f \in Videos /\ g = s
      BY <1>12, <1>14, <3>2
    <3>3. CASE f = s
      <4>1. e = d /\ i = h
        <5>1. HourDir(r, d, h) = HourDir(q, e, i)
          BY <1>12, <2>3, <3>3
        <5>2. QED
          BY <5>1, HoursDiffer
      <4>2. NotLater(b, j, clock')
        BY <2>2, <2>3
      <4>3. QED
        BY <1>4, <2>3, <4>1, <4>2 DEF NotLater
    <3>4. QED
      BY <1>13, <3>1, <3>2, <3>3
  <2>4. QED
    BY <2>1, <2>2, <2>3 DEF NamesInOrder
<1>16. \A t \in starting : Len(t.dir) # Len(s.dir)
  <2>1. Len(s.dir) = Len(Path(r)) + 2
    BY <1>12, HoursDiffer
  <2>2. QED
    BY <1>2, <2>1 DEF Of
<1>17. StartsInTurn'
  BY <1>2, <1>3, <1>12, <1>13, <1>14, <1>16 DEF StartsInTurn, Videos
<1>18. VideoInv'
  <2>1. Videos' \subseteq Files
    BY <1>3, <1>12, <1>13 DEF VideoInv
  <2>2. InHours(previews)' /\ InHours(starting)'
    BY <1>2, <1>3, <1>7, <1>12, <1>13 DEF VideoInv, InHours
  <2>3. \A f \in files' : f.dir \in dirs' \cap (HourDirs \cup {TimelapseDir})
    BY <1>1, <1>2, <1>3 DEF VideoInv
  <2>4. QED
    BY <1>15, <1>17, <2>1, <2>2, <2>3 DEF VideoInv
<1>19. Alone'
  BY <1>1, <1>2, <1>3 DEF Alone
<1>20. MadeLater(dirs, dirs', clock)
  BY <1>1, <1>5, <1>8, <1>9 DEF MadeLater, Later
<1>21. ASSUME NEW q \in Recorders PROVE Found(q)'
  <2>1. Found(q) /\ stage'[q] = stage[q] /\ aim'[q] = aim[q]
    BY <1>2 DEF RotationIInv
  <2>2. Oldest(aim[q].date, dirs, clock) => Oldest(aim[q].date, dirs', clock')
    BY <1>4, <1>5, <1>20, OldestStays
  <2>3. Oldest(aim[q].hour, dirs, clock) => Oldest(aim[q].hour, dirs', clock')
    BY <1>4, <1>5, <1>20, OldestStays
  <2>4. aim[q].file.name \in Nat
    BY <1>3 DEF DiskTypes, Files
  <2>5. Victim(aim[q].file, aim[q].hour) =>
          /\ aim[q].file.name < clock'.name
          /\ \A t \in starting' : t.dir = aim[q].hour => aim[q].file.name < t.name
    BY <1>4, <1>12, <1>13, <2>4 DEF Victim
  <2>6. QED
    BY <1>2, <2>1, <2>2, <2>3, <2>5 DEF Found, Victim
<1>22. QED
  BY <1>6, <1>11, <1>18, <1>19, <1>21 DEF RotationIInv

LEMMA OpenRecordingKeeps ==
  ASSUME RotationIInv, NEW f \in starting, OpenRecording(f) PROVE RotationIInv'
<1>1. starting' = starting \ {f} /\ UNCHANGED <<recorders, dirs, clock, stage, aim, full>>
  BY DEF OpenRecording
<1>2. DiskTypes /\ Tree /\ VideoInv /\ Alone /\ NamesInOrder /\ StartsInTurn
  BY DEF RotationIInv, VideoInv
<1>3. DiskTypes' /\ Tree' /\ Alone'
  BY <1>1, <1>2 DEF DiskTypes, Tree, NotLater, Alone
<1> DEFINE p == Counterpart(f)
<1>4. f \in Videos /\ f \in Files /\ f.dir \in HourDirs /\ f.ext = "mp4"
  BY <1>2 DEF VideoInv, Videos, InHours, StartsInTurn
<1>5. p \in Files /\ p.dir = f.dir /\ p.name = f.name /\ p.ext = "jpg"
  BY <1>4 DEF Counterpart, Files
<1> HIDE DEF p
<1>6. \/ files' = files /\ previews' = previews
      \/ f.dir \in dirs /\ files' = files \cup {f} /\ previews' = previews \cup {p}
  BY DEF OpenRecording, p
<1>7. \A g \in files \cup previews : Len(g.dir) = Len(f.dir) => g.name < f.name /\ g.name # f.name
  <2>1. ASSUME NEW g \in files \cup previews, Len(g.dir) = Len(f.dir) PROVE g.name < f.name /\ g.name # f.name
    <3>1. g.name \in Nat /\ f.name \in Nat /\ g.name < f.name
      BY <1>2, <1>4, <2>1 DEF VideoInv, Videos, Files, StartsInTurn
    <3>2. QED
      BY <3>1
  <2>2. QED
    BY <2>1
<1>8. \A t \in starting' : t \in starting /\ Len(t.dir) # Len(f.dir)
  BY <1>1, <1>2 DEF StartsInTurn
<1>9. Videos' \subseteq Videos \cup {p}
  BY <1>1, <1>4, <1>6 DEF Videos
<1>10. \A g \in Videos' : \E e \in Videos : g.dir = e.dir /\ g.name = e.name /\ g \in Files
  BY <1>2, <1>4, <1>5, <1>9 DEF VideoInv
<1>11. NamesInOrder'
  <2>1. \A g \in Videos' : g.name < clock'.name
    BY <1>1, <1>2, <1>10 DEF NamesInOrder
  <2>2. \A q \in Recorders, d \in 1..LastDate, h \in 0..LastHour : \A g \in Videos' :
          g.dir = HourDir(q, d, h) => NotLater(d, h, clock')
    BY <1>1, <1>2, <1>10 DEF NamesInOrder
  <2>3. ASSUME NEW q \in Recorders, NEW d \in 1..LastDate, NEW e \in 1..LastDate, NEW h \in 0..LastHour, NEW i \in 0..LastHour,
               NEW g \in Videos', NEW k \in Videos',
               g.dir = HourDir(q, d, h), k.dir = HourDir(q, e, i), d < e \/ (d = e /\ h < i)
        PROVE  g.name < k.name
    <3>1. PICK a \in Videos : g.dir = a.dir /\ g.name = a.name
      BY <1>10
    <3>2. PICK b \in Videos : k.dir = b.dir /\ k.name = b.name
      BY <1>10
    <3>3. a.name < b.name
      BY <1>2, <2>3, <3>1, <3>2 DEF NamesInOrder
    <3>4. QED
      BY <3>1, <3>2, <3>3
  <2>4. QED
    BY <2>1, <2>2, <2>3 DEF NamesInOrder
<1>12. StartsInTurn'
  <2>1. \A t \in starting' : t.ext = "mp4" /\ \A g \in files' \cup previews' : Len(g.dir) = Len(t.dir) => g.name < t.name
    BY <1>2, <1>5, <1>6, <1>8 DEF StartsInTurn
  <2>2. \A t, u \in starting' : Len(t.dir) = Len(u.dir) => t = u
    BY <1>2, <1>8 DEF StartsInTurn
  <2>3. \A g \in previews' : g.ext = "jpg" /\ g \notin files'
    <3>1. p \notin files
      BY <1>5, <1>7
    <3>2. QED
      BY <1>2, <1>4, <1>5, <1>6, <3>1 DEF StartsInTurn
  <2>4. QED
    BY <2>1, <2>2, <2>3 DEF StartsInTurn
<1>13. VideoInv'
  <2>1. Videos' \subseteq Files
    BY <1>10
  <2>2. InHours(previews)' /\ InHours(starting)'
    BY <1>2, <1>4, <1>5, <1>6, <1>8 DEF VideoInv, InHours
  <2>3. \A g \in files' : g.dir \in dirs' \cap (HourDirs \cup {TimelapseDir})
    BY <1>1, <1>2, <1>4, <1>6 DEF VideoInv
  <2>4. QED
    BY <1>11, <1>12, <2>1, <2>2, <2>3 DEF VideoInv
<1>14. ASSUME NEW q \in Recorders PROVE Found(q)'
  <2>1. Found(q) /\ stage'[q] = stage[q] /\ aim'[q] = aim[q] /\ dirs' = dirs /\ clock' = clock
    BY <1>1 DEF RotationIInv
  <2> DEFINE v == aim[q].file
  <2>2. v \in Files
    BY <1>2 DEF DiskTypes
  <2>3. v.name \in Nat /\ f.name \in Nat
    BY <1>4, <2>2 DEF Files
  <2>4. ASSUME Victim(v, aim[q].hour) PROVE v # f /\ v # p /\ (f.dir = aim[q].hour => v.name <= f.name)
    <3>1. f.dir = aim[q].hour => v.name < f.name
      BY <2>4 DEF Victim
    <3>2. v.dir = aim[q].hour
      BY <2>4 DEF Victim
    <3>3. QED
      BY <1>5, <2>3, <3>1, <3>2
  <2>5. Victim(v, aim[q].hour) =>
          /\ v \notin previews' /\ (v \notin files => v \notin files')
          /\ \A g \in files' : g.dir = aim[q].hour /\ g.ext = "mp4" => v.name <= g.name
          /\ \A t \in starting' : t.dir = aim[q].hour => v.name < t.name
    BY <1>6, <1>8, <2>4 DEF Victim
  <2>6. QED
    BY <2>1, <2>5 DEF Found, Victim
<1>15. QED
  BY <1>3, <1>13, <1>14 DEF RotationIInv

LEMMA MakePreviewImageKeeps ==
  ASSUME RotationIInv, NEW p \in previews, MakePreviewImage(p) PROVE RotationIInv'
<1>1. previews' = previews \ {p} /\ UNCHANGED <<recorders, dirs, clock, starting, stage, aim, full>>
  BY DEF MakePreviewImage
<1>2. files' = files \/ (p.dir \in dirs /\ files' = files \cup {p})
  BY DEF MakePreviewImage
<1>3. DiskTypes /\ Tree /\ VideoInv /\ Alone /\ NamesInOrder /\ StartsInTurn
  BY DEF RotationIInv, VideoInv
<1>4. DiskTypes' /\ Tree' /\ Alone'
  BY <1>1, <1>3 DEF DiskTypes, Tree, NotLater, Alone
<1>5. p.dir \in HourDirs /\ p.ext = "jpg" /\ "jpg" # "mp4"
  BY <1>3 DEF VideoInv, InHours, StartsInTurn
<1>6. Videos' \subseteq Videos
  BY <1>1, <1>2 DEF Videos
<1>7. NamesInOrder'
  BY <1>1, <1>3, <1>6 DEF NamesInOrder, NotLater
<1>8. StartsInTurn'
  BY <1>1, <1>2, <1>3 DEF StartsInTurn
<1>9. VideoInv'
  <2>1. InHours(previews)' /\ InHours(starting)'
    BY <1>1, <1>3 DEF VideoInv, InHours
  <2>2. \A g \in files' : g.dir \in dirs' \cap (HourDirs \cup {TimelapseDir})
    BY <1>1, <1>2, <1>3, <1>5 DEF VideoInv
  <2>3. Videos' \subseteq Files
    BY <1>3, <1>6 DEF VideoInv
  <2>4. QED
    BY <1>7, <1>8, <2>1, <2>2, <2>3 DEF VideoInv
<1>10. ASSUME NEW q \in Recorders PROVE Found(q)'
  <2>1. Found(q) /\ stage'[q] = stage[q] /\ aim'[q] = aim[q] /\ dirs' = dirs /\ clock' = clock /\ starting' = starting
    BY <1>1 DEF RotationIInv
  <2> DEFINE v == aim[q].file
  <2>2. Victim(v, aim[q].hour) =>
          /\ v \notin previews' /\ (v \notin files => v \notin files')
          /\ \A g \in files' : g.dir = aim[q].hour /\ g.ext = "mp4" => v.name <= g.name
    BY <1>1, <1>2, <1>5 DEF Victim
  <2>3. QED
    BY <2>1, <2>2 DEF Found, Victim
<1>11. QED
  BY <1>4, <1>9, <1>10 DEF RotationIInv

LEMMA DiskUntouched ==
  ASSUME RotationIInv, UNCHANGED <<recorders, dirs, files, recorderVars, stage, aim>>, full' \in BOOLEAN
  PROVE  RotationIInv'
<1>1. UNCHANGED <<recorders, dirs, files, clock, starting, previews, stage, aim>>
  BY DEF recorderVars
<1>2. DiskTypes' /\ Tree' /\ Alone'
  BY <1>1 DEF RotationIInv, DiskTypes, Tree, NotLater, Alone
<1>3. VideoInv'
  BY <1>1 DEF RotationIInv, VideoInv, Videos, NamesInOrder, NotLater, StartsInTurn, InHours
<1>4. ASSUME NEW q \in Recorders PROVE Found(q)'
  BY <1>1 DEF RotationIInv, Found, Victim
<1>5. QED
  BY <1>2, <1>3, <1>4 DEF RotationIInv

LEMMA RotationInitial == RotationInit => RotationIInv
<1> SUFFICES ASSUME RotationInit PROVE RotationIInv
  OBVIOUS
<1>1. /\ recorders \in (SUBSET Recorders) \ {{}} /\ files \subseteq {OldOnDemand, OldTimelapse}
      /\ dirs = {<<>>, OnDemandDir, DateDir("on-demand", 1), HourDir("on-demand", 1, 0), TimelapseDir}
      /\ clock = [date |-> 1, hour |-> 0, name |-> 1] /\ starting = {} /\ previews = {}
      /\ stage = [r \in Recorders |-> "rest"] /\ aim = [r \in Recorders |-> Nothing] /\ full = FALSE
  BY DEF RotationInit
<1>2. 1 \in 1..LastDate /\ 0 \in 0..LastHour /\ "on-demand" \in Recorders /\ "background" \in Recorders
  BY RotationAssumption DEF Recorders
<1>3. HourDir("on-demand", 1, 0) \in HourDirs /\ DateDir("on-demand", 1) \in DateDirs
  BY <1>2 DEF HourDirs, DateDirs
<1>4. Nothing \in Aims
  BY DEF Nothing, Aims, Folders, Files, File
<1>5. DiskTypes
  <2>1. clock \in [date : 1..LastDate, hour : 0..LastHour, name : Nat]
    BY <1>1, <1>2
  <2>2. stage \in [Recorders -> Stages] /\ aim \in [Recorders -> Aims]
    BY <1>1, <1>4 DEF Stages
  <2>3. recorders \subseteq Recorders /\ recorders # {} /\ full \in BOOLEAN
    BY <1>1
  <2>4. QED
    BY <2>1, <2>2, <2>3 DEF DiskTypes, Aims
<1>6. Tree
  <2>1. dirs \subseteq Folders
    BY <1>1, <1>3 DEF Folders
  <2>2. ASSUME NEW q \in Recorders, NEW d \in 1..LastDate, DateDir(q, d) \in dirs PROVE d = 1
    <3>1. DateDir(q, d) # HourDir("on-demand", 1, 0) /\ DateDir(q, d) \notin {<<>>, OnDemandDir, TimelapseDir}
      BY <1>2, DatesDiffer, HoursDiffer
    <3>2. DateDir(q, d) = DateDir("on-demand", 1)
      BY <1>1, <2>2, <3>1
    <3>3. QED
      BY <1>2, <3>2, DatesDiffer
  <2>3. ASSUME NEW q \in Recorders, NEW d \in 1..LastDate, NEW h \in 0..LastHour, HourDir(q, d, h) \in dirs
        PROVE  q = "on-demand" /\ d = 1 /\ h = 0
    <3>1. HourDir(q, d, h) # DateDir("on-demand", 1) /\ HourDir(q, d, h) \notin {<<>>, OnDemandDir, TimelapseDir}
      <4>1. Len(HourDir(q, d, h)) # 0 /\ Len(HourDir(q, d, h)) # 1
        BY HoursDiffer
      <4>2. HourDir(q, d, h) \notin {<<>>, OnDemandDir, TimelapseDir}
        BY <4>1, OtherFoldersAre, Zenon
      <4>3. QED
        BY <1>2, <4>2, HoursDiffer
    <3>2. HourDir(q, d, h) = HourDir("on-demand", 1, 0)
      BY <1>1, <2>3, <3>1
    <3>3. QED
      BY <1>2, <3>2, HoursDiffer
  <2>4. DateDir("on-demand", 1) \in dirs /\ clock.date = 1 /\ clock.hour = 0
    BY <1>1
  <2>5. QED
    BY <2>1, <2>2, <2>3, <2>4 DEF Tree, NotLater
<1>7. Videos = files /\ \A f \in files : f \in Files /\ f.name = 0 /\ f.dir \in dirs \cap {HourDir("on-demand", 1, 0), TimelapseDir}
  BY <1>1, <1>3 DEF Videos, OldOnDemand, OldTimelapse, File, Files, Folders
<1>8. NamesInOrder
  <2>1. clock.name = 1 /\ clock.date = 1 /\ clock.hour = 0
    BY <1>1
  <2>2. \A q \in Recorders, d \in 1..LastDate, h \in 0..LastHour : \A f \in Videos :
          f.dir = HourDir(q, d, h) => d = 1 /\ h = 0
    <3>1. ASSUME NEW q \in Recorders, NEW d \in 1..LastDate, NEW h \in 0..LastHour, NEW f \in Videos, f.dir = HourDir(q, d, h)
          PROVE  d = 1 /\ h = 0
      <4>1. f.dir \in {HourDir("on-demand", 1, 0), TimelapseDir}
        BY <1>7
      <4>2. Len(HourDir(q, d, h)) # 1
        BY HoursDiffer
      <4>3. HourDir(q, d, h) # TimelapseDir
        BY <4>2, OtherFoldersAre
      <4>4. HourDir(q, d, h) = HourDir("on-demand", 1, 0)
        BY <3>1, <4>1, <4>3
      <4>5. QED
        BY <1>2, <4>4, HoursDiffer
    <3>2. QED
      BY <3>1
  <2>3. \A f \in Videos : f.name < clock.name
    BY <1>7, <2>1
  <2>4. \A q \in Recorders, d \in 1..LastDate, h \in 0..LastHour : \A f \in Videos :
          f.dir = HourDir(q, d, h) => NotLater(d, h, clock)
    BY <2>1, <2>2 DEF NotLater
  <2>5. \A q \in Recorders, d, e \in 1..LastDate, h, i \in 0..LastHour : \A f, g \in Videos :
          ~(f.dir = HourDir(q, d, h) /\ g.dir = HourDir(q, e, i) /\ (d < e \/ (d = e /\ h < i)))
    BY <2>2
  <2>6. QED
    BY <2>3, <2>4, <2>5 DEF NamesInOrder
<1>9. VideoInv
  BY <1>1, <1>3, <1>7, <1>8 DEF VideoInv, InHours, StartsInTurn
<1>10. \A r \in Recorders : stage[r] = "rest"
  BY <1>1
<1>11. Alone
  <2>1. Path("background") \in dirs /\ Path("on-demand") \in dirs
    BY <1>1, PathsAre
  <2>2. QED
    BY <1>10, <2>1 DEF Alone, Recorders
<1>12. \A r \in Recorders : Found(r)
  BY <1>10 DEF Found, Descending, InHour, Tidying
<1>13. QED
  BY <1>5, <1>6, <1>9, <1>11, <1>12 DEF RotationIInv

LEMMA RotationNextKeeps ==
  ASSUME RotationIInv, [RotationNext]_rotationVars PROVE RotationIInv'
<1>1. CASE \E r \in Recorders : RotationStep(r)
  BY <1>1, WakesKeeps, RotateFilesKeeps DEF RotationStep
<1>2. CASE Starts
  BY <1>2, OpenRecordingKeeps DEF Starts
<1>3. CASE RecorderStep
  BY <1>3, CreateFolderKeeps, MakePreviewImageKeeps DEF RecorderStep
<1>4. CASE OthersWrite
  BY <1>4, DiskUntouched DEF OthersWrite
<1>5. CASE UNCHANGED rotationVars
  <2>1. UNCHANGED <<recorders, dirs, files, recorderVars, stage, aim>> /\ full' = full
    BY <1>5 DEF rotationVars
  <2>2. QED
    BY <2>1, DiskUntouched DEF RotationIInv, DiskTypes
<1>6. QED
  BY <1>1, <1>2, <1>3, <1>4, <1>5 DEF RotationNext

LEMMA RotationStrong == RotationIInv => RotationInv
<1> SUFFICES ASSUME RotationIInv PROVE RotationInv
  OBVIOUS
<1>1. DiskTypes /\ Tree /\ VideoInv /\ Alone
  BY DEF RotationIInv
<1>2. \A d \in dirs : d \in Seq(Nat) /\ Len(d) \in 0..3
  BY <1>1, FolderTypes DEF Tree
<1>3. \A f \in files \cup starting \cup previews : Len(f.dir) \in 1..3 /\ f.name \in Nat /\ f.ext \in {"mp4", "jpg"}
  <2>1. ASSUME NEW f \in files \cup starting \cup previews
        PROVE  Len(f.dir) \in 1..3 /\ f.name \in Nat /\ f.ext \in {"mp4", "jpg"}
    <3>1. f \in Files /\ (f.dir \in HourDirs \/ f.dir = TimelapseDir)
      BY <1>1 DEF VideoInv, Videos, InHours
    <3>2. f.dir \in HourDirs => Len(f.dir) \in {2, 3}
      BY HoursDiffer DEF HourDirs
    <3>3. Len(f.dir) \in 1..3
      BY <3>1, <3>2, OtherFoldersAre
    <3>4. QED
      BY <3>1, <3>3 DEF Files
  <2>2. QED
    BY <2>1
<1>4. RotationTypeOK
  BY <1>1, <1>2, <1>3 DEF RotationTypeOK, DiskTypes
<1>5. AloneSurvives
  <2>1. SUFFICES ASSUME NEW r \in Recorders, stage[r] = "dead" PROVE recorders = Recorders
    BY DEF AloneSurvives, Alive
  <2>2. r \in recorders /\ recorders # {r}
    BY <1>1, <2>1 DEF Alone
  <2>3. recorders \subseteq Recorders
    BY <1>1 DEF DiskTypes
  <2>4. QED
    BY <2>2, <2>3 DEF Recorders
<1>6. QED
  BY <1>4, <1>5 DEF RotationInv

-------------------------------------------------------------------------------
(* What goes in a step of RotateFiles. *)

Deletes == OldestFirst /\ PairsTogether /\ TidyingKeeps

LEMMA InOrder ==
  ASSUME RotationIInv, NEW v, Oldest(v, dirs, clock), files' \subseteq files,
         \A f \in files \ files', g \in files' : f.dir \in HourDirs /\ g.dir \in HourDirs =>
            /\ Below(v, f.dir)
            /\ Below(v, g.dir) => Len(f.dir) # Len(g.dir) \/ (g.ext = "mp4" => f.name <= g.name)
  PROVE  OldestFirst
<1>1. DiskTypes /\ Tree /\ VideoInv
  BY DEF RotationIInv
<1>2. \A f \in files : Len(f.dir) # 1 => f.dir \in HourDirs
  BY <1>1, OtherFoldersAre DEF VideoInv
<1>3. SUFFICES ASSUME NEW r \in Recorders, NEW f \in Of(r, Gone), NEW g \in Of(r, files'), g.ext = "mp4"
               PROVE  f.name <= g.name
  BY DEF OldestFirst
<1>4. /\ f \in files \ files' /\ g \in files' /\ g \in files
      /\ Len(f.dir) = Len(Path(r)) + 2 /\ Len(g.dir) = Len(Path(r)) + 2
  BY DEF Of, Gone
<1>5. Len(f.dir) # 1 /\ Len(g.dir) # 1 /\ Len(f.dir) = Len(g.dir)
  <2>1. Len(Path(r)) + 2 # 1
    BY PathLengths
  <2>2. QED
    BY <1>4, <2>1
<1>6. f.dir \in HourDirs /\ g.dir \in HourDirs
  BY <1>2, <1>4, <1>5
<1>7. QED
  BY <1>1, <1>3, <1>4, <1>5, <1>6, OldestBefore

LEMMA NothingGoes ==
  ASSUME files \subseteq files', \A r \in recorders : stage[r] = "counterpart" => stage'[r] = stage[r]
  PROVE  Deletes
  BY DEF Deletes, OldestFirst, PairsTogether, TidyingKeeps, Gone, Of

\* Only this thread goes on.
LEMMA OthersStay ==
  ASSUME RotationIInv, NEW r \in recorders, NEW s, NEW found, Finds(r, s, found)
  PROVE  \A q \in recorders : q # r => stage'[q] = stage[q] /\ aim'[q] = aim[q]
  BY DEF Finds, RotationIInv, DiskTypes

LEMMA RotateFilesDeletes ==
  ASSUME RotationIInv, NEW r \in Recorders, RotationWakes(r) \/ RotateFiles(r) PROVE Deletes
<1>1. CASE RotationWakes(r) \/ ScanDates(r) \/ ScanHours(r) \/ ScanFiles(r) \/ CheckHour(r) \/ CheckDate(r)
  <2>1. r \in recorders /\ stage[r] # "counterpart" /\ files' = files
    BY <1>1 DEF RotationWakes, ScanDates, ScanHours, ScanFiles, CheckHour, CheckDate, Is, Looks
  <2>2. \E s, found : Finds(r, s, found)
    BY <1>1 DEF RotationWakes, ScanDates, ScanHours, ScanFiles, CheckHour, CheckDate, Ends, Goes
  <2>3. QED
    BY <2>1, <2>2, OthersStay, NothingGoes
<1>2. CASE RemoveHour(r) \/ RemoveDate(r)
  <2>1. r \in recorders /\ stage[r] # "counterpart" /\ files' = files
    BY <1>2 DEF RemoveHour, RemoveDate, Is, Looks
  <2>2. \E s, found : Finds(r, s, found)
    BY <1>2 DEF RemoveHour, RemoveDate, Ends, Goes
  <2>3. QED
    BY <2>1, <2>2, OthersStay, NothingGoes
<1>3. ASSUME NEW v, RemoveAll(v), Oldest(v, dirs, clock), r \in recorders, stage[r] \in {"drop date", "drop hour"}, Ends(r)
      PROVE  Deletes
  <2>1. files' = {f \in files : ~Below(v, f.dir)}
    BY <1>3 DEF RemoveAll
  <2>2. OldestFirst
    BY <1>3, <2>1, InOrder
  <2>3. \A q \in recorders : q # r => stage'[q] = stage[q]
    BY <1>3, OthersStay DEF Ends
  <2>4. stage[r] # "counterpart" /\ stage[r] \notin {"hour left", "hour", "date left", "date"}
    BY <1>3
  <2>5. PairsTogether /\ TidyingKeeps
    BY <2>3, <2>4 DEF PairsTogether, TidyingKeeps
  <2>6. QED
    BY <2>2, <2>5 DEF Deletes
<1>4. CASE DropDate(r)
  <2>1. r \in recorders /\ stage[r] = "drop date" /\ RemoveAll(aim[r].date) /\ Ends(r)
    BY <1>4 DEF DropDate, Is
  <2>2. Oldest(aim[r].date, dirs, clock)
    BY <2>1 DEF RotationIInv, Found, Descending
  <2>3. QED
    BY <1>3, <2>1, <2>2
<1>5. CASE DropHour(r)
  <2>1. r \in recorders /\ stage[r] = "drop hour" /\ RemoveAll(aim[r].hour) /\ Ends(r)
    BY <1>5 DEF DropHour, Is
  <2>2. Oldest(aim[r].hour, dirs, clock)
    BY <2>1 DEF RotationIInv, Found, InHour
  <2>3. QED
    BY <1>3, <2>1, <2>2
<1>6. CASE RemoveFile(r) \/ RemoveCounterpart(r)
  <2> DEFINE v == aim[r].file
             h == aim[r].hour
  <2>1. /\ r \in recorders /\ stage[r] \in {"file", "counterpart"} /\ aim[r] \in Aims
        /\ files' = files \ {v} \/ files' = files \ {Counterpart(v)}
        /\ stage[r] = "counterpart" => files' = files \ {Counterpart(v)}
        /\ \E s, found : Finds(r, s, found)
    BY <1>6, ThreadIs DEF RemoveFile, RemoveCounterpart, Is, Goes
  <2>2. Oldest(h, dirs, clock) /\ Victim(v, h) /\ (stage[r] = "counterpart" => v \notin files)
    BY <2>1 DEF RotationIInv, Found, InHour
  <2>3. v \in Files /\ Counterpart(v).dir = v.dir /\ Counterpart(v).name = v.name
    BY <2>1 DEF Aims, Files, Counterpart
  <2>4. \A f \in files \ files' : f.dir = h /\ f.name = v.name
    BY <2>1, <2>2, <2>3 DEF Victim
  <2>5. ASSUME NEW f \in files \ files', NEW g \in files', f.dir \in HourDirs, g.dir \in HourDirs
        PROVE  /\ Below(h, f.dir)
               /\ Below(h, g.dir) => (g.ext = "mp4" => f.name <= g.name)
    <3>1. f.dir = h /\ f.name = v.name /\ g \in files
      BY <2>1, <2>4
    <3>2. PICK q \in Recorders, d \in 1..LastDate, i \in 0..LastHour : h = HourDir(q, d, i)
      BY <2>5, <3>1 DEF HourDirs
    <3>3. PICK p \in Recorders, e \in 1..LastDate, j \in 0..LastHour : g.dir = HourDir(p, e, j)
      BY <2>5 DEF HourDirs
    <3>4. Below(h, h)
      BY <3>2, BelowIs
    <3>5. Below(h, g.dir) => g.dir = h
      BY <3>2, <3>3, BelowIs
    <3>6. QED
      BY <2>2, <3>1, <3>4, <3>5 DEF Victim
  <2>6. files' \subseteq files
    BY <2>1
  <2>7. OldestFirst
    BY <2>2, <2>5, <2>6, InOrder
  <2>8. \A q \in recorders : q # r => stage'[q] = stage[q]
    BY <2>1, OthersStay
  <2>9. PairsTogether
    <3>1. stage[r] = "counterpart" => {v, Counterpart(v)} \cap files' = {}
      BY <2>1, <2>2
    <3>2. QED
      BY <2>8, <3>1 DEF PairsTogether
  <2>10. TidyingKeeps
    BY <2>1, <2>8 DEF TidyingKeeps
  <2>11. QED
    BY <2>7, <2>9, <2>10 DEF Deletes
<1>7. QED
  BY <1>1, <1>2, <1>4, <1>5, <1>6 DEF RotateFiles

LEMMA RotationNextDeletes ==
  ASSUME RotationIInv, RotationNext PROVE Deletes
<1>1. CASE \E r \in Recorders : RotationStep(r)
  BY <1>1, RotateFilesDeletes DEF RotationStep
<1>2. CASE Starts \/ RecorderStep \/ OthersWrite
  <2>1. files \subseteq files' /\ stage' = stage
    BY <1>2 DEF Starts, RecorderStep, OthersWrite, OpenRecording, MakePreviewImage, CreateFolder
  <2>2. QED
    BY <2>1, NothingGoes
<1>3. QED
  BY <1>1, <1>2 DEF RotationNext

LEMMA RotationInductive == RecordingSpec => []RotationIInv
<1>1. RecordingInit => RotationIInv
  BY RotationInitial DEF RecordingInit
<1>2. RotationIInv /\ [RecordingNext]_recordingVars => RotationIInv'
  <2>1. [RecordingNext]_recordingVars => [RotationNext]_rotationVars
    BY DEF RecordingNext, Recorder, Rotation, Query, recordingVars
  <2>2. QED
    BY <2>1, RotationNextKeeps
<1>3. QED
  BY <1>1, <1>2, PTL DEF RecordingSpec

(* A rotation thread iterates folders outside its try (RotateFiles, recorder_manager.cpp): when *)
(* only one recorder runs, on any disk and whatever that recorder makes between the steps of    *)
(* the rotation, the folder is there.  With both recorders the theorem promises nothing.        *)
THEOREM AloneRotatesSafely == RecordingSpec => []RotationInv
<1>1. QED
  BY RotationInductive, RotationStrong, PTL

(* Whatever the recorders make between its steps and whatever the other thread removes, a      *)
(* rotation deletes no file newer than a video it keeps, a video and its preview image both go, *)
(* and tidying up deletes no file (RotateFiles).                                               *)
THEOREM OldestGoFirst == RecordingSpec => RotationDeletes
<1>1. RotationIInv /\ [RecordingNext]_recordingVars => [Deletes]_rotationVars
  BY RotationNextDeletes DEF RecordingNext, Recorder, Rotation, Query, recordingVars
<1>2. QED
  BY <1>1, RotationInductive, PTL DEF RecordingSpec, RotationDeletes, Deletes

-------------------------------------------------------------------------------
(* MediaQuery: least and largest numbers.                                         *)

(* Every argument by induction below is one on the least counterexample. *)
LEMMA LeastNumber ==
  ASSUME NEW T \in SUBSET Nat, T # {}
  PROVE  \E m \in T : \A k \in T : m <= k
<1> DEFINE R == {ss \in Nat \X Nat : ss[1] < ss[2]}
<1>1. IsWellFoundedOn(R, Nat)
  BY NatLessThanWellFounded DEF OpToRel
<1>2. \A x, y \in T : <<y, x>> \in R <=> y < x
  OBVIOUS
<1> HIDE DEF R
<1>3. PICK m \in T : \A y \in T : ~(<<y, m>> \in R)
  BY <1>1, WFMin
<1>4. ASSUME NEW k \in T PROVE m <= k
  <2>1. ~(k < m)
    BY <1>2, <1>3
  <2>2. k \in Nat /\ m \in Nat
    OBVIOUS
  <2>3. QED
    BY <2>1, <2>2
<1>5. QED
  BY <1>4

LEMMA LargestIs ==
  ASSUME NEW b \in Nat, NEW S \in SUBSET (0..b), S # {}
  PROVE  Largest(S) \in S /\ \A y \in S : y <= Largest(S)
<1> DEFINE T == {m \in Nat : \A y \in S : y <= m}
<1>1. PICK m \in T : \A k \in T : m <= k
  <2>1. b \in T
    OBVIOUS
  <2>2. T \in SUBSET Nat /\ T # {}
    BY <2>1
  <2>3. QED
    BY <2>2, LeastNumber
<1>2. m \in S
  <2>1. SUFFICES ASSUME m \notin S PROVE FALSE
    OBVIOUS
  <2>2. PICK y \in S : TRUE
    OBVIOUS
  <2>3. \A z \in S : z < m
    BY <1>1, <2>1
  <2>4. m - 1 \in T
    BY <1>1, <2>2, <2>3
  <2>5. QED
    BY <1>1, <2>4
<1>3. \E x \in S : \A y \in S : x >= y
  BY <1>1, <1>2
<1>4. Largest(S) \in S /\ \A y \in S : Largest(S) >= y
  BY <1>3, Zenon DEF Largest
<1>5. QED
  BY <1>4

LEMMA Division ==
  ASSUME NEW a \in Nat, NEW n \in Nat \ {0}
  PROVE  a \div n \in Nat /\ n * (a \div n) <= a /\ a < n * ((a \div n) + 1)
  OBVIOUS

LEMMA DivisionKeepsOrder ==
  ASSUME NEW a \in Nat, NEW b \in Nat, NEW n \in Nat \ {0}, a <= b
  PROVE  a \div n <= b \div n
<1> DEFINE p == a \div n
           q == b \div n
<1>1. p \in Nat /\ q \in Nat /\ n * p <= a /\ b < n * (q + 1)
  BY Division
<1> HIDE DEF p, q
<1>2. SUFFICES ASSUME q < p PROVE FALSE
  BY <1>1 DEF p, q
<1>3. n * (q + 1) <= n * p
  BY <1>1, <1>2
<1>4. QED
  BY <1>1, <1>3

-------------------------------------------------------------------------------
(* The archive: hours and dates in the order of their recordings. *)

Kept == kept \in SUBSET Recordings /\ Archive(kept)

LEMMA Sizes ==
  /\ PerHour \in Nat \ {0} /\ HoursPerDate \in Nat \ {0} /\ Dates \in Nat \ {0}
  /\ Requested \in Nat /\ MaxFolders \in Nat /\ MaxFolders > 1
  BY QueryAssumption

LEMMA HoursInOrder ==
  /\ \A r \in Recordings : r \in Nat /\ HourOf(r) \in Hours
  /\ \A r, s \in Nat : HourOf(r) \in Nat /\ (r <= s => HourOf(r) <= HourOf(s))
  /\ \A h \in Hours : h \in Nat
<1>1. \A r, s \in Nat : HourOf(r) \in Nat /\ (r <= s => HourOf(r) <= HourOf(s))
  <2>1. TAKE r, s \in Nat
  <2>2. HourOf(r) \in Nat
    BY Sizes, Division DEF HourOf
  <2>3. ASSUME r <= s PROVE HourOf(r) <= HourOf(s)
    BY <2>3, Sizes, DivisionKeepsOrder DEF HourOf
  <2>4. QED
    BY <2>2, <2>3
<1>2. ASSUME NEW r \in Recordings PROVE r \in Nat /\ HourOf(r) \in Hours
  <2> DEFINE k == Dates * HoursPerDate
             q == r \div PerHour
  <2>1. k \in Nat /\ r \in Nat /\ r < k * PerHour
    BY Sizes DEF Recordings
  <2>2. q \in Nat /\ PerHour * q <= r
    BY <2>1, Sizes, Division
  <2> HIDE DEF k, q
  <2>3. q < k
    <3>1. SUFFICES ASSUME k <= q PROVE FALSE
      BY <2>1, <2>2
    <3>2. PerHour * k <= PerHour * q
      BY <2>1, <2>2, <3>1, Sizes
    <3>3. PerHour * k = k * PerHour
      BY <2>1, Sizes
    <3>4. PerHour * k \in Nat /\ PerHour * q \in Nat
      BY <2>1, <2>2, Sizes
    <3>5. QED
      BY <2>1, <2>2, <3>2, <3>3, <3>4
  <2>4. QED
    BY <2>1, <2>2, <2>3 DEF HourOf, Hours, k, q
<1>3. \A h \in Hours : h \in Nat
  BY DEF Hours
<1>4. QED
  BY <1>1, <1>2, <1>3

LEMMA DatesInOrder ==
  \A h, g \in Nat : DateOf(h) \in Nat /\ (h <= g => DateOf(h) <= DateOf(g))
<1>1. TAKE h, g \in Nat
<1>2. DateOf(h) \in Nat
  BY Sizes, Division DEF DateOf
<1>3. ASSUME h <= g PROVE DateOf(h) <= DateOf(g)
  BY <1>3, Sizes, DivisionKeepsOrder DEF DateOf
<1>4. QED
  BY <1>2, <1>3

(* A time falls into the recording it is divided into; only that one is under way. *)
LEMMA TimesInOrder ==
  ASSUME NEW t \in Times, NEW r \in Nat
  PROVE  /\ RecordingAt(t) \in Recordings /\ Written(r) \in Nat /\ t \in Nat
         /\ Written(r) < t <=> r < RecordingAt(t)
<1> DEFINE K == Dates * HoursPerDate * PerHour
           q == t \div 2
<1>1. K \in Nat /\ 2 * Dates * HoursPerDate * PerHour = 2 * K
  BY Sizes
<1>2. t \in Nat /\ t < 2 * K
  BY <1>1 DEF Times
<1>3. q \in Nat /\ 2 * q <= t /\ t < 2 * (q + 1)
  BY <1>2, Division
<1>4. 2 * r + 1 \in Nat
  OBVIOUS
<1> HIDE DEF K, q
<1>5. q \in 0..(K - 1)
  BY <1>1, <1>2, <1>3
<1>6. 2 * r + 1 < t <=> r < q
  BY <1>2, <1>3
<1>7. QED
  BY <1>2, <1>4, <1>5, <1>6 DEF Recordings, RecordingAt, Written, K, q

LEMMA KeptIs ==
  ASSUME Kept
  PROVE  /\ \A r \in kept : r \in Recordings /\ r \in Nat /\ HourOf(r) \in Hours
         /\ hours \subseteq Hours /\ \A h \in hours : DateOf(h) \in dates
         /\ \A d \in dates : \E h \in hours : DateOf(h) = d
         /\ ~Flat => \A r \in kept : HourOf(r) \in hours
         /\ \A h \in hours : \E r \in kept : HourOf(r) = h
         /\ Flat => hours = {}
  BY HoursInOrder DEF Kept, Archive, Flat

LEMMA LargestHour ==
  ASSUME NEW S \in SUBSET Hours, S # {}
  PROVE  Largest(S) \in S /\ \A y \in S : y <= Largest(S)
<1>1. Dates * HoursPerDate - 1 \in Nat
  <2>1. \A d, n \in Nat \ {0} : d * n \in Nat \ {0}
    OBVIOUS
  <2>2. QED
    BY <2>1, Sizes
<1>2. QED
  BY <1>1, LargestIs DEF Hours

(* The walk goes to the hour before, over any date that is there, and ends at the first *)
(* hour of all unless a date is missing.                                                *)
LEMMA PreviousIs ==
  ASSUME Kept, NEW h \in Hours
  PROVE  /\ \/ PreviousHour(h) = {}
            \/ \E g \in hours : /\ PreviousHour(h) = {g} /\ Largest(PreviousHour(h)) = g
                                /\ g < h /\ \A x \in hours : x < h => x <= g
         /\ PreviousHour(h) = {} /\ NoDateMissing /\ DateOf(h) \in dates => \A x \in hours : h <= x
<1> DEFINE same == {x \in HoursOf(DateOf(h)) : x < h}
           before == IF DateOf(h) = 0 THEN {} ELSE HoursOf(DateOf(h) - 1)
<1>1. hours \subseteq Hours /\ h \in Nat /\ DateOf(h) \in Nat
  BY KeptIs, HoursInOrder, DatesInOrder
<1>2. /\ same \subseteq hours /\ before \subseteq hours
      /\ \A x \in hours : x \in same <=> DateOf(x) = DateOf(h) /\ x < h
      /\ \A x \in hours : x \in before <=> DateOf(h) # 0 /\ DateOf(x) = DateOf(h) - 1
  BY DEF HoursOf
<1>3. PreviousHour(h) = IF same # {} THEN {Largest(same)}
                        ELSE IF before # {} THEN {Largest(before)} ELSE {}
  BY DEF PreviousHour
<1>4. \A x \in hours : x \in Nat /\ DateOf(x) \in Nat
  BY <1>1, HoursInOrder, DatesInOrder
<1>5. \A x \in hours : x < h => DateOf(x) <= DateOf(h)
  BY <1>1, <1>4, DatesInOrder
<1>6. \A x \in hours : DateOf(x) < DateOf(h) => x < h
  BY <1>1, <1>4, DatesInOrder
<1> HIDE DEF same, before
<1>7. \A g : Largest({g}) = g
  BY DEF Largest
<1>8. CASE same # {}
  <2> DEFINE g == Largest(same)
  <2>1. g \in same /\ \A y \in same : y <= g
    BY <1>1, <1>2, <1>8, LargestHour
  <2>2. PreviousHour(h) = {g}
    BY <1>3, <1>8
  <2> HIDE DEF g
  <2>3. g \in hours /\ g < h /\ DateOf(g) = DateOf(h)
    BY <1>2, <2>1
  <2>4. ASSUME NEW x \in hours, x < h PROVE x <= g
    <3>1. CASE DateOf(x) = DateOf(h)
      BY <1>2, <2>1, <2>4, <3>1
    <3>2. CASE DateOf(x) < DateOf(h)
      <4>1. DateOf(x) < DateOf(g)
        BY <2>3, <3>2
      <4>2. ~(g <= x)
        BY <1>4, <2>3, <4>1, DatesInOrder
      <4>3. QED
        BY <1>4, <2>3, <4>2
    <3>3. QED
      BY <1>1, <1>4, <1>5, <2>4, <3>1, <3>2
  <2>5. QED
    BY <1>7, <2>2, <2>3, <2>4
<1>9. CASE same = {} /\ before # {}
  <2> DEFINE g == Largest(before)
  <2>1. g \in before /\ \A y \in before : y <= g
    BY <1>1, <1>2, <1>9, LargestHour
  <2>2. PreviousHour(h) = {g}
    BY <1>3, <1>9
  <2> HIDE DEF g
  <2>3. g \in hours /\ DateOf(h) # 0 /\ DateOf(g) = DateOf(h) - 1 /\ g < h
    <3>1. g \in hours /\ DateOf(h) # 0 /\ DateOf(g) = DateOf(h) - 1
      BY <1>2, <2>1
    <3>2. DateOf(g) < DateOf(h)
      BY <1>1, <3>1
    <3>3. QED
      BY <1>6, <3>1, <3>2
  <2>4. ASSUME NEW x \in hours, x < h PROVE x <= g
    <3>1. DateOf(x) # DateOf(h)
      BY <1>2, <1>9, <2>4
    <3>2. DateOf(x) <= DateOf(g)
      BY <1>1, <1>4, <1>5, <2>3, <2>4, <3>1
    <3>3. CASE DateOf(x) = DateOf(g)
      BY <1>2, <2>1, <2>3, <3>3
    <3>4. CASE DateOf(x) < DateOf(g)
      <4>1. ~(g <= x)
        BY <1>4, <2>3, <3>4, DatesInOrder
      <4>2. QED
        BY <1>4, <2>3, <4>1
    <3>5. QED
      BY <1>4, <2>3, <3>2, <3>3, <3>4
  <2>5. QED
    BY <1>7, <2>2, <2>3, <2>4
<1>10. CASE same = {} /\ before = {}
  <2>1. PreviousHour(h) = {}
    BY <1>3, <1>10
  <2>2. ASSUME NoDateMissing, DateOf(h) \in dates, NEW x \in hours, x < h PROVE FALSE
    <3>1. DateOf(x) # DateOf(h) /\ DateOf(x) <= DateOf(h)
      BY <1>2, <1>5, <1>10, <2>2
    <3>2. DateOf(x) \in dates
      BY KeptIs
    <3>3. DateOf(h) - 1 \in DateOf(x)..DateOf(h) /\ DateOf(h) # 0
      BY <1>1, <1>4, <3>1
    <3>4. DateOf(h) - 1 \in dates
      BY <2>2, <3>2, <3>3 DEF NoDateMissing
    <3>5. PICK g \in hours : DateOf(g) = DateOf(h) - 1
      BY <3>4, KeptIs
    <3>6. QED
      BY <1>2, <1>10, <3>3, <3>5
  <2>3. QED
    BY <1>1, <1>4, <2>1, <2>2
<1>11. QED
  BY <1>8, <1>9, <1>10

-------------------------------------------------------------------------------
(* s lists the newest of S, newest first: n of them, or all if they are fewer. *)

Lists(s, S, n) ==
  /\ s \in Seq(Nat) /\ Len(s) <= n
  /\ \A i \in 1..Len(s) : s[i] \in S
  /\ \A i, j \in 1..Len(s) : i < j => s[i] > s[j]
  /\ \A x \in S : \/ \E i \in 1..Len(s) : s[i] = x
                  \/ Len(s) = n /\ \A i \in 1..Len(s) : s[i] > x

(* There is one such list. *)
LEMMA ListsAgree ==
  ASSUME NEW S \in SUBSET Nat, NEW n \in Nat, NEW s, NEW t, Lists(s, S, n), Lists(t, S, n),
         NEW i \in 1..Len(s), \A k \in 1..(i - 1) : k \in 1..Len(t) /\ s[k] = t[k]
  PROVE  i \in 1..Len(t) /\ t[i] >= s[i]
<1>1. s \in Seq(Nat) /\ t \in Seq(Nat) /\ Len(s) \in Nat /\ Len(t) \in Nat /\ Len(s) <= n /\ s[i] \in S
  BY LenProperties DEF Lists
<1>2. /\ \A j, k \in 1..Len(s) : j < k => s[j] > s[k]
      /\ \A j, k \in 1..Len(t) : j < k => t[j] > t[k]
      /\ \A j \in 1..Len(s) : s[j] \in Nat
      /\ \A j \in 1..Len(t) : t[j] \in Nat
  BY <1>1 DEF Lists
<1>3. \A j \in 1..(i - 1) : t[j] # s[i]
  <2>1. TAKE j \in 1..(i - 1)
  <2>2. j \in 1..Len(s) /\ j < i
    BY <1>1
  <2>3. s[j] > s[i] /\ t[j] = s[j]
    BY <1>2, <2>2
  <2>4. s[j] \in Nat /\ s[i] \in Nat
    BY <1>2, <2>2
  <2>5. QED
    BY <2>3, <2>4
<1>4. CASE \E j \in 1..Len(t) : t[j] = s[i]
  <2>1. PICK j \in 1..Len(t) : t[j] = s[i]
    BY <1>4
  <2>2. i <= j
    BY <1>1, <1>3, <2>1
  <2>3. i \in 1..Len(t)
    BY <1>1, <2>2
  <2>4. i = j \/ t[i] > t[j]
    BY <1>1, <1>2, <2>2, <2>3
  <2>5. QED
    BY <1>2, <2>1, <2>3, <2>4
<1>5. CASE Len(t) = n /\ \A j \in 1..Len(t) : t[j] > s[i]
  <2>1. i \in 1..Len(t)
    BY <1>1, <1>5
  <2>2. QED
    BY <1>2, <1>5, <2>1
<1>6. QED
  BY <1>1, <1>4, <1>5 DEF Lists

LEMMA OneList ==
  ASSUME NEW S \in SUBSET Nat, NEW n \in Nat, NEW s, NEW t, Lists(s, S, n), Lists(t, S, n)
  PROVE  s = t
<1> DEFINE Differ == {i \in Nat \ {0} : /\ i \in 1..Len(s) \/ i \in 1..Len(t)
                                        /\ ~(i \in 1..Len(s) /\ i \in 1..Len(t) /\ s[i] = t[i])}
<1>1. s \in Seq(Nat) /\ t \in Seq(Nat) /\ Len(s) \in Nat /\ Len(t) \in Nat
  BY LenProperties DEF Lists
<1>2. SUFFICES ASSUME Differ # {} PROVE FALSE
  <2>1. CASE Differ = {}
    <3>1. ASSUME NEW i \in 1..Len(s) PROVE i \in 1..Len(t) /\ s[i] = t[i]
      <4>1. i \in Nat \ {0}
        BY <1>1
      <4>2. i \notin Differ
        BY <2>1, Zenon
      <4>3. QED
        BY <4>1, <4>2
    <3>2. ASSUME NEW i \in 1..Len(t) PROVE i \in 1..Len(s)
      <4>1. i \in Nat \ {0}
        BY <1>1
      <4>2. i \notin Differ
        BY <2>1, Zenon
      <4>3. QED
        BY <4>1, <4>2
    <3>3. Len(s) = Len(t)
      <4>1. Len(s) <= Len(t)
        BY <1>1, <3>1
      <4>2. Len(t) <= Len(s)
        BY <1>1, <3>2
      <4>3. QED
        BY <1>1, <4>1, <4>2
    <3>4. QED
      BY <1>1, <3>1, <3>3, SeqEqual
  <2>2. QED
    BY <2>1
<1>3. PICK i \in Differ : \A k \in Differ : i <= k
  <2>1. Differ \in SUBSET Nat
    OBVIOUS
  <2>2. QED
    BY <1>2, <2>1, LeastNumber
<1>4. \A k \in 1..(i - 1) : k \in 1..Len(s) /\ k \in 1..Len(t) /\ s[k] = t[k]
  <2>1. TAKE k \in 1..(i - 1)
  <2>2. k \in Nat \ {0} /\ k < i
    OBVIOUS
  <2>3. k \notin Differ
    BY <1>3, <2>2
  <2>4. k \in 1..Len(s) \/ k \in 1..Len(t)
    BY <1>1, <2>2
  <2>5. QED
    BY <2>2, <2>3, <2>4
<1>5. i \in Nat \ {0} /\ (i \in 1..Len(s) \/ i \in 1..Len(t)) /\ ~(i \in 1..Len(s) /\ i \in 1..Len(t) /\ s[i] = t[i])
  OBVIOUS
<1> HIDE DEF Differ
<1>6. i \in 1..Len(s) => i \in 1..Len(t) /\ t[i] >= s[i]
  BY <1>4, ListsAgree
<1>7. i \in 1..Len(t) => i \in 1..Len(s) /\ s[i] >= t[i]
  BY <1>4, ListsAgree
<1>8. i \in 1..Len(s) /\ i \in 1..Len(t) /\ s[i] >= t[i] /\ t[i] >= s[i]
  BY <1>5, <1>6, <1>7
<1>9. s[i] \in Nat /\ t[i] \in Nat
  BY <1>1, <1>8
<1>10. QED
  BY <1>5, <1>8, <1>9

(* Folder after folder: what is left to find is in the folders before. *)
LEMMA ListsJoin ==
  ASSUME NEW A \in SUBSET Nat, NEW B \in SUBSET Nat, NEW n \in Nat, NEW a, NEW b,
         Lists(a, A, n), Len(a) < n, Lists(b, B, n - Len(a)),
         \A x \in A, y \in B : x > y
  PROVE  Lists(a \o b, A \cup B, n)
<1> DEFINE s == a \o b
<1>1. a \in Seq(Nat) /\ b \in Seq(Nat) /\ Len(a) \in Nat /\ Len(b) \in Nat /\ Len(b) <= n - Len(a)
  BY LenProperties DEF Lists
<1>2. s \in Seq(Nat) /\ Len(s) = Len(a) + Len(b)
      /\ \A i \in 1 .. Len(a) + Len(b) : s[i] = IF i <= Len(a) THEN a[i] ELSE b[i - Len(a)]
  BY <1>1, ConcatProperties
<1> HIDE DEF s
<1>3. /\ \A i \in 1..Len(a) : i \in 1..Len(s) /\ s[i] = a[i] /\ a[i] \in A
      /\ \A i \in 1..Len(b) : i + Len(a) \in 1..Len(s) /\ s[i + Len(a)] = b[i] /\ b[i] \in B
  <2>1. ASSUME NEW i \in 1..Len(a) PROVE i \in 1..Len(s) /\ s[i] = a[i] /\ a[i] \in A
    BY <1>1, <1>2 DEF Lists
  <2>2. ASSUME NEW i \in 1..Len(b) PROVE i + Len(a) \in 1..Len(s) /\ s[i + Len(a)] = b[i] /\ b[i] \in B
    <3>1. i + Len(a) \in 1..(Len(a) + Len(b)) /\ ~(i + Len(a) <= Len(a)) /\ (i + Len(a)) - Len(a) = i
      BY <1>1
    <3>2. s[i + Len(a)] = b[i]
      BY <1>2, <3>1
    <3>3. QED
      BY <1>2, <3>1, <3>2 DEF Lists
  <2>3. QED
    BY <2>1, <2>2
<1>4. ASSUME NEW i \in 1..Len(s)
      PROVE  \/ i \in 1..Len(a) /\ s[i] = a[i] /\ s[i] \in A
             \/ i \notin 1..Len(a) /\ i - Len(a) \in 1..Len(b) /\ s[i] = b[i - Len(a)] /\ s[i] \in B
  <2>1. CASE i <= Len(a)
    BY <1>1, <1>3, <2>1
  <2>2. CASE ~(i <= Len(a))
    <3>1. i - Len(a) \in 1..Len(b) /\ i \in 1..(Len(a) + Len(b)) /\ i \notin 1..Len(a)
      BY <1>1, <1>2, <2>2
    <3>2. s[i] = b[i - Len(a)]
      BY <1>2, <2>2, <3>1
    <3>3. QED
      BY <3>1, <3>2 DEF Lists
  <2>3. QED
    BY <2>1, <2>2
<1>5. ASSUME NEW i \in 1..Len(s), NEW j \in 1..Len(s), i < j PROVE s[i] > s[j]
  <2>1. i \in Nat /\ j \in Nat
    OBVIOUS
  <2>2. CASE i \in 1..Len(a) /\ j \in 1..Len(a)
    BY <1>3, <1>5, <2>2 DEF Lists
  <2>3. CASE i \in 1..Len(a) /\ j \notin 1..Len(a)
    BY <1>3, <1>4, <2>3
  <2>4. CASE i \notin 1..Len(a)
    <3>1. j \notin 1..Len(a)
      BY <1>1, <1>5, <2>1, <2>4
    <3>2. i - Len(a) \in 1..Len(b) /\ s[i] = b[i - Len(a)] /\ j - Len(a) \in 1..Len(b) /\ s[j] = b[j - Len(a)]
      BY <1>4, <2>4, <3>1
    <3>3. i - Len(a) < j - Len(a)
      BY <1>1, <1>5, <2>1
    <3>4. QED
      BY <3>2, <3>3 DEF Lists
  <2>5. QED
    BY <2>2, <2>3, <2>4
<1>6. ASSUME NEW x \in A \cup B
      PROVE  (\E i \in 1..Len(s) : s[i] = x) \/ (Len(s) = n /\ \A i \in 1..Len(s) : s[i] > x)
  <2>1. CASE x \in A
    <3>1. PICK i \in 1..Len(a) : a[i] = x
      BY <1>1, <2>1 DEF Lists
    <3>2. QED
      BY <1>3, <3>1
  <2>2. CASE x \in B /\ \E i \in 1..Len(b) : b[i] = x
    BY <1>3, <2>2
  <2>3. CASE x \in B /\ Len(b) = n - Len(a) /\ \A i \in 1..Len(b) : b[i] > x
    <3>1. Len(s) = n
      BY <1>1, <1>2, <2>3
    <3>2. \A i \in 1..Len(s) : s[i] > x
      BY <1>4, <2>3
    <3>3. QED
      BY <3>1, <3>2
  <2>4. QED
    BY <2>1, <2>2, <2>3 DEF Lists
<1>7. Len(s) <= n /\ \A i \in 1..Len(s) : s[i] \in A \cup B
  BY <1>1, <1>2, <1>4
<1>8. Lists(s, A \cup B, n)
  BY <1>2, <1>5, <1>6, <1>7 DEF Lists
<1>9. QED
  BY <1>8 DEF s

(* A full list stays one when older recordings come to what it is taken from. *)
LEMMA ListsFull ==
  ASSUME NEW A \in SUBSET Nat, NEW B \in SUBSET Nat, NEW n \in Nat, NEW a,
         Lists(a, A, n), Len(a) = n, \A x \in A, y \in B : x > y
  PROVE  Lists(a, A \cup B, n)
  BY DEF Lists

-------------------------------------------------------------------------------
(* NewestFirst counts for each place how many come before. *)

Newer(S, x) == {y \in S : y > x}

LEMMA FewerNewer ==
  ASSUME NEW S \in SUBSET Nat, IsFiniteSet(S), NEW x \in S, NEW y \in S, x < y
  PROVE  Cardinality(Newer(S, y)) < Cardinality(Newer(S, x))
<1>1. /\ Newer(S, y) \in SUBSET Newer(S, x) /\ Newer(S, x) \in SUBSET S
      /\ y \in Newer(S, x) /\ y \notin Newer(S, y)
  <2>1. ASSUME NEW z \in S, z > y PROVE z > x
    BY <2>1
  <2>2. ~(y > y) /\ y > x
    OBVIOUS
  <2>3. QED
    BY <2>1, <2>2 DEF Newer
<1>2. /\ IsFiniteSet(Newer(S, x))
      /\ Cardinality(Newer(S, y)) <= Cardinality(Newer(S, x))
      /\ Cardinality(Newer(S, x)) = Cardinality(Newer(S, y)) => Newer(S, x) = Newer(S, y)
  <2>1. IsFiniteSet(Newer(S, x))
    BY <1>1, FS_Subset
  <2>2. QED
    BY <1>1, <2>1, FS_Subset
<1>3. Cardinality(Newer(S, x)) \in Nat /\ Cardinality(Newer(S, y)) \in Nat
  <2>1. IsFiniteSet(Newer(S, y))
    BY <1>1, <1>2, FS_Subset
  <2>2. QED
    BY <1>2, <2>1, FS_CardinalityType
<1>4. QED
  BY <1>1, <1>2, <1>3

LEMMA NewerCount ==
  ASSUME NEW S \in SUBSET Nat, IsFiniteSet(S), NEW x \in S
  PROVE  Cardinality(S) \in Nat /\ Cardinality(Newer(S, x)) \in 0..(Cardinality(S) - 1)
<1>1. IsFiniteSet(S \ {x}) /\ Cardinality(S \ {x}) = Cardinality(S) - 1
  BY FS_RemoveElement
<1>2. Newer(S, x) \in SUBSET (S \ {x})
  BY DEF Newer
<1>3. Cardinality(S) \in Nat
  BY FS_CardinalityType
<1>4. IsFiniteSet(Newer(S, x)) /\ Cardinality(Newer(S, x)) <= Cardinality(S \ {x})
  BY <1>1, <1>2, FS_Subset
<1>5. Cardinality(Newer(S, x)) \in Nat
  BY <1>4, FS_CardinalityType
<1>6. QED
  BY <1>1, <1>3, <1>4, <1>5

(* Every place is taken: below what is in one comes the largest of what is left. *)
LEMMA PlacesTaken ==
  ASSUME NEW b \in Nat, NEW S \in SUBSET (0..b), IsFiniteSet(S), NEW i \in 1..Cardinality(S)
  PROVE  \E x \in S : Cardinality(Newer(S, x)) = i - 1
<1> DEFINE Bad == {k \in 1..Cardinality(S) : ~ \E x \in S : Cardinality(Newer(S, x)) = k - 1}
<1>1. S \in SUBSET Nat /\ Cardinality(S) \in Nat
  BY FS_CardinalityType
<1>2. SUFFICES ASSUME Bad # {} PROVE FALSE
  OBVIOUS
<1>3. PICK k \in Bad : \A l \in Bad : k <= l
  <2>1. Bad \in SUBSET Nat
    OBVIOUS
  <2>2. QED
    BY <1>2, <2>1, LeastNumber
<1>4. k \in 1..Cardinality(S) /\ ~ \E x \in S : Cardinality(Newer(S, x)) = k - 1
  OBVIOUS
<1>5. CASE k = 1
  <2> DEFINE m == Largest(S)
  <2>1. S # {}
    <3>1. Cardinality(S) # 0
      BY <1>1, <1>4
    <3>2. QED
      BY <3>1, FS_EmptySet
  <2>2. m \in S /\ \A y \in S : y <= m
    BY <2>1, LargestIs
  <2> HIDE DEF m
  <2>3. Newer(S, m) = {}
    <3>1. \A y \in S : ~(y > m)
      BY <1>1, <2>2
    <3>2. QED
      BY <3>1 DEF Newer
  <2>4. Cardinality(Newer(S, m)) = k - 1
    BY <1>5, <2>3, FS_EmptySet
  <2>5. QED
    BY <1>4, <2>2, <2>4
<1>6. CASE k # 1
  <2>1. k - 1 \in 1..Cardinality(S) /\ k - 1 \notin Bad /\ k \in Nat
    BY <1>1, <1>3, <1>4, <1>6
  <2>2. PICK x \in S : Cardinality(Newer(S, x)) = (k - 1) - 1
    BY <2>1
  <2> DEFINE Rest == {y \in S : y < x}
             m == Largest(Rest)
  <2>3. IsFiniteSet(Newer(S, x)) /\ x \notin Newer(S, x)
    <3>1. Newer(S, x) \in SUBSET S
      BY DEF Newer
    <3>2. IsFiniteSet(Newer(S, x))
      BY <3>1, FS_Subset
    <3>3. QED
      BY <1>1, <3>2 DEF Newer
  <2>4. Cardinality(Newer(S, x) \cup {x}) = k - 1
    <3>1. Cardinality(Newer(S, x) \cup {x}) = Cardinality(Newer(S, x)) + 1
      BY <2>3, FS_AddElement
    <3>2. QED
      BY <2>1, <2>2, <3>1
  <2>5. Rest # {}
    <3>1. SUFFICES ASSUME Rest = {} PROVE FALSE
      OBVIOUS
    <3>2. \A y \in S : y = x \/ y > x
      BY <1>1, <3>1
    <3>3. S = Newer(S, x) \cup {x}
      BY <3>2 DEF Newer
    <3>4. QED
      BY <1>1, <1>4, <2>1, <2>4, <3>3
  <2>6. m \in Rest /\ \A y \in Rest : y <= m
    <3>1. Rest \in SUBSET (0..b)
      OBVIOUS
    <3>2. QED
      BY <2>5, <3>1, LargestIs
  <2>7. m \in S /\ m < x /\ \A y \in S : y < x => y <= m
    BY <2>6
  <2> HIDE DEF Rest, m
  <2>8. Newer(S, m) = Newer(S, x) \cup {x}
    <3>1. ASSUME NEW y \in S PROVE y > m <=> y > x \/ y = x
      BY <1>1, <2>7
    <3>2. QED
      BY <3>1 DEF Newer
  <2>9. QED
    BY <1>4, <2>4, <2>7, <2>8
<1>7. QED
  BY <1>5, <1>6

LEMMA NewestFirstLists ==
  ASSUME NEW b \in Nat, NEW S \in SUBSET (0..b)
  PROVE  /\ IsFiniteSet(S) /\ Cardinality(S) \in Nat
         /\ Len(NewestFirst(S)) = Cardinality(S)
         /\ Lists(NewestFirst(S), S, Cardinality(S))
         /\ \A x \in S : \E i \in 1..Cardinality(S) : NewestFirst(S)[i] = x
<1> DEFINE s == NewestFirst(S)
           c == Cardinality(S)
<1>1. IsFiniteSet(S) /\ S \in SUBSET Nat
  <2>1. IsFiniteSet(0..b)
    BY FS_Interval
  <2>2. IsFiniteSet(S)
    BY <2>1, FS_Subset
  <2>3. S \in SUBSET Nat
    OBVIOUS
  <2>4. QED
    BY <2>2, <2>3
<1>2. c \in Nat
  BY <1>1, FS_CardinalityType
<1> DEFINE Placed(i) == CHOOSE x \in S : Cardinality({y \in S : y > x}) = i - 1
<1>3. s = [i \in 1..c |-> Placed(i)]
  BY DEF NewestFirst
<1>4. ASSUME NEW i \in 1..c PROVE Placed(i) \in S /\ Cardinality(Newer(S, Placed(i))) = i - 1
  <2>1. \E x \in S : Cardinality({y \in S : y > x}) = i - 1
    BY <1>1, PlacesTaken DEF Newer
  <2>2. Placed(i) \in S /\ Cardinality({y \in S : y > Placed(i)}) = i - 1
    BY <2>1, Zenon
  <2>3. QED
    BY <2>2 DEF Newer
<1> HIDE DEF Placed, c, s
<1>5. s \in Seq(Nat) /\ Len(s) = c /\ \A i \in 1..c : s[i] \in S /\ Cardinality(Newer(S, s[i])) = i - 1
  <2>1. \A i \in 1..c : s[i] = Placed(i)
    BY <1>3
  <2>2. \A i \in 1..c : Placed(i) \in Nat
    BY <1>1, <1>4
  <2>3. s \in Seq(Nat) /\ Len(s) = c
    BY <1>2, <1>3, <2>2
  <2>4. QED
    BY <1>4, <2>1, <2>3
<1>6. ASSUME NEW i \in 1..c, NEW j \in 1..c, i < j PROVE s[i] > s[j]
  <2>1. s[i] \in S /\ s[j] \in S /\ Cardinality(Newer(S, s[i])) = i - 1 /\ Cardinality(Newer(S, s[j])) = j - 1
    BY <1>5
  <2>2. s[i] # s[j]
    BY <1>6, <2>1
  <2>3. ~(s[i] < s[j])
    <3>1. SUFFICES ASSUME s[i] < s[j] PROVE FALSE
      OBVIOUS
    <3>2. Cardinality(Newer(S, s[j])) < Cardinality(Newer(S, s[i]))
      BY <1>1, <2>1, <3>1, FewerNewer
    <3>3. QED
      BY <1>6, <2>1, <3>2
  <2>4. s[i] \in Nat /\ s[j] \in Nat
    BY <1>1, <2>1
  <2>5. QED
    BY <2>2, <2>3, <2>4
<1>7. ASSUME NEW x \in S PROVE \E i \in 1..c : s[i] = x
  <2> DEFINE i == Cardinality(Newer(S, x)) + 1
  <2>1. Cardinality(Newer(S, x)) \in 0..(c - 1)
    BY <1>1, NewerCount DEF c
  <2>2. i \in 1..c /\ Cardinality(Newer(S, x)) = i - 1
    BY <1>2, <2>1
  <2> HIDE DEF i
  <2>3. s[i] \in S /\ Cardinality(Newer(S, s[i])) = i - 1
    BY <1>5, <2>2
  <2>4. i \in Nat
    BY <2>2
  <2>5. ~(s[i] < x)
    <3>1. s[i] < x => Cardinality(Newer(S, x)) < Cardinality(Newer(S, s[i]))
      BY <1>1, <2>3, FewerNewer
    <3>2. QED
      BY <2>2, <2>3, <2>4, <3>1
  <2>6. ~(x < s[i])
    <3>1. x < s[i] => Cardinality(Newer(S, s[i])) < Cardinality(Newer(S, x))
      BY <1>1, <2>3, FewerNewer
    <3>2. QED
      BY <2>2, <2>3, <2>4, <3>1
  <2>7. s[i] = x
    <3>1. s[i] \in Nat /\ x \in Nat
      BY <1>1, <2>3
    <3>2. QED
      BY <2>5, <2>6, <3>1
  <2>8. QED
    BY <2>2, <2>7
<1>8. Lists(s, S, c)
  BY <1>2, <1>5, <1>6, <1>7 DEF Lists
<1>9. QED
  BY <1>1, <1>2, <1>5, <1>7, <1>8 DEF s, c

LEMMA NewestLists ==
  ASSUME NEW b \in Nat, NEW S \in SUBSET (0..b), NEW n \in Nat
  PROVE  Lists(Limited(NewestFirst(S), n), S, n)
<1> DEFINE s == NewestFirst(S)
           t == SubSeq(s, 1, n)
<1>1. /\ S \in SUBSET Nat /\ Len(s) \in Nat /\ Lists(s, S, Len(s))
      /\ \A x \in S : \E i \in 1..Len(s) : s[i] = x
  <2>1. /\ Len(s) \in Nat /\ Lists(s, S, Len(s))
        /\ \A x \in S : \E i \in 1..Len(s) : s[i] = x
    BY NewestFirstLists
  <2>2. S \in SUBSET Nat
    OBVIOUS
  <2>3. QED
    BY <2>1, <2>2
<1> HIDE DEF s
<1>2. s \in Seq(Nat)
  BY <1>1 DEF Lists
<1>3. CASE ~(Len(s) > n)
  BY <1>1, <1>2, <1>3 DEF Lists, Limited, s
<1>4. CASE Len(s) > n
  <2>1. t \in Seq(Nat) /\ Len(t) = n /\ \A i \in 1..n : i \in 1..Len(s) /\ t[i] = s[i]
    BY <1>1, <1>2, <1>4
  <2>2. Limited(s, n) = t
    BY <1>4 DEF Limited
  <2> HIDE DEF t
  <2>3. \A i, j \in 1..Len(s) : i < j => s[i] > s[j]
    BY <1>1 DEF Lists
  <2>4. ASSUME NEW x \in S, ~ \E i \in 1..n : t[i] = x, NEW j \in 1..n PROVE t[j] > x
    <3>1. PICK i \in 1..Len(s) : s[i] = x
      BY <1>1
    <3>2. i \notin 1..n
      BY <2>1, <2>4, <3>1
    <3>3. j \in 1..Len(s) /\ j < i /\ t[j] = s[j]
      BY <1>1, <2>1, <3>2
    <3>4. QED
      BY <2>3, <3>1, <3>3
  <2>5. \A i \in 1..n : t[i] \in S
    BY <1>1, <2>1 DEF Lists
  <2>6. \A i, j \in 1..n : i < j => t[i] > t[j]
    BY <2>1, <2>3
  <2>7. Lists(t, S, n)
    BY <2>1, <2>4, <2>5, <2>6 DEF Lists
  <2>8. QED
    BY <2>2, <2>7 DEF s
<1>5. QED
  BY <1>3, <1>4

-------------------------------------------------------------------------------
(* The walks through the folders. *)

LEMMA HourByHour ==
  ASSUME NEW T \in SUBSET Hours, \A h \in Hours : (\A x \in Hours : x < h => x \in T) => h \in T
  PROVE  T = Hours
<1> DEFINE Bad == Hours \ T
<1>1. SUFFICES ASSUME Bad # {} PROVE FALSE
  OBVIOUS
<1>2. Bad \in SUBSET Nat
  BY HoursInOrder
<1>3. PICK h \in Bad : \A x \in Bad : h <= x
  BY <1>1, <1>2, LeastNumber
<1>4. ASSUME NEW x \in Hours, x < h PROVE x \in T
  <2>1. x \in Bad => h <= x
    BY <1>3
  <2>2. x \in Nat /\ h \in Nat
    BY HoursInOrder
  <2>3. QED
    BY <1>4, <2>1, <2>2
<1>5. QED
  BY <1>4

(* A recursive function is what its definition says if each value needs only earlier ones. *)
ByEarlier(step, V) ==
  /\ \A f \in [Hours -> V], h \in Hours : step[h][f] \in V
  /\ \A f, g \in [Hours -> V], h \in Hours :
        (\A x \in Hours : x < h => f[x] = g[x]) => step[h][f] = step[h][g]

LEMMA DefinedByEarlier ==
  ASSUME NEW V, NEW v \in V, NEW step, ByEarlier(step, V)
  PROVE  \E f \in [Hours -> V] : \A h \in Hours : f[h] = step[h][f]
<1> USE DEF ByEarlier
<1>0. Dates * HoursPerDate \in Nat /\ \A h \in Hours : h \in Nat /\ h < Dates * HoursPerDate
  <2>1. Dates * HoursPerDate \in Nat
    BY Sizes
  <2>2. QED
    BY <2>1 DEF Hours
<1> DEFINE Upto(f, k) == \A h \in Hours : h < k => f[h] = step[h][f]
           Bad == {k \in Nat : ~ \E f \in [Hours -> V] : Upto(f, k)}
<1>1. SUFFICES ASSUME Bad # {} PROVE FALSE
  <2>1. CASE Bad = {}
    <3>1. PICK f \in [Hours -> V] : Upto(f, Dates * HoursPerDate)
      BY <1>0, <2>1
    <3>2. QED
      BY <1>0, <3>1
  <2>2. QED
    BY <2>1
<1>2. PICK k \in Bad : \A l \in Bad : k <= l
  <2>1. Bad \in SUBSET Nat
    OBVIOUS
  <2>2. QED
    BY <1>1, <2>1, LeastNumber
<1>3. k \in Nat /\ ~ \E f \in [Hours -> V] : Upto(f, k)
  OBVIOUS
<1>4. k # 0
  <2>1. [h \in Hours |-> v] \in [Hours -> V]
    OBVIOUS
  <2>2. \A h \in Hours : ~(h < 0)
    BY <1>0
  <2>3. QED
    BY <1>3, <2>1, <2>2
<1> DEFINE j == k - 1
<1>5. j \in Nat /\ j < k /\ \A x \in Nat : x < k <=> x < j \/ x = j
  BY <1>3, <1>4
<1>6. PICK f \in [Hours -> V] : Upto(f, j)
  <2>1. j \in Bad => k <= j
    BY <1>2
  <2>2. j \notin Bad
    BY <1>5, <2>1
  <2>3. QED
    BY <1>5, <2>2
<1> HIDE DEF j, Bad
<1> DEFINE g == [h \in Hours |-> IF h < j THEN f[h] ELSE step[h][f]]
<1>7. g \in [Hours -> V] /\ \A h \in Hours : g[h] = IF h < j THEN f[h] ELSE step[h][f]
  OBVIOUS
<1> HIDE DEF g
<1>8. ASSUME NEW h \in Hours, h < k PROVE g[h] = step[h][g]
  <2>1. h \in Nat /\ (h < j \/ h = j)
    BY <1>0, <1>5, <1>8
  <2>2. \A x \in Hours : x < h => f[x] = g[x]
    <3>1. ASSUME NEW x \in Hours, x < h PROVE x < j
      <4>1. x \in Nat
        BY <1>0
      <4>2. QED
        BY <1>5, <2>1, <3>1, <4>1
    <3>2. QED
      BY <1>7, <3>1
  <2>3. step[h][f] = step[h][g]
    BY <1>7, <2>2
  <2>4. CASE h < j
    BY <1>6, <1>7, <2>3, <2>4
  <2>5. CASE h = j
    BY <1>5, <1>7, <2>3, <2>5
  <2>6. QED
    BY <2>1, <2>4, <2>5
<1>9. QED
  BY <1>3, <1>7, <1>8

(* What can be found from the folder of hour h on. *)
Reach(limit, h) == {r \in kept : (Flat \/ HourOf(r) <= h) /\ Written(r) < limit}
Here(limit, h) == OlderThan(FilesOf(h), limit)
AllDatesFrom(h) == NoDateMissing /\ (Flat \/ DateOf(h) \in dates)

LEMMA Bounds ==
  ASSUME Kept
  PROVE  /\ Dates * HoursPerDate * PerHour \in Nat /\ kept \in SUBSET (0..(Dates * HoursPerDate * PerHour))
         /\ Dates * HoursPerDate \in Nat /\ \A h \in Hours : h < Dates * HoursPerDate
<1>1. Dates * HoursPerDate \in Nat /\ Dates * HoursPerDate * PerHour \in Nat
  BY Sizes
<1> DEFINE k == Dates * HoursPerDate
           m == Dates * HoursPerDate * PerHour
<1>2. Recordings = 0..(m - 1) /\ Hours = 0..(k - 1)
  BY DEF Recordings, Hours
<1> HIDE DEF k, m
<1>3. m \in Nat /\ k \in Nat
  BY <1>1 DEF k, m
<1>4. kept \subseteq 0..m /\ \A h \in Hours : h < k
  BY <1>2, <1>3 DEF Kept
<1>5. QED
  BY <1>1, <1>4 DEF k, m

LEMMA HereIs ==
  ASSUME Kept, NEW h \in Hours, NEW limit \in Nat, NEW n \in Nat
  PROVE  /\ Here(limit, h) \in SUBSET Nat /\ Reach(limit, h) \in SUBSET Nat
         /\ Here(limit, h) \subseteq Reach(limit, h)
         /\ \A x \in Here(limit, h), y \in Reach(limit, h) \ Here(limit, h) : x > y
         /\ Lists(Limited(NewestFirst(Here(limit, h)), n), Here(limit, h), n)
<1> DEFINE A == Here(limit, h)
           m == Dates * HoursPerDate * PerHour
<1>1. m \in Nat /\ kept \in SUBSET (0..m) /\ kept \in SUBSET Nat
  BY Bounds
<1>2. h \in Nat /\ \A r \in kept : HourOf(r) \in Nat
  BY <1>1, HoursInOrder
<1>3. A \subseteq Reach(limit, h) /\ \A r \in kept : r \in A <=> (Flat \/ HourOf(r) = h) /\ Written(r) < limit
  BY <1>2 DEF Here, Reach, OlderThan, FilesOf
<1>4. ASSUME NEW x \in A, NEW y \in Reach(limit, h) \ A PROVE x > y
  <2>1. x \in kept /\ y \in kept
    BY <1>3 DEF Reach
  <2>2. ~Flat /\ HourOf(y) <= h /\ HourOf(y) # h /\ HourOf(x) = h
    BY <1>3, <2>1 DEF Reach
  <2>3. ~(x <= y)
    <3>1. x \in Nat /\ y \in Nat /\ HourOf(x) \in Nat /\ HourOf(y) \in Nat
      BY <1>1, <1>2, <2>1
    <3>2. x <= y => HourOf(x) <= HourOf(y)
      BY <3>1, HoursInOrder
    <3>3. QED
      BY <1>2, <2>2, <3>1, <3>2
  <2>4. QED
    BY <1>1, <2>1, <2>3
<1>5. A \in SUBSET (0..m) /\ Reach(limit, h) \in SUBSET Nat
  BY <1>1, <1>3 DEF Reach
<1> HIDE DEF A, m
<1>6. Lists(Limited(NewestFirst(A), n), A, n)
  BY <1>1, <1>5, NewestLists
<1>7. A \in SUBSET Nat
  BY <1>1, <1>3, <1>5
<1>8. QED
  BY <1>3, <1>4, <1>5, <1>6, <1>7 DEF A

(* What is in the hours before is all that is left; without one, nothing is. *)
LEMMA ReachIs ==
  ASSUME Kept, NEW h \in Hours, NEW limit \in Nat
  PROVE  /\ PreviousHour(h) = {} /\ AllDatesFrom(h) => Reach(limit, h) = Here(limit, h)
         /\ \A g \in hours : PreviousHour(h) = {g} =>
              /\ g \in Hours /\ g < h /\ Largest(PreviousHour(h)) = g
              /\ AllDatesFrom(h) => AllDatesFrom(g)
              /\ Reach(limit, g) \subseteq Reach(limit, h)
              /\ Reach(limit, h) = Here(limit, h) \cup Reach(limit, g)
              /\ \A x \in Here(limit, h), y \in Reach(limit, g) : x > y
<1>1. kept \in SUBSET Nat /\ h \in Nat /\ (\A r \in kept : HourOf(r) \in Nat) /\ \A r \in kept : ~Flat => HourOf(r) \in hours
  BY KeptIs, HoursInOrder
<1>2. \A r \in kept : r \in Here(limit, h) <=> (Flat \/ HourOf(r) = h) /\ Written(r) < limit
  BY DEF Here, OlderThan, FilesOf
<1>3. Here(limit, h) \subseteq Reach(limit, h) /\ Reach(limit, h) \subseteq kept
  BY <1>1, HereIs DEF Reach
<1>4. ASSUME PreviousHour(h) = {}, AllDatesFrom(h) PROVE Reach(limit, h) = Here(limit, h)
  <2>1. CASE Flat
    BY <1>2, <1>3, <2>1 DEF Reach
  <2>2. CASE ~Flat
    <3>1. \A x \in hours : h <= x
      BY <1>4, <2>2, PreviousIs DEF AllDatesFrom
    <3>2. ASSUME NEW r \in Reach(limit, h) PROVE HourOf(r) = h /\ Written(r) < limit
      BY <1>1, <2>2, <3>1 DEF Reach
    <3>3. QED
      BY <1>2, <1>3, <3>2
  <2>3. QED
    BY <2>1, <2>2
<1>5. ASSUME NEW g \in hours, PreviousHour(h) = {g}
      PROVE  /\ g \in Hours /\ g < h /\ Largest(PreviousHour(h)) = g
             /\ AllDatesFrom(h) => AllDatesFrom(g)
             /\ Reach(limit, g) \subseteq Reach(limit, h)
             /\ Reach(limit, h) = Here(limit, h) \cup Reach(limit, g)
             /\ \A x \in Here(limit, h), y \in Reach(limit, g) : x > y
  <2>1. g < h /\ Largest(PreviousHour(h)) = g /\ \A x \in hours : x < h => x <= g
    BY <1>5, PreviousIs
  <2>2. g \in Hours /\ g \in Nat /\ ~Flat /\ DateOf(g) \in dates
    BY KeptIs, HoursInOrder
  <2>3. ASSUME NEW r \in kept PROVE HourOf(r) <= h <=> HourOf(r) = h \/ HourOf(r) <= g
    <3>1. HourOf(r) \in Nat /\ HourOf(r) \in hours
      BY <1>1, <2>2
    <3>2. QED
      BY <1>1, <2>1, <2>2, <3>1
  <2>4. Reach(limit, h) = Here(limit, h) \cup Reach(limit, g)
    BY <1>2, <1>3, <2>2, <2>3 DEF Reach
  <2>5. ASSUME NEW y \in Reach(limit, g) PROVE y \notin Here(limit, h)
    <3>1. y \in kept /\ HourOf(y) <= g
      BY <2>2 DEF Reach
    <3>2. HourOf(y) # h
      BY <1>1, <2>1, <2>2, <3>1
    <3>3. QED
      BY <1>2, <2>2, <3>1, <3>2
  <2>6. \A x \in Here(limit, h), y \in Reach(limit, g) : x > y
    BY <2>4, <2>5, HereIs
  <2>7. QED
    BY <2>1, <2>2, <2>4, <2>6 DEF AllDatesFrom
<1>6. QED
  BY <1>4, <1>5

(* FindOlderFiles *)

Lengths == 0..Requested
Walks == [Lengths -> Seq(Nat)]
HereNewest(limit, h, n) == Limited(NewestFirst(Here(limit, h)), n)
OlderPart(f, limit, h, n) ==
  IF n = 0 THEN <<>>
  ELSE IF Len(HereNewest(limit, h, n)) = n \/ PreviousHour(h) = {} THEN HereNewest(limit, h, n)
  ELSE HereNewest(limit, h, n) \o f[Largest(PreviousHour(h))][n - Len(HereNewest(limit, h, n))]
OlderStep(f, limit, h) == [n \in Lengths |-> OlderPart(f, limit, h, n)]

LEMMA HereNewestIs ==
  ASSUME Kept, NEW h \in Hours, NEW limit \in Nat, NEW n \in Nat
  PROVE  /\ Lists(HereNewest(limit, h, n), Here(limit, h), n)
         /\ HereNewest(limit, h, n) \in Seq(Nat) /\ Len(HereNewest(limit, h, n)) \in 0..n
<1>1. Lists(HereNewest(limit, h, n), Here(limit, h), n)
  BY HereIs DEF HereNewest
<1>2. HereNewest(limit, h, n) \in Seq(Nat) /\ Len(HereNewest(limit, h, n)) <= n
  BY <1>1 DEF Lists
<1>3. Len(HereNewest(limit, h, n)) \in Nat
  BY <1>2, LenProperties
<1>4. QED
  BY <1>1, <1>2, <1>3

(* A step either ends or goes on from an hour before. *)
LEMMA OlderPartIs ==
  ASSUME Kept, NEW h \in Hours, NEW limit \in Nat, NEW n \in Lengths
  PROVE  \/ \A f : OlderPart(f, limit, h, n) = <<>> /\ n = 0
         \/ /\ n # 0 /\ (Len(HereNewest(limit, h, n)) = n \/ PreviousHour(h) = {})
            /\ \A f : OlderPart(f, limit, h, n) = HereNewest(limit, h, n)
         \/ \E g \in hours, m \in Lengths :
              /\ g \in Hours /\ PreviousHour(h) = {g} /\ g < h
              /\ Len(HereNewest(limit, h, n)) < n /\ m = n - Len(HereNewest(limit, h, n))
              /\ \A f : OlderPart(f, limit, h, n) = HereNewest(limit, h, n) \o f[g][m]
<1> DEFINE here == HereNewest(limit, h, n)
           m == n - Len(here)
<1>1. n \in Nat /\ n <= Requested /\ Requested \in Nat
  BY Sizes DEF Lengths
<1>2. Len(here) \in 0..n
  BY <1>1, HereNewestIs
<1>3. CASE n = 0
  BY <1>3 DEF OlderPart
<1>4. CASE n # 0 /\ (Len(here) = n \/ PreviousHour(h) = {})
  BY <1>4 DEF OlderPart
<1>5. CASE n # 0 /\ Len(here) # n /\ PreviousHour(h) # {}
  <2>1. PICK g \in hours : PreviousHour(h) = {g}
    BY <1>5, PreviousIs
  <2>2. g \in Hours /\ g < h /\ Largest(PreviousHour(h)) = g
    BY <2>1, ReachIs
  <2>3. m \in Lengths /\ Len(here) < n
    BY <1>1, <1>2, <1>5 DEF Lengths
  <2>4. \A f : OlderPart(f, limit, h, n) = here \o f[g][m]
    BY <1>5, <2>2 DEF OlderPart
  <2> HIDE DEF here
  <2>5. QED
    BY <2>1, <2>2, <2>3, <2>4 DEF here
<1>6. QED
  BY <1>3, <1>4, <1>5

LEMMA OlderStepIs ==
  ASSUME Kept, NEW h \in Hours, NEW limit \in Nat, NEW f, \A x \in Hours : x < h => f[x] \in Walks
  PROVE  OlderStep(f, limit, h) \in Walks
<1>1. ASSUME NEW n \in Lengths PROVE OlderPart(f, limit, h, n) \in Seq(Nat)
  <2> DEFINE here == HereNewest(limit, h, n)
  <2>1. here \in Seq(Nat)
    <3>1. n \in Nat
      BY DEF Lengths
    <3>2. QED
      BY <3>1, HereNewestIs
  <2>2. \A g \in Hours, m \in Lengths : g < h => here \o f[g][m] \in Seq(Nat)
    <3>1. TAKE g \in Hours, m \in Lengths
    <3>2. HAVE g < h
    <3>3. f[g][m] \in Seq(Nat)
      BY <3>2 DEF Walks
    <3> HIDE DEF here
    <3>4. QED
      BY <2>1, <3>3, ConcatProperties
  <2>3. <<>> \in Seq(Nat)
    OBVIOUS
  <2> HIDE DEF here
  <2>4. CASE \A e : OlderPart(e, limit, h, n) = <<>>
    BY <2>3, <2>4
  <2>5. CASE \A e : OlderPart(e, limit, h, n) = HereNewest(limit, h, n)
    BY <2>1, <2>5 DEF here
  <2>6. CASE \E x \in Hours, m \in Lengths :
               x < h /\ \A e : OlderPart(e, limit, h, n) = HereNewest(limit, h, n) \o e[x][m]
    BY <2>2, <2>6 DEF here
  <2>7. \/ \A e : OlderPart(e, limit, h, n) = <<>>
        \/ \A e : OlderPart(e, limit, h, n) = HereNewest(limit, h, n)
        \/ \E x \in Hours, m \in Lengths :
              x < h /\ \A e : OlderPart(e, limit, h, n) = HereNewest(limit, h, n) \o e[x][m]
    BY OlderPartIs
  <2>8. QED
    BY <2>4, <2>5, <2>6, <2>7
<1>2. QED
  BY <1>1 DEF OlderStep, Walks

LEMMA OlderStepLocal ==
  ASSUME Kept, NEW h \in Hours, NEW limit \in Nat, NEW f, NEW g, \A x \in Hours : x < h => f[x] = g[x]
  PROVE  OlderStep(f, limit, h) = OlderStep(g, limit, h)
<1>1. ASSUME NEW n \in Lengths PROVE OlderPart(f, limit, h, n) = OlderPart(g, limit, h, n)
  <2>1. CASE \A e : OlderPart(e, limit, h, n) = <<>>
    BY <2>1
  <2>2. CASE \A e : OlderPart(e, limit, h, n) = HereNewest(limit, h, n)
    BY <2>2
  <2>3. CASE \E x \in Hours, m \in Lengths :
               x < h /\ \A e : OlderPart(e, limit, h, n) = HereNewest(limit, h, n) \o e[x][m]
    <3>1. PICK x \in Hours, m \in Lengths :
               x < h /\ \A e : OlderPart(e, limit, h, n) = HereNewest(limit, h, n) \o e[x][m]
      BY <2>3
    <3>2. f[x] = g[x]
      BY <3>1
    <3>3. QED
      BY <3>1, <3>2
  <2>4. QED
    BY <2>1, <2>2, <2>3, OlderPartIs
<1>2. QED
  BY <1>1 DEF OlderStep

LEMMA OlderFromIs ==
  ASSUME Kept, NEW limit \in Nat
  PROVE  /\ OlderFrom(limit) \in [Hours -> Walks]
         /\ \A h \in Hours : OlderFrom(limit)[h] = OlderStep(OlderFrom(limit), limit, h)
<1> DEFINE step == [h \in Hours |-> [f \in [Hours -> Walks] |-> OlderStep(f, limit, h)]]
           Walk(f) == f = [h \in Hours |-> OlderStep(f, limit, h)]
<1>1. /\ \A f \in [Hours -> Walks], h \in Hours : step[h][f] = OlderStep(f, limit, h)
  OBVIOUS
<1> HIDE DEF step
<1>2. \A f \in [Hours -> Walks], h \in Hours : step[h][f] \in Walks
  BY <1>1, OlderStepIs
<1>3. \A f, g \in [Hours -> Walks], h \in Hours : (\A x \in Hours : x < h => f[x] = g[x]) => step[h][f] = step[h][g]
  BY <1>1, OlderStepLocal
<1>4. [n \in Lengths |-> <<>>] \in Walks
  BY DEF Walks
<1>5. PICK f \in [Hours -> Walks] : \A h \in Hours : f[h] = step[h][f]
  <2>1. ByEarlier(step, Walks)
    BY <1>2, <1>3 DEF ByEarlier
  <2>2. QED
    BY <1>4, <2>1, DefinedByEarlier
<1>6. Walk(f)
  <2>1. \A h \in Hours : f[h] = OlderStep(f, limit, h)
    BY <1>1, <1>5
  <2>2. f = [h \in Hours |-> f[h]]
    OBVIOUS
  <2>3. QED
    BY <2>1, <2>2
<1>7. OlderFrom(limit) = CHOOSE g : Walk(g)
  BY DEF OlderFrom, OlderStep, OlderPart, HereNewest, Here, Lengths
<1> DEFINE o == OlderFrom(limit)
<1>8. Walk(o)
  <2> HIDE DEF Walk
  <2>1. QED
    BY <1>6, <1>7
<1> HIDE DEF o
<1>9. \A h \in Hours : o[h] = OlderStep(o, limit, h)
  BY <1>8
<1>10. \A h \in Hours : o[h] \in Walks
  <2> DEFINE T == {h \in Hours : o[h] \in Walks}
  <2>1. ASSUME NEW h \in Hours, \A x \in Hours : x < h => x \in T PROVE h \in T
    BY <1>9, <2>1, OlderStepIs
  <2>2. T = Hours
    <3>1. T \in SUBSET Hours
      OBVIOUS
    <3> HIDE DEF T
    <3>2. QED
      BY <2>1, <3>1, HourByHour
  <2>3. QED
    BY <2>2
<1>11. o = [h \in Hours |-> o[h]]
  BY <1>8
<1>12. o \in [Hours -> Walks]
  BY <1>10, <1>11
<1>13. QED
  BY <1>9, <1>12 DEF o

(* The walk finds the newest of all that can be reached, unless a date is missing; then *)
(* the newest of some of it.                                                           *)
FindsFrom(s, limit, h, n) ==
  \E S \in SUBSET Reach(limit, h) : Lists(s, S, n) /\ (AllDatesFrom(h) => S = Reach(limit, h))

LEMMA NothingAsked ==
  ASSUME NEW limit, NEW h
  PROVE  FindsFrom(<<>>, limit, h, 0)
<1>1. \A S : Lists(<<>>, S, 0)
  BY DEF Lists
<1>2. QED
  BY <1>1 DEF FindsFrom

LEMMA FoundHere ==
  ASSUME Kept, NEW h \in Hours, NEW limit \in Nat, NEW n \in Lengths,
         Len(HereNewest(limit, h, n)) = n \/ PreviousHour(h) = {}
  PROVE  FindsFrom(HereNewest(limit, h, n), limit, h, n)
<1> DEFINE here == HereNewest(limit, h, n)
           A == Here(limit, h)
           R == Reach(limit, h)
<1>1. n \in Nat
  BY DEF Lengths
<1>2. Lists(here, A, n) /\ A \subseteq R /\ A \in SUBSET Nat /\ R \in SUBSET Nat
      /\ \A x \in A, y \in R \ A : x > y
  BY <1>1, HereNewestIs, HereIs
<1>3. CASE Len(here) = n
  <2> HIDE DEF here, A, R
  <2>1. Lists(here, A \cup (R \ A), n)
    BY <1>1, <1>2, <1>3, ListsFull
  <2>2. A \cup (R \ A) = R
    BY <1>2
  <2>3. QED
    BY <2>1, <2>2 DEF FindsFrom, here, R
<1>4. CASE PreviousHour(h) = {}
  <2>1. AllDatesFrom(h) => A = R
    BY <1>4, ReachIs
  <2>2. QED
    BY <1>2, <2>1 DEF FindsFrom
<1>5. QED
  BY <1>3, <1>4

LEMMA FoundBefore ==
  ASSUME Kept, NEW h \in Hours, NEW limit \in Nat, NEW n \in Lengths,
         Len(HereNewest(limit, h, n)) < n,
         NEW g \in hours, PreviousHour(h) = {g},
         NEW s, FindsFrom(s, limit, g, n - Len(HereNewest(limit, h, n)))
  PROVE  FindsFrom(HereNewest(limit, h, n) \o s, limit, h, n)
<1> DEFINE here == HereNewest(limit, h, n)
           A == Here(limit, h)
           R == Reach(limit, g)
<1>1. n \in Nat
  BY DEF Lengths
<1>2. Lists(here, A, n) /\ A \in SUBSET Nat
  BY <1>1, HereNewestIs, HereIs
<1>3. /\ AllDatesFrom(h) => AllDatesFrom(g)
      /\ Reach(limit, h) = A \cup R /\ \A x \in A, y \in R : x > y
  BY ReachIs
<1>4. R \in SUBSET Nat
  BY KeptIs DEF Reach
<1>5. PICK S \in SUBSET R : Lists(s, S, n - Len(here)) /\ (AllDatesFrom(g) => S = R)
  BY DEF FindsFrom
<1>6. Len(here) < n
  OBVIOUS
<1> HIDE DEF here, A, R
<1>7. Lists(here \o s, A \cup S, n)
  BY <1>1, <1>2, <1>3, <1>4, <1>5, <1>6, ListsJoin
<1>8. A \cup S \in SUBSET Reach(limit, h) /\ (AllDatesFrom(h) => A \cup S = Reach(limit, h))
  BY <1>3, <1>5
<1>9. QED
  BY <1>7, <1>8 DEF FindsFrom, here

LEMMA OlderFinds ==
  ASSUME Kept, NEW limit \in Nat
  PROVE  \A h \in Hours, n \in Lengths : FindsFrom(OlderFrom(limit)[h][n], limit, h, n)
<1> DEFINE o == OlderFrom(limit)
           T == {h \in Hours : \A n \in Lengths : FindsFrom(o[h][n], limit, h, n)}
<1>1. \A h \in Hours : o[h] = OlderStep(o, limit, h)
  BY OlderFromIs
<1> HIDE DEF o
<1>2. \A h \in Hours, n \in Lengths : o[h][n] = OlderPart(o, limit, h, n)
  BY <1>1 DEF OlderStep
<1>3. ASSUME NEW h \in Hours, \A x \in Hours : x < h => x \in T, NEW n \in Lengths
      PROVE  FindsFrom(o[h][n], limit, h, n)
  <2>1. o[h][n] = OlderPart(o, limit, h, n)
    BY <1>2
  <2>2. CASE n = 0 /\ \A f : OlderPart(f, limit, h, n) = <<>>
    BY <2>1, <2>2, NothingAsked
  <2>3. CASE /\ Len(HereNewest(limit, h, n)) = n \/ PreviousHour(h) = {}
             /\ \A f : OlderPart(f, limit, h, n) = HereNewest(limit, h, n)
    <3>1. o[h][n] = HereNewest(limit, h, n)
      BY <2>1, <2>3
    <3>2. QED
      BY <2>3, <3>1, FoundHere
  <2>4. CASE \E g \in hours, m \in Lengths :
               /\ g \in Hours /\ PreviousHour(h) = {g} /\ g < h
               /\ Len(HereNewest(limit, h, n)) < n /\ m = n - Len(HereNewest(limit, h, n))
               /\ \A f : OlderPart(f, limit, h, n) = HereNewest(limit, h, n) \o f[g][m]
    <3>1. PICK g \in hours, m \in Lengths :
               /\ g \in Hours /\ PreviousHour(h) = {g} /\ g < h
               /\ Len(HereNewest(limit, h, n)) < n /\ m = n - Len(HereNewest(limit, h, n))
               /\ \A f : OlderPart(f, limit, h, n) = HereNewest(limit, h, n) \o f[g][m]
      BY <2>4
    <3>2. FindsFrom(o[g][m], limit, g, m)
      BY <1>3, <3>1
    <3>3. o[h][n] = HereNewest(limit, h, n) \o o[g][m]
      BY <2>1, <3>1
    <3>4. FindsFrom(HereNewest(limit, h, n) \o o[g][m], limit, h, n)
      BY <3>1, <3>2, FoundBefore
    <3>5. QED
      BY <3>3, <3>4
  <2>5. QED
    BY <2>2, <2>3, <2>4, OlderPartIs
<1>4. T = Hours
  <2>1. T \in SUBSET Hours /\ \A h \in Hours : (\A x \in Hours : x < h => x \in T) => h \in T
    BY <1>3
  <2> HIDE DEF T
  <2>2. QED
    BY <2>1, HourByHour
<1>5. QED
  BY <1>4 DEF o

(* FindFilesFromDatetime *)

FoldersLeft == 0..MaxFolders
Searches == [FoldersLeft -> Seq(Nat)]
BeforePart(f, limit, h, n) ==
  IF n = 0 THEN <<>>
  ELSE IF Here(limit, h) # {} THEN <<Largest(Here(limit, h))>>
  ELSE IF PreviousHour(h) = {} THEN <<>>
  ELSE f[Largest(PreviousHour(h))][n - 1]
BeforeStep(f, limit, h) == [n \in FoldersLeft |-> BeforePart(f, limit, h, n)]

LEMMA LargestHere ==
  ASSUME Kept, NEW h \in Hours, NEW limit \in Nat, Here(limit, h) # {}
  PROVE  /\ Largest(Here(limit, h)) \in Here(limit, h) /\ Largest(Here(limit, h)) \in Nat
         /\ Lists(<<Largest(Here(limit, h))>>, Reach(limit, h), 1)
<1> DEFINE A == Here(limit, h)
           R == Reach(limit, h)
           m == Largest(A)
<1>1. A \in SUBSET (0..(Dates * HoursPerDate * PerHour))
  BY Bounds DEF Here, OlderThan, FilesOf
<1>2. m \in A /\ \A y \in A : y <= m
  BY <1>1, Bounds, LargestIs
<1>3. A \in SUBSET Nat /\ A \subseteq R /\ R \in SUBSET Nat /\ \A x \in A, y \in R \ A : x > y
  BY HereIs
<1> HIDE DEF A, R, m
<1>4. m \in Nat
  BY <1>2, <1>3
<1>5. ASSUME NEW x \in R PROVE m = x \/ m > x
  BY <1>2, <1>3, <1>4
<1> DEFINE s == <<m>>
<1>6. s \in Seq(Nat) /\ Len(s) = 1 /\ s[1] = m
  BY <1>4
<1> HIDE DEF s
<1>7. Lists(s, R, 1)
  BY <1>2, <1>3, <1>5, <1>6 DEF Lists
<1>8. QED
  BY <1>2, <1>4, <1>7 DEF A, R, m, s

LEMMA BeforePartIs ==
  ASSUME Kept, NEW h \in Hours, NEW limit \in Nat, NEW n \in FoldersLeft
  PROVE  \/ \A f : BeforePart(f, limit, h, n) = <<>>
         \/ Here(limit, h) # {} /\ \A f : BeforePart(f, limit, h, n) = <<Largest(Here(limit, h))>>
         \/ \E g \in hours, m \in FoldersLeft :
              /\ g \in Hours /\ PreviousHour(h) = {g} /\ g < h /\ m = n - 1
              /\ \A f : BeforePart(f, limit, h, n) = f[g][m]
<1>1. n \in Nat /\ n <= MaxFolders /\ MaxFolders \in Nat
  BY Sizes DEF FoldersLeft
<1>2. CASE n = 0
  BY <1>2 DEF BeforePart
<1>3. CASE n # 0 /\ Here(limit, h) # {}
  BY <1>3 DEF BeforePart
<1>4. CASE n # 0 /\ Here(limit, h) = {} /\ PreviousHour(h) = {}
  BY <1>4 DEF BeforePart
<1>5. CASE n # 0 /\ Here(limit, h) = {} /\ PreviousHour(h) # {}
  <2>1. PICK g \in hours : PreviousHour(h) = {g}
    BY <1>5, PreviousIs
  <2>2. g \in Hours /\ g < h /\ Largest(PreviousHour(h)) = g
    BY <2>1, ReachIs
  <2>3. n - 1 \in FoldersLeft
    BY <1>1, <1>5 DEF FoldersLeft
  <2>4. \A f : BeforePart(f, limit, h, n) = f[g][n - 1]
    BY <1>5, <2>2 DEF BeforePart
  <2>5. QED
    BY <2>1, <2>2, <2>3, <2>4
<1>6. QED
  BY <1>2, <1>3, <1>4, <1>5

LEMMA BeforeStepIs ==
  ASSUME Kept, NEW h \in Hours, NEW limit \in Nat, NEW f, \A x \in Hours : x < h => f[x] \in Searches
  PROVE  BeforeStep(f, limit, h) \in Searches
<1>1. ASSUME NEW n \in FoldersLeft PROVE BeforePart(f, limit, h, n) \in Seq(Nat)
  <2>0. <<>> \in Seq(Nat)
    OBVIOUS
  <2>1. CASE \A e : BeforePart(e, limit, h, n) = <<>>
    BY <2>0, <2>1
  <2>2. CASE Here(limit, h) # {} /\ \A e : BeforePart(e, limit, h, n) = <<Largest(Here(limit, h))>>
    <3>1. Largest(Here(limit, h)) \in Nat
      BY <2>2, LargestHere
    <3>2. \A x \in Nat : <<x>> \in Seq(Nat)
      OBVIOUS
    <3>3. QED
      BY <2>2, <3>1, <3>2
  <2>3. CASE \E g \in hours, m \in FoldersLeft :
               /\ g \in Hours /\ PreviousHour(h) = {g} /\ g < h /\ m = n - 1
               /\ \A e : BeforePart(e, limit, h, n) = e[g][m]
    <3>1. PICK g \in hours, m \in FoldersLeft :
               g \in Hours /\ g < h /\ \A e : BeforePart(e, limit, h, n) = e[g][m]
      BY <2>3
    <3>2. f[g][m] \in Seq(Nat)
      BY <3>1 DEF Searches
    <3>3. QED
      BY <3>1, <3>2
  <2>4. QED
    BY <2>1, <2>2, <2>3, BeforePartIs
<1>2. QED
  BY <1>1 DEF BeforeStep, Searches

LEMMA BeforeStepLocal ==
  ASSUME Kept, NEW h \in Hours, NEW limit \in Nat, NEW f, NEW g, \A x \in Hours : x < h => f[x] = g[x]
  PROVE  BeforeStep(f, limit, h) = BeforeStep(g, limit, h)
<1>1. ASSUME NEW n \in FoldersLeft PROVE BeforePart(f, limit, h, n) = BeforePart(g, limit, h, n)
  <2>1. CASE \A e : BeforePart(e, limit, h, n) = <<>>
    BY <2>1
  <2>2. CASE Here(limit, h) # {} /\ \A e : BeforePart(e, limit, h, n) = <<Largest(Here(limit, h))>>
    BY <2>2
  <2>3. CASE \E x \in hours, m \in FoldersLeft :
               /\ x \in Hours /\ PreviousHour(h) = {x} /\ x < h /\ m = n - 1
               /\ \A e : BeforePart(e, limit, h, n) = e[x][m]
    <3>1. PICK x \in hours, m \in FoldersLeft :
               x \in Hours /\ x < h /\ \A e : BeforePart(e, limit, h, n) = e[x][m]
      BY <2>3
    <3>2. f[x] = g[x]
      BY <3>1
    <3>3. QED
      BY <3>1, <3>2
  <2>4. QED
    BY <2>1, <2>2, <2>3, BeforePartIs
<1>2. QED
  BY <1>1 DEF BeforeStep

LEMMA BeforeFromIs ==
  ASSUME Kept, NEW limit \in Nat
  PROVE  \A h \in Hours, n \in FoldersLeft : BeforeFrom(limit)[h][n] = BeforePart(BeforeFrom(limit), limit, h, n)
<1> DEFINE step == [h \in Hours |-> [f \in [Hours -> Searches] |-> BeforeStep(f, limit, h)]]
           Walk(f) == f = [h \in Hours |-> BeforeStep(f, limit, h)]
<1>1. \A f \in [Hours -> Searches], h \in Hours : step[h][f] = BeforeStep(f, limit, h)
  OBVIOUS
<1> HIDE DEF step
<1>2. \A f \in [Hours -> Searches], h \in Hours : step[h][f] \in Searches
  BY <1>1, BeforeStepIs
<1>3. \A f, g \in [Hours -> Searches], h \in Hours :
        (\A x \in Hours : x < h => f[x] = g[x]) => step[h][f] = step[h][g]
  BY <1>1, BeforeStepLocal
<1>4. [n \in FoldersLeft |-> <<>>] \in Searches
  BY DEF Searches
<1>5. PICK f \in [Hours -> Searches] : \A h \in Hours : f[h] = step[h][f]
  <2>1. ByEarlier(step, Searches)
    BY <1>2, <1>3 DEF ByEarlier
  <2>2. QED
    BY <1>4, <2>1, DefinedByEarlier
<1>6. Walk(f)
  <2>1. \A h \in Hours : f[h] = BeforeStep(f, limit, h)
    BY <1>1, <1>5
  <2>2. f = [h \in Hours |-> f[h]]
    OBVIOUS
  <2>3. QED
    BY <2>1, <2>2
<1>7. BeforeFrom(limit) = CHOOSE g : Walk(g)
  BY DEF BeforeFrom, BeforeStep, BeforePart, Here, FoldersLeft
<1> DEFINE o == BeforeFrom(limit)
<1>8. Walk(o)
  <2> HIDE DEF Walk
  <2>1. QED
    BY <1>6, <1>7
<1> HIDE DEF o
<1>9. \A h \in Hours : o[h] = BeforeStep(o, limit, h)
  BY <1>8
<1>10. \A h \in Hours, n \in FoldersLeft : o[h][n] = BeforePart(o, limit, h, n)
  BY <1>9 DEF BeforeStep
<1>11. QED
  BY <1>10 DEF o

(* It finds nothing or a recording made before the time. *)
LEMMA BeforeFinds ==
  ASSUME Kept, NEW limit \in Nat
  PROVE  \A h \in Hours, n \in FoldersLeft :
           BeforeFrom(limit)[h][n] = <<>> \/ \E x \in Reach(limit, h) : BeforeFrom(limit)[h][n] = <<x>>
<1> DEFINE o == BeforeFrom(limit)
           Ok(h, n) == o[h][n] = <<>> \/ \E x \in Reach(limit, h) : o[h][n] = <<x>>
           T == {h \in Hours : \A n \in FoldersLeft : Ok(h, n)}
<1>1. \A h \in Hours, n \in FoldersLeft : o[h][n] = BeforePart(o, limit, h, n)
  BY BeforeFromIs
<1> HIDE DEF o
<1>2. ASSUME NEW h \in Hours, \A x \in Hours : x < h => x \in T, NEW n \in FoldersLeft
      PROVE  Ok(h, n)
  <2>1. o[h][n] = BeforePart(o, limit, h, n)
    BY <1>1
  <2>2. CASE \A e : BeforePart(e, limit, h, n) = <<>>
    BY <2>1, <2>2
  <2>3. CASE Here(limit, h) # {} /\ \A e : BeforePart(e, limit, h, n) = <<Largest(Here(limit, h))>>
    <3>1. Largest(Here(limit, h)) \in Reach(limit, h)
      BY <2>3, LargestHere, HereIs
    <3>2. o[h][n] = <<Largest(Here(limit, h))>>
      BY <2>1, <2>3
    <3>3. QED
      BY <3>1, <3>2
  <2>4. CASE \E g \in hours, m \in FoldersLeft :
               /\ g \in Hours /\ PreviousHour(h) = {g} /\ g < h /\ m = n - 1
               /\ \A e : BeforePart(e, limit, h, n) = e[g][m]
    <3>1. PICK g \in hours, m \in FoldersLeft :
               /\ g \in Hours /\ PreviousHour(h) = {g} /\ g < h
               /\ \A e : BeforePart(e, limit, h, n) = e[g][m]
      BY <2>4
    <3>2. Ok(g, m)
      BY <1>2, <3>1
    <3>3. o[h][n] = o[g][m] /\ Reach(limit, g) \subseteq Reach(limit, h)
      BY <2>1, <3>1, ReachIs
    <3>4. QED
      BY <3>2, <3>3
  <2>5. QED
    BY <2>2, <2>3, <2>4, BeforePartIs
<1>3. T = Hours
  <2>1. T \in SUBSET Hours /\ \A h \in Hours : (\A x \in Hours : x < h => x \in T) => h \in T
    BY <1>2
  <2> HIDE DEF T
  <2>2. QED
    BY <2>1, HourByHour
<1>4. QED
  BY <1>3 DEF o

(* Two folders are enough: the one before that of the time holds only older recordings. *)
LEMMA BeforeFindsNewest ==
  ASSUME Kept, NEW t \in Times, AllDatesFrom(HourOf(RecordingAt(t)))
  PROVE  Lists(FindFilesFromDatetime(t), Reach(t, HourOf(RecordingAt(t))), 1)
<1> DEFINE h == HourOf(RecordingAt(t))
           o == BeforeFrom(t)
           R == Reach(t, h)
<1>1. t \in Nat /\ RecordingAt(t) \in Recordings /\ \A r \in kept : Written(r) < t <=> r < RecordingAt(t)
  BY KeptIs, TimesInOrder
<1>2. h \in Hours /\ MaxFolders \in FoldersLeft /\ MaxFolders - 1 \in FoldersLeft /\ MaxFolders # 0 /\ MaxFolders - 1 # 0
  BY <1>1, HoursInOrder, Sizes DEF FoldersLeft
<1>3. \A x \in Hours, n \in FoldersLeft : o[x][n] = BeforePart(o, t, x, n)
  BY <1>1, BeforeFromIs
<1>4. FindFilesFromDatetime(t) = o[h][MaxFolders]
  BY DEF FindFilesFromDatetime
<1> HIDE DEF o
<1>5. o[h][MaxFolders] = BeforePart(o, t, h, MaxFolders)
  BY <1>2, <1>3
<1> SUFFICES Lists(o[h][MaxFolders], R, 1)
  BY <1>4
<1> HIDE DEF h
<1>6. CASE Here(t, h) # {}
  <2>1. o[h][MaxFolders] = <<Largest(Here(t, h))>>
    BY <1>2, <1>5, <1>6 DEF BeforePart
  <2>2. QED
    BY <1>1, <1>2, <1>6, <2>1, LargestHere
<1>7. CASE Here(t, h) = {} /\ PreviousHour(h) = {}
  <2>1. o[h][MaxFolders] = <<>>
    BY <1>2, <1>5, <1>7 DEF BeforePart
  <2>2. R = {}
    BY <1>1, <1>2, <1>7, ReachIs DEF h
  <2>3. QED
    BY <2>1, <2>2 DEF Lists
<1>8. CASE Here(t, h) = {} /\ PreviousHour(h) # {}
  <2>1. PICK g \in hours : PreviousHour(h) = {g}
    BY <1>2, <1>8, PreviousIs
  <2>2. /\ g \in Hours /\ g < h /\ Largest(PreviousHour(h)) = g
        /\ R = Here(t, h) \cup Reach(t, g)
    BY <1>1, <1>2, <2>1, ReachIs
  <2>3. o[h][MaxFolders] = o[g][MaxFolders - 1]
    BY <1>2, <1>5, <1>8, <2>2 DEF BeforePart
  <2>4. Here(t, g) # {}
    <3>1. PICK r \in kept : HourOf(r) = g
      BY KeptIs
    <3>2. r < RecordingAt(t)
      <4>1. r \in Nat /\ RecordingAt(t) \in Nat /\ g \in Nat /\ h \in Nat
        BY <1>1, <1>2, <2>2, KeptIs, HoursInOrder
      <4>2. RecordingAt(t) <= r => h <= g
        BY <3>1, <4>1, HoursInOrder DEF h
      <4>3. QED
        BY <2>2, <4>1, <4>2
    <3>3. r \in Here(t, g)
      BY <1>1, <3>1, <3>2 DEF Here, OlderThan, FilesOf
    <3>4. QED
      BY <3>3
  <2>5. o[g][MaxFolders - 1] = <<Largest(Here(t, g))>>
    <3>1. o[g][MaxFolders - 1] = BeforePart(o, t, g, MaxFolders - 1)
      BY <1>2, <1>3, <2>2
    <3>2. QED
      BY <1>2, <2>4, <3>1 DEF BeforePart
  <2>6. R = Reach(t, g)
    BY <1>8, <2>2
  <2>7. QED
    BY <1>1, <2>2, <2>3, <2>4, <2>5, <2>6, LargestHere
<1>9. QED
  BY <1>6, <1>7, <1>8

(* FindLatestCompleteFile *)

LEMMA TwoOfThem ==
  ASSUME NEW S, IsFiniteSet(S), NEW x \in S, NEW y \in S, x # y
  PROVE  Cardinality(S) \in Nat /\ Cardinality(S) >= 2
<1>1. IsFiniteSet({x}) /\ Cardinality({x}) = 1 /\ y \notin {x}
  BY FS_Singleton
<1>2. IsFiniteSet({x} \cup {y}) /\ Cardinality({x} \cup {y}) = 2
  BY <1>1, FS_AddElement
<1>3. {x} \cup {y} \in SUBSET S
  OBVIOUS
<1>4. Cardinality({x} \cup {y}) <= Cardinality(S) /\ Cardinality(S) \in Nat
  BY <1>3, FS_Subset, FS_CardinalityType
<1>5. QED
  BY <1>2, <1>4

(* The second newest of the newest few is the second newest of all. *)
LEMMA SecondNewest ==
  ASSUME NEW b \in Nat, NEW S \in SUBSET (0..b), NEW F \in SUBSET S,
         Cardinality(F) >= 2, \A x \in F, y \in S \ F : x > y
  PROVE  /\ Cardinality(S) >= 2
         /\ NewestFirst(F)[2] \in F /\ NewestFirst(F)[2] = NewestFirst(S)[2]
<1>1. F \in SUBSET (0..b) /\ F \in SUBSET Nat /\ S \in SUBSET Nat /\ S \ F \in SUBSET Nat
  OBVIOUS
<1>2. /\ Lists(NewestFirst(F), F, Cardinality(F)) /\ Len(NewestFirst(F)) = Cardinality(F) /\ Cardinality(F) \in Nat
      /\ Lists(NewestFirst(S), S, Cardinality(S)) /\ Len(NewestFirst(S)) = Cardinality(S) /\ Cardinality(S) \in Nat
      /\ IsFiniteSet(S)
  BY <1>1, NewestFirstLists
<1>3. Cardinality(F) <= Cardinality(S)
  BY <1>2, FS_Subset
<1> DEFINE f == NewestFirst(F)
           s == NewestFirst(S)
<1>4. f \in Seq(Nat) /\ s \in Seq(Nat) /\ Len(f) \in Nat /\ Len(s) \in Nat /\ Len(f) >= 2 /\ Len(s) >= 2 /\ f[2] \in F
  BY <1>2, <1>3 DEF Lists
<1>5. Lists(Limited(f, 2), F, 2) /\ Lists(Limited(s, 2), S, 2)
  BY <1>1, NewestLists
<1> HIDE DEF f, s
<1>6. ASSUME NEW u \in Seq(Nat), Len(u) \in Nat, Len(u) >= 2
      PROVE  Len(Limited(u, 2)) = 2 /\ Limited(u, 2)[2] = u[2]
  <2>1. CASE Len(u) > 2
    BY <1>6, <2>1 DEF Limited
  <2>2. CASE Len(u) = 2
    BY <2>2 DEF Limited
  <2>3. Len(u) > 2 \/ Len(u) = 2
    <3>1. \A n \in Nat : n >= 2 => n > 2 \/ n = 2
      OBVIOUS
    <3>2. QED
      BY <1>6, <3>1, Zenon
  <2>4. QED
    BY <2>1, <2>2, <2>3
<1>7. Len(Limited(f, 2)) = 2 /\ Limited(f, 2)[2] = f[2] /\ Limited(s, 2)[2] = s[2]
  BY <1>4, <1>6
<1>8. Lists(Limited(f, 2), F \cup (S \ F), 2)
  BY <1>1, <1>5, <1>7, ListsFull
<1>9. F \cup (S \ F) = S
  OBVIOUS
<1>10. Limited(f, 2) = Limited(s, 2)
  BY <1>1, <1>5, <1>8, <1>9, OneList
<1>11. QED
  BY <1>2, <1>3, <1>4, <1>7, <1>10 DEF f, s

LEMMA HourFolderIs ==
  ASSUME Kept, ~Flat, NEW h \in hours
  PROVE  /\ FilesOf(h) \subseteq kept /\ IsFiniteSet(FilesOf(h)) /\ Cardinality(FilesOf(h)) \in Nat
         /\ \E r \in FilesOf(h) : r \in kept /\ HourOf(r) = h
<1>1. FilesOf(h) = {r \in kept : HourOf(r) = h}
  BY DEF FilesOf
<1>2. FilesOf(h) \in SUBSET (0..(Dates * HoursPerDate * PerHour))
  BY <1>1, Bounds
<1>3. IsFiniteSet(FilesOf(h)) /\ Cardinality(FilesOf(h)) \in Nat
  BY <1>2, Bounds, NewestFirstLists
<1>4. QED
  BY <1>1, <1>3, KeptIs

(* It looks into the latest folder, and into the one before it if need be: those hold two *)
(* recordings between them.                                                               *)
LatestFolders(h) ==
  IF Cardinality(FilesOf(h)) < 2 /\ PreviousHour(h) # {}
  THEN FilesOf(h) \cup FilesOf(Largest(PreviousHour(h))) ELSE FilesOf(h)

LEMMA LatestHour ==
  ASSUME Kept, ~Flat
  PROVE  /\ Largest(dates) \in dates /\ Largest(HoursOf(Largest(dates))) \in hours
         /\ DateOf(Largest(HoursOf(Largest(dates)))) = Largest(dates)
         /\ \A x \in hours : x <= Largest(HoursOf(Largest(dates)))
<1> DEFINE d == Largest(dates)
           h == Largest(HoursOf(d))
<1>1. /\ hours \subseteq Hours /\ dates = {DateOf(x) : x \in hours} /\ dates # {}
      /\ \A x \in hours : x \in Nat /\ DateOf(x) \in Nat
  BY KeptIs, HoursInOrder, DatesInOrder DEF Kept, Archive, Flat
<1>2. d \in dates /\ \A y \in dates : y <= d
  <2>1. PICK H \in hours : \A x \in hours : x <= H
    BY <1>1, LargestHour
  <2>2. DateOf(H) \in Nat /\ \A x \in hours : DateOf(x) \in 0..DateOf(H)
    <3>1. ASSUME NEW x \in hours PROVE DateOf(x) <= DateOf(H)
      BY <1>1, <2>1, DatesInOrder
    <3>2. QED
      BY <1>1, <3>1
  <2>3. dates \in SUBSET (0..DateOf(H))
    BY <1>1, <2>2
  <2>4. QED
    BY <1>1, <2>2, <2>3, LargestIs
<1> HIDE DEF d
<1>3. HoursOf(d) \subseteq hours /\ HoursOf(d) # {} /\ \A x \in hours : x \in HoursOf(d) <=> DateOf(x) = d
  BY <1>1, <1>2 DEF HoursOf
<1>4. h \in HoursOf(d) /\ \A y \in HoursOf(d) : y <= h
  BY <1>1, <1>3, LargestHour
<1> HIDE DEF h
<1>5. ASSUME NEW x \in hours PROVE x <= h
  <2>1. DateOf(x) \in dates /\ DateOf(x) <= d
    BY <1>1, <1>2
  <2>2. h \in hours /\ DateOf(h) = d
    BY <1>3, <1>4
  <2>3. h <= x => d <= DateOf(x)
    BY <1>1, <2>2, DatesInOrder
  <2>4. CASE DateOf(x) = d
    BY <1>3, <1>4, <2>4
  <2>5. CASE DateOf(x) # d
    BY <1>1, <2>1, <2>2, <2>3, <2>5
  <2>6. QED
    BY <2>4, <2>5
<1>6. QED
  BY <1>2, <1>3, <1>4, <1>5 DEF d, h

LEMMA LatestSearch ==
  ASSUME Kept, ~Flat
  PROVE  \E h \in hours :
           /\ \A x \in hours : x <= h
           /\ FindLatestCompleteFile = IF Cardinality(LatestFolders(h)) < 2 THEN <<>>
                                       ELSE <<NewestFirst(LatestFolders(h))[2]>>
<1> DEFINE d == Largest(dates)
           h == Largest(HoursOf(d))
           same == {x \in HoursOf(d) : x < h}
           day == IF d = 0 THEN {} ELSE HoursOf(d - 1)
           first == FilesOf(h)
           second == IF Cardinality(first) < 2 /\ same # {} THEN first \cup FilesOf(Largest(same)) ELSE first
           found == IF Cardinality(second) < 2 /\ day # {} THEN second \cup FilesOf(Largest(day)) ELSE second
           Second(s) == IF Cardinality(s) < 2 THEN <<>> ELSE <<NewestFirst(s)[2]>>
<1>1. FindLatestCompleteFile = Second(found)
  BY DEF FindLatestCompleteFile
<1>2. d \in dates /\ h \in hours /\ DateOf(h) = d /\ \A x \in hours : x <= h
  BY LatestHour
<1>3. PreviousHour(h) = IF same # {} THEN {Largest(same)} ELSE IF day # {} THEN {Largest(day)} ELSE {}
  BY <1>2 DEF PreviousHour
<1>4. \A g : Largest({g}) = g
  BY DEF Largest
<1>5. same # {} => Largest(same) \in same /\ same \subseteq hours /\ Largest(same) \in hours
  <2>1. same \subseteq hours /\ hours \subseteq Hours
    BY KeptIs DEF HoursOf
  <2> HIDE DEF same
  <2>2. QED
    BY <2>1, LargestHour
<1>6. same # {} => Largest(same) # h
  <2>1. h \in Nat /\ \A x \in same : x < h
    BY <1>2, KeptIs, HoursInOrder
  <2> HIDE DEF same, h
  <2>2. QED
    BY <1>5, <2>1
<1>7. Cardinality(first) \in Nat
  BY <1>2, HourFolderIs
<1> HIDE DEF d, h, same, day
<1>8. same # {} => ~(Cardinality(first \cup FilesOf(Largest(same))) < 2)
  <2>1. HAVE same # {}
  <2> DEFINE g == Largest(same)
  <2>2. g \in hours /\ g # h
    BY <1>5, <1>6, <2>1
  <2> HIDE DEF g
  <2>3. PICK x \in FilesOf(h) : HourOf(x) = h
    BY <1>2, HourFolderIs
  <2>4. PICK y \in FilesOf(g) : HourOf(y) = g
    BY <2>2, HourFolderIs
  <2>5. IsFiniteSet(FilesOf(h) \cup FilesOf(g))
    BY <1>2, <2>2, HourFolderIs, FS_Union
  <2>6. Cardinality(FilesOf(h) \cup FilesOf(g)) \in Nat /\ Cardinality(FilesOf(h) \cup FilesOf(g)) >= 2
    BY <2>2, <2>3, <2>4, <2>5, TwoOfThem
  <2>7. QED
    BY <2>6 DEF g
<1>9. found = LatestFolders(h)
  <2>1. CASE ~(Cardinality(first) < 2)
    BY <2>1 DEF LatestFolders
  <2>2. CASE Cardinality(first) < 2 /\ same # {}
    <3>1. found = first \cup FilesOf(Largest(same))
      BY <1>8, <2>2
    <3>2. PreviousHour(h) # {} /\ Largest(PreviousHour(h)) = Largest(same)
      BY <1>3, <1>4, <2>2
    <3>3. QED
      BY <2>2, <3>1, <3>2 DEF LatestFolders
  <2>3. CASE Cardinality(first) < 2 /\ same = {} /\ day # {}
    <3>1. PreviousHour(h) # {} /\ Largest(PreviousHour(h)) = Largest(day)
      BY <1>3, <1>4, <2>3
    <3>2. QED
      BY <2>3, <3>1 DEF LatestFolders
  <2>4. CASE Cardinality(first) < 2 /\ same = {} /\ day = {}
    BY <1>3, <2>4 DEF LatestFolders
  <2>5. QED
    BY <2>1, <2>2, <2>3, <2>4
<1> HIDE DEF found
<1>10. QED
  BY <1>1, <1>2, <1>9

LEMMA LatestFinds ==
  ASSUME Kept, ~Flat
  PROVE  /\ FindLatestCompleteFile = <<>> \/ \E x \in kept : FindLatestCompleteFile = <<x>>
         /\ NoDateMissing =>
              FindLatestCompleteFile = IF Cardinality(kept) < 2 THEN <<>> ELSE <<NewestFirst(kept)[2]>>
<1> DEFINE b == Dates * HoursPerDate * PerHour
<1>1. b \in Nat /\ kept \in SUBSET (0..b) /\ kept \in SUBSET Nat
  BY Bounds
<1> HIDE DEF b
<1>2. PICK h \in hours :
        /\ \A x \in hours : x <= h
        /\ FindLatestCompleteFile = IF Cardinality(LatestFolders(h)) < 2 THEN <<>>
                                    ELSE <<NewestFirst(LatestFolders(h))[2]>>
  BY LatestSearch
<1> DEFINE F == LatestFolders(h)
<1>3. h \in Hours /\ h \in Nat /\ DateOf(h) \in dates /\ \A r \in kept : HourOf(r) \in hours /\ HourOf(r) \in Nat /\ r \in Nat
  BY KeptIs, HoursInOrder
<1>4. \A x \in Hours : FilesOf(x) = {r \in kept : HourOf(r) = x}
  BY DEF FilesOf
<1>5. Cardinality(FilesOf(h)) \in Nat
  BY HourFolderIs
<1>6. /\ F \in SUBSET kept /\ \A x \in F, y \in kept \ F : HourOf(y) < HourOf(x)
      /\ NoDateMissing /\ Cardinality(F) < 2 => F = kept
  <2>1. CASE Cardinality(FilesOf(h)) < 2 /\ PreviousHour(h) # {}
    <3>1. PICK g \in hours : PreviousHour(h) = {g}
      BY <1>3, <2>1, PreviousIs
    <3>2. g < h /\ g \in Hours /\ g \in Nat /\ Largest(PreviousHour(h)) = g /\ \A x \in hours : x < h => x <= g
      <4>1. g < h /\ Largest(PreviousHour(h)) = g /\ \A x \in hours : x < h => x <= g
        BY <1>3, <3>1, PreviousIs
      <4>2. g \in Hours /\ g \in Nat
        BY KeptIs, HoursInOrder
      <4>3. QED
        BY <4>1, <4>2
    <3>3. F = FilesOf(h) \cup FilesOf(g)
      BY <2>1, <3>2 DEF LatestFolders
    <3>4. \A r \in kept : r \in F <=> HourOf(r) = h \/ HourOf(r) = g
      BY <1>3, <1>4, <3>2, <3>3
    <3>5. F \in SUBSET kept
      BY <1>3, <1>4, <3>2, <3>3
    <3>6. ASSUME NEW x \in F, NEW y \in kept \ F PROVE HourOf(y) < HourOf(x)
      <4>1. HourOf(y) # h /\ HourOf(y) # g /\ HourOf(y) \in hours /\ HourOf(y) \in Nat /\ (HourOf(x) = h \/ HourOf(x) = g)
        BY <1>3, <3>4, <3>5
      <4>2. HourOf(y) <= h
        BY <1>2, <4>1
      <4>3. HourOf(y) < h
        BY <1>3, <4>1, <4>2
      <4>4. HourOf(y) <= g
        BY <3>2, <4>1, <4>3
      <4>5. HourOf(y) < g
        BY <3>2, <4>1, <4>4
      <4>6. QED
        BY <4>1, <4>3, <4>5
    <3>7. ~(Cardinality(F) < 2)
      <4>1. PICK x \in FilesOf(h) : HourOf(x) = h
        BY HourFolderIs
      <4>2. PICK y \in FilesOf(g) : HourOf(y) = g
        BY HourFolderIs
      <4>3. IsFiniteSet(FilesOf(h) \cup FilesOf(g)) /\ x # y
        <5>1. IsFiniteSet(FilesOf(h)) /\ IsFiniteSet(FilesOf(g))
          BY HourFolderIs
        <5>2. x # y
          BY <1>3, <3>2, <4>1, <4>2
        <5>3. QED
          BY <5>1, <5>2, FS_Union
      <4>4. Cardinality(FilesOf(h) \cup FilesOf(g)) \in Nat /\ Cardinality(FilesOf(h) \cup FilesOf(g)) >= 2
        BY <4>3, TwoOfThem
      <4>5. QED
        BY <3>3, <4>4
    <3>8. QED
      BY <3>5, <3>6, <3>7
  <2>2. CASE ~(Cardinality(FilesOf(h)) < 2 /\ PreviousHour(h) # {})
    <3>1. F = FilesOf(h)
      BY <2>2 DEF LatestFolders
    <3>2. F \in SUBSET kept /\ \A r \in kept : r \in F <=> HourOf(r) = h
      BY <1>3, <1>4, <3>1
    <3>3. ASSUME NEW x \in F, NEW y \in kept \ F PROVE HourOf(y) < HourOf(x)
      <4>1. HourOf(y) # h /\ HourOf(y) \in hours /\ HourOf(y) \in Nat /\ HourOf(x) = h
        BY <1>3, <3>2
      <4>2. HourOf(y) <= h
        BY <1>2, <4>1
      <4>3. QED
        BY <1>3, <4>1, <4>2
    <3>4. ASSUME NoDateMissing, Cardinality(F) < 2 PROVE F = kept
      <4>1. PreviousHour(h) = {}
        BY <2>2, <3>1, <3>4
      <4>2. \A x \in hours : h <= x
        BY <1>3, <3>4, <4>1, PreviousIs
      <4>3. ASSUME NEW r \in kept PROVE HourOf(r) = h
        <5>1. HourOf(r) \in hours /\ HourOf(r) \in Nat
          BY <1>3
        <5>2. HourOf(r) <= h /\ h <= HourOf(r)
          BY <1>2, <4>2, <5>1
        <5>3. QED
          BY <1>3, <5>1, <5>2
      <4>4. QED
        BY <3>2, <4>3
    <3>5. QED
      BY <3>2, <3>3, <3>4
  <2>3. QED
    BY <2>1, <2>2
<1> HIDE DEF F
<1>7. \A x \in F, y \in kept \ F : x > y
  <2>1. ASSUME NEW x \in F, NEW y \in kept \ F PROVE x > y
    <3>1. x \in kept /\ y \in kept /\ HourOf(y) < HourOf(x)
      BY <1>6
    <3>2. x \in Nat /\ y \in Nat /\ HourOf(x) \in Nat /\ HourOf(y) \in Nat
      BY <1>3, <3>1
    <3>3. x <= y => HourOf(x) <= HourOf(y)
      BY <3>2, HoursInOrder
    <3>4. QED
      BY <3>1, <3>2, <3>3
  <2>2. QED
    BY <2>1
<1>8. Cardinality(F) \in Nat /\ F \in SUBSET (0..b)
  <2>1. F \in SUBSET (0..b)
    BY <1>1, <1>6
  <2>2. QED
    BY <1>1, <2>1, NewestFirstLists
<1>9. FindLatestCompleteFile = IF Cardinality(F) < 2 THEN <<>> ELSE <<NewestFirst(F)[2]>>
  BY <1>2 DEF F
<1>10. CASE Cardinality(F) < 2
  BY <1>6, <1>9, <1>10
<1>11. CASE ~(Cardinality(F) < 2)
  <2>1. Cardinality(F) >= 2
    BY <1>8, <1>11
  <2>2. Cardinality(kept) >= 2 /\ NewestFirst(F)[2] \in F /\ NewestFirst(F)[2] = NewestFirst(kept)[2]
    BY <1>1, <1>6, <1>7, <2>1, SecondNewest
  <2>3. ~(Cardinality(kept) < 2)
    <3>1. Cardinality(kept) \in Nat
      BY <1>1, NewestFirstLists
    <3>2. QED
      BY <2>2, <3>1
  <2>4. QED
    BY <1>6, <1>9, <1>11, <2>2, <2>3
<1>12. QED
  BY <1>10, <1>11

(* The three answers. *)
Ordered(s) ==
  /\ \A i \in 1..Len(s) : s[i] \in kept
  /\ \A i \in 1..(Len(s) - 1) : s[i] > s[i + 1]

LEMMA ListsOrdered ==
  ASSUME NEW S \in SUBSET kept, NEW n \in Nat, NEW s, Lists(s, S, n)
  PROVE  Ordered(s) /\ \A i \in 1..Len(s) : s[i] \in S
<1>1. Len(s) \in Nat /\ \A i, j \in 1..Len(s) : i < j => s[i] > s[j]
  BY LenProperties DEF Lists
<1>2. ASSUME NEW i \in 1..(Len(s) - 1) PROVE s[i] > s[i + 1]
  <2>1. i \in 1..Len(s) /\ i + 1 \in 1..Len(s) /\ i < i + 1
    BY <1>1
  <2>2. QED
    BY <1>1, <2>1
<1>3. QED
  BY <1>2 DEF Ordered, Lists

LEMMA NoneOrdered == Ordered(<<>>)
<1>1. Len(<<>>) = 0
  OBVIOUS
<1>2. (\A i \in 1..0 : FALSE) /\ \A i \in 1..(0 - 1) : FALSE
  OBVIOUS
<1>3. QED
  BY <1>1, <1>2 DEF Ordered

LEMMA OneOrdered ==
  ASSUME NEW x \in kept
  PROVE  Ordered(<<x>>) /\ \A i \in 1..Len(<<x>>) : <<x>>[i] = x
<1>1. Len(<<x>>) = 1 /\ <<x>>[1] = x
  OBVIOUS
<1>2. (\A i \in 1..1 : i = 1) /\ \A i \in 1..(1 - 1) : FALSE
  OBVIOUS
<1> DEFINE s == <<x>>
<1> HIDE DEF s
<1>3. Len(s) = 1 /\ s[1] = x
  BY <1>1 DEF s
<1>4. Ordered(s) /\ \A i \in 1..Len(s) : s[i] = x
  BY <1>2, <1>3 DEF Ordered
<1>5. QED
  BY <1>4 DEF s

LEMMA OlderAnswer ==
  ASSUME Kept, NEW r \in Recordings
  PROVE  /\ Ordered(FindOlderFiles(r)) /\ \A i \in 1..Len(FindOlderFiles(r)) : FindOlderFiles(r)[i] < r
         /\ NoDateMissing /\ r \in kept => FindOlderFiles(r) = Newest({x \in kept : x < r}, Requested)
<1>1. CASE r \notin kept
  <2>1. FindOlderFiles(r) = <<>>
    BY <1>1 DEF FindOlderFiles
  <2>2. \A i \in 1..Len(<<>>) : FALSE
    OBVIOUS
  <2>3. QED
    BY <1>1, <2>1, <2>2, NoneOrdered
<1>2. CASE r \in kept
  <2> DEFINE limit == Written(r)
             h == HourOf(r)
             R == {x \in kept : x < r}
             s == FindOlderFiles(r)
  <2>1. r \in Nat /\ limit \in Nat /\ h \in Hours /\ Requested \in Lengths /\ Requested \in Nat
    BY HoursInOrder, Sizes DEF Written, Lengths
  <2>2. Reach(limit, h) = R
    <3>1. ASSUME NEW x \in kept PROVE (Flat \/ HourOf(x) <= h) /\ Written(x) < limit <=> x < r
      <4>1. x \in Nat
        BY KeptIs
      <4>2. x <= r => HourOf(x) <= h
        BY <2>1, <4>1, HoursInOrder
      <4>3. Written(x) < limit <=> x < r
        BY <2>1, <4>1 DEF Written
      <4>4. x < r => x <= r
        BY <2>1, <4>1
      <4>5. QED
        BY <4>2, <4>3, <4>4
    <3>2. QED
      BY <3>1 DEF Reach
  <2>3. s = OlderFrom(limit)[h][Requested]
    BY <1>2 DEF FindOlderFiles
  <2> HIDE DEF limit, h, s
  <2>4. PICK S \in SUBSET R : Lists(s, S, Requested) /\ (AllDatesFrom(h) => S = R)
    BY <2>1, <2>2, <2>3, OlderFinds DEF FindsFrom
  <2>5. Ordered(s) /\ \A i \in 1..Len(s) : s[i] < r
    <3>1. S \in SUBSET kept
      OBVIOUS
    <3>2. Ordered(s) /\ \A i \in 1..Len(s) : s[i] \in S
      BY <2>1, <2>4, <3>1, ListsOrdered
    <3>3. QED
      BY <3>2
  <2>6. NoDateMissing => AllDatesFrom(h)
    BY <1>2, KeptIs DEF AllDatesFrom, h
  <2>7. ASSUME NoDateMissing PROVE s = Newest(R, Requested)
    <3>1. Lists(s, R, Requested)
      BY <2>4, <2>6, <2>7
    <3>2. R \in SUBSET (0..(Dates * HoursPerDate * PerHour)) /\ R \in SUBSET Nat
      BY Bounds
    <3> HIDE DEF R
    <3>3. Lists(Newest(R, Requested), R, Requested)
      BY <2>1, <3>2, Bounds, NewestLists DEF Newest
    <3>4. QED
      BY <2>1, <3>1, <3>2, <3>3, OneList
  <2>8. QED
    BY <1>2, <2>5, <2>7 DEF s
<1>3. QED
  BY <1>1, <1>2

LEMMA TimeAnswer ==
  ASSUME Kept, NEW t \in Times
  PROVE  /\ Ordered(FindFilesFromDatetime(t))
         /\ \A i \in 1..Len(FindFilesFromDatetime(t)) : Written(FindFilesFromDatetime(t)[i]) < t
         /\ NoDateMissing /\ (Flat \/ DateOf(HourOf(RecordingAt(t))) \in dates) =>
              FindFilesFromDatetime(t) = Newest({x \in kept : Written(x) < t}, 1)
<1> DEFINE h == HourOf(RecordingAt(t))
           R == {x \in kept : Written(x) < t}
           s == FindFilesFromDatetime(t)
<1>1. t \in Nat /\ RecordingAt(t) \in Recordings /\ h \in Hours /\ MaxFolders \in FoldersLeft
      /\ \A x \in kept : x \in Nat /\ (Written(x) < t <=> x < RecordingAt(t))
  BY KeptIs, TimesInOrder, HoursInOrder, Sizes DEF FoldersLeft
<1>2. Reach(t, h) = R
  <2>1. ASSUME NEW x \in kept, Written(x) < t PROVE HourOf(x) <= h
    <3>1. x \in Nat /\ RecordingAt(t) \in Nat /\ x < RecordingAt(t)
      BY <1>1, <2>1, HoursInOrder
    <3>2. x <= RecordingAt(t)
      BY <3>1
    <3>3. QED
      BY <3>1, <3>2, HoursInOrder
  <2>2. QED
    BY <2>1 DEF Reach
<1>3. s = <<>> \/ \E x \in R : s = <<x>>
  BY <1>1, <1>2, BeforeFinds DEF FindFilesFromDatetime
<1>4. AllDatesFrom(h) => Lists(s, R, 1)
  BY <1>2, BeforeFindsNewest
<1> HIDE DEF s
<1>5. Ordered(s) /\ \A i \in 1..Len(s) : Written(s[i]) < t
  <2>1. CASE s = <<>>
    <3>1. \A i \in 1..Len(<<>>) : FALSE
      OBVIOUS
    <3>2. QED
      BY <2>1, <3>1, NoneOrdered
  <2>2. CASE \E x \in R : s = <<x>>
    <3>1. PICK x \in R : s = <<x>>
      BY <2>2
    <3>2. x \in kept /\ Written(x) < t
      OBVIOUS
    <3>3. Ordered(<<x>>) /\ \A i \in 1..Len(<<x>>) : <<x>>[i] = x
      BY <3>2, OneOrdered
    <3>4. QED
      BY <3>1, <3>2, <3>3
  <2>3. QED
    BY <1>3, <2>1, <2>2
<1>6. ASSUME NoDateMissing, Flat \/ DateOf(h) \in dates PROVE s = Newest(R, 1)
  <2>1. Lists(s, R, 1)
    BY <1>4, <1>6 DEF AllDatesFrom
  <2>2. R \in SUBSET (0..(Dates * HoursPerDate * PerHour)) /\ R \in SUBSET Nat
    BY Bounds
  <2> HIDE DEF R
  <2>3. Lists(Newest(R, 1), R, 1)
    BY <2>2, Bounds, NewestLists DEF Newest
  <2>4. QED
    BY <2>1, <2>2, <2>3, OneList
<1>7. QED
  BY <1>5, <1>6 DEF s

LEMMA LatestAnswer ==
  ASSUME Kept
  PROVE  /\ Ordered(FindLatestCompleteFile)
         /\ NoDateMissing /\ ~Flat =>
              FindLatestCompleteFile = IF Cardinality(kept) < 2 THEN <<>> ELSE <<NewestFirst(kept)[2]>>
<1>1. CASE Flat
  <2>1. FindLatestCompleteFile = Limited(NewestFirst(kept), 1)
    BY <1>1 DEF FindLatestCompleteFile
  <2>2. Lists(FindLatestCompleteFile, kept, 1)
    BY <2>1, Bounds, NewestLists
  <2>3. QED
    BY <1>1, <2>2, ListsOrdered
<1>2. CASE ~Flat
  <2> DEFINE s == FindLatestCompleteFile
  <2>1. s = <<>> \/ \E x \in kept : s = <<x>>
    BY <1>2, LatestFinds
  <2>2. Ordered(s)
    BY <2>1, NoneOrdered, OneOrdered
  <2>3. QED
    BY <1>2, <2>2, LatestFinds
<1>3. QED
  BY <1>1, <1>2

-------------------------------------------------------------------------------
(* Every answer is the one a search over all recordings gives. *)

QueryInv ==
  /\ Kept
  /\ query.type = "none" => answer = <<>>
  /\ AnswersRight

LEMMA QueryInitially == RecordingInit => QueryInv
<1>1. HAVE RecordingInit
<1>2. Kept /\ query.type = "none" /\ answer = <<>>
  BY <1>1 DEF RecordingInit, QueryInit, Kept, Archive
<1>3. Ordered(answer)
  BY <1>2, NoneOrdered
<1>4. QED
  BY <1>2, <1>3 DEF QueryInv, AnswersRight, AnswersComplete, AnswersAreOlder, OlderFilesComplete,
                    TimeFindsComplete, LatestIsComplete, Ordered

LEMMA QueryStep == QueryInv /\ [RecordingNext]_recordingVars => QueryInv'
<1>1. SUFFICES ASSUME QueryInv, [RecordingNext]_recordingVars PROVE QueryInv'
  OBVIOUS
<1> DEFINE Same == UNCHANGED <<kept, hours, dates>>
<1>2. Kept
  BY <1>1 DEF QueryInv
<1>3. Same => Kept' /\ (NoDateMissing' <=> NoDateMissing) /\ (Flat' <=> Flat)
  BY <1>2 DEF Kept, Archive, NoDateMissing, Flat
<1>4. CASE UNCHANGED queryVars
  <2>1. Same /\ query' = query /\ answer' = answer
    BY <1>4 DEF queryVars
  <2>2. QED
    BY <1>1, <1>3, <2>1 DEF QueryInv, AnswersRight, AnswersComplete, AnswersAreOlder, OlderFilesComplete,
                            TimeFindsComplete, LatestIsComplete, DateAsked
<1>5. CASE LatestFile
  <2>1. Same /\ query' = [type |-> "latest", arg |-> 0] /\ answer' = FindLatestCompleteFile
    BY <1>5 DEF LatestFile, Ask
  <2>2. query'.type = "latest"
    BY <2>1
  <2>3. AnswersComplete'
    BY <1>2, <1>3, <2>1, <2>2, LatestAnswer
    DEF AnswersComplete, OlderFilesComplete, TimeFindsComplete, LatestIsComplete
  <2>4. AnswersAreOlder'
    BY <1>2, <2>1, <2>2, LatestAnswer DEF AnswersAreOlder, Ordered
  <2>5. QED
    BY <1>3, <2>1, <2>2, <2>3, <2>4 DEF QueryInv, AnswersRight
<1>6. CASE BeforeFile
  <2>1. PICK r \in Recordings : Ask("before_file", r, FindOlderFiles(r))
    BY <1>6 DEF BeforeFile
  <2>2. Same /\ query' = [type |-> "before_file", arg |-> r] /\ answer' = FindOlderFiles(r)
    BY <2>1 DEF Ask
  <2>3. query'.type = "before_file" /\ query'.arg = r
    BY <2>2
  <2>4. AnswersComplete'
    BY <1>2, <1>3, <2>2, <2>3, OlderAnswer
    DEF AnswersComplete, OlderFilesComplete, TimeFindsComplete, LatestIsComplete
  <2>5. AnswersAreOlder'
    BY <1>2, <2>2, <2>3, OlderAnswer DEF AnswersAreOlder, Ordered
  <2>6. QED
    BY <1>3, <2>2, <2>3, <2>4, <2>5 DEF QueryInv, AnswersRight
<1>7. CASE BeforeTime
  <2>1. PICK t \in Times : Ask("before_time", t, FindFilesFromDatetime(t))
    BY <1>7 DEF BeforeTime
  <2>2. Same /\ query' = [type |-> "before_time", arg |-> t] /\ answer' = FindFilesFromDatetime(t)
    BY <2>1 DEF Ask
  <2>3. query'.type = "before_time" /\ query'.arg = t
    BY <2>2
  <2>4. AnswersComplete'
    BY <1>2, <1>3, <2>2, <2>3, TimeAnswer
    DEF AnswersComplete, OlderFilesComplete, TimeFindsComplete, LatestIsComplete, DateAsked
  <2>5. AnswersAreOlder'
    BY <1>2, <2>2, <2>3, TimeAnswer DEF AnswersAreOlder, Ordered
  <2>6. QED
    BY <1>3, <2>2, <2>3, <2>4, <2>5 DEF QueryInv, AnswersRight
<1>8. QED
  BY <1>1, <1>4, <1>5, <1>6, <1>7 DEF RecordingNext, Recorder, Rotation, Query, QueryNext, recordingVars

(* The three queries walk from folder to folder and stop early, and yet find what a search *)
(* over all recordings would, unless a date is missing; then what they send is still older *)
(* than what was asked for and newest first (media_query.cpp, Conductor::QueryFile).       *)
THEOREM QueriesFindTheNewest == RecordingSpec => []AnswersRight
<1>1. QueryInv => AnswersRight
  BY DEF QueryInv
<1>2. QED
  BY <1>1, QueryInitially, QueryStep, PTL DEF RecordingSpec
================================================================================
