------------------------------ MODULE RecordingFiles ------------------------------
(* The recordings, one question at a time: a recorder that makes them, the threads     *)
(* that delete them for space, and the queries of viewers.                             *)
EXTENDS RecorderManager, DiskRotation, MediaQuery

VARIABLE side  \* "recorder", "rotation" or "query"

recordingVars == <<side, vars, rotationVars, queryVars>>

RecordingInit ==
  /\ side \in {"recorder", "rotation", "query"}
  /\ Init /\ RotationInit /\ QueryInit
  /\ side # "recorder" => ~auto
  /\ side # "rotation" => recorders = {"background"} /\ files = {}
  /\ side # "query" => kept = {}

Recorder(A) == side = "recorder" /\ A /\ UNCHANGED <<side, rotationVars, queryVars>>
Rotation(A) == side = "rotation" /\ A /\ UNCHANGED <<side, vars, queryVars>>
Query(A) == side = "query" /\ A /\ UNCHANGED <<side, vars, rotationVars>>

RecordingNext == Recorder(Next) \/ Rotation(RotationNext) \/ Query(QueryNext)

\* RecorderManager's fairness; the rotation threads go on, and so does a Start that has
\* made its folder.
RecordingFairness ==
  /\ WF_recordingVars(Recorder(NextFrame)) /\ WF_recordingVars(Recorder(WorkerStep))
  /\ SF_recordingVars(Recorder(CaptureStep))
  /\ \A t \in Threads \ {"capture"} : SF_recordingVars(Recorder(Part(t)))
  /\ \A r \in Recorders : WF_recordingVars(Rotation(RotationStep(r)))
  /\ WF_recordingVars(Rotation(Starts))

RecordingSpec == RecordingInit /\ [][RecordingNext]_recordingVars /\ RecordingFairness

-------------------------------------------------------------------------------

\* The three queries (Conductor::QueryFile) find what a search over all recordings would;
\* and whatever dates are missing, what is sent exists, is older than what was asked for and
\* comes newest first.
AnswersRight == AnswersComplete /\ AnswersAreOlder
=============================================================================
