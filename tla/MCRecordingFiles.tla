----------------------------- MODULE MCRecordingFiles -----------------------------
(* RecordingFiles with a peer-ending thread and few commands, on a disk of a few files, *)
(* and on every archive of a few dates.                                                *)
EXTENDS RecordingFiles
=============================================================================
