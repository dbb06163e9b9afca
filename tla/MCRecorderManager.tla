---------------------------- MODULE MCRecorderManager ----------------------------
(* RecorderManager with one recorder and up to two viewers. *)
EXTENDS RecorderManager
=============================================================================
