---------------------------- MODULE MCSignalingSockets ----------------------------
(* SignalingSockets with two frames to send and a silence of two ping intervals. *)
EXTENDS SignalingSockets
=============================================================================
