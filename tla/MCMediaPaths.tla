------------------------------ MODULE MCMediaPaths ------------------------------
(* MediaPaths with two buffers on either side of a codec. *)
EXTENDS MediaPaths
=============================================================================
