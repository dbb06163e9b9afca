----------------------------- MODULE MCWhepService -----------------------------
(* WhepService on a few requests. *)
EXTENDS WhepService
=============================================================================
