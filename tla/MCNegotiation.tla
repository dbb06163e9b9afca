------------------------------ MODULE MCNegotiation ------------------------------
(* Negotiation with a few offers of the viewer and of the device. *)
EXTENDS Negotiation
=============================================================================
