----------------------------- MODULE MCPeerRegistry -----------------------------
(* PeerRegistry on a small instance. *)
EXTENDS PeerRegistry
=============================================================================
