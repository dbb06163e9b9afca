------------------------------- MODULE PeerCustody -------------------------------
(* What a PeerRegistry promises, whatever its threads do: a peer enters the      *)
(* registry once, is taken out of it by exactly one thread, and that thread      *)
(* releases its connection.  No peer is forgotten and none is released twice.    *)
CONSTANT Peers
VARIABLE custody    \* "absent", "held" by the registry, "taken" out, "released"

CustodyTypeOK == custody \in [Peers -> {"absent", "held", "taken", "released"}]

Init == custody = [p \in Peers |-> "absent"]

Admit(p) ==
  /\ custody[p] = "absent"
  /\ custody' = [custody EXCEPT ![p] = "held"]

\* One peer is removed, or many at once by a sweep or a stop.
Take(S) ==
  /\ \A p \in S : custody[p] = "held"
  /\ custody' = [p \in Peers |-> IF p \in S THEN "taken" ELSE custody[p]]

Release(p) ==
  /\ custody[p] = "taken"
  /\ custody' = [custody EXCEPT ![p] = "released"]

Next ==
  \/ \E p \in Peers : Admit(p) \/ Release(p)
  \/ \E S \in SUBSET Peers : Take(S)

Spec ==
  /\ Init /\ [][Next]_custody
  /\ \A p \in Peers : WF_custody(Release(p))
=============================================================================
