----------------------------- MODULE ClientDirectory -----------------------------
(* What MqttService promises its clients, whatever its threads do: a client that  *)
(* has a live peer keeps it, a peer serves one client and is given once, and one   *)
(* that is gone never comes back.                                                 *)
CONSTANTS Clients, Peers, Nobody

VARIABLES
  directory,  \* the live peer of each client
  gone        \* peers that are no longer live

directoryVars == <<directory, gone>>

Init ==
  /\ directory = [c \in Clients |-> Nobody]
  /\ gone = {}

Enter(c, p) ==
  /\ directory[c] = Nobody
  /\ p \notin gone /\ \A d \in Clients : directory[d] # p
  /\ directory' = [directory EXCEPT ![c] = p]
  /\ UNCHANGED gone

\* One peer ends or many at once, and nothing else takes a client's peer away.
Leave(S) ==
  /\ S \cap gone = {}
  /\ gone' = gone \cup S
  /\ directory' = [c \in Clients |-> IF directory[c] \in S THEN Nobody ELSE directory[c]]

Next ==
  \/ \E c \in Clients, p \in Peers : Enter(c, p)
  \/ \E S \in SUBSET Peers : Leave(S)

Spec == Init /\ [][Next]_directoryVars
=============================================================================
