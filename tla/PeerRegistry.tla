------------------------------ MODULE PeerRegistry ------------------------------
(* The registry in which a signaling service keeps the peers of its clients, and *)
(* the part of RtcPeer's life that the registry depends on: connecting, expiring *)
(* and being terminated (signaling/peer_registry.cpp, rtc/rtc_peer.cpp).         *)
(*                                                                               *)
(* Four kinds of thread meet here: libwebrtc's signaling thread runs the peers'  *)
(* callbacks, the cleaner sweeps expired peers out, the service's own threads    *)
(* (Users) add, look up and remove peers, and the main thread starts and stops   *)
(* the registry.  A call of the peer connection from any other thread blocks     *)
(* until the signaling thread serves it, so such a call is enabled only when     *)
(* that thread is idle.  Peer ids are fresh UUIDs: an id is added once.          *)
EXTENDS Naturals, FiniteSets

CONSTANTS Peers,      \* ids of the peers that may ever be created
          Users,      \* threads of the service
          NoPeer,     \* no peer
          MaxOffers   \* bound: remote offers a peer receives

ASSUME NoPeerAssumption == NoPeer \notin Peers
ASSUME UsersAssumption == "cleaner" \notin Users /\ "main" \notin Users
ASSUME OffersAssumption == MaxOffers \in Nat

Threads == Users \cup {"cleaner", "main"}

VARIABLES
  link,       \* state of each peer's libwebrtc connection; "released" once the
              \* peer has closed it and dropped its reference
  connected,  \* is_connected_
  expired,    \* is_expired_
  armed,      \* the connect deadline is scheduled and its safety flag alive
  offers,     \* remote offers applied to each peer
  posted,     \* peers whose expiry task is queued on the signaling thread
  waking,     \* the signaling thread is inside Cleaner::Wake
  peers,      \* peers_: the ids the registry holds
  stopped,    \* Cleaner::stopped
  pending,    \* Cleaner::expiry_pending
  locked,     \* the cleaner thread owns Cleaner::mutex
  abort,      \* Worker::abort_
  cleaner,    \* where the cleaner thread is
  ids,        \* expired_ids not yet reported by Sweep
  main,       \* where the main thread is
  hand,       \* peers each thread took out of the map and still has to terminate
  closing,    \* the peer each thread is terminating
  holds       \* the reference each user thread got from Add or Get

peerVars     == <<link, connected, expired, armed, offers>>
taskVars     == <<posted, waking>>
cleanerVars  == <<stopped, pending, locked, abort, cleaner, ids>>
custodyVars  == <<peers, hand, closing>>
vars == <<peerVars, taskVars, cleanerVars, custodyVars, main, holds>>

LinkStates == {"none", "new", "connected", "failed", "closed", "released"}
Open(p) == link[p] \in {"new", "connected", "failed"}

TypeOK ==
  /\ link \in [Peers -> LinkStates]
  /\ connected \in [Peers -> BOOLEAN]
  /\ expired \in [Peers -> BOOLEAN]
  /\ armed \in [Peers -> BOOLEAN]
  /\ offers \in [Peers -> 0..MaxOffers]
  /\ posted \in SUBSET Peers
  /\ waking \in BOOLEAN
  /\ peers \in SUBSET Peers
  /\ stopped \in BOOLEAN /\ pending \in BOOLEAN /\ locked \in BOOLEAN /\ abort \in BOOLEAN
  /\ cleaner \in {"off", "wait", "awake", "sweep", "release", "exit"}
  /\ ids \in SUBSET Peers
  /\ main \in {"off", "run", "stopping", "joining", "release", "done"}
  /\ hand \in [Threads -> SUBSET Peers]
  /\ closing \in [Threads -> Peers \cup {NoPeer}]
  /\ holds \in [Users -> Peers \cup {NoPeer}]

Init ==
  /\ link = [p \in Peers |-> "none"]
  /\ connected = [p \in Peers |-> FALSE]
  /\ expired = [p \in Peers |-> FALSE]
  /\ armed = [p \in Peers |-> FALSE]
  /\ offers = [p \in Peers |-> 0]
  /\ posted = {} /\ waking = FALSE
  /\ peers = {}
  /\ stopped = FALSE /\ pending = FALSE /\ locked = FALSE /\ abort = FALSE
  /\ cleaner = "off" /\ ids = {}
  /\ main = "off"
  /\ hand = [t \in Threads |-> {}]
  /\ closing = [t \in Threads |-> NoPeer]
  /\ holds = [u \in Users |-> NoPeer]

-------------------------------------------------------------------------------
(* The signaling thread.  One callback or posted task at a time. *)

\* Variant: the peer's listener is never told.
MarkExpiredSilently(p) ==
  /\ expired' = [expired EXCEPT ![p] = TRUE]
  /\ UNCHANGED posted

\* MarkExpired: the first expiry of a peer posts the task that wakes the cleaner.
MarkExpired(p) ==
  /\ expired' = [expired EXCEPT ![p] = TRUE]
  /\ posted' = IF expired[p] THEN posted ELSE posted \cup {p}

\* kClosed: OnConnectionChange reports it out of Close, or when DTLS is closed
\* by the remote side.
ReportClosed(p) ==
  /\ link' = [link EXCEPT ![p] = "closed"]
  /\ connected' = [connected EXCEPT ![p] = FALSE]
  /\ MarkExpired(p)

\* A remote offer applied: kHaveRemoteOffer arms the connect deadline.
ArmConnectDeadline(p) == armed' = [armed EXCEPT ![p] = TRUE]

OnConnected(p) ==
  /\ ~waking
  /\ link[p] \in {"new", "failed"} /\ offers[p] > 0
  /\ link' = [link EXCEPT ![p] = "connected"]
  /\ connected' = [connected EXCEPT ![p] = TRUE]
  /\ armed' = [armed EXCEPT ![p] = FALSE]
  /\ UNCHANGED <<expired, offers, taskVars, cleanerVars, custodyVars, main, holds>>

\* Variant: a failed connection is not given a new deadline.
OnFailedNoDeadline(p) ==
  /\ ~waking
  /\ link[p] \in {"new", "connected"} /\ offers[p] > 0
  /\ link' = [link EXCEPT ![p] = "failed"]
  /\ connected' = [connected EXCEPT ![p] = FALSE]
  /\ UNCHANGED <<armed, expired, offers, taskVars, cleanerVars, custodyVars, main, holds>>

OnFailed(p) ==
  /\ ~waking
  /\ link[p] \in {"new", "connected"} /\ offers[p] > 0
  /\ link' = [link EXCEPT ![p] = "failed"]
  /\ connected' = [connected EXCEPT ![p] = FALSE]
  /\ ArmConnectDeadline(p)
  /\ UNCHANGED <<expired, offers, taskVars, cleanerVars, custodyVars, main, holds>>

OnRemoteClosed(p) ==
  /\ ~waking
  /\ link[p] \in {"connected", "failed"}
  /\ ReportClosed(p)
  /\ UNCHANGED <<armed, offers, waking, cleanerVars, custodyVars, main, holds>>

\* The delayed task of ArmConnectDeadline; Close reports kClosed before it returns.
DeadlineTask(p) ==
  /\ ~waking
  /\ armed[p]
  /\ armed' = [armed EXCEPT ![p] = FALSE]
  /\ IF link[p] # "released" /\ ~connected[p]
     THEN ReportClosed(p)
     ELSE UNCHANGED <<link, connected, expired, posted>>
  /\ UNCHANGED <<offers, waking, cleanerVars, custodyVars, main, holds>>

\* The task MarkExpired posted enters Wake ...
ExpiryTask ==
  /\ ~waking
  /\ \E p \in posted : posted' = posted \ {p}
  /\ waking' = TRUE
  /\ UNCHANGED <<peerVars, cleanerVars, custodyVars, main, holds>>

\* Variant: the cleaner is notified, but the flag it waits for is not set.
WakeNoFlag ==
  /\ waking
  /\ ~locked
  /\ waking' = FALSE
  /\ UNCHANGED <<peerVars, posted, stopped, pending, locked, abort, cleaner, ids, custodyVars, main, holds>>

\* ... and gets the cleaner's mutex there.
Wake ==
  /\ waking
  /\ ~locked
  /\ pending' = TRUE
  /\ waking' = FALSE
  /\ UNCHANGED <<peerVars, posted, stopped, locked, abort, cleaner, ids, custodyVars, main, holds>>

-------------------------------------------------------------------------------
(* RtcPeer::Terminate, by whichever thread took the peer out of the map.  The   *)
(* flags are stored first; Close then waits for the signaling thread, whose     *)
(* callbacks may run in between.                                                *)

TerminateFlags(t, p) ==
  /\ closing[t] = NoPeer /\ p \in hand[t]
  /\ connected' = [connected EXCEPT ![p] = FALSE]
  /\ expired' = [expired EXCEPT ![p] = TRUE]
  /\ armed' = [armed EXCEPT ![p] = FALSE]
  /\ closing' = [closing EXCEPT ![t] = p]
  /\ UNCHANGED <<link, offers, taskVars, cleanerVars, peers, hand, main, holds>>

TerminateClose(t) ==
  /\ closing[t] # NoPeer
  /\ ~waking
  /\ link' = [link EXCEPT ![closing[t]] = "released"]
  /\ connected' = [connected EXCEPT ![closing[t]] = FALSE]
  /\ hand' = [hand EXCEPT ![t] = @ \ {closing[t]}]
  /\ closing' = [closing EXCEPT ![t] = NoPeer]
  /\ UNCHANGED <<expired, armed, offers, taskVars, cleanerVars, peers, main, holds>>

-------------------------------------------------------------------------------
(* The service's threads.  They are stopped before the registry is.            *)

Free(u) == hand[u] = {} /\ holds[u] = NoPeer /\ main = "run"

\* CreatePeerConnection and Add: the expiry callback is set, then the peer enters
\* the map.  Creating the connection needs the signaling thread.
Add(u, p) ==
  /\ Free(u)
  /\ ~waking
  /\ link[p] = "none"
  /\ link' = [link EXCEPT ![p] = "new"]
  /\ peers' = peers \cup {p}
  /\ holds' = [holds EXCEPT ![u] = p]
  /\ UNCHANGED <<connected, expired, armed, offers, taskVars, cleanerVars, hand, closing, main>>

\* What Get(p) returns.
Found(p) == p \in peers /\ ~expired[p]

Get(u, p) ==
  /\ Free(u)
  /\ Found(p)
  /\ holds' = [holds EXCEPT ![u] = p]
  /\ UNCHANGED <<peerVars, taskVars, cleanerVars, custodyVars, main>>

\* SetRemoteSdp with an offer on the reference the thread holds; ignored once the
\* connection is gone.
SetRemoteOffer(p) ==
  /\ ~waking
  /\ offers[p] < MaxOffers
  /\ IF Open(p)
     THEN ArmConnectDeadline(p) /\ offers' = [offers EXCEPT ![p] = @ + 1]
     ELSE UNCHANGED <<armed, offers>>
  /\ UNCHANGED <<link, connected, expired, taskVars, cleanerVars, custodyVars, main>>

ApplyOffer(u) ==
  /\ holds[u] # NoPeer
  /\ SetRemoteOffer(holds[u])
  /\ holds' = [holds EXCEPT ![u] = NoPeer]

\* The thread is done with the peer without having offered.
Drop(u) ==
  /\ holds[u] # NoPeer
  /\ holds' = [holds EXCEPT ![u] = NoPeer]
  /\ UNCHANGED <<peerVars, taskVars, cleanerVars, custodyVars, main>>

\* Variant: the entry is erased and its connection left open.
RemoveLeavesOpen(u, p) ==
  /\ Free(u)
  /\ p \in peers
  /\ peers' = peers \ {p}
  /\ UNCHANGED <<peerVars, taskVars, cleanerVars, hand, closing, main, holds>>

Remove(u, p) ==
  /\ Free(u)
  /\ p \in peers
  /\ peers' = peers \ {p}
  /\ hand' = [hand EXCEPT ![u] = {p}]
  /\ UNCHANGED <<peerVars, taskVars, cleanerVars, closing, main, holds>>

-------------------------------------------------------------------------------
(* The cleaner thread: the loop body given to the Worker.                       *)

\* The wait returns with the mutex held.
CleanerAwake ==
  /\ cleaner = "wait"
  /\ stopped \/ pending
  /\ locked' = TRUE
  /\ cleaner' = "awake"
  /\ UNCHANGED <<peerVars, taskVars, stopped, pending, abort, ids, custodyVars, main, holds>>

\* Variant: the worker never tests abort_.
NextRoundForever == "wait"

\* Worker::Thread tests abort_ between two runs of the loop body.
NextRound == IF abort THEN "exit" ELSE "wait"

CleanerStopped ==
  /\ cleaner = "awake" /\ stopped
  /\ locked' = FALSE
  /\ cleaner' = NextRound
  /\ UNCHANGED <<peerVars, taskVars, stopped, pending, abort, ids, custodyVars, main, holds>>

\* The flag is taken before the sweep, so an expiry during the sweep sets it again.
CleanerTake ==
  /\ cleaner = "awake" /\ ~stopped
  /\ pending' = FALSE
  /\ locked' = FALSE
  /\ cleaner' = "sweep"
  /\ UNCHANGED <<peerVars, taskVars, stopped, abort, ids, custodyVars, main, holds>>

Expired == {p \in peers : expired[p]}

\* Variant: the ids are collected, the peers are not.
SweepDropsPeers ==
  /\ cleaner = "sweep"
  /\ ids' = Expired
  /\ peers' = peers \ Expired
  /\ cleaner' = "release"
  /\ UNCHANGED <<peerVars, taskVars, stopped, pending, locked, abort, hand, closing, main, holds>>

Sweep ==
  /\ cleaner = "sweep"
  /\ hand' = [hand EXCEPT !["cleaner"] = Expired]
  /\ ids' = Expired
  /\ peers' = peers \ Expired
  /\ cleaner' = "release"
  /\ UNCHANGED <<peerVars, taskVars, stopped, pending, locked, abort, closing, main, holds>>

\* on_expired_, once every peer of this sweep is terminated.
ReportExpired(p) ==
  /\ cleaner = "release" /\ hand["cleaner"] = {}
  /\ p \in ids
  /\ ids' = ids \ {p}
  /\ UNCHANGED <<peerVars, taskVars, stopped, pending, locked, abort, cleaner, custodyVars, main, holds>>

\* Variant: the next round begins while peers of this one are being terminated.
SweepDoneEarly ==
  /\ cleaner = "release"
  /\ cleaner' = NextRound
  /\ UNCHANGED <<peerVars, taskVars, stopped, pending, locked, abort, ids, custodyVars, main, holds>>

\* Variant: the flag is cleared after the sweep, not before it.
SweepDoneClearsFlag ==
  /\ cleaner = "release" /\ hand["cleaner"] = {} /\ ids = {}
  /\ pending' = FALSE
  /\ cleaner' = NextRound
  /\ UNCHANGED <<peerVars, taskVars, stopped, locked, abort, ids, custodyVars, main, holds>>

SweepDone ==
  /\ cleaner = "release" /\ hand["cleaner"] = {} /\ ids = {}
  /\ cleaner' = NextRound
  /\ UNCHANGED <<peerVars, taskVars, stopped, pending, locked, abort, ids, custodyVars, main, holds>>

-------------------------------------------------------------------------------
(* The main thread. *)

Start ==
  /\ main = "off"
  /\ main' = "run"
  /\ stopped' = FALSE
  /\ cleaner' = "wait"
  /\ UNCHANGED <<peerVars, taskVars, pending, locked, abort, ids, custodyVars, holds>>

StopFlag ==
  /\ main = "run"
  /\ \A u \in Users : Free(u)
  /\ ~locked
  /\ stopped' = TRUE
  /\ main' = "stopping"
  /\ UNCHANGED <<peerVars, taskVars, pending, locked, abort, cleaner, ids, custodyVars, holds>>

\* ~Worker: abort, then join.
StopAbort ==
  /\ main = "stopping"
  /\ abort' = TRUE
  /\ main' = "joining"
  /\ UNCHANGED <<peerVars, taskVars, stopped, pending, locked, cleaner, ids, custodyVars, holds>>

StopSwap ==
  /\ main = "joining" /\ cleaner = "exit"
  /\ hand' = [hand EXCEPT !["main"] = peers]
  /\ peers' = {}
  /\ main' = "release"
  /\ UNCHANGED <<peerVars, taskVars, cleanerVars, closing, holds>>

StopDone ==
  /\ main = "release" /\ hand["main"] = {}
  /\ main' = "done"
  /\ UNCHANGED <<peerVars, taskVars, cleanerVars, custodyVars, holds>>

\* Nothing is left to run: the program has stopped, it is not stuck.
Finished ==
  /\ main = "done" /\ posted = {} /\ ~waking /\ \A p \in Peers : ~armed[p]
  /\ UNCHANGED vars

-------------------------------------------------------------------------------

PeerEvent == \E p \in Peers : OnConnected(p) \/ OnFailed(p) \/ OnRemoteClosed(p) \/ DeadlineTask(p)
Terminate == \E t \in Threads : TerminateClose(t) \/ \E p \in Peers : TerminateFlags(t, p)
CleanerStep == CleanerAwake \/ CleanerStopped \/ CleanerTake \/ Sweep \/ SweepDone
MainStep == Start \/ StopFlag \/ StopAbort \/ StopSwap \/ StopDone
UserStep ==
  \E u \in Users :
    \/ ApplyOffer(u)
    \/ Drop(u)
    \/ \E p \in Peers : Add(u, p) \/ Get(u, p) \/ Remove(u, p)

Next ==
  \/ PeerEvent \/ ExpiryTask \/ Wake
  \/ Terminate
  \/ CleanerStep \/ \E p \in Peers : ReportExpired(p)
  \/ MainStep
  \/ UserStep
  \/ Finished

\* Threads that have work run it, timers fire and posted tasks are served; nothing
\* makes a client connect, fail or call.
Fairness ==
  /\ \A p \in Peers : WF_vars(DeadlineTask(p))
  /\ WF_vars(ExpiryTask)
  /\ WF_vars(Wake)
  /\ \A t \in Threads : WF_vars(TerminateClose(t) \/ \E p \in Peers : TerminateFlags(t, p))
  /\ WF_vars(CleanerStep)
  /\ WF_vars(\E p \in Peers : ReportExpired(p))
  /\ WF_vars(StopAbort \/ StopSwap \/ StopDone)

Spec == Init /\ [][Next]_vars /\ Fairness

-------------------------------------------------------------------------------
(* Properties. *)

Expiry(p) == expired[p] /\ p \in peers

\* No expiry is lost: while the registry holds an expired peer, a wake-up of the
\* cleaner is on its way (queued, being delivered, pending) or the sweep that will
\* see the peer has not read the map yet (Cleaner::Wake, the loop in Start).
ExpiryNoticed ==
  \A p \in Peers : Expiry(p) => p \in posted \/ waking \/ pending \/ cleaner = "sweep"

\* A held peer that got an offer and is not connected always has its deadline
\* running, through failures and renegotiation (ArmConnectDeadline, OnConnectionChange).
DeadlineRuns ==
  \A p \in peers : offers[p] > 0 /\ ~connected[p] /\ ~expired[p] => armed[p]

\* An open connection belongs to the registry or to the one thread that is
\* terminating it (Remove, Sweep and Stop hand over what they erase).
NoOrphan ==
  \A p \in Peers : link[p] \notin {"none", "released"} => p \in peers \/ \E t \in Threads : p \in hand[t]

\* A peer that was terminated does not count as connected, although callbacks run
\* between the first line of Terminate and its Close.
ReleasedIsDown == \A p \in Peers : link[p] = "released" => ~connected[p] /\ expired[p]

\* Whoever terminates a peer owns it alone: hands are disjoint from each other and from
\* the map, and hold only connections that are not released yet.
OneOwner ==
  /\ \A t \in Threads : hand[t] \cap peers = {}
  /\ \A t1, t2 \in Threads : t1 # t2 => hand[t1] \cap hand[t2] = {}
  /\ \A t \in Threads : closing[t] # NoPeer => closing[t] \in hand[t] /\ expired[closing[t]]
  /\ \A p \in Peers : p \in peers \/ (\E t \in Threads : p \in hand[t]) => link[p] \notin {"none", "released"}

\* A sweep and a stop start with an empty hand, so what they take is added to nothing;
\* the cleaner runs only between Start and Stop.
Stages ==
  /\ cleaner # "release" => hand["cleaner"] = {}
  /\ main # "release" => hand["main"] = {}
  /\ main = "off" => cleaner = "off"

\* A peer no thread has created yet has no history.
FreshPeer == \A p \in Peers : link[p] = "none" => ~expired[p] /\ ~armed[p] /\ offers[p] = 0

\* The inductive invariant behind the properties above.
PeerInv == TypeOK /\ OneOwner /\ Stages /\ FreshPeer /\ ExpiryNoticed /\ DeadlineRuns /\ NoOrphan /\ ReleasedIsDown

\* A peer that received an offer connects or leaves the registry.
OfferSettles ==
  \A p \in Peers : (p \in peers /\ offers[p] > 0) ~> (connected[p] \/ p \notin peers)

\* An expired peer is swept out and its connection released.
ExpiredIsReleased == \A p \in Peers : Expiry(p) ~> (link[p] = "released")

\* Nothing holds a peer for ever: an offered one connects or leaves, an expired one is swept out,
\* though the cleaner may be between a sweep and its next wait (Wake, ArmConnectDeadline).
PeersSettle == OfferSettles /\ ExpiredIsReleased

\* Stop returns, with every connection released: the cleaner can be joined, and the
\* threads never wait for each other in a circle.
StopEnds == (main = "stopping") ~> (main = "done" /\ \A p \in Peers : link[p] \in {"none", "released"})

\* The registry implements the custody it promises.
CustodyOf(p) ==
  IF p \in peers THEN "held"
  ELSE IF \E t \in Threads : p \in hand[t] THEN "taken"
  ELSE IF link[p] = "released" THEN "released"
  ELSE "absent"

custodyMap == [p \in Peers |-> CustodyOf(p)]

Custody == INSTANCE PeerCustody WITH custody <- custodyMap
CustodyKept == Custody!Spec
=============================================================================
