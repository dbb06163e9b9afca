-------------------------------- MODULE Negotiation --------------------------------
(* How an RtcPeer (rtc/rtc_peer.cpp) of the MQTT service negotiates with its viewer.  *)
(* Offers and answers cross: the viewer offers when it likes, the device when tracks  *)
(* were added, and in a collision the device rolls its own offer back.                *)
(*                                                                                   *)
(* The service's thread hands in what the viewer sent; its calls of the              *)
(* PeerConnection run on the signaling thread one by one, so that other steps of that *)
(* thread come between them.  The PeerConnection (external) chains operations: a set  *)
(* operation runs as soon as it is first in the chain, a create operation takes time  *)
(* and calls OnSuccess once it has left the chain.  The viewer is external too: it    *)
(* ignores an offer while its own is open, since the device yields.                   *)
(*                                                                                   *)
(* ICE is that of PeerRegistry's peers, which also time out and close; here the       *)
(* connection stays up once it is up.                                                 *)
EXTENDS Naturals, Sequences

CONSTANT MaxOffers    \* bound: offers of the viewer

ASSUME NegotiationAssumption == MaxOffers \in Nat

VARIABLES
  sig,         \* signaling_state_: "stable", "local" or "remote" offer
  needs,       \* needs_renegotiation_
  connected,   \* is_connected_
  chain,       \* operations of the PeerConnection
  tasks,       \* callbacks posted to the signaling thread
  added,       \* the tracks were added, for the first offer with media
  changed,     \* there are tracks that were not negotiated (external)
  told,        \* the PeerConnection has called OnRenegotiationNeeded (external)
  loop,        \* the service's thread: what is left of its SetRemoteSdp
  raced,       \* ghost: what SetRemoteSdp decided ran in another signaling state
  toDevice, toViewer,  \* messages under way
  viewer,      \* its signaling state, and the offer it waits for an answer to
  offers               \* made so far

peerVars == <<sig, needs, connected, chain, tasks>>
trackVars == <<added, changed, told>>
viewerVars == <<viewer, offers, toDevice>>
vars == <<peerVars, trackVars, loop, raced, viewerVars, toViewer>>

Sides == {"device", "viewer"}
Offer(by, n, media) == [type |-> "offer", by |-> by, n |-> n, media |-> media]
AnswerTo(offer) == [offer EXCEPT !.type = "answer"]
Op(o, m) == [op |-> o, msg |-> m, saw |-> "stable"]
OpSeen(o, m, state) == [Op(o, m) EXCEPT !.saw = state]

\* media: no media, some of the device's tracks, or all of them.
Media == {"none", "some", "all"}
Messages == [type : {"offer", "answer"}, by : Sides, n : Nat, media : Media]
None == Offer("viewer", 0, "none")
States == {"stable", "local", "remote"}
Creates == {"createOffer", "createAnswer"}
Sets == {"setLocal", "setRemote", "rollback"}

ChainOps == [op : Creates \cup Sets, msg : Messages, saw : States]
TaskOps == [op : {"created", "rolledBack"}, msg : Messages, saw : States]
LoopOps == [op : {"idle", "tracks", "check", "set", "answer", "rollback"}, msg : Messages, saw : States]

TypeOK ==
  /\ sig \in States
  /\ needs \in BOOLEAN /\ connected \in BOOLEAN /\ raced \in BOOLEAN
  /\ added \in BOOLEAN /\ changed \in BOOLEAN /\ told \in BOOLEAN
  /\ chain \in Seq(ChainOps) /\ tasks \in Seq(TaskOps) /\ loop \in LoopOps
  /\ loop.op = "rollback" => loop.msg.type = "offer" /\ loop.msg.by = "viewer"
  /\ toDevice \in Seq(Messages) /\ toViewer \in Seq(Messages)
  /\ viewer \in [state : {"stable", "local"}, offer : 0..MaxOffers]
  /\ offers \in 0..MaxOffers

Idle == [op |-> "idle", msg |-> None, saw |-> "stable"]

Init ==
  /\ sig = "stable" /\ needs = FALSE /\ connected = FALSE
  /\ chain = <<>> /\ tasks = <<>>
  /\ added = FALSE /\ changed = FALSE /\ told = FALSE
  /\ loop = Idle /\ raced = FALSE
  /\ toDevice = <<>> /\ toViewer = <<>>
  /\ viewer = [state |-> "stable", offer |-> 0] /\ offers = 0

-------------------------------------------------------------------------------
(* Operations of the PeerConnection (external) and the observer's callbacks. *)

SetFirst == chain # <<>> /\ Head(chain).op \in Sets
SignalingFree == ~SetFirst    \* a set operation keeps the signaling thread

\* CreateOffer, in the signaling state that the caller sees.
CreateOffer(state) ==
  IF state = "local" THEN <<>> ELSE <<Op("createOffer", None)>>

\* OnSignalingChange to stable: what follows in the chain, and the flag afterwards.
Resumes == sig = "remote" /\ connected /\ needs
OnStable ==
  /\ sig' = "stable"
  /\ needs' = (needs /\ ~Resumes)
  /\ chain' = Tail(chain) \o IF Resumes THEN CreateOffer("stable") ELSE <<>>

OnOffer(state) ==
  /\ sig' = state
  /\ chain' = Tail(chain)
  /\ UNCHANGED <<needs, told>>

Refused == chain' = Tail(chain) /\ UNCHANGED <<sig, needs, told>>

\* What an exchange leaves to be negotiated.
Negotiated(m) == changed' = (changed /\ m.media # "all")

\* SetLocalDescription without observers: nobody hears of a failure.
SetLocal(m) ==
  /\ \/ m.type = "offer" /\ sig \in {"stable", "local"} /\ OnOffer("local") /\ UNCHANGED changed
     \/ m.type = "answer" /\ sig = "remote" /\ OnStable /\ Negotiated(m) /\ told' = FALSE
     \/ /\ IF m.type = "offer" THEN sig = "remote" ELSE sig # "remote"
        /\ Refused /\ UNCHANGED changed
  /\ UNCHANGED tasks

\* SetRemoteDescription, which has no failure callback.
SetRemote(m) ==
  /\ \/ m.type = "offer" /\ sig \in {"stable", "remote"} /\ OnOffer("remote") /\ UNCHANGED changed
     \/ m.type = "answer" /\ sig = "local" /\ OnStable /\ Negotiated(m) /\ told' = FALSE
     \/ /\ IF m.type = "offer" THEN sig = "local" ELSE sig # "local"
        /\ Refused /\ UNCHANGED changed
  /\ UNCHANGED tasks

\* Only a rollback that succeeds leads back to SetRemoteSdp.  Unlike an answer, it does
\* not make the PeerConnection look again whether a negotiation is needed.
Rollback(m) ==
  /\ IF sig = "local"
     THEN OnStable /\ tasks' = Append(tasks, Op("rolledBack", m)) /\ UNCHANGED told
     ELSE Refused /\ UNCHANGED tasks
  /\ UNCHANGED changed

RunSet ==
  /\ SetFirst
  /\ \E o \in {Head(chain)} :
       \/ o.op = "setLocal" /\ SetLocal(o.msg)
       \/ o.op = "setRemote" /\ SetRemote(o.msg)
       \/ o.op = "rollback" /\ Rollback(o.msg)
  /\ raced' = (raced \/ (Head(chain).op # "setLocal" /\ Head(chain).saw # sig))
  /\ UNCHANGED <<connected, added, loop, viewerVars, toViewer>>

\* The offer or the answer is there; an answer only while a remote offer is open.
RunCreate ==
  /\ chain # <<>> /\ ~SetFirst
  /\ chain' = Tail(chain)
  /\ \E o \in {Head(chain)} :
       \/ /\ o.op = "createOffer"
          /\ tasks' = Append(tasks, Op("created", Offer("device", 0, IF added THEN "all" ELSE "none")))
       \/ /\ o.op = "createAnswer"
          /\ tasks' = IF sig = "remote" THEN Append(tasks, Op("created", AnswerTo(o.msg))) ELSE tasks
  /\ UNCHANGED <<sig, needs, connected, trackVars, loop, raced, viewerVars, toViewer>>

\* OnSuccess sets what was created, and sends it whatever becomes of that.
OnSuccess(m) ==
  /\ chain' = Append(chain, Op("setLocal", m))
  /\ toViewer' = Append(toViewer, m)

\* Variant: the offer that waited for the rollback is dropped.
RetryDropped(m) == UNCHANGED <<chain, toViewer>>

\* SetRemoteSdp after a rollback, on the signaling thread itself.
Retry(m) ==
  /\ chain' = chain \o IF sig = "local" THEN <<OpSeen("rollback", m, sig)>>
                       ELSE <<OpSeen("setRemote", m, sig), Op("createAnswer", m)>>
  /\ UNCHANGED toViewer

RunTask ==
  /\ SignalingFree /\ tasks # <<>>
  /\ tasks' = Tail(tasks)
  /\ \E t \in {Head(tasks)} :
       \/ t.op = "created" /\ OnSuccess(t.msg) /\ UNCHANGED needs
       \/ t.op = "rolledBack" /\ Retry(t.msg) /\ needs' = (needs \/ sig = "local")
  /\ UNCHANGED <<sig, connected, trackVars, loop, raced, viewerVars>>

-------------------------------------------------------------------------------
(* Other callbacks of the PeerConnection. *)

\* kConnected comes at any time once the viewer has had an answer (external): a later
\* offer of the viewer may be under way.
CanConnect ==
  /\ SignalingFree /\ ~connected
  /\ viewer.offer > 1 \/ (viewer.offer = 1 /\ viewer.state = "stable")

\* Variant: a need kept until now is not taken up.
OnConnectionChangeIdle ==
  /\ CanConnect
  /\ connected' = TRUE
  /\ UNCHANGED <<needs, chain, sig, tasks, trackVars, loop, raced, viewerVars, toViewer>>

OnConnectionChange ==
  /\ CanConnect
  /\ connected' = TRUE
  /\ IF needs /\ sig = "stable"
     THEN needs' = FALSE /\ chain' = chain \o CreateOffer(sig)
     ELSE UNCHANGED <<needs, chain>>
  /\ UNCHANGED <<sig, tasks, trackVars, loop, raced, viewerVars, toViewer>>

\* Variant: before the connection is up the call is ignored.
OnRenegotiationNeededEarly ==
  IF connected /\ sig = "stable"
  THEN needs' = FALSE /\ chain' = chain \o CreateOffer(sig)
  ELSE UNCHANGED <<needs, chain>>

OnRenegotiationNeeded ==
  IF connected /\ sig = "stable"
  THEN needs' = FALSE /\ chain' = chain \o CreateOffer(sig)
  ELSE needs' = TRUE /\ UNCHANGED chain

\* The PeerConnection calls it once per stable state, with no operation under way.
NegotiationNeeded ==
  /\ changed /\ ~told /\ sig = "stable" /\ chain = <<>>
  /\ told' = TRUE
  /\ OnRenegotiationNeeded
  /\ UNCHANGED <<sig, connected, tasks, added, changed, loop, raced, viewerVars, toViewer>>

-------------------------------------------------------------------------------
(* The service's thread: SetRemoteSdp. *)

\* An offer with media has the tracks added first.
Receive ==
  /\ loop.op = "idle" /\ toDevice # <<>>
  /\ toDevice' = Tail(toDevice)
  /\ \E m \in {Head(toDevice)} :
       loop' = [loop EXCEPT !.op = IF m.type = "offer" /\ m.media # "none" THEN "tracks" ELSE "check",
                            !.msg = m]
  /\ UNCHANGED <<peerVars, trackVars, raced, viewer, offers, toViewer>>

\* EnsureTracksAdded: once.
AddTracks ==
  /\ SignalingFree
  /\ loop.op = "tracks"
  /\ loop' = [loop EXCEPT !.op = "check"]
  /\ added' = TRUE
  /\ changed' = (changed \/ ~added)
  /\ UNCHANGED <<peerVars, told, raced, viewerVars, toViewer>>

\* Variant: a collision is not looked for.
CheckSdpNoGlare ==
  /\ SignalingFree /\ loop.op = "check"
  /\ loop' = IF loop.msg.type = "answer" /\ sig = "stable" THEN Idle
             ELSE [loop EXCEPT !.op = "set", !.saw = sig]
  /\ UNCHANGED needs

\* The conditions of SetRemoteSdp, in the state of this moment.
CheckSdp ==
  /\ SignalingFree /\ loop.op = "check"
  /\ IF loop.msg.type = "offer" /\ sig = "local"
     THEN loop' = [loop EXCEPT !.op = "rollback", !.saw = sig] /\ needs' = TRUE
     ELSE /\ loop' = IF loop.msg.type = "answer" /\ sig = "stable" THEN Idle
                     ELSE [loop EXCEPT !.op = "set", !.saw = sig]
          /\ UNCHANGED needs

\* The calls that follow, each of which waits for the signaling thread.
Call(op) == SignalingFree /\ chain' = Append(chain, OpSeen(op, loop.msg, loop.saw))
\* Variant: no return after the rollback.
CallRollbackGoesOn ==
  loop.op = "rollback" /\ Call("rollback") /\ loop' = [loop EXCEPT !.op = "set", !.saw = "stable"]
CallRollback == loop.op = "rollback" /\ Call("rollback") /\ loop' = Idle
CallSetRemote ==
  /\ loop.op = "set"
  /\ Call("setRemote")
  /\ loop' = IF loop.msg.type = "offer" THEN [loop EXCEPT !.op = "answer"] ELSE Idle
CallCreateAnswer == loop.op = "answer" /\ Call("createAnswer") /\ loop' = Idle

SetRemoteSdp ==
  /\ \/ CheckSdp /\ UNCHANGED chain
     \/ (CallRollback \/ CallSetRemote \/ CallCreateAnswer) /\ UNCHANGED needs
  /\ UNCHANGED <<raced, sig, connected, tasks, trackVars, viewerVars, toViewer>>

-------------------------------------------------------------------------------
(* The viewer (external). *)

ViewerOffers ==
  /\ viewer.state = "stable" /\ offers < MaxOffers
  /\ offers' = offers + 1
  /\ viewer' = [state |-> "local", offer |-> offers']
  /\ \E media \in Media : toDevice' = Append(toDevice, Offer("viewer", offers', media))
  /\ UNCHANGED <<peerVars, trackVars, loop, raced, toViewer>>

ViewerReceives ==
  /\ SignalingFree /\ toViewer # <<>>
  /\ toViewer' = Tail(toViewer)
  /\ \E m \in {Head(toViewer)} :
       \/ /\ m.type = "offer" /\ viewer.state = "stable"
          /\ toDevice' = Append(toDevice, AnswerTo(m))
          /\ UNCHANGED viewer
       \/ m.type = "offer" /\ viewer.state = "local" /\ UNCHANGED <<viewer, toDevice>>
       \/ m.type = "answer" /\ viewer' = [viewer EXCEPT !.state = "stable"] /\ UNCHANGED toDevice
  /\ UNCHANGED <<peerVars, trackVars, loop, raced, offers>>

-------------------------------------------------------------------------------

PeerConnectionStep == RunSet \/ RunCreate \/ RunTask \/ NegotiationNeeded
ServiceStep == Receive \/ AddTracks \/ SetRemoteSdp

Next ==
  \/ PeerConnectionStep \/ OnConnectionChange
  \/ ServiceStep
  \/ ViewerOffers \/ ViewerReceives

\* Both threads of the device run, messages arrive, and ICE connects in the end.
Fairness ==
  /\ WF_vars(RunSet) /\ WF_vars(RunCreate) /\ WF_vars(RunTask) /\ WF_vars(NegotiationNeeded)
  /\ WF_vars(OnConnectionChange)
  /\ WF_vars(Receive) /\ SF_vars(AddTracks) /\ SF_vars(SetRemoteSdp)
  /\ WF_vars(ViewerReceives)

Spec == Init /\ [][Next]_vars /\ Fairness

-------------------------------------------------------------------------------
(* Properties. *)

\* "The Pi always yields to the remote offer here" (SetRemoteSdp): every offer of the
\* viewer is answered.
OfferAnswered == viewer.state = "local" ~> viewer.state = "stable"

\* The same, unless what was decided runs in another signaling state.
OfferAnsweredUnlessRaced == viewer.state = "local" ~> (viewer.state = "stable" \/ raced)

\* An answer reaches the viewer only while it waits for it, and answers that offer.
AnswerFits ==
  \A i \in 1..Len(toViewer) :
    toViewer[i].type = "answer" =>
      /\ viewer.state = "local" /\ toViewer[i].n = viewer.offer
      /\ \A j \in 1..(i - 1) : toViewer[j].type # "answer"

\* When nothing is under way, neither side waits for the other.
Quiet == chain = <<>> /\ tasks = <<>> /\ loop.op = "idle" /\ toDevice = <<>> /\ toViewer = <<>>
BothStable == Quiet /\ ~raced => sig = "stable" /\ viewer.state = "stable"

\* Types; the answers fit; and nobody is left waiting.
NegotiationInv == TypeOK /\ AnswerFits /\ BothStable

\* Tracks that were added reach the viewer in the end, whatever offers collide.
TracksNegotiated == changed ~> (~changed \/ raced \/ ~connected)
=============================================================================
