------------------------------- MODULE WhepService -------------------------------
(* WhepService and its HttpSessions (signaling/whep_service.cpp): each HTTP request  *)
(* gets one response.  A POST makes a peer, whose id names the session, and waits    *)
(* for the peer's local description; so does a PATCH that restarts ICE.  A timer     *)
(* ends the wait.  Requests, timers and what the peers post run on the io_context    *)
(* thread; the callbacks of the peers run on the signaling thread.                   *)
(*                                                                                  *)
(* The registry is what PeerCustody says of it, with the sweep of expired peers.     *)
(* An offer, its answer and a local description are named by the request they        *)
(* belong to.  A session is named by its POST.                                       *)
EXTENDS Naturals, Sequences

CONSTANTS Requests, Sessions, None   \* Sessions: the requests that may be POSTs

ASSUME WhepAssumption == Sessions \subseteq Requests /\ None \notin Requests

VARIABLES
  req,       \* the HttpSessions: [kind, on, stage, status, sdp]
  timer,     \* answer_timer_: "off", "armed", or "expired" with its handler queued
  io,        \* what is left of the handler the io_context thread is in
  posted,    \* closures posted by the peers: [req, sdp]
  custody,   \* of each session's peer in the registry
  expired, connected, deadline,  \* is_expired_, is_connected_, the connect deadline
  fn,        \* on_local_sdp_fn_: the request it was set for
  chain,     \* operations of the PeerConnection
  created,   \* answers on their way to OnSuccess
  remote, local,  \* descriptions; remote is open until an answer is set
  open,
  desc,      \* modified_desc_
  emit,      \* sdp_emit_safety_ is alive
  mixed      \* ghost: sessions in which two exchanges overlapped

httpVars == <<req, timer, io, posted>>
lifeVars == <<custody, expired, connected, deadline>>
sdpVars == <<chain, created, remote, local, open>>
emitVars == <<fn, desc, emit>>
vars == <<httpVars, lifeVars, sdpVars, emitVars, mixed>>

Kinds == {"post", "restart", "trickle", "delete"}
Some == Requests \cup {None}
Idle == [op |-> "idle", req |-> None]
New == [kind |-> "post", on |-> None, stage |-> "new", status |-> 0, sdp |-> None]
Op(o, r) == [op |-> o, req |-> r]

TypeOK ==
  /\ req \in [Requests -> [kind : Kinds, on : Some, stage : {"new", "waiting", "done"},
                           status : {0, 200, 201, 204, 404, 412, 422, 500, 503}, sdp : Some]]
  /\ timer \in [Requests -> {"off", "armed", "expired"}]
  /\ io \in [op : {"idle", "remote", "answer"}, req : Some]
  /\ posted \in Seq([req : Requests, sdp : Requests])
  /\ custody \in [Sessions -> {"absent", "held", "released"}]
  /\ expired \in [Sessions -> BOOLEAN] /\ connected \in [Sessions -> BOOLEAN]
  /\ deadline \in [Sessions -> BOOLEAN] /\ open \in [Sessions -> BOOLEAN]
  /\ emit \in [Sessions -> BOOLEAN]
  /\ fn \in [Sessions -> Some] /\ remote \in [Sessions -> Some]
  /\ local \in [Sessions -> Some] /\ desc \in [Sessions -> Some]
  /\ chain \in [Sessions -> Seq([op : {"setRemote", "createAnswer", "setLocal"}, req : Requests])]
  /\ created \in [Sessions -> Seq(Requests)]
  /\ mixed \subseteq Sessions

Init ==
  /\ req = [r \in Requests |-> New] /\ timer = [r \in Requests |-> "off"]
  /\ io = Idle /\ posted = <<>>
  /\ custody = [s \in Sessions |-> "absent"]
  /\ expired = [s \in Sessions |-> FALSE] /\ connected = expired
  /\ deadline = expired /\ open = expired /\ emit = expired
  /\ fn = [s \in Sessions |-> None] /\ remote = fn /\ local = fn /\ desc = fn
  /\ chain = [s \in Sessions |-> <<>>] /\ created = chain
  /\ mixed = {}

-------------------------------------------------------------------------------
(* HttpSession: responses and the wait for a local description. *)

\* A set operation that is first in its chain keeps the signaling thread.
SetFirst(s) == chain[s] # <<>> /\ Head(chain[s]).op # "createAnswer"
SignalingFree == \A s \in Sessions : ~SetFirst(s)
IoFree == io.op = "idle" /\ SignalingFree

\* Send: the timer is cancelled, unless its handler is queued.
Send(r, session, status, sdp) ==
  /\ req' = [req EXCEPT ![r] = [session EXCEPT !.stage = "done", !.status = status, !.sdp = sdp]]
  /\ timer' = [timer EXCEPT ![r] = IF @ = "expired" THEN @ ELSE "off"]

Asking(r, kind, s) == [req[r] EXCEPT !.kind = kind, !.on = s]

\* Variant: nothing ends the wait.
AwaitLocalSdpForever(r, kind, s) ==
  /\ fn' = [fn EXCEPT ![s] = r]
  /\ UNCHANGED timer
  /\ req' = [req EXCEPT ![r] = [Asking(r, kind, s) EXCEPT !.stage = "waiting"]]

AwaitLocalSdp(r, kind, s) ==
  /\ fn' = [fn EXCEPT ![s] = r]
  /\ timer' = [timer EXCEPT ![r] = "armed"]
  /\ req' = [req EXCEPT ![r] = [Asking(r, kind, s) EXCEPT !.stage = "waiting"]]

\* RtcPeer::Terminate, with what Close drops.
Terminate(s) ==
  /\ custody' = [custody EXCEPT ![s] = "released"]
  /\ expired' = [expired EXCEPT ![s] = TRUE]
  /\ connected' = [connected EXCEPT ![s] = FALSE]
  /\ deadline' = [deadline EXCEPT ![s] = FALSE]
  /\ chain' = [chain EXCEPT ![s] = <<>>]
  /\ created' = [created EXCEPT ![s] = <<>>]
  /\ fn' = [fn EXCEPT ![s] = None]
  /\ emit' = [emit EXCEPT ![s] = FALSE]
  /\ UNCHANGED <<remote, local, open, desc>>

\* PeerRegistry::Remove of a peer that may be gone.
Remove(s) ==
  \/ custody[s] = "held" /\ Terminate(s)
  \/ custody[s] # "held" /\ UNCHANGED <<lifeVars, sdpVars, emitVars>>

Found(s) == custody[s] = "held" /\ ~expired[s]

\* A client has the id of a session from the response that created it.
Knows(s) == req[s].kind = "post" /\ req[s].status = 201

-------------------------------------------------------------------------------
(* HandleRequest *)

HandlePostRequest(r) ==
  /\ req[r].stage = "new"
  /\ \/ /\ Send(r, Asking(r, "post", r), 500, None)
        /\ UNCHANGED <<io, custody, fn>>
     \/ /\ custody' = [custody EXCEPT ![r] = "held"]
        /\ AwaitLocalSdp(r, "post", r)
        /\ io' = Op("remote", r)
  /\ UNCHANGED <<posted, expired, connected, deadline, sdpVars, desc, emit, mixed>>

NotFound(r, kind, s) ==
  /\ Send(r, Asking(r, kind, s), 404, None)
  /\ UNCHANGED <<io, posted, lifeVars, sdpVars, emitVars, mixed>>

\* Is an earlier exchange of this session still under way?
UnderWay(s) == chain[s] # <<>> \/ created[s] # <<>> \/ emit[s]

\* PATCH with If-Match: *.
RestartRequest(r, s) ==
  /\ Found(s)
  /\ AwaitLocalSdp(r, "restart", s)
  /\ io' = Op("remote", r)
  /\ mixed' = IF UnderWay(s) THEN mixed \cup {s} ELSE mixed
  /\ UNCHANGED <<posted, lifeVars, sdpVars, desc, emit>>

\* PATCH with the entity tag of some description, and candidates for it.
TrickleRequest(r, s) ==
  /\ Found(s)
  /\ \E tag \in Requests :
       Send(r, Asking(r, "trickle", s), IF local[s] = tag THEN 204 ELSE 412, None)
  /\ UNCHANGED <<io, posted, lifeVars, sdpVars, emitVars, mixed>>

HandleDeleteRequest(r, s) ==
  /\ Found(s)
  /\ Remove(s)
  /\ Send(r, Asking(r, "delete", s), 200, None)
  /\ UNCHANGED <<io, posted, mixed>>

HandleSessionRequest(r, s) ==
  /\ req[r].stage = "new" /\ Knows(s)
  /\ \/ ~Found(s) /\ \E kind \in Kinds \ {"post"} : NotFound(r, kind, s)
     \/ RestartRequest(r, s) \/ TrickleRequest(r, s) \/ HandleDeleteRequest(r, s)

HandleRequest ==
  /\ IoFree
  /\ \/ \E r \in Sessions : HandlePostRequest(r)
     \/ \E r \in Requests, s \in Sessions : HandleSessionRequest(r, s)

\* SetRemoteSdp, after the checks of RestartIce.  An offer that cannot be parsed, or a
\* peer that is gone, ends it; only RestartIce says so, and only of the peer.
SetRemoteSdp ==
  /\ SignalingFree /\ io.op = "remote"
  /\ \E r \in {io.req} : \E s \in {req[r].on} :
       \/ /\ custody[s] = "released" \/ (req[r].kind = "restart" /\ remote[s] = None)
          /\ \/ req[r].kind = "restart" /\ Send(r, req[r], 422, None)
             \/ req[r].kind = "post" /\ UNCHANGED <<req, timer>>
          /\ io' = Idle
          /\ UNCHANGED chain
       \/ io' = Idle /\ UNCHANGED <<req, timer, chain>>
       \/ /\ custody[s] # "released"
          /\ req[r].kind = "restart" => remote[s] # None
          /\ chain' = [chain EXCEPT ![s] = IF expired[s] THEN @ ELSE Append(@, Op("setRemote", r))]
          /\ io' = Op("answer", r)
          /\ UNCHANGED <<req, timer>>
  /\ UNCHANGED <<posted, lifeVars, created, remote, local, open, emitVars, mixed>>

CreateAnswer ==
  /\ SignalingFree /\ io.op = "answer"
  /\ io' = Idle
  /\ \E s \in {req[io.req].on} :
       chain' = [chain EXCEPT ![s] = IF expired[s] THEN @ ELSE Append(@, Op("createAnswer", io.req))]
  /\ UNCHANGED <<req, timer, posted, lifeVars, created, remote, local, open, emitVars, mixed>>

-------------------------------------------------------------------------------
(* Timers and posted closures on the io_context. *)

TimerExpires(r) ==
  /\ timer[r] = "armed"
  /\ timer' = [timer EXCEPT ![r] = "expired"]
  /\ UNCHANGED <<req, io, posted, lifeVars, sdpVars, emitVars, mixed>>

\* Variant: the handler leaves the peer to its deadline.
OnTimeoutKeepsPeer(r) ==
  /\ UNCHANGED <<lifeVars, sdpVars, emitVars>>
  /\ req' = [req EXCEPT ![r].stage = "done", ![r].status = 503]

\* The handler of a POST's timer removes its peer.
OnTimeout(r) ==
  /\ IF req[r].kind = "post" THEN Remove(r) ELSE UNCHANGED <<lifeVars, sdpVars, emitVars>>
  /\ req' = [req EXCEPT ![r].stage = "done", ![r].status = 503]

\* Variant: the handler does not look whether there was a response.
TimerHandlerUnchecked(r) ==
  /\ IoFree /\ timer[r] = "expired"
  /\ timer' = [timer EXCEPT ![r] = "off"]
  /\ OnTimeout(r)
  /\ UNCHANGED <<io, posted, mixed>>

TimerHandler(r) ==
  /\ IoFree /\ timer[r] = "expired"
  /\ timer' = [timer EXCEPT ![r] = "off"]
  /\ IF req[r].stage = "waiting" THEN OnTimeout(r)
     ELSE UNCHANGED <<req, lifeVars, sdpVars, emitVars>>
  /\ UNCHANGED <<io, posted, mixed>>

\* RespondCreated or RespondIceRestarted, if nothing was sent before.
RunPosted ==
  /\ IoFree /\ posted # <<>>
  /\ posted' = Tail(posted)
  /\ \E p \in {Head(posted)} :
       IF req[p.req].stage = "waiting"
       THEN Send(p.req, req[p.req], IF req[p.req].kind = "post" THEN 201 ELSE 200, p.sdp)
       ELSE UNCHANGED <<req, timer>>
  /\ UNCHANGED <<io, lifeVars, sdpVars, emitVars, mixed>>

-------------------------------------------------------------------------------
(* The peers, on the signaling thread. *)

\* An offer may be refused; one that is taken starts the connect deadline.
SetRemote(s, r) ==
  \/ /\ remote' = [remote EXCEPT ![s] = r] /\ open' = [open EXCEPT ![s] = TRUE]
     /\ deadline' = [deadline EXCEPT ![s] = TRUE]
  \/ UNCHANGED <<remote, open, deadline>>

SetLocal(s, r) ==
  /\ local' = [local EXCEPT ![s] = IF open[s] /\ ~expired[s] THEN r ELSE @]
  /\ open' = [open EXCEPT ![s] = FALSE]

RunSet(s) ==
  /\ SetFirst(s)
  /\ \E o \in {Head(chain[s])} :
       \/ o.op = "setRemote" /\ SetRemote(s, o.req) /\ UNCHANGED local
       \/ o.op = "setLocal" /\ SetLocal(s, o.req) /\ UNCHANGED <<remote, deadline>>
  /\ chain' = [chain EXCEPT ![s] = Tail(@)]
  /\ UNCHANGED <<httpVars, custody, expired, connected, created, emitVars, mixed>>

\* The answer is to the offer that is open when it is made.
RunCreate(s) ==
  /\ SignalingFree /\ chain[s] # <<>>
  /\ chain' = [chain EXCEPT ![s] = Tail(@)]
  /\ created' = [created EXCEPT ![s] = IF open[s] THEN Append(@, remote[s]) ELSE @]
  /\ UNCHANGED <<httpVars, lifeVars, remote, local, open, emitVars, mixed>>

\* Variant: modified_desc_ is not replaced.
OnSuccessKeepsDesc(s) ==
  /\ SignalingFree /\ created[s] # <<>>
  /\ created' = [created EXCEPT ![s] = Tail(@)]
  /\ chain' = [chain EXCEPT ![s] = Append(@, Op("setLocal", Head(created[s])))]
  /\ desc' = [desc EXCEPT ![s] = IF @ = None THEN Head(created[s]) ELSE @]
  /\ emit' = [emit EXCEPT ![s] = @ \/ fn[s] # None]
  /\ UNCHANGED <<httpVars, lifeVars, remote, local, open, fn, mixed>>

\* OnSuccess: the description is set, and sent when candidates had a second to join it.
OnSuccess(s) ==
  /\ SignalingFree /\ created[s] # <<>>
  /\ created' = [created EXCEPT ![s] = Tail(@)]
  /\ chain' = [chain EXCEPT ![s] = Append(@, Op("setLocal", Head(created[s])))]
  /\ desc' = [desc EXCEPT ![s] = Head(created[s])]
  /\ emit' = [emit EXCEPT ![s] = @ \/ fn[s] # None]
  /\ UNCHANGED <<httpVars, lifeVars, remote, local, open, fn, mixed>>

\* SendLocalSdp, when the second is over or gathering is complete.
SendLocalSdp(s) ==
  /\ SignalingFree /\ emit[s]
  /\ emit' = [emit EXCEPT ![s] = FALSE]
  /\ posted' = IF fn[s] = None THEN posted ELSE Append(posted, [req |-> fn[s], sdp |-> desc[s]])
  /\ UNCHANGED <<req, timer, io, lifeVars, sdpVars, fn, desc, mixed>>

OnConnected(s) ==
  /\ SignalingFree /\ Found(s) /\ ~connected[s] /\ local[s] # None /\ Knows(s)
  /\ connected' = [connected EXCEPT ![s] = TRUE]
  /\ deadline' = [deadline EXCEPT ![s] = FALSE]
  /\ UNCHANGED <<httpVars, custody, expired, sdpVars, emitVars, mixed>>

OnFailed(s) ==
  /\ SignalingFree /\ Found(s) /\ connected[s]
  /\ connected' = [connected EXCEPT ![s] = FALSE]
  /\ deadline' = [deadline EXCEPT ![s] = TRUE]
  /\ UNCHANGED <<httpVars, custody, expired, sdpVars, emitVars, mixed>>

\* The deadline closes a connection that is not up, which expires the peer.
DeadlineTask(s) ==
  /\ SignalingFree /\ deadline[s]
  /\ deadline' = [deadline EXCEPT ![s] = FALSE]
  /\ expired' = [expired EXCEPT ![s] = @ \/ ~connected[s]]
  /\ chain' = [chain EXCEPT ![s] = IF connected[s] THEN @ ELSE <<>>]
  /\ UNCHANGED <<httpVars, custody, connected, created, remote, local, open, emitVars, mixed>>

\* The registry's cleaner.
Sweep(s) ==
  /\ SignalingFree /\ custody[s] = "held" /\ expired[s]
  /\ Terminate(s)
  /\ UNCHANGED <<httpVars, mixed>>

-------------------------------------------------------------------------------

IoStep == SetRemoteSdp \/ CreateAnswer \/ RunPosted \/ \E r \in Requests : TimerHandler(r)
ClockStep == \E r \in Requests : TimerExpires(r)
SignalingStep ==
  \E s \in Sessions : RunSet(s) \/ RunCreate(s) \/ OnSuccess(s) \/ SendLocalSdp(s) \/ DeadlineTask(s)
CleanerStep == \E s \in Sessions : Sweep(s)
IceStep == \E s \in Sessions : OnConnected(s) \/ OnFailed(s)

Next == HandleRequest \/ IoStep \/ ClockStep \/ SignalingStep \/ CleanerStep \/ IceStep

\* Every thread runs and timers expire.  Clients may send nothing and ICE may do nothing.
Fairness ==
  WF_vars(IoStep) /\ WF_vars(ClockStep) /\ WF_vars(SignalingStep) /\ WF_vars(CleanerStep)

Spec == Init /\ [][Next]_vars /\ Fairness

-------------------------------------------------------------------------------
(* Properties. *)

\* A response carries the description made for its own request, although the peer's
\* callback, the delayed emission and a later request share one slot (AwaitLocalSdp,
\* EmitLocalSdp), as long as no exchange of the session overlaps another.
OwnAnswer ==
  \A r \in Requests :
    req[r].stage = "done" /\ req[r].sdp # None /\ req[r].on \notin mixed => req[r].sdp = r

\* Types, and responses fit.
WhepInv == TypeOK /\ OwnAnswer

\* A session that was answered with 201 is only taken away by its deadline or a DELETE,
\* never by the timer of its POST, whose handler may have been queued before the answer.
CreatedSurvives ==
  [][\A s \in Sessions :
       custody[s] = "held" /\ custody'[s] = "released" /\ req[s].status = 201 =>
         \/ expired[s]
         \/ \E r \in Requests : req[r].stage = "new" /\ req'[r].kind = "delete" /\ req'[r].on = s]_vars

\* Every request is answered in the end, whatever becomes of its peer (AwaitLocalSdp).
EveryRequestAnswered == \A r \in Requests : req[r].stage = "waiting" ~> req[r].stage = "done"

\* A session connects or ends: no failed POST and no viewer that stays away leaves one.
SessionsEnd == \A s \in Sessions : custody[s] = "held" ~> (connected[s] \/ custody[s] = "released")

\* No request and no session waits for ever.
WhepSettles == EveryRequestAnswered /\ SessionsEnd
=============================================================================
