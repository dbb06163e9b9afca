--------------------------- MODULE WhepService_proofs ---------------------------
(* Proofs about WhepService, for any requests and sessions. *)
EXTENDS WhepService, SequenceTheorems, TLAPS

-------------------------------------------------------------------------------
(* Types, by the groups of variables that an action changes together. *)

Statuses == {0, 200, 201, 204, 404, 412, 422, 500, 503}
ReqRecords == [kind : Kinds, on : Some, stage : {"new", "waiting", "done"}, status : Statuses, sdp : Some]
PostedRecords == [req : Requests, sdp : Requests]
ChainRecords == [op : {"setRemote", "createAnswer", "setLocal"}, req : Requests]

HttpTypes ==
  /\ req \in [Requests -> ReqRecords]
  /\ timer \in [Requests -> {"off", "armed", "expired"}]
  /\ io \in [op : {"idle", "remote", "answer"}, req : Some]
  /\ posted \in Seq(PostedRecords)
LifeTypes ==
  /\ custody \in [Sessions -> {"absent", "held", "released"}]
  /\ expired \in [Sessions -> BOOLEAN] /\ connected \in [Sessions -> BOOLEAN] /\ deadline \in [Sessions -> BOOLEAN]
SdpTypes ==
  /\ chain \in [Sessions -> Seq(ChainRecords)] /\ created \in [Sessions -> Seq(Requests)]
  /\ remote \in [Sessions -> Some] /\ local \in [Sessions -> Some] /\ open \in [Sessions -> BOOLEAN]
EmitTypes == fn \in [Sessions -> Some] /\ desc \in [Sessions -> Some] /\ emit \in [Sessions -> BOOLEAN]

LEMMA Types == TypeOK <=> HttpTypes /\ LifeTypes /\ SdpTypes /\ EmitTypes /\ mixed \subseteq Sessions
<1>1. ReqRecords = [kind : Kinds, on : Some, stage : {"new", "waiting", "done"},
                    status : {0, 200, 201, 204, 404, 412, 422, 500, 503}, sdp : Some]
  BY DEF ReqRecords, Statuses
<1>2. QED
  BY <1>1 DEF TypeOK, HttpTypes, LifeTypes, SdpTypes, EmitTypes, PostedRecords, ChainRecords

LEMMA TypesNext ==
  ASSUME HttpTypes', LifeTypes', SdpTypes', EmitTypes', mixed' \subseteq Sessions PROVE TypeOK'
<1>1. ReqRecords = [kind : Kinds, on : Some, stage : {"new", "waiting", "done"},
                    status : {0, 200, 201, 204, 404, 412, 422, 500, 503}, sdp : Some]
  BY DEF ReqRecords, Statuses
<1>2. QED
  BY <1>1 DEF TypeOK, HttpTypes, LifeTypes, SdpTypes, EmitTypes, PostedRecords, ChainRecords

LEMMA Names == None \notin Requests /\ Sessions \subseteq Requests /\ Requests \subseteq Some /\ None \in Some
  BY WhepAssumption DEF Some

-------------------------------------------------------------------------------
(* What the parts of a request have in common.  A handler of the io_context thread is in *)
(* the hands of one session; the exchange of a session is that of its callback.          *)

InHand(s) == io.op # "idle" /\ req[io.req].on = s
Answering(s) == io.op = "answer" /\ req[io.req].on = s

StagesKept ==
  /\ \A r \in Requests :
       /\ req[r].stage # "done" => req[r].sdp = None /\ req[r].status = 0
       /\ req[r].stage = "waiting" /\ req[r].kind = "post" => r \in Sessions
  /\ \A s \in Sessions : req[s].stage = "new" => custody[s] = "absent"
  /\ \A s \in Sessions : custody[s] = "absent" =>
       chain[s] = <<>> /\ created[s] = <<>> /\ fn[s] = None /\ ~emit[s] /\ ~open[s]
  /\ \A s \in Sessions : fn[s] # None => req[fn[s]].stage # "new" /\ req[fn[s]].on = s
  /\ io.op # "idle" => /\ io.req \in Requests /\ req[io.req].stage # "new" /\ req[io.req].on \in Sessions
                        /\ custody[req[io.req].on] # "absent"
  /\ \A s \in Sessions : (emit[s] => desc[s] # None) /\ (open[s] => remote[s] # None)

(* The exchange under way is that of the request the callback is set for, and an offer   *)
(* stays open only as long as an answer to it is still to be made or set.                *)
OwnExchange(s) ==
  /\ ~expired[s] => \A i \in 1..Len(chain[s]) : chain[s][i].op = "setRemote" => i < Len(chain[s]) \/ Answering(s)
  /\ open[s] /\ ~expired[s] => chain[s] # <<>> \/ created[s] # <<>> \/ Answering(s)
  /\ fn[s] # None =>
       /\ \A i \in 1..Len(chain[s]) : chain[s][i].req = fn[s]
       /\ \A i \in 1..Len(created[s]) : created[s][i] = fn[s]
       /\ emit[s] => desc[s] = fn[s]
       /\ open[s] => remote[s] = fn[s]
       /\ InHand(s) => io.req = fn[s]

ExchangesKept == \A s \in Sessions \ mixed : OwnExchange(s)

(* What was posted is a description of the request it is posted for.                     *)
PostedOwn ==
  \A i \in 1..Len(posted) : LET r == posted[i].req IN
    req[r].stage # "new" /\ (req[r].on \notin mixed => posted[i].sdp = r)

IInv == TypeOK /\ StagesKept /\ ExchangesKept /\ PostedOwn /\ OwnAnswer

LEMMA Initial == Init => IInv
<1> SUFFICES ASSUME Init PROVE IInv
  OBVIOUS
<1>1. New \in ReqRecords /\ Idle \in [op : {"idle", "remote", "answer"}, req : Some]
  BY DEF New, Idle, ReqRecords, Statuses, Kinds, Some
<1>2. HttpTypes /\ LifeTypes /\ SdpTypes /\ EmitTypes /\ mixed \subseteq Sessions
  <2>1. HttpTypes
    BY <1>1 DEF Init, HttpTypes
  <2>2. LifeTypes
    BY DEF Init, LifeTypes
  <2>3. SdpTypes /\ EmitTypes
    BY Names DEF Init, SdpTypes, EmitTypes
  <2>4. QED
    BY <2>1, <2>2, <2>3 DEF Init
<1>3. StagesKept
  BY Names DEF Init, StagesKept, New, Idle
<1>4. ExchangesKept
  BY DEF Init, ExchangesKept, OwnExchange
<1>5. PostedOwn /\ OwnAnswer
  BY DEF Init, PostedOwn, OwnAnswer, New
<1>6. QED
  BY <1>2, <1>3, <1>4, <1>5, Types DEF IInv

-------------------------------------------------------------------------------
(* A request is new, waits and is done; which session it is about does not change.       *)

ReqMoves ==
  \A q \in Requests :
    /\ req[q].stage # "new" => req'[q].stage # "new" /\ req'[q].on = req[q].on
    /\ req'[q].stage # "done" => req'[q].sdp = None /\ req'[q].status = 0
    /\ req'[q].stage = "new" => req[q].stage = "new"
    /\ req'[q].stage = "waiting" /\ req'[q].kind = "post" => q \in Sessions

(* A response: it has a description only if one is sent with it. *)
LEMMA Sent ==
  ASSUME IInv, NEW r \in Requests, NEW session \in ReqRecords, req[r].stage = "new" \/ session.on = req[r].on,
         NEW status \in Statuses, NEW sdp \in Some, Send(r, session, status, sdp)
  PROVE  /\ req' \in [Requests -> ReqRecords] /\ timer' \in [Requests -> {"off", "armed", "expired"}]
         /\ ReqMoves /\ \A q \in Requests \ {r} : req'[q] = req[q]
         /\ req'[r].stage = "done" /\ req'[r].sdp = sdp /\ req'[r].on = session.on /\ req'[r].kind = session.kind
<1> DEFINE rec == [session EXCEPT !.stage = "done", !.status = status, !.sdp = sdp]
<1>1. HttpTypes /\ StagesKept
  BY Types DEF IInv
<1>2. rec \in ReqRecords /\ rec.stage = "done" /\ rec.sdp = sdp /\ rec.on = session.on /\ rec.kind = session.kind
  BY DEF ReqRecords
<1>3. req' = [req EXCEPT ![r] = rec]
  BY DEF Send
<1> HIDE DEF rec
<1>4. /\ req' \in [Requests -> ReqRecords] /\ req'[r] = rec /\ \A q \in Requests \ {r} : req'[q] = req[q]
  BY <1>1, <1>2, <1>3 DEF HttpTypes
<1>5. timer' \in [Requests -> {"off", "armed", "expired"}]
  BY <1>1 DEF HttpTypes, Send
<1>6. ReqMoves
  BY <1>1, <1>2, <1>4 DEF ReqMoves, StagesKept
<1>7. QED
  BY <1>2, <1>4, <1>5, <1>6

LEMMA Asked ==
  ASSUME IInv, NEW r \in Requests, req[r].stage = "new", NEW kind \in Kinds, NEW s \in Sessions
  PROVE  /\ Asking(r, kind, s) \in ReqRecords /\ Asking(r, kind, s).on = s /\ Asking(r, kind, s).kind = kind
         /\ Asking(r, kind, s).sdp = None /\ Asking(r, kind, s).status = 0
<1>1. req[r] \in ReqRecords /\ req[r].sdp = None /\ req[r].status = 0
  BY Types DEF IInv, HttpTypes, StagesKept
<1>2. s \in Some
  BY Names
<1>3. QED
  BY <1>1, <1>2 DEF Asking, ReqRecords

(* A request that waits for a local description. *)
LEMMA Awaited ==
  ASSUME IInv, NEW r \in Requests, req[r].stage = "new", NEW kind \in Kinds, NEW s \in Sessions,
         AwaitLocalSdp(r, kind, s), kind = "post" => r \in Sessions
  PROVE  /\ req' \in [Requests -> ReqRecords] /\ timer' \in [Requests -> {"off", "armed", "expired"}]
         /\ ReqMoves /\ \A q \in Requests \ {r} : req'[q] = req[q]
         /\ req'[r].stage = "waiting" /\ req'[r].on = s /\ req'[r].kind = kind /\ req'[r].sdp = None
         /\ fn' \in [Sessions -> Some] /\ fn'[s] = r /\ \A t \in Sessions \ {s} : fn'[t] = fn[t]
<1> DEFINE rec == [Asking(r, kind, s) EXCEPT !.stage = "waiting"]
<1>1. HttpTypes /\ EmitTypes /\ StagesKept
  BY Types DEF IInv
<1>2. /\ rec \in ReqRecords /\ rec.stage = "waiting" /\ rec.sdp = None /\ rec.status = 0
      /\ rec.on = s /\ rec.kind = kind
  BY Asked DEF ReqRecords
<1>3. req' = [req EXCEPT ![r] = rec] /\ timer' = [timer EXCEPT ![r] = "armed"] /\ fn' = [fn EXCEPT ![s] = r]
  BY DEF AwaitLocalSdp
<1> HIDE DEF rec
<1>4. /\ req' \in [Requests -> ReqRecords] /\ req'[r] = rec /\ \A q \in Requests \ {r} : req'[q] = req[q]
  BY <1>1, <1>2, <1>3 DEF HttpTypes
<1>5. timer' \in [Requests -> {"off", "armed", "expired"}]
  BY <1>1, <1>3 DEF HttpTypes
<1>6. fn' \in [Sessions -> Some] /\ fn'[s] = r /\ \A t \in Sessions \ {s} : fn'[t] = fn[t]
  BY <1>1, <1>3, Names DEF EmitTypes
<1>7. ReqMoves
  BY <1>1, <1>2, <1>4 DEF ReqMoves, StagesKept
<1>8. QED
  BY <1>2, <1>4, <1>5, <1>6, <1>7

(* Nothing was sent, or the timer of a waiting request ended it. *)
LEMMA ReqStays == ASSUME IInv, req' = req PROVE ReqMoves
  BY DEF ReqMoves, IInv, StagesKept

LEMMA TimedOut ==
  ASSUME IInv, NEW r \in Requests, req[r].stage = "waiting", OnTimeout(r)
  PROVE  /\ req' \in [Requests -> ReqRecords] /\ ReqMoves /\ \A q \in Requests \ {r} : req'[q] = req[q]
         /\ req'[r].stage = "done" /\ req'[r].sdp = None /\ req'[r].on = req[r].on
<1>1. HttpTypes /\ StagesKept
  BY Types DEF IInv
<1> DEFINE x == req[r]
           y == [x EXCEPT !.stage = "done"]
           rec == [y EXCEPT !.status = 503]
<1>2. x \in ReqRecords /\ x.sdp = None /\ x.on = req[r].on
  BY <1>1 DEF HttpTypes, StagesKept
<1>a. req' = [[req EXCEPT ![r] = y] EXCEPT ![r] = rec]
  BY <1>1 DEF OnTimeout, HttpTypes
<1> HIDE DEF x
<1>b. y \in ReqRecords /\ y.stage = "done" /\ y.sdp = None /\ y.on = x.on
  BY <1>2 DEF ReqRecords
<1> HIDE DEF y
<1>c. 503 \in Statuses
  BY DEF Statuses
<1>3. /\ rec \in ReqRecords /\ rec.stage = "done" /\ rec.sdp = None /\ rec.on = req[r].on
  BY <1>2, <1>b, <1>c DEF ReqRecords
<1>4. req' = [req EXCEPT ![r] = rec]
  BY <1>1, <1>a DEF HttpTypes
<1> HIDE DEF rec
<1>5. req' \in [Requests -> ReqRecords] /\ req'[r] = rec /\ \A q \in Requests \ {r} : req'[q] = req[q]
  BY <1>1, <1>3, <1>4 DEF HttpTypes
<1>6. ReqMoves
  BY <1>1, <1>3, <1>5 DEF ReqMoves, StagesKept
<1>7. QED
  BY <1>3, <1>5, <1>6

-------------------------------------------------------------------------------
(* A step touches the sessions T; the rest of the invariant keeps for the others.        *)

Untouched(t) ==
  /\ custody'[t] = custody[t] /\ expired'[t] = expired[t]
  /\ chain'[t] = chain[t] /\ created'[t] = created[t] /\ remote'[t] = remote[t] /\ open'[t] = open[t]
  /\ fn'[t] = fn[t] /\ desc'[t] = desc[t] /\ emit'[t] = emit[t]

HandKept(t) ==
  /\ Answering(t) => Answering(t)'
  /\ InHand(t)' => InHand(t) /\ io'.req = io.req

SessionStages(s) ==
  /\ req[s].stage = "new" => custody[s] = "absent"
  /\ custody[s] = "absent" => chain[s] = <<>> /\ created[s] = <<>> /\ fn[s] = None /\ ~emit[s] /\ ~open[s]
  /\ fn[s] # None => req[fn[s]].stage # "new" /\ req[fn[s]].on = s
  /\ (emit[s] => desc[s] # None) /\ (open[s] => remote[s] # None)

HandStages ==
  io.op # "idle" => /\ io.req \in Requests /\ req[io.req].stage # "new" /\ req[io.req].on \in Sessions
                    /\ custody[req[io.req].on] # "absent"

LEMMA HandStays ==
  ASSUME IInv, ReqMoves, io' = io, \A t \in Sessions : custody[t] # "absent" => custody'[t] # "absent"
  PROVE  HandStages' /\ \A t \in Sessions : HandKept(t)
<1>1. io.op # "idle" => /\ io.req \in Requests /\ req[io.req].stage # "new" /\ req[io.req].on \in Sessions
                        /\ custody[req[io.req].on] # "absent"
  BY DEF IInv, StagesKept
<1>2. io.op # "idle" => req'[io.req].stage # "new" /\ req'[io.req].on = req[io.req].on
  BY <1>1 DEF ReqMoves
<1>3. HandStages'
  BY <1>1, <1>2 DEF HandStages
<1>4. \A t \in Sessions : HandKept(t)
  BY <1>2 DEF HandKept, InHand, Answering
<1>5. QED
  BY <1>3, <1>4

LEMMA StagesFrame ==
  ASSUME IInv, ReqMoves, NEW t \in Sessions, Untouched(t)
  PROVE  SessionStages(t)'
<1>1. fn[t] \in Some /\ t \in Requests
  BY Types, Names DEF IInv, EmitTypes
<1>2. fn[t] # None => fn[t] \in Requests
  BY <1>1 DEF Some
<1>3. /\ req[t].stage = "new" => custody[t] = "absent"
      /\ custody[t] = "absent" => chain[t] = <<>> /\ created[t] = <<>> /\ fn[t] = None /\ ~emit[t] /\ ~open[t]
      /\ fn[t] # None => req[fn[t]].stage # "new" /\ req[fn[t]].on = t
      /\ (emit[t] => desc[t] # None) /\ (open[t] => remote[t] # None)
  BY DEF IInv, StagesKept
<1>4. fn[t] # None => req'[fn[t]].stage # "new" /\ req'[fn[t]].on = t
  BY <1>2, <1>3 DEF ReqMoves
<1>5. req'[t].stage = "new" => req[t].stage = "new"
  BY <1>1 DEF ReqMoves
<1>6. QED
  BY <1>3, <1>4, <1>5 DEF SessionStages, Untouched

LEMMA ExchangeFrame ==
  ASSUME NEW t \in Sessions, OwnExchange(t), Untouched(t), HandKept(t)
  PROVE  OwnExchange(t)'
<1>1. ASSUME ~expired'[t], NEW i \in 1..Len(chain'[t]), chain'[t][i].op = "setRemote"
      PROVE  i < Len(chain'[t]) \/ Answering(t)'
  BY <1>1 DEF OwnExchange, Untouched, HandKept
<1>2. open'[t] /\ ~expired'[t] => chain'[t] # <<>> \/ created'[t] # <<>> \/ Answering(t)'
  BY DEF OwnExchange, Untouched, HandKept
<1>3. ASSUME fn'[t] # None
      PROVE  /\ \A i \in 1..Len(chain'[t]) : chain'[t][i].req = fn'[t]
             /\ \A i \in 1..Len(created'[t]) : created'[t][i] = fn'[t]
             /\ emit'[t] => desc'[t] = fn'[t]
             /\ open'[t] => remote'[t] = fn'[t]
             /\ InHand(t)' => io'.req = fn'[t]
  BY <1>3 DEF OwnExchange, Untouched, HandKept
<1>4. QED
  BY <1>1, <1>2, <1>3 DEF OwnExchange

LEMMA SessionsMove ==
  ASSUME IInv, ReqMoves, mixed \subseteq mixed', HandStages', NEW T \in SUBSET Sessions,
         \A t \in Sessions \ T : Untouched(t) /\ HandKept(t),
         \A t \in T : SessionStages(t)' /\ (t \notin mixed' => OwnExchange(t)')
  PROVE  StagesKept' /\ ExchangesKept'
<1>1. \A t \in Sessions : SessionStages(t)'
  BY StagesFrame
<1>2. StagesKept'
  BY <1>1 DEF SessionStages, StagesKept, HandStages, ReqMoves
<1>3. ASSUME NEW t \in Sessions, t \notin mixed' PROVE OwnExchange(t)'
  <2>1. CASE t \in T
    BY <1>3, <2>1
  <2>2. CASE t \notin T
    <3>1. OwnExchange(t)
      BY <1>3 DEF IInv, ExchangesKept
    <3>2. QED
      BY <2>2, <3>1, ExchangeFrame
  <2>3. QED
    BY <2>1, <2>2
<1>4. QED
  BY <1>2, <1>3 DEF ExchangesKept

(* Descriptions that were posted stay their requests' own. *)
LEMMA PostedStays ==
  ASSUME IInv, ReqMoves, mixed \subseteq mixed',
         posted' = posted \/ (posted # <<>> /\ posted' = Tail(posted))
  PROVE  PostedOwn' /\ posted' \in Seq(PostedRecords)
<1>1. posted \in Seq(PostedRecords) /\ Len(posted) \in Nat
  BY Types, LenProperties DEF IInv, HttpTypes
<1>2. ASSUME NEW i \in 1..Len(posted) PROVE posted[i] \in PostedRecords
  BY <1>1, ElementOfSeq
<1>3. ASSUME NEW i \in 1..Len(posted)
      PROVE  /\ req'[posted[i].req].stage # "new"
             /\ req'[posted[i].req].on \notin mixed' => posted[i].sdp = posted[i].req
  <2>1. posted[i].req \in Requests
    BY <1>2 DEF PostedRecords
  <2>2. req[posted[i].req].stage # "new" /\ (req[posted[i].req].on \notin mixed => posted[i].sdp = posted[i].req)
    BY DEF IInv, PostedOwn
  <2>3. QED
    BY <2>1, <2>2 DEF ReqMoves
<1>4. CASE posted' = posted
  BY <1>1, <1>3, <1>4 DEF PostedOwn
<1>5. CASE posted # <<>> /\ posted' = Tail(posted)
  <2>1. /\ Len(posted') = Len(posted) - 1 /\ posted' \in Seq(PostedRecords)
        /\ \A i \in 1..Len(posted') : posted'[i] = posted[i + 1]
    BY <1>1, <1>5, HeadTailProperties
  <2>2. \A i \in 1..Len(posted') : i + 1 \in 1..Len(posted) /\ posted'[i] = posted[i + 1]
    BY <1>1, <2>1
  <2>3. QED
    BY <1>3, <2>1, <2>2 DEF PostedOwn
<1>6. QED
  BY <1>4, <1>5

(* A response without a description is nobody else's. *)
LEMMA AnswersStay ==
  ASSUME IInv, mixed \subseteq mixed',
         \A q \in Requests : req'[q] = req[q] \/ req'[q].sdp = None
  PROVE  OwnAnswer'
<1> SUFFICES ASSUME NEW q \in Requests, req'[q].stage = "done", req'[q].sdp # None, req'[q].on \notin mixed'
             PROVE  req'[q].sdp = q
  BY DEF OwnAnswer
<1>1. req'[q] = req[q]
  OBVIOUS
<1>2. QED
  BY <1>1 DEF IInv, OwnAnswer

-------------------------------------------------------------------------------
(* What becomes of the sessions. *)

LEMMA TerminateSession ==
  ASSUME IInv, NEW s \in Sessions, Terminate(s), req[s].stage # "new", ReqMoves
  PROVE  /\ LifeTypes' /\ SdpTypes' /\ EmitTypes'
         /\ \A t \in Sessions \ {s} : Untouched(t)
         /\ SessionStages(s)' /\ OwnExchange(s)'
<1>1. LifeTypes /\ SdpTypes /\ EmitTypes /\ s \in Requests
  BY Types, Names DEF IInv
<1>2. /\ LifeTypes' /\ custody'[s] = "released" /\ expired'[s] = TRUE
      /\ \A t \in Sessions \ {s} : custody'[t] = custody[t] /\ expired'[t] = expired[t]
  BY <1>1 DEF Terminate, LifeTypes
<1>3. /\ SdpTypes' /\ chain'[s] = <<>> /\ created'[s] = <<>> /\ remote' = remote /\ open' = open
      /\ \A t \in Sessions \ {s} : chain'[t] = chain[t] /\ created'[t] = created[t]
  <2>1. chain' = [chain EXCEPT ![s] = <<>>] /\ created' = [created EXCEPT ![s] = <<>>]
        /\ UNCHANGED <<remote, local, open>>
    BY DEF Terminate
  <2>2. <<>> \in Seq(ChainRecords) /\ <<>> \in Seq(Requests)
    OBVIOUS
  <2>3. QED
    BY <1>1, <2>1, <2>2 DEF SdpTypes
<1>4. /\ EmitTypes' /\ fn'[s] = None /\ emit'[s] = FALSE /\ desc' = desc
      /\ \A t \in Sessions \ {s} : fn'[t] = fn[t] /\ emit'[t] = emit[t]
  BY <1>1, Names DEF Terminate, EmitTypes
<1>5. \A t \in Sessions \ {s} : Untouched(t)
  BY <1>2, <1>3, <1>4 DEF Untouched
<1>6. req'[s].stage # "new"
  BY <1>1 DEF ReqMoves
<1>7. open[s] => remote[s] # None
  BY DEF IInv, StagesKept
<1>8. SessionStages(s)'
  BY <1>2, <1>3, <1>4, <1>6, <1>7 DEF SessionStages
<1>9. OwnExchange(s)'
  BY <1>2, <1>4 DEF OwnExchange
<1>10. QED
  BY <1>2, <1>3, <1>4, <1>5, <1>8, <1>9

LEMMA AllUntouched ==
  ASSUME IInv, UNCHANGED <<lifeVars, sdpVars, emitVars>>
  PROVE  LifeTypes' /\ SdpTypes' /\ EmitTypes' /\ \A t \in Sessions : Untouched(t)
<1>1. LifeTypes /\ SdpTypes /\ EmitTypes
  BY Types DEF IInv
<1>2. QED
  BY <1>1 DEF LifeTypes, SdpTypes, EmitTypes, Untouched, lifeVars, sdpVars, emitVars

LEMMA SessionsStay ==
  ASSUME IInv, UNCHANGED <<lifeVars, sdpVars, emitVars>>, ReqMoves, io' = io, mixed' = mixed
  PROVE  LifeTypes' /\ SdpTypes' /\ EmitTypes' /\ StagesKept' /\ ExchangesKept'
<1>1. LifeTypes' /\ SdpTypes' /\ EmitTypes' /\ \A t \in Sessions : Untouched(t)
  BY AllUntouched
<1>2. HandStages' /\ \A t \in Sessions : HandKept(t)
  BY <1>1, HandStays DEF Untouched
<1>3. {} \in SUBSET Sessions
  OBVIOUS
<1>4. QED
  BY <1>2, <1>1, <1>3, SessionsMove

\* Nothing, or the end of one session.
LEMMA RemoveSession ==
  ASSUME IInv, NEW s \in Sessions, Remove(s), ReqMoves, io' = io, mixed' = mixed
  PROVE  LifeTypes' /\ SdpTypes' /\ EmitTypes' /\ StagesKept' /\ ExchangesKept'
<1>2. CASE custody[s] = "held" /\ Terminate(s)
  <2>1. req[s].stage # "new"
    BY <1>2 DEF IInv, StagesKept
  <2>2. /\ LifeTypes' /\ SdpTypes' /\ EmitTypes'
        /\ \A t \in Sessions \ {s} : Untouched(t)
        /\ SessionStages(s)' /\ OwnExchange(s)'
    BY <1>2, <2>1, TerminateSession
  <2>3. \A t \in Sessions : custody[t] # "absent" => custody'[t] # "absent"
    <3>1. custody'[s] = "released"
      BY <1>2, Types DEF IInv, LifeTypes, Terminate
    <3>2. QED
      BY <2>2, <3>1 DEF Untouched
  <2>4. HandStages' /\ \A t \in Sessions : HandKept(t)
    BY <2>3, HandStays
  <2>5. {s} \in SUBSET Sessions
    OBVIOUS
  <2>6. QED
    BY <2>2, <2>4, <2>5, SessionsMove
<1>3. CASE UNCHANGED <<lifeVars, sdpVars, emitVars>>
  BY <1>3, SessionsStay
<1>4. QED
  BY <1>2, <1>3 DEF Remove

LEMMA Together ==
  ASSUME HttpTypes', LifeTypes', SdpTypes', EmitTypes', mixed' \subseteq Sessions,
         StagesKept', ExchangesKept', PostedOwn', OwnAnswer'
  PROVE  IInv'
<1>1. TypeOK'
  BY TypesNext
<1>2. QED
  BY <1>1 DEF IInv

-------------------------------------------------------------------------------
(* Requests. *)

\* A new exchange of session s: nothing of an earlier one is left.
LEMMA ExchangeBegins ==
  ASSUME IInv, NEW r \in Requests, req[r].stage = "new", NEW kind \in Kinds, NEW s \in Sessions,
         AwaitLocalSdp(r, kind, s), kind = "post" => r \in Sessions, io.op = "idle", io' = Op("remote", r),
         UNCHANGED <<expired, chain, created, remote, open, desc, emit>>,
         \A t \in Sessions \ {s} : custody'[t] = custody[t], custody'[s] = "held",
         r = s \/ custody[s] = "held",
         s \notin mixed' => chain[s] = <<>> /\ created[s] = <<>> /\ ~emit[s] /\ ~open[s],
         mixed \subseteq mixed'
  PROVE  StagesKept' /\ ExchangesKept'
<1>1. /\ ReqMoves /\ \A q \in Requests \ {r} : req'[q] = req[q]
      /\ req'[r].stage = "waiting" /\ req'[r].on = s
      /\ fn'[s] = r /\ \A t \in Sessions \ {s} : fn'[t] = fn[t]
  BY Awaited
<1>2. io'.op = "remote" /\ io'.req = r
  BY DEF Op
<1>3. HandStages'
  BY <1>1, <1>2 DEF HandStages
<1>4. \A t \in Sessions \ {s} : Untouched(t) /\ HandKept(t)
  BY <1>1, <1>2 DEF Untouched, HandKept, InHand, Answering
<1>5. r \in Requests /\ r # None /\ s \in Requests
  BY Names
<1>6. SessionStages(s)'
  <2>1. req'[s].stage # "new"
    BY <1>1, <1>5 DEF IInv, StagesKept, ReqMoves
  <2>2. (emit[s] => desc[s] # None) /\ (open[s] => remote[s] # None)
    BY DEF IInv, StagesKept
  <2>3. QED
    BY <1>1, <2>1, <2>2 DEF SessionStages
<1>7. s \notin mixed' => OwnExchange(s)'
  <2> SUFFICES ASSUME s \notin mixed' PROVE OwnExchange(s)'
    OBVIOUS
  <2>1. chain'[s] = <<>> /\ created'[s] = <<>> /\ ~emit'[s] /\ ~open'[s]
    OBVIOUS
  <2>2. QED
    BY <1>1, <1>2, <2>1 DEF OwnExchange
<1>8. {s} \in SUBSET Sessions
  OBVIOUS
<1>9. QED
  BY <1>1, <1>3, <1>4, <1>6, <1>7, <1>8, SessionsMove

LEMMA PostKeeps == ASSUME IInv, NEW r \in Sessions, IoFree, HandlePostRequest(r) PROVE IInv'
<1>1. /\ req[r].stage = "new" /\ UNCHANGED <<posted, expired, connected, deadline, sdpVars, desc, emit, mixed>>
  BY DEF HandlePostRequest
<1>2. HttpTypes /\ LifeTypes /\ SdpTypes /\ EmitTypes /\ mixed \subseteq Sessions /\ r \in Requests /\ "post" \in Kinds
  BY Types, Names DEF IInv, Kinds
<1>3. SdpTypes' /\ mixed' \subseteq Sessions
  BY <1>1, <1>2 DEF SdpTypes, sdpVars
<1>4. CASE Send(r, Asking(r, "post", r), 500, None) /\ UNCHANGED <<io, custody, fn>>
  <2>1. 500 \in Statuses /\ None \in Some
    BY Names DEF Statuses
  <2>2. Asking(r, "post", r) \in ReqRecords
    BY <1>1, <1>2, Asked
  <2>3. /\ req' \in [Requests -> ReqRecords] /\ timer' \in [Requests -> {"off", "armed", "expired"}]
        /\ ReqMoves /\ \A q \in Requests \ {r} : req'[q] = req[q]
        /\ req'[r].sdp = None
    BY <1>1, <1>2, <1>4, <2>1, <2>2, Sent
  <2>4. LifeTypes' /\ EmitTypes' /\ StagesKept' /\ ExchangesKept'
    BY <1>1, <1>4, <2>3, SessionsStay DEF lifeVars, emitVars
  <2>5. HttpTypes' /\ PostedOwn' /\ OwnAnswer'
    BY <1>1, <1>2, <1>4, <2>3, PostedStays, AnswersStay DEF HttpTypes
  <2>6. QED
    BY <1>3, <2>4, <2>5, Together
<1>5. CASE /\ custody' = [custody EXCEPT ![r] = "held"] /\ AwaitLocalSdp(r, "post", r) /\ io' = Op("remote", r)
  <2>1. /\ req' \in [Requests -> ReqRecords] /\ timer' \in [Requests -> {"off", "armed", "expired"}]
        /\ ReqMoves /\ \A q \in Requests \ {r} : req'[q] = req[q]
        /\ req'[r].sdp = None /\ fn' \in [Sessions -> Some]
    BY <1>1, <1>2, <1>5, Awaited
  <2>2. custody[r] = "absent"
    BY <1>1 DEF IInv, StagesKept
  <2>3. chain[r] = <<>> /\ created[r] = <<>> /\ ~emit[r] /\ ~open[r]
    BY <2>2 DEF IInv, StagesKept
  <2>4. custody'[r] = "held" /\ \A t \in Sessions \ {r} : custody'[t] = custody[t]
    BY <1>2, <1>5 DEF LifeTypes
  <2>5. StagesKept' /\ ExchangesKept'
    BY <1>1, <1>2, <1>5, <2>3, <2>4, ExchangeBegins DEF IoFree, sdpVars
  <2>6. io' \in [op : {"idle", "remote", "answer"}, req : Some]
    BY <1>2, <1>5, Names DEF Op
  <2>7. HttpTypes' /\ PostedOwn' /\ OwnAnswer'
    BY <1>1, <1>2, <2>1, <2>6, PostedStays, AnswersStay DEF HttpTypes
  <2>8. LifeTypes'
    BY <1>1, <1>2, <1>5 DEF LifeTypes
  <2>9. EmitTypes'
    BY <1>1, <1>2, <2>1 DEF EmitTypes
  <2>10. QED
    BY <1>3, <2>5, <2>7, <2>8, <2>9, Together
<1>6. QED
  BY <1>4, <1>5 DEF HandlePostRequest

(* A response at once, and nothing else. *)
LEMMA RefusedKeeps ==
  ASSUME IInv, NEW r \in Requests, req[r].stage = "new", NEW kind \in Kinds, NEW s \in Sessions,
         NEW status \in Statuses, Send(r, Asking(r, kind, s), status, None),
         UNCHANGED <<io, posted, lifeVars, sdpVars, emitVars, mixed>>
  PROVE  IInv'
<1>1. HttpTypes /\ mixed \subseteq Sessions
  BY Types DEF IInv
<1>2. None \in Some /\ Asking(r, kind, s) \in ReqRecords
  BY Asked, Names
<1>3. /\ req' \in [Requests -> ReqRecords] /\ timer' \in [Requests -> {"off", "armed", "expired"}]
      /\ ReqMoves /\ \A q \in Requests \ {r} : req'[q] = req[q]
      /\ req'[r].sdp = None
  BY <1>2, Sent
<1>4. LifeTypes' /\ SdpTypes' /\ EmitTypes' /\ StagesKept' /\ ExchangesKept'
  BY <1>3, SessionsStay
<1>5. HttpTypes' /\ PostedOwn' /\ OwnAnswer'
  BY <1>1, <1>3, PostedStays, AnswersStay DEF HttpTypes
<1>6. QED
  BY <1>1, <1>4, <1>5, Together

LEMMA RestartKeeps ==
  ASSUME IInv, NEW r \in Requests, req[r].stage = "new", NEW s \in Sessions, IoFree, RestartRequest(r, s)
  PROVE  IInv'
<1>1. /\ Found(s) /\ AwaitLocalSdp(r, "restart", s) /\ io' = Op("remote", r)
      /\ mixed' = IF UnderWay(s) THEN mixed \cup {s} ELSE mixed
      /\ UNCHANGED <<posted, lifeVars, sdpVars, desc, emit>>
  BY DEF RestartRequest
<1>2. HttpTypes /\ LifeTypes /\ SdpTypes /\ EmitTypes /\ mixed \subseteq Sessions /\ "restart" \in Kinds
  BY Types DEF IInv, Kinds
<1>3. /\ req' \in [Requests -> ReqRecords] /\ timer' \in [Requests -> {"off", "armed", "expired"}]
      /\ ReqMoves /\ \A q \in Requests \ {r} : req'[q] = req[q]
      /\ req'[r].sdp = None /\ fn' \in [Sessions -> Some]
  BY <1>1, <1>2, Awaited
<1>4. s \notin mixed' => chain[s] = <<>> /\ created[s] = <<>> /\ ~emit[s] /\ ~open[s]
  <2> SUFFICES ASSUME s \notin mixed' PROVE chain[s] = <<>> /\ created[s] = <<>> /\ ~emit[s] /\ ~open[s]
    OBVIOUS
  <2>1. ~UnderWay(s) /\ s \notin mixed
    BY <1>1
  <2>2. chain[s] = <<>> /\ created[s] = <<>> /\ ~emit[s]
    BY <2>1 DEF UnderWay
  <2>3. ~expired[s] /\ ~Answering(s)
    BY <1>1 DEF Found, IoFree, Answering
  <2>4. OwnExchange(s)
    BY <2>1 DEF IInv, ExchangesKept
  <2>5. ~open[s]
    BY <2>2, <2>3, <2>4 DEF OwnExchange
  <2>6. QED
    BY <2>2, <2>5
<1>5. mixed \subseteq mixed' /\ mixed' \subseteq Sessions
  BY <1>1, <1>2
<1>6. StagesKept' /\ ExchangesKept'
  BY <1>1, <1>2, <1>4, <1>5, ExchangeBegins DEF IoFree, sdpVars, lifeVars, Found
<1>7. io' \in [op : {"idle", "remote", "answer"}, req : Some]
  BY <1>1, Names DEF Op
<1>8. HttpTypes' /\ PostedOwn' /\ OwnAnswer'
  BY <1>1, <1>2, <1>3, <1>5, <1>7, PostedStays, AnswersStay DEF HttpTypes
<1>9. LifeTypes' /\ SdpTypes' /\ EmitTypes'
  BY <1>1, <1>2, <1>3 DEF LifeTypes, SdpTypes, EmitTypes, lifeVars, sdpVars
<1>10. QED
  BY <1>5, <1>6, <1>8, <1>9, Together

LEMMA DeleteKeeps ==
  ASSUME IInv, NEW r \in Requests, req[r].stage = "new", NEW s \in Sessions, HandleDeleteRequest(r, s)
  PROVE  IInv'
<1>1. /\ Remove(s) /\ Send(r, Asking(r, "delete", s), 200, None) /\ UNCHANGED <<io, posted, mixed>>
  BY DEF HandleDeleteRequest
<1>2. HttpTypes /\ mixed \subseteq Sessions
  BY Types DEF IInv
<1>3. None \in Some /\ 200 \in Statuses /\ "delete" \in Kinds
  BY Names DEF Statuses, Kinds
<1>4. Asking(r, "delete", s) \in ReqRecords
  BY <1>3, Asked
<1>5. /\ req' \in [Requests -> ReqRecords] /\ timer' \in [Requests -> {"off", "armed", "expired"}]
      /\ ReqMoves /\ \A q \in Requests \ {r} : req'[q] = req[q]
      /\ req'[r].sdp = None
  BY <1>1, <1>3, <1>4, Sent
<1>6. LifeTypes' /\ SdpTypes' /\ EmitTypes' /\ StagesKept' /\ ExchangesKept'
  BY <1>1, <1>5, RemoveSession
<1>7. HttpTypes' /\ PostedOwn' /\ OwnAnswer'
  BY <1>1, <1>2, <1>5, PostedStays, AnswersStay DEF HttpTypes
<1>8. QED
  BY <1>1, <1>2, <1>6, <1>7, Together

LEMMA RequestKeeps == ASSUME IInv, HandleRequest PROVE IInv'
<1>1. IoFree
  BY DEF HandleRequest
<1>2. ASSUME NEW r \in Sessions, HandlePostRequest(r) PROVE IInv'
  BY <1>1, <1>2, PostKeeps
<1>3. ASSUME NEW r \in Requests, NEW s \in Sessions, HandleSessionRequest(r, s) PROVE IInv'
  <2>1. req[r].stage = "new"
    BY <1>3 DEF HandleSessionRequest
  <2>2. {404, 204, 412} \subseteq Statuses /\ "trickle" \in Kinds
    BY DEF Statuses, Kinds
  <2>3. ASSUME NEW kind \in Kinds, NotFound(r, kind, s) PROVE IInv'
    BY <2>1, <2>2, <2>3, RefusedKeeps DEF NotFound
  <2>4. CASE TrickleRequest(r, s)
    <3>1. PICK status \in {204, 412} : Send(r, Asking(r, "trickle", s), status, None)
      BY <2>4 DEF TrickleRequest
    <3>2. UNCHANGED <<io, posted, lifeVars, sdpVars, emitVars, mixed>>
      BY <2>4 DEF TrickleRequest
    <3>3. QED
      BY <2>1, <2>2, <3>1, <3>2, RefusedKeeps
  <2>5. CASE RestartRequest(r, s)
    BY <1>1, <2>1, <2>5, RestartKeeps
  <2>6. CASE HandleDeleteRequest(r, s)
    BY <2>1, <2>6, DeleteKeeps
  <2>7. QED
    BY <1>3, <2>3, <2>4, <2>5, <2>6 DEF HandleSessionRequest
<1>4. QED
  BY <1>2, <1>3 DEF HandleRequest

-------------------------------------------------------------------------------
(* The io_context goes on with what a request asked for. *)

\* An operation joins the chain of session s.
LEMMA ChainGrows ==
  ASSUME IInv, io.op # "idle", NEW o \in {"setRemote", "createAnswer"}, NEW s \in Sessions, req[io.req].on = s,
         chain' = [chain EXCEPT ![s] = IF expired[s] THEN @ ELSE Append(@, Op(o, io.req))],
         UNCHANGED <<req, lifeVars, created, remote, local, open, emitVars, mixed>>,
         custody[s] # "absent",
         \/ o = "setRemote" /\ io' = Op("answer", io.req)
         \/ o = "createAnswer" /\ io.op = "answer" /\ io' = Idle
  PROVE  /\ StagesKept' /\ ExchangesKept' /\ chain' \in [Sessions -> Seq(ChainRecords)]
         /\ io' \in [op : {"idle", "remote", "answer"}, req : Some]
<1>1. io.req \in Requests /\ req[io.req].stage # "new"
  BY DEF IInv, StagesKept
<1>2. SdpTypes /\ EmitTypes /\ HttpTypes /\ LifeTypes
  BY Types DEF IInv
<1> DEFINE x == Op(o, io.req)
           c == chain[s]
<1>3. x \in ChainRecords /\ x.req = io.req /\ x.op = o
  BY <1>1 DEF Op, ChainRecords
<1> HIDE DEF x
<1>4. c \in Seq(ChainRecords) /\ Len(c) \in Nat
  BY <1>2, LenProperties DEF SdpTypes
<1>5. /\ Append(c, x) \in Seq(ChainRecords) /\ Len(Append(c, x)) = Len(c) + 1
      /\ Append(c, x)[Len(c) + 1] = x /\ \A i \in 1..Len(c) : Append(c, x)[i] = c[i]
  BY <1>3, <1>4, AppendProperties
<1>6. /\ chain'[s] = IF expired[s] THEN c ELSE Append(c, x)
      /\ \A t \in Sessions \ {s} : chain'[t] = chain[t]
      /\ chain' \in [Sessions -> Seq(ChainRecords)]
  BY <1>2, <1>4, <1>5 DEF SdpTypes, x
<1>7. io' \in [op : {"idle", "remote", "answer"}, req : Some]
  BY <1>1, Names DEF Op, Idle
<1>8. ReqMoves
  BY ReqStays
<1>9. HandStages'
  <2>1. custody' = custody /\ req' = req /\ (io'.op = "idle" \/ io'.req = io.req)
    BY DEF Op, Idle, lifeVars
  <2>2. QED
    BY <1>1, <2>1 DEF HandStages
<1>10. \A t \in Sessions \ {s} : Untouched(t) /\ HandKept(t)
  <2>1. \A t \in Sessions \ {s} : Untouched(t)
    BY <1>6 DEF Untouched, lifeVars, emitVars
  <2>2. io'.op = "idle" \/ (io'.req = io.req /\ req'[io.req].on = s)
    BY DEF Op, Idle
  <2>3. \A t \in Sessions \ {s} : HandKept(t)
    BY <2>2 DEF HandKept, InHand, Answering
  <2>4. QED
    BY <2>1, <2>3
<1>11. SessionStages(s)'
  <2>1. s \in Requests
    BY Names
  <2>2. QED
    BY <2>1 DEF SessionStages, IInv, StagesKept, lifeVars, emitVars
<1>12. s \notin mixed' => OwnExchange(s)'
  <2> SUFFICES ASSUME s \notin mixed' PROVE OwnExchange(s)'
    OBVIOUS
  <2>1. OwnExchange(s) /\ InHand(s)
    BY DEF IInv, ExchangesKept, InHand
  <2>2. UNCHANGED <<expired, created, open, remote, fn, desc, emit, req>>
    BY DEF lifeVars, emitVars
  <2>3. fn[s] # None => io.req = fn[s]
    BY <2>1 DEF OwnExchange
  <2>4. ASSUME fn'[s] # None
        PROVE  /\ \A i \in 1..Len(chain'[s]) : chain'[s][i].req = fn'[s]
               /\ \A i \in 1..Len(created'[s]) : created'[s][i] = fn'[s]
               /\ emit'[s] => desc'[s] = fn'[s]
               /\ open'[s] => remote'[s] = fn'[s]
               /\ InHand(s)' => io'.req = fn'[s]
    <3>1. \A i \in 1..Len(c) : c[i].req = fn[s]
      BY <2>1, <2>2, <2>4 DEF OwnExchange
    <3>2. \A i \in 1..Len(chain'[s]) : chain'[s][i].req = fn'[s]
      <4>1. CASE expired[s]
        BY <1>6, <2>2, <3>1, <4>1
      <4>2. CASE ~expired[s]
        <5>1. \A i \in 1..(Len(c) + 1) : Append(c, x)[i].req = fn[s]
          BY <1>3, <1>4, <1>5, <2>2, <2>3, <2>4, <3>1
        <5>2. QED
          BY <1>5, <1>6, <2>2, <4>2, <5>1
      <4>3. QED
        BY <4>1, <4>2
    <3>3. InHand(s)' => io'.req = io.req
      BY DEF InHand, Op, Idle
    <3>4. QED
      BY <2>1, <2>2, <2>3, <2>4, <3>2, <3>3 DEF OwnExchange
  <2>5. CASE expired[s]
    BY <2>2, <2>4, <2>5 DEF OwnExchange
  <2>6. CASE ~expired[s]
    <3>1. chain'[s] = Append(c, x)
      BY <1>6, <2>6
    <3>2. chain'[s] # <<>>
      BY <1>4, <1>5, <3>1, EmptySeq
    <3>3. ASSUME NEW i \in 1..Len(chain'[s]), chain'[s][i].op = "setRemote"
          PROVE  i < Len(chain'[s]) \/ Answering(s)'
      <4>1. CASE o = "setRemote"
        BY <2>2, <4>1 DEF Answering, Op
      <4>2. CASE o = "createAnswer"
        BY <1>3, <1>4, <1>5, <3>1, <3>3, <4>2
      <4>3. QED
        BY <4>1, <4>2
    <3>4. QED
      BY <2>4, <3>2, <3>3 DEF OwnExchange
  <2>7. QED
    BY <2>5, <2>6
<1>13. StagesKept' /\ ExchangesKept'
  <2>1. {s} \in SUBSET Sessions /\ mixed \subseteq mixed'
    OBVIOUS
  <2>2. QED
    BY <1>8, <1>9, <1>10, <1>11, <1>12, <2>1, SessionsMove
<1>14. QED
  BY <1>6, <1>7, <1>13

\* The handler ends with the offer: no answer is made to it.
LEMMA OfferDropped ==
  ASSUME IInv, io.op = "remote", io' = Idle, ReqMoves, UNCHANGED <<lifeVars, sdpVars, emitVars, mixed>>
  PROVE  StagesKept' /\ ExchangesKept'
<1>1. \A t \in Sessions : Untouched(t)
  BY AllUntouched
<1>2. io'.op = "idle"
  BY DEF Idle
<1>3. HandStages' /\ \A t \in Sessions : HandKept(t)
  BY <1>2 DEF HandStages, HandKept, InHand, Answering
<1>4. {} \in SUBSET Sessions
  OBVIOUS
<1>5. QED
  BY <1>1, <1>3, <1>4, SessionsMove

LEMMA SetRemoteSdpKeeps == ASSUME IInv, SetRemoteSdp PROVE IInv'
<1> DEFINE r == io.req
           s == req[r].on
<1>1. /\ io.op = "remote"
      /\ UNCHANGED <<posted, lifeVars, created, remote, local, open, emitVars, mixed>>
  BY DEF SetRemoteSdp
<1>2. r \in Requests /\ req[r].stage # "new" /\ s \in Sessions /\ custody[s] # "absent"
  BY <1>1 DEF IInv, StagesKept
<1>3. HttpTypes /\ LifeTypes /\ SdpTypes /\ EmitTypes /\ mixed \subseteq Sessions
  BY Types DEF IInv
<1>4. Idle \in [op : {"idle", "remote", "answer"}, req : Some] /\ None \in Some /\ 422 \in Statuses
  BY Names DEF Idle, Statuses
<1>5. LifeTypes' /\ EmitTypes' /\ mixed' \subseteq Sessions
  BY <1>1, <1>3 DEF LifeTypes, EmitTypes, lifeVars, emitVars
<1>6. CASE io' = Idle /\ Send(r, req[r], 422, None) /\ UNCHANGED chain
  <2>1. req[r] \in ReqRecords
    BY <1>2, <1>3 DEF HttpTypes
  <2>2. /\ req' \in [Requests -> ReqRecords] /\ timer' \in [Requests -> {"off", "armed", "expired"}]
        /\ ReqMoves /\ \A q \in Requests \ {r} : req'[q] = req[q]
        /\ req'[r].sdp = None
    BY <1>2, <1>4, <1>6, <2>1, Sent
  <2>3. StagesKept' /\ ExchangesKept' /\ SdpTypes'
    BY <1>1, <1>3, <1>6, <2>2, OfferDropped DEF SdpTypes, sdpVars
  <2>4. HttpTypes' /\ PostedOwn' /\ OwnAnswer'
    BY <1>1, <1>2, <1>3, <1>4, <1>6, <2>2, PostedStays, AnswersStay DEF HttpTypes
  <2>5. QED
    BY <1>5, <2>3, <2>4, Together
<1>7. CASE io' = Idle /\ UNCHANGED <<req, timer, chain>>
  <2>1. ReqMoves
    BY <1>7, ReqStays
  <2>2. StagesKept' /\ ExchangesKept' /\ SdpTypes'
    BY <1>1, <1>3, <1>7, <2>1, OfferDropped DEF SdpTypes, sdpVars
  <2>3. HttpTypes' /\ PostedOwn' /\ OwnAnswer'
    BY <1>1, <1>3, <1>4, <1>7, <2>1, PostedStays, AnswersStay DEF HttpTypes
  <2>4. QED
    BY <1>5, <2>2, <2>3, Together
<1>8. CASE /\ chain' = [chain EXCEPT ![s] = IF expired[s] THEN @ ELSE Append(@, Op("setRemote", r))]
           /\ io' = Op("answer", r) /\ UNCHANGED <<req, timer>>
  <2>1. /\ StagesKept' /\ ExchangesKept' /\ chain' \in [Sessions -> Seq(ChainRecords)]
        /\ io' \in [op : {"idle", "remote", "answer"}, req : Some]
    BY <1>1, <1>2, <1>8, ChainGrows
  <2>2. ReqMoves /\ SdpTypes'
    BY <1>1, <1>3, <1>8, <2>1, ReqStays DEF SdpTypes
  <2>3. HttpTypes' /\ PostedOwn' /\ OwnAnswer'
    BY <1>1, <1>3, <1>8, <2>1, <2>2, PostedStays, AnswersStay DEF HttpTypes
  <2>4. QED
    BY <1>5, <2>1, <2>2, <2>3, Together
<1>9. PICK q \in {io.req} : \E u \in {req[q].on} :
        \/ io' = Idle /\ Send(q, req[q], 422, None) /\ UNCHANGED chain
        \/ io' = Idle /\ UNCHANGED <<req, timer, chain>>
        \/ /\ chain' = [chain EXCEPT ![u] = IF expired[u] THEN @ ELSE Append(@, Op("setRemote", q))]
           /\ io' = Op("answer", q) /\ UNCHANGED <<req, timer>>
  BY Zenon DEF SetRemoteSdp
<1>10. q = r
  OBVIOUS
<1>11. QED
  BY <1>6, <1>7, <1>8, <1>9, <1>10, Zenon

LEMMA CreateAnswerKeeps == ASSUME IInv, CreateAnswer PROVE IInv'
<1> DEFINE s == req[io.req].on
<1>1. /\ io.op = "answer" /\ io' = Idle
      /\ chain' = [chain EXCEPT ![s] = IF expired[s] THEN @ ELSE Append(@, Op("createAnswer", io.req))]
      /\ UNCHANGED <<req, timer, posted, lifeVars, created, remote, local, open, emitVars, mixed>>
  BY DEF CreateAnswer
<1>2. s \in Sessions /\ custody[s] # "absent"
  BY <1>1 DEF IInv, StagesKept
<1>3. HttpTypes /\ LifeTypes /\ SdpTypes /\ EmitTypes /\ mixed \subseteq Sessions
  BY Types DEF IInv
<1>4. /\ StagesKept' /\ ExchangesKept' /\ chain' \in [Sessions -> Seq(ChainRecords)]
      /\ io' \in [op : {"idle", "remote", "answer"}, req : Some]
  BY <1>1, <1>2, ChainGrows
<1>5. ReqMoves /\ SdpTypes'
  BY <1>1, <1>3, <1>4, ReqStays DEF SdpTypes
<1>6. LifeTypes' /\ EmitTypes' /\ mixed' \subseteq Sessions
  BY <1>1, <1>3 DEF LifeTypes, EmitTypes, lifeVars, emitVars
<1>7. HttpTypes' /\ PostedOwn' /\ OwnAnswer'
  BY <1>1, <1>3, <1>4, <1>5, PostedStays, AnswersStay DEF HttpTypes
<1>8. QED
  BY <1>4, <1>5, <1>6, <1>7, Together

LEMMA TimerExpiresKeeps == ASSUME IInv, NEW r \in Requests, TimerExpires(r) PROVE IInv'
<1>1. /\ timer' = [timer EXCEPT ![r] = "expired"]
      /\ UNCHANGED <<req, io, posted, lifeVars, sdpVars, emitVars, mixed>>
  BY DEF TimerExpires
<1>2. HttpTypes /\ mixed \subseteq Sessions
  BY Types DEF IInv
<1>3. ReqMoves
  BY <1>1, ReqStays
<1>4. LifeTypes' /\ SdpTypes' /\ EmitTypes' /\ StagesKept' /\ ExchangesKept'
  BY <1>1, <1>3, SessionsStay
<1>5. HttpTypes' /\ PostedOwn' /\ OwnAnswer'
  BY <1>1, <1>2, <1>3, PostedStays, AnswersStay DEF HttpTypes
<1>6. QED
  BY <1>1, <1>2, <1>4, <1>5, Together

LEMMA TimerHandlerKeeps == ASSUME IInv, NEW r \in Requests, TimerHandler(r) PROVE IInv'
<1>1. timer' = [timer EXCEPT ![r] = "off"] /\ UNCHANGED <<io, posted, mixed>>
  BY DEF TimerHandler
<1>2. HttpTypes /\ mixed \subseteq Sessions
  BY Types DEF IInv
<1>3. timer' \in [Requests -> {"off", "armed", "expired"}]
  BY <1>1, <1>2 DEF HttpTypes
<1>4. CASE req[r].stage = "waiting" /\ OnTimeout(r)
  <2>1. /\ req' \in [Requests -> ReqRecords] /\ ReqMoves /\ \A q \in Requests \ {r} : req'[q] = req[q]
        /\ req'[r].sdp = None
    BY <1>4, TimedOut
  <2>2. LifeTypes' /\ SdpTypes' /\ EmitTypes' /\ StagesKept' /\ ExchangesKept'
    <3>1. CASE req[r].kind = "post"
      <4>1. r \in Sessions /\ Remove(r)
        BY <1>4, <3>1 DEF IInv, StagesKept, OnTimeout
      <4>2. QED
        BY <1>1, <2>1, <4>1, RemoveSession
    <3>2. CASE req[r].kind # "post"
      <4>1. UNCHANGED <<lifeVars, sdpVars, emitVars>>
        BY <1>4, <3>2 DEF OnTimeout
      <4>2. QED
        BY <1>1, <2>1, <4>1, SessionsStay
    <3>3. QED
      BY <3>1, <3>2
  <2>3. HttpTypes' /\ PostedOwn' /\ OwnAnswer'
    BY <1>1, <1>2, <1>3, <2>1, PostedStays, AnswersStay DEF HttpTypes
  <2>4. QED
    BY <1>1, <1>2, <2>2, <2>3, Together
<1>5. CASE UNCHANGED <<req, lifeVars, sdpVars, emitVars>>
  <2>1. ReqMoves
    BY <1>5, ReqStays
  <2>2. LifeTypes' /\ SdpTypes' /\ EmitTypes' /\ StagesKept' /\ ExchangesKept'
    BY <1>1, <1>5, <2>1, SessionsStay
  <2>3. HttpTypes' /\ PostedOwn' /\ OwnAnswer'
    BY <1>1, <1>2, <1>3, <1>5, <2>1, PostedStays, AnswersStay DEF HttpTypes
  <2>4. QED
    BY <1>1, <1>2, <2>2, <2>3, Together
<1>6. QED
  BY <1>4, <1>5 DEF TimerHandler

LEMMA RunPostedKeeps == ASSUME IInv, RunPosted PROVE IInv'
<1> DEFINE p == Head(posted)
           r == p.req
           status == IF req[r].kind = "post" THEN 201 ELSE 200
<1>1. /\ posted # <<>> /\ posted' = Tail(posted) /\ UNCHANGED <<io, lifeVars, sdpVars, emitVars, mixed>>
  BY DEF RunPosted
<1>2. HttpTypes /\ mixed \subseteq Sessions
  BY Types DEF IInv
<1>3. p \in PostedRecords /\ p = posted[1] /\ 1 \in 1..Len(posted)
  BY <1>1, <1>2, HeadTailProperties, EmptySeq, LenProperties DEF HttpTypes
<1>4. r \in Requests /\ p.sdp \in Requests
  BY <1>3 DEF PostedRecords
<1>5. req[r].stage # "new" /\ (req[r].on \notin mixed => p.sdp = r)
  BY <1>3 DEF IInv, PostedOwn
<1>6. CASE Send(r, req[r], status, p.sdp)
  <2>1. req[r] \in ReqRecords /\ p.sdp \in Some
    BY <1>2, <1>4, Names DEF HttpTypes
  <2>2. status \in Statuses
    BY DEF Statuses
  <2>3. /\ req' \in [Requests -> ReqRecords] /\ timer' \in [Requests -> {"off", "armed", "expired"}]
        /\ ReqMoves /\ \A q \in Requests \ {r} : req'[q] = req[q]
        /\ req'[r].sdp = p.sdp /\ req'[r].on = req[r].on
    BY <1>4, <1>6, <2>1, <2>2, Sent
  <2>4. LifeTypes' /\ SdpTypes' /\ EmitTypes' /\ StagesKept' /\ ExchangesKept'
    BY <1>1, <2>3, SessionsStay
  <2>5. PostedOwn' /\ posted' \in Seq(PostedRecords)
    BY <1>1, <2>3, PostedStays
  <2>6. HttpTypes'
    BY <1>1, <1>2, <2>3, <2>5 DEF HttpTypes
  <2>7. OwnAnswer'
    BY <1>1, <1>5, <2>3 DEF IInv, OwnAnswer
  <2>8. QED
    BY <1>1, <1>2, <2>4, <2>5, <2>6, <2>7, Together
<1>7. CASE UNCHANGED <<req, timer>>
  <2>1. ReqMoves
    BY <1>7, ReqStays
  <2>2. LifeTypes' /\ SdpTypes' /\ EmitTypes' /\ StagesKept' /\ ExchangesKept'
    BY <1>1, <1>7, <2>1, SessionsStay
  <2>3. PostedOwn' /\ posted' \in Seq(PostedRecords)
    BY <1>1, <2>1, PostedStays
  <2>4. HttpTypes' /\ OwnAnswer'
    BY <1>1, <1>2, <1>7, <2>3, AnswersStay DEF HttpTypes
  <2>5. QED
    BY <1>1, <1>2, <2>2, <2>3, <2>4, Together
<1>8. QED
  BY <1>6, <1>7 DEF RunPosted

-------------------------------------------------------------------------------
(* The signaling thread goes on with one session. *)

LEMMA PeerMoves ==
  ASSUME IInv, NEW s \in Sessions, UNCHANGED <<req, io, mixed>>,
         \A t \in Sessions \ {s} : Untouched(t), custody[s] # "absent" => custody'[s] # "absent",
         SessionStages(s)', s \notin mixed => OwnExchange(s)'
  PROVE  StagesKept' /\ ExchangesKept'
<1>1. ReqMoves
  BY ReqStays
<1>2. \A t \in Sessions : custody[t] # "absent" => custody'[t] # "absent"
  BY DEF Untouched
<1>3. HandStages' /\ \A t \in Sessions : HandKept(t)
  BY <1>1, <1>2, HandStays
<1>4. {s} \in SUBSET Sessions /\ mixed \subseteq mixed'
  OBVIOUS
<1>5. QED
  BY <1>1, <1>3, <1>4, SessionsMove

LEMMA HttpStays ==
  ASSUME IInv, UNCHANGED <<httpVars, mixed>>
  PROVE  HttpTypes' /\ PostedOwn' /\ OwnAnswer' /\ mixed' \subseteq Sessions
<1>1. HttpTypes /\ mixed \subseteq Sessions
  BY Types DEF IInv
<1>2. UNCHANGED <<req, timer, io, posted>>
  BY DEF httpVars
<1>3. ReqMoves
  BY <1>2, ReqStays
<1>4. QED
  BY <1>1, <1>2, <1>3, PostedStays, AnswersStay DEF HttpTypes

\* What the invariant says of a session, and of the first of its operations and answers.
LEMMA SessionFacts ==
  ASSUME IInv, NEW s \in Sessions
  PROVE  /\ LifeTypes /\ SdpTypes /\ EmitTypes /\ SessionStages(s)
         /\ chain[s] \in Seq(ChainRecords) /\ created[s] \in Seq(Requests)
         /\ Len(chain[s]) \in Nat /\ Len(created[s]) \in Nat
         /\ s \notin mixed => OwnExchange(s)
<1>1. LifeTypes /\ SdpTypes /\ EmitTypes
  BY Types DEF IInv
<1>2. SessionStages(s)
  BY Names DEF IInv, StagesKept, SessionStages
<1>3. chain[s] \in Seq(ChainRecords) /\ created[s] \in Seq(Requests)
  BY <1>1 DEF SdpTypes
<1>4. QED
  BY <1>1, <1>2, <1>3, LenProperties DEF IInv, ExchangesKept

LEMMA RunSetKeeps == ASSUME IInv, NEW s \in Sessions, RunSet(s) PROVE IInv'
<1> DEFINE c == chain[s]
           o == Head(c)
<1>1. /\ c # <<>> /\ chain' = [chain EXCEPT ![s] = Tail(c)]
      /\ \/ o.op = "setRemote" /\ SetRemote(s, o.req) /\ UNCHANGED local
         \/ o.op = "setLocal" /\ SetLocal(s, o.req) /\ UNCHANGED <<remote, deadline>>
      /\ UNCHANGED <<httpVars, custody, expired, connected, created, emitVars, mixed>>
  BY DEF RunSet, SetFirst
<1>2. /\ LifeTypes /\ SdpTypes /\ EmitTypes /\ SessionStages(s)
      /\ c \in Seq(ChainRecords) /\ Len(c) \in Nat /\ (s \notin mixed => OwnExchange(s))
  BY SessionFacts
<1>3. /\ o \in ChainRecords /\ o = c[1] /\ Len(Tail(c)) = Len(c) - 1 /\ Len(c) > 0
      /\ Tail(c) \in Seq(ChainRecords) /\ \A i \in 1..Len(Tail(c)) : Tail(c)[i] = c[i + 1]
  BY <1>1, <1>2, HeadTailProperties, EmptySeq
<1>4. o.req \in Requests /\ o.req \in Some /\ o.req # None
  BY <1>3, Names DEF ChainRecords
<1>5. /\ chain' \in [Sessions -> Seq(ChainRecords)] /\ chain'[s] = Tail(c)
      /\ \A t \in Sessions \ {s} : chain'[t] = chain[t]
  BY <1>1, <1>2, <1>3 DEF SdpTypes
<1> HIDE DEF o
<1>6. /\ remote' \in [Sessions -> Some] /\ open' \in [Sessions -> BOOLEAN] /\ local' \in [Sessions -> Some]
      /\ deadline' \in [Sessions -> BOOLEAN]
      /\ \A t \in Sessions \ {s} : remote'[t] = remote[t] /\ open'[t] = open[t]
  <2>1. CASE SetRemote(s, o.req) /\ UNCHANGED local
    BY <1>2, <1>4, <2>1 DEF SetRemote, SdpTypes, LifeTypes
  <2>2. CASE SetLocal(s, o.req) /\ UNCHANGED <<remote, deadline>>
    BY <1>2, <1>4, <2>2 DEF SetLocal, SdpTypes, LifeTypes
  <2>3. QED
    BY <1>1, <2>1, <2>2
<1>7. \/ o.op = "setRemote" /\ remote'[s] = o.req
      \/ o.op = "setRemote" /\ remote'[s] = remote[s] /\ open'[s] = open[s]
      \/ remote'[s] = remote[s] /\ open'[s] = FALSE
  BY <1>1, <1>2 DEF SetRemote, SetLocal, SdpTypes
<1>8. UNCHANGED <<custody, expired, connected, created, fn, desc, emit, req, io, mixed>>
  BY <1>1 DEF emitVars, httpVars
<1>9. custody[s] # "absent"
  BY <1>1, <1>2 DEF SessionStages
<1>10. SessionStages(s)'
  BY <1>2, <1>4, <1>7, <1>8, <1>9 DEF SessionStages
<1>11. ASSUME s \notin mixed PROVE OwnExchange(s)'
  <2>1. OwnExchange(s) /\ Answering(s)' = Answering(s) /\ InHand(s)' = InHand(s)
    BY <1>2, <1>8, <1>11 DEF Answering, InHand
  <2>2. ASSUME ~expired[s], NEW i \in 1..Len(Tail(c)), Tail(c)[i].op = "setRemote"
        PROVE  i < Len(Tail(c)) \/ Answering(s)
    <3>1. i + 1 \in 1..Len(c) /\ c[i + 1].op = "setRemote"
      BY <1>2, <1>3, <2>2
    <3>2. i + 1 < Len(c) \/ Answering(s)
      BY <2>1, <2>2, <3>1 DEF OwnExchange
    <3>3. QED
      BY <1>2, <1>3, <3>2
  <2>3. ASSUME ~expired[s], open'[s] PROVE Tail(c) # <<>> \/ Answering(s)
    <3>1. o.op = "setRemote"
      BY <1>7, <2>3
    <3>2. c[1].op = "setRemote" /\ 1 \in 1..Len(c)
      BY <1>2, <1>3, <3>1
    <3>3. 1 < Len(c) \/ Answering(s)
      BY <2>1, <2>3, <3>2 DEF OwnExchange
    <3>4. 1 < Len(c) => Len(Tail(c)) # 0
      <4> DEFINE n == Len(c)
                 m == Len(Tail(c))
      <4>1. n \in Nat /\ m = n - 1
        BY <1>2, <1>3
      <4> HIDE DEF n, m
      <4>2. 1 < n => m # 0
        BY <4>1
      <4>3. QED
        BY <4>2 DEF n, m
    <3>5. Len(Tail(c)) # 0 => Tail(c) # <<>>
      BY <1>3, EmptySeq
    <3>6. QED
      BY <3>3, <3>4, <3>5
  <2>4. ASSUME fn[s] # None
        PROVE  /\ \A i \in 1..Len(Tail(c)) : Tail(c)[i].req = fn[s]
               /\ open'[s] => remote'[s] = fn[s]
    <3>1. \A i \in 1..Len(c) : c[i].req = fn[s]
      BY <2>1, <2>4 DEF OwnExchange
    <3>2. \A i \in 1..Len(Tail(c)) : i + 1 \in 1..Len(c)
      BY <1>2, <1>3
    <3>3. o.req = fn[s]
      BY <1>2, <1>3, <3>1
    <3>4. open'[s] => remote'[s] = fn[s]
      BY <1>7, <2>1, <2>4, <3>3 DEF OwnExchange
    <3>5. QED
      BY <1>3, <3>1, <3>2, <3>4
  <2>5. QED
    BY <1>5, <1>8, <2>1, <2>2, <2>3, <2>4 DEF OwnExchange
<1>12. StagesKept' /\ ExchangesKept'
  <2>1. \A t \in Sessions \ {s} : Untouched(t)
    BY <1>5, <1>6, <1>8 DEF Untouched
  <2>2. QED
    BY <1>8, <1>9, <1>10, <1>11, <2>1, PeerMoves
<1>13. LifeTypes' /\ SdpTypes' /\ EmitTypes'
  BY <1>2, <1>5, <1>6, <1>8 DEF LifeTypes, SdpTypes, EmitTypes
<1>14. QED
  BY <1>1, <1>12, <1>13, HttpStays, Together

LEMMA RunCreateKeeps == ASSUME IInv, NEW s \in Sessions, RunCreate(s) PROVE IInv'
<1> DEFINE c == chain[s]
           d == created[s]
           a == remote[s]
<1>1. /\ c # <<>> /\ chain' = [chain EXCEPT ![s] = Tail(c)]
      /\ created' = [created EXCEPT ![s] = IF open[s] THEN Append(d, a) ELSE d]
      /\ UNCHANGED <<httpVars, lifeVars, remote, local, open, emitVars, mixed>>
  BY DEF RunCreate
<1>2. /\ LifeTypes /\ SdpTypes /\ EmitTypes /\ SessionStages(s)
      /\ c \in Seq(ChainRecords) /\ Len(c) \in Nat /\ d \in Seq(Requests) /\ Len(d) \in Nat
      /\ s \notin mixed => OwnExchange(s)
  BY SessionFacts
<1>3. /\ Len(Tail(c)) = Len(c) - 1 /\ Len(c) > 0
      /\ Tail(c) \in Seq(ChainRecords) /\ \A i \in 1..Len(Tail(c)) : Tail(c)[i] = c[i + 1]
  BY <1>1, <1>2, HeadTailProperties, EmptySeq
<1>4. open[s] => a \in Requests
  BY <1>2 DEF SessionStages, SdpTypes, Some
<1>5. /\ chain' \in [Sessions -> Seq(ChainRecords)] /\ chain'[s] = Tail(c)
      /\ \A t \in Sessions \ {s} : chain'[t] = chain[t]
  BY <1>1, <1>2, <1>3 DEF SdpTypes
<1>6. open[s] => /\ Append(d, a) \in Seq(Requests) /\ Len(Append(d, a)) = Len(d) + 1
                 /\ Append(d, a)[Len(d) + 1] = a /\ \A i \in 1..Len(d) : Append(d, a)[i] = d[i]
  BY <1>2, <1>4, AppendProperties
<1>7. /\ created' \in [Sessions -> Seq(Requests)] /\ created'[s] = IF open[s] THEN Append(d, a) ELSE d
      /\ \A t \in Sessions \ {s} : created'[t] = created[t]
  BY <1>1, <1>2, <1>6 DEF SdpTypes
<1>8. UNCHANGED <<custody, expired, connected, deadline, remote, local, open, fn, desc, emit, req, io, mixed>>
  BY <1>1 DEF emitVars, httpVars, lifeVars
<1>9. custody[s] # "absent"
  BY <1>1, <1>2 DEF SessionStages
<1>10. SessionStages(s)'
  BY <1>2, <1>8, <1>9 DEF SessionStages
<1>11. ASSUME s \notin mixed PROVE OwnExchange(s)'
  <2>1. OwnExchange(s) /\ Answering(s)' = Answering(s) /\ InHand(s)' = InHand(s)
    BY <1>2, <1>8, <1>11 DEF Answering, InHand
  <2>2. ASSUME ~expired[s], NEW i \in 1..Len(Tail(c)), Tail(c)[i].op = "setRemote"
        PROVE  i < Len(Tail(c)) \/ Answering(s)
    <3>1. i + 1 \in 1..Len(c) /\ c[i + 1].op = "setRemote"
      BY <1>2, <1>3, <2>2
    <3>2. i + 1 < Len(c) \/ Answering(s)
      BY <2>1, <2>2, <3>1 DEF OwnExchange
    <3>3. QED
      BY <1>2, <1>3, <3>2
  <2>3. open[s] => created'[s] # <<>>
    BY <1>2, <1>6, <1>7, EmptySeq
  <2>4. ASSUME fn[s] # None
        PROVE  /\ \A i \in 1..Len(Tail(c)) : Tail(c)[i].req = fn[s]
               /\ \A i \in 1..Len(created'[s]) : created'[s][i] = fn[s]
    <3>1. /\ \A i \in 1..Len(c) : c[i].req = fn[s]
          /\ \A i \in 1..Len(d) : d[i] = fn[s]
          /\ open[s] => a = fn[s]
      BY <2>1, <2>4 DEF OwnExchange
    <3>2. \A i \in 1..Len(Tail(c)) : i + 1 \in 1..Len(c)
      BY <1>2, <1>3
    <3>3. \A i \in 1..Len(created'[s]) : created'[s][i] = fn[s]
      <4>1. CASE open[s]
        BY <1>2, <1>6, <1>7, <3>1, <4>1
      <4>2. CASE ~open[s]
        BY <1>7, <3>1, <4>2
      <4>3. QED
        BY <4>1, <4>2
    <3>4. QED
      BY <1>3, <3>1, <3>2, <3>3
  <2>5. QED
    BY <1>5, <1>8, <2>1, <2>2, <2>3, <2>4 DEF OwnExchange
<1>12. StagesKept' /\ ExchangesKept'
  <2>1. \A t \in Sessions \ {s} : Untouched(t)
    BY <1>5, <1>7, <1>8 DEF Untouched
  <2>2. QED
    BY <1>8, <1>9, <1>10, <1>11, <2>1, PeerMoves
<1>13. LifeTypes' /\ SdpTypes' /\ EmitTypes'
  BY <1>2, <1>5, <1>7, <1>8 DEF LifeTypes, SdpTypes, EmitTypes
<1>14. QED
  BY <1>1, <1>12, <1>13, HttpStays, Together

LEMMA OnSuccessKeeps == ASSUME IInv, NEW s \in Sessions, OnSuccess(s) PROVE IInv'
<1> DEFINE c == chain[s]
           d == created[s]
           h == Head(d)
           x == Op("setLocal", h)
<1>1. /\ d # <<>> /\ created' = [created EXCEPT ![s] = Tail(d)]
      /\ chain' = [chain EXCEPT ![s] = Append(c, x)]
      /\ desc' = [desc EXCEPT ![s] = h]
      /\ emit' = [emit EXCEPT ![s] = @ \/ fn[s] # None]
      /\ UNCHANGED <<httpVars, lifeVars, remote, local, open, fn, mixed>>
  BY DEF OnSuccess
<1>2. /\ LifeTypes /\ SdpTypes /\ EmitTypes /\ SessionStages(s)
      /\ c \in Seq(ChainRecords) /\ Len(c) \in Nat /\ d \in Seq(Requests) /\ Len(d) \in Nat
      /\ s \notin mixed => OwnExchange(s)
  BY SessionFacts
<1>3. /\ h \in Requests /\ h = d[1] /\ Len(Tail(d)) = Len(d) - 1 /\ Len(d) > 0
      /\ Tail(d) \in Seq(Requests) /\ \A i \in 1..Len(Tail(d)) : Tail(d)[i] = d[i + 1]
  BY <1>1, <1>2, HeadTailProperties, EmptySeq
<1>4. h # None /\ h \in Some
  BY <1>3, Names
<1>5. x \in ChainRecords /\ x.op = "setLocal" /\ x.req = h
  BY <1>3 DEF Op, ChainRecords
<1> HIDE DEF x, h
<1>6. /\ Append(c, x) \in Seq(ChainRecords) /\ Len(Append(c, x)) = Len(c) + 1
      /\ Append(c, x)[Len(c) + 1] = x /\ \A i \in 1..Len(c) : Append(c, x)[i] = c[i]
  BY <1>2, <1>5, AppendProperties
<1>7. /\ chain' \in [Sessions -> Seq(ChainRecords)] /\ chain'[s] = Append(c, x)
      /\ created' \in [Sessions -> Seq(Requests)] /\ created'[s] = Tail(d)
      /\ \A t \in Sessions \ {s} : chain'[t] = chain[t] /\ created'[t] = created[t]
  BY <1>1, <1>2, <1>3, <1>6 DEF SdpTypes
<1>8. /\ desc' \in [Sessions -> Some] /\ desc'[s] = h /\ \A t \in Sessions \ {s} : desc'[t] = desc[t]
  BY <1>1, <1>2, <1>4 DEF EmitTypes
<1>9. emit' \in [Sessions -> BOOLEAN] /\ \A t \in Sessions \ {s} : emit'[t] = emit[t]
  BY <1>1, <1>2 DEF EmitTypes
<1>10. UNCHANGED <<custody, expired, connected, deadline, remote, local, open, fn, req, io, mixed>>
  BY <1>1 DEF httpVars, lifeVars
<1>11. custody[s] # "absent"
  BY <1>1, <1>2 DEF SessionStages
<1>12. SessionStages(s)'
  BY <1>2, <1>4, <1>8, <1>10, <1>11 DEF SessionStages
<1>13. ASSUME s \notin mixed PROVE OwnExchange(s)'
  <2>1. OwnExchange(s) /\ Answering(s)' = Answering(s) /\ InHand(s)' = InHand(s)
    BY <1>2, <1>10, <1>13 DEF Answering, InHand
  <2>2. ASSUME NEW i \in 1..Len(chain'[s]), chain'[s][i].op = "setRemote"
        PROVE  i < Len(chain'[s])
    BY <1>2, <1>5, <1>6, <1>7, <2>2
  <2>3. chain'[s] # <<>>
    <3>1. Len(c) \in Nat /\ Len(chain'[s]) = Len(c) + 1
      BY <1>2, <1>6, <1>7
    <3>2. Len(chain'[s]) # 0
      BY <3>1
    <3>3. QED
      BY <3>2, EmptySeq
  <2>4. ASSUME fn[s] # None
        PROVE  /\ \A i \in 1..Len(chain'[s]) : chain'[s][i].req = fn[s]
               /\ \A i \in 1..Len(created'[s]) : created'[s][i] = fn[s]
               /\ desc'[s] = fn[s]
    <3>1. /\ \A i \in 1..Len(c) : c[i].req = fn[s]
          /\ \A i \in 1..Len(d) : d[i] = fn[s]
      BY <2>1, <2>4 DEF OwnExchange
    <3>2. h = fn[s]
      BY <1>2, <1>3, <3>1
    <3>3. \A i \in 1..Len(chain'[s]) : chain'[s][i].req = fn[s]
      <4>1. /\ Len(c) \in Nat /\ Len(chain'[s]) = Len(c) + 1 /\ chain'[s][Len(c) + 1].req = fn[s]
            /\ \A i \in 1..Len(c) : chain'[s][i].req = fn[s]
        BY <1>2, <1>5, <1>6, <1>7, <3>1, <3>2
      <4>2. QED
        BY <4>1
    <3>4. \A i \in 1..Len(created'[s]) : i + 1 \in 1..Len(d) /\ created'[s][i] = d[i + 1]
      BY <1>2, <1>3, <1>7
    <3>5. QED
      BY <1>8, <3>1, <3>2, <3>3, <3>4
  <2>5. QED
    BY <1>10, <2>1, <2>2, <2>3, <2>4 DEF OwnExchange
<1>14. StagesKept' /\ ExchangesKept'
  <2>1. \A t \in Sessions \ {s} : Untouched(t)
    BY <1>7, <1>8, <1>9, <1>10 DEF Untouched
  <2>2. QED
    BY <1>10, <1>11, <1>12, <1>13, <2>1, PeerMoves
<1>15. LifeTypes' /\ SdpTypes' /\ EmitTypes'
  BY <1>2, <1>7, <1>8, <1>9, <1>10 DEF LifeTypes, SdpTypes, EmitTypes
<1>16. QED
  BY <1>1, <1>14, <1>15, HttpStays, Together

LEMMA SendLocalSdpKeeps == ASSUME IInv, NEW s \in Sessions, SendLocalSdp(s) PROVE IInv'
<1> DEFINE x == [req |-> fn[s], sdp |-> desc[s]]
<1>1. /\ emit[s] /\ emit' = [emit EXCEPT ![s] = FALSE]
      /\ posted' = IF fn[s] = None THEN posted ELSE Append(posted, x)
      /\ UNCHANGED <<req, timer, io, lifeVars, sdpVars, fn, desc, mixed>>
  BY DEF SendLocalSdp
<1>2. /\ LifeTypes /\ SdpTypes /\ EmitTypes /\ SessionStages(s) /\ (s \notin mixed => OwnExchange(s))
  BY SessionFacts
<1>3. HttpTypes /\ mixed \subseteq Sessions /\ posted \in Seq(PostedRecords) /\ Len(posted) \in Nat
  BY Types, LenProperties DEF IInv, HttpTypes
<1>4. /\ emit' \in [Sessions -> BOOLEAN] /\ emit'[s] = FALSE /\ \A t \in Sessions \ {s} : emit'[t] = emit[t]
  BY <1>1, <1>2 DEF EmitTypes
<1>5. UNCHANGED <<custody, expired, connected, deadline, chain, created, remote, local, open, fn, desc>>
  BY <1>1 DEF lifeVars, sdpVars
<1>6. SessionStages(s)'
  BY <1>1, <1>2, <1>4, <1>5 DEF SessionStages
<1>7. s \notin mixed => OwnExchange(s)'
  BY <1>1, <1>2, <1>4, <1>5 DEF OwnExchange, Answering, InHand
<1>8. StagesKept' /\ ExchangesKept'
  <2>1. \A t \in Sessions \ {s} : Untouched(t)
    BY <1>4, <1>5 DEF Untouched
  <2>2. QED
    BY <1>1, <1>5, <1>6, <1>7, <2>1, PeerMoves
<1>9. LifeTypes' /\ SdpTypes' /\ EmitTypes'
  BY <1>2, <1>4, <1>5 DEF LifeTypes, SdpTypes, EmitTypes
<1>10. ReqMoves
  BY <1>1, ReqStays
<1>11. OwnAnswer'
  BY <1>1, <1>10, AnswersStay
<1>12. CASE fn[s] = None
  <2>1. posted' = posted
    BY <1>1, <1>12
  <2>2. PostedOwn'
    BY <1>1, <1>10, <2>1, PostedStays
  <2>3. HttpTypes'
    BY <1>1, <1>3, <2>1 DEF HttpTypes
  <2>4. QED
    BY <1>1, <1>3, <1>8, <1>9, <1>11, <2>2, <2>3, Together
<1>13. CASE fn[s] # None
  <2>1. fn[s] \in Requests /\ desc[s] \in Requests
    BY <1>1, <1>2, <1>13 DEF EmitTypes, SessionStages, Some
  <2>2. x \in PostedRecords /\ x.req = fn[s] /\ x.sdp = desc[s]
    BY <2>1 DEF PostedRecords
  <2>3. req[fn[s]].stage # "new" /\ (req[fn[s]].on \notin mixed => desc[s] = fn[s])
    BY <1>1, <1>2, <1>13 DEF SessionStages, OwnExchange
  <2> HIDE DEF x
  <2>4. /\ posted' \in Seq(PostedRecords) /\ Len(posted') = Len(posted) + 1
        /\ posted'[Len(posted) + 1] = x /\ \A i \in 1..Len(posted) : posted'[i] = posted[i]
    BY <1>1, <1>3, <1>13, <2>2, AppendProperties
  <2>5. ASSUME NEW i \in 1..Len(posted')
        PROVE  req[posted'[i].req].stage # "new" /\ (req[posted'[i].req].on \notin mixed => posted'[i].sdp = posted'[i].req)
    <3>1. CASE i = Len(posted) + 1
      BY <2>2, <2>3, <2>4, <3>1
    <3>2. CASE i # Len(posted) + 1
      <4>1. i \in 1..Len(posted) /\ posted'[i] = posted[i]
        BY <1>3, <2>4, <3>2
      <4>2. QED
        BY <4>1 DEF IInv, PostedOwn
    <3>3. QED
      BY <3>1, <3>2
  <2>6. PostedOwn'
    BY <1>1, <2>5 DEF PostedOwn
  <2>7. HttpTypes'
    BY <1>1, <1>3, <2>4 DEF HttpTypes
  <2>8. QED
    BY <1>1, <1>3, <1>8, <1>9, <1>11, <2>6, <2>7, Together
<1>14. QED
  BY <1>12, <1>13

\* The state of the connection is not the exchange's.
LEMMA IceKeeps ==
  ASSUME IInv, NEW s \in Sessions, OnConnected(s) \/ OnFailed(s)
  PROVE  IInv'
<1>1. UNCHANGED <<httpVars, custody, expired, sdpVars, emitVars, mixed>>
  BY DEF OnConnected, OnFailed
<1>2. LifeTypes /\ SdpTypes /\ EmitTypes
  BY SessionFacts
<1>3. connected' \in [Sessions -> BOOLEAN]
  BY <1>2 DEF OnConnected, OnFailed, LifeTypes
<1>4. deadline' \in [Sessions -> BOOLEAN]
  BY <1>2 DEF OnConnected, OnFailed, LifeTypes
<1>5. LifeTypes' /\ SdpTypes' /\ EmitTypes'
  BY <1>1, <1>2, <1>3, <1>4 DEF LifeTypes, SdpTypes, EmitTypes, sdpVars, emitVars
<1>6. /\ \A t \in Sessions : Untouched(t)
      /\ UNCHANGED <<req, io, mixed, custody>>
  BY <1>1 DEF Untouched, httpVars, sdpVars, emitVars
<1>7. StagesKept' /\ ExchangesKept'
  <2>1. ReqMoves
    BY <1>6, ReqStays
  <2>2. HandStages' /\ \A t \in Sessions : HandKept(t)
    BY <1>6, <2>1, HandStays
  <2>3. {} \in SUBSET Sessions
    OBVIOUS
  <2>4. QED
    BY <1>6, <2>1, <2>2, <2>3, SessionsMove
<1>8. QED
  BY <1>1, <1>5, <1>7, HttpStays, Together

LEMMA DeadlineKeeps == ASSUME IInv, NEW s \in Sessions, DeadlineTask(s) PROVE IInv'
<1>1. /\ deadline' = [deadline EXCEPT ![s] = FALSE]
      /\ expired' = [expired EXCEPT ![s] = @ \/ ~connected[s]]
      /\ chain' = [chain EXCEPT ![s] = IF connected[s] THEN @ ELSE <<>>]
      /\ UNCHANGED <<httpVars, custody, connected, created, remote, local, open, emitVars, mixed>>
  BY DEF DeadlineTask
<1>2. /\ LifeTypes /\ SdpTypes /\ EmitTypes /\ SessionStages(s) /\ chain[s] \in Seq(ChainRecords)
      /\ s \notin mixed => OwnExchange(s)
  BY SessionFacts
<1>3. deadline' \in [Sessions -> BOOLEAN]
  BY <1>1, <1>2 DEF LifeTypes
<1>4. /\ expired' \in [Sessions -> BOOLEAN] /\ \A t \in Sessions \ {s} : expired'[t] = expired[t]
      /\ IF connected[s] THEN expired'[s] = expired[s] ELSE expired'[s] = TRUE
  BY <1>1, <1>2 DEF LifeTypes
<1>5. <<>> \in Seq(ChainRecords)
  OBVIOUS
<1>6. /\ chain' \in [Sessions -> Seq(ChainRecords)] /\ \A t \in Sessions \ {s} : chain'[t] = chain[t]
      /\ chain'[s] = IF connected[s] THEN chain[s] ELSE <<>>
  BY <1>1, <1>2, <1>5 DEF SdpTypes
<1>7. UNCHANGED <<custody, connected, created, remote, local, open, fn, desc, emit, req, io, mixed>>
  BY <1>1 DEF httpVars, emitVars
<1>8. SessionStages(s)'
  BY <1>2, <1>6, <1>7 DEF SessionStages
<1>9. ASSUME s \notin mixed PROVE OwnExchange(s)'
  <2>1. OwnExchange(s)
    BY <1>2, <1>9
  <2>2. CASE connected[s]
    <3>1. chain'[s] = chain[s] /\ expired'[s] = expired[s]
      BY <1>4, <1>6, <2>2
    <3>2. QED
      BY <1>7, <2>1, <3>1 DEF OwnExchange, Answering, InHand
  <2>3. CASE ~connected[s]
    <3>1. chain'[s] = <<>> /\ expired'[s]
      BY <1>4, <1>6, <2>3
    <3>2. QED
      BY <1>7, <2>1, <3>1 DEF OwnExchange, Answering, InHand
  <2>4. QED
    BY <2>2, <2>3
<1>10. StagesKept' /\ ExchangesKept'
  <2>1. \A t \in Sessions \ {s} : Untouched(t)
    BY <1>4, <1>6, <1>7 DEF Untouched
  <2>2. QED
    BY <1>7, <1>8, <1>9, <2>1, PeerMoves
<1>11. LifeTypes' /\ SdpTypes' /\ EmitTypes'
  BY <1>2, <1>3, <1>4, <1>6, <1>7 DEF LifeTypes, SdpTypes, EmitTypes
<1>12. QED
  BY <1>1, <1>10, <1>11, HttpStays, Together

LEMMA SweepKeeps == ASSUME IInv, NEW s \in Sessions, Sweep(s) PROVE IInv'
<1>1. custody[s] = "held" /\ Terminate(s) /\ UNCHANGED <<httpVars, mixed>>
  BY DEF Sweep
<1>2. LifeTypes /\ SessionStages(s)
  BY SessionFacts
<1>3. req' = req /\ io' = io /\ ReqMoves /\ req[s].stage # "new"
  BY <1>1, <1>2, ReqStays DEF httpVars, SessionStages
<1>4. /\ LifeTypes' /\ SdpTypes' /\ EmitTypes'
      /\ \A t \in Sessions \ {s} : Untouched(t)
      /\ SessionStages(s)' /\ OwnExchange(s)'
  BY <1>1, <1>3, TerminateSession
<1>5. custody'[s] = "released"
  BY <1>1, <1>2 DEF Terminate, LifeTypes
<1>6. StagesKept' /\ ExchangesKept'
  BY <1>1, <1>3, <1>4, <1>5, PeerMoves
<1>7. QED
  BY <1>1, <1>4, <1>6, HttpStays, Together

-------------------------------------------------------------------------------

LEMMA Preserved == IInv /\ [Next]_vars => IInv'
<1> SUFFICES ASSUME IInv, [Next]_vars PROVE IInv'
  OBVIOUS
<1>1. CASE UNCHANGED vars
  <2>1. UNCHANGED <<httpVars, lifeVars, sdpVars, emitVars, mixed>>
    BY <1>1 DEF vars
  <2>2. ReqMoves /\ io' = io
    BY <2>1, ReqStays DEF httpVars
  <2>3. LifeTypes' /\ SdpTypes' /\ EmitTypes' /\ StagesKept' /\ ExchangesKept'
    BY <2>1, <2>2, SessionsStay
  <2>4. QED
    BY <2>1, <2>3, HttpStays, Together
<1>2. CASE HandleRequest
  BY <1>2, RequestKeeps
<1>3. CASE IoStep
  BY <1>3, SetRemoteSdpKeeps, CreateAnswerKeeps, RunPostedKeeps, TimerHandlerKeeps DEF IoStep
<1>4. CASE ClockStep
  BY <1>4, TimerExpiresKeeps DEF ClockStep
<1>5. CASE SignalingStep
  BY <1>5, RunSetKeeps, RunCreateKeeps, OnSuccessKeeps, SendLocalSdpKeeps, DeadlineKeeps DEF SignalingStep
<1>6. CASE CleanerStep \/ IceStep
  BY <1>6, SweepKeeps, IceKeeps DEF CleanerStep, IceStep
<1>7. QED
  BY <1>1, <1>2, <1>3, <1>4, <1>5, <1>6 DEF Next

LEMMA Inductive == Spec => []IInv
<1>1. QED
  BY Initial, Preserved, PTL DEF Spec

(* A response carries the description made for its own request (AwaitLocalSdp,           *)
(* EmitLocalSdp), unless exchanges of its session overlapped; and types fit.             *)
THEOREM AnswersAreOwn == Spec => []WhepInv
<1>1. IInv => WhepInv
  BY DEF IInv, WhepInv
<1>2. QED
  BY <1>1, Inductive, PTL

-------------------------------------------------------------------------------
(* Who may take a session away. *)

Deleted(s) == \E r \in Requests : req[r].stage = "new" /\ req'[r].kind = "delete" /\ req'[r].on = s

Survives ==
  \A s \in Sessions :
    custody[s] = "held" /\ custody'[s] = "released" /\ req[s].status = 201 => expired[s] \/ Deleted(s)

LEMMA Kept == ASSUME custody' = custody PROVE Survives
  BY DEF Survives

LEMMA DeleteSurvives ==
  ASSUME IInv, NEW r \in Requests, NEW s \in Sessions, req[r].stage = "new", HandleDeleteRequest(r, s)
  PROVE  Survives
<1>1. Remove(s) /\ Send(r, Asking(r, "delete", s), 200, None)
  BY DEF HandleDeleteRequest
<1>2. LifeTypes /\ None \in Some /\ 200 \in Statuses /\ "delete" \in Kinds
  BY Types, Names DEF IInv, Statuses, Kinds
<1>3. Asking(r, "delete", s) \in ReqRecords /\ Asking(r, "delete", s).on = s /\ Asking(r, "delete", s).kind = "delete"
  BY <1>2, Asked
<1>4. req'[r].kind = "delete" /\ req'[r].on = s
  BY <1>1, <1>2, <1>3, Sent
<1>5. \A t \in Sessions \ {s} : custody'[t] = custody[t]
  BY <1>1, <1>2 DEF Remove, Terminate, LifeTypes, lifeVars
<1>6. QED
  BY <1>4, <1>5 DEF Survives, Deleted

\* A handler that finds its request waiting has not seen it answered.
LEMMA TimerSurvives == ASSUME IInv, NEW r \in Requests, TimerHandler(r) PROVE Survives
<1>1. CASE req[r].stage = "waiting" /\ req[r].kind = "post" /\ Remove(r)
  <2>1. r \in Sessions /\ req[r].status = 0
    BY <1>1 DEF IInv, StagesKept
  <2>2. \A t \in Sessions \ {r} : custody'[t] = custody[t]
    BY <1>1, <2>1, Types DEF IInv, Remove, Terminate, LifeTypes, lifeVars
  <2>3. QED
    BY <2>1, <2>2 DEF Survives
<1>2. CASE UNCHANGED lifeVars
  BY <1>2, Kept DEF lifeVars
<1>3. QED
  BY <1>1, <1>2 DEF TimerHandler, OnTimeout

LEMMA SweepSurvives == ASSUME IInv, NEW s \in Sessions, Sweep(s) PROVE Survives
<1>1. expired[s] /\ \A t \in Sessions \ {s} : custody'[t] = custody[t]
  BY Types DEF IInv, LifeTypes, Sweep, Terminate
<1>2. QED
  BY <1>1 DEF Survives

LEMMA StepSurvives == IInv /\ [Next]_vars => Survives
<1> SUFFICES ASSUME IInv, [Next]_vars PROVE Survives
  OBVIOUS
<1>1. CASE UNCHANGED vars
  BY <1>1, Kept DEF vars, lifeVars
<1>2. CASE HandleRequest
  <2>1. ASSUME NEW r \in Sessions, HandlePostRequest(r) PROVE Survives
    <3>1. LifeTypes
      BY Types DEF IInv
    <3>2. \A s \in Sessions : custody'[s] = custody[s] \/ custody'[s] = "held"
      BY <2>1, <3>1 DEF HandlePostRequest, LifeTypes
    <3>3. QED
      BY <3>2 DEF Survives
  <2>2. ASSUME NEW r \in Requests, NEW s \in Sessions, HandleSessionRequest(r, s) PROVE Survives
    <3>1. CASE HandleDeleteRequest(r, s)
      BY <2>2, <3>1, DeleteSurvives DEF HandleSessionRequest
    <3>2. CASE UNCHANGED lifeVars
      BY <3>2, Kept DEF lifeVars
    <3>3. QED
      BY <2>2, <3>1, <3>2 DEF HandleSessionRequest, NotFound, RestartRequest, TrickleRequest
  <2>3. QED
    BY <1>2, <2>1, <2>2 DEF HandleRequest
<1>3. CASE IoStep
  <2>1. CASE UNCHANGED lifeVars
    BY <2>1, Kept DEF lifeVars
  <2>2. QED
    BY <1>3, <2>1, TimerSurvives DEF IoStep, SetRemoteSdp, CreateAnswer, RunPosted
<1>4. CASE ClockStep
  BY <1>4, Kept DEF ClockStep, TimerExpires, lifeVars
<1>5. CASE SignalingStep
  BY <1>5, Kept DEF SignalingStep, RunSet, RunCreate, OnSuccess, SendLocalSdp, DeadlineTask, lifeVars
<1>6. CASE CleanerStep
  BY <1>6, SweepSurvives DEF CleanerStep
<1>7. CASE IceStep
  BY <1>7, Kept DEF IceStep, OnConnected, OnFailed, lifeVars
<1>8. QED
  BY <1>1, <1>2, <1>3, <1>4, <1>5, <1>6, <1>7 DEF Next

(* Only its deadline or a DELETE takes an answered session away: OnTimeout, although its *)
(* handler may be queued when the answer is sent, does not.                              *)
THEOREM CreatedSessionsSurvive == Spec => CreatedSurvives
<1>1. IInv /\ [Next]_vars =>
        [\A s \in Sessions :
           custody[s] = "held" /\ custody'[s] = "released" /\ req[s].status = 201 =>
             \/ expired[s]
             \/ \E r \in Requests : req[r].stage = "new" /\ req'[r].kind = "delete" /\ req'[r].on = s]_vars
  BY StepSurvives DEF Survives, Deleted
<1>2. QED
  BY <1>1, Inductive, PTL DEF Spec, CreatedSurvives
================================================================================
