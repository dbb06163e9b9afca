--------------------------- MODULE MqttService_proofs ---------------------------
(* Proofs about PeerRegistry, for any set of peers and of service threads, and     *)
(* about MqttService, which extends it, for any number of clients.                 *)
EXTENDS MqttService, TLAPS

-------------------------------------------------------------------------------
(* PeerRegistry: nothing below is about clients until MqttService's part.          *)

LEMMA ThreadFacts == "cleaner" \in Threads /\ "main" \in Threads /\ Users \subseteq Threads
                     /\ NoPeer \notin Peers /\ "cleaner" \notin Users /\ "main" \notin Users
BY NoPeerAssumption, UsersAssumption DEF Threads

LEMMA InitInv == Init => PeerInv
<1> SUFFICES ASSUME Init PROVE PeerInv
  OBVIOUS
<1>1. TypeOK
  <2>1. link \in [Peers -> LinkStates] /\ connected \in [Peers -> BOOLEAN] /\ expired \in [Peers -> BOOLEAN]
        /\ armed \in [Peers -> BOOLEAN]
    BY DEF Init, LinkStates
  <2>2. offers \in [Peers -> 0..MaxOffers]
    BY OffersAssumption DEF Init
  <2>3. hand \in [Threads -> SUBSET Peers] /\ closing \in [Threads -> Peers \cup {NoPeer}]
        /\ holds \in [Users -> Peers \cup {NoPeer}]
    BY DEF Init
  <2>4. QED
    BY <2>1, <2>2, <2>3 DEF Init, TypeOK
<1>2. OneOwner
  BY DEF Init, OneOwner
<1>3. Stages
  BY ThreadFacts DEF Init, Stages
<1>4. ExpiryNoticed /\ DeadlineRuns /\ NoOrphan /\ ReleasedIsDown
  BY DEF Init, ExpiryNoticed, Expiry, DeadlineRuns, NoOrphan, ReleasedIsDown
<1>5. FreshPeer
  BY DEF Init, FreshPeer
<1>6. QED
  BY <1>1, <1>2, <1>3, <1>4, <1>5 DEF PeerInv

LEMMA ReportClosedType ==
  ASSUME TypeOK, NEW p \in Peers, ReportClosed(p)
  PROVE  link' \in [Peers -> LinkStates] /\ connected' \in [Peers -> BOOLEAN]
         /\ expired' \in [Peers -> BOOLEAN] /\ posted' \in SUBSET Peers
BY DEF TypeOK, LinkStates, ReportClosed, MarkExpired

LEMMA SetRemoteOfferType ==
  ASSUME TypeOK, NEW p \in Peers, SetRemoteOffer(p)
  PROVE  armed' \in [Peers -> BOOLEAN] /\ offers' \in [Peers -> 0..MaxOffers]
<1>1. CASE Open(p)
  <2>1. offers' = [offers EXCEPT ![p] = offers[p] + 1] /\ armed' = [armed EXCEPT ![p] = TRUE]
    BY <1>1 DEF SetRemoteOffer, ArmConnectDeadline
  <2>2. offers[p] + 1 \in 0..MaxOffers
    BY OffersAssumption DEF TypeOK, SetRemoteOffer
  <2>3. armed' \in [Peers -> BOOLEAN]
    BY <2>1 DEF TypeOK
  <2>4. QED
    BY <2>1, <2>2, <2>3 DEF TypeOK
<1>2. CASE ~Open(p)
  BY <1>2 DEF TypeOK, SetRemoteOffer
<1>3. QED
  BY <1>1, <1>2

LEMMA TypeStep == ASSUME TypeOK, [Next]_vars PROVE TypeOK'
<1> USE OffersAssumption, ThreadFacts DEF TypeOK, LinkStates
<1>1. CASE PeerEvent
  <2>1. ASSUME NEW p \in Peers, OnConnected(p) PROVE TypeOK'
    BY <2>1 DEF OnConnected, peerVars, taskVars, cleanerVars, custodyVars
  <2>2. ASSUME NEW p \in Peers, OnFailed(p) PROVE TypeOK'
    BY <2>2 DEF OnFailed, ArmConnectDeadline, peerVars, taskVars, cleanerVars, custodyVars
  <2>3. ASSUME NEW p \in Peers, OnRemoteClosed(p) PROVE TypeOK'
    BY <2>3 DEF OnRemoteClosed, ReportClosed, MarkExpired, peerVars, taskVars, cleanerVars, custodyVars
  <2>4. ASSUME NEW p \in Peers, DeadlineTask(p) PROVE TypeOK'
    <3>1. link' \in [Peers -> LinkStates] /\ connected' \in [Peers -> BOOLEAN]
          /\ expired' \in [Peers -> BOOLEAN] /\ posted' \in SUBSET Peers
      <4>1. CASE ReportClosed(p)
        BY <4>1, ReportClosedType
      <4>2. CASE UNCHANGED <<link, connected, expired, posted>>
        BY <4>2
      <4>3. QED
        BY <2>4, <4>1, <4>2 DEF DeadlineTask
    <3>2. QED
      BY <2>4, <3>1 DEF DeadlineTask, peerVars, taskVars, cleanerVars, custodyVars
  <2>5. QED
    BY <1>1, <2>1, <2>2, <2>3, <2>4 DEF PeerEvent
<1>2. CASE ExpiryTask \/ Wake
  <2>1. ASSUME ExpiryTask PROVE TypeOK'
    BY <2>1 DEF ExpiryTask, peerVars, taskVars, cleanerVars, custodyVars
  <2>2. ASSUME Wake PROVE TypeOK'
    BY <2>2 DEF Wake, peerVars, taskVars, cleanerVars, custodyVars
  <2>3. QED
    BY <1>2, <2>1, <2>2
<1>3. CASE Terminate
  <2>1. ASSUME NEW t \in Threads, NEW p \in Peers, TerminateFlags(t, p) PROVE TypeOK'
    BY <2>1 DEF TerminateFlags, peerVars, taskVars, cleanerVars, custodyVars
  <2>2. ASSUME NEW t \in Threads, TerminateClose(t) PROVE TypeOK'
    BY <2>2 DEF TerminateClose, peerVars, taskVars, cleanerVars, custodyVars
  <2>3. QED
    BY <1>3, <2>1, <2>2 DEF Terminate
<1>4. CASE CleanerStep \/ \E p \in Peers : ReportExpired(p)
  <2>1. ASSUME CleanerAwake PROVE TypeOK'
    BY <2>1 DEF CleanerAwake, peerVars, taskVars, cleanerVars, custodyVars
  <2>2. ASSUME CleanerStopped PROVE TypeOK'
    BY <2>2 DEF CleanerStopped, NextRound, peerVars, taskVars, cleanerVars, custodyVars
  <2>3. ASSUME CleanerTake PROVE TypeOK'
    BY <2>3 DEF CleanerTake, peerVars, taskVars, cleanerVars, custodyVars
  <2>4. ASSUME Sweep PROVE TypeOK'
    BY <2>4 DEF Sweep, Expired, peerVars, taskVars, cleanerVars, custodyVars
  <2>5. ASSUME SweepDone PROVE TypeOK'
    BY <2>5 DEF SweepDone, NextRound, peerVars, taskVars, cleanerVars, custodyVars
  <2>6. ASSUME NEW p \in Peers, ReportExpired(p) PROVE TypeOK'
    BY <2>6 DEF ReportExpired, peerVars, taskVars, cleanerVars, custodyVars
  <2>7. QED
    BY <1>4, <2>1, <2>2, <2>3, <2>4, <2>5, <2>6 DEF CleanerStep
<1>5. CASE MainStep
  <2>1. ASSUME Start PROVE TypeOK'
    BY <2>1 DEF Start, peerVars, taskVars, cleanerVars, custodyVars
  <2>2. ASSUME StopFlag PROVE TypeOK'
    BY <2>2 DEF StopFlag, peerVars, taskVars, cleanerVars, custodyVars
  <2>3. ASSUME StopAbort PROVE TypeOK'
    BY <2>3 DEF StopAbort, peerVars, taskVars, cleanerVars, custodyVars
  <2>4. ASSUME StopSwap PROVE TypeOK'
    BY <2>4 DEF StopSwap, peerVars, taskVars, cleanerVars, custodyVars
  <2>5. ASSUME StopDone PROVE TypeOK'
    BY <2>5 DEF StopDone, peerVars, taskVars, cleanerVars, custodyVars
  <2>6. QED
    BY <1>5, <2>1, <2>2, <2>3, <2>4, <2>5 DEF MainStep
<1>6. CASE UserStep
  <2>1. ASSUME NEW u \in Users, ApplyOffer(u) PROVE TypeOK'
    <3>1. holds[u] \in Peers
      BY <2>1 DEF ApplyOffer
    <3>2. armed' \in [Peers -> BOOLEAN] /\ offers' \in [Peers -> 0..MaxOffers]
      BY <2>1, <3>1, SetRemoteOfferType DEF ApplyOffer
    <3>3. QED
      BY <2>1, <3>2 DEF ApplyOffer, SetRemoteOffer, peerVars, taskVars, cleanerVars, custodyVars
  <2>2. ASSUME NEW u \in Users, Drop(u) PROVE TypeOK'
    BY <2>2 DEF Drop, peerVars, taskVars, cleanerVars, custodyVars
  <2>3. ASSUME NEW u \in Users, NEW p \in Peers, Add(u, p) PROVE TypeOK'
    BY <2>3 DEF Add, peerVars, taskVars, cleanerVars, custodyVars
  <2>4. ASSUME NEW u \in Users, NEW p \in Peers, Get(u, p) PROVE TypeOK'
    BY <2>4 DEF Get, peerVars, taskVars, cleanerVars, custodyVars
  <2>5. ASSUME NEW u \in Users, NEW p \in Peers, Remove(u, p) PROVE TypeOK'
    BY <2>5 DEF Remove, peerVars, taskVars, cleanerVars, custodyVars
  <2>6. QED
    BY <1>6, <2>1, <2>2, <2>3, <2>4, <2>5 DEF UserStep
<1>7. CASE Finished \/ UNCHANGED vars
  BY <1>7 DEF Finished, vars, peerVars, taskVars, cleanerVars, custodyVars
<1>8. QED
  BY <1>1, <1>2, <1>3, <1>4, <1>5, <1>6, <1>7 DEF Next

LEMMA OwnerStep == ASSUME TypeOK, OneOwner, Stages, [Next]_vars PROVE OneOwner'
<1> USE ThreadFacts DEF TypeOK, LinkStates, OneOwner, Stages
<1>1. CASE PeerEvent
  <2>1. ASSUME NEW p \in Peers, OnConnected(p) PROVE OneOwner'
    BY <2>1 DEF OnConnected, peerVars, taskVars, cleanerVars, custodyVars
  <2>2. ASSUME NEW p \in Peers, OnFailed(p) PROVE OneOwner'
    BY <2>2 DEF OnFailed, ArmConnectDeadline, peerVars, taskVars, cleanerVars, custodyVars
  <2>3. ASSUME NEW p \in Peers, OnRemoteClosed(p) PROVE OneOwner'
    BY <2>3 DEF OnRemoteClosed, ReportClosed, MarkExpired, peerVars, taskVars, cleanerVars, custodyVars
  <2>4. ASSUME NEW p \in Peers, DeadlineTask(p) PROVE OneOwner'
    BY <2>4 DEF DeadlineTask, ReportClosed, MarkExpired, peerVars, taskVars, cleanerVars, custodyVars
  <2>5. QED
    BY <1>1, <2>1, <2>2, <2>3, <2>4 DEF PeerEvent
<1>2. CASE ExpiryTask \/ Wake
  <2>1. ASSUME ExpiryTask PROVE OneOwner'
    BY <2>1 DEF ExpiryTask, peerVars, taskVars, cleanerVars, custodyVars
  <2>2. ASSUME Wake PROVE OneOwner'
    BY <2>2 DEF Wake, peerVars, taskVars, cleanerVars, custodyVars
  <2>3. QED
    BY <1>2, <2>1, <2>2
<1>3. CASE Terminate
  <2>1. ASSUME NEW t \in Threads, NEW p \in Peers, TerminateFlags(t, p) PROVE OneOwner'
    BY <2>1 DEF TerminateFlags, peerVars, taskVars, cleanerVars, custodyVars
  <2>2. ASSUME NEW t \in Threads, TerminateClose(t) PROVE OneOwner'
    BY <2>2 DEF TerminateClose, peerVars, taskVars, cleanerVars, custodyVars
  <2>3. QED
    BY <1>3, <2>1, <2>2 DEF Terminate
<1>4. CASE CleanerStep \/ \E p \in Peers : ReportExpired(p)
  <2>1. ASSUME CleanerAwake PROVE OneOwner'
    BY <2>1 DEF CleanerAwake, peerVars, taskVars, cleanerVars, custodyVars
  <2>2. ASSUME CleanerStopped PROVE OneOwner'
    BY <2>2 DEF CleanerStopped, NextRound, peerVars, taskVars, cleanerVars, custodyVars
  <2>3. ASSUME CleanerTake PROVE OneOwner'
    BY <2>3 DEF CleanerTake, peerVars, taskVars, cleanerVars, custodyVars
  <2>4. ASSUME Sweep PROVE OneOwner'
    BY <2>4 DEF Sweep, Expired, peerVars, taskVars, cleanerVars, custodyVars
  <2>5. ASSUME SweepDone PROVE OneOwner'
    BY <2>5 DEF SweepDone, NextRound, peerVars, taskVars, cleanerVars, custodyVars
  <2>6. ASSUME NEW p \in Peers, ReportExpired(p) PROVE OneOwner'
    BY <2>6 DEF ReportExpired, peerVars, taskVars, cleanerVars, custodyVars
  <2>7. QED
    BY <1>4, <2>1, <2>2, <2>3, <2>4, <2>5, <2>6 DEF CleanerStep
<1>5. CASE MainStep
  <2>1. ASSUME Start PROVE OneOwner'
    BY <2>1 DEF Start, peerVars, taskVars, cleanerVars, custodyVars
  <2>2. ASSUME StopFlag PROVE OneOwner'
    BY <2>2 DEF StopFlag, peerVars, taskVars, cleanerVars, custodyVars
  <2>3. ASSUME StopAbort PROVE OneOwner'
    BY <2>3 DEF StopAbort, peerVars, taskVars, cleanerVars, custodyVars
  <2>4. ASSUME StopSwap PROVE OneOwner'
    BY <2>4 DEF StopSwap, peerVars, taskVars, cleanerVars, custodyVars
  <2>5. ASSUME StopDone PROVE OneOwner'
    BY <2>5 DEF StopDone, peerVars, taskVars, cleanerVars, custodyVars
  <2>6. QED
    BY <1>5, <2>1, <2>2, <2>3, <2>4, <2>5 DEF MainStep
<1>6. CASE UserStep
  <2>1. ASSUME NEW u \in Users, ApplyOffer(u) PROVE OneOwner'
    BY <2>1 DEF ApplyOffer, SetRemoteOffer, ArmConnectDeadline, peerVars, taskVars, cleanerVars, custodyVars
  <2>2. ASSUME NEW u \in Users, Drop(u) PROVE OneOwner'
    BY <2>2 DEF Drop, peerVars, taskVars, cleanerVars, custodyVars
  <2>3. ASSUME NEW u \in Users, NEW p \in Peers, Add(u, p) PROVE OneOwner'
    BY <2>3 DEF Add, peerVars, taskVars, cleanerVars, custodyVars
  <2>4. ASSUME NEW u \in Users, NEW p \in Peers, Get(u, p) PROVE OneOwner'
    BY <2>4 DEF Get, peerVars, taskVars, cleanerVars, custodyVars
  <2>5. ASSUME NEW u \in Users, NEW p \in Peers, Remove(u, p) PROVE OneOwner'
    <3>1. hand[u] = {} /\ closing[u] = NoPeer
      BY <2>5 DEF Remove, Free
    <3>2. hand' = [hand EXCEPT ![u] = {p}] /\ peers' = peers \ {p} /\ p \in peers
          /\ UNCHANGED <<link, expired, closing>>
      BY <2>5 DEF Remove, peerVars
    <3>3. \A t \in Threads : hand'[t] \cap peers' = {}
      BY <3>2
    <3>4. \A t1, t2 \in Threads : t1 # t2 => hand'[t1] \cap hand'[t2] = {}
      BY <3>2
    <3>5. \A t \in Threads : closing'[t] # NoPeer => closing'[t] \in hand'[t] /\ expired'[closing'[t]]
      BY <3>1, <3>2
    <3>6. \A q \in Peers : q \in peers' \/ (\E t \in Threads : q \in hand'[t]) => link'[q] \notin {"none", "released"}
      BY <3>2
    <3>7. QED
      BY <3>3, <3>4, <3>5, <3>6
  <2>6. QED
    BY <1>6, <2>1, <2>2, <2>3, <2>4, <2>5 DEF UserStep
<1>7. CASE Finished \/ UNCHANGED vars
  BY <1>7 DEF Finished, vars, peerVars, taskVars, cleanerVars, custodyVars
<1>8. QED
  BY <1>1, <1>2, <1>3, <1>4, <1>5, <1>6, <1>7 DEF Next

LEMMA StagesStep == ASSUME TypeOK, Stages, OneOwner, [Next]_vars PROVE Stages'
<1> USE ThreadFacts DEF TypeOK, OneOwner, Stages
<1>1. CASE PeerEvent
  <2>1. ASSUME NEW p \in Peers, OnConnected(p) PROVE Stages'
    BY <2>1 DEF OnConnected, peerVars, taskVars, cleanerVars, custodyVars
  <2>2. ASSUME NEW p \in Peers, OnFailed(p) PROVE Stages'
    BY <2>2 DEF OnFailed, ArmConnectDeadline, peerVars, taskVars, cleanerVars, custodyVars
  <2>3. ASSUME NEW p \in Peers, OnRemoteClosed(p) PROVE Stages'
    BY <2>3 DEF OnRemoteClosed, ReportClosed, MarkExpired, peerVars, taskVars, cleanerVars, custodyVars
  <2>4. ASSUME NEW p \in Peers, DeadlineTask(p) PROVE Stages'
    BY <2>4 DEF DeadlineTask, ReportClosed, MarkExpired, peerVars, taskVars, cleanerVars, custodyVars
  <2>5. QED
    BY <1>1, <2>1, <2>2, <2>3, <2>4 DEF PeerEvent
<1>2. CASE ExpiryTask \/ Wake
  <2>1. ASSUME ExpiryTask PROVE Stages'
    BY <2>1 DEF ExpiryTask, peerVars, taskVars, cleanerVars, custodyVars
  <2>2. ASSUME Wake PROVE Stages'
    BY <2>2 DEF Wake, peerVars, taskVars, cleanerVars, custodyVars
  <2>3. QED
    BY <1>2, <2>1, <2>2
<1>3. CASE Terminate
  <2>1. ASSUME NEW t \in Threads, NEW p \in Peers, TerminateFlags(t, p) PROVE Stages'
    BY <2>1 DEF TerminateFlags, peerVars, taskVars, cleanerVars, custodyVars
  <2>2. ASSUME NEW t \in Threads, TerminateClose(t) PROVE Stages'
    BY <2>2 DEF TerminateClose, peerVars, taskVars, cleanerVars, custodyVars
  <2>3. QED
    BY <1>3, <2>1, <2>2 DEF Terminate
<1>4. CASE CleanerStep \/ \E p \in Peers : ReportExpired(p)
  <2>1. ASSUME CleanerAwake PROVE Stages'
    BY <2>1 DEF CleanerAwake, peerVars, taskVars, cleanerVars, custodyVars
  <2>2. ASSUME CleanerStopped PROVE Stages'
    BY <2>2 DEF CleanerStopped, NextRound, peerVars, taskVars, cleanerVars, custodyVars
  <2>3. ASSUME CleanerTake PROVE Stages'
    BY <2>3 DEF CleanerTake, peerVars, taskVars, cleanerVars, custodyVars
  <2>4. ASSUME Sweep PROVE Stages'
    BY <2>4 DEF Sweep, Expired, peerVars, taskVars, cleanerVars, custodyVars
  <2>5. ASSUME SweepDone PROVE Stages'
    BY <2>5 DEF SweepDone, NextRound, peerVars, taskVars, cleanerVars, custodyVars
  <2>6. ASSUME NEW p \in Peers, ReportExpired(p) PROVE Stages'
    BY <2>6 DEF ReportExpired, peerVars, taskVars, cleanerVars, custodyVars
  <2>7. QED
    BY <1>4, <2>1, <2>2, <2>3, <2>4, <2>5, <2>6 DEF CleanerStep
<1>5. CASE MainStep
  <2>1. ASSUME Start PROVE Stages'
    BY <2>1 DEF Start, peerVars, taskVars, cleanerVars, custodyVars
  <2>2. ASSUME StopFlag PROVE Stages'
    BY <2>2 DEF StopFlag, peerVars, taskVars, cleanerVars, custodyVars
  <2>3. ASSUME StopAbort PROVE Stages'
    BY <2>3 DEF StopAbort, peerVars, taskVars, cleanerVars, custodyVars
  <2>4. ASSUME StopSwap PROVE Stages'
    BY <2>4 DEF StopSwap, peerVars, taskVars, cleanerVars, custodyVars
  <2>5. ASSUME StopDone PROVE Stages'
    BY <2>5 DEF StopDone, peerVars, taskVars, cleanerVars, custodyVars
  <2>6. QED
    BY <1>5, <2>1, <2>2, <2>3, <2>4, <2>5 DEF MainStep
<1>6. CASE UserStep
  <2>1. ASSUME NEW u \in Users, ApplyOffer(u) PROVE Stages'
    BY <2>1 DEF ApplyOffer, SetRemoteOffer, ArmConnectDeadline, peerVars, taskVars, cleanerVars, custodyVars
  <2>2. ASSUME NEW u \in Users, Drop(u) PROVE Stages'
    BY <2>2 DEF Drop, peerVars, taskVars, cleanerVars, custodyVars
  <2>3. ASSUME NEW u \in Users, NEW p \in Peers, Add(u, p) PROVE Stages'
    BY <2>3 DEF Add, peerVars, taskVars, cleanerVars, custodyVars
  <2>4. ASSUME NEW u \in Users, NEW p \in Peers, Get(u, p) PROVE Stages'
    BY <2>4 DEF Get, peerVars, taskVars, cleanerVars, custodyVars
  <2>5. ASSUME NEW u \in Users, NEW p \in Peers, Remove(u, p) PROVE Stages'
    BY <2>5 DEF Remove, peerVars, taskVars, cleanerVars, custodyVars
  <2>6. QED
    BY <1>6, <2>1, <2>2, <2>3, <2>4, <2>5 DEF UserStep
<1>7. CASE Finished \/ UNCHANGED vars
  BY <1>7 DEF Finished, vars, peerVars, taskVars, cleanerVars, custodyVars
<1>8. QED
  BY <1>1, <1>2, <1>3, <1>4, <1>5, <1>6, <1>7 DEF Next

LEMMA OrphanStep == ASSUME TypeOK, OneOwner, Stages, FreshPeer, NoOrphan, [Next]_vars PROVE NoOrphan'
<1> USE ThreadFacts DEF TypeOK, LinkStates, OneOwner, Stages, FreshPeer, NoOrphan
<1>1. CASE PeerEvent
  <2>1. ASSUME NEW p \in Peers, OnConnected(p) PROVE NoOrphan'
    BY <2>1 DEF OnConnected, peerVars, taskVars, cleanerVars, custodyVars
  <2>2. ASSUME NEW p \in Peers, OnFailed(p) PROVE NoOrphan'
    BY <2>2 DEF OnFailed, ArmConnectDeadline, peerVars, taskVars, cleanerVars, custodyVars
  <2>3. ASSUME NEW p \in Peers, OnRemoteClosed(p) PROVE NoOrphan'
    BY <2>3 DEF OnRemoteClosed, ReportClosed, MarkExpired, peerVars, taskVars, cleanerVars, custodyVars
  <2>4. ASSUME NEW p \in Peers, DeadlineTask(p) PROVE NoOrphan'
    <3>1. \A q \in Peers : link'[q] \notin {"none", "released"} => link[q] \notin {"none", "released"}
          \/ q \in peers \/ \E t \in Threads : q \in hand[t]
      BY <2>4 DEF DeadlineTask, ReportClosed
    <3>2. QED
      BY <2>4, <3>1 DEF DeadlineTask, custodyVars
  <2>5. QED
    BY <1>1, <2>1, <2>2, <2>3, <2>4 DEF PeerEvent
<1>2. CASE ExpiryTask \/ Wake
  <2>1. ASSUME ExpiryTask PROVE NoOrphan'
    BY <2>1 DEF ExpiryTask, peerVars, taskVars, cleanerVars, custodyVars
  <2>2. ASSUME Wake PROVE NoOrphan'
    BY <2>2 DEF Wake, peerVars, taskVars, cleanerVars, custodyVars
  <2>3. QED
    BY <1>2, <2>1, <2>2
<1>3. CASE Terminate
  <2>1. ASSUME NEW t \in Threads, NEW p \in Peers, TerminateFlags(t, p) PROVE NoOrphan'
    BY <2>1 DEF TerminateFlags, peerVars, taskVars, cleanerVars, custodyVars
  <2>2. ASSUME NEW t \in Threads, TerminateClose(t) PROVE NoOrphan'
    BY <2>2 DEF TerminateClose, peerVars, taskVars, cleanerVars, custodyVars
  <2>3. QED
    BY <1>3, <2>1, <2>2 DEF Terminate
<1>4. CASE CleanerStep \/ \E p \in Peers : ReportExpired(p)
  <2>1. ASSUME CleanerAwake PROVE NoOrphan'
    BY <2>1 DEF CleanerAwake, peerVars, taskVars, cleanerVars, custodyVars
  <2>2. ASSUME CleanerStopped PROVE NoOrphan'
    BY <2>2 DEF CleanerStopped, NextRound, peerVars, taskVars, cleanerVars, custodyVars
  <2>3. ASSUME CleanerTake PROVE NoOrphan'
    BY <2>3 DEF CleanerTake, peerVars, taskVars, cleanerVars, custodyVars
  <2>4. ASSUME Sweep PROVE NoOrphan'
    BY <2>4 DEF Sweep, Expired, peerVars, taskVars, cleanerVars, custodyVars
  <2>5. ASSUME SweepDone PROVE NoOrphan'
    BY <2>5 DEF SweepDone, NextRound, peerVars, taskVars, cleanerVars, custodyVars
  <2>6. ASSUME NEW p \in Peers, ReportExpired(p) PROVE NoOrphan'
    BY <2>6 DEF ReportExpired, peerVars, taskVars, cleanerVars, custodyVars
  <2>7. QED
    BY <1>4, <2>1, <2>2, <2>3, <2>4, <2>5, <2>6 DEF CleanerStep
<1>5. CASE MainStep
  <2>1. ASSUME Start PROVE NoOrphan'
    BY <2>1 DEF Start, peerVars, taskVars, cleanerVars, custodyVars
  <2>2. ASSUME StopFlag PROVE NoOrphan'
    BY <2>2 DEF StopFlag, peerVars, taskVars, cleanerVars, custodyVars
  <2>3. ASSUME StopAbort PROVE NoOrphan'
    BY <2>3 DEF StopAbort, peerVars, taskVars, cleanerVars, custodyVars
  <2>4. ASSUME StopSwap PROVE NoOrphan'
    BY <2>4 DEF StopSwap, peerVars, taskVars, cleanerVars, custodyVars
  <2>5. ASSUME StopDone PROVE NoOrphan'
    BY <2>5 DEF StopDone, peerVars, taskVars, cleanerVars, custodyVars
  <2>6. QED
    BY <1>5, <2>1, <2>2, <2>3, <2>4, <2>5 DEF MainStep
<1>6. CASE UserStep
  <2>1. ASSUME NEW u \in Users, ApplyOffer(u) PROVE NoOrphan'
    BY <2>1 DEF ApplyOffer, SetRemoteOffer, ArmConnectDeadline, peerVars, taskVars, cleanerVars, custodyVars
  <2>2. ASSUME NEW u \in Users, Drop(u) PROVE NoOrphan'
    BY <2>2 DEF Drop, peerVars, taskVars, cleanerVars, custodyVars
  <2>3. ASSUME NEW u \in Users, NEW p \in Peers, Add(u, p) PROVE NoOrphan'
    BY <2>3 DEF Add, peerVars, taskVars, cleanerVars, custodyVars
  <2>4. ASSUME NEW u \in Users, NEW p \in Peers, Get(u, p) PROVE NoOrphan'
    BY <2>4 DEF Get, peerVars, taskVars, cleanerVars, custodyVars
  <2>5. ASSUME NEW u \in Users, NEW p \in Peers, Remove(u, p) PROVE NoOrphan'
    <3>1. hand'[u] = {p} /\ \A t \in Threads : t # u => hand'[t] = hand[t]
      BY <2>5 DEF Remove
    <3>2. hand[u] = {} /\ peers' = peers \ {p} /\ link' = link
      BY <2>5 DEF Remove, Free, peerVars
    <3>3. QED
      BY <3>1, <3>2
  <2>6. QED
    BY <1>6, <2>1, <2>2, <2>3, <2>4, <2>5 DEF UserStep
<1>7. CASE Finished \/ UNCHANGED vars
  BY <1>7 DEF Finished, vars, peerVars, taskVars, cleanerVars, custodyVars
<1>8. QED
  BY <1>1, <1>2, <1>3, <1>4, <1>5, <1>6, <1>7 DEF Next

LEMMA FreshStep == ASSUME TypeOK, OneOwner, FreshPeer, [Next]_vars PROVE FreshPeer'
<1> USE ThreadFacts DEF TypeOK, LinkStates, OneOwner, FreshPeer
<1>1. CASE PeerEvent
  <2>1. ASSUME NEW p \in Peers, OnConnected(p) PROVE FreshPeer'
    BY <2>1 DEF OnConnected, peerVars, taskVars, cleanerVars, custodyVars
  <2>2. ASSUME NEW p \in Peers, OnFailed(p) PROVE FreshPeer'
    BY <2>2 DEF OnFailed, ArmConnectDeadline, peerVars, taskVars, cleanerVars, custodyVars
  <2>3. ASSUME NEW p \in Peers, OnRemoteClosed(p) PROVE FreshPeer'
    BY <2>3 DEF OnRemoteClosed, ReportClosed, MarkExpired, peerVars, taskVars, cleanerVars, custodyVars
  <2>4. ASSUME NEW p \in Peers, DeadlineTask(p) PROVE FreshPeer'
    BY <2>4 DEF DeadlineTask, ReportClosed, MarkExpired, peerVars, taskVars, cleanerVars, custodyVars
  <2>5. QED
    BY <1>1, <2>1, <2>2, <2>3, <2>4 DEF PeerEvent
<1>2. CASE ExpiryTask \/ Wake
  <2>1. ASSUME ExpiryTask PROVE FreshPeer'
    BY <2>1 DEF ExpiryTask, peerVars, taskVars, cleanerVars, custodyVars
  <2>2. ASSUME Wake PROVE FreshPeer'
    BY <2>2 DEF Wake, peerVars, taskVars, cleanerVars, custodyVars
  <2>3. QED
    BY <1>2, <2>1, <2>2
<1>3. CASE Terminate
  <2>1. ASSUME NEW t \in Threads, NEW p \in Peers, TerminateFlags(t, p) PROVE FreshPeer'
    BY <2>1 DEF TerminateFlags, peerVars, taskVars, cleanerVars, custodyVars
  <2>2. ASSUME NEW t \in Threads, TerminateClose(t) PROVE FreshPeer'
    BY <2>2 DEF TerminateClose, peerVars, taskVars, cleanerVars, custodyVars
  <2>3. QED
    BY <1>3, <2>1, <2>2 DEF Terminate
<1>4. CASE CleanerStep \/ \E p \in Peers : ReportExpired(p)
  <2>1. ASSUME CleanerAwake PROVE FreshPeer'
    BY <2>1 DEF CleanerAwake, peerVars, taskVars, cleanerVars, custodyVars
  <2>2. ASSUME CleanerStopped PROVE FreshPeer'
    BY <2>2 DEF CleanerStopped, NextRound, peerVars, taskVars, cleanerVars, custodyVars
  <2>3. ASSUME CleanerTake PROVE FreshPeer'
    BY <2>3 DEF CleanerTake, peerVars, taskVars, cleanerVars, custodyVars
  <2>4. ASSUME Sweep PROVE FreshPeer'
    BY <2>4 DEF Sweep, Expired, peerVars, taskVars, cleanerVars, custodyVars
  <2>5. ASSUME SweepDone PROVE FreshPeer'
    BY <2>5 DEF SweepDone, NextRound, peerVars, taskVars, cleanerVars, custodyVars
  <2>6. ASSUME NEW p \in Peers, ReportExpired(p) PROVE FreshPeer'
    BY <2>6 DEF ReportExpired, peerVars, taskVars, cleanerVars, custodyVars
  <2>7. QED
    BY <1>4, <2>1, <2>2, <2>3, <2>4, <2>5, <2>6 DEF CleanerStep
<1>5. CASE MainStep
  <2>1. ASSUME Start PROVE FreshPeer'
    BY <2>1 DEF Start, peerVars, taskVars, cleanerVars, custodyVars
  <2>2. ASSUME StopFlag PROVE FreshPeer'
    BY <2>2 DEF StopFlag, peerVars, taskVars, cleanerVars, custodyVars
  <2>3. ASSUME StopAbort PROVE FreshPeer'
    BY <2>3 DEF StopAbort, peerVars, taskVars, cleanerVars, custodyVars
  <2>4. ASSUME StopSwap PROVE FreshPeer'
    BY <2>4 DEF StopSwap, peerVars, taskVars, cleanerVars, custodyVars
  <2>5. ASSUME StopDone PROVE FreshPeer'
    BY <2>5 DEF StopDone, peerVars, taskVars, cleanerVars, custodyVars
  <2>6. QED
    BY <1>5, <2>1, <2>2, <2>3, <2>4, <2>5 DEF MainStep
<1>6. CASE UserStep
  <2>1. ASSUME NEW u \in Users, ApplyOffer(u) PROVE FreshPeer'
    <3>1. PICK p \in Peers : SetRemoteOffer(p)
      BY <2>1 DEF ApplyOffer
    <3>2. CASE Open(p)
      BY <3>1, <3>2 DEF SetRemoteOffer, ArmConnectDeadline, Open
    <3>3. CASE ~Open(p)
      BY <3>1, <3>3 DEF SetRemoteOffer
    <3>4. QED
      BY <3>2, <3>3
  <2>2. ASSUME NEW u \in Users, Drop(u) PROVE FreshPeer'
    BY <2>2 DEF Drop, peerVars, taskVars, cleanerVars, custodyVars
  <2>3. ASSUME NEW u \in Users, NEW p \in Peers, Add(u, p) PROVE FreshPeer'
    BY <2>3 DEF Add, peerVars, taskVars, cleanerVars, custodyVars
  <2>4. ASSUME NEW u \in Users, NEW p \in Peers, Get(u, p) PROVE FreshPeer'
    BY <2>4 DEF Get, peerVars, taskVars, cleanerVars, custodyVars
  <2>5. ASSUME NEW u \in Users, NEW p \in Peers, Remove(u, p) PROVE FreshPeer'
    BY <2>5 DEF Remove, peerVars, taskVars, cleanerVars, custodyVars
  <2>6. QED
    BY <1>6, <2>1, <2>2, <2>3, <2>4, <2>5 DEF UserStep
<1>7. CASE Finished \/ UNCHANGED vars
  BY <1>7 DEF Finished, vars, peerVars, taskVars, cleanerVars, custodyVars
<1>8. QED
  BY <1>1, <1>2, <1>3, <1>4, <1>5, <1>6, <1>7 DEF Next

LEMMA NoticeStep == ASSUME TypeOK, OneOwner, Stages, FreshPeer, ExpiryNoticed, [Next]_vars PROVE ExpiryNoticed'
<1> USE ThreadFacts DEF TypeOK, OneOwner, Stages, FreshPeer, ExpiryNoticed, Expiry
<1>1. CASE PeerEvent
  <2>1. ASSUME NEW p \in Peers, OnConnected(p) PROVE ExpiryNoticed'
    BY <2>1 DEF OnConnected, peerVars, taskVars, cleanerVars, custodyVars
  <2>2. ASSUME NEW p \in Peers, OnFailed(p) PROVE ExpiryNoticed'
    BY <2>2 DEF OnFailed, ArmConnectDeadline, peerVars, taskVars, cleanerVars, custodyVars
  <2>3. ASSUME NEW p \in Peers, OnRemoteClosed(p) PROVE ExpiryNoticed'
    BY <2>3 DEF OnRemoteClosed, ReportClosed, MarkExpired, peerVars, taskVars, cleanerVars, custodyVars
  <2>4. ASSUME NEW p \in Peers, DeadlineTask(p) PROVE ExpiryNoticed'
    BY <2>4 DEF DeadlineTask, ReportClosed, MarkExpired, peerVars, taskVars, cleanerVars, custodyVars
  <2>5. QED
    BY <1>1, <2>1, <2>2, <2>3, <2>4 DEF PeerEvent
<1>2. CASE ExpiryTask \/ Wake
  <2>1. ASSUME ExpiryTask PROVE ExpiryNoticed'
    BY <2>1 DEF ExpiryTask, peerVars, taskVars, cleanerVars, custodyVars
  <2>2. ASSUME Wake PROVE ExpiryNoticed'
    BY <2>2 DEF Wake, peerVars, taskVars, cleanerVars, custodyVars
  <2>3. QED
    BY <1>2, <2>1, <2>2
<1>3. CASE Terminate
  <2>1. ASSUME NEW t \in Threads, NEW p \in Peers, TerminateFlags(t, p) PROVE ExpiryNoticed'
    BY <2>1 DEF TerminateFlags, peerVars, taskVars, cleanerVars, custodyVars
  <2>2. ASSUME NEW t \in Threads, TerminateClose(t) PROVE ExpiryNoticed'
    BY <2>2 DEF TerminateClose, peerVars, taskVars, cleanerVars, custodyVars
  <2>3. QED
    BY <1>3, <2>1, <2>2 DEF Terminate
<1>4. CASE CleanerStep \/ \E p \in Peers : ReportExpired(p)
  <2>1. ASSUME CleanerAwake PROVE ExpiryNoticed'
    BY <2>1 DEF CleanerAwake, peerVars, taskVars, cleanerVars, custodyVars
  <2>2. ASSUME CleanerStopped PROVE ExpiryNoticed'
    BY <2>2 DEF CleanerStopped, NextRound, peerVars, taskVars, cleanerVars, custodyVars
  <2>3. ASSUME CleanerTake PROVE ExpiryNoticed'
    BY <2>3 DEF CleanerTake, peerVars, taskVars, cleanerVars, custodyVars
  <2>4. ASSUME Sweep PROVE ExpiryNoticed'
    BY <2>4 DEF Sweep, Expired, peerVars, taskVars, cleanerVars, custodyVars
  <2>5. ASSUME SweepDone PROVE ExpiryNoticed'
    BY <2>5 DEF SweepDone, NextRound, peerVars, taskVars, cleanerVars, custodyVars
  <2>6. ASSUME NEW p \in Peers, ReportExpired(p) PROVE ExpiryNoticed'
    BY <2>6 DEF ReportExpired, peerVars, taskVars, cleanerVars, custodyVars
  <2>7. QED
    BY <1>4, <2>1, <2>2, <2>3, <2>4, <2>5, <2>6 DEF CleanerStep
<1>5. CASE MainStep
  <2>1. ASSUME Start PROVE ExpiryNoticed'
    BY <2>1 DEF Start, peerVars, taskVars, cleanerVars, custodyVars
  <2>2. ASSUME StopFlag PROVE ExpiryNoticed'
    BY <2>2 DEF StopFlag, peerVars, taskVars, cleanerVars, custodyVars
  <2>3. ASSUME StopAbort PROVE ExpiryNoticed'
    BY <2>3 DEF StopAbort, peerVars, taskVars, cleanerVars, custodyVars
  <2>4. ASSUME StopSwap PROVE ExpiryNoticed'
    BY <2>4 DEF StopSwap, peerVars, taskVars, cleanerVars, custodyVars
  <2>5. ASSUME StopDone PROVE ExpiryNoticed'
    BY <2>5 DEF StopDone, peerVars, taskVars, cleanerVars, custodyVars
  <2>6. QED
    BY <1>5, <2>1, <2>2, <2>3, <2>4, <2>5 DEF MainStep
<1>6. CASE UserStep
  <2>1. ASSUME NEW u \in Users, ApplyOffer(u) PROVE ExpiryNoticed'
    BY <2>1 DEF ApplyOffer, SetRemoteOffer, ArmConnectDeadline, peerVars, taskVars, cleanerVars, custodyVars
  <2>2. ASSUME NEW u \in Users, Drop(u) PROVE ExpiryNoticed'
    BY <2>2 DEF Drop, peerVars, taskVars, cleanerVars, custodyVars
  <2>3. ASSUME NEW u \in Users, NEW p \in Peers, Add(u, p) PROVE ExpiryNoticed'
    BY <2>3 DEF Add, peerVars, taskVars, cleanerVars, custodyVars
  <2>4. ASSUME NEW u \in Users, NEW p \in Peers, Get(u, p) PROVE ExpiryNoticed'
    BY <2>4 DEF Get, peerVars, taskVars, cleanerVars, custodyVars
  <2>5. ASSUME NEW u \in Users, NEW p \in Peers, Remove(u, p) PROVE ExpiryNoticed'
    BY <2>5 DEF Remove, peerVars, taskVars, cleanerVars, custodyVars
  <2>6. QED
    BY <1>6, <2>1, <2>2, <2>3, <2>4, <2>5 DEF UserStep
<1>7. CASE Finished \/ UNCHANGED vars
  BY <1>7 DEF Finished, vars, peerVars, taskVars, cleanerVars, custodyVars
<1>8. QED
  BY <1>1, <1>2, <1>3, <1>4, <1>5, <1>6, <1>7 DEF Next

LEMMA DeadlineStep == ASSUME TypeOK, OneOwner, FreshPeer, DeadlineRuns, [Next]_vars PROVE DeadlineRuns'
<1> USE OffersAssumption, ThreadFacts DEF TypeOK, OneOwner, FreshPeer, DeadlineRuns
<1>1. CASE PeerEvent
  <2>1. ASSUME NEW p \in Peers, OnConnected(p) PROVE DeadlineRuns'
    BY <2>1 DEF OnConnected, peerVars, taskVars, cleanerVars, custodyVars
  <2>2. ASSUME NEW p \in Peers, OnFailed(p) PROVE DeadlineRuns'
    BY <2>2 DEF OnFailed, ArmConnectDeadline, peerVars, taskVars, cleanerVars, custodyVars
  <2>3. ASSUME NEW p \in Peers, OnRemoteClosed(p) PROVE DeadlineRuns'
    BY <2>3 DEF OnRemoteClosed, ReportClosed, MarkExpired, peerVars, taskVars, cleanerVars, custodyVars
  <2>4. ASSUME NEW p \in Peers, DeadlineTask(p) PROVE DeadlineRuns'
    BY <2>4 DEF DeadlineTask, ReportClosed, MarkExpired, peerVars, taskVars, cleanerVars, custodyVars
  <2>5. QED
    BY <1>1, <2>1, <2>2, <2>3, <2>4 DEF PeerEvent
<1>2. CASE ExpiryTask \/ Wake
  <2>1. ASSUME ExpiryTask PROVE DeadlineRuns'
    BY <2>1 DEF ExpiryTask, peerVars, taskVars, cleanerVars, custodyVars
  <2>2. ASSUME Wake PROVE DeadlineRuns'
    BY <2>2 DEF Wake, peerVars, taskVars, cleanerVars, custodyVars
  <2>3. QED
    BY <1>2, <2>1, <2>2
<1>3. CASE Terminate
  <2>1. ASSUME NEW t \in Threads, NEW p \in Peers, TerminateFlags(t, p) PROVE DeadlineRuns'
    BY <2>1 DEF TerminateFlags, peerVars, taskVars, cleanerVars, custodyVars
  <2>2. ASSUME NEW t \in Threads, TerminateClose(t) PROVE DeadlineRuns'
    BY <2>2 DEF TerminateClose, peerVars, taskVars, cleanerVars, custodyVars
  <2>3. QED
    BY <1>3, <2>1, <2>2 DEF Terminate
<1>4. CASE CleanerStep \/ \E p \in Peers : ReportExpired(p)
  <2>1. ASSUME CleanerAwake PROVE DeadlineRuns'
    BY <2>1 DEF CleanerAwake, peerVars, taskVars, cleanerVars, custodyVars
  <2>2. ASSUME CleanerStopped PROVE DeadlineRuns'
    BY <2>2 DEF CleanerStopped, NextRound, peerVars, taskVars, cleanerVars, custodyVars
  <2>3. ASSUME CleanerTake PROVE DeadlineRuns'
    BY <2>3 DEF CleanerTake, peerVars, taskVars, cleanerVars, custodyVars
  <2>4. ASSUME Sweep PROVE DeadlineRuns'
    BY <2>4 DEF Sweep, Expired, peerVars, taskVars, cleanerVars, custodyVars
  <2>5. ASSUME SweepDone PROVE DeadlineRuns'
    BY <2>5 DEF SweepDone, NextRound, peerVars, taskVars, cleanerVars, custodyVars
  <2>6. ASSUME NEW p \in Peers, ReportExpired(p) PROVE DeadlineRuns'
    BY <2>6 DEF ReportExpired, peerVars, taskVars, cleanerVars, custodyVars
  <2>7. QED
    BY <1>4, <2>1, <2>2, <2>3, <2>4, <2>5, <2>6 DEF CleanerStep
<1>5. CASE MainStep
  <2>1. ASSUME Start PROVE DeadlineRuns'
    BY <2>1 DEF Start, peerVars, taskVars, cleanerVars, custodyVars
  <2>2. ASSUME StopFlag PROVE DeadlineRuns'
    BY <2>2 DEF StopFlag, peerVars, taskVars, cleanerVars, custodyVars
  <2>3. ASSUME StopAbort PROVE DeadlineRuns'
    BY <2>3 DEF StopAbort, peerVars, taskVars, cleanerVars, custodyVars
  <2>4. ASSUME StopSwap PROVE DeadlineRuns'
    BY <2>4 DEF StopSwap, peerVars, taskVars, cleanerVars, custodyVars
  <2>5. ASSUME StopDone PROVE DeadlineRuns'
    BY <2>5 DEF StopDone, peerVars, taskVars, cleanerVars, custodyVars
  <2>6. QED
    BY <1>5, <2>1, <2>2, <2>3, <2>4, <2>5 DEF MainStep
<1>6. CASE UserStep
  <2>1. ASSUME NEW u \in Users, ApplyOffer(u) PROVE DeadlineRuns'
    BY <2>1 DEF ApplyOffer, SetRemoteOffer, ArmConnectDeadline, peerVars, taskVars, cleanerVars, custodyVars
  <2>2. ASSUME NEW u \in Users, Drop(u) PROVE DeadlineRuns'
    BY <2>2 DEF Drop, peerVars, taskVars, cleanerVars, custodyVars
  <2>3. ASSUME NEW u \in Users, NEW p \in Peers, Add(u, p) PROVE DeadlineRuns'
    BY <2>3 DEF Add, peerVars, taskVars, cleanerVars, custodyVars
  <2>4. ASSUME NEW u \in Users, NEW p \in Peers, Get(u, p) PROVE DeadlineRuns'
    BY <2>4 DEF Get, peerVars, taskVars, cleanerVars, custodyVars
  <2>5. ASSUME NEW u \in Users, NEW p \in Peers, Remove(u, p) PROVE DeadlineRuns'
    BY <2>5 DEF Remove, peerVars, taskVars, cleanerVars, custodyVars
  <2>6. QED
    BY <1>6, <2>1, <2>2, <2>3, <2>4, <2>5 DEF UserStep
<1>7. CASE Finished \/ UNCHANGED vars
  BY <1>7 DEF Finished, vars, peerVars, taskVars, cleanerVars, custodyVars
<1>8. QED
  BY <1>1, <1>2, <1>3, <1>4, <1>5, <1>6, <1>7 DEF Next

LEMMA ReleasedStep == ASSUME TypeOK, OneOwner, ReleasedIsDown, [Next]_vars PROVE ReleasedIsDown'
<1> USE ThreadFacts DEF TypeOK, LinkStates, OneOwner, ReleasedIsDown
<1>1. CASE PeerEvent
  <2>1. ASSUME NEW p \in Peers, OnConnected(p) PROVE ReleasedIsDown'
    BY <2>1 DEF OnConnected, peerVars, taskVars, cleanerVars, custodyVars
  <2>2. ASSUME NEW p \in Peers, OnFailed(p) PROVE ReleasedIsDown'
    BY <2>2 DEF OnFailed, ArmConnectDeadline, peerVars, taskVars, cleanerVars, custodyVars
  <2>3. ASSUME NEW p \in Peers, OnRemoteClosed(p) PROVE ReleasedIsDown'
    BY <2>3 DEF OnRemoteClosed, ReportClosed, MarkExpired, peerVars, taskVars, cleanerVars, custodyVars
  <2>4. ASSUME NEW p \in Peers, DeadlineTask(p) PROVE ReleasedIsDown'
    BY <2>4 DEF DeadlineTask, ReportClosed, MarkExpired, peerVars, taskVars, cleanerVars, custodyVars
  <2>5. QED
    BY <1>1, <2>1, <2>2, <2>3, <2>4 DEF PeerEvent
<1>2. CASE ExpiryTask \/ Wake
  <2>1. ASSUME ExpiryTask PROVE ReleasedIsDown'
    BY <2>1 DEF ExpiryTask, peerVars, taskVars, cleanerVars, custodyVars
  <2>2. ASSUME Wake PROVE ReleasedIsDown'
    BY <2>2 DEF Wake, peerVars, taskVars, cleanerVars, custodyVars
  <2>3. QED
    BY <1>2, <2>1, <2>2
<1>3. CASE Terminate
  <2>1. ASSUME NEW t \in Threads, NEW p \in Peers, TerminateFlags(t, p) PROVE ReleasedIsDown'
    BY <2>1 DEF TerminateFlags, peerVars, taskVars, cleanerVars, custodyVars
  <2>2. ASSUME NEW t \in Threads, TerminateClose(t) PROVE ReleasedIsDown'
    BY <2>2 DEF TerminateClose, peerVars, taskVars, cleanerVars, custodyVars
  <2>3. QED
    BY <1>3, <2>1, <2>2 DEF Terminate
<1>4. CASE CleanerStep \/ \E p \in Peers : ReportExpired(p)
  <2>1. ASSUME CleanerAwake PROVE ReleasedIsDown'
    BY <2>1 DEF CleanerAwake, peerVars, taskVars, cleanerVars, custodyVars
  <2>2. ASSUME CleanerStopped PROVE ReleasedIsDown'
    BY <2>2 DEF CleanerStopped, NextRound, peerVars, taskVars, cleanerVars, custodyVars
  <2>3. ASSUME CleanerTake PROVE ReleasedIsDown'
    BY <2>3 DEF CleanerTake, peerVars, taskVars, cleanerVars, custodyVars
  <2>4. ASSUME Sweep PROVE ReleasedIsDown'
    BY <2>4 DEF Sweep, Expired, peerVars, taskVars, cleanerVars, custodyVars
  <2>5. ASSUME SweepDone PROVE ReleasedIsDown'
    BY <2>5 DEF SweepDone, NextRound, peerVars, taskVars, cleanerVars, custodyVars
  <2>6. ASSUME NEW p \in Peers, ReportExpired(p) PROVE ReleasedIsDown'
    BY <2>6 DEF ReportExpired, peerVars, taskVars, cleanerVars, custodyVars
  <2>7. QED
    BY <1>4, <2>1, <2>2, <2>3, <2>4, <2>5, <2>6 DEF CleanerStep
<1>5. CASE MainStep
  <2>1. ASSUME Start PROVE ReleasedIsDown'
    BY <2>1 DEF Start, peerVars, taskVars, cleanerVars, custodyVars
  <2>2. ASSUME StopFlag PROVE ReleasedIsDown'
    BY <2>2 DEF StopFlag, peerVars, taskVars, cleanerVars, custodyVars
  <2>3. ASSUME StopAbort PROVE ReleasedIsDown'
    BY <2>3 DEF StopAbort, peerVars, taskVars, cleanerVars, custodyVars
  <2>4. ASSUME StopSwap PROVE ReleasedIsDown'
    BY <2>4 DEF StopSwap, peerVars, taskVars, cleanerVars, custodyVars
  <2>5. ASSUME StopDone PROVE ReleasedIsDown'
    BY <2>5 DEF StopDone, peerVars, taskVars, cleanerVars, custodyVars
  <2>6. QED
    BY <1>5, <2>1, <2>2, <2>3, <2>4, <2>5 DEF MainStep
<1>6. CASE UserStep
  <2>1. ASSUME NEW u \in Users, ApplyOffer(u) PROVE ReleasedIsDown'
    BY <2>1 DEF ApplyOffer, SetRemoteOffer, ArmConnectDeadline, peerVars, taskVars, cleanerVars, custodyVars
  <2>2. ASSUME NEW u \in Users, Drop(u) PROVE ReleasedIsDown'
    BY <2>2 DEF Drop, peerVars, taskVars, cleanerVars, custodyVars
  <2>3. ASSUME NEW u \in Users, NEW p \in Peers, Add(u, p) PROVE ReleasedIsDown'
    BY <2>3 DEF Add, peerVars, taskVars, cleanerVars, custodyVars
  <2>4. ASSUME NEW u \in Users, NEW p \in Peers, Get(u, p) PROVE ReleasedIsDown'
    BY <2>4 DEF Get, peerVars, taskVars, cleanerVars, custodyVars
  <2>5. ASSUME NEW u \in Users, NEW p \in Peers, Remove(u, p) PROVE ReleasedIsDown'
    BY <2>5 DEF Remove, peerVars, taskVars, cleanerVars, custodyVars
  <2>6. QED
    BY <1>6, <2>1, <2>2, <2>3, <2>4, <2>5 DEF UserStep
<1>7. CASE Finished \/ UNCHANGED vars
  BY <1>7 DEF Finished, vars, peerVars, taskVars, cleanerVars, custodyVars
<1>8. QED
  BY <1>1, <1>2, <1>3, <1>4, <1>5, <1>6, <1>7 DEF Next

LEMMA InvStep == ASSUME PeerInv, [Next]_vars PROVE PeerInv'
BY TypeStep, OwnerStep, StagesStep, OrphanStep, FreshStep, NoticeStep, DeadlineStep, ReleasedStep DEF PeerInv

(* The inductive invariant holds of every reachable state of the registry, for   *)
(* any number of peers and of service threads.                                   *)
THEOREM RegistryInvariant == Spec => []PeerInv
<1>1. Init => PeerInv
  BY InitInv
<1>2. PeerInv /\ [Next]_vars => PeerInv'
  BY InvStep
<1>3. QED
  BY <1>1, <1>2, PTL DEF Spec

(* Every variable keeps its type. *)
THEOREM TypeCorrect == Spec => []TypeOK
<1>1. PeerInv => TypeOK
  BY DEF PeerInv
<1>2. QED
  BY <1>1, RegistryInvariant, PTL

(* No expiry is lost: an expired peer in the map has a sweep coming (Cleaner::Wake *)
(* and the loop of Start).                                                         *)
THEOREM ExpiryNeverLost == Spec => []ExpiryNoticed
<1>1. PeerInv => ExpiryNoticed
  BY DEF PeerInv
<1>2. QED
  BY <1>1, RegistryInvariant, PTL

(* A peer in the map that was offered to and is down has its connect deadline      *)
(* running (ArmConnectDeadline).                                                   *)
THEOREM DeadlineAlwaysRuns == Spec => []DeadlineRuns
<1>1. PeerInv => DeadlineRuns
  BY DEF PeerInv
<1>2. QED
  BY <1>1, RegistryInvariant, PTL

(* An open connection is always owned by the map or by a thread terminating it.    *)
THEOREM NoConnectionOrphaned == Spec => []NoOrphan
<1>1. PeerInv => NoOrphan
  BY DEF PeerInv
<1>2. QED
  BY <1>1, RegistryInvariant, PTL

-------------------------------------------------------------------------------
(* PeerRegistry implements PeerCustody: every step is one of its steps or leaves *)
(* custodyMap alone.                                                             *)

LEMMA CustodyInit == Init => Custody!Init
BY DEF Init, Custody!Init, custodyMap, CustodyOf

\* Custody changes only with the map, the hands and the released connections.
LEMMA CustodySame ==
  ASSUME UNCHANGED <<peers, hand>>,
         \A p \in Peers : link'[p] = "released" <=> link[p] = "released"
  PROVE  custodyMap' = custodyMap
BY DEF custodyMap, CustodyOf

LEMMA AddIsAdmit ==
  ASSUME PeerInv, NEW u \in Users, NEW p \in Peers, Add(u, p)
  PROVE  Custody!Admit(p)
<1>1. link[p] = "none" /\ link' = [link EXCEPT ![p] = "new"] /\ peers' = peers \cup {p} /\ hand' = hand
  BY DEF Add
<1>2. p \notin peers /\ \A t \in Threads : p \notin hand[t]
  BY <1>1 DEF PeerInv, OneOwner
<1>3. custodyMap[p] = "absent"
  BY <1>1, <1>2 DEF custodyMap, CustodyOf
<1>4. \A q \in Peers : q # p => link'[q] = link[q]
  BY <1>1 DEF PeerInv, TypeOK
<1>5. \A q \in Peers : CustodyOf(q)' = IF q = p THEN "held" ELSE CustodyOf(q)
  BY <1>1, <1>4 DEF CustodyOf
<1>6. custodyMap' = [custodyMap EXCEPT ![p] = "held"]
  BY <1>5 DEF custodyMap
<1>7. QED
  BY <1>3, <1>6 DEF Custody!Admit

LEMMA CloseIsRelease ==
  ASSUME PeerInv, NEW t \in Threads, TerminateClose(t)
  PROVE  closing[t] \in Peers /\ Custody!Release(closing[t])
<1> DEFINE p == closing[t]
<1>1. p \in Peers /\ p \in hand[t] /\ p \notin peers
  BY DEF TerminateClose, PeerInv, TypeOK, OneOwner
<1>2. link' = [link EXCEPT ![p] = "released"] /\ hand' = [hand EXCEPT ![t] = hand[t] \ {p}] /\ peers' = peers
  BY DEF TerminateClose
<1>3. \A s \in Threads : p \notin hand'[s]
  BY <1>1, <1>2 DEF PeerInv, TypeOK, OneOwner
<1>4. \A q \in Peers : q # p => link'[q] = link[q] /\ \A s \in Threads : q \in hand'[s] <=> q \in hand[s]
  BY <1>2 DEF PeerInv, TypeOK
<1>5. link'[p] = "released"
  BY <1>1, <1>2 DEF PeerInv, TypeOK
<1>6. custodyMap[p] = "taken"
  BY <1>1 DEF custodyMap, CustodyOf
<1> HIDE DEF p
<1>7. \A q \in Peers : CustodyOf(q)' = IF q = p THEN "released" ELSE CustodyOf(q)
  BY <1>1, <1>2, <1>3, <1>4, <1>5 DEF CustodyOf
<1>8. custodyMap' = [custodyMap EXCEPT ![p] = "released"]
  BY <1>7 DEF custodyMap
<1>9. Custody!Release(p)
  BY <1>6, <1>8 DEF Custody!Release
<1>10. QED
  BY <1>1, <1>9 DEF p

\* Erasing S from the map into an empty hand takes S.
LEMMA EraseIsTake ==
  ASSUME PeerInv, NEW t \in Threads, NEW S \in SUBSET peers, hand[t] = {},
         hand' = [hand EXCEPT ![t] = S], peers' = peers \ S, link' = link
  PROVE  Custody!Take(S)
<1>1. \A q \in Peers : q \in S => q \in hand'[t] /\ q \notin peers'
  BY DEF PeerInv, TypeOK
<1>2. \A q \in Peers : q \notin S => (q \in peers' <=> q \in peers)
  OBVIOUS
<1>3. \A q \in Peers, s \in Threads : q \notin S => (q \in hand'[s] <=> q \in hand[s])
  BY DEF PeerInv, TypeOK
<1>4. \A q \in Peers : CustodyOf(q)' = IF q \in S THEN "taken" ELSE CustodyOf(q)
  BY <1>1, <1>2, <1>3 DEF CustodyOf
<1>5. \A q \in S : q \in Peers /\ custodyMap[q] = "held"
  BY DEF PeerInv, TypeOK, custodyMap, CustodyOf
<1>6. custodyMap' = [q \in Peers |-> IF q \in S THEN "taken" ELSE custodyMap[q]]
  BY <1>4 DEF custodyMap
<1>7. QED
  BY <1>5, <1>6 DEF Custody!Take

LEMMA CustodyStep == ASSUME PeerInv, PeerInv', [Next]_vars PROVE [Custody!Next]_custodyMap
<1> DEFINE Same == UNCHANGED <<peers, hand>> /\ \A p \in Peers : link'[p] = "released" <=> link[p] = "released"
<1>1. CASE PeerEvent
  <2>1. ASSUME NEW p \in Peers, OnConnected(p) \/ OnFailed(p) PROVE Same
    BY <2>1 DEF OnConnected, OnFailed, custodyVars, PeerInv, TypeOK
  <2>2. ASSUME NEW p \in Peers, OnRemoteClosed(p) \/ DeadlineTask(p) PROVE Same
    BY <2>2 DEF OnRemoteClosed, DeadlineTask, ReportClosed, custodyVars, PeerInv, TypeOK
  <2>3. QED
    BY <1>1, <2>1, <2>2, CustodySame DEF PeerEvent
<1>2. CASE ExpiryTask \/ Wake
  BY <1>2, CustodySame DEF ExpiryTask, Wake, peerVars, custodyVars
<1>3. CASE Terminate
  <2>1. ASSUME NEW t \in Threads, NEW p \in Peers, TerminateFlags(t, p) PROVE Same
    BY <2>1 DEF TerminateFlags
  <2>2. ASSUME NEW t \in Threads, TerminateClose(t) PROVE Custody!Next
    BY <2>2, CloseIsRelease DEF Custody!Next
  <2>3. QED
    BY <1>3, <2>1, <2>2, CustodySame DEF Terminate
<1>4. CASE CleanerStep \/ \E p \in Peers : ReportExpired(p)
  <2>1. ASSUME Sweep PROVE Custody!Next
    <3>1. Expired \in SUBSET peers /\ Expired \in SUBSET Peers
      BY DEF Expired, PeerInv, TypeOK
    <3>2. hand["cleaner"] = {}
      BY <2>1 DEF Sweep, PeerInv, Stages
    <3>3. Custody!Take(Expired)
      BY <2>1, <3>1, <3>2, ThreadFacts, EraseIsTake DEF Sweep, peerVars
    <3>4. QED
      BY <3>1, <3>3 DEF Custody!Next
  <2>2. ASSUME CleanerAwake \/ CleanerStopped \/ CleanerTake \/ SweepDone PROVE Same
    BY <2>2 DEF CleanerAwake, CleanerStopped, CleanerTake, SweepDone, peerVars, custodyVars
  <2>3. ASSUME NEW p \in Peers, ReportExpired(p) PROVE Same
    BY <2>3 DEF ReportExpired, peerVars, custodyVars
  <2>4. QED
    BY <1>4, <2>1, <2>2, <2>3, CustodySame DEF CleanerStep
<1>5. CASE MainStep
  <2>1. ASSUME StopSwap PROVE Custody!Next
    <3>1. hand["main"] = {}
      BY <2>1 DEF StopSwap, PeerInv, Stages
    <3>2. peers' = peers \ peers /\ hand' = [hand EXCEPT !["main"] = peers] /\ link' = link
      BY <2>1 DEF StopSwap, peerVars
    <3>3. Custody!Take(peers)
      BY <3>1, <3>2, ThreadFacts, EraseIsTake
    <3>4. QED
      BY <3>3 DEF Custody!Next, PeerInv, TypeOK
  <2>2. ASSUME Start \/ StopFlag \/ StopAbort \/ StopDone PROVE Same
    BY <2>2 DEF Start, StopFlag, StopAbort, StopDone, peerVars, custodyVars
  <2>3. QED
    BY <1>5, <2>1, <2>2, CustodySame DEF MainStep
<1>6. CASE UserStep
  <2>1. ASSUME NEW u \in Users, NEW p \in Peers, Add(u, p) PROVE Custody!Next
    BY <2>1, AddIsAdmit DEF Custody!Next
  <2>2. ASSUME NEW u \in Users, NEW p \in Peers, Remove(u, p) PROVE Custody!Next
    <3>1. {p} \in SUBSET peers /\ hand[u] = {} /\ u \in Threads
      BY <2>2, ThreadFacts DEF Remove, Free
    <3>2. Custody!Take({p})
      BY <2>2, <3>1, EraseIsTake DEF Remove, peerVars
    <3>3. QED
      BY <3>2 DEF Custody!Next
  <2>3. ASSUME NEW u \in Users, ApplyOffer(u) \/ Drop(u) \/ \E p \in Peers : Get(u, p) PROVE Same
    BY <2>3 DEF ApplyOffer, SetRemoteOffer, Drop, Get, peerVars, custodyVars
  <2>4. QED
    BY <1>6, <2>1, <2>2, <2>3, CustodySame DEF UserStep
<1>7. CASE Finished \/ UNCHANGED vars
  BY <1>7, CustodySame DEF Finished, vars, peerVars, custodyVars
<1>8. QED
  BY <1>1, <1>2, <1>3, <1>4, <1>5, <1>6, <1>7 DEF Next

(* Every behaviour of the registry is a behaviour of the custody it promises (the  *)
(* safety part): a peer enters once, one thread takes it out, and that thread      *)
(* releases it.                                                                    *)
THEOREM ImplementsCustody == Spec => Custody!Init /\ [][Custody!Next]_custodyMap
<1>1. Init => Custody!Init
  BY CustodyInit
<1>2. PeerInv /\ PeerInv' /\ [Next]_vars => [Custody!Next]_custodyMap
  BY CustodyStep
<1>3. QED
  BY <1>1, <1>2, RegistryInvariant, PTL DEF Spec

-------------------------------------------------------------------------------
(* MqttService. *)

\* What Sweep and StopSwap took out of the map: an expired id that is not reported yet
\* names a peer that the cleaner closes or has closed.
SweptInv ==
  /\ \A p \in ids : p \notin peers /\ expired[p] /\ (p \in hand["cleaner"] \/ link[p] = "released")
  /\ \A u \in Users : hand[u] = {}
  /\ main \in {"release", "done"} => peers = {} /\ cleaner = "exit"

LoopInv ==
  /\ at \in {"idle", "get", "create"} => \A u \in Users : holds[u] = NoPeer
  /\ at \in {"map", "apply", "set"} => \A u \in Users : holds[u] # NoPeer
  /\ at # "idle" => main = "run" /\ from \in Clients

\* A peer of the client whose message is handled, for as long as it is open.
Known(p) == link[p] # "none" /\ (clientOf[p] = from \/ (clientOf[p] = NoClient /\ ~Open(p)))

HandlerInv ==
  /\ \A p \in Peers : link[p] = "none" => clientOf[p] = NoClient /\ due[p] = NoClient
  /\ at = "get" => peerOf[from] \in {mapped, NoPeer}
  /\ at = "get" /\ mapped # NoPeer => Known(mapped)
  /\ at \in {"create", "map"} => peerOf[from] = NoPeer \/ ~Found(peerOf[from])
  /\ at = "map" => \A u \in Users : link[holds[u]] # "none" /\ clientOf[holds[u]] = NoClient /\ due[holds[u]] = NoClient
  /\ at \in {"apply", "set"} => \A u \in Users : Known(holds[u])

\* A peer that has an answer to give is mapped while it is open.
AnswersKnown == \A p \in Peers : due[p] # NoClient /\ Open(p) => clientOf[p] # NoClient

MapInv == MqttInv /\ LoopInv /\ HandlerInv /\ AnswersKnown /\ AnswersGoHome

IInv == PeerInv /\ SweptInv /\ MapInv

\* The service removes no peer itself.
Moves == PeerEvent \/ ExpiryTask \/ Wake \/ Terminate \/ CleanerStep \/ Start \/ StopFlag \/ StopAbort \/ StopSwap \/ StopDone
Uses(u) == ApplyOffer(u) \/ Drop(u) \/ \E p \in Peers : Add(u, p) \/ Get(u, p)
RegistryUse == Moves \/ (\E p \in Peers : ReportExpired(p)) \/ \E u \in Users : Uses(u)

(* What the service does to the registry is a step of the registry. *)
LEMMA IsRegistryUse == ASSUME TypeOK, LoopInv, [MqttNext]_allVars PROVE [RegistryUse]_vars
<1> USE DEF RegistryUse, Moves, Uses
<1>1. CASE RegistryStep
  BY <1>1 DEF RegistryStep, Finished
<1>2. CASE PeerExpired
  BY <1>2 DEF PeerExpired
<1>3. CASE DisconnectBegins \/ DisconnectEnds
  BY <1>3 DEF DisconnectBegins, DisconnectEnds
<1>4. CASE (\E p \in Peers : OnLocalSdp(p)) \/ \E u \in Users, c \in Clients, isOffer \in BOOLEAN : OnMessage(u, c, isOffer)
  BY <1>4 DEF OnLocalSdp, OnMessage
<1>5. CASE OnMessageStep
  <2>1. PICK u \in Users : \/ GetMapped(u) \/ MapPeer(u) \/ LookupAgain(u) \/ OnRemoteSdp(u)
                           \/ \E p \in Peers : CreatePeer(u, p)
                           \/ NoLivePeer \/ CreateFails
    BY <1>5 DEF OnMessageStep
  <2>2. CASE GetMapped(u)
    <3>1. mapped \in Peers
      BY <2>2 DEF GetMapped, Get, Found, TypeOK
    <3>2. QED
      BY <2>2, <3>1 DEF GetMapped
  <2>3. CASE MapPeer(u) \/ NoLivePeer \/ CreateFails
    BY <2>3 DEF MapPeer, NoLivePeer, CreateFails
  <2>4. CASE LookupAgain(u)
    <3>1. holds[u] # NoPeer /\ (UNCHANGED vars \/ Drop(u))
      BY <2>1, <2>4 DEF LookupAgain, Drop, LoopInv, vars
    <3>2. QED
      BY <2>1, <3>1
  <2>5. CASE OnRemoteSdp(u)
    BY <2>1, <2>5 DEF OnRemoteSdp
  <2>6. ASSUME NEW p \in Peers, CreatePeer(u, p) PROVE [RegistryUse]_vars
    BY <2>1, <2>6 DEF CreatePeer
  <2>7. QED
    BY <2>1, <2>2, <2>3, <2>4, <2>5, <2>6
<1>6. CASE UNCHANGED allVars
  BY <1>6 DEF allVars
<1>7. QED
  BY <1>1, <1>2, <1>3, <1>4, <1>5, <1>6 DEF MqttNext

(* The registry's own invariant is kept, then. *)
LEMMA InvKept == ASSUME PeerInv, [RegistryUse]_vars PROVE PeerInv'
BY InvStep DEF RegistryUse, Moves, Uses, Next, MainStep, UserStep

(* An expired id stays what it is until it is reported. *)
LEMMA SweptKeeps == ASSUME PeerInv, SweptInv, [RegistryUse]_vars PROVE SweptInv'
<1> USE ThreadFacts DEF SweptInv
<1>0. TypeOK /\ OneOwner /\ Stages /\ FreshPeer
  BY DEF PeerInv
<1> USE <1>0 DEF TypeOK, LinkStates, OneOwner, Stages, FreshPeer
<1>1. CASE PeerEvent
  <2>1. ASSUME NEW p \in Peers, OnConnected(p) PROVE SweptInv'
    BY <2>1 DEF OnConnected, cleanerVars, custodyVars
  <2>2. ASSUME NEW p \in Peers, OnFailed(p) PROVE SweptInv'
    BY <2>2 DEF OnFailed, cleanerVars, custodyVars
  <2>3. ASSUME NEW p \in Peers, OnRemoteClosed(p) PROVE SweptInv'
    BY <2>3 DEF OnRemoteClosed, ReportClosed, MarkExpired, cleanerVars, custodyVars
  <2>4. ASSUME NEW p \in Peers, DeadlineTask(p) PROVE SweptInv'
    BY <2>4 DEF DeadlineTask, ReportClosed, MarkExpired, cleanerVars, custodyVars
  <2>5. QED
    BY <1>1, <2>1, <2>2, <2>3, <2>4 DEF PeerEvent
<1>2. CASE ExpiryTask \/ Wake
  BY <1>2 DEF ExpiryTask, Wake, peerVars, cleanerVars, custodyVars
<1>3. CASE Terminate
  <2>1. ASSUME NEW t \in Threads, NEW p \in Peers, TerminateFlags(t, p) PROVE SweptInv'
    BY <2>1 DEF TerminateFlags, cleanerVars
  <2>2. ASSUME NEW t \in Threads, TerminateClose(t) PROVE SweptInv'
    BY <2>2 DEF TerminateClose, cleanerVars
  <2>3. QED
    BY <1>3, <2>1, <2>2 DEF Terminate
<1>4. CASE CleanerStep
  <2>1. CASE CleanerAwake \/ CleanerStopped \/ CleanerTake \/ SweepDone
    BY <2>1 DEF CleanerAwake, CleanerStopped, CleanerTake, SweepDone, peerVars, custodyVars
  <2>2. CASE Sweep
    BY <2>2 DEF Sweep, Expired, peerVars
  <2>3. QED
    BY <1>4, <2>1, <2>2 DEF CleanerStep
<1>5. CASE Start \/ StopFlag \/ StopAbort \/ StopDone
  BY <1>5 DEF Start, StopFlag, StopAbort, StopDone, peerVars, cleanerVars, custodyVars
<1>6. CASE StopSwap
  BY <1>6 DEF StopSwap, peerVars, cleanerVars
<1>7. ASSUME NEW p \in Peers, ReportExpired(p) PROVE SweptInv'
  BY <1>7 DEF ReportExpired, peerVars, custodyVars
<1>8. ASSUME NEW u \in Users, ApplyOffer(u) \/ Drop(u) \/ \E p \in Peers : Get(u, p) PROVE SweptInv'
  BY <1>8 DEF ApplyOffer, SetRemoteOffer, Drop, Get, peerVars, cleanerVars, custodyVars
<1>9. ASSUME NEW u \in Users, NEW p \in Peers, Add(u, p) PROVE SweptInv'
  BY <1>9 DEF Add, Free, cleanerVars
<1>10. CASE UNCHANGED vars
  BY <1>10 DEF vars, peerVars, cleanerVars, custodyVars
<1>11. QED
  BY <1>1, <1>2, <1>3, <1>4, <1>5, <1>6, <1>7, <1>8, <1>9, <1>10 DEF RegistryUse, Moves, Uses

\* Peers only go: none that was created is found or open again, and whoever creates one holds it.
Wane ==
  \A p \in Peers :
    /\ link[p] # "none" => link'[p] # "none" /\ (Found(p)' => Found(p)) /\ (Open(p)' => Open(p))
    /\ link[p] = "none" /\ link'[p] # "none" => \E u \in Users : holds[u] = NoPeer /\ holds'[u] = p

(* Only Add brings a peer, and once. *)
LEMMA PeersWane == ASSUME PeerInv, [RegistryUse]_vars PROVE Wane
<1> USE DEF Wane, Found, Open
<1>0. TypeOK /\ FreshPeer
  BY DEF PeerInv
<1> USE <1>0 DEF TypeOK, LinkStates, FreshPeer
<1>1. CASE PeerEvent
  <2>1. ASSUME NEW p \in Peers, OnConnected(p) PROVE Wane
    BY <2>1 DEF OnConnected, custodyVars
  <2>2. ASSUME NEW p \in Peers, OnFailed(p) PROVE Wane
    BY <2>2 DEF OnFailed, custodyVars
  <2>3. ASSUME NEW p \in Peers, OnRemoteClosed(p) PROVE Wane
    BY <2>3 DEF OnRemoteClosed, ReportClosed, MarkExpired, custodyVars
  <2>4. ASSUME NEW p \in Peers, DeadlineTask(p) PROVE Wane
    BY <2>4 DEF DeadlineTask, ReportClosed, MarkExpired, custodyVars
  <2>5. QED
    BY <1>1, <2>1, <2>2, <2>3, <2>4 DEF PeerEvent
<1>2. CASE ExpiryTask \/ Wake
  BY <1>2 DEF ExpiryTask, Wake, peerVars, custodyVars
<1>3. CASE Terminate
  <2>1. ASSUME NEW t \in Threads, NEW p \in Peers, TerminateFlags(t, p) PROVE Wane
    BY <2>1 DEF TerminateFlags
  <2>2. ASSUME NEW t \in Threads, TerminateClose(t) PROVE Wane
    <3>1. closing[t] \in Peers /\ link' = [link EXCEPT ![closing[t]] = "released"]
      BY <2>2 DEF TerminateClose
    <3>2. link[closing[t]] # "none"
      BY <2>2, <3>1 DEF TerminateClose, PeerInv, OneOwner
    <3>3. QED
      BY <2>2, <3>1, <3>2 DEF TerminateClose
  <2>3. QED
    BY <1>3, <2>1, <2>2 DEF Terminate
<1>4. CASE CleanerStep \/ \E p \in Peers : ReportExpired(p)
  BY <1>4 DEF CleanerStep, CleanerAwake, CleanerStopped, CleanerTake, Sweep, SweepDone, ReportExpired, peerVars, custodyVars
<1>5. CASE Start \/ StopFlag \/ StopAbort \/ StopSwap \/ StopDone
  BY <1>5 DEF Start, StopFlag, StopAbort, StopSwap, StopDone, peerVars, custodyVars
<1>6. ASSUME NEW u \in Users, ApplyOffer(u) \/ Drop(u) \/ \E p \in Peers : Get(u, p) PROVE Wane
  BY <1>6 DEF ApplyOffer, SetRemoteOffer, Drop, Get, peerVars, custodyVars
<1>7. ASSUME NEW u \in Users, NEW p \in Peers, Add(u, p) PROVE Wane
  BY <1>7 DEF Add, Free
<1>8. CASE UNCHANGED vars
  BY <1>8 DEF vars, peerVars, custodyVars
<1>9. QED
  BY <1>1, <1>2, <1>3, <1>4, <1>5, <1>6, <1>7, <1>8 DEF RegistryUse, Moves, Uses

-------------------------------------------------------------------------------
(* The maps, one action of the service at a time. *)

Parts == /\ MqttTypeOK /\ LoopInv /\ MapsAgree /\ LivePeerIsMapped /\ HandlerInv
         /\ AnswersKnown /\ AnswerGoesHome /\ NoSdpLost

(* The invariant of the maps, part by part. *)
LEMMA PartsOfMapInv == (MapInv <=> Parts) /\ (MapInv' <=> Parts')
BY DEF MapInv, MqttInv, AnswersGoHome, Parts

(* Steps of the registry alone only take live peers away. *)
LEMMA QuietKeeps ==
  ASSUME MapInv, PeerInv', Wane, UNCHANGED mqttVars, holds' = holds, at # "idle" => main' = "run"
  PROVE  MapInv'
<1> USE ThreadFacts DEF mqttVars, mapVars, messageVars
<1>0. Parts
  BY PartsOfMapInv
<1>1. MqttTypeOK'
  BY <1>0 DEF Parts, MqttTypeOK, PeerInv
<1>2. LoopInv' /\ MapsAgree' /\ AnswerGoesHome' /\ NoSdpLost'
  BY <1>0 DEF Parts, LoopInv, MapsAgree, AnswerGoesHome, NoSdpLost
<1>3. \A p \in Peers : (link'[p] = "none" <=> link[p] = "none") /\ (Found(p)' => Found(p)) /\ (Open(p)' => Open(p))
  <2> SUFFICES ASSUME NEW p \in Peers, link[p] = "none"
               PROVE  link'[p] = "none" /\ ~Found(p)' /\ ~Open(p)'
    BY DEF Wane
  <2>1. link'[p] = "none"
    BY DEF Wane
  <2>2. QED
    BY <2>1 DEF PeerInv, OneOwner, Found, Open
<1>4. LivePeerIsMapped'
  BY <1>0, <1>3 DEF Parts, LivePeerIsMapped
<1>5. AnswersKnown'
  BY <1>0, <1>3 DEF Parts, AnswersKnown
<1>6. HandlerInv'
  <2>1. \A p \in Peers : Known(p) => Known(p)'
    BY <1>3 DEF Known
  <2>2. mapped \in Peers \cup {NoPeer} /\ peerOf \in [Clients -> Peers \cup {NoPeer}] /\ holds \in [Users -> Peers \cup {NoPeer}]
    BY <1>0 DEF Parts, MqttTypeOK, TypeOK
  <2>3. HandlerInv /\ LoopInv
    BY <1>0 DEF Parts
  <2>4. at \in {"apply", "set"} => \A u \in Users : Known(holds[u])'
    BY <2>1, <2>2, <2>3 DEF HandlerInv, LoopInv
  <2>5. at = "get" /\ mapped # NoPeer => Known(mapped)'
    BY <2>1, <2>2, <2>3 DEF HandlerInv
  <2>6. at \in {"create", "map"} => peerOf[from] = NoPeer \/ ~Found(peerOf[from])'
    BY <1>3, <2>2, <2>3 DEF HandlerInv, LoopInv
  <2>7. at = "map" => \A u \in Users : link'[holds[u]] # "none"
    BY <1>3, <2>2, <2>3 DEF HandlerInv, LoopInv
  <2>8. QED
    BY <1>3, <2>3, <2>4, <2>5, <2>6, <2>7 DEF HandlerInv
<1>7. QED
  BY <1>1, <1>2, <1>4, <1>5, <1>6, PartsOfMapInv DEF Parts

(* The loop thread takes a message and looks for its client's peer. *)
LEMMA OnMessageKeeps ==
  ASSUME MapInv, PeerInv, PeerInv', NEW u \in Users, NEW c \in Clients, NEW isOffer \in BOOLEAN, OnMessage(u, c, isOffer)
  PROVE  MapInv'
<1> USE DEF mapVars, vars, peerVars, custodyVars, cleanerVars, taskVars
<1>0. Parts /\ at = "idle" /\ at' = "get" /\ from' = c /\ mapped' = peerOf[c] /\ offering' = isOffer
      /\ main = "run" /\ UNCHANGED <<vars, mapVars, due, lost>>
  BY PartsOfMapInv DEF OnMessage, Free
<1>1. MqttTypeOK'
  BY <1>0 DEF Parts, MqttTypeOK, PeerInv
<1>2. LoopInv' /\ MapsAgree' /\ AnswerGoesHome' /\ NoSdpLost' /\ AnswersKnown'
  BY <1>0 DEF Parts, LoopInv, MapsAgree, AnswerGoesHome, NoSdpLost, AnswersKnown, Open
<1>3. LivePeerIsMapped'
  BY <1>0 DEF Parts, LivePeerIsMapped, Found
<1>4. HandlerInv'
  <2>1. mapped' # NoPeer => mapped' \in Peers /\ clientOf[mapped'] = c
    BY <1>0 DEF Parts, MapsAgree, MqttTypeOK
  <2>2. mapped' # NoPeer => link[mapped'] # "none"
    BY <1>0, <2>1, NoClientAssumption DEF Parts, HandlerInv
  <2>3. mapped' # NoPeer => Known(mapped)'
    BY <1>0, <2>1, <2>2 DEF Known
  <2>4. QED
    BY <1>0, <2>3 DEF Parts, HandlerInv
<1>5. QED
  BY <1>1, <1>2, <1>3, <1>4, PartsOfMapInv DEF Parts

(* A live peer that Get returns is the client's, or was when the message came. *)
LEMMA GetMappedKeeps ==
  ASSUME MapInv, PeerInv, PeerInv', NEW u \in Users, GetMapped(u)
  PROVE  MapInv'
<1> USE DEF mapVars, peerVars, custodyVars, cleanerVars, taskVars
<1>0. Parts /\ at = "get" /\ at' = "apply" /\ mapped \in Peers /\ holds' = [holds EXCEPT ![u] = mapped]
      /\ UNCHANGED <<from, offering, mapped, mapVars, due, lost, peerVars, peers, main>>
  BY PartsOfMapInv DEF GetMapped, Get, Found, PeerInv, TypeOK
<1>1. MqttTypeOK'
  BY <1>0 DEF Parts, MqttTypeOK, PeerInv
<1>2. Users = {u}
  BY LoopThreadAssumption
<1>3. holds'[u] = mapped
  BY <1>0 DEF Parts, MqttTypeOK, TypeOK
<1>4. LoopInv' /\ MapsAgree' /\ AnswerGoesHome' /\ NoSdpLost' /\ AnswersKnown'
  BY <1>0, <1>2, <1>3, ThreadFacts DEF Parts, LoopInv, MapsAgree, AnswerGoesHome, NoSdpLost, AnswersKnown, Open
<1>5. LivePeerIsMapped'
  BY <1>0 DEF Parts, LivePeerIsMapped, Found
<1>6. HandlerInv'
  <2>1. Known(mapped)
    BY <1>0, ThreadFacts DEF Parts, HandlerInv
  <2>2. Known(holds[u])'
    BY <1>0, <1>3, <2>1 DEF Known, Open
  <2>3. QED
    BY <1>0, <1>2, <2>2 DEF Parts, HandlerInv
<1>7. QED
  BY <1>1, <1>4, <1>5, <1>6, PartsOfMapInv DEF Parts

(* A client without a live peer is given one; the registry has it before the maps do. *)
LEMMA CreateKeeps ==
  ASSUME MapInv, PeerInv, PeerInv', Wane, NoLivePeer \/ CreateFails \/ \E u \in Users, p \in Peers : CreatePeer(u, p)
  PROVE  MapInv'
<1> USE DEF mapVars, vars, peerVars, custodyVars, cleanerVars, taskVars
<1>0. Parts
  BY PartsOfMapInv
<1>1. CASE NoLivePeer \/ CreateFails
  <2>0. UNCHANGED <<vars, mapVars, due, lost>>
    BY <1>1 DEF NoLivePeer, CreateFails
  <2>1. MqttTypeOK'
    BY <1>0, <1>1, <2>0 DEF NoLivePeer, CreateFails, MessageDone, Parts, MqttTypeOK, PeerInv
  <2>2. LoopInv'
    BY <1>0, <1>1, <2>0 DEF NoLivePeer, CreateFails, MessageDone, Parts, LoopInv
  <2>3. MapsAgree' /\ AnswerGoesHome' /\ NoSdpLost' /\ AnswersKnown'
    BY <1>0, <2>0 DEF Parts, MapsAgree, AnswerGoesHome, NoSdpLost, AnswersKnown, Open
  <2>4. LivePeerIsMapped'
    BY <1>0, <1>1, <2>0 DEF NoLivePeer, CreateFails, MessageDone, Parts, LivePeerIsMapped, Found
  <2>5. HandlerInv'
    BY <1>0, <1>1, <2>0 DEF NoLivePeer, CreateFails, MessageDone, Parts, HandlerInv, Found
  <2>6. QED
    BY <2>1, <2>2, <2>3, <2>4, <2>5, PartsOfMapInv DEF Parts
<1>2. ASSUME NEW u \in Users, NEW p \in Peers, CreatePeer(u, p) PROVE MapInv'
  <2>0. /\ at = "create" /\ at' = "map" /\ link[p] = "none" /\ link' = [link EXCEPT ![p] = "new"]
        /\ peers' = peers \cup {p} /\ holds' = [holds EXCEPT ![u] = p]
        /\ UNCHANGED <<expired, from, offering, mapped, mapVars, due, lost, main>>
    BY <1>2 DEF CreatePeer, Add
  <2>1. MqttTypeOK' /\ TypeOK
    BY <1>0, <2>0 DEF Parts, MqttTypeOK, PeerInv
  <2>2. Users = {u} /\ holds'[u] = p /\ p # NoPeer
    BY <2>0, <2>1, LoopThreadAssumption, ThreadFacts DEF TypeOK
  <2>3. LoopInv' /\ MapsAgree' /\ AnswerGoesHome' /\ NoSdpLost'
    BY <1>0, <2>0, <2>2 DEF Parts, LoopInv, MapsAgree, AnswerGoesHome, NoSdpLost
  <2>4. clientOf[p] = NoClient /\ due[p] = NoClient
    BY <1>0, <2>0 DEF Parts, HandlerInv
  <2>5. \A q \in Peers : q # p => (Found(q)' <=> Found(q)) /\ (Open(q)' <=> Open(q)) /\ link'[q] = link[q]
    BY <2>0, <2>1 DEF Found, Open, TypeOK
  <2>6. AnswersKnown'
    BY <1>0, <2>0, <2>4, <2>5 DEF Parts, AnswersKnown
  <2>7. LivePeerIsMapped'
    BY <1>0, <2>0, <2>2, <2>5 DEF Parts, LivePeerIsMapped
  <2>8. peerOf[from] \in Peers => peerOf[from] # p
    BY <1>0, <2>0, <2>4, NoClientAssumption, ThreadFacts DEF Parts, MapsAgree, LoopInv
  <2>9. HandlerInv'
    <3>1. link'[p] = "new" /\ from \in Clients
      BY <1>0, <2>0, <2>1 DEF TypeOK, Parts, LoopInv
    <3>2. peerOf[from] = NoPeer \/ ~Found(peerOf[from])'
      BY <1>0, <2>0, <2>5, <2>8, <3>1 DEF Parts, HandlerInv, MqttTypeOK
    <3>3. \A q \in Peers : link'[q] = "none" => clientOf[q] = NoClient /\ due[q] = NoClient
      BY <1>0, <2>5, <3>1 DEF Parts, HandlerInv
    <3>4. QED
      BY <2>0, <2>2, <2>4, <3>1, <3>2, <3>3 DEF HandlerInv
  <2>10. QED
    BY <2>1, <2>3, <2>6, <2>7, <2>9, PartsOfMapInv DEF Parts
<1>3. QED
  BY <1>1, <1>2

(* MapPeer writes the entries of a peer that has none, over those of one that is gone. *)
LEMMA MapPeerKeeps ==
  ASSUME MapInv, PeerInv, PeerInv', NEW u \in Users, MapPeer(u)
  PROVE  MapInv'
<1> USE DEF vars, peerVars, custodyVars, cleanerVars, taskVars
<1>0. Parts /\ at = "map" /\ at' = "apply" /\ UNCHANGED <<vars, from, offering, mapped, due, lost>>
      /\ peerOf' = [peerOf EXCEPT ![from] = holds[u]] /\ clientOf' = [clientOf EXCEPT ![holds[u]] = from]
  BY PartsOfMapInv DEF MapPeer
<1>1. Users = {u} /\ holds[u] \in Peers /\ from \in Clients
  BY <1>0, LoopThreadAssumption DEF Parts, LoopInv, MqttTypeOK, TypeOK
<1>2. /\ peerOf'[from] = holds[u] /\ \A c \in Clients : c # from => peerOf'[c] = peerOf[c]
      /\ clientOf'[holds[u]] = from /\ \A p \in Peers : p # holds[u] => clientOf'[p] = clientOf[p]
      /\ peerOf' \in [Clients -> Peers \cup {NoPeer}] /\ clientOf' \in [Peers -> Clients \cup {NoClient}]
  BY <1>0, <1>1 DEF Parts, MqttTypeOK
<1>3. clientOf[holds[u]] = NoClient /\ due[holds[u]] = NoClient /\ link[holds[u]] # "none"
      /\ (peerOf[from] = NoPeer \/ ~Found(peerOf[from]))
  BY <1>0, <1>1, NoClientAssumption DEF Parts, HandlerInv
<1>4. MqttTypeOK'
  BY <1>0, <1>2 DEF Parts, MqttTypeOK, PeerInv
<1>5. MapsAgree' /\ AnswerGoesHome' /\ NoSdpLost' /\ LoopInv' /\ AnswersKnown'
  BY <1>0, <1>1, <1>2, <1>3, NoClientAssumption
  DEF Parts, MqttTypeOK, MapsAgree, AnswerGoesHome, NoSdpLost, LoopInv, AnswersKnown, Open
<1>6. LivePeerIsMapped'
  <2> SUFFICES ASSUME NEW p \in Peers, Found(p)' PROVE clientOf'[p] # NoClient /\ peerOf'[clientOf'[p]] = p
    BY <1>0 DEF LivePeerIsMapped
  <2>1. Found(p)
    BY <1>0 DEF Found
  <2>2. CASE p = holds[u]
    BY <1>1, <1>2, <2>2, NoClientAssumption
  <2>3. CASE p # holds[u]
    <3>1. clientOf[p] # NoClient /\ peerOf[clientOf[p]] = p
      BY <1>0, <1>1, <2>1, <2>3 DEF Parts, LivePeerIsMapped
    <3>2. clientOf[p] # from /\ clientOf[p] \in Clients
      BY <1>0, <1>3, <2>1, <3>1, ThreadFacts DEF Parts, MqttTypeOK
    <3>3. QED
      BY <1>2, <2>3, <3>1, <3>2
  <2>4. QED
    BY <2>2, <2>3
<1>7. HandlerInv'
  BY <1>0, <1>1, <1>2, <1>3 DEF Parts, HandlerInv, Known
<1>8. QED
  BY <1>4, <1>5, <1>6, <1>7, PartsOfMapInv DEF Parts

(* The message is applied to the peer that the thread holds. *)
LEMMA LookupAgainKeeps ==
  ASSUME MapInv, PeerInv, PeerInv', NEW u \in Users, LookupAgain(u)
  PROVE  MapInv'
<1> USE DEF mapVars, peerVars, custodyVars, cleanerVars, taskVars
<1>0. Parts /\ at = "apply" /\ UNCHANGED <<peerVars, peers, main, mapVars, due, lost>>
  BY PartsOfMapInv DEF LookupAgain
<1>1. CASE at' = "set" /\ UNCHANGED <<holds, from, offering, mapped>>
  <2>1. MqttTypeOK'
    BY <1>0, <1>1 DEF Parts, MqttTypeOK, PeerInv
  <2>2. LoopInv' /\ MapsAgree' /\ AnswerGoesHome' /\ NoSdpLost' /\ AnswersKnown' /\ LivePeerIsMapped'
    BY <1>0, <1>1 DEF Parts, LoopInv, MapsAgree, AnswerGoesHome, NoSdpLost, AnswersKnown, LivePeerIsMapped, Open, Found
  <2>3. HandlerInv'
    BY <1>0, <1>1 DEF Parts, HandlerInv, Known, Open
  <2>4. QED
    BY <2>1, <2>2, <2>3, PartsOfMapInv DEF Parts
<1>2. CASE MessageDone /\ holds' = [holds EXCEPT ![u] = NoPeer]
  <2>1. MqttTypeOK' /\ Users = {u}
    BY <1>0, <1>2, LoopThreadAssumption DEF Parts, MqttTypeOK, PeerInv, MessageDone
  <2>2. LoopInv'
    BY <1>0, <1>2, <2>1 DEF Parts, LoopInv, MessageDone, MqttTypeOK, TypeOK
  <2>3. MapsAgree' /\ AnswerGoesHome' /\ NoSdpLost' /\ AnswersKnown' /\ LivePeerIsMapped' /\ HandlerInv'
    BY <1>0, <1>2 DEF Parts, MessageDone, MapsAgree, AnswerGoesHome, NoSdpLost, AnswersKnown, LivePeerIsMapped, HandlerInv, Open, Found
  <2>4. QED
    BY <2>1, <2>2, <2>3, PartsOfMapInv DEF Parts
<1>3. QED
  BY <1>1, <1>2 DEF LookupAgain

(* An open peer that is offered to will answer to the client that offered. *)
LEMMA OnRemoteSdpKeeps ==
  ASSUME MapInv, PeerInv, PeerInv', NEW u \in Users, OnRemoteSdp(u)
  PROVE  MapInv'
<1> USE DEF mapVars, custodyVars, cleanerVars, taskVars
<1>0. /\ Parts /\ at = "set" /\ MessageDone /\ UNCHANGED <<link, expired, peers, main, mapVars, lost>>
      /\ holds[u] # NoPeer /\ holds' = [holds EXCEPT ![u] = NoPeer]
      /\ due' = IF Open(holds[u]) THEN [due EXCEPT ![holds[u]] = from] ELSE due
  BY PartsOfMapInv DEF OnRemoteSdp, ApplyOffer, SetRemoteOffer
<1>1. Users = {u} /\ holds[u] \in Peers /\ from \in Clients /\ Known(holds[u])
  BY <1>0, LoopThreadAssumption DEF Parts, LoopInv, MqttTypeOK, TypeOK, HandlerInv
<1>2. MqttTypeOK'
  BY <1>0, <1>1 DEF Parts, MqttTypeOK, PeerInv, MessageDone
<1>3. LoopInv'
  BY <1>0, <1>1, <1>2 DEF Parts, LoopInv, MessageDone, MqttTypeOK, TypeOK
<1>4. MapsAgree' /\ NoSdpLost' /\ LivePeerIsMapped'
  BY <1>0 DEF Parts, MessageDone, MapsAgree, NoSdpLost, LivePeerIsMapped, Found
<1>5. \A p \in Peers : p # holds[u] => due'[p] = due[p]
  BY <1>0 DEF Parts, MqttTypeOK
<1>6. due'[holds[u]] = due[holds[u]] \/ (due'[holds[u]] = from /\ clientOf[holds[u]] = from)
  BY <1>0, <1>1 DEF Parts, MqttTypeOK, Known
<1>7. AnswerGoesHome' /\ AnswersKnown'
  BY <1>0, <1>1, <1>5, <1>6, NoClientAssumption DEF Parts, AnswerGoesHome, AnswersKnown, Open
<1>8. HandlerInv'
  BY <1>0, <1>1, <1>5, <1>6, NoClientAssumption DEF Parts, HandlerInv, MessageDone, Known
<1>9. QED
  BY <1>2, <1>3, <1>4, <1>7, <1>8, PartsOfMapInv DEF Parts

(* An answer leaves while its peer is open, so it has a client to go to. *)
LEMMA OnLocalSdpKeeps ==
  ASSUME MapInv, PeerInv, PeerInv', NEW p \in Peers, OnLocalSdp(p)
  PROVE  MapInv'
<1> USE DEF mapVars, messageVars, vars, peerVars, custodyVars, cleanerVars, taskVars
<1>0. Parts /\ due' = [due EXCEPT ![p] = NoClient] /\ UNCHANGED <<vars, mapVars, messageVars>>
  BY PartsOfMapInv DEF OnLocalSdp
<1>1. clientOf[p] # NoClient /\ lost' = lost
  BY <1>0 DEF OnLocalSdp, Parts, AnswersKnown
<1>2. MqttTypeOK'
  BY <1>0, <1>1 DEF Parts, MqttTypeOK, PeerInv
<1>3. LoopInv' /\ MapsAgree' /\ LivePeerIsMapped' /\ NoSdpLost'
  BY <1>0, <1>1 DEF Parts, LoopInv, MapsAgree, LivePeerIsMapped, NoSdpLost, Found
<1>4. \A q \in Peers : due'[q] = NoClient \/ due'[q] = due[q]
  BY <1>0 DEF Parts, MqttTypeOK
<1>5. AnswerGoesHome' /\ AnswersKnown'
  BY <1>0, <1>4 DEF Parts, AnswerGoesHome, AnswersKnown, Open
<1>6. HandlerInv'
  <2>1. at = "map" => \A u \in Users : holds[u] \in Peers
    BY <1>0 DEF Parts, LoopInv, MqttTypeOK, TypeOK
  <2>2. QED
    BY <1>0, <1>4, <2>1 DEF Parts, HandlerInv, Known, Open, Found
<1>7. QED
  BY <1>2, <1>3, <1>5, <1>6, PartsOfMapInv DEF Parts

(* The entries of a peer that the sweep has closed, and of no other, are erased. *)
LEMMA PeerExpiredKeeps ==
  ASSUME MapInv, SweptInv, PeerInv, PeerInv', NEW p \in Peers, ReportExpired(p), OnPeerExpired(p)
  PROVE  MapInv'
<1> USE DEF messageVars, peerVars, custodyVars, taskVars
<1>0. /\ Parts /\ UNCHANGED <<link, expired, peers, main, holds, messageVars, due, lost>>
      /\ peerOf' = [c \in Clients |-> IF c = clientOf[p] /\ peerOf[c] = p THEN NoPeer ELSE peerOf[c]]
      /\ clientOf' = [clientOf EXCEPT ![p] = NoClient]
  BY PartsOfMapInv DEF ReportExpired, OnPeerExpired
<1>1. ~Found(p) /\ link[p] = "released"
  BY DEF ReportExpired, SweptInv, Found
<1>2. MqttTypeOK'
  BY <1>0 DEF Parts, MqttTypeOK, PeerInv
<1>3. clientOf'[p] = NoClient /\ \A q \in Peers : q # p => clientOf'[q] = clientOf[q]
  BY <1>0 DEF Parts, MqttTypeOK
<1>4. \A c \in Clients : peerOf'[c] = peerOf[c] \/ (peerOf[c] = p /\ peerOf'[c] = NoPeer)
  BY <1>0
<1>5. MapsAgree'
  BY <1>0, <1>2, <1>3 DEF Parts, MapsAgree, MqttTypeOK
<1>6. LivePeerIsMapped'
  BY <1>0, <1>1, <1>2, <1>3, <1>4 DEF Parts, LivePeerIsMapped, Found, MqttTypeOK
<1>7. LoopInv' /\ NoSdpLost' /\ AnswerGoesHome' /\ AnswersKnown'
  BY <1>0, <1>1, <1>3 DEF Parts, LoopInv, NoSdpLost, AnswerGoesHome, AnswersKnown, Open
<1>8. HandlerInv'
  <2>1. \A q \in Peers : Known(q) => Known(q)'
    BY <1>0, <1>1, <1>3 DEF Known, Open
  <2>2. (at # "idle" => from \in Clients) /\ mapped \in Peers \cup {NoPeer}
        /\ (at \in {"map", "apply", "set"} => \A u \in Users : holds[u] \in Peers)
    BY <1>0 DEF Parts, LoopInv, MqttTypeOK, TypeOK
  <2>3. at = "get" => peerOf'[from] \in {mapped, NoPeer}
    BY <1>0, <1>4, <2>2 DEF Parts, HandlerInv
  <2>4. at \in {"create", "map"} => peerOf'[from] = NoPeer \/ ~Found(peerOf'[from])
    BY <1>0, <1>4, <2>2 DEF Parts, HandlerInv
  <2>5. \A q \in Peers : clientOf[q] = NoClient => clientOf'[q] = NoClient
    BY <1>3
  <2>6. at = "map" => \A u \in Users : clientOf'[holds[u]] = NoClient
    BY <1>0, <2>2, <2>5 DEF Parts, HandlerInv
  <2>7. QED
    BY <1>0, <2>1, <2>2, <2>3, <2>4, <2>5, <2>6 DEF Parts, HandlerInv, Found
<1>9. QED
  BY <1>2, <1>5, <1>6, <1>7, <1>8, PartsOfMapInv DEF Parts

(* When Disconnect clears the maps every peer is closed. *)
LEMMA DisconnectEndsKeeps ==
  ASSUME MapInv, SweptInv, PeerInv, PeerInv', DisconnectEnds
  PROVE  MapInv'
<1> USE DEF messageVars, peerVars, custodyVars, taskVars, cleanerVars
<1>0. /\ Parts /\ UNCHANGED <<link, expired, peers, hand, holds, messageVars, due, lost>>
      /\ main = "release" /\ hand["main"] = {} /\ main' = "done"
      /\ peerOf' = [c \in Clients |-> NoPeer] /\ clientOf' = [p \in Peers |-> NoClient]
  BY PartsOfMapInv DEF DisconnectEnds, StopDone
<1>1. peers = {} /\ \A t \in Threads : hand[t] = {}
  BY <1>0 DEF SweptInv, PeerInv, Stages, Threads
<1>2. \A p \in Peers : ~Open(p) /\ ~Found(p)
  BY <1>1 DEF PeerInv, NoOrphan, Open, Found
<1>3. MqttTypeOK'
  BY <1>0 DEF Parts, MqttTypeOK, PeerInv
<1>4. at = "idle"
  BY <1>0 DEF Parts, LoopInv
<1>5. LoopInv' /\ MapsAgree' /\ LivePeerIsMapped' /\ NoSdpLost' /\ AnswerGoesHome' /\ AnswersKnown' /\ HandlerInv'
  BY <1>0, <1>2, <1>4
  DEF Parts, LoopInv, MapsAgree, LivePeerIsMapped, NoSdpLost, AnswerGoesHome, AnswersKnown, HandlerInv, Open, Found
<1>6. QED
  BY <1>3, <1>5, PartsOfMapInv DEF Parts

-------------------------------------------------------------------------------

(* No peers and no entries at first. *)
LEMMA MqttInitial == MqttInit => IInv
<1> SUFFICES ASSUME MqttInit PROVE IInv
  OBVIOUS
<1>1. PeerInv
  BY InitInv DEF MqttInit
<1>2. SweptInv /\ LoopInv
  BY ThreadFacts DEF MqttInit, Init, SweptInv, LoopInv
<1>3. MqttTypeOK
  BY <1>1 DEF MqttInit, MqttTypeOK, PeerInv
<1>4. MapsAgree /\ LivePeerIsMapped /\ HandlerInv /\ AnswersKnown /\ AnswerGoesHome /\ NoSdpLost
  BY DEF MqttInit, Init, MapsAgree, LivePeerIsMapped, HandlerInv, AnswersKnown, AnswerGoesHome, NoSdpLost, Found
<1>5. QED
  BY <1>1, <1>2, <1>3, <1>4, PartsOfMapInv DEF IInv, Parts

(* One case for each kind of thread that acts. *)
LEMMA MqttStep == ASSUME IInv, [MqttNext]_allVars PROVE IInv'
<1>0. PeerInv /\ SweptInv /\ MapInv /\ LoopInv /\ TypeOK
  BY DEF IInv, MapInv, PeerInv
<1>1. PeerInv' /\ SweptInv' /\ Wane
  BY <1>0, IsRegistryUse, InvKept, SweptKeeps, PeersWane
<1>2. CASE RegistryStep
  <2>1. UNCHANGED mqttVars /\ holds' = holds /\ (main = "run" => main' = "run")
    BY <1>2 DEF RegistryStep, PeerEvent, OnConnected, OnFailed, OnRemoteClosed, DeadlineTask, ExpiryTask, Wake,
                Terminate, TerminateFlags, TerminateClose, CleanerStep, CleanerAwake, CleanerStopped, CleanerTake,
                Sweep, SweepDone, Start, StopAbort, StopSwap, Finished, vars
  <2>2. QED
    BY <1>0, <1>1, <2>1, QuietKeeps DEF IInv, LoopInv
<1>3. CASE DisconnectBegins
  BY <1>0, <1>1, <1>3, QuietKeeps DEF IInv, DisconnectBegins, StopFlag
<1>4. CASE PeerExpired
  BY <1>0, <1>1, <1>4, PeerExpiredKeeps DEF IInv, PeerExpired
<1>5. CASE \E p \in Peers : OnLocalSdp(p)
  BY <1>0, <1>1, <1>5, OnLocalSdpKeeps DEF IInv
<1>6. CASE \E u \in Users, c \in Clients, isOffer \in BOOLEAN : OnMessage(u, c, isOffer)
  BY <1>0, <1>1, <1>6, OnMessageKeeps DEF IInv
<1>7. CASE OnMessageStep
  BY <1>0, <1>1, <1>7, GetMappedKeeps, CreateKeeps, MapPeerKeeps, LookupAgainKeeps, OnRemoteSdpKeeps DEF IInv, OnMessageStep
<1>8. CASE DisconnectEnds
  BY <1>0, <1>1, <1>8, DisconnectEndsKeeps DEF IInv
<1>9. CASE UNCHANGED allVars
  BY <1>0, <1>1, <1>9, QuietKeeps DEF IInv, allVars, vars, LoopInv
<1>10. QED
  BY <1>2, <1>3, <1>4, <1>5, <1>6, <1>7, <1>8, <1>9 DEF MqttNext

(* The inductive invariant holds of every reachable state of the service. *)
THEOREM ServiceInvariant == MqttSpec => []IInv
<1>1. MqttInit => IInv
  BY MqttInitial
<1>2. IInv /\ [MqttNext]_allVars => IInv'
  BY MqttStep
<1>3. QED
  BY <1>1, <1>2, PTL DEF MqttSpec

(* The two maps agree and every live peer is the peer of one client, while the loop *)
(* thread, the cleaner and the signaling thread use them (OnMessage, OnPeerExpired). *)
THEOREM MapsAlwaysAgree == MqttSpec => []MqttInv
<1>1. IInv => MqttInv
  BY DEF IInv, MapInv
<1>2. QED
  BY <1>1, ServiceInvariant, PTL

(* Every answer has a client, and it is the one that offered (OnLocalSdp). *)
THEOREM AnswersAlwaysGoHome == MqttSpec => []AnswersGoHome
<1>1. IInv => AnswersGoHome
  BY DEF IInv, MapInv
<1>2. QED
  BY <1>1, ServiceInvariant, PTL

(* A live peer stays its client's through every step, the cleaner's and a reconnect's *)
(* too: MapPeer overwrites only what is gone, OnPeerExpired erases only its own.      *)
THEOREM LivePeerKeepsClient == MqttSpec => ClientKeepsPeer
<1> DEFINE Keeps == \A c \in Clients, p \in Peers :
                      peerOf[c] = p /\ Found(p) /\ p \in peers' /\ ~expired'[p] => peerOf'[c] = p
<1>1. IInv /\ [MqttNext]_allVars => [Keeps]_allVars
  <2> SUFFICES ASSUME IInv, MqttNext, NEW c \in Clients, NEW p \in Peers, peerOf[c] = p, Found(p), p \in peers'
               PROVE  peerOf'[c] = p
    OBVIOUS
  <2>0. Parts /\ SweptInv
    BY PartsOfMapInv DEF IInv
  <2>1. CASE \E u \in Users : MapPeer(u)
    <3>1. PICK u \in Users : MapPeer(u)
      BY <2>1
    <3>2. peerOf' = [peerOf EXCEPT ![from] = holds[u]] /\ at = "map"
      BY <3>1 DEF MapPeer
    <3>3. c # from
      BY <2>0, <3>2, ThreadFacts DEF Parts, HandlerInv
    <3>4. QED
      BY <2>0, <3>2, <3>3 DEF Parts, MqttTypeOK
  <2>2. CASE PeerExpired
    <3>1. PICK q \in Peers : ReportExpired(q) /\ OnPeerExpired(q)
      BY <2>2 DEF PeerExpired
    <3>2. p # q
      BY <2>0, <3>1 DEF ReportExpired, SweptInv, Found
    <3>3. QED
      BY <3>1, <3>2 DEF OnPeerExpired
  <2>3. CASE DisconnectEnds
    BY <2>0, <2>3 DEF DisconnectEnds, StopDone, SweptInv, custodyVars
  <2>4. CASE peerOf' = peerOf
    BY <2>4
  <2>5. QED
    BY <2>1, <2>2, <2>3, <2>4
    DEF MqttNext, RegistryStep, OnLocalSdp, OnMessage, OnMessageStep, GetMapped, LookupAgain, OnRemoteSdp, CreatePeer,
        NoLivePeer, CreateFails, DisconnectBegins, mqttVars, mapVars
<1>2. QED
  BY <1>1, ServiceInvariant, PTL DEF MqttSpec, ClientKeepsPeer

-------------------------------------------------------------------------------
(* MqttService implements ClientDirectory. *)

\* Whoever is mapped was created, and a peer that was just created is live.
LEMMA MappedIsCreated ==
  ASSUME IInv, NEW c \in Clients, peerOf[c] # NoPeer
  PROVE  peerOf[c] \in Peers /\ link[peerOf[c]] # "none" /\ clientOf[peerOf[c]] = c /\ c # NoClient
<1>1. Parts
  BY PartsOfMapInv DEF IInv
<1>2. peerOf[c] \in Peers
  BY <1>1 DEF Parts, MqttTypeOK
<1>3. clientOf[peerOf[c]] = c /\ c # NoClient
  BY <1>1, NoClientAssumption DEF Parts, MapsAgree
<1>4. QED
  BY <1>1, <1>2, <1>3 DEF Parts, HandlerInv

LEMMA NewIsLive ==
  ASSUME PeerInv, [RegistryUse]_vars, NEW p \in Peers, link[p] = "none", link'[p] # "none"
  PROVE  Found(p)'
<1> USE DEF Found
<1>0. TypeOK /\ FreshPeer
  BY DEF PeerInv
<1> USE <1>0 DEF TypeOK, LinkStates, FreshPeer
<1>1. CASE PeerEvent
  BY <1>1 DEF PeerEvent, OnConnected, OnFailed, OnRemoteClosed, DeadlineTask, ReportClosed, MarkExpired
<1>2. CASE ExpiryTask \/ Wake
  BY <1>2 DEF ExpiryTask, Wake, peerVars
<1>3. CASE Terminate
  <2>1. ASSUME NEW t \in Threads, NEW q \in Peers, TerminateFlags(t, q) PROVE FALSE
    BY <2>1 DEF TerminateFlags
  <2>2. ASSUME NEW t \in Threads, TerminateClose(t) PROVE FALSE
    <3>1. closing[t] \in Peers /\ link' = [link EXCEPT ![closing[t]] = "released"]
      BY <2>2 DEF TerminateClose
    <3>2. link[closing[t]] # "none"
      BY <2>2, <3>1 DEF TerminateClose, PeerInv, OneOwner
    <3>3. QED
      BY <3>1, <3>2
  <2>3. QED
    BY <1>3, <2>1, <2>2 DEF Terminate
<1>4. CASE CleanerStep \/ \E q \in Peers : ReportExpired(q)
  BY <1>4 DEF CleanerStep, CleanerAwake, CleanerStopped, CleanerTake, Sweep, SweepDone, ReportExpired, peerVars
<1>5. CASE Start \/ StopFlag \/ StopAbort \/ StopSwap \/ StopDone
  BY <1>5 DEF Start, StopFlag, StopAbort, StopSwap, StopDone, peerVars
<1>6. ASSUME NEW u \in Users, ApplyOffer(u) \/ Drop(u) \/ \E q \in Peers : Get(u, q) PROVE FALSE
  BY <1>6 DEF ApplyOffer, SetRemoteOffer, Drop, Get, peerVars
<1>7. ASSUME NEW u \in Users, NEW q \in Peers, Add(u, q) PROVE Found(p)'
  BY <1>7 DEF Add
<1>8. CASE UNCHANGED vars
  BY <1>8 DEF vars, peerVars
<1>9. QED
  BY <1>1, <1>2, <1>3, <1>4, <1>5, <1>6, <1>7, <1>8 DEF RegistryUse, Moves, Uses

LEMMA FoundPeers == \A p : (p \in foundPeers <=> Found(p)) /\ (p \in foundPeers' <=> Found(p)')
  BY DEF foundPeers, Found

LEMMA FoundAreCreated == ASSUME IInv PROVE foundPeers \subseteq Peers
<1>1. TypeOK
  BY DEF IInv, PeerInv
<1>2. QED
  BY <1>1 DEF foundPeers, TypeOK

(* Where the maps stay as they are, peers that end leave the directory. *)
LEMMA MapsSame ==
  ASSUME IInv, Wane, [RegistryUse]_vars, peerOf' = peerOf
  PROVE  Directory!Leave(gonePeers' \ gonePeers)
<1> DEFINE S == gonePeers' \ gonePeers
<1>1. gonePeers \subseteq gonePeers'
  BY FoundPeers DEF gonePeers, Wane
<1>2. \A p \in Peers : p \in S <=> Found(p) /\ ~Found(p)' /\ link[p] # "none"
  <2> SUFFICES ASSUME NEW p \in Peers PROVE p \in S <=> Found(p) /\ ~Found(p)' /\ link[p] # "none"
    OBVIOUS
  <2>1. CASE link[p] = "none"
    <3>1. link'[p] # "none" => Found(p)'
      BY <2>1, NewIsLive DEF IInv
    <3>2. QED
      BY <2>1, <3>1, FoundPeers DEF gonePeers
  <2>2. CASE link[p] # "none"
    BY <2>2, FoundPeers DEF gonePeers, Wane
  <2>3. QED
    BY <2>1, <2>2
<1>3. ASSUME NEW c \in Clients PROVE LivePeerOf(c)' = IF LivePeerOf(c) \in S THEN NoPeer ELSE LivePeerOf(c)
  <2>1. S \subseteq Peers /\ NoPeer \notin S
    BY NoPeerAssumption DEF gonePeers
  <2>2. CASE peerOf[c] = NoPeer
    BY <2>1, <2>2, NoPeerAssumption DEF LivePeerOf, foundPeers
  <2>3. CASE peerOf[c] # NoPeer
    <3>1. peerOf[c] \in Peers /\ link[peerOf[c]] # "none"
      BY <2>3, MappedIsCreated
    <3>2. peerOf[c] \in foundPeers' => peerOf[c] \in foundPeers
      BY <3>1, FoundPeers DEF Wane
    <3>3. peerOf[c] \in S <=> peerOf[c] \in foundPeers /\ peerOf[c] \notin foundPeers'
      BY <1>2, <3>1, FoundPeers
    <3> HIDE DEF S
    <3>4. QED
      BY <2>1, <3>2, <3>3 DEF LivePeerOf
  <2>4. QED
    BY <2>2, <2>3
<1>4. livePeers' = [c \in Clients |-> IF livePeers[c] \in S THEN NoPeer ELSE livePeers[c]]
  BY <1>3 DEF livePeers
<1>5. QED
  BY <1>1, <1>4 DEF Directory!Leave

(* A client gets a peer that OnMessage has just created, if it is still live. *)
LEMMA MapPeerEnters ==
  ASSUME IInv, NEW u \in Users, MapPeer(u)
  PROVE  (\E p \in Peers : Directory!Enter(from, p)) \/ UNCHANGED <<livePeers, gonePeers>>
<1> DEFINE h == holds[u]
<1>1. Parts /\ Users = {u}
  BY PartsOfMapInv, LoopThreadAssumption DEF IInv
<1>2. at = "map" /\ peerOf' = [peerOf EXCEPT ![from] = h] /\ UNCHANGED vars
  BY DEF MapPeer
<1>3. from \in Clients /\ h \in Peers /\ h # NoPeer /\ clientOf[h] = NoClient
  BY <1>1, <1>2 DEF Parts, LoopInv, HandlerInv, MqttTypeOK, TypeOK
<1>4. LivePeerOf(from) = NoPeer
  BY <1>1, <1>2, FoundPeers, FoundAreCreated, NoPeerAssumption DEF Parts, HandlerInv, LivePeerOf
<1>5. \A p \in Peers : (Found(p)' <=> Found(p)) /\ link'[p] = link[p]
  BY <1>2 DEF vars, peerVars, custodyVars, Found
<1>6. gonePeers' = gonePeers /\ foundPeers' = foundPeers
  BY <1>2 DEF gonePeers, foundPeers, vars, peerVars, custodyVars
<1>7. peerOf \in [Clients -> Peers \cup {NoPeer}]
  BY <1>1 DEF Parts, MqttTypeOK
<1>8. \A c \in Clients : LivePeerOf(c)' = IF c = from THEN (IF h \in foundPeers THEN h ELSE NoPeer) ELSE LivePeerOf(c)
  <2> TAKE c \in Clients
  <2>1. peerOf'[c] = IF c = from THEN h ELSE peerOf[c]
    BY <1>2, <1>3, <1>7
  <2>2. QED
    BY <1>6, <2>1 DEF LivePeerOf
<1>9. CASE h \notin foundPeers
  <2>1. \A c \in Clients : LivePeerOf(c)' = LivePeerOf(c)
    BY <1>4, <1>8, <1>9
  <2>2. livePeers' = livePeers
    BY <2>1 DEF livePeers
  <2>3. QED
    BY <1>6, <2>2
<1>10. CASE h \in foundPeers
  <2>1. \A d \in Clients : livePeers[d] # h
    <3>1. TAKE d \in Clients
    <3>2. peerOf[d] # h
      <4>1. d # NoClient
        BY NoClientAssumption
      <4>2. QED
        BY <1>1, <1>3, <4>1 DEF Parts, MapsAgree
    <3>3. QED
      BY <1>3, <3>2 DEF livePeers, LivePeerOf
  <2>2. h \notin gonePeers /\ livePeers[from] = NoPeer
    BY <1>3, <1>4, <1>10 DEF gonePeers, foundPeers, livePeers, Found
  <2>3. livePeers' = [livePeers EXCEPT ![from] = h]
    BY <1>3, <1>8, <1>10 DEF livePeers
  <2>4. Directory!Enter(from, h)
    BY <1>6, <2>1, <2>2, <2>3 DEF Directory!Enter
  <2>5. QED
    BY <1>3, <2>4
<1>11. QED
  BY <1>9, <1>10

(* What OnPeerExpired and Disconnect erase is gone already. *)
LEMMA ErasedIsGone ==
  ASSUME IInv, PeerExpired \/ DisconnectEnds
  PROVE  UNCHANGED <<livePeers, gonePeers>>
<1>1. Parts /\ SweptInv
  BY PartsOfMapInv DEF IInv
<1>2. peers' = peers /\ expired' = expired /\ link' = link
  BY DEF PeerExpired, ReportExpired, DisconnectEnds, StopDone, peerVars, custodyVars
<1>3. gonePeers' = gonePeers /\ foundPeers' = foundPeers
  BY <1>2 DEF gonePeers, foundPeers, Found
<1>4. \A c \in Clients : LivePeerOf(c)' = LivePeerOf(c)
  <2>1. CASE DisconnectEnds
    <3>0. peers = {}
      BY <1>1, <2>1 DEF DisconnectEnds, StopDone, SweptInv
    <3>1. foundPeers = {}
      BY <3>0 DEF foundPeers, Found
    <3>2. QED
      BY <1>3, <3>1 DEF LivePeerOf
  <2>2. CASE PeerExpired
    <3>1. PICK q \in Peers : ReportExpired(q) /\ OnPeerExpired(q)
      BY <2>2 DEF PeerExpired
    <3>2. q \notin foundPeers
      BY <1>1, <3>1 DEF ReportExpired, SweptInv, foundPeers, Found
    <3>3. \A c \in Clients : peerOf'[c] = peerOf[c] \/ (peerOf[c] = q /\ peerOf'[c] = NoPeer)
      BY <3>1 DEF OnPeerExpired
    <3>4. NoPeer \notin foundPeers
      BY FoundAreCreated, NoPeerAssumption
    <3>5. QED
      BY <1>3, <3>2, <3>3, <3>4 DEF LivePeerOf
  <2>3. QED
    BY <2>1, <2>2
<1>5. livePeers' = livePeers
  BY <1>4 DEF livePeers
<1>6. QED
  BY <1>3, <1>5

LEMMA DirectoryStep == ASSUME IInv, [MqttNext]_allVars PROVE [Directory!Next]_<<livePeers, gonePeers>>
<1>0. PeerInv /\ SweptInv /\ MapInv /\ LoopInv /\ TypeOK
  BY DEF IInv, MapInv, PeerInv
<1>1. [RegistryUse]_vars /\ Wane
  BY <1>0, IsRegistryUse, PeersWane
<1>2. CASE peerOf' = peerOf
  <2>1. Directory!Leave(gonePeers' \ gonePeers)
    BY <1>1, <1>2, MapsSame
  <2>2. gonePeers' \ gonePeers \in SUBSET Peers
    BY DEF gonePeers, Found
  <2>3. QED
    BY <2>1, <2>2 DEF Directory!Next
<1>3. CASE \E u \in Users : MapPeer(u)
  <2>1. PICK u \in Users : MapPeer(u)
    BY <1>3
  <2>2. from \in Clients
    BY <1>0, <2>1 DEF MapPeer, LoopInv
  <2>3. QED
    BY <2>1, <2>2, MapPeerEnters DEF Directory!Next
<1>4. CASE PeerExpired \/ DisconnectEnds
  BY <1>4, ErasedIsGone
<1>5. QED
  BY <1>2, <1>3, <1>4
  DEF MqttNext, RegistryStep, OnLocalSdp, OnMessage, OnMessageStep, GetMapped, LookupAgain, OnRemoteSdp, CreatePeer,
      NoLivePeer, CreateFails, DisconnectBegins, mqttVars, mapVars, allVars

(* Every behaviour of the service is one of the directory: however the loop thread, *)
(* the cleaner and the signaling thread interleave, a client with a live peer keeps *)
(* it, and no peer is given to two clients or comes back (OnMessage, OnPeerExpired). *)
THEOREM ImplementsDirectory == MqttSpec => DirectoryKept
<1>1. MqttInit => Directory!Init
  BY DEF MqttInit, Init, Directory!Init, livePeers, LivePeerOf, gonePeers
<1>2. IInv /\ [MqttNext]_allVars => [Directory!Next]_<<livePeers, gonePeers>>
  BY DirectoryStep
<1>3. QED
  BY <1>1, <1>2, ServiceInvariant, PTL DEF MqttSpec, DirectoryKept, Directory!Spec, Directory!directoryVars

(* The registry under the service is still the registry: what the service does with *)
(* it are steps of the registry's own specification, whose custody it keeps.        *)
THEOREM ServiceKeepsCustody == MqttSpec => Init /\ [][Next]_vars /\ Custody!Init /\ [][Custody!Next]_custodyMap
<1>1. MqttInit => Init /\ Custody!Init
  BY CustodyInit DEF MqttInit
<1>2. IInv /\ [MqttNext]_allVars => [Next]_vars
  BY IsRegistryUse DEF IInv, MapInv, PeerInv, RegistryUse, Moves, Uses, Next, MainStep, UserStep
<1>3. IInv /\ IInv' /\ [MqttNext]_allVars => [Custody!Next]_custodyMap
  <2>1. IInv => PeerInv /\ (IInv' => PeerInv')
    BY DEF IInv
  <2>2. QED
    BY <1>2, <2>1, CustodyStep DEF IInv
<1>4. QED
  BY <1>1, <1>2, <1>3, ServiceInvariant, PTL DEF MqttSpec
=============================================================================
