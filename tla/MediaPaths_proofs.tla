---------------------------- MODULE MediaPaths_proofs ----------------------------
(* Proofs about MediaPaths, for any number of buffers, frames, requests, streams, *)
(* sizes and layouts.                                                              *)
EXTENDS MediaPaths, FunctionTheorems, FiniteSetTheorems, SequenceTheorems, TLAPS

-------------------------------------------------------------------------------
(* RtspCapturer: a connection begins without a key frame, and the decoder is given *)
(* nothing of it before, unless it refused it.                                     *)

RtspStages ==
  /\ at \in {"open", "wait"} => link = 0
  /\ link = 0 => ~keyed
  /\ keyed => given = link \/ link \in missed
  /\ sets \in {0, link} \/ link = 0
  /\ at = "read" => link # 0

RtspInv == DecoderPrimed /\ RtspStages

(* Close forgets the connection and its key frame. *)
LEMMA CloseType == ASSUME Close PROVE link' \in 0..MaxEpochs /\ keyed' \in BOOLEAN
<1>1. keyed' \in BOOLEAN
  BY DEF Close
<1>2. link' \in 0..MaxEpochs
  BY RtspAssumption DEF Close
<1>3. QED
  BY <1>1, <1>2

(* There is no connection at first. *)
LEMMA RtspInitial == RtspInit => RtspInv
<1> SUFFICES ASSUME RtspInit PROVE RtspInv
  OBVIOUS
<1>1. link \in 0..MaxEpochs /\ sets \in 0..MaxEpochs /\ epoch \in 1..MaxEpochs /\ given \in 0..MaxEpochs
      /\ primed \in 0..MaxEpochs
  BY RtspAssumption DEF RtspInit
<1>4. RtspTypeOK
  BY <1>1 DEF RtspInit, RtspTypeOK
<1>2. RtspStages /\ primed = given /\ missed = {}
  BY DEF RtspInit, RtspStages
<1>3. QED
  BY <1>2, <1>4 DEF RtspInv, DecoderPrimed

(* What the capturer and the camera write is of its type. *)
LEMMA RtspTypeStep == ASSUME RtspTypeOK, RtspStep \/ UNCHANGED rtspVars PROVE RtspTypeOK'
<1> USE RtspAssumption DEF RtspTypeOK, cameraVars
<1>1. CASE Opens
  BY <1>1 DEF Opens
<1>2. CASE GivesUp
  BY <1>2 DEF GivesUp
<1>3. CASE OpenFails
  BY <1>3, CloseType DEF OpenFails
<1>4. CASE WaitToRetry
  BY <1>4 DEF WaitToRetry
<1>5. CASE ReadPacket
  BY <1>5 DEF ReadPacket
<1>6. CASE OnPacket
  BY <1>6 DEF OnPacket, Give
<1>7. CASE OnLost
  BY <1>7, CloseType DEF OnLost
<1>8. CASE RtspJoined
  BY <1>8, CloseType DEF RtspJoined
<1>9. CASE RtspStops
  BY <1>9 DEF RtspStops
<1>10. CASE CameraDrops
  BY <1>10 DEF CameraDrops
<1>11. CASE CameraReturns
  BY <1>11 DEF CameraReturns
<1>12. CASE UNCHANGED rtspVars
  BY <1>12 DEF rtspVars
<1>13. QED
  BY <1>1, <1>2, <1>3, <1>4, <1>5, <1>6, <1>7, <1>8, <1>9, <1>10, <1>11, <1>12 DEF RtspStep, RtspThread

(* Every step keeps it: a new connection waits for a key frame of its own. *)
LEMMA RtspKeeps == ASSUME RtspInv, RtspStep \/ UNCHANGED rtspVars PROVE RtspInv'
<1> USE DEF RtspStages, DecoderPrimed, cameraVars
<1> SUFFICES RtspStages' /\ (primed' = given' \/ given' \in missed')
  BY RtspTypeStep DEF RtspInv
<1>0. RtspStages /\ (primed = given \/ given \in missed) /\ RtspTypeOK
  BY DEF RtspInv
<1>1. CASE Opens
  BY <1>0, <1>1 DEF Opens
<1>2. CASE GivesUp
  BY <1>0, <1>2 DEF GivesUp
<1>3. CASE OpenFails
  BY <1>0, <1>3 DEF OpenFails, Close
<1>4. CASE WaitToRetry
  BY <1>0, <1>4 DEF WaitToRetry
<1>5. CASE ReadPacket
  BY <1>0, <1>5 DEF ReadPacket
<1>6. CASE OnPacket
  BY <1>0, <1>6 DEF OnPacket, Give
<1>7. CASE OnLost
  BY <1>0, <1>7 DEF OnLost, Close
<1>8. CASE RtspJoined
  BY <1>0, <1>8 DEF RtspJoined, Close
<1>9. CASE RtspStops
  BY <1>0, <1>9 DEF RtspStops
<1>10. CASE CameraDrops
  BY <1>0, <1>10 DEF CameraDrops
<1>11. CASE CameraReturns
  BY <1>0, <1>11 DEF CameraReturns
<1>12. CASE UNCHANGED rtspVars
  BY <1>0, <1>12 DEF rtspVars
<1>13. QED
  BY <1>1, <1>2, <1>3, <1>4, <1>5, <1>6, <1>7, <1>8, <1>9, <1>10, <1>11, <1>12 DEF RtspStep, RtspThread

(* Whatever the decoder is given of a connection begins with a key frame that has   *)
(* the parameter sets of that connection, for any number of restarts of the camera; *)
(* or EmplaceBuffer refused that key frame, which ReadPacket does not notice.       *)
THEOREM DecoderAlwaysPrimed == Spec => []DecoderPrimed
<1>1. Init => RtspInv
  BY RtspInitial DEF Init
<1>2. RtspInv /\ [Next]_vars => RtspInv'
  <2> SUFFICES ASSUME RtspInv, [Next]_vars PROVE RtspStep \/ UNCHANGED rtspVars
    BY RtspKeeps
  <2> QED
    BY DEF Next, Frame, Rtsp, Libcamera, Audio, vars
<1>3. RtspInv => DecoderPrimed
  BY DEF RtspInv
<1>4. QED
  BY <1>1, <1>2, <1>3, PTL DEF Spec

-------------------------------------------------------------------------------
(* LibcameraCapturer: a request is at one place at a time, which needs that no     *)
(* request is queued twice.                                                        *)

Distinct(s) == \A i, j \in 1..Len(s) : i # j => s[i] # s[j]

(* StartCapture queues every request once. *)
LEMMA RequestsOrdered == RequestOrder \in Seq(Requests) /\ Distinct(RequestOrder)
<1> DEFINE n == Cardinality(Requests)
           Good == {order \in [1..n -> Requests] : \A i, j \in DOMAIN order : i # j => order[i] # order[j]}
<1>1. n \in Nat /\ ExistsBijection(1..n, Requests)
  BY LibcameraAssumption, FS_CardinalityType
<1>2. PICK f \in [1..n -> Requests] : \A i, j \in 1..n : f[i] = f[j] => i = j
  <2>1. PICK f \in Bijection(1..n, Requests) : TRUE
    BY <1>1, Fun_ExistsBij
  <2>2. QED
    BY <2>1 DEF Bijection, Injection, IsInjective
<1>3. \E order \in [1..n -> Requests] : \A i, j \in DOMAIN order : i # j => order[i] # order[j]
  BY <1>2
<1>4. RequestOrder \in [1..n -> Requests] /\ \A i, j \in DOMAIN RequestOrder : i # j => RequestOrder[i] # RequestOrder[j]
  BY <1>3 DEF RequestOrder
<1>5. RequestOrder \in Seq(Requests)
  BY <1>1, <1>4, IsASeq
<1>6. DOMAIN RequestOrder = 1..Len(RequestOrder)
  BY <1>5, LenProperties
<1>7. QED
  BY <1>4, <1>5, <1>6 DEF Distinct

LibcameraInv == PicturesStand /\ Distinct(queued)

(* ... so no request is at the camera twice, *)
LEMMA LibcameraInitial == LibcameraInit(RequestOrder) => LibcameraInv
<1> SUFFICES ASSUME LibcameraInit(RequestOrder) PROVE LibcameraInv
  OBVIOUS
<1>1. queued \in Seq(Requests) /\ Distinct(queued)
  BY RequestsOrdered DEF LibcameraInit
<1>2. LibcameraTypeOK
  <2>1. streamAt \in 1..Streams + 1 /\ controls \in 0..MaxControls /\ applied \in 0..MaxControls
        /\ carries \in [Requests -> 0..MaxControls]
    BY LibcameraAssumption DEF LibcameraInit
  <2>2. frames \in [1..Streams -> Requests \cup {NoRequest}] /\ request \in Requests \cup {NoRequest}
    BY DEF LibcameraInit
  <2>3. QED
    BY <1>1, <2>1, <2>2 DEF LibcameraInit, LibcameraTypeOK
<1>3. QED
  BY <1>1, <1>2 DEF LibcameraInit, LibcameraInv, PicturesStand

(* nor there while RequestComplete has it, when the camera gives one back, *)
LEMMA CompletesKeeps == ASSUME LibcameraInv, Completes PROVE LibcameraInv'
<1>1. queued \in Seq(Requests) /\ queued # <<>> /\ Distinct(queued)
  BY DEF Completes, LibcameraInv, PicturesStand, LibcameraTypeOK
<1>2. /\ Head(queued) \in Requests /\ Tail(queued) \in Seq(Requests)
      /\ Len(Tail(queued)) = Len(queued) - 1
      /\ \A i \in 1..Len(Tail(queued)) : Tail(queued)[i] = queued[i + 1]
  BY <1>1, HeadTailProperties
<1>3. Len(queued) \in Nat /\ Len(queued) > 0 /\ Head(queued) = queued[1]
  BY <1>1, EmptySeq, LenProperties
<1>4. queued' = Tail(queued) /\ request' = Head(queued) /\ streamAt' = 1
      /\ UNCHANGED <<frames, controls, updated, carries>>
  BY DEF Completes
<1>5. DOMAIN queued' = 1..Len(queued')
  BY <1>2, <1>4, LenProperties
<1>6. Distinct(queued') /\ \A i \in DOMAIN queued' : queued'[i] # request'
  BY <1>1, <1>2, <1>3, <1>4, <1>5 DEF Distinct
<1>7. applied' \in 0..MaxControls
  BY <1>2 DEF Completes, LibcameraInv, PicturesStand, LibcameraTypeOK
<1>8. LibcameraTypeOK'
  BY <1>2, <1>4, <1>7, LibcameraAssumption DEF LibcameraInv, PicturesStand, LibcameraTypeOK
<1>9. \A s \in 1..(streamAt' - 1) : frames'[s] = request'
  BY <1>4
<1>10. QED
  BY <1>6, <1>8, <1>9 DEF LibcameraInv, PicturesStand

(* as its streams are looked at one after the other, *)
LEMMA RequestCompleteKeeps == ASSUME LibcameraInv, RequestComplete PROVE LibcameraInv'
<1>1. LibcameraTypeOK /\ request \in Requests /\ streamAt \in 1..Streams
  BY LibcameraAssumption DEF RequestComplete, LibcameraInv, PicturesStand, LibcameraTypeOK
<1>2. LibcameraTypeOK'
  BY <1>1, LibcameraAssumption DEF RequestComplete, LibcameraTypeOK
<1>3. \A s \in 1..(streamAt' - 1) : frames'[s] = request'
  BY <1>1, LibcameraAssumption DEF RequestComplete, LibcameraInv, PicturesStand, LibcameraTypeOK
<1>4. Distinct(queued') /\ \A i \in DOMAIN queued' : queued'[i] # request'
  BY DEF RequestComplete, LibcameraInv, PicturesStand
<1>5. QED
  BY <1>2, <1>3, <1>4 DEF LibcameraInv, PicturesStand

(* and when it is queued again. *)
LEMMA RequeueRequestKeeps == ASSUME LibcameraInv, RequeueRequest PROVE LibcameraInv'
<1>1. LibcameraTypeOK /\ request \in Requests /\ queued \in Seq(Requests) /\ Distinct(queued)
  BY DEF RequeueRequest, LibcameraInv, PicturesStand, LibcameraTypeOK
<1>2. /\ Append(queued, request) \in Seq(Requests) /\ Len(Append(queued, request)) = Len(queued) + 1
      /\ \A i \in 1..Len(queued) : Append(queued, request)[i] = queued[i]
      /\ Append(queued, request)[Len(queued) + 1] = request
  BY <1>1, AppendProperties
<1>3. DOMAIN queued = 1..Len(queued) /\ Len(queued) \in Nat
  BY <1>1, LenProperties
<1>4. \A i \in 1..Len(queued) : queued[i] # request
  BY <1>3 DEF RequeueRequest, LibcameraInv, PicturesStand
<1>5. queued' = Append(queued, request) /\ request' = NoRequest /\ streamAt' = 1
      /\ UNCHANGED <<frames, controls, applied>>
  BY DEF RequeueRequest
<1>6. Distinct(queued')
  BY <1>1, <1>2, <1>3, <1>4, <1>5 DEF Distinct
<1>7. carries' \in [Requests -> 0..MaxControls] /\ updated' \in BOOLEAN
  <2>1. controls \in 0..MaxControls /\ 0 \in 0..MaxControls /\ carries \in [Requests -> 0..MaxControls]
    BY <1>1, LibcameraAssumption DEF LibcameraTypeOK
  <2>2. updated' \in BOOLEAN
    BY DEF RequeueRequest
  <2>3. QED
    BY <1>1, <2>1, <2>2 DEF RequeueRequest
<1>8. LibcameraTypeOK'
  BY <1>1, <1>2, <1>5, <1>7, LibcameraAssumption DEF LibcameraTypeOK
<1>9. QED
  BY <1>5, <1>6, <1>8 DEF LibcameraInv, PicturesStand

(* Every step of the capturer keeps that. *)
LEMMA LibcameraKeeps == ASSUME LibcameraInv, LibcameraStep \/ UNCHANGED libcameraVars PROVE LibcameraInv'
<1>1. CASE SetControls
  <2>1. LibcameraTypeOK'
    BY <1>1, LibcameraAssumption DEF SetControls, LibcameraInv, PicturesStand, LibcameraTypeOK
  <2>2. QED
    BY <1>1, <2>1 DEF SetControls, LibcameraInv, PicturesStand
<1>2. CASE UNCHANGED libcameraVars
  BY <1>2 DEF libcameraVars, LibcameraInv, PicturesStand, LibcameraTypeOK
<1>3. QED
  BY <1>1, <1>2, CompletesKeeps, RequestCompleteKeeps, RequeueRequestKeeps DEF LibcameraStep, LibcameraThread

-------------------------------------------------------------------------------
(* LibcameraCapturer: the changes that the requests in flight carry are in the order *)
(* of the requests, since each takes the last one.                                   *)

CarriesAscend ==
  \A i, j \in 1..Len(queued) : i < j /\ carries[queued[j]] # 0 => carries[queued[i]] <= carries[queued[j]]

ControlsInv ==
  /\ LibcameraInv
  /\ applied <= controls /\ \A r \in Requests : carries[r] <= controls
  /\ \A i \in 1..Len(queued) : carries[queued[i]] # 0 => applied <= carries[queued[i]]
  /\ CarriesAscend

LEMMA ControlsInitial == LibcameraInit(RequestOrder) => ControlsInv
<1> SUFFICES ASSUME LibcameraInit(RequestOrder) PROVE ControlsInv
  OBVIOUS
<1>1. LibcameraInv
  BY LibcameraInitial
<1>2. queued \in Seq(Requests)
  BY <1>1 DEF LibcameraInv, PicturesStand, LibcameraTypeOK
<1>3. \A i \in 1..Len(queued) : carries[queued[i]] = 0
  BY <1>2 DEF LibcameraInit
<1>4. QED
  BY <1>1, <1>3 DEF LibcameraInit, ControlsInv, CarriesAscend

LEMMA CompletesInOrder == ASSUME ControlsInv, Completes PROVE ControlsInv' /\ applied' >= applied
<1>1. /\ queued \in Seq(Requests) /\ queued # <<>> /\ carries \in [Requests -> 0..MaxControls]
      /\ controls \in Nat /\ applied \in Nat
  BY LibcameraAssumption DEF Completes, ControlsInv, LibcameraInv, PicturesStand, LibcameraTypeOK
<1>2. /\ Tail(queued) \in Seq(Requests) /\ Len(Tail(queued)) = Len(queued) - 1
      /\ \A i \in 1..Len(Tail(queued)) : Tail(queued)[i] = queued[i + 1]
  BY <1>1, HeadTailProperties
<1>3. Len(queued) \in Nat /\ Len(queued) > 0 /\ Head(queued) = queued[1]
  BY <1>1, EmptySeq, LenProperties
<1>4. /\ queued' = Tail(queued) /\ UNCHANGED <<controls, carries>>
      /\ applied' = IF carries[queued[1]] = 0 THEN applied ELSE carries[queued[1]]
  BY <1>3 DEF Completes
<1>5. \A i \in 1..Len(queued) : queued[i] \in Requests /\ carries[queued[i]] \in Nat
  BY <1>1
<1>6. applied' >= applied /\ applied' <= controls /\ applied' \in Nat
  BY <1>1, <1>3, <1>4, <1>5 DEF ControlsInv
<1>7. \A i \in 1..Len(queued') : i + 1 \in 1..Len(queued) /\ 1 < i + 1 /\ queued'[i] = queued[i + 1]
  BY <1>2, <1>3, <1>4
<1>8. ASSUME NEW i \in 1..Len(queued'), carries'[queued'[i]] # 0 PROVE applied' <= carries'[queued'[i]]
  <2>1. carries[queued[i + 1]] # 0 /\ carries'[queued'[i]] = carries[queued[i + 1]]
    BY <1>4, <1>7, <1>8
  <2>2. applied <= carries[queued[i + 1]]
    BY <1>7, <2>1 DEF ControlsInv
  <2>3. carries[queued[1]] <= carries[queued[i + 1]]
    BY <1>3, <1>7, <2>1 DEF ControlsInv, CarriesAscend
  <2>4. QED
    BY <1>4, <2>1, <2>2, <2>3
<1>9. CarriesAscend'
  <2>1. ASSUME NEW i \in 1..Len(queued'), NEW j \in 1..Len(queued'), i < j, carries'[queued'[j]] # 0
        PROVE  carries'[queued'[i]] <= carries'[queued'[j]]
    <3>1. i + 1 < j + 1 /\ carries[queued[j + 1]] # 0
      BY <1>4, <1>7, <2>1
    <3>2. carries[queued[i + 1]] <= carries[queued[j + 1]]
      BY <1>7, <3>1 DEF ControlsInv, CarriesAscend
    <3>3. QED
      BY <1>4, <1>7, <3>2
  <2>2. QED
    BY <2>1 DEF CarriesAscend
<1>10. LibcameraInv'
  BY CompletesKeeps DEF ControlsInv
<1>11. QED
  BY <1>4, <1>6, <1>8, <1>9, <1>10 DEF ControlsInv

LEMMA RequeueInOrder == ASSUME ControlsInv, RequeueRequest PROVE ControlsInv' /\ applied' >= applied
<1> DEFINE n == Len(queued)
           c == IF updated THEN controls ELSE 0
<1>1. /\ queued \in Seq(Requests) /\ request \in Requests /\ carries \in [Requests -> 0..MaxControls]
      /\ controls \in Nat /\ applied \in Nat /\ n \in Nat
  BY LibcameraAssumption, LenProperties DEF RequeueRequest, ControlsInv, LibcameraInv, PicturesStand, LibcameraTypeOK
<1>2. /\ Len(Append(queued, request)) = n + 1
      /\ \A i \in 1..n : Append(queued, request)[i] = queued[i]
      /\ Append(queued, request)[n + 1] = request
  BY <1>1, AppendProperties
<1>3. \A i \in 1..n : queued[i] # request
  BY <1>1, LenProperties DEF RequeueRequest, ControlsInv, LibcameraInv, PicturesStand
<1>4. queued' = Append(queued, request) /\ carries' = [carries EXCEPT ![request] = c] /\ UNCHANGED <<controls, applied>>
  BY DEF RequeueRequest
<1>5. c \in Nat /\ c <= controls /\ (c # 0 => c = controls)
  BY <1>1
<1> HIDE DEF c, n
<1>6. /\ \A r \in Requests : carries[r] \in Nat /\ carries'[r] = IF r = request THEN c ELSE carries[r]
      /\ \A i \in 1..n : queued[i] \in Requests
  BY <1>1, <1>4 DEF n
<1>7. /\ \A i \in 1..n : carries'[queued'[i]] = carries[queued[i]] /\ carries[queued[i]] \in Nat
                         /\ carries[queued[i]] <= controls
      /\ carries'[queued'[n + 1]] = c
      /\ Len(queued') = n + 1 /\ \A i \in 1..n + 1 : i \in 1..n \/ i = n + 1
  BY <1>1, <1>2, <1>3, <1>4, <1>6 DEF ControlsInv
<1>8. \A r \in Requests : carries'[r] <= controls
  BY <1>5, <1>6 DEF ControlsInv
<1>9. ASSUME NEW i \in 1..Len(queued'), carries'[queued'[i]] # 0 PROVE applied <= carries'[queued'[i]]
  <2>1. CASE i \in 1..n
    BY <1>7, <1>9, <2>1 DEF ControlsInv, n
  <2>2. CASE i = n + 1
    BY <1>5, <1>7, <1>9, <2>2 DEF ControlsInv
  <2>3. QED
    BY <1>7, <2>1, <2>2
<1>10. CarriesAscend'
  <2>1. ASSUME NEW i \in 1..Len(queued'), NEW j \in 1..Len(queued'), i < j, carries'[queued'[j]] # 0
        PROVE  carries'[queued'[i]] <= carries'[queued'[j]]
    <3>1. i \in 1..n
      BY <1>1, <1>7, <2>1
    <3>2. CASE j \in 1..n
      BY <1>7, <2>1, <3>1, <3>2 DEF ControlsInv, CarriesAscend, n
    <3>3. CASE j = n + 1
      BY <1>5, <1>7, <2>1, <3>1, <3>3
    <3>4. QED
      BY <1>7, <3>2, <3>3
  <2>2. QED
    BY <2>1 DEF CarriesAscend
<1>11. LibcameraInv'
  BY RequeueRequestKeeps DEF ControlsInv
<1>12. applied' <= controls' /\ applied' >= applied
  BY <1>1, <1>4 DEF ControlsInv
<1>13. (\A r \in Requests : carries'[r] <= controls')
       /\ \A i \in 1..Len(queued') : carries'[queued'[i]] # 0 => applied' <= carries'[queued'[i]]
  <2>1. applied' = applied /\ controls' = controls
    BY <1>4
  <2>2. QED
    BY <1>8, <1>9, <2>1
<1>14. QED
  BY <1>10, <1>11, <1>12, <1>13 DEF ControlsInv

LEMMA ControlsKeep ==
  ASSUME ControlsInv, LibcameraStep \/ UNCHANGED libcameraVars
  PROVE  ControlsInv' /\ (applied' >= applied \/ UNCHANGED libcameraVars)
<1>1. CASE SetControls
  <2>1. LibcameraInv' /\ controls \in Nat /\ applied \in Nat /\ \A r \in Requests : carries[r] \in Nat
    BY <1>1, LibcameraKeeps, LibcameraAssumption
    DEF LibcameraStep, ControlsInv, LibcameraInv, PicturesStand, LibcameraTypeOK
  <2>2. controls' = controls + 1 /\ UNCHANGED <<queued, carries, applied>>
    BY <1>1 DEF SetControls
  <2>3. applied' <= controls' /\ \A r \in Requests : carries'[r] <= controls'
    BY <2>1, <2>2 DEF ControlsInv
  <2>4. QED
    BY <2>1, <2>2, <2>3 DEF ControlsInv, CarriesAscend
<1>2. CASE RequestComplete
  <2>1. LibcameraInv' /\ applied \in Nat
    BY <1>2, LibcameraKeeps, LibcameraAssumption
    DEF LibcameraStep, LibcameraThread, ControlsInv, LibcameraInv, PicturesStand, LibcameraTypeOK
  <2>2. UNCHANGED <<queued, controls, carries, applied>>
    BY <1>2 DEF RequestComplete
  <2>3. QED
    BY <2>1, <2>2 DEF ControlsInv, CarriesAscend
<1>3. CASE UNCHANGED libcameraVars
  <2>1. LibcameraInv'
    BY <1>3, LibcameraKeeps DEF ControlsInv
  <2>2. QED
    BY <1>3, <2>1 DEF libcameraVars, ControlsInv, CarriesAscend
<1>4. QED
  BY <1>1, <1>2, <1>3, CompletesInOrder, RequeueInOrder DEF LibcameraStep, LibcameraThread

(* However many requests are in flight, the camera never goes back to controls that  *)
(* were replaced (SetControls, RequestComplete): the order half of ControlsArrive.    *)
THEOREM ControlsNeverGoBack == Spec => ControlsInOrder
<1>1. Init => ControlsInv
  BY ControlsInitial DEF Init
<1>2. ControlsInv /\ [Next]_vars => ControlsInv' /\ [applied' >= applied]_libcameraVars
  <2> SUFFICES ASSUME ControlsInv, [Next]_vars PROVE LibcameraStep \/ UNCHANGED libcameraVars
    BY ControlsKeep
  <2> QED
    BY DEF Next, Frame, Rtsp, Libcamera, Audio, vars
<1>3. QED
  BY <1>1, <1>2, PTL DEF Spec, ControlsInOrder

-------------------------------------------------------------------------------
(* AudioBridge: once playing is refused no call begins to write, and once the      *)
(* transport is taken back no thread loads it again.                               *)

AudioInv ==
  /\ AudioKept
  /\ caller # "idle" => ~playing
  /\ transport => \A t \in Threads : belated[t] = 0
  /\ belated["capture"] > 0 => capturing # "loaded"
  /\ belated["playout"] > 0 => playout # "loaded"

(* The module begins with nothing open and no transport. *)
LEMMA AudioInitial == AudioInit => AudioInv
<1> SUFFICES ASSUME AudioInit PROVE AudioInv
  OBVIOUS
<1>1. recoveries \in 0..MaxRecoveries /\ transports \in 0..MaxRegistered /\ belated \in [Threads -> Nat]
  BY AudioAssumption DEF AudioInit
<1>2. AudioTypeOK
  BY <1>1 DEF AudioInit, AudioTypeOK
<1>3. \A t \in Threads : belated[t] = 0
  BY DEF AudioInit
<1>4. QED
  BY <1>2, <1>3 DEF AudioInit, AudioInv, AudioKept, Threads

(* A write to PulseAudio may close the device and never opens it. *)
LEMMA PaWriteSink == ASSUME PaWrite, sink \in BOOLEAN PROVE sink' \in BOOLEAN /\ (sink' => sink)
<1>1. sink' = sink \/ sink' = FALSE
  BY DEF PaWrite
<1>2. CASE sink' = sink
  BY <1>2
<1>3. CASE sink' = FALSE
  <2>1. sink' \in BOOLEAN
    BY <1>3, Zenon
  <2>2. ~sink'
    BY <1>3, Zenon
  <2>3. QED
    BY <2>1, <2>2, Zenon
<1>4. QED
  BY <1>1, <1>2, <1>3

(* What the threads of the module write is of its type. *)
LEMMA AudioTypeStep == ASSUME AudioTypeOK, AudioStep \/ UNCHANGED audioVars PROVE AudioTypeOK'
<1> USE AudioAssumption DEF AudioTypeOK, callerVars, playerVars, Called, Threads
<1>1. CASE RegisterAudioCallback /\ UNCHANGED backend
  <2>1. transport' \in BOOLEAN
    BY <1>1 DEF RegisterAudioCallback
  <2>2. transports' \in 0..MaxRegistered /\ belated' \in [Threads -> Nat]
    BY <1>1 DEF RegisterAudioCallback
  <2>3. QED
    BY <1>1, <2>1, <2>2 DEF RegisterAudioCallback
<1>2. CASE StartStopRecording /\ UNCHANGED backend
  BY <1>2 DEF StartStopRecording
<1>3. CASE (StartPlayout \/ InitPlayout) /\ UNCHANGED backend
  <2>1. playing' \in BOOLEAN /\ readied' \in BOOLEAN /\ sink' \in BOOLEAN
    BY <1>3 DEF StartPlayout, InitPlayout
  <2>2. playout' \in {"none", "top", "loaded", "write"} /\ recoveries' \in 0..MaxRecoveries
    BY <1>3 DEF StartPlayout, InitPlayout
  <2>3. QED
    BY <1>3, <2>1, <2>2 DEF StartPlayout, InitPlayout
<1>4. CASE StopPlayout /\ UNCHANGED backend
  BY <1>4 DEF StopPlayout
<1>5. CASE PlayoutStopped /\ UNCHANGED backend
  <2>1. transport' \in BOOLEAN /\ initialized' \in BOOLEAN /\ readied' \in BOOLEAN /\ sink' \in BOOLEAN
    BY <1>5 DEF PlayoutStopped
  <2>2. QED
    BY <1>5, <2>1 DEF PlayoutStopped
<1>6. CASE Capture /\ UNCHANGED backend
  <2>1. mic' \in BOOLEAN
    BY <1>6 DEF Capture, PaCaptureSamples, AlsaCaptureSamples, OnAudioBuffer, RecordedDataIsAvailable
  <2>2. belated' \in [Threads -> Nat] /\ capturing' \in {"idle", "called", "loaded"}
    BY <1>6 DEF Capture, PaCaptureSamples, AlsaCaptureSamples, OnAudioBuffer, RecordedDataIsAvailable
  <2>3. QED
    BY <1>6, <2>1, <2>2 DEF Capture, PaCaptureSamples, AlsaCaptureSamples, OnAudioBuffer, RecordedDataIsAvailable
<1>7. CASE (PlayoutOnce \/ NeedMorePlayData) /\ UNCHANGED backend
  <2>1. belated' \in [Threads -> Nat]
    BY <1>7 DEF PlayoutOnce, NeedMorePlayData
  <2>2. QED
    BY <1>7, <2>1 DEF PlayoutOnce, NeedMorePlayData
<1>8. CASE (PaWrite \/ AlsaRecovers \/ AlsaWrite) /\ UNCHANGED backend
  <2>1. CASE PaWrite
    BY <1>8, <2>1, PaWriteSink DEF PaWrite
  <2>2. CASE AlsaRecovers
    <3>1. recoveries' \in 0..MaxRecoveries
      BY <2>2 DEF AlsaRecovers
    <3>2. QED
      BY <1>8, <2>2, <3>1 DEF AlsaRecovers
  <2>3. CASE AlsaWrite
    <3>1. recoveries' \in 0..MaxRecoveries
      BY <2>3 DEF AlsaWrite
    <3>2. QED
      BY <1>8, <2>3, <3>1 DEF AlsaWrite
  <2>4. QED
    BY <1>8, <2>1, <2>2, <2>3
<1>9. CASE UNCHANGED audioVars
  BY <1>9 DEF audioVars
<1>10. QED
  BY <1>1, <1>2, <1>3, <1>4, <1>5, <1>6, <1>7, <1>8, <1>9 DEF AudioStep, Playout

(* Every step keeps it: StopPlayout closes the device after the thread has ended, and *)
(* a thread that has looked at the transport looks again before it calls once more.     *)
LEMMA AudioKeeps == ASSUME AudioInv, AudioStep \/ UNCHANGED audioVars PROVE AudioInv'
<1> DEFINE Rest == /\ sink => readied
                   /\ playing => readied /\ playout # "none"
                   /\ caller = "idle" /\ playout # "none" => playing
                   /\ \A t \in Threads : belated[t] <= 1
                   /\ ~initialized => playout = "none" /\ ~sink /\ ~transport
                   /\ caller # "idle" => ~playing
                   /\ transport => \A t \in Threads : belated[t] = 0
                   /\ belated["capture"] > 0 => capturing # "loaded"
                   /\ belated["playout"] > 0 => playout # "loaded"
<1>a. AudioTypeOK /\ Rest
  BY DEF AudioInv, AudioKept
<1>b. SUFFICES Rest'
  BY <1>a, AudioTypeStep DEF AudioInv, AudioKept
<1> USE <1>a DEF AudioTypeOK, callerVars, playerVars, Called, Threads, Calls
<1>1. CASE RegisterAudioCallback
  BY <1>1 DEF RegisterAudioCallback
<1>2. CASE StartStopRecording
  BY <1>2 DEF StartStopRecording
<1>3. CASE StartPlayout \/ InitPlayout
  BY <1>3 DEF StartPlayout, InitPlayout
<1>4. CASE StopPlayout
  BY <1>4 DEF StopPlayout
<1>5. CASE PlayoutStopped
  BY <1>5 DEF PlayoutStopped
<1>6. CASE Capture
  <2>1. CASE PaCaptureSamples \/ AlsaCaptureSamples \/ OnAudioBuffer
    BY <2>1 DEF PaCaptureSamples, AlsaCaptureSamples, OnAudioBuffer
  <2>2. CASE RecordedDataIsAvailable
    BY <2>2 DEF RecordedDataIsAvailable
  <2>3. QED
    BY <1>6, <2>1, <2>2 DEF Capture
<1>7. CASE PlayoutOnce \/ NeedMorePlayData
  BY <1>7 DEF PlayoutOnce, NeedMorePlayData
<1>8. CASE PaWrite \/ AlsaRecovers \/ AlsaWrite
  <2>1. CASE PaWrite
    BY <2>1, PaWriteSink DEF PaWrite
  <2>2. CASE AlsaRecovers \/ AlsaWrite
    BY <2>2 DEF AlsaRecovers, AlsaWrite
  <2>3. QED
    BY <1>8, <2>1, <2>2
<1>9. CASE UNCHANGED audioVars
  BY <1>9 DEF audioVars
<1>10. QED
  BY <1>1, <1>2, <1>3, <1>4, <1>5, <1>6, <1>7, <1>8, <1>9 DEF AudioStep, Playout

(* A picture stands while it is looked at, and the player's device is open only for *)
(* the thread that plays, for any number of requests, streams, controls, recoveries *)
(* and transports; a transport that was taken back is called at most once more by   *)
(* each thread (RequestComplete, StopPlayout, Terminate).                           *)
THEOREM DevicesAlwaysKept == Spec => []DevicesKept
<1>1. Init => LibcameraInv /\ AudioInv
  BY LibcameraInitial, AudioInitial DEF Init
<1>2. LibcameraInv /\ AudioInv /\ [Next]_vars => LibcameraInv' /\ AudioInv'
  <2> SUFFICES ASSUME LibcameraInv, AudioInv, [Next]_vars
               PROVE  /\ LibcameraStep \/ UNCHANGED libcameraVars
                      /\ AudioStep \/ UNCHANGED audioVars
    BY LibcameraKeeps, AudioKeeps
  <2> QED
    BY DEF Next, Frame, Rtsp, Libcamera, Audio, vars
<1>3. LibcameraInv /\ AudioInv => DevicesKept
  BY DEF LibcameraInv, AudioInv, DevicesKept
<1>4. QED
  BY <1>1, <1>2, <1>3, PTL DEF Spec

-------------------------------------------------------------------------------
(* FramePath: who may still be called. *)

ObserversInv ==
  /\ late \in [Observers -> Nat]
  /\ subscribed \cap gone = {}
  /\ \A o \in Observers : late[o] <= 1 /\ (late[o] > 0 => o \in gone \ calling)

WorkerInv ==
  /\ codec = "none" => worker = "gone"
  /\ role = "encoder" /\ (codec # "none" \/ registered) => encoding

(* A subscription that has ended is in no snapshot that is yet to be taken, and the one *)
(* that is under way calls it once (Next).                                              *)
LEMMA ObserversKeep == ASSUME ObserversInv, FrameNext \/ UNCHANGED frameVars PROVE ObserversInv'
<1> USE DEF ObserversInv
<1>1. CASE UNCHANGED streamVars
  BY <1>1 DEF streamVars
<1>2. CASE StreamStep
  <2>1. CASE StartCapture \/ CaptureImage \/ EndCapture
    BY <2>1 DEF StartCapture, CaptureImage, EndCapture, streamVars
  <2>2. ASSUME NEW o \in Observers, Subscribe(o) PROVE ObserversInv'
    BY <2>2 DEF Subscribe
  <2>3. ASSUME NEW o \in Observers, Unsubscribe(o) PROVE ObserversInv'
    BY <2>3 DEF Unsubscribe
  <2>4. CASE Publish
    BY <2>4 DEF Publish
  <2>5. CASE CallObserver
    <3>1. PICK o \in calling : /\ calling' = calling \ {o}
                               /\ late' = IF o \in gone THEN [late EXCEPT ![o] = @ + 1] ELSE late
      BY <2>5 DEF CallObserver
    <3>2. UNCHANGED <<subscribed, gone>>
      BY <2>5 DEF CallObserver
    <3>3. o \in Observers => late[o] = 0
      BY <3>1
    <3>4. CASE o \in gone /\ o \in Observers
      <4>1. late' = [late EXCEPT ![o] = 1]
        BY <3>1, <3>3, <3>4
      <4>2. QED
        BY <3>1, <3>2, <3>4, <4>1
    <3>5. CASE o \notin gone \/ o \notin Observers
      <4>1. late' = late
        BY <3>1, <3>5
      <4>2. QED
        BY <3>1, <3>2, <4>1
    <3>6. QED
      BY <3>4, <3>5
  <2>6. CASE NextReturns
    BY <2>6 DEF NextReturns, streamVars
  <2>7. QED
    BY <1>2, <2>1, <2>2, <2>3, <2>4, <2>5, <2>6 DEF StreamStep
<1>3. QED
  BY <1>1, <1>2 DEF FrameNext, OnCodec, OnStream, OnTrack, OnEncoder, frameVars

(* The encoder's worker is there only for a codec, and the codec only in a session      *)
(* (Release).                                                                           *)
LEMMA WorkerKeeps == ASSUME WorkerInv, FrameNext \/ UNCHANGED frameVars PROVE WorkerInv'
<1> USE DEF WorkerInv, Start, PrepareBuffer, Destroy, TaskReturns, Emplace, workerVars, encoderVars
<1>1. CASE OnCodec(CodecStep \/ (role = "decoder" /\ SourceChange))
  <2>1. UNCHANGED <<role, registered, encoding>>
    BY <1>1 DEF OnCodec
  <2>2. CASE Leave
    BY <2>1, <2>2 DEF Leave
  <2>3. CASE EmplaceBuffer \/ Process \/ Swallow \/ ReleaseInput \/ SourceChange
    BY <2>1, <2>3 DEF EmplaceBuffer, NoIndex, PopIndex, NotQueued, QueueInput, PushTask, Process, Swallow, ReleaseInput, SourceChange
  <2>4. CASE Worker
    BY <2>1, <2>4 DEF Worker, DequeueInput, DequeueCapture, PopTask, Requeue, RequeueFails, WorkerEnds
  <2>5. QED
    BY <1>1, <2>2, <2>3, <2>4 DEF OnCodec, CodecStep
<1>2. CASE OnStream(StreamStep)
  <2>1. UNCHANGED <<role, registered, encoding>>
    BY <1>2 DEF OnStream
  <2>2. CASE StartCapture \/ CaptureImage \/ EndCapture
    BY <2>1, <2>2 DEF StartCapture, CaptureImage, EndCapture, CreateDecoder
  <2>3. ASSUME NEW o \in Observers, Subscribe(o) \/ Unsubscribe(o) PROVE WorkerInv'
    BY <2>1, <2>3 DEF Subscribe, Unsubscribe, codecVars
  <2>4. CASE Publish \/ CallObserver \/ NextReturns
    BY <2>1, <2>4 DEF Publish, CallObserver, NextReturns, codecVars
  <2>5. QED
    BY <1>2, <2>2, <2>3, <2>4 DEF OnStream, StreamStep
<1>3. CASE OnTrack(TrackStep)
  <2>1. UNCHANGED <<role, registered, encoding>>
    BY <1>3 DEF OnTrack
  <2>2. CASE OnFrameCaptured \/ DropScaler \/ OnFrameDirect \/ NewScaler
    BY <2>1, <2>2 DEF OnFrameCaptured, DropScaler, OnFrameDirect, NewScaler, CreateScaler, codecVars
  <2>3. CASE Scale \/ OnScaled
    BY <2>1, <2>3 DEF Scale, OnScaled
  <2>4. QED
    BY <1>3, <2>2, <2>3 DEF OnTrack, TrackStep
<1>4. CASE OnEncoder(EncoderStep)
  <2>1. role' = role
    BY <1>4 DEF OnEncoder
  <2>2. CASE InitEncode
    BY <2>1, <2>2 DEF InitEncode, codecVars
  <2>3. CASE Encode
    BY <2>1, <2>3 DEF Encode, CreateEncoder
  <2>4. CASE Release
    BY <2>1, <2>4 DEF Release
  <2>5. CASE Released
    BY <2>1, <2>5 DEF Released, codecVars
  <2>6. CASE SendFrame
    BY <2>1, <2>6 DEF SendFrame
  <2>7. CASE OnEncodedImage
    BY <2>1, <2>7 DEF OnEncodedImage
  <2>8. QED
    BY <1>4, <2>2, <2>3, <2>4, <2>5, <2>6, <2>7 DEF OnEncoder, EncoderStep
<1>5. CASE UNCHANGED frameVars
  BY <1>5 DEF frameVars, codecVars
<1>6. QED
  BY <1>1, <1>2, <1>3, <1>4, <1>5 DEF FrameNext

(* No observer of a stream is called more than once after its subscription has ended,   *)
(* and libwebrtc gets no picture after Release has returned (Subject::Next, SendFrame).  *)
THEOREM CallsAlwaysEnd == Spec => []CallsEnd
<1>1. Init => ObserversInv /\ WorkerInv
  BY DEF Init, FrameInit, CodecInit, ObserversInv, WorkerInv
<1>2. ObserversInv /\ WorkerInv /\ [Next]_vars => ObserversInv' /\ WorkerInv'
  <2> SUFFICES ASSUME ObserversInv, WorkerInv, [Next]_vars PROVE FrameNext \/ UNCHANGED frameVars
    BY ObserversKeep, WorkerKeeps
  <2> QED
    BY DEF Next, Frame, Rtsp, Libcamera, Audio, vars
<1>3. ObserversInv /\ WorkerInv => CallsEnd
  BY DEF ObserversInv, WorkerInv, CallsEnd
<1>4. QED
  BY <1>1, <1>2, <1>3, PTL DEF Spec

-------------------------------------------------------------------------------
(* FramePath and V4L2Codec: what the producer's thread, the driver and the codec's *)
(* worker do with the buffers.  Seven kinds of step reach a codec: its own ones,     *)
(* and those of the owner, which makes it, ends it, brings a frame, or returns from  *)
(* a task.                                                                           *)

Held == {"dequeued", "task", "requeue"}

\* The producer is inside EmplaceBuffer only while the codec is on; the worker has a buffer
\* between DequeueCapture and Requeue.
CodecStages ==
  /\ codec # "on" => filling = "idle"
  /\ codec = "none" => worker = "gone"
  /\ buffer # NoBuffer <=> worker \in Held

\* A scaler is not ended from within EmplaceBuffer, and no frame comes for an encoder that is being
\* ended.
OwnerStages ==
  /\ wanted # Nothing => role = "scaler" /\ filling = "idle"
  /\ role = "encoder" /\ registered => codec # "leaving"

\* No input buffer is lost.
InputsKept ==
  /\ free + Taken + lent + spent <= Inputs
  /\ codec # "none" => free + Taken + lent + spent = Inputs

StagesInv == TypeOK /\ CodecStages /\ OwnerStages /\ InputsKept

Begins ==
  /\ codec = "none" /\ filling = "idle"
  /\ Start(Order) /\ UNCHANGED faults
  /\ UNCHANGED <<filling, frame>> \/ (filling' = "pop" /\ frame' \in frame..MaxFrames)

Brings ==
  /\ filling = "idle" /\ frame' \in frame..MaxFrames
  /\ filling' = "idle" \/ (filling' = "pop" /\ codec = "on")
  /\ UNCHANGED <<codec, free, tasks, driverVars, workerVars, slips, faults>>

Ends ==
  /\ codec = "on" /\ codec' = "leaving" /\ filling = "idle"
  /\ UNCHANGED <<inputVars, driverVars, workerVars, slips, faults>>

Returns ==
  /\ worker = "task" /\ worker' = "requeue"
  /\ UNCHANGED <<codec, buffer, task, inputVars, driverVars, slips, faults>>

MakesNone ==
  /\ faults < MaxFaults /\ faults' = faults + 1
  /\ UNCHANGED <<codec, inputVars, driverVars, workerVars, slips>>

CodecMoves ==
  \/ CodecStep \/ SourceChange
  \/ Begins \/ Brings \/ Ends \/ Returns \/ MakesNone
  \/ UNCHANGED codecVars

(* The steps of the three owners are of these kinds. *)
LEMMA OwnersMove == ASSUME StagesInv, FrameNext \/ UNCHANGED frameVars PROVE CodecMoves
<1> USE DEF CodecMoves
<1>a. frame \in 0..MaxFrames /\ frame \in frame..MaxFrames /\ codec \in {"none", "on", "leaving"}
  BY CodecAssumption DEF StagesInv, TypeOK, CodecTypeOK, Frames
<1>b. CodecStages /\ OwnerStages
  BY DEF StagesInv
<1>1. CASE OnCodec(CodecStep \/ (role = "decoder" /\ SourceChange))
  BY <1>1 DEF OnCodec
<1>2. CASE OnStream(StreamStep)
  <2>1. CASE StartCapture
    BY <1>b, <2>1 DEF StartCapture, CreateDecoder, Begins, CodecStages
  <2>2. CASE CaptureImage
    <3>1. frame' = frame + 1 /\ frame < MaxFrames
      BY <2>2 DEF CaptureImage
    <3>2. frame' \in frame..MaxFrames
      BY <1>a, <3>1, CodecAssumption
    <3>3. filling = "idle" /\ codec = "on" /\ UNCHANGED <<codec, driverVars, workerVars, slips, faults>>
      BY <2>2 DEF CaptureImage
    <3>4. (filling' = "pop" \/ filling' = filling) /\ UNCHANGED <<free, tasks>>
      BY <2>2 DEF CaptureImage, Emplace
    <3>5. QED
      BY <3>2, <3>3, <3>4 DEF Brings
  <2>3. CASE EndCapture
    BY <2>3 DEF EndCapture, Destroy, Ends
  <2>4. ASSUME NEW o \in Observers, Subscribe(o) \/ Unsubscribe(o) PROVE CodecMoves
    BY <2>4 DEF Subscribe, Unsubscribe
  <2>5. CASE Publish \/ CallObserver
    BY <2>5 DEF Publish, CallObserver
  <2>6. CASE NextReturns
    BY <2>6 DEF NextReturns, TaskReturns, Returns
  <2>7. QED
    BY <1>2, <2>1, <2>2, <2>3, <2>4, <2>5, <2>6 DEF OnStream, StreamStep
<1>3. CASE OnTrack(TrackStep)
  <2>1. CASE OnFrameCaptured
    <3>1. frame' \in frame..MaxFrames
      BY <1>a, <2>1, CodecAssumption DEF OnFrameCaptured
    <3>2. QED
      BY <2>1, <3>1 DEF OnFrameCaptured, Brings
  <2>2. CASE DropScaler
    BY <1>b, <2>2 DEF DropScaler, Destroy, Ends, OwnerStages
  <2>3. CASE OnFrameDirect
    BY <2>3 DEF OnFrameDirect
  <2>4. CASE NewScaler
    BY <1>b, <2>4 DEF NewScaler, CreateScaler, Begins, MakesNone, CodecStages
  <2>5. CASE Scale
    <3>1. wanted # Nothing
      BY <2>5, FramePathAssumption DEF Scale
    <3>2. frame' \in frame..MaxFrames
      BY <1>a, <2>5 DEF Scale
    <3>3. QED
      BY <1>b, <2>5, <3>1, <3>2 DEF Scale, Emplace, Brings, OwnerStages
  <2>6. CASE OnScaled
    BY <2>6 DEF OnScaled, TaskReturns, Returns
  <2>7. QED
    BY <1>3, <2>1, <2>2, <2>3, <2>4, <2>5, <2>6 DEF OnTrack, TrackStep
<1>4. CASE OnEncoder(EncoderStep)
  <2>1. CASE InitEncode \/ Released
    BY <2>1 DEF InitEncode, Released
  <2>2. CASE Encode
    <3>1. frame' \in frame..MaxFrames
      BY <1>a, <2>2, CodecAssumption DEF Encode
    <3>2. CASE codec = "none"
      BY <1>b, <2>2, <3>1, <3>2 DEF Encode, CreateEncoder, Begins, CodecStages
    <3>3. CASE codec # "none"
      <4>1. codec = "on"
        BY <1>a, <1>b, <2>2, <3>3 DEF Encode, OwnerStages
      <4>2. QED
        BY <2>2, <3>1, <3>3, <4>1 DEF Encode, Brings
    <3>4. QED
      BY <3>2, <3>3
  <2>3. CASE Release
    BY <2>3 DEF Release, Destroy, Ends, codecVars
  <2>4. CASE SendFrame \/ OnEncodedImage
    BY <2>4 DEF SendFrame, OnEncodedImage, TaskReturns, Returns, codecVars
  <2>5. QED
    BY <1>4, <2>1, <2>2, <2>3, <2>4 DEF OnEncoder, EncoderStep
<1>5. CASE UNCHANGED frameVars
  BY <1>5 DEF frameVars
<1>6. QED
  BY <1>1, <1>2, <1>3, <1>4, <1>5 DEF FrameNext

(* Construction gives the driver each capture buffer once (PrepareBuffer). *)
LEMMA BuffersOrdered == Order \in Seq(Buffers) /\ Distinct(Order)
<1> DEFINE n == Cardinality(Buffers)
<1>1. n \in Nat /\ ExistsBijection(1..n, Buffers)
  BY CodecAssumption, FS_CardinalityType
<1>2. PICK f \in [1..n -> Buffers] : \A i, j \in 1..n : f[i] = f[j] => i = j
  <2>1. PICK f \in Bijection(1..n, Buffers) : TRUE
    BY <1>1, Fun_ExistsBij
  <2>2. QED
    BY <2>1 DEF Bijection, Injection, IsInjective
<1>3. \E order \in Orders : TRUE
  BY <1>2 DEF Orders
<1>4. Order \in [1..n -> Buffers] /\ \A i, j \in DOMAIN Order : i # j => Order[i] # Order[j]
  BY <1>3 DEF Order, Orders
<1>5. Order \in Seq(Buffers)
  BY <1>1, <1>4, IsASeq
<1>6. DOMAIN Order = 1..Len(Order)
  BY <1>5, LenProperties
<1>7. QED
  BY <1>4, <1>5, <1>6 DEF Distinct

(* What a queue is after its head has been taken. *)
LEMMA Dequeued ==
  ASSUME NEW S, NEW s \in Seq(S), s # <<>>
  PROVE  /\ Len(s) \in Nat \ {0} /\ Head(s) = s[1] /\ Head(s) \in S
         /\ Tail(s) \in Seq(S) /\ Len(Tail(s)) = Len(s) - 1
         /\ \A i \in 1..Len(Tail(s)) : Tail(s)[i] = s[i + 1]
<1>1. Len(s) \in Nat /\ Len(s) # 0 /\ s[1] \in S
  BY EmptySeq, LenProperties, ElementOfSeq
<1>2. QED
  BY <1>1, HeadTailProperties

(* What the codec, its driver and its owner write is of its type. *)
LEMMA CodecTypeStep == ASSUME CodecTypeOK, CodecStages, InputsKept, CodecMoves PROVE CodecTypeOK'
<1> USE CodecAssumption, BuffersOrdered DEF CodecTypeOK, Frames, Reallocate, QueueBuffer, DequeueBuffer
<1>1. CASE Leave
  BY <1>1 DEF Leave, inputVars, driverVars, workerVars
<1>2. CASE EmplaceBuffer
  <2>1. CASE NoIndex \/ PopIndex
    <3>1. free' \in 0..Inputs /\ filling' \in {"idle", "index"}
      BY <2>1 DEF NoIndex, PopIndex
    <3>2. UNCHANGED <<codec, frame, tasks, driverVars, workerVars, slips, faults>>
      BY <2>1 DEF NoIndex, PopIndex
    <3>3. QED
      BY <3>1, <3>2 DEF driverVars, workerVars
  <2>2. CASE NotQueued
    <3>1. free' \in 0..Inputs /\ faults' \in 0..MaxFaults
      BY <2>2 DEF NotQueued, InputsKept, Taken
    <3>2. QED
      BY <2>2, <3>1 DEF NotQueued, driverVars, workerVars
  <2>3. CASE QueueInput
    <3>1. Append(fed, frame) \in Seq(0..MaxFrames)
      BY AppendProperties
    <3>2. lent' \in 0..Inputs
      BY <2>3 DEF QueueInput, InputsKept, Taken
    <3>3. QED
      BY <2>3, <3>1, <3>2 DEF QueueInput, workerVars
  <2>4. CASE PushTask
    <3>1. tasks' \in Seq(0..MaxFrames)
      BY <2>4, AppendProperties DEF PushTask, Push
    <3>2. slips' \in Nat
      BY <2>4 DEF PushTask
    <3>3. QED
      BY <2>4, <3>1, <3>2 DEF PushTask, driverVars, workerVars
  <2>5. QED
    BY <1>2, <2>1, <2>2, <2>3, <2>4 DEF EmplaceBuffer
<1>3. CASE Process \/ Swallow
  <2>1. fed # <<>>
    BY <1>3 DEF Process, Swallow
  <2>2. Head(fed) \in 0..MaxFrames /\ Tail(fed) \in Seq(0..MaxFrames) /\ Len(fed) \in Nat \ {0}
    BY <2>1, Dequeued
  <2>4. CASE Process
    <3>1. Head(empties) \in Buffers /\ Tail(empties) \in Seq(Buffers)
      BY <2>4, Dequeued DEF Process
    <3>2. full' \in Seq(Buffers) /\ empties' \in Seq(Buffers)
      BY <2>4, <3>1, AppendProperties DEF Process
    <3>3. picture' \in [Buffers -> 0..MaxFrames]
      BY <2>2, <2>4, <3>1 DEF Process
    <3>4. QED
      BY <2>2, <2>4, <3>2, <3>3 DEF Process, inputVars, workerVars
  <2>5. CASE Swallow
    BY <2>2, <2>5 DEF Swallow, inputVars, workerVars
  <2>6. QED
    BY <1>3, <2>4, <2>5
<1>4. CASE DequeueInput
  <2>1. spent' \in 0..Inputs /\ free' \in 0..Inputs
    BY <1>4 DEF DequeueInput, InputsKept, Taken
  <2>2. QED
    BY <1>4, <2>1 DEF DequeueInput, workerVars
<1>5. CASE DequeueCapture
  <2>1. Head(full) \in Buffers /\ Tail(full) \in Seq(Buffers)
    BY <1>5, Dequeued DEF DequeueCapture
  <2>2. QED
    BY <1>5, <2>1 DEF DequeueCapture, inputVars
<1>6. CASE PopTask
  <2>1. tasks # <<>> => Head(tasks) \in 0..MaxFrames /\ Tail(tasks) \in Seq(0..MaxFrames)
    BY Dequeued
  <2>2. tasks' \in Seq(0..MaxFrames) /\ task' \in 0..MaxFrames
    BY <1>6, <2>1 DEF PopTask
  <2>4. slips' \in Nat
    BY <1>6 DEF PopTask
  <2>5. worker' \in {"task", "requeue"}
    BY <1>6 DEF PopTask
  <2>3. QED
    BY <1>6, <2>2, <2>4, <2>5 DEF PopTask, driverVars
<1>7. CASE Requeue
  <2>1. buffer \in Buffers
    BY <1>7 DEF Requeue, CodecStages, Held
  <2>2. empties' \in Seq(Buffers)
    BY <1>7, <2>1, AppendProperties DEF Requeue
  <2>3. QED
    BY <1>7, <2>2 DEF Requeue, inputVars
<1>8. CASE RequeueFails \/ WorkerEnds
  <2>1. faults' \in 0..MaxFaults
    BY <1>8 DEF RequeueFails, WorkerEnds
  <2>2. worker' \in {"select", "gone"}
    BY <1>8 DEF RequeueFails, WorkerEnds
  <2>3. buffer' = NoBuffer /\ task' = 0 /\ UNCHANGED <<codec, inputVars, driverVars, slips>>
    BY <1>8 DEF RequeueFails, WorkerEnds
  <2>4. QED
    BY <2>1, <2>2, <2>3 DEF inputVars, driverVars
<1>9. CASE SourceChange
  <2>1. Len(full) \in Nat
    BY LenProperties
  <2>2. slips' \in Nat /\ changed' \in BOOLEAN
    BY <1>9, <2>1 DEF SourceChange
  <2>3. QED
    BY <1>9, <2>2 DEF SourceChange, inputVars, workerVars
<1>10. CASE Begins
  <2>1. frame' \in 0..MaxFrames /\ filling' \in {"idle", "pop"}
    BY <1>10 DEF Begins
  <2>2. changed' \in BOOLEAN
    BY <1>10 DEF Begins, Start, PrepareBuffer
  <2>3. QED
    BY <1>10, <2>1, <2>2 DEF Begins, Start, PrepareBuffer
<1>11. CASE Brings \/ Ends \/ Returns
  <2>1. CASE Brings
    <3>1. frame' \in 0..MaxFrames /\ filling' \in {"idle", "pop"}
      BY <2>1 DEF Brings
    <3>2. QED
      BY <2>1, <3>1 DEF Brings, driverVars, workerVars
  <2>2. CASE Ends
    BY <2>2 DEF Ends, inputVars, driverVars, workerVars
  <2>3. CASE Returns
    BY <2>3 DEF Returns, inputVars, driverVars
  <2>4. QED
    BY <1>11, <2>1, <2>2, <2>3
<1>12. CASE MakesNone \/ UNCHANGED codecVars
  <2>1. CASE MakesNone
    BY <2>1 DEF MakesNone, inputVars, driverVars, workerVars
  <2>2. CASE UNCHANGED codecVars
    BY <2>2 DEF codecVars, inputVars, driverVars, workerVars
  <2>3. QED
    BY <1>12, <2>1, <2>2
<1>13. CASE ReleaseInput
  <2>1. spent' \in 0..Inputs /\ lent' \in 0..Inputs
    BY <1>13 DEF ReleaseInput, InputsKept, Taken
  <2>2. QED
    BY <1>13, <2>1 DEF ReleaseInput, inputVars, workerVars
<1>14. QED
  BY <1>1, <1>2, <1>3, <1>4, <1>5, <1>6, <1>7, <1>8, <1>9, <1>10, <1>11, <1>12, <1>13 DEF CodecMoves, CodecStep, Worker

(* What the streams, the track and the encoder write is of its type. *)
LEMMA OwnersTypeStep == ASSUME TypeOK, FrameNext \/ UNCHANGED frameVars, CodecTypeOK' PROVE TypeOK'
<1> USE FramePathAssumption, CodecAssumption DEF TypeOK, streamVars, trackVars, encoderVars
<1>1. CASE UNCHANGED <<role, streamVars, trackVars, encoderVars>>
  BY <1>1
<1>2. CASE OnStream(StreamStep)
  <2>1. UNCHANGED <<role, trackVars, encoderVars>>
    BY <1>2 DEF OnStream
  <2>2. CASE UNCHANGED streamVars
    BY <2>1, <2>2
  <2>3. CASE CaptureImage
    <3>1. started' \in BOOLEAN
      BY <2>3 DEF CaptureImage
    <3>2. QED
      BY <2>1, <2>3, <3>1 DEF CaptureImage
  <2>4. ASSUME NEW o \in Observers, Subscribe(o) \/ Unsubscribe(o) PROVE TypeOK'
    BY <2>1, <2>4 DEF Subscribe, Unsubscribe
  <2>5. CASE Publish
    <3>1. latest' \in Frames
      BY <2>5 DEF Publish, CodecTypeOK
    <3>2. QED
      BY <2>1, <2>5, <3>1 DEF Publish
  <2>6. CASE CallObserver
    <3>1. late' \in [Observers -> Nat] /\ calling' \in SUBSET Observers
      BY <2>6 DEF CallObserver
    <3>2. QED
      BY <2>1, <2>6, <3>1 DEF CallObserver
  <2>7. QED
    BY <1>2, <2>2, <2>3, <2>4, <2>5, <2>6 DEF OnStream, StreamStep, StartCapture, EndCapture, NextReturns
<1>3. CASE OnTrack(TrackStep)
  <2>1. UNCHANGED <<role, streamVars, encoderVars>>
    BY <1>3 DEF OnTrack
  <2>2. sent' \in Frames
    BY <1>3 DEF OnTrack, TrackStep, OnFrameCaptured, DropScaler, OnFrameDirect, NewScaler, Scale, OnScaled, CodecTypeOK
  <2>3. size' \in Sizes \cup {Nothing} /\ wanted' \in Sizes \cup {"direct", Nothing}
    BY <1>3 DEF OnTrack, TrackStep, OnFrameCaptured, DropScaler, OnFrameDirect, NewScaler, CreateScaler, Scale, OnScaled
  <2>4. QED
    BY <2>1, <2>2, <2>3
<1>4. CASE OnEncoder(EncoderStep)
  <2>1. UNCHANGED <<role, streamVars, trackVars>>
    BY <1>4 DEF OnEncoder
  <2>2. CASE InitEncode
    <3>1. registered' \in BOOLEAN /\ encoding' \in BOOLEAN /\ loaded' \in BOOLEAN
      BY <2>2 DEF InitEncode
    <3>2. session' \in 0..MaxSessions
      BY <2>2 DEF InitEncode
    <3>3. QED
      BY <2>1, <3>1, <3>2
  <2>3. CASE ~InitEncode
    <3>1. session' = session
      BY <1>4, <2>3 DEF OnEncoder, EncoderStep, Encode, Release, Released, SendFrame, OnEncodedImage
    <3>2. registered' \in BOOLEAN /\ encoding' \in BOOLEAN /\ loaded' \in BOOLEAN
      BY <1>4, <2>3 DEF OnEncoder, EncoderStep, Encode, Release, Released, SendFrame, OnEncodedImage
    <3>3. QED
      BY <2>1, <3>1, <3>2
  <2>4. QED
    BY <2>2, <2>3
<1>5. QED
  BY <1>1, <1>2, <1>3, <1>4 DEF FrameNext, OnCodec, frameVars

(* The worker has a buffer for as long as it needs it (CaptureBuffer). *)
LEMMA CodecStagesKeep == ASSUME CodecTypeOK, CodecStages, CodecMoves PROVE CodecStages'
<1> USE CodecAssumption DEF CodecTypeOK, CodecStages, Held, inputVars, driverVars, workerVars
<1>1. CASE Leave \/ EmplaceBuffer
  BY <1>1 DEF Leave, EmplaceBuffer, NoIndex, PopIndex, NotQueued, QueueInput, PushTask
<1>2. CASE Process \/ Swallow \/ ReleaseInput \/ SourceChange \/ DequeueInput
  BY <1>2 DEF Process, Swallow, ReleaseInput, SourceChange, DequeueInput
<1>3. CASE DequeueCapture
  <2>1. Head(full) \in Buffers
    BY <1>3, Dequeued DEF DequeueCapture
  <2>2. QED
    BY <1>3, <2>1 DEF DequeueCapture
<1>4. CASE PopTask \/ Requeue \/ RequeueFails \/ WorkerEnds
  BY <1>4 DEF PopTask, Requeue, RequeueFails, WorkerEnds
<1>5. CASE Begins
  BY <1>5 DEF Begins, Start
<1>6. CASE Brings \/ Ends \/ Returns \/ MakesNone \/ UNCHANGED codecVars
  BY <1>6 DEF Brings, Ends, Returns, MakesNone, codecVars
<1>7. QED
  BY <1>1, <1>2, <1>3, <1>4, <1>5, <1>6 DEF CodecMoves, CodecStep, Worker

(* An owner ends its codec between frames only (Release, OnFrameCaptured). *)
LEMMA OwnerStagesKeep == ASSUME StagesInv, WorkerInv, FrameNext \/ UNCHANGED frameVars PROVE OwnerStages'
<1> USE FramePathAssumption DEF OwnerStages, trackVars, encoderVars, inputVars
<1>a. OwnerStages /\ CodecStages /\ TypeOK
  BY DEF StagesInv
<1>1. CASE OnCodec(CodecStep \/ (role = "decoder" /\ SourceChange))
  <2>1. UNCHANGED <<role, wanted, registered>>
    BY <1>1 DEF OnCodec
  <2>2. CASE EmplaceBuffer
    <3>1. wanted = Nothing /\ codec' = codec
      BY <1>a, <2>2 DEF EmplaceBuffer, NoIndex, PopIndex, NotQueued, QueueInput, PushTask
    <3>2. QED
      BY <1>a, <2>1, <3>1
  <2>3. CASE ~EmplaceBuffer
    <3>1. filling' = filling /\ (codec' = codec \/ codec' = "none")
      BY <1>1, <2>3 DEF OnCodec, CodecStep, Leave, Process, Swallow, ReleaseInput, SourceChange, Worker, DequeueInput, DequeueCapture,
         PopTask, Requeue, RequeueFails, WorkerEnds
    <3>2. QED
      BY <1>a, <2>1, <3>1
  <2>4. QED
    BY <2>2, <2>3
<1>2. CASE OnStream(StreamStep)
  <2>1. UNCHANGED <<role, wanted, registered>>
    BY <1>2 DEF OnStream
  <2>2. role = "decoder"
    BY <1>2 DEF OnStream, StreamStep, StartCapture, CaptureImage, EndCapture, Subscribe, Unsubscribe, Publish, CallObserver, NextReturns
  <2>3. QED
    BY <1>a, <2>1, <2>2
<1>3. CASE OnTrack(TrackStep)
  <2>1. role = "scaler" /\ UNCHANGED <<role, registered>>
    BY <1>3 DEF OnTrack, TrackStep, OnFrameCaptured, DropScaler, OnFrameDirect, NewScaler, Scale, OnScaled
  <2>2. wanted' # Nothing => filling' = "idle"
    BY <1>a, <1>3 DEF OnTrack, TrackStep, OnFrameCaptured, DropScaler, OnFrameDirect, NewScaler, CreateScaler, Start, Scale, OnScaled
  <2>3. QED
    BY <2>1, <2>2
<1>4. CASE OnEncoder(EncoderStep)
  <2>1. role = "encoder" /\ UNCHANGED <<role, wanted>>
    BY <1>4 DEF OnEncoder, EncoderStep, InitEncode, Encode, Release, Released, SendFrame, OnEncodedImage
  <2>2. wanted = Nothing
    BY <1>a, <2>1
  <2>3. registered' => codec' # "leaving"
    <3>1. CASE InitEncode
      BY <2>1, <3>1 DEF InitEncode, WorkerInv, codecVars
    <3>2. CASE Encode \/ Release
      BY <1>a, <3>2 DEF Encode, CreateEncoder, Start, Release
    <3>3. CASE Released \/ SendFrame \/ OnEncodedImage
      BY <1>a, <2>1, <3>3 DEF Released, SendFrame, OnEncodedImage, codecVars
    <3>4. QED
      BY <1>4, <3>1, <3>2, <3>3 DEF OnEncoder, EncoderStep
  <2>4. QED
    BY <2>1, <2>2, <2>3
<1>5. CASE UNCHANGED frameVars
  BY <1>a, <1>5 DEF frameVars, codecVars
<1>6. QED
  BY <1>1, <1>2, <1>3, <1>4, <1>5 DEF FrameNext

(* An input buffer is free, being filled, or with the driver, and goes from one to the  *)
(* next (PopIndex, NotQueued, QueueInput, ReleaseInput, DequeueInput).                   *)
LEMMA InputsKeep == ASSUME CodecTypeOK, CodecStages, InputsKept, CodecMoves PROVE InputsKept'
<1> USE CodecAssumption DEF InputsKept, CodecTypeOK, inputVars, driverVars, workerVars, Taken
<1>a. CodecStages
  OBVIOUS
<1>b. free \in Nat /\ lent \in Nat /\ spent \in Nat /\ Inputs \in Nat
  OBVIOUS
<1>c. /\ free + Taken + lent + spent <= Inputs
      /\ codec # "none" => free + Taken + lent + spent = Inputs
  OBVIOUS
<1>1. CASE Leave
  BY <1>a, <1>1 DEF Leave
<1>2. CASE NoIndex \/ PopIndex \/ NotQueued
  <2>1. /\ UNCHANGED <<codec, lent, spent>>
        /\ free' + Taken' = free + Taken /\ free' \in Nat
    BY <1>b, <1>2 DEF NoIndex, PopIndex, NotQueued
  <2>2. Taken \in Nat /\ Taken' \in Nat
    OBVIOUS
  <2> HIDE DEF Taken
  <2>3. QED
    BY <1>a, <1>b, <1>c, <2>1, <2>2
<1>3. CASE QueueInput
  BY <1>a, <1>3 DEF QueueInput
<1>4. CASE PushTask
  BY <1>a, <1>4 DEF PushTask
<1>5. CASE ReleaseInput
  <2>1. /\ UNCHANGED <<codec, free, filling>>
        /\ lent' = lent - 1 /\ spent' = spent + 1 /\ lent > 0
    BY <1>5 DEF ReleaseInput
  <2>2. Taken' = Taken /\ Taken \in Nat
    BY <2>1
  <2> HIDE DEF Taken
  <2>3. QED
    BY <1>a, <1>b, <1>c, <2>1, <2>2
<1>6. CASE DequeueInput
  <2>1. /\ UNCHANGED <<codec, filling, lent>>
        /\ free' = free + 1 /\ spent' = spent - 1 /\ spent > 0
    BY <1>6 DEF DequeueInput
  <2>2. Taken' = Taken /\ Taken \in Nat
    BY <2>1
  <2> HIDE DEF Taken
  <2>3. QED
    BY <1>a, <1>b, <1>c, <2>1, <2>2
<1>7. CASE Begins
  <2>1. lent' = 0 /\ free' = Inputs /\ spent' = 0
    BY <1>7 DEF Begins, Start, PrepareBuffer
  <2>2. filling' # "index"
    BY <1>7 DEF Begins
  <2>3. QED
    BY <2>1, <2>2
<1>8. CASE Brings \/ Ends \/ Returns \/ MakesNone
  BY <1>a, <1>8 DEF Brings, Ends, Returns, MakesNone, CodecStages
<1>9. CASE Process \/ Swallow \/ DequeueCapture \/ PopTask \/ Requeue \/ RequeueFails \/ WorkerEnds \/ SourceChange
           \/ UNCHANGED codecVars
  <2>1. UNCHANGED <<codec, free, filling, lent, spent>>
    BY <1>9 DEF Process, Swallow, DequeueCapture, PopTask, Requeue, RequeueFails, WorkerEnds, SourceChange, codecVars
  <2>2. QED
    BY <1>a, <2>1
<1>10. QED
  BY <1>1, <1>2, <1>3, <1>4, <1>5, <1>6, <1>7, <1>8, <1>9 DEF CodecMoves, CodecStep, EmplaceBuffer, Worker

(* So the owners, the worker and the driver stay in step. *)
LEMMA StagesKeep == ASSUME StagesInv, WorkerInv, FrameNext \/ UNCHANGED frameVars PROVE StagesInv'
BY OwnersMove, CodecTypeStep, OwnersTypeStep, CodecStagesKeep, OwnerStagesKeep, InputsKeep DEF StagesInv, TypeOK

\* A capture buffer is at one place: with the driver to fill, filled, or with the worker.
PlacesKept ==
  /\ Distinct(empties) /\ Distinct(full)
  /\ \A i \in 1..Len(empties), j \in 1..Len(full) : empties[i] # full[j]
  /\ \A i \in 1..Len(empties) : empties[i] # buffer
  /\ \A i \in 1..Len(full) : full[i] # buffer

(* It goes round: to the driver, from it to the worker, and back (Process,          *)
(* DequeueCapture, Requeue).                                                         *)
LEMMA PlacesKeep == ASSUME CodecTypeOK, CodecStages, PlacesKept, CodecMoves PROVE PlacesKept'
<1> USE DEF PlacesKept, Distinct
<1>a. /\ empties \in Seq(Buffers) /\ full \in Seq(Buffers) /\ buffer \in Buffers \cup {NoBuffer}
      /\ Len(empties) \in Nat /\ Len(full) \in Nat
      /\ NoBuffer \notin Buffers /\ \A i \in 1..Len(empties) : empties[i] \in Buffers
      /\ \A i \in 1..Len(full) : full[i] \in Buffers
  BY CodecAssumption, ElementOfSeq, LenProperties DEF CodecTypeOK
<1>1. CASE UNCHANGED <<empties, full, buffer>>
  BY <1>1
<1>2. CASE Process
  <2>1. empties # <<>> /\ empties' = Tail(empties) /\ full' = Append(full, Head(empties)) /\ buffer' = buffer
    BY <1>2 DEF Process, workerVars
  <2>2. /\ Head(empties) = empties[1] /\ Head(empties) \in Buffers /\ Len(empties) # 0
        /\ Len(empties') = Len(empties) - 1
        /\ \A i \in 1..Len(empties') : empties'[i] = empties[i + 1]
    BY <1>a, <2>1, Dequeued
  <2>3. /\ Len(full') = Len(full) + 1 /\ full'[Len(full) + 1] = empties[1]
        /\ \A i \in 1..Len(full) : full'[i] = full[i]
    BY <1>a, <2>1, <2>2, AppendProperties
  <2>4. QED
    BY <1>a, <2>1, <2>2, <2>3
<1>3. CASE DequeueCapture
  <2>1. full # <<>> /\ full' = Tail(full) /\ buffer' = Head(full) /\ empties' = empties
    BY <1>3 DEF DequeueCapture, DequeueBuffer
  <2>2. /\ Head(full) = full[1] /\ Len(full) # 0 /\ Len(full') = Len(full) - 1
        /\ \A i \in 1..Len(full') : full'[i] = full[i + 1]
    BY <1>a, <2>1, Dequeued
  <2>3. QED
    BY <1>a, <2>1, <2>2
<1>4. CASE Requeue
  <2>1. empties' = Append(empties, buffer) /\ full' = full /\ buffer' = NoBuffer /\ buffer \in Buffers
    BY <1>4, <1>a DEF Requeue, QueueBuffer, CodecStages, Held
  <2>2. /\ Len(empties') = Len(empties) + 1 /\ empties'[Len(empties) + 1] = buffer
        /\ \A i \in 1..Len(empties) : empties'[i] = empties[i]
    BY <1>a, <2>1, AppendProperties
  <2>3. QED
    BY <1>a, <2>1, <2>2
<1>5. CASE RequeueFails \/ WorkerEnds
  <2>1. UNCHANGED <<empties, full>> /\ buffer' = NoBuffer
    BY <1>5 DEF RequeueFails, WorkerEnds, driverVars
  <2>2. QED
    BY <1>a, <2>1
<1>6. CASE SourceChange
  <2>1. Len(empties') = 0 /\ Len(full') = 0
    BY <1>6, EmptySeq DEF SourceChange, Reallocate
  <2>2. QED
    BY <2>1
<1>7. CASE Begins
  <2>1. empties' = Order /\ Len(full') = 0 /\ buffer' = NoBuffer
    BY <1>7, EmptySeq DEF Begins, Start, PrepareBuffer
  <2>2. \A i \in 1..Len(Order) : Order[i] \in Buffers
    BY BuffersOrdered, ElementOfSeq
  <2>3. QED
    BY <1>a, <2>1, <2>2, BuffersOrdered
<1>8. CASE Leave \/ EmplaceBuffer \/ Swallow \/ ReleaseInput \/ DequeueInput \/ PopTask
  BY <1>1, <1>8 DEF Leave, EmplaceBuffer, NoIndex, PopIndex, NotQueued, QueueInput, PushTask, Swallow, ReleaseInput, DequeueInput,
     PopTask,      driverVars, workerVars
<1>9. CASE Brings \/ Ends \/ Returns \/ MakesNone \/ UNCHANGED codecVars
  BY <1>1, <1>9 DEF Brings, Ends, Returns, MakesNone, codecVars, driverVars, workerVars
<1>10. QED
  BY <1>2, <1>3, <1>4, <1>5, <1>6, <1>7, <1>8, <1>9 DEF CodecMoves, CodecStep, Worker

(* A sequence without repetitions has as many elements as places, *)
LEMMA DistinctCounts ==
  ASSUME NEW S, NEW s \in Seq(S), Distinct(s)
  PROVE  IsFiniteSet(ToSet(s)) /\ Cardinality(ToSet(s)) = Len(s)
<1>1. Len(s) \in Nat /\ DOMAIN s = 1..Len(s) /\ s \in [1..Len(s) -> S]
  BY LenProperties
<1>2. s \in Bijection(1..Len(s), ToSet(s))
  BY <1>1 DEF Bijection, Injection, Surjection, IsInjective, Distinct, ToSet
<1>3. ExistsBijection(1..Len(s), ToSet(s))
  BY <1>2 DEF ExistsBijection
<1>4. IsFiniteSet(1..Len(s)) /\ Cardinality(1..Len(s)) = Len(s)
  BY <1>1, FS_Interval
<1>5. QED
  BY <1>3, <1>4, FS_Bijection

(* so that the places of the capture buffers can be counted. *)
LEMMA PlacesCount ==
  ASSUME CodecTypeOK, PlacesKept
  PROVE  Cardinality(ToSet(empties) \cup ToSet(full) \cup {buffer}) = Cardinality({buffer}) + Len(empties) + Len(full)
<1>1. empties \in Seq(Buffers) /\ full \in Seq(Buffers) /\ Len(empties) \in Nat /\ Len(full) \in Nat
  BY LenProperties DEF CodecTypeOK
<1>2. /\ IsFiniteSet(ToSet(empties)) /\ Cardinality(ToSet(empties)) = Len(empties)
      /\ IsFiniteSet(ToSet(full)) /\ Cardinality(ToSet(full)) = Len(full)
  BY <1>1, DistinctCounts DEF PlacesKept
<1>3. DOMAIN empties = 1..Len(empties) /\ DOMAIN full = 1..Len(full)
  BY <1>1, LenProperties
<1>4. ToSet(empties) \cap ToSet(full) = {} /\ buffer \notin ToSet(empties) \cup ToSet(full)
  BY <1>3 DEF PlacesKept, ToSet
<1>5. /\ IsFiniteSet(ToSet(empties) \cup ToSet(full))
      /\ Cardinality(ToSet(empties) \cup ToSet(full)) = Len(empties) + Len(full)
  <2>1. Cardinality(ToSet(empties) \cap ToSet(full)) = 0
    BY <1>4, FS_EmptySet
  <2>2. /\ IsFiniteSet(ToSet(empties) \cup ToSet(full))
        /\ Cardinality(ToSet(empties) \cup ToSet(full)) =
             Cardinality(ToSet(empties)) + Cardinality(ToSet(full)) - Cardinality(ToSet(empties) \cap ToSet(full))
    BY <1>2, FS_Union
  <2>3. QED
    BY <1>1, <1>2, <2>1, <2>2
<1>6. Cardinality({buffer}) = 1
  BY FS_Singleton
<1>7. Cardinality(ToSet(empties) \cup ToSet(full) \cup {buffer}) = Len(empties) + Len(full) + 1
  BY <1>4, <1>5, FS_AddElement
<1>8. QED
  BY <1>1, <1>6, <1>7

Seen == IF worker = "dequeued" THEN 1 ELSE 0
Untold == IF filling = "queued" THEN 1 ELSE 0

\* The frame whose task comes i-th: the one that EmplaceBuffer has is the next to get one.
Turn(queue, next, i) == IF i <= Len(queue) THEN queue[i] ELSE next
Expected(i) == Turn(tasks, frame, i)

\* What the worker has, what the driver has filled and what it has yet to process are, in this
\* order, the frames of the tasks, and of the task to come.
LinedUp ==
  /\ Seen + Len(full) + Len(fed) = Len(tasks) + Untold
  /\ worker = "dequeued" => picture[buffer] = Expected(1)
  /\ \A i \in 1..Len(full) : picture[full[i]] = Expected(Seen + i)
  /\ \A i \in 1..Len(fed) : fed[i] = Expected(Seen + Len(full) + i)

PicturesMatch ==
  /\ worker = "task" /\ slips = 0 => picture[buffer] = task
  /\ codec = "on" /\ slips = 0 => LinedUp

(* The producer gives the driver a frame and then pushes its task (QueueInput,          *)
(* PushTask): the order is the same even while the task is not there yet.                *)
LEMMA ProducerLines ==
  ASSUME CodecTypeOK, LinedUp, slips' = 0, QueueInput \/ PushTask \/ Brings
  PROVE  LinedUp'
<1> USE DEF LinedUp, Seen, Untold, Expected, Turn
<1>a. /\ Len(full) \in Nat /\ Len(fed) \in Nat /\ Len(tasks) \in Nat
      /\ fed \in Seq(Frames) /\ tasks \in Seq(Frames) /\ frame \in Frames
  BY LenProperties DEF CodecTypeOK
<1>1. CASE QueueInput
  <2>1. /\ filling = "index" /\ filling' = "queued" /\ fed' = Append(fed, frame)
        /\ UNCHANGED <<frame, tasks, full, picture, worker, buffer>>
    BY <1>1 DEF QueueInput, QueueBuffer, workerVars
  <2>2. /\ Len(fed') = Len(fed) + 1 /\ fed'[Len(fed) + 1] = frame
        /\ \A i \in 1..Len(fed) : fed'[i] = fed[i]
    BY <1>a, <2>1, AppendProperties
  <2>3. Turn(tasks, frame, Seen + Len(full) + Len(fed) + 1) = frame
    BY <1>a, <2>1
  <2>4. Untold = 0 /\ Untold' = 1 /\ Seen' = Seen /\ Seen \in 0..1
    BY <2>1
  <2> HIDE DEF Turn, Seen, Untold
  <2>5. Seen + Len(full) + (Len(fed) + 1) = Seen + Len(full) + Len(fed) + 1
    BY <1>a, <2>4
  <2>6. \A i \in 1..Len(fed') : fed'[i] = Turn(tasks, frame, Seen + Len(full) + i)
    BY <1>a, <2>2, <2>3, <2>5
  <2>7. QED
    BY <1>a, <2>1, <2>2, <2>4, <2>6
<1>2. CASE PushTask
  <2>1. /\ filling = "queued" /\ filling' = "idle" /\ tasks' = Push(tasks, frame)
        /\ UNCHANGED <<frame, fed, full, picture, worker, buffer>>
    BY <1>2 DEF PushTask, driverVars, workerVars
  <2>2. slips \in Nat /\ (tasks' = tasks => slips' = slips + 1)
    BY <1>2 DEF PushTask, CodecTypeOK
  <2>3. tasks' = Append(tasks, frame)
    BY <2>1, <2>2 DEF Push
  <2>4. /\ Len(tasks') = Len(tasks) + 1 /\ tasks'[Len(tasks) + 1] = frame
        /\ \A i \in 1..Len(tasks) : tasks'[i] = tasks[i]
    BY <1>a, <2>3, AppendProperties
  <2>5. \A i \in 1..Len(tasks) + 1 : Turn(tasks', frame', i) = Turn(tasks, frame, i)
    BY <1>a, <2>1, <2>4
  <2>6. Seen' = Seen /\ Untold = 1 /\ Untold' = 0 /\ Seen \in 0..1
    BY <2>1
  <2>7. Seen + Len(full) + Len(fed) = Len(tasks) + 1
    BY <2>6
  <2>8. \A i \in 1..Len(full) : Seen + i \in 1..Len(tasks) + 1
    BY <1>a, <2>6, <2>7
  <2>9. \A i \in 1..Len(fed) : Seen + Len(full) + i \in 1..Len(tasks) + 1
    BY <1>a, <2>6, <2>7
  <2>10. worker = "dequeued" => 1 \in 1..Len(tasks) + 1
    BY <1>a
  <2> HIDE DEF Turn
  <2>11. QED
    BY <1>a, <2>1, <2>4, <2>5, <2>6, <2>7, <2>8, <2>9, <2>10
<1>3. CASE Brings
  <2>1. /\ filling = "idle" /\ filling' # "queued"
        /\ UNCHANGED <<tasks, fed, full, picture, worker, buffer>>
    BY <1>3 DEF Brings, driverVars, workerVars
  <2>2. Seen + Len(full) + Len(fed) = Len(tasks) /\ Seen' = Seen /\ Untold' = 0 /\ Seen \in 0..1
    BY <1>a, <2>1
  <2>3. \A i \in 1..Len(tasks) : Turn(tasks', frame', i) = Turn(tasks, frame, i)
    BY <2>1
  <2>4. \A i \in 1..Len(full) : Seen + i \in 1..Len(tasks)
    BY <1>a, <2>2
  <2>5. \A i \in 1..Len(fed) : Seen + Len(full) + i \in 1..Len(tasks)
    BY <1>a, <2>2
  <2>6. worker = "dequeued" => 1 \in 1..Len(tasks)
    <3>1. worker = "dequeued" => Seen = 1
      OBVIOUS
    <3>2. QED
      BY <1>a, <2>2, <3>1
  <2> HIDE DEF Turn
  <2>7. QED
    BY <1>a, <2>1, <2>2, <2>3, <2>4, <2>5, <2>6
<1>4. QED
  BY <1>1, <1>2, <1>3

(* The driver shows the oldest frame on the first buffer that it may fill. *)
LEMMA ProcessLines ==
  ASSUME CodecTypeOK, CodecStages, PlacesKept, LinedUp, Process
  PROVE  LinedUp'
<1> USE DEF LinedUp, Expected
<1>a. /\ Len(full) \in Nat /\ Len(fed) \in Nat /\ Len(tasks) \in Nat /\ Len(empties) \in Nat
      /\ fed \in Seq(Frames) /\ full \in Seq(Buffers) /\ empties \in Seq(Buffers)
      /\ picture \in [Buffers -> Frames] /\ \A i \in 1..Len(full) : full[i] \in Buffers
  BY LenProperties, ElementOfSeq DEF CodecTypeOK
<1>1. /\ fed # <<>> /\ empties # <<>> /\ fed' = Tail(fed) /\ full' = Append(full, Head(empties))
      /\ picture' = [picture EXCEPT ![Head(empties)] = Head(fed)]
      /\ UNCHANGED <<filling, frame, tasks, worker, buffer>>
  BY DEF Process, inputVars, workerVars
<1>b. Seen \in 0..1 /\ Seen' = Seen /\ Untold' = Untold /\ Untold \in 0..1
  BY <1>1 DEF Seen, Untold
<1>2. /\ Head(empties) = empties[1] /\ Head(empties) \in Buffers /\ 1 \in 1..Len(empties)
  BY <1>a, <1>1, Dequeued
<1>3. /\ Head(fed) = fed[1] /\ Len(fed) # 0 /\ Len(fed') = Len(fed) - 1
      /\ \A i \in 1..Len(fed') : fed'[i] = fed[i + 1]
  BY <1>a, <1>1, Dequeued
<1>4. /\ Len(full') = Len(full) + 1 /\ full'[Len(full) + 1] = Head(empties)
      /\ \A i \in 1..Len(full) : full'[i] = full[i]
  BY <1>a, <1>1, <1>2, AppendProperties
<1>5. picture'[Head(empties)] = fed[1]
  BY <1>a, <1>1, <1>2, <1>3
<1>6. \A i \in 1..Len(full) : picture'[full[i]] = picture[full[i]]
  <2>1. \A i \in 1..Len(full) : full[i] # Head(empties)
    BY <1>2 DEF PlacesKept
  <2>2. QED
    BY <1>a, <1>1, <2>1
<1>7. worker = "dequeued" => picture'[buffer] = picture[buffer]
  <2>1. buffer # Head(empties) /\ (worker = "dequeued" => buffer \in Buffers)
    BY <1>2 DEF PlacesKept, CodecStages, Held, CodecTypeOK
  <2>2. QED
    BY <1>a, <1>1, <2>1
<1>8. fed[1] = Turn(tasks, frame, Seen + Len(full) + 1)
  <2>1. 1 \in 1..Len(fed)
    BY <1>a, <1>3
  <2>2. QED
    BY <2>1
<1>9. \A i \in 1..Len(full') : picture'[full'[i]] = Turn(tasks, frame, Seen + i)
  <2>1. ASSUME NEW i \in 1..Len(full) PROVE picture'[full'[i]] = Turn(tasks, frame, Seen + i)
    BY <1>4, <1>6, <2>1
  <2>2. picture'[full'[Len(full) + 1]] = Turn(tasks, frame, Seen + (Len(full) + 1))
    <3>1. Seen + (Len(full) + 1) = Seen + Len(full) + 1
      BY <1>a, <1>b
    <3>2. QED
      BY <1>4, <1>5, <1>8, <3>1
  <2>3. 1..Len(full') = 1..Len(full) \cup {Len(full) + 1}
    BY <1>a, <1>4
  <2>4. QED
    BY <2>1, <2>2, <2>3
<1>10. \A i \in 1..Len(fed') : fed'[i] = Turn(tasks, frame, Seen + Len(full') + i)
  <2>1. ASSUME NEW i \in 1..Len(fed') PROVE fed'[i] = Turn(tasks, frame, Seen + Len(full') + i)
    <3>1. i + 1 \in 1..Len(fed) /\ fed'[i] = fed[i + 1]
      BY <1>a, <1>3
    <3>2. Seen + Len(full) + (i + 1) = Seen + Len(full') + i
      BY <1>a, <1>b, <1>4
    <3>3. QED
      BY <3>1, <3>2
  <2>2. QED
    BY <2>1
<1>11. Seen' + Len(full') + Len(fed') = Len(tasks') + Untold'
  BY <1>a, <1>b, <1>1, <1>3, <1>4
<1>12. QED
  BY <1>b, <1>1, <1>7, <1>9, <1>10, <1>11

(* The worker takes the first picture, and then the first task (DequeueCapture, PopTask). *)
LEMMA WorkerLines ==
  ASSUME CodecTypeOK, CodecStages, LinedUp, slips' = 0, DequeueCapture \/ PopTask
  PROVE  LinedUp' /\ (worker' = "task" => picture'[buffer'] = task')
<1> USE DEF LinedUp, Seen, Untold, Expected, Turn
<1>a. /\ Len(full) \in Nat /\ Len(fed) \in Nat /\ Len(tasks) \in Nat
      /\ full \in Seq(Buffers) /\ tasks \in Seq(Frames)
  BY LenProperties DEF CodecTypeOK
<1>1. CASE DequeueCapture
  <2>1. /\ worker = "select" /\ worker' = "dequeued" /\ full # <<>>
        /\ buffer' = Head(full) /\ full' = Tail(full)
        /\ UNCHANGED <<filling, frame, tasks, fed, picture>>
    BY <1>1 DEF DequeueCapture, DequeueBuffer, inputVars
  <2>2. /\ Head(full) = full[1] /\ Len(full) # 0 /\ Len(full') = Len(full) - 1
        /\ \A i \in 1..Len(full') : full'[i] = full[i + 1]
    BY <1>a, <2>1, Dequeued
  <2>3. QED
    BY <1>a, <2>1, <2>2
<1>2. CASE PopTask
  <2>1. slips \in Nat
    BY DEF CodecTypeOK
  <2>2. /\ tasks # <<>> /\ worker = "dequeued" /\ worker' = "task"
        /\ task' = Head(tasks) /\ tasks' = Tail(tasks)
        /\ UNCHANGED <<filling, frame, fed, full, picture, buffer>>
    BY <1>2, <2>1 DEF PopTask, driverVars
  <2>3. /\ Head(tasks) = tasks[1] /\ Len(tasks) # 0 /\ Len(tasks') = Len(tasks) - 1
        /\ \A i \in 1..Len(tasks') : tasks'[i] = tasks[i + 1]
    BY <1>a, <2>2, Dequeued
  <2>4. \A i \in Nat \ {0} : Turn(tasks', frame', i) = Turn(tasks, frame, i + 1)
    BY <1>a, <2>2, <2>3
  <2>5. picture'[buffer'] = task'
    BY <1>a, <2>2, <2>3
  <2>6. Seen = 1 /\ Seen' = 0 /\ Untold' = Untold
    BY <2>2
  <2> HIDE DEF Turn
  <2>7. \A i \in 1..Len(full') : picture'[full'[i]] = Turn(tasks', frame', Seen' + i)
    <3>1. ASSUME NEW i \in 1..Len(full) PROVE picture[full[i]] = Turn(tasks', frame', i)
      <4>1. picture[full[i]] = Turn(tasks, frame, 1 + i)
        BY <2>6
      <4>2. i \in Nat \ {0} /\ 1 + i = i + 1
        BY <1>a
      <4>3. QED
        BY <2>4, <4>1, <4>2
    <3>2. \A i \in 1..Len(full) : Seen' + i = i
      BY <1>a, <2>6
    <3>3. QED
      BY <2>2, <3>1, <3>2
  <2>8. \A i \in 1..Len(fed') : fed'[i] = Turn(tasks', frame', Seen' + Len(full') + i)
    <3>1. ASSUME NEW i \in 1..Len(fed) PROVE fed[i] = Turn(tasks', frame', Len(full) + i)
      <4>1. fed[i] = Turn(tasks, frame, 1 + Len(full) + i)
        BY <2>6
      <4>2. Len(full) + i \in Nat \ {0} /\ 1 + Len(full) + i = (Len(full) + i) + 1
        BY <1>a
      <4>3. QED
        BY <2>4, <4>1, <4>2
    <3>2. \A i \in 1..Len(fed) : Seen' + Len(full) + i = Len(full) + i
      BY <1>a, <2>6
    <3>3. QED
      BY <2>2, <3>1, <3>2
  <2>9. QED
    BY <1>a, <2>2, <2>3, <2>5, <2>6, <2>7, <2>8
<1>3. QED
  BY <1>1, <1>2

(* So a task runs on the picture of its frame, on which the driver does not write        *)
(* meanwhile (EmplaceBuffer, CaptureBuffer).                                              *)
LEMMA PicturesKeep ==
  ASSUME CodecTypeOK, CodecStages, PlacesKept, PicturesMatch, CodecMoves
  PROVE  PicturesMatch'
<1> USE DEF PicturesMatch
<1>a. slips \in Nat /\ Len(full) \in Nat /\ codec \in {"none", "on", "leaving"} /\ CodecStages
  BY LenProperties DEF CodecTypeOK
<1>0. SUFFICES ASSUME slips' = 0 PROVE PicturesMatch'
  OBVIOUS
<1>1. CASE UNCHANGED <<codec, filling, frame, tasks, fed, full, picture, worker, buffer, task>> /\ slips = 0
  BY <1>1 DEF LinedUp, Seen, Untold, Expected, Turn
<1>2. CASE /\ UNCHANGED <<filling, frame, tasks, fed, full, picture>> /\ slips = 0
           /\ worker' \notin {"task", "dequeued"} /\ worker # "dequeued" /\ codec' = codec
  BY <1>2 DEF LinedUp, Seen, Untold, Expected, Turn
<1>3. CASE codec' # "on" /\ slips' = slips /\ (worker' # "task" \/ UNCHANGED <<worker, picture, buffer, task>>)
  BY <1>3
<1>4. CASE Leave \/ WorkerEnds \/ Ends
  BY <1>3, <1>4 DEF Leave, WorkerEnds, Ends, driverVars, workerVars
<1>5. CASE NoIndex \/ PopIndex \/ NotQueued
  <2>1. /\ UNCHANGED <<codec, frame, tasks, fed, full, picture, worker, buffer, task, slips>>
        /\ filling # "queued" /\ filling' # "queued"
    BY <1>5 DEF NoIndex, PopIndex, NotQueued, driverVars, workerVars
  <2>2. QED
    BY <1>0, <2>1 DEF LinedUp, Seen, Untold, Expected, Turn
<1>6. CASE QueueInput \/ PushTask \/ Brings
  <2>1. slips = 0 /\ UNCHANGED <<codec, worker, picture, buffer, task>>
    BY <1>0, <1>a, <1>6 DEF QueueInput, PushTask, Brings, driverVars, workerVars
  <2>2. LinedUp => LinedUp'
    BY <1>0, <1>6, ProducerLines
  <2>3. QED
    BY <2>1, <2>2
<1>7. CASE Process
  <2>1. slips = 0 /\ UNCHANGED <<codec, worker, buffer, task>>
    BY <1>0, <1>7 DEF Process, workerVars
  <2>2. LinedUp => LinedUp'
    BY <1>7, ProcessLines
  <2>3. worker = "task" => picture'[buffer] = picture[buffer]
    <3>1. /\ Head(empties) = empties[1] /\ Len(empties) \in Nat \ {0}
          /\ picture' = [picture EXCEPT ![Head(empties)] = Head(fed)]
      BY <1>7, Dequeued DEF Process, CodecTypeOK
    <3>2. buffer # Head(empties)
      BY <3>1 DEF PlacesKept
    <3>3. worker = "task" => buffer \in DOMAIN picture
      BY <1>a DEF CodecStages, Held, CodecTypeOK
    <3>4. QED
      BY <3>1, <3>2, <3>3
  <2>4. QED
    BY <2>1, <2>2, <2>3
<1>8. CASE DequeueCapture \/ PopTask
  <2>1. slips = 0 /\ codec = "on"
    BY <1>0, <1>a, <1>8 DEF DequeueCapture, PopTask
  <2>2. QED
    BY <1>0, <1>8, <2>1, WorkerLines
<1>9. CASE Swallow
  BY <1>0, <1>a, <1>9 DEF Swallow
<1>10. CASE Requeue \/ RequeueFails \/ Returns
  BY <1>0, <1>2, <1>10 DEF Requeue, RequeueFails, Returns, inputVars, driverVars
<1>11. CASE SourceChange
  <2>1. slips = 0 /\ Len(full) = 0 /\ full' = <<>> /\ worker = "select"
    BY <1>0, <1>a, <1>11 DEF SourceChange, Reallocate
  <2>2. UNCHANGED <<codec, filling, frame, tasks, fed, picture, worker>>
    BY <1>11 DEF SourceChange, inputVars, workerVars
  <2>3. Len(full') = 0
    BY <2>1, EmptySeq
  <2>4. QED
    BY <2>1, <2>2, <2>3 DEF LinedUp, Seen, Untold, Expected, Turn
<1>12. CASE Begins
  <2>1. full' = <<>> /\ fed' = <<>> /\ tasks' = <<>> /\ worker' = "select" /\ filling' # "queued"
    BY <1>12 DEF Begins, Start, PrepareBuffer
  <2>2. Len(full') = 0 /\ Len(fed') = 0 /\ Len(tasks') = 0
    BY <2>1, EmptySeq
  <2>3. QED
    BY <2>1, <2>2 DEF LinedUp, Seen, Untold, Expected, Turn
<1>13. CASE DequeueInput \/ ReleaseInput \/ MakesNone \/ UNCHANGED codecVars
  BY <1>0, <1>1, <1>13 DEF DequeueInput, ReleaseInput, MakesNone, codecVars, inputVars, driverVars, workerVars
<1>14. QED
  BY <1>4, <1>5, <1>6, <1>7, <1>8, <1>9, <1>10, <1>11, <1>12, <1>13 DEF CodecMoves, CodecStep, EmplaceBuffer, Worker

FramesInv == StagesInv /\ WorkerInv /\ PlacesKept /\ PicturesMatch

(* There is no codec at first. *)
LEMMA FramesInitial == FrameInit => FramesInv
<1> SUFFICES ASSUME FrameInit PROVE FramesInv
  OBVIOUS
<1> USE CodecAssumption, FramePathAssumption DEF FrameInit, CodecInit
<1>1. CodecTypeOK
  <2>1. frame \in 0..MaxFrames /\ task \in 0..MaxFrames /\ free \in 0..Inputs /\ lent \in 0..Inputs /\ spent \in 0..Inputs
        /\ slips \in Nat /\ faults \in 0..MaxFaults /\ picture \in [Buffers -> 0..MaxFrames]
    OBVIOUS
  <2>2. tasks \in Seq(0..MaxFrames) /\ fed \in Seq(0..MaxFrames) /\ empties \in Seq(Buffers) /\ full \in Seq(Buffers)
    BY EmptySeq
  <2>3. QED
    BY <2>1, <2>2 DEF CodecTypeOK, Frames
<1>2. TypeOK
  <2>1. latest \in Frames /\ sent \in Frames /\ session \in 0..MaxSessions /\ late \in [Observers -> Nat]
    BY DEF Frames
  <2>2. QED
    BY <1>1, <2>1 DEF TypeOK
<1>3. Len(empties) = 0 /\ Len(full) = 0 /\ Len(fed) = 0 /\ Len(tasks) = 0
  BY EmptySeq
<1>4. InputsKept
  BY <1>3 DEF InputsKept, Taken
<1>5. CodecStages /\ OwnerStages /\ WorkerInv
  BY DEF CodecStages, Held, OwnerStages, WorkerInv
<1>6. PlacesKept /\ PicturesMatch
  BY <1>3 DEF PlacesKept, Distinct, PicturesMatch
<1>7. QED
  BY <1>2, <1>4, <1>5, <1>6 DEF FramesInv, StagesInv

(* Every step of a path keeps it. *)
LEMMA FramesKeep == ASSUME FramesInv, FrameNext \/ UNCHANGED frameVars PROVE FramesInv'
<1>1. StagesInv /\ WorkerInv /\ PlacesKept /\ PicturesMatch /\ CodecTypeOK /\ CodecStages
  BY DEF FramesInv, StagesInv, TypeOK
<1>2. CodecMoves
  BY <1>1, OwnersMove
<1>3. PlacesKept' /\ PicturesMatch'
  BY <1>1, <1>2, PlacesKeep, PicturesKeep
<1>4. StagesInv' /\ WorkerInv'
  BY <1>1, StagesKeep, WorkerKeeps
<1>5. QED
  BY <1>3, <1>4 DEF FramesInv

(* The paths of frames take no other step. *)
LEMMA FrameSteps == [Next]_vars => FrameNext \/ UNCHANGED frameVars
BY DEF Next, Frame, Rtsp, Libcamera, Audio, vars

(* No input buffer is lost and no capture buffer is in two places, for any number of      *)
(* buffers, frames and tasks, whatever fails; and as long as each picture has met a task   *)
(* it was the task of its own frame (EmplaceBuffer, CaptureBuffer).                        *)
THEOREM BuffersAlwaysKept == Spec => []BuffersKept
<1>1. Init => FramesInv
  BY FramesInitial DEF Init
<1>2. FramesInv /\ [Next]_vars => FramesInv'
  BY FrameSteps, FramesKeep
<1>3. FramesInv => BuffersKept
  <2> SUFFICES ASSUME FramesInv PROVE BuffersKept
    OBVIOUS
  <2>1. TypeOK /\ CodecTypeOK /\ InputsKept /\ PlacesKept /\ PicturesMatch
    BY DEF FramesInv, StagesInv, TypeOK
  <2>2. codec = "on" => free + Taken + lent + spent = Inputs
    BY <2>1 DEF InputsKept
  <2>3. worker = "task" /\ slips = 0 => picture[buffer] = task
    BY <2>1 DEF PicturesMatch
  <2>4. QED
    BY <2>1, <2>2, <2>3, PlacesCount DEF BuffersKept
<1>4. QED
  BY <1>1, <1>2, <1>3, PTL DEF Spec

-------------------------------------------------------------------------------
(* V4L2DmaTrackSource: frames that are scaled and frames that are not. *)

\* The scaler's tasks are in the order of their frames and later than what was sent, and the frame
\* that the track has is later still.
TasksAscend ==
  /\ sent <= frame
  /\ codec # "none" =>
       /\ \A i \in 1..Len(tasks) : sent < tasks[i] /\ tasks[i] <= frame
       /\ \A i, j \in 1..Len(tasks) : i < j => tasks[i] < tasks[j]
       /\ worker = "task" => sent < task /\ task <= frame /\ \A i \in 1..Len(tasks) : task < tasks[i]
  /\ wanted # Nothing \/ filling # "idle" =>
       /\ sent < frame
       /\ codec # "none" => /\ \A i \in 1..Len(tasks) : tasks[i] < frame
                            /\ worker = "task" => task < frame

ScalerInv == role = "scaler" => TasksAscend

(* The scaler pushes and takes its tasks in order (PushTask, PopTask). *)
LEMMA CodecAscends ==
  ASSUME FramesInv, TasksAscend, CodecStep \/ SourceChange, UNCHANGED <<sent, wanted>>
  PROVE  TasksAscend'
<1> USE DEF TasksAscend
<1>a. /\ frame \in Nat /\ sent \in Nat /\ task \in Nat /\ Len(tasks) \in Nat /\ tasks \in Seq(Nat)
      /\ \A i \in 1..Len(tasks) : tasks[i] \in Nat
  <2>1. TypeOK /\ CodecTypeOK
    BY DEF FramesInv, StagesInv, TypeOK
  <2>2. frame \in Nat /\ sent \in Nat /\ task \in Nat /\ tasks \in Seq(0..MaxFrames)
    BY <2>1, CodecAssumption DEF TypeOK, CodecTypeOK, Frames
  <2>3. tasks \in Seq(Nat)
    BY <2>2, CodecAssumption
  <2>4. QED
    BY <2>2, <2>3, ElementOfSeq, LenProperties
<1>b. (codec # "on" => filling = "idle") /\ (codec = "none" => worker = "gone") /\ (wanted # Nothing => filling = "idle")
  BY DEF FramesInv, StagesInv, CodecStages, OwnerStages
<1>1. CASE PushTask
  <2>1. /\ filling = "queued" /\ filling' = "idle" /\ tasks' = Push(tasks, frame)
        /\ UNCHANGED <<codec, frame, worker, task>>
    BY <1>1 DEF PushTask, workerVars
  <2>2. codec = "on" /\ wanted' = Nothing /\ sent < frame /\ (\A i \in 1..Len(tasks) : tasks[i] < frame) /\ (worker = "task" => task < frame)
    BY <1>b, <2>1
  <2>3. CASE tasks' = tasks
    BY <2>1, <2>2, <2>3
  <2>4. CASE tasks' = Append(tasks, frame)
    <3>1. /\ Len(tasks') = Len(tasks) + 1 /\ tasks'[Len(tasks) + 1] = frame
          /\ \A i \in 1..Len(tasks) : tasks'[i] = tasks[i]
      BY <1>a, <2>4, AppendProperties
    <3>2. \A i \in 1..Len(tasks') : (i \in 1..Len(tasks) /\ tasks'[i] = tasks[i]) \/ (i = Len(tasks) + 1 /\ tasks'[i] = frame)
      BY <1>a, <3>1
    <3>3. \A i \in 1..Len(tasks') : sent < tasks'[i] /\ tasks'[i] <= frame /\ (worker = "task" => task < tasks'[i])
      BY <1>a, <2>2, <3>2
    <3>4. \A i, j \in 1..Len(tasks') : i < j => tasks'[i] < tasks'[j]
      BY <1>a, <2>2, <3>1, <3>2
    <3>5. QED
      BY <1>a, <2>1, <2>2, <3>3, <3>4
  <2>5. QED
    BY <2>1, <2>3, <2>4 DEF Push
<1>2. CASE PopTask
  <2>1. codec = "on" /\ UNCHANGED <<codec, filling, frame>>
    BY <1>2 DEF PopTask
  <2>2. CASE tasks = <<>>
    BY <1>2, <2>1, <2>2 DEF PopTask
  <2>3. CASE tasks # <<>>
    <3>1. worker' = "task" /\ task' = Head(tasks) /\ tasks' = Tail(tasks)
      BY <1>2, <2>3 DEF PopTask
    <3>2. /\ Head(tasks) = tasks[1] /\ Len(tasks) # 0 /\ Len(tasks') = Len(tasks) - 1
          /\ \A i \in 1..Len(tasks') : tasks'[i] = tasks[i + 1]
      BY <1>a, <2>3, <3>1, Dequeued
    <3>3. QED
      BY <1>a, <2>1, <3>1, <3>2
  <2>4. QED
    BY <2>2, <2>3
<1>3. CASE Leave
  BY <1>3 DEF Leave, inputVars, workerVars
<1>4. CASE NoIndex \/ PopIndex \/ NotQueued \/ QueueInput
  <2>1. filling # "idle" /\ UNCHANGED <<codec, frame, tasks, worker, task>>
    BY <1>4 DEF NoIndex, PopIndex, NotQueued, QueueInput, workerVars
  <2>2. QED
    BY <2>1
<1>5. CASE Process \/ Swallow \/ ReleaseInput \/ SourceChange \/ DequeueInput
  <2>1. UNCHANGED <<codec, filling, frame, tasks, worker, task>>
    BY <1>5 DEF Process, Swallow, ReleaseInput, SourceChange, DequeueInput, inputVars, workerVars
  <2>2. QED
    BY <2>1
<1>6. CASE DequeueCapture \/ Requeue \/ RequeueFails \/ WorkerEnds
  <2>1. UNCHANGED <<codec, filling, frame, tasks>> /\ worker' # "task"
    BY <1>6 DEF DequeueCapture, Requeue, RequeueFails, WorkerEnds, inputVars
  <2>2. QED
    BY <2>1
<1>7. QED
  BY <1>1, <1>2, <1>3, <1>4, <1>5, <1>6 DEF CodecStep, EmplaceBuffer, Worker

(* A frame that goes straight on waits until the scaler has ended (OnFrameCaptured), and *)
(* one that is scaled is later than all that the scaler has.                              *)
LEMMA TrackAscends ==
  ASSUME FramesInv, role = "scaler", TasksAscend, TrackStep
  PROVE  TasksAscend' /\ (sent' = sent \/ sent' > sent)
<1> USE DEF TasksAscend
<1>a. /\ frame \in Nat /\ sent \in Nat /\ task \in Nat /\ Len(tasks) \in Nat
      /\ \A i \in 1..Len(tasks) : tasks[i] \in Nat
  <2>1. TypeOK /\ CodecTypeOK
    BY DEF FramesInv, StagesInv, TypeOK
  <2>2. frame \in Nat /\ sent \in Nat /\ task \in Nat /\ tasks \in Seq(0..MaxFrames)
    BY <2>1, CodecAssumption DEF TypeOK, CodecTypeOK, Frames
  <2>3. \A i \in 1..Len(tasks) : tasks[i] \in 0..MaxFrames
    BY <2>2, ElementOfSeq
  <2>4. QED
    BY <2>2, <2>3, CodecAssumption, LenProperties
<1>b. (codec = "none" => worker = "gone") /\ (wanted # Nothing => filling = "idle") /\ "direct" # Nothing /\ MaxFrames \in Nat
  BY FramePathAssumption, CodecAssumption DEF FramesInv, StagesInv, CodecStages, OwnerStages
<1>1. CASE OnFrameCaptured
  <2>1. frame' \in (frame + 1)..MaxFrames /\ UNCHANGED <<codec, tasks, worker, task, sent>>
    BY <1>1 DEF OnFrameCaptured, workerVars
  <2>2. frame' \in Nat /\ frame' > frame
    BY <1>a, <1>b, <2>1
  <2>3. QED
    BY <1>a, <2>1, <2>2
<1>2. CASE DropScaler
  <2>1. codec = "on" /\ UNCHANGED <<frame, filling, tasks, worker, task, sent, wanted>>
    BY <1>2 DEF DropScaler, inputVars, workerVars, trackVars
  <2>2. QED
    BY <2>1
<1>3. CASE OnFrameDirect
  <2>1. /\ codec = "none" /\ wanted # Nothing /\ filling = "idle" /\ sent' = frame /\ wanted' = Nothing
        /\ UNCHANGED <<codec, frame, filling>>
    BY <1>b, <1>3 DEF OnFrameDirect, codecVars, inputVars
  <2>2. QED
    BY <1>a, <2>1
<1>4. CASE NewScaler
  <2>1. codec = "none" /\ UNCHANGED <<sent, frame, filling>>
    BY <1>4 DEF NewScaler, CreateScaler, inputVars
  <2>2. CASE Start(Order) /\ UNCHANGED wanted
    <3>1. Len(tasks') = 0 /\ worker' = "select"
      BY <2>2, EmptySeq DEF Start, PrepareBuffer
    <3>2. QED
      BY <2>1, <2>2, <3>1
  <2>3. CASE codec' = codec /\ wanted' = Nothing
    BY <2>1, <2>3
  <2>4. QED
    BY <1>4, <2>2, <2>3 DEF NewScaler, CreateScaler
<1>5. CASE Scale
  <2>1. wanted # Nothing /\ wanted' = Nothing /\ UNCHANGED <<codec, frame, tasks, worker, task, sent>>
    BY <1>5, FramePathAssumption DEF Scale, Emplace, workerVars
  <2>2. QED
    BY <2>1
<1>6. CASE OnScaled
  <2>1. /\ worker = "task" /\ worker' = "requeue" /\ sent' = task
        /\ UNCHANGED <<codec, frame, filling, tasks, wanted>>
    BY <1>6 DEF OnScaled, TaskReturns, inputVars
  <2>2. codec # "none"
    BY <1>b, <2>1
  <2>3. QED
    BY <1>a, <2>1, <2>2
<1>7. QED
  BY <1>1, <1>2, <1>3, <1>4, <1>5, <1>6 DEF TrackStep

(* Every step keeps that, and no other role sends. *)
LEMMA ScalerKeeps ==
  ASSUME FramesInv, ScalerInv, FrameNext \/ UNCHANGED frameVars
  PROVE  ScalerInv' /\ (sent' = sent \/ sent' > sent)
<1> USE DEF ScalerInv
<1>1. CASE OnCodec(CodecStep \/ (role = "decoder" /\ SourceChange))
  <2>1. UNCHANGED <<role, sent, wanted>> /\ (CodecStep \/ SourceChange)
    BY <1>1 DEF OnCodec, trackVars
  <2>2. QED
    BY <2>1, CodecAscends
<1>2. CASE OnStream(StreamStep)
  <2>1. role = "decoder" /\ UNCHANGED <<role, sent>>
    BY <1>2 DEF OnStream, StreamStep, StartCapture, CaptureImage, EndCapture, Subscribe, Unsubscribe, Publish, CallObserver,
       NextReturns, trackVars
  <2>2. QED
    BY <2>1
<1>3. CASE OnTrack(TrackStep)
  <2>1. role = "scaler" /\ role' = role
    BY <1>3 DEF OnTrack, TrackStep, OnFrameCaptured, DropScaler, OnFrameDirect, NewScaler, Scale, OnScaled
  <2>2. QED
    BY <1>3, <2>1, TrackAscends DEF OnTrack
<1>4. CASE OnEncoder(EncoderStep)
  <2>1. role = "encoder" /\ UNCHANGED <<role, sent>>
    BY <1>4 DEF OnEncoder, EncoderStep, InitEncode, Encode, Release, Released, SendFrame, OnEncodedImage, trackVars
  <2>2. QED
    BY <2>1
<1>5. CASE UNCHANGED frameVars
  BY <1>5 DEF frameVars, codecVars, inputVars, workerVars, trackVars, TasksAscend
<1>6. QED
  BY <1>1, <1>2, <1>3, <1>4, <1>5 DEF FrameNext

(* libwebrtc gets frames in the order of their capture, though some go through a scaler   *)
(* and others do not, and scalers come and go (OnFrameCaptured).                           *)
THEOREM FramesStayInOrder == Spec => FramesInOrder
<1>1. Init => FramesInv /\ ScalerInv
  <2>1. Init => FramesInv
    BY FramesInitial DEF Init
  <2>2. Init => ScalerInv
    BY DEF Init, FrameInit, CodecInit, ScalerInv, TasksAscend
  <2>3. QED
    BY <2>1, <2>2
<1>2. FramesInv /\ ScalerInv /\ [Next]_vars => FramesInv' /\ ScalerInv' /\ [sent' = sent \/ sent' > sent]_frameVars
  BY FrameSteps, FramesKeep, ScalerKeeps
<1>3. QED
  BY <1>1, <1>2, PTL DEF Spec, FramesInOrder
=============================================================================
