----------------------------- MODULE Channels_proofs -----------------------------
(* Proofs about Channels: the viewer's end, for any number of channels, frames and  *)
(* requests, and the programs' end, for any number of programs, descriptors and      *)
(* viewers.                                                                          *)
EXTENDS Channels, SequenceTheorems, WellFoundedInduction, TLAPS

-------------------------------------------------------------------------------
(* Frames are numbered: sequences that count. *)

Count(n) == [i \in 1..n |-> i]

LEMMA CountIsSeq == ASSUME NEW n \in Nat PROVE Count(n) \in Seq(Nat) /\ Len(Count(n)) = n
BY DEF Count

(* Concatenation, for sequences of frames. *)
LEMMA Assoc ==
  ASSUME NEW a \in Seq(Nat), NEW b \in Seq(Nat), NEW c \in Seq(Nat)
  PROVE  (a \o b) \o c = a \o (b \o c)
BY ConcatAssociative

LEMMA Concat ==
  ASSUME NEW a \in Seq(Nat), NEW b \in Seq(Nat)
  PROVE  /\ a \o b \in Seq(Nat) /\ Len(a \o b) = Len(a) + Len(b)
         /\ \A i \in 1..Len(a) + Len(b) : (a \o b)[i] = IF i <= Len(a) THEN a[i] ELSE b[i - Len(a)]
BY ConcatProperties

(* The frames of one message, numbered from where the last one ended. *)
Message(n, k) == [i \in 1..k |-> n + i]

LEMMA MessageIsSeq ==
  ASSUME NEW n \in Nat, NEW k \in Nat
  PROVE  Message(n, k) \in Seq(Nat) /\ Len(Message(n, k)) = k
BY DEF Message

(* SendBytes: a message continues the count. *)
LEMMA Push ==
  ASSUME NEW s \in Seq(Nat), NEW h \in Seq(Nat), NEW q \in Seq(Nat), NEW n \in Nat, NEW k \in Nat,
         s \o h \o q = Count(n)
  PROVE  s \o h \o (q \o Message(n, k)) = Count(n + k)
<1> DEFINE m == Message(n, k)
<1>1. m \in Seq(Nat) /\ Len(m) = k
  BY MessageIsSeq
<1>2. s \o h \in Seq(Nat)
  BY ConcatProperties
<1>3. s \o h \o (q \o m) = (s \o h \o q) \o m
  <2> HIDE DEF m
  <2> QED BY <1>1, <1>2, Assoc
<1>4. Count(n) \o m = Count(n + k)
  <2>1. Count(n) \in Seq(Nat) /\ Len(Count(n)) = n /\ Count(n + k) \in Seq(Nat) /\ Len(Count(n + k)) = n + k
    BY CountIsSeq
  <2>2. Count(n) \o m \in Seq(Nat) /\ Len(Count(n) \o m) = n + k
    <3> HIDE DEF m
    <3> QED BY <1>1, <2>1, ConcatProperties
  <2>3. ASSUME NEW i \in 1..(n + k) PROVE (Count(n) \o m)[i] = Count(n + k)[i]
    <3>1. (Count(n) \o m)[i] = IF i <= n THEN Count(n)[i] ELSE m[i - n]
      <4>1. \A j \in 1..Len(Count(n)) + Len(m) : (Count(n) \o m)[j] = IF j <= Len(Count(n)) THEN Count(n)[j] ELSE m[j - Len(Count(n))]
        <5> HIDE DEF m
        <5> QED BY <1>1, <2>1, Concat
      <4>2. QED
        BY <1>1, <2>1, <4>1
    <3>2. QED
      BY <3>1 DEF Count, Message
  <2>4. QED
    <3> HIDE DEF m
    <3> QED BY <2>1, <2>2, <2>3, SeqEqual
<1>5. QED
  BY <1>3, <1>4

(* TakeFrame: the first frame of the queue moves to the thread's hand. *)
LEMMA Take ==
  ASSUME NEW s \in Seq(Nat), NEW q \in Seq(Nat), q # <<>>
  PROVE  s \o <<Head(q)>> \o Tail(q) = s \o <<>> \o q
<1>1. Head(q) \in Nat /\ Tail(q) \in Seq(Nat)
  BY HeadTailProperties
<1>2. <<Head(q)>> \o Tail(q) = q
  BY <1>1
<1>3. <<Head(q)>> \in Seq(Nat)
  BY <1>1
<1>4. s \o <<Head(q)>> \o Tail(q) = s \o (<<Head(q)>> \o Tail(q))
  BY <1>1, <1>3, Assoc
<1>5. s \o <<>> = s
  BY ConcatEmptySeq
<1>6. QED
  BY <1>2, <1>4, <1>5

(* SendFrame: the frame in hand is the next one. *)
LEMMA Give ==
  ASSUME NEW s \in Seq(Nat), NEW f \in Nat, NEW q \in Seq(Nat), NEW n \in Nat,
         s = Count(Len(s)), s \o <<f>> \o q = Count(n)
  PROVE  /\ Append(s, f) = Count(Len(Append(s, f)))
         /\ Append(s, f) \o <<>> \o q = Count(n)
<1>1. <<f>> \in Seq(Nat) /\ Len(<<f>>) = 1 /\ <<f>>[1] = f /\ Len(s) \in Nat /\ Len(q) \in Nat
  OBVIOUS
<1>2. Append(s, f) = s \o <<f>> /\ Append(s, f) \in Seq(Nat) /\ Len(Append(s, f)) = Len(s) + 1
  BY AppendIsConcat, AppendProperties
<1>3. Append(s, f) \o <<>> = Append(s, f)
  BY <1>2, ConcatEmptySeq
<1>4. f = Len(s) + 1
  <2>1. Len(Append(s, f) \o q) = Len(Append(s, f)) + Len(q)
    BY <1>1, <1>2, Concat
  <2>6. n = Len(s) + 1 + Len(q)
    BY <1>1, <1>2, <2>1, CountIsSeq
  <2>2. (s \o <<f>> \o q)[Len(s) + 1] = Append(s, f)[Len(s) + 1]
    BY <1>1, <1>2, ConcatProperties
  <2>3. Append(s, f)[Len(s) + 1] = f
    BY AppendProperties
  <2>4. Count(n)[Len(s) + 1] = Len(s) + 1
    BY <1>1, <2>6 DEF Count
  <2>5. QED
    BY <2>2, <2>3, <2>4
<1>5. Append(s, f) = Count(Len(s) + 1)
  <2>1. Count(Len(s) + 1) \in Seq(Nat) /\ Len(Count(Len(s) + 1)) = Len(s) + 1
    <3>1. Len(s) + 1 \in Nat
      BY <1>1
    <3>2. QED
      BY <3>1, CountIsSeq
  <2>2. ASSUME NEW i \in 1..(Len(s) + 1) PROVE Append(s, f)[i] = Count(Len(s) + 1)[i]
    <3>1. CASE i = Len(s) + 1
      BY <1>1, <1>4, <3>1, AppendProperties DEF Count
    <3>2. CASE i # Len(s) + 1
      <4>1. i \in 1..Len(s)
        BY <1>1, <3>2
      <4>2. Append(s, f)[i] = s[i]
        BY <4>1, AppendProperties
      <4>3. s[i] = i
        BY <4>1 DEF Count
      <4>4. QED
        BY <4>2, <4>3 DEF Count
    <3>3. QED
      BY <3>1, <3>2
  <2>3. QED
    BY <1>1, <1>2, <2>1, <2>2, SeqEqual
<1>6. QED
  BY <1>2, <1>3, <1>5
-------------------------------------------------------------------------------
(* The inductive invariant. *)

\* A send thread holds a frame exactly while it is about to send it.
HandsInv == \A r \in Role : sender[r] = "holding" <=> frame[r] # NoFrame

\* What the thread that ends the peer has done to the channel it is at, and to the
\* command channel once it is past it.
EndInv ==
  /\ role \in 1..Len(Roles)
  /\ terminator \in {"join", "close", "closed"} => ~sending[Roles[role]]
  /\ terminator = "close" => sender[Roles[role]] = "ended"
  /\ terminator = "closed" => ~observed[Roles[role]]
  /\ terminator \in {"destroy", "done"} \/ (\E i \in 1..role - 1 : Roles[i] = "command")
       => ~recording /\ ~observed["command"]

LinesInv == ChannelInv /\ HandsInv
ViewerInv == DataInv /\ HandsInv /\ EndInv

\* What holds of every step of a queue and its thread.
EndsStay ==
  /\ UNCHANGED <<observed, sending, endVars>>
  /\ \A r \in Role : sender[r] = "ended" => sender'[r] = "ended"

LEMMA RoleFacts ==
  /\ Len(Roles) \in Nat \ {0} /\ \A i \in 1..Len(Roles) : Roles[i] \in Role
  /\ "command" \in Role /\ "stream" \in Role /\ "reliable" \in Role
BY RoleNamesAssumption, RolesAssumption DEF Role

(* A hand of at most one frame. *)
Hand(f) == IF f = NoFrame THEN <<>> ELSE <<f>>

LEMMA HandIsSeq == ASSUME NEW f \in Nat \cup {NoFrame} PROVE Hand(f) \in Seq(Nat)
BY DEF Hand

(* libwebrtc changes none of what the invariant is about. *)
LEMMA LibwebrtcKeeps == ASSUME LinesInv, Libwebrtc PROVE LinesInv' /\ EndsStay
<1> USE DEF LinesInv, ChannelInv, ChannelTypeOK, InOrder, NeverSleepsOverFrame, TerminatedIsQuiet, HandsInv, EndsStay,
            endVars, queueVars
<1>1. CASE OnTransportReady
  BY <1>1 DEF OnTransportReady
<1>2. CASE CloseConnection
  BY <1>2 DEF CloseConnection
<1>3. ASSUME NEW r \in Role, Drain(r) PROVE LinesInv' /\ EndsStay
  <2>1. buffered' \in [Role -> 0..MaxBuffered]
    BY <1>3, BufferedAssumption DEF Drain
  <2>2. QED
    BY <1>3, <2>1 DEF Drain
<1>4. QED
  BY <1>1, <1>2, <1>3 DEF Libwebrtc

(* A message is queued behind the others, and wakes the thread. *)
LEMMA SendBytesKeeps ==
  ASSUME LinesInv, NEW r \in Role, NEW n \in Nat, SendBytes(r, n)
  PROVE  LinesInv' /\ EndsStay
<1> DEFINE m == Message(pushed[r], n)
<1>1. queue[r] \in Seq(Nat) /\ pushed[r] \in Nat /\ sent[r] \in Seq(Nat) /\ frame[r] \in Nat \cup {NoFrame}
  BY DEF LinesInv, ChannelInv, ChannelTypeOK
<1>2. m \in Seq(Nat) /\ queue[r] \o m \in Seq(Nat)
  <2>1. m \in Seq(Nat)
    BY <1>1, MessageIsSeq
  <2>2. QED
    <3> HIDE DEF m
    <3> QED BY <1>1, <2>1, Concat
<1>3. /\ queue' = [queue EXCEPT ![r] = queue[r] \o m] /\ pushed' = [pushed EXCEPT ![r] = pushed[r] + n]
      /\ sender' = [sender EXCEPT ![r] = IF sender[r] = "asleep" THEN "check" ELSE sender[r]]
      /\ sender[r] # "dozing" /\ UNCHANGED <<dc, observed, sending, frame, sent, buffered, endVars>>
  BY DEF SendBytes, Message
<1>4. ChannelTypeOK'
  <2> HIDE DEF m
  <2>1. queue' \in [Role -> Seq(Nat)] /\ pushed' \in [Role -> Nat]
    BY <1>1, <1>2, <1>3 DEF LinesInv, ChannelInv, ChannelTypeOK
  <2>2. sender' \in [Role -> {"check", "dozing", "asleep", "holding", "ended"}]
    BY <1>3 DEF LinesInv, ChannelInv, ChannelTypeOK
  <2>3. QED
    BY <1>3, <2>1, <2>2 DEF LinesInv, ChannelInv, ChannelTypeOK, endVars
<1>5. InOrder'
  <2>1. ASSUME NEW x \in Role, sender'[x] # "ended"
        PROVE  (sent[x] \o Hand(frame[x]) \o queue[x] = Count(pushed[x]))'
    <3>1. sent[x] \o Hand(frame[x]) \o queue[x] = Count(pushed[x])
      BY <1>3, <2>1 DEF LinesInv, ChannelInv, ChannelTypeOK, InOrder, Hand, Count
    <3>2. CASE x = r
      <4>1. sent[r] \o Hand(frame[r]) \o (queue[r] \o m) = Count(pushed[r] + n)
        <5>1. Hand(frame[r]) \in Seq(Nat)
          BY <1>1, HandIsSeq
        <5>2. \A h \in Seq(Nat) : sent[r] \o h \o queue[r] = Count(pushed[r])
                => sent[r] \o h \o (queue[r] \o m) = Count(pushed[r] + n)
          BY <1>1, Push
        <5>3. sent[r] \o Hand(frame[r]) \o queue[r] = Count(pushed[r])
          BY <3>1, <3>2
        <5>4. QED
          BY <5>1, <5>2, <5>3
      <4>2. queue'[r] = queue[r] \o m /\ pushed'[r] = pushed[r] + n /\ sent' = sent /\ frame' = frame
        <5> HIDE DEF m
        <5> QED BY <1>3 DEF LinesInv, ChannelInv, ChannelTypeOK
      <4>3. QED
        <5> HIDE DEF m
        <5> QED BY <3>2, <4>1, <4>2
    <3>3. CASE x # r
      <4> HIDE DEF m
      <4>1. queue'[x] = queue[x] /\ pushed'[x] = pushed[x] /\ sent' = sent /\ frame' = frame
        BY <1>3, <3>3 DEF LinesInv, ChannelInv, ChannelTypeOK
      <4>2. QED
        BY <3>1, <4>1
    <3>4. QED
      BY <3>2, <3>3
  <2>2. QED
    <3> HIDE DEF m
    <3> QED BY <1>3, <2>1 DEF LinesInv, ChannelInv, InOrder, Hand, Count
<1>6. QED
  <2> HIDE DEF m
  <2>1. NeverSleepsOverFrame' /\ TerminatedIsQuiet' /\ HandsInv' /\ EndsStay
    BY <1>3 DEF LinesInv, ChannelInv, ChannelTypeOK, NeverSleepsOverFrame, TerminatedIsQuiet, HandsInv, EndsStay
  <2>2. QED
    BY <1>4, <1>5, <2>1 DEF LinesInv, ChannelInv

(* The send thread takes frames one by one, and gives them on in order. *)
LEMMA SendLoopKeeps == ASSUME LinesInv, NEW r \in Role, SendLoop(r) PROVE LinesInv' /\ EndsStay
<1>1. queue[r] \in Seq(Nat) /\ pushed[r] \in Nat /\ sent[r] \in Seq(Nat) /\ frame[r] \in Nat \cup {NoFrame}
  BY DEF LinesInv, ChannelInv, ChannelTypeOK
<1>2. /\ sent[r] = Count(Len(sent[r]))
      /\ sender[r] # "ended" => sent[r] \o Hand(frame[r]) \o queue[r] = Count(pushed[r])
  BY DEF LinesInv, ChannelInv, InOrder, Hand, Count
<1> DEFINE Others == \A x \in Role \ {r} : /\ sender'[x] = sender[x] /\ sent'[x] = sent[x] /\ frame'[x] = frame[x]
                                           /\ queue'[x] = queue[x]
<1>3. ASSUME ChannelTypeOK', Others, UNCHANGED <<observed, sending, pushed, endVars>>,
             sent'[r] = Count(Len(sent'[r])),
             sender'[r] # "ended" => sent'[r] \o Hand(frame'[r]) \o queue'[r] = Count(pushed[r]),
             sender'[r] \in {"dozing", "asleep"} => queue'[r] = <<>>,
             sender[r] # "ended",
             sender'[r] = "holding" <=> frame'[r] # NoFrame
      PROVE  LinesInv' /\ EndsStay
  <2>1. InOrder'
    <3>1. ASSUME NEW x \in Role
          PROVE  /\ sent'[x] = Count(Len(sent'[x]))
                 /\ sender'[x] # "ended" => sent'[x] \o Hand(frame'[x]) \o queue'[x] = Count(pushed'[x])
      <4>1. CASE x = r
        BY <1>3, <4>1
      <4>2. CASE x # r
        <5>1. /\ sent[x] = Count(Len(sent[x]))
              /\ sender[x] # "ended" => sent[x] \o Hand(frame[x]) \o queue[x] = Count(pushed[x])
          BY DEF LinesInv, ChannelInv, InOrder, Hand, Count
        <5>2. QED
          BY <1>3, <4>2, <5>1
      <4>3. QED
        BY <4>1, <4>2
    <3>2. QED
      BY <3>1 DEF InOrder, Hand, Count
  <2>2. NeverSleepsOverFrame' /\ TerminatedIsQuiet' /\ HandsInv' /\ EndsStay
    BY <1>3 DEF LinesInv, ChannelInv, NeverSleepsOverFrame, TerminatedIsQuiet, HandsInv, EndsStay
  <2>3. QED
    BY <1>3, <2>1, <2>2 DEF LinesInv, ChannelInv
<1>4. CASE TakeFrame(r) /\ queue[r] # <<>>
  <2>1. Head(queue[r]) \in Nat /\ Tail(queue[r]) \in Seq(Nat) /\ Head(queue[r]) # NoFrame
    BY <1>1, <1>4, HeadTailProperties, NoFrameAssumption
  <2>2. /\ frame' = [frame EXCEPT ![r] = Head(queue[r])] /\ queue' = [queue EXCEPT ![r] = Tail(queue[r])]
        /\ sender' = [sender EXCEPT ![r] = "holding"] /\ sender[r] = "check"
        /\ UNCHANGED <<dc, observed, sending, pushed, sent, buffered, endVars>>
    BY <1>4 DEF TakeFrame
  <2>3. ChannelTypeOK'
    <3>1. frame' \in [Role -> Nat \cup {NoFrame}] /\ queue' \in [Role -> Seq(Nat)]
      BY <2>1, <2>2 DEF LinesInv, ChannelInv, ChannelTypeOK
    <3>2. sender' \in [Role -> {"check", "dozing", "asleep", "holding", "ended"}]
      BY <2>2 DEF LinesInv, ChannelInv, ChannelTypeOK
    <3>3. QED
      BY <2>2, <3>1, <3>2 DEF LinesInv, ChannelInv, ChannelTypeOK, endVars
  <2>4. frame[r] = NoFrame
    BY <2>2 DEF LinesInv, HandsInv
  <2>5. sent[r] \o Hand(Head(queue[r])) \o Tail(queue[r]) = Count(pushed[r])
    BY <1>1, <1>2, <1>4, <2>1, <2>2, <2>4, Take DEF Hand
  <2>6. frame'[r] = Head(queue[r]) /\ queue'[r] = Tail(queue[r]) /\ sender'[r] = "holding" /\ Others
    BY <2>2 DEF LinesInv, ChannelInv, ChannelTypeOK
  <2>7. QED
    BY <1>2, <1>3, <2>1, <2>2, <2>3, <2>5, <2>6
<1>5. CASE TakeFrame(r) /\ queue[r] = <<>>
  <2>1. /\ sender' = [sender EXCEPT ![r] = IF sending[r] THEN "dozing" ELSE "ended"] /\ sender[r] = "check"
        /\ UNCHANGED <<dc, observed, sending, pushed, sent, buffered, endVars, frame, queue>>
    BY <1>5 DEF TakeFrame
  <2>2. sender' \in [Role -> {"check", "dozing", "asleep", "holding", "ended"}] /\ sender'[r] \in {"dozing", "ended"}
    BY <2>1 DEF LinesInv, ChannelInv, ChannelTypeOK
  <2>3. ChannelTypeOK' /\ Others
    BY <2>1, <2>2 DEF LinesInv, ChannelInv, ChannelTypeOK, endVars
  <2>4. frame[r] = NoFrame
    BY <2>1 DEF LinesInv, HandsInv
  <2>5. QED
    BY <1>2, <1>3, <1>5, <2>1, <2>2, <2>3, <2>4
<1>6. CASE Sleep(r)
  <2>1. /\ sender' = [sender EXCEPT ![r] = "asleep"] /\ sender[r] = "dozing"
        /\ UNCHANGED <<dc, observed, sending, queue, frame, pushed, sent, buffered, endVars>>
    BY <1>6 DEF Sleep
  <2>2. sender' \in [Role -> {"check", "dozing", "asleep", "holding", "ended"}] /\ sender'[r] = "asleep"
    BY <2>1 DEF LinesInv, ChannelInv, ChannelTypeOK
  <2>3. ChannelTypeOK' /\ Others
    BY <2>1, <2>2 DEF LinesInv, ChannelInv, ChannelTypeOK, endVars
  <2>4. frame[r] = NoFrame /\ queue[r] = <<>>
    BY <2>1 DEF LinesInv, ChannelInv, HandsInv, NeverSleepsOverFrame
  <2>5. QED
    BY <1>2, <1>3, <2>1, <2>2, <2>3, <2>4
<1>7. CASE SendFrame(r)
  <2>1. /\ sent' = [sent EXCEPT ![r] = Append(sent[r], frame[r])] /\ frame' = [frame EXCEPT ![r] = NoFrame]
        /\ buffered' = [buffered EXCEPT ![r] = buffered[r] + 1] /\ buffered[r] < MaxBuffered
        /\ sender' = [sender EXCEPT ![r] = "check"] /\ sender[r] = "holding"
        /\ UNCHANGED <<dc, observed, sending, queue, pushed, endVars>>
    BY <1>7 DEF SendFrame
  <2>2. frame[r] # NoFrame /\ frame[r] \in Nat
    BY <1>1, <2>1 DEF LinesInv, HandsInv
  <2>3. /\ Append(sent[r], frame[r]) = Count(Len(Append(sent[r], frame[r])))
        /\ Append(sent[r], frame[r]) \o <<>> \o queue[r] = Count(pushed[r])
    BY <1>1, <1>2, <2>1, <2>2, Give DEF Hand
  <2>4. ChannelTypeOK'
    <3>1. sent' \in [Role -> Seq(Nat)] /\ frame' \in [Role -> Nat \cup {NoFrame}]
      BY <1>1, <2>1, <2>2, AppendProperties DEF LinesInv, ChannelInv, ChannelTypeOK
    <3>2. buffered' \in [Role -> 0..MaxBuffered]
      BY <2>1, BufferedAssumption DEF LinesInv, ChannelInv, ChannelTypeOK
    <3>3. sender' \in [Role -> {"check", "dozing", "asleep", "holding", "ended"}]
      BY <2>1 DEF LinesInv, ChannelInv, ChannelTypeOK
    <3>4. QED
      BY <2>1, <3>1, <3>2, <3>3 DEF LinesInv, ChannelInv, ChannelTypeOK, endVars
  <2>5. sent'[r] = Append(sent[r], frame[r]) /\ frame'[r] = NoFrame /\ sender'[r] = "check" /\ Others
    BY <2>1 DEF LinesInv, ChannelInv, ChannelTypeOK
  <2>6. Hand(frame'[r]) = <<>>
    BY <2>5 DEF Hand
  <2>7. QED
    BY <1>3, <2>1, <2>3, <2>4, <2>5, <2>6
<1>8. CASE GiveUp(r)
  <2>1. /\ frame' = [frame EXCEPT ![r] = NoFrame] /\ sender' = [sender EXCEPT ![r] = "ended"] /\ sender[r] = "holding"
        /\ UNCHANGED <<dc, observed, sending, queue, pushed, sent, buffered, endVars>>
    BY <1>8 DEF GiveUp
  <2>2. sender' \in [Role -> {"check", "dozing", "asleep", "holding", "ended"}] /\ sender'[r] = "ended"
    BY <2>1 DEF LinesInv, ChannelInv, ChannelTypeOK
  <2>3. frame' \in [Role -> Nat \cup {NoFrame}] /\ frame'[r] = NoFrame
    BY <2>1 DEF LinesInv, ChannelInv, ChannelTypeOK
  <2>4. ChannelTypeOK' /\ Others
    BY <2>1, <2>2, <2>3 DEF LinesInv, ChannelInv, ChannelTypeOK, endVars
  <2>5. QED
    BY <1>2, <1>3, <2>1, <2>2, <2>3, <2>4
<1>9. QED
  BY <1>4, <1>5, <1>6, <1>7, <1>8 DEF SendLoop
-------------------------------------------------------------------------------
(* Requests, local programs, and the end of the peer. *)

(* What a request or a program's message does to the channels. *)
LEMMA ChannelsKeep ==
  ASSUME LinesInv,
         \/ UNCHANGED channelVars \/ Libwebrtc
         \/ \E r \in Role : SendLoop(r) \/ SendStream(r) \/ SendBytes(r, 1)
  PROVE  LinesInv' /\ EndsStay
<1>1. CASE UNCHANGED channelVars
  BY <1>1 DEF channelVars, queueVars, endVars, LinesInv, ChannelInv, ChannelTypeOK, InOrder, NeverSleepsOverFrame,
              TerminatedIsQuiet, HandsInv, EndsStay
<1>2. ASSUME NEW r \in Role, SendStream(r) PROVE LinesInv' /\ EndsStay
  <2>1. PICK n \in 0..MaxChunks : SendBytes(r, n + 2)
    BY <1>2 DEF SendStream
  <2>2. n + 2 \in Nat
    BY DataAssumption
  <2>3. QED
    BY <2>1, <2>2, SendBytesKeeps
<1>3. QED
  BY <1>1, <1>2, LibwebrtcKeeps, SendLoopKeeps, SendBytesKeeps

(* A step that ends nothing keeps the rest, if it starts no recording for a viewer that is gone. *)
LEMMA StayKeeps ==
  ASSUME ViewerInv, LinesInv', EndsStay, DataTypeOK', UNCHANGED <<listening, alive>>, ~strayed',
         recording' => recording \/ observed["command"]
  PROVE  ViewerInv'
<1>1. EndInv'
  <2>1. Roles[role] \in Role /\ UNCHANGED <<observed, sending, terminator, role>>
    BY RoleFacts DEF ViewerInv, EndInv, EndsStay, endVars
  <2>2. QED
    BY <2>1 DEF ViewerInv, EndInv, EndsStay
<1>2. RecordingEnds'
  BY DEF ViewerInv, EndInv, EndsStay, endVars, RecordingEnds
<1>3. QED
  BY <1>1, <1>2 DEF ViewerInv, DataInv, LinesInv

LEMMA RequestKeeps == ASSUME ViewerInv, Request PROVE ViewerInv'
<1>1. LinesInv' /\ EndsStay
  <2>1. \/ UNCHANGED channelVars \/ Libwebrtc
        \/ \E r \in Role : SendLoop(r) \/ SendStream(r) \/ SendBytes(r, 1)
    BY RoleFacts DEF Request, StartRecording, StopRecording, TakeSnapshot, QueryFile, TransferFile, ControlCamera, Disconnect,
                     Libwebrtc
  <2>2. QED
    BY <2>1, ChannelsKeep DEF ViewerInv, DataInv, LinesInv
<1>2. OnPacket /\ (recording' = recording \/ recording' \in BOOLEAN)
  BY DEF Request, StartRecording, StopRecording, TakeSnapshot, QueryFile, TransferFile, ControlCamera, Disconnect
<1>3. recording' \in BOOLEAN
  BY <1>2 DEF ViewerInv, DataInv, DataTypeOK
<1>4. requests' \in 0..MaxRequests
  BY <1>2, DataAssumption DEF OnPacket, ViewerInv, DataInv, DataTypeOK
<1>5. DataTypeOK'
  BY <1>2, <1>3, <1>4 DEF OnPacket, ViewerInv, DataInv, DataTypeOK
<1>6. UNCHANGED <<listening, alive>> /\ ~strayed' /\ observed["command"]
  BY <1>2 DEF OnPacket, ViewerInv, DataInv
<1>7. QED
  BY <1>1, <1>5, <1>6, StayKeeps

LEMMA CallbackKeeps == ASSUME ViewerInv, Callback PROVE ViewerInv'
<1>1. LinesInv' /\ EndsStay
  <2>1. UNCHANGED channelVars \/ \E r \in Role : SendStream(r) \/ SendBytes(r, 1)
    BY RoleFacts DEF Callback, SendToPeer
  <2>2. QED
    BY <2>1, ChannelsKeep DEF ViewerInv, DataInv, LinesInv
<1>2. ~strayed'
  BY DEF Callback, ViewerInv, DataInv
<1>3. messages' \in 0..MaxPassed
  BY DataAssumption DEF Callback, ViewerInv, DataInv, DataTypeOK
<1>4. DataTypeOK'
  BY <1>2, <1>3 DEF Callback, ViewerInv, DataInv, DataTypeOK
<1>5. QED
  BY <1>1, <1>2, <1>4, StayKeeps DEF Callback

(* The peer's end, up to where a channel's functions run. *)
LEMMA EndKeeps == ASSUME ViewerInv, TerminatePeer \/ EndStep, UNCHANGED dataVars PROVE ViewerInv'
<1>1. Roles[role] \in Role /\ role \in 1..Len(Roles) /\ role \in 1..Len(Roles) + 1
  BY RoleFacts DEF ViewerInv, EndInv
<1>2. DataTypeOK' /\ (listening = alive)' /\ ~strayed'
  BY DEF ViewerInv, DataInv, DataTypeOK, dataVars
<1> USE DEF queueVars, dataVars
<1>3. CASE TerminatePeer
  BY <1>1, <1>2, <1>3 DEF TerminatePeer, ViewerInv, DataInv, ChannelInv, ChannelTypeOK, InOrder, NeverSleepsOverFrame,
                          TerminatedIsQuiet, HandsInv, EndInv, RecordingEnds
<1>4. CASE StopSendThread
  <2> USE <1>1, <1>4 DEF StopSendThread
  <2>1. ChannelTypeOK'
    <3>1. sending' \in [Role -> BOOLEAN]
      BY DEF ViewerInv, DataInv, ChannelInv, ChannelTypeOK
    <3>2. sender' \in [Role -> {"check", "dozing", "asleep", "holding", "ended"}]
      BY DEF ViewerInv, DataInv, ChannelInv, ChannelTypeOK
    <3>3. missed' \in SUBSET Role
      BY DEF ViewerInv, DataInv, ChannelInv, ChannelTypeOK
    <3>4. QED
      BY <3>1, <3>2, <3>3 DEF ViewerInv, DataInv, ChannelInv, ChannelTypeOK
  <2>2. \A r \in Role : /\ sender'[r] = "ended" <=> sender[r] = "ended"
                        /\ sender'[r] = "holding" <=> sender[r] = "holding"
                        /\ sender'[r] \in {"dozing", "asleep"} => sender[r] \in {"dozing", "asleep"}
    <3>1. sender \in [Role -> {"check", "dozing", "asleep", "holding", "ended"}]
      BY DEF ViewerInv, DataInv, ChannelInv, ChannelTypeOK
    <3>2. \A r \in Role : sender'[r] = IF r = Roles[role] /\ sender[r] = "asleep" THEN "check" ELSE sender[r]
      BY <3>1
    <3>3. ASSUME NEW r \in Role
          PROVE  /\ sender'[r] = "ended" <=> sender[r] = "ended"
                 /\ sender'[r] = "holding" <=> sender[r] = "holding"
                 /\ sender'[r] \in {"dozing", "asleep"} => sender[r] \in {"dozing", "asleep"}
      <4>1. CASE r = Roles[role] /\ sender[r] = "asleep"
        <5>1. sender'[r] = "check"
          BY <3>2, <4>1
        <5>2. QED
          BY <4>1, <5>1
      <4>2. CASE ~(r = Roles[role] /\ sender[r] = "asleep")
        <5>1. sender'[r] = sender[r]
          BY <3>2, <4>2
        <5>2. QED
          BY <5>1
      <4>3. QED
        BY <4>1, <4>2
    <3>4. QED
      BY <3>3
  <2>3. (\A r \in Role : sending'[r] => sending[r]) /\ ~sending'[Roles[role]]
    BY DEF ViewerInv, DataInv, ChannelInv, ChannelTypeOK
  <2>4. InOrder' /\ NeverSleepsOverFrame' /\ HandsInv'
    <3>1. UNCHANGED <<sent, frame, queue, pushed>>
      OBVIOUS
    <3>2. InOrder'
      BY <2>2, <3>1 DEF ViewerInv, DataInv, ChannelInv, InOrder
    <3>3. NeverSleepsOverFrame'
      BY <2>2, <3>1 DEF ViewerInv, DataInv, ChannelInv, NeverSleepsOverFrame
    <3>4. HandsInv'
      BY <2>2, <3>1 DEF ViewerInv, HandsInv
    <3>5. QED
      BY <3>2, <3>3, <3>4
  <2>5. TerminatedIsQuiet'
    BY <2>2, <2>3 DEF ViewerInv, DataInv, ChannelInv, TerminatedIsQuiet
  <2>6. EndInv' /\ RecordingEnds'
    BY <2>3 DEF ViewerInv, DataInv, EndInv, RecordingEnds
  <2>7. QED
    BY <1>2, <2>1, <2>4, <2>5, <2>6 DEF ViewerInv, DataInv, ChannelInv
<1>5. CASE JoinSendThread
  BY <1>1, <1>2, <1>5 DEF JoinSendThread, ViewerInv, DataInv, ChannelInv, ChannelTypeOK, InOrder, NeverSleepsOverFrame,
                          TerminatedIsQuiet, HandsInv, EndInv, RecordingEnds
<1>6. CASE UnregisterObserver
  <2> USE <1>1, <1>6 DEF UnregisterObserver
  <2>1. observed' \in [Role -> BOOLEAN]
    BY DEF ViewerInv, DataInv, ChannelInv, ChannelTypeOK
  <2>2. /\ \A r \in Role : observed'[r] <=> observed[r] /\ r # Roles[role]
        /\ ~observed'[Roles[role]]
    BY DEF ViewerInv, DataInv, ChannelInv, ChannelTypeOK
  <2>3. ChannelTypeOK' /\ InOrder' /\ NeverSleepsOverFrame' /\ HandsInv'
    BY <2>1 DEF ViewerInv, DataInv, ChannelInv, ChannelTypeOK, InOrder, NeverSleepsOverFrame, HandsInv
  <2>4. TerminatedIsQuiet'
    BY <2>2 DEF ViewerInv, DataInv, ChannelInv, TerminatedIsQuiet, EndInv
  <2>5. EndInv' /\ RecordingEnds'
    <3>1. ~observed["command"] => ~observed'["command"]
      BY <2>2, RoleFacts
    <3>2. QED
      BY <2>2, <3>1 DEF ViewerInv, DataInv, EndInv, RecordingEnds
  <2>6. QED
    BY <1>2, <2>3, <2>4, <2>5 DEF ViewerInv, DataInv, ChannelInv
<1>7. QED
  BY <1>3, <1>4, <1>5, <1>6 DEF EndStep

(* The functions of a closed channel; past the command channel nothing is recorded. *)
LEMMA RunClosedKeeps == ASSUME ViewerInv, RunClosed PROVE ViewerInv'
<1>1. Roles[role] \in Role /\ role \in 1..Len(Roles) /\ ~observed[Roles[role]] /\ terminator = "closed"
  BY RoleFacts DEF ViewerInv, EndInv, RunClosed
<1>2. UNCHANGED <<dc, observed, queueVars, missed, requests, messages, listening, alive, strayed>>
  BY DEF RunClosed, NextChannel
<1>3. /\ role' = (IF role = Len(Roles) THEN 1 ELSE role + 1)
      /\ terminator' = (IF role = Len(Roles) THEN "destroy" ELSE "stop")
      /\ recording' = (IF Roles[role] = "command" THEN FALSE ELSE recording)
  BY DEF RunClosed, NextChannel
<1>4. role' \in 1..Len(Roles) /\ role' \in 1..Len(Roles) + 1
  BY <1>1, <1>3, RoleFacts
<1>5. LinesInv'
  BY <1>2, <1>3, <1>4 DEF ViewerInv, DataInv, LinesInv, ChannelInv, ChannelTypeOK, InOrder, NeverSleepsOverFrame,
                          TerminatedIsQuiet, HandsInv, queueVars
<1>6. terminator' \in {"destroy", "done"} \/ (\E i \in 1..role' - 1 : Roles[i] = "command")
        => \E i \in 1..role : Roles[i] = "command"
  <2>1. PICK i \in 1..Len(Roles) : Roles[i] = "command"
    BY RoleFacts DEF Role
  <2>2. QED
    BY <1>1, <1>3, <2>1, RoleFacts
<1>7. (\E i \in 1..role : Roles[i] = "command") => ~recording' /\ ~observed["command"]
  <2>1. CASE Roles[role] = "command"
    BY <1>1, <1>3, <2>1
  <2>2. CASE Roles[role] # "command"
    <3>1. (\E i \in 1..role : Roles[i] = "command") => \E i \in 1..role - 1 : Roles[i] = "command"
      BY <1>1, <2>2, RoleFacts
    <3>2. QED
      BY <1>3, <2>2, <3>1 DEF ViewerInv, EndInv
  <2>3. QED
    BY <2>1, <2>2
<1>8. EndInv' /\ RecordingEnds'
  BY <1>2, <1>3, <1>4, <1>6, <1>7 DEF EndInv, RecordingEnds
<1>9. recording' \in BOOLEAN
  BY <1>3 DEF ViewerInv, DataInv, DataTypeOK
<1>10. DataTypeOK' /\ (listening = alive)' /\ ~strayed'
  BY <1>2, <1>9 DEF ViewerInv, DataInv, DataTypeOK
<1>11. QED
  BY <1>5, <1>8, <1>10 DEF ViewerInv, DataInv, LinesInv

LEMMA DestroyKeeps == ASSUME ViewerInv, Destroy PROVE ViewerInv'
<1>1. DataTypeOK' /\ (listening = alive)' /\ ~strayed'
  BY DEF Destroy, ViewerInv, DataInv, DataTypeOK
<1>2. QED
  BY <1>1 DEF Destroy, ViewerInv, DataInv, ChannelInv, ChannelTypeOK, InOrder, NeverSleepsOverFrame, TerminatedIsQuiet,
              HandsInv, EndInv, RecordingEnds, queueVars

LEMMA ViewerInitial == DataInit => ViewerInv
<1> SUFFICES ASSUME DataInit PROVE ViewerInv
  OBVIOUS
<1> USE DEF DataInit, ChannelInit
<1>1. ChannelTypeOK
  <2>1. role \in 1..Len(Roles) + 1 /\ buffered \in [Role -> 0..MaxBuffered] /\ <<>> \in Seq(Nat)
    BY RoleFacts, BufferedAssumption
  <2>2. QED
    BY <2>1 DEF ChannelTypeOK
<1>2. InOrder
  <2>1. <<>> = [i \in 1..0 |-> i] /\ <<>> \o <<>> \o <<>> = <<>> /\ Len(<<>>) = 0
    OBVIOUS
  <2>2. QED
    BY <2>1 DEF InOrder
<1>3. NeverSleepsOverFrame /\ TerminatedIsQuiet /\ HandsInv
  BY DEF NeverSleepsOverFrame, TerminatedIsQuiet, HandsInv
<1>4. EndInv /\ RecordingEnds
  BY RoleFacts DEF EndInv, RecordingEnds
<1>5. DataTypeOK
  <2>1. requests \in 0..MaxRequests /\ messages \in 0..MaxPassed
    BY DataAssumption
  <2>2. recording \in BOOLEAN /\ listening \in BOOLEAN /\ alive \in BOOLEAN /\ strayed \in BOOLEAN
    BY Zenon
  <2>3. QED
    BY <2>1, <2>2 DEF DataTypeOK
<1>6. QED
  BY <1>1, <1>2, <1>3, <1>4, <1>5 DEF ViewerInv, DataInv, ChannelInv

(* What a viewer gets is in order and without a gap, no thread uses a channel that is        *)
(* terminated, no program's message runs into one that is destroyed, and no recording goes   *)
(* on after its viewer: SendLoop, Terminate and ~IpcChannel, for any number of channels.      *)
THEOREM DataAlwaysKept == Spec => []DataInv
<1>1. Init => ViewerInv
  BY ViewerInitial DEF Init
<1>2. ViewerInv /\ [Next]_vars => ViewerInv'
  <2> SUFFICES ASSUME ViewerInv, [Next]_vars PROVE ViewerInv'
    OBVIOUS
  <2>1. CASE DataNext
    <3>1. CASE (Libwebrtc /\ UNCHANGED dataVars) \/ (\E r \in Role : SendLoop(r) /\ UNCHANGED dataVars)
      <4>1. LinesInv' /\ EndsStay
        BY <3>1, ChannelsKeep DEF ViewerInv, DataInv, LinesInv
      <4>2. DataTypeOK' /\ UNCHANGED <<listening, alive, recording>> /\ ~strayed'
        BY <3>1 DEF ViewerInv, DataInv, DataTypeOK, dataVars
      <4>3. QED
        BY <4>1, <4>2, StayKeeps
    <3>2. QED
      BY <2>1, <3>1, RequestKeeps, CallbackKeeps, EndKeeps, RunClosedKeeps, DestroyKeeps DEF DataNext
  <2>2. CASE UNCHANGED <<channelVars, dataVars>>
    <3>1. LinesInv' /\ EndsStay
      BY <2>2, ChannelsKeep DEF ViewerInv, DataInv, LinesInv
    <3>2. DataTypeOK' /\ UNCHANGED <<listening, alive, recording>> /\ ~strayed'
      BY <2>2 DEF ViewerInv, DataInv, DataTypeOK, dataVars
    <3>3. QED
      BY <3>1, <3>2, StayKeeps
  <2>3. QED
    BY <2>1, <2>2 DEF Next, Viewer, Program, vars
<1>3. ViewerInv => DataInv
  BY DEF ViewerInv
<1>4. QED
  BY <1>1, <1>2, <1>3, PTL DEF Spec

-------------------------------------------------------------------------------
(* UnixSocketServer: who has which descriptor. *)

(* The kernel gives out a descriptor that nobody has. *)
LEMMA LowestIsFree == ASSUME FreeFds # {} PROVE Lowest(FreeFds) \in FreeFds
<1>1. FreeFds \in SUBSET Nat
  BY FdsAssumption DEF FreeFds
<1>2. \E f \in FreeFds : \A g \in FreeFds : f <= g
  <2>1. PICK f \in FreeFds : \A g \in FreeFds : <<g, f>> \notin OpToRel(<, Nat)
    BY <1>1, NatLessThanWellFounded, WFMin
  <2>2. \A g \in FreeFds : ~(g < f)
    BY <1>1, <2>1 DEF OpToRel
  <2>3. QED
    BY <1>1, <2>2
<1>3. QED
  BY <1>2 DEF Lowest

(* The program and kernel steps leave the server's own tables alone. *)
LEMMA ProgramKeeps == ASSUME ServerInv, NEW c \in Clients, ProgramStep(c) PROVE ServerInv'
<1> USE DEF ServerInv, ServerTypeOK, EntriesLive, NewcomerIsNew, OneOwnerEach, acceptVars, clientVars, latestVars
<1>1. CASE Connect(c)
  BY <1>1 DEF Connect
<1>2. CASE ClientReads(c)
  BY <1>2 DEF ClientReads
<1>3. CASE ClientLeaves(c)
  BY <1>3 DEF ClientLeaves
<1>4. CASE ReadMessage(c)
  BY <1>4, MessagesAssumption DEF ReadMessage
<1>5. QED
  BY <1>1, <1>2, <1>3, <1>4 DEF ProgramStep

(* A sender drops entries and shuts descriptors down; it closes none. *)
LEMMA SendKeeps ==
  ASSUME ServerInv, NEW t \in SendThreads,
         ShutdownStale(t) \/ Write(t) \/ (FlushLatest(t) /\ UNCHANGED acceptVars) \/ (t = "accept" /\ AcceptFlush)
  PROVE  ServerInv'
<1> USE DEF ServerInv, ServerTypeOK, EntriesLive, NewcomerIsNew, OneOwnerEach, acceptVars, clientVars, latestVars, Drop, Served
<1>1. CASE ShutdownStale(t)
  BY <1>1 DEF ShutdownStale
<1>2. CASE Write(t)
  BY <1>2 DEF Write
<1>3. CASE FlushLatest(t) /\ UNCHANGED acceptVars
  BY <1>3 DEF FlushLatest
<1>4. CASE t = "accept" /\ AcceptFlush
  BY <1>4 DEF AcceptFlush, FlushLatest
<1>5. QED
  BY <1>1, <1>2, <1>3, <1>4

(* A connection has its descriptor before it has an entry. *)
LEMMA AcceptKeeps ==
  ASSUME ServerInv, (\E c \in Clients : Accept(c)) \/ Insert \/ AcceptEnds
  PROVE  ServerInv'
<1> USE DEF ServerInv, ServerTypeOK, EntriesLive, NewcomerIsNew, OneOwnerEach, clientVars, latestVars
<1>1. ASSUME NEW c \in Clients, Accept(c) PROVE ServerInv'
  <2>1. PICK f \in FreeFds : fd' = [fd EXCEPT ![c] = f]
    BY <1>1, LowestIsFree DEF Accept
  <2>2. f \in Fds /\ f # Nothing /\ \A d \in Clients : fd[d] # f
    BY <2>1, NothingAssumption DEF FreeFds
  <2>3. clients[f] = Nothing
    BY <2>2
  <2>4. QED
    BY <1>1, <2>1, <2>2, <2>3 DEF Accept
<1>2. CASE Insert
  BY <1>2, NothingAssumption DEF Insert, LoopTest
<1>3. CASE AcceptEnds
  BY <1>3 DEF AcceptEnds
<1>4. QED
  BY <1>1, <1>2, <1>3

(* A client's thread erases its entry before it closes its descriptor. *)
LEMMA HandleKeeps ==
  ASSUME ServerInv, NEW c \in Clients, HandleClient(c) \/ RunCallbacks(c)
  PROVE  ServerInv'
<1> USE NothingAssumption DEF ServerInv, ServerTypeOK, EntriesLive, NewcomerIsNew, OneOwnerEach, acceptVars, latestVars
<1>1. CASE ReadEnds(c)
  BY <1>1 DEF ReadEnds
<1>2. CASE EraseClient(c)
  BY <1>2 DEF EraseClient
<1>3. CASE CloseClient(c)
  BY <1>3 DEF CloseClient
<1>4. CASE RunCallbacks(c)
  BY <1>4 DEF RunCallbacks, LoopTest
<1>5. QED
  BY <1>1, <1>2, <1>3, <1>4 DEF HandleClient

(* Stop empties the table after the accept thread has ended. *)
LEMMA MainKeeps == ASSUME ServerInv, Start \/ StopFlag \/ StopStep PROVE ServerInv'
<1> USE DEF ServerInv, ServerTypeOK, EntriesLive, NewcomerIsNew, OneOwnerEach, acceptVars, clientVars, latestVars
<1>1. CASE Start
  BY <1>1 DEF Start
<1>2. CASE StopFlag
  BY <1>2 DEF StopFlag
<1>3. CASE StopSwap
  BY <1>3 DEF StopSwap, Served
<1>4. CASE StopDone \/ \E c \in Clients : StopJoin(c)
  BY <1>4 DEF StopDone, StopJoin
<1>5. QED
  BY <1>1, <1>2, <1>3, <1>4 DEF StopStep

-------------------------------------------------------------------------------
(* IpcEndpoints: who has a gamepad, and whose callbacks run. *)

\* A viewer's gamepad was reported over a channel that is up or by one who is remembered, and
\* new clients are sent the snapshot that the endpoint has.
GamepadsInv ==
  /\ kind = "gamepad" => latest = gamepads
  /\ kind = "ipc" => gamepads = NoGamepads /\ latest = Nothing
  /\ \A r \in Remotes : gamepads[r] # 0 => r \in spoke \/ speaker = r
  /\ \A r \in Remotes : channel[r] # "up" => speaker # r
  /\ \A r \in registered : channel[r] \in {"up", "terminated"}

ProgramsInv == EndpointInv /\ GamepadsInv

(* The server's own steps change neither snapshot nor viewers. *)
LEMMA ServerPartKeeps ==
  ASSUME ProgramsInv, ServerInv', UNCHANGED endpointVars, latest' = latest
  PROVE  ProgramsInv'
BY DEF ProgramsInv, EndpointInv, EndpointTypeOK, GamepadsInv, GoneIsGone, NothingAstray, endpointVars, lifeVars, lossyVars, Snapshots

(* So its invariant is kept through whatever programs and threads do to it. *)
LEMMA EndpointStepKeeps == ASSUME ProgramsInv, EndpointStep PROVE ProgramsInv'
<1>1. ServerInv
  BY DEF ProgramsInv, EndpointInv
<1>2. "accept" \in SendThreads /\ Senders \subseteq SendThreads /\ Programs \subseteq Clients
  BY EndpointsAssumption DEF SendThreads, Programs
<1>3. ServerInv'
  <2>1. CASE AcceptStep
    BY <1>1, <1>2, <2>1, AcceptKeeps, SendKeeps DEF AcceptStep
  <2>2. CASE \E c \in Clients : Accept(c) \/ HandleClient(c)
    BY <1>1, <2>2, AcceptKeeps, HandleKeeps
  <2>3. CASE \E t \in Senders : ShutdownStale(t)
    BY <1>1, <1>2, <2>3, SendKeeps
  <2>4. CASE Start \/ StopFlag \/ StopStep
    BY <1>1, <2>4, MainKeeps
  <2>5. CASE \E c \in Clients : ProgramStep(c)
    BY <1>1, <2>5, ProgramKeeps
  <2>6. QED
    BY <1>2, <2>1, <2>2, <2>3, <2>4, <2>5 DEF EndpointStep, ServerStep
<1>4. latest' = latest
  <2>1. CASE AcceptStep
    BY <2>1 DEF AcceptStep, Insert, AcceptFlush, FlushLatest, AcceptEnds, ShutdownStale, latestVars
  <2>2. CASE \E c \in Clients : Accept(c) \/ HandleClient(c)
    BY <2>2 DEF Accept, HandleClient, ReadEnds, EraseClient, CloseClient, latestVars
  <2>3. CASE \E t \in Senders : ShutdownStale(t)
    BY <2>3 DEF ShutdownStale, latestVars
  <2>4. CASE Start \/ StopFlag \/ StopStep
    BY <2>4 DEF Start, StopFlag, StopStep, StopSwap, StopJoin, StopDone, latestVars
  <2>5. CASE \E c \in Clients : ProgramStep(c)
    BY <2>5 DEF ProgramStep, Connect, ReadMessage, ClientReads, ClientLeaves, latestVars
  <2>6. QED
    BY <1>2, <2>1, <2>2, <2>3, <2>4, <2>5 DEF EndpointStep, ServerStep
<1>5. QED
  BY <1>3, <1>4, ServerPartKeeps DEF EndpointStep

(* A program's message finds only callbacks of channels that are there. *)
LEMMA CallbacksKeep == ASSUME ProgramsInv, NEW c \in Clients, Callbacks(c) PROVE ProgramsInv'
<1>1. ServerInv'
  BY HandleKeeps DEF ProgramsInv, EndpointInv, Callbacks
<1>2. ~astray /\ \A r \in registered : channel[r] \notin {"closing", "destroyed"}
  BY DEF ProgramsInv, EndpointInv, NothingAstray, GamepadsInv
<1>3. astray' = astray
  <2>1. astray' = (astray \/ FALSE) /\ astray \in BOOLEAN
    BY <1>2, Zenon DEF Callbacks, ProgramsInv, EndpointInv, EndpointTypeOK
  <2>2. QED
    BY <2>1, Zenon
<1>4. UNCHANGED endpointVars /\ latest' = latest
  BY <1>3 DEF Callbacks, endpointVars, lifeVars, RunCallbacks, latestVars
<1>5. QED
  BY <1>1, <1>4, ServerPartKeeps

(* A snapshot that is published has only gamepads that were there, and the new one. *)
LEMMA PublishKeeps ==
  ASSUME ServerInv, NEW t \in Senders, NEW pads \in Snapshots, NEW ages \in [Remotes -> 0..2], Publish(t, pads, ages)
  PROVE  /\ ServerInv' /\ gamepads' \in Snapshots /\ latest' = gamepads'
         /\ \A r \in Remotes : gamepads'[r] \in {0, pads[r]}
<1>1. ServerInv'
  BY DEF Publish, SetLatest, ServerInv, ServerTypeOK, EntriesLive, NewcomerIsNew, OneOwnerEach, acceptVars, clientVars
<1>2. gamepads' = Prune(pads, ages) /\ latest' = gamepads'
  BY DEF Publish, SetLatest
<1>3. 0 \in 0..MaxSequence
  BY EndpointsAssumption
<1>4. QED
  BY <1>1, <1>2, <1>3 DEF Prune, Snapshots

EndpointRest == EndpointTypeOK /\ GoneIsGone /\ NothingAstray /\ GamepadsInv

(* The invariant, the server's part apart. *)
LEMMA RestOfProgramsInv == (ProgramsInv <=> ServerInv /\ EndpointRest) /\ (ProgramsInv' <=> ServerInv' /\ EndpointRest')
BY DEF ProgramsInv, EndpointInv, EndpointRest

(* Only a channel that is up delivers, and its viewer is remembered before it can go. *)
LEMMA ViewerKeeps == ASSUME ProgramsInv, NEW r \in Remotes, ViewerStep(r) PROVE ProgramsInv'
<1>0. ServerInv /\ EndpointRest /\ "signaling" \in Senders /\ Senders \subseteq SendThreads
  BY RestOfProgramsInv, EndpointsAssumption DEF SendThreads
<1> USE <1>0 DEF EndpointRest, EndpointTypeOK, GoneIsGone, NothingAstray, GamepadsInv, endpointVars, lifeVars, lossyVars,
                Deliver, Snapshots, NoGamepads
<1>1. CASE UNCHANGED <<serverVars, lifeVars, spoke, gamepads, speaker>>
      /\ last' \in [Remotes -> 0..MaxSequence] /\ age' \in [Remotes -> 0..2] /\ regressed' \in SUBSET Remotes
      /\ publisher' = publisher /\ assembly' \in [Remotes -> 0..Chunks \cup {Nothing}]
  <2>1. ServerInv' /\ latest' = latest
    BY <1>1 DEF serverVars, acceptVars, clientVars, latestVars, ServerInv, ServerTypeOK, EntriesLive, NewcomerIsNew, OneOwnerEach
  <2>2. EndpointRest'
    BY <1>1, <2>1
  <2>3. QED
    BY <2>1, <2>2, RestOfProgramsInv
<1>2. CASE TimePasses(r)
  <2>1. age' \in [Remotes -> 0..2]
    BY <1>2 DEF TimePasses
  <2>2. QED
    BY <1>1, <1>2, <2>1 DEF TimePasses
<1>3. CASE OnStreamHeader(r)
  <2>1. assembly' \in [Remotes -> 0..Chunks \cup {Nothing}]
    BY <1>3, EndpointsAssumption DEF OnStreamHeader
  <2>2. QED
    BY <1>1, <1>3, <2>1 DEF OnStreamHeader
<1>4. CASE OnStreamChunk(r)
  <2>1. assembly' \in [Remotes -> 0..Chunks \cup {Nothing}]
    BY <1>4, EndpointsAssumption DEF OnStreamChunk
  <2>2. QED
    BY <1>1, <1>4, <2>1 DEF OnStreamChunk
<1>5. ASSUME kind = "ipc", channel[r] = "up", speaker = Nothing, speaker' = r, Write("signaling"),
             assembly' \in [Remotes -> 0..Chunks \cup {Nothing}],
             UNCHANGED <<lifeVars, spoke, lossyVars, gamepads, publisher>>
      PROVE  ProgramsInv'
  <2>1. ServerInv'
    BY <1>5, SendKeeps
  <2>2. latest' = latest
    BY <1>5 DEF Write, latestVars
  <2>3. EndpointTypeOK'
    BY <1>5, <2>2
  <2>4. NothingAstray' /\ GoneIsGone' /\ GamepadsInv'
    BY <1>5, <2>2
  <2>5. EndpointRest'
    BY <2>3, <2>4
  <2>6. QED
    BY <2>1, <2>5, RestOfProgramsInv
<1>6. CASE Payload(r)
  BY <1>5, <1>6 DEF Payload
<1>7. ASSUME NEW aborted \in BOOLEAN, OnStreamTrailer(r, aborted) PROVE ProgramsInv'
  <2>1. assembly' \in [Remotes -> 0..Chunks \cup {Nothing}]
    BY <1>7 DEF OnStreamTrailer
  <2>2. QED
    BY <1>1, <1>5, <1>7, <2>1 DEF OnStreamTrailer
<1>8. ASSUME NEW s \in 1..MaxSequence, Report(r, s) PROVE ProgramsInv'
  <2>1. /\ last' \in [Remotes -> 0..MaxSequence] /\ age' \in [Remotes -> 0..2] /\ regressed' \in SUBSET Remotes
        /\ speaker' = r /\ channel[r] = "up" /\ speaker = Nothing /\ kind = "gamepad"
        /\ UNCHANGED <<lifeVars, spoke, assembly>>
    BY <1>8, EndpointsAssumption DEF Report, Arrives
  <2>2. CASE UNCHANGED <<serverVars, gamepads, publisher>>
    <3>1. ServerInv' /\ latest' = latest
      BY <2>2 DEF serverVars, acceptVars, clientVars, latestVars, ServerInv, ServerTypeOK, EntriesLive, NewcomerIsNew, OneOwnerEach
    <3>2. EndpointTypeOK'
      BY <2>1, <2>2, <3>1
    <3>3. NothingAstray' /\ GoneIsGone' /\ GamepadsInv'
      BY <2>1, <2>2, <3>1, EndpointsAssumption
    <3>4. EndpointRest'
      BY <3>2, <3>3
    <3>5. QED
      BY <3>1, <3>4, RestOfProgramsInv
  <2>3. CASE Publish("signaling", [gamepads EXCEPT ![r] = s], age')
    <3>1. [gamepads EXCEPT ![r] = s] \in Snapshots
      BY EndpointsAssumption
    <3>2. ServerInv' /\ gamepads' \in Snapshots /\ latest' = gamepads'
          /\ \A q \in Remotes : gamepads'[q] \in {0, [gamepads EXCEPT ![r] = s][q]}
      BY <2>1, <2>3, <3>1, PublishKeeps
    <3>3. \A q \in Remotes : q # r => gamepads'[q] \in {0, gamepads[q]}
      BY <3>2
    <3>4. publisher' \in Senders
      BY <2>3 DEF Publish
    <3>5. EndpointTypeOK'
      BY <2>1, <3>2, <3>4
    <3>6. NothingAstray' /\ GoneIsGone'
      BY <2>1, <3>2, <3>3
    <3>7. GamepadsInv'
      BY <2>1, <3>2, <3>3, EndpointsAssumption
    <3>8. EndpointRest'
      BY <3>5, <3>6, <3>7
    <3>9. QED
      BY <3>2, <3>8, RestOfProgramsInv
  <2>4. QED
    BY <1>8, <2>2, <2>3 DEF Report
<1>9. CASE TerminateChannels(r)
  <2>1. ServerInv' /\ latest' = latest
    BY <1>9 DEF TerminateChannels, serverVars, acceptVars, clientVars, latestVars, ServerInv, ServerTypeOK, EntriesLive,
                NewcomerIsNew, OneOwnerEach
  <2>2. EndpointRest'
    BY <1>9, <2>1 DEF TerminateChannels
  <2>3. QED
    BY <2>1, <2>2, RestOfProgramsInv
<1>10. QED
  BY <1>2, <1>3, <1>4, <1>6, <1>7, <1>8, <1>9 DEF ViewerStep

(* Flush sends what was published; the end of a channel takes its viewer's gamepad along. *)
LEMMA PeerThreadKeeps == ASSUME ProgramsInv, PeerThread PROVE ProgramsInv'
<1>0. ServerInv /\ EndpointRest /\ Senders \subseteq SendThreads
  BY RestOfProgramsInv DEF SendThreads
<1> USE <1>0, EndpointsAssumption DEF EndpointRest, EndpointTypeOK, GoneIsGone, NothingAstray, GamepadsInv, endpointVars, lifeVars, lossyVars, Snapshots
<1>1. UNCHANGED serverVars => ServerInv' /\ latest' = latest
  BY DEF serverVars, acceptVars, clientVars, latestVars, ServerInv, ServerTypeOK, EntriesLive, NewcomerIsNew, OneOwnerEach
<1>2. CASE OnPacketReturns
  BY <1>1, <1>2, RestOfProgramsInv DEF OnPacketReturns
<1>3. CASE Flush
  <2>1. ServerInv'
    BY <1>3, SendKeeps DEF Flush
  <2>2. latest' = latest /\ UNCHANGED <<lifeVars, spoke, lossyVars, gamepads, speaker, assembly>> /\ publisher' = Nothing
    BY <1>3 DEF Flush, FlushLatest
  <2>3. EndpointTypeOK'
    BY <2>2
  <2>4. EndpointRest'
    BY <2>2, <2>3
  <2>5. QED
    BY <2>1, <2>4, RestOfProgramsInv
<1>4. ASSUME NEW r \in Remotes, Unregister(r) PROVE ProgramsInv'
  <2>1. ServerInv' /\ latest' = latest
    BY <1>1, <1>4 DEF Unregister
  <2>2. EndpointTypeOK'
    BY <1>4, <2>1 DEF Unregister
  <2>3. NothingAstray' /\ GoneIsGone' /\ GamepadsInv'
    BY <1>4, <2>1 DEF Unregister
  <2>4. QED
    BY <2>1, <2>2, <2>3, RestOfProgramsInv
<1>5. ASSUME NEW r \in Remotes, NotifyRemotesClosed(r) PROVE ProgramsInv'
  <2>0. /\ channel' = [channel EXCEPT ![r] = "destroyed"] /\ channel[r] = "closing" /\ spoke' = spoke \ {r}
        /\ UNCHANGED <<kind, registered, astray, lossyVars, speaker, assembly>> /\ speaker # r /\ r \notin registered
    BY <1>5 DEF NotifyRemotesClosed
  <2>1. CASE kind = "gamepad" /\ Publish("closer", [gamepads EXCEPT ![r] = 0], age)
    <3>1. [gamepads EXCEPT ![r] = 0] \in Snapshots
      OBVIOUS
    <3>2. ServerInv' /\ gamepads' \in Snapshots /\ latest' = gamepads'
          /\ \A q \in Remotes : gamepads'[q] \in {0, [gamepads EXCEPT ![r] = 0][q]}
      BY <2>1, <3>1, PublishKeeps
    <3>3. gamepads'[r] = 0 /\ \A q \in Remotes : gamepads'[q] \in {0, gamepads[q]}
      BY <3>2
    <3>4. publisher' \in Senders
      BY <2>1 DEF Publish
    <3>5. EndpointTypeOK'
      BY <2>0, <3>2, <3>4
    <3>6. NothingAstray' /\ GoneIsGone'
      BY <2>0, <2>1, <3>2, <3>3
    <3>7. GamepadsInv'
      BY <2>0, <2>1, <3>2, <3>3
    <3>8. QED
      BY <3>2, <3>5, <3>6, <3>7, RestOfProgramsInv
  <2>2. CASE UNCHANGED <<serverVars, gamepads, publisher>> /\ ~(r \in spoke /\ gamepads[r] # 0 /\ kind = "gamepad")
    <3>1. ServerInv' /\ latest' = latest /\ gamepads[r] = 0
      BY <1>1, <2>0, <2>2 DEF NoGamepads
    <3>2. EndpointTypeOK'
      BY <2>0, <2>2, <3>1
    <3>3. NothingAstray' /\ GoneIsGone' /\ GamepadsInv'
      BY <2>0, <2>2, <3>1
    <3>4. QED
      BY <3>1, <3>2, <3>3, RestOfProgramsInv
  <2>3. QED
    BY <1>5, <2>1, <2>2 DEF NotifyRemotesClosed
<1>6. QED
  BY <1>2, <1>3, <1>4, <1>5 DEF PeerThread

(* No program is connected at first, and all channels are there. *)
LEMMA EndpointInitial == EndpointInit => ProgramsInv
<1> SUFFICES ASSUME EndpointInit PROVE ProgramsInv
  OBVIOUS
<1>1. ServerInv
  <2>1. written \in 0..MaxMessages /\ running \in BOOLEAN
    <3>1. written \in 0..MaxMessages
      BY MessagesAssumption DEF EndpointInit, ServerInit
    <3>2. running \in BOOLEAN
      BY DEF EndpointInit, ServerInit
    <3>3. QED
      BY <3>1, <3>2
  <2>2. /\ link \in [Clients -> {"absent", "backlog", "up", "gone", "shut"}]
        /\ fd \in [Clients -> Fds \cup {Nothing}] /\ clients \in [Fds -> Clients \cup {Nothing}]
        /\ thread \in [Clients -> {"none", "reading", "message", "leaving", "closing", "ended"}]
        /\ stale \in [SendThreads -> SUBSET Fds]
    BY DEF EndpointInit, ServerInit
  <2>3. ServerTypeOK
    BY <2>1, <2>2 DEF EndpointInit, ServerInit, ServerTypeOK
  <2>4. EntriesLive /\ NewcomerIsNew /\ OneOwnerEach
    BY DEF EndpointInit, ServerInit, EntriesLive, NewcomerIsNew, OneOwnerEach
  <2>5. QED
    BY <2>3, <2>4 DEF ServerInv
<1>2. EndpointTypeOK
  <2>1. NoGamepads \in Snapshots /\ last \in [Remotes -> 0..MaxSequence]
    BY EndpointsAssumption DEF EndpointInit, Snapshots, NoGamepads
  <2>2. latest \in Snapshots \cup {Nothing} /\ registered \in SUBSET Remotes
    BY <2>1 DEF EndpointInit, ServerInit
  <2>3. /\ channel \in [Remotes -> {"up", "terminated", "closing", "destroyed"}] /\ age \in [Remotes -> 0..2]
        /\ assembly \in [Remotes -> 0..Chunks \cup {Nothing}]
    BY DEF EndpointInit
  <2>4. QED
    BY <2>1, <2>2, <2>3 DEF EndpointInit, EndpointTypeOK
<1>3. GoneIsGone /\ NothingAstray /\ GamepadsInv
  BY EndpointsAssumption DEF EndpointInit, ServerInit, GoneIsGone, NothingAstray, GamepadsInv, NoGamepads
<1>4. QED
  BY <1>1, <1>2, <1>3 DEF ProgramsInv, EndpointInv

(* Every step keeps it. *)
LEMMA ProgramsKeep == ASSUME ProgramsInv, EndpointNext \/ UNCHANGED programVars PROVE ProgramsInv'
<1>1. CASE EndpointNext
  BY <1>1, EndpointStepKeeps, CallbacksKeep, ViewerKeeps, PeerThreadKeeps DEF EndpointNext
<1>2. CASE UNCHANGED programVars
  BY <1>2 DEF programVars, endpointVars, lifeVars, lossyVars, serverVars, acceptVars, clientVars, latestVars,
              ProgramsInv, EndpointInv, ServerInv, ServerTypeOK, EntriesLive, NewcomerIsNew, OneOwnerEach, EndpointTypeOK,
              GoneIsGone, NothingAstray, GamepadsInv, Snapshots
<1>3. QED
  BY <1>1, <1>2

(* An entry of clients_ is always about a connection and a thread that are there, no     *)
(* gamepad outlives its viewer, and no callback runs into a channel that is going: Stop, *)
(* HandleClient, SendToAll and ~IpcChannel, for any number of each.                       *)
THEOREM EndpointsAlwaysKept == Spec => []EndpointInv
<1>1. Init => ProgramsInv
  BY EndpointInitial DEF Init
<1>2. ProgramsInv /\ [Next]_vars => ProgramsInv'
  BY ProgramsKeep DEF Next, Viewer, Program, vars
<1>3. ProgramsInv => EndpointInv
  BY DEF ProgramsInv
<1>4. QED
  BY <1>1, <1>2, <1>3, PTL DEF Spec

-------------------------------------------------------------------------------
(* IpcEndpoints: reports of a gamepad stay in order. *)

\* What a viewer's gamepad is shown as, if at all, is the latest that any program was sent of it,
\* unless an older report was accepted.
NotOlder(snapshot, r) == snapshot[r] <= last[r] /\ (gamepads[r] # 0 => snapshot[r] <= gamepads[r])

SnapshotsType == unread \in [Clients -> Snapshots \cup {Nothing}] /\ seen \in [Clients -> Snapshots \cup {Nothing}]

SnapshotsAscend ==
  \A r \in Remotes \ regressed :
    /\ gamepads[r] <= last[r]
    /\ \A c \in Clients :
         /\ unread[c] # Nothing => NotOlder(unread[c], r)
         /\ seen[c] # Nothing => NotOlder(seen[c], r)
         /\ unread[c] # Nothing /\ seen[c] # Nothing /\ unread[c][r] # 0 => seen[c][r] <= unread[c][r]

\* Three kinds of step touch it: a program is sent the latest snapshot, reads it or leaves; a viewer's
\* report is accepted; gamepads are pruned.
Passes ==
  /\ UNCHANGED <<last, regressed, gamepads>>
  /\ \/ unread' = unread
     \/ \E served \in SUBSET Clients : unread' = [c \in Clients |-> IF c \in served THEN latest ELSE unread[c]]
     \/ \E c \in Clients : unread' = [unread EXCEPT ![c] = Nothing]
  /\ seen' = seen \/ \E c \in Clients :
       unread[c] # Nothing /\ seen' = [seen EXCEPT ![c] = unread[c]] /\ unread' = [unread EXCEPT ![c] = Nothing]

Accepts(r, s) ==
  /\ UNCHANGED <<unread, seen>>
  /\ AcceptSequence(r, s) /\ last' = [last EXCEPT ![r] = s]
  /\ regressed' = IF s < last[r] /\ age[r] = 2 THEN regressed \cup {r} ELSE regressed
  /\ gamepads' \in Snapshots /\ gamepads'[r] \in {0, s, gamepads[r]}
  /\ \A q \in Remotes : q # r => gamepads'[q] \in {0, gamepads[q]}

Prunes ==
  /\ UNCHANGED <<unread, seen, last, regressed>>
  /\ gamepads' \in Snapshots /\ \A q \in Remotes : gamepads'[q] \in {0, gamepads[q]}

(* Threads of the server and programs pass snapshots on. *)
LEMMA ServerPasses ==
  ASSUME ProgramsInv, EndpointStep \/ (\E c \in Clients : Callbacks(c)) \/ Flush
  PROVE  Passes
<1> USE DEF Passes, latestVars
<1>a. Served \subseteq Clients /\ Programs \subseteq Clients
  BY EndpointsAssumption DEF Served, Programs
<1>1. ASSUME NEW t, FlushLatest(t), UNCHANGED <<last, regressed, gamepads>> PROVE Passes
  <2>1. {c \in Served : SendLatest(c)} \in SUBSET Clients
    BY <1>a
  <2>2. QED
    BY <1>1, <2>1 DEF FlushLatest
<1>2. CASE EndpointStep
  <2>0. UNCHANGED <<last, regressed, gamepads>>
    BY <1>2 DEF EndpointStep, endpointVars, lossyVars
  <2>1. CASE AcceptStep
    BY <1>1, <2>0, <2>1 DEF AcceptStep, Insert, AcceptFlush, AcceptEnds, ShutdownStale
  <2>2. ASSUME NEW c \in Clients, Accept(c) \/ HandleClient(c) PROVE Passes
    BY <2>0, <2>2 DEF Accept, HandleClient, ReadEnds, EraseClient, CloseClient
  <2>3. CASE \E t \in Senders : ShutdownStale(t)
    BY <2>0, <2>3 DEF ShutdownStale
  <2>4. CASE Start \/ StopFlag \/ StopStep
    BY <2>0, <2>4 DEF Start, StopFlag, StopStep, StopSwap, StopJoin, StopDone
  <2>5. ASSUME NEW c \in Clients, ProgramStep(c) PROVE Passes
    BY <2>0, <2>5 DEF ProgramStep, Connect, ReadMessage, ClientReads, ClientLeaves
  <2>6. QED
    BY <1>2, <1>a, <2>1, <2>2, <2>3, <2>4, <2>5 DEF EndpointStep, ServerStep
<1>3. CASE \E c \in Clients : Callbacks(c)
  BY <1>3 DEF Callbacks, RunCallbacks, lossyVars
<1>4. CASE Flush
  BY <1>1, <1>4 DEF Flush, lossyVars
<1>5. QED
  BY <1>2, <1>3, <1>4

(* A viewer's step accepts one report at most. *)
LEMMA ViewerAccepts ==
  ASSUME ProgramsInv, NEW r \in Remotes, ViewerStep(r)
  PROVE  Passes \/ \E s \in 1..MaxSequence : Accepts(r, s)
<1>a. EndpointTypeOK /\ ServerInv /\ "signaling" \in Senders
  BY EndpointsAssumption DEF ProgramsInv, EndpointInv
<1>1. CASE UNCHANGED <<unread, seen, last, regressed, gamepads>>
  BY <1>1 DEF Passes
<1>2. CASE TimePasses(r) \/ OnStreamHeader(r) \/ OnStreamChunk(r) \/ TerminateChannels(r)
  BY <1>1, <1>2 DEF TimePasses, OnStreamHeader, OnStreamChunk, TerminateChannels, serverVars, latestVars, lossyVars
<1>3. CASE Payload(r) \/ \E aborted \in BOOLEAN : OnStreamTrailer(r, aborted)
  BY <1>1, <1>3 DEF Payload, OnStreamTrailer, Write, serverVars, latestVars, lossyVars
<1>4. ASSUME NEW s \in 1..MaxSequence, Report(r, s) PROVE Accepts(r, s)
  <2>1. /\ AcceptSequence(r, s) /\ last' = [last EXCEPT ![r] = s]
        /\ regressed' = IF s < last[r] /\ age[r] = 2 THEN regressed \cup {r} ELSE regressed
        /\ age' \in [Remotes -> 0..2]
    BY <1>a, <1>4 DEF Report, Arrives, EndpointTypeOK
  <2>2. CASE UNCHANGED <<serverVars, gamepads, publisher>>
    BY <1>a, <2>1, <2>2 DEF Accepts, serverVars, latestVars, EndpointTypeOK
  <2>3. CASE Publish("signaling", [gamepads EXCEPT ![r] = s], age')
    <3>1. [gamepads EXCEPT ![r] = s] \in Snapshots
      BY <1>a, EndpointsAssumption DEF Snapshots, EndpointTypeOK
    <3>2. gamepads' \in Snapshots /\ \A q \in Remotes : gamepads'[q] \in {0, [gamepads EXCEPT ![r] = s][q]}
      BY <1>a, <2>1, <2>3, <3>1, PublishKeeps
    <3>3. gamepads \in [Remotes -> 0..MaxSequence]
      BY <1>a DEF EndpointTypeOK, Snapshots
    <3>4. gamepads'[r] \in {0, s, gamepads[r]} /\ \A q \in Remotes : q # r => gamepads'[q] \in {0, gamepads[q]}
      BY <3>2, <3>3
    <3>5. UNCHANGED <<unread, seen>>
      BY <2>3 DEF Publish, SetLatest
    <3>6. QED
      BY <2>1, <3>2, <3>4, <3>5 DEF Accepts
  <2>4. QED
    BY <1>4, <2>2, <2>3 DEF Report
<1>5. QED
  BY <1>2, <1>3, <1>4 DEF ViewerStep

(* The end of a viewer takes its gamepad away. *)
LEMMA PeerThreadPrunes == ASSUME ProgramsInv, PeerThread PROVE Passes \/ Prunes
<1>a. EndpointTypeOK /\ ServerInv /\ "closer" \in Senders /\ 0 \in 0..MaxSequence
  BY EndpointsAssumption DEF ProgramsInv, EndpointInv
<1>1. CASE UNCHANGED <<unread, seen, last, regressed, gamepads>>
  BY <1>1 DEF Passes
<1>2. CASE OnPacketReturns \/ \E r \in Remotes : Unregister(r)
  BY <1>1, <1>2 DEF OnPacketReturns, Unregister, serverVars, latestVars, lossyVars
<1>3. CASE Flush
  BY <1>3, ServerPasses
<1>4. ASSUME NEW r \in Remotes, NotifyRemotesClosed(r) PROVE Passes \/ Prunes
  <2>1. UNCHANGED <<last, age, regressed>>
    BY <1>4 DEF NotifyRemotesClosed, lossyVars
  <2>2. CASE UNCHANGED <<serverVars, gamepads, publisher>>
    BY <1>1, <2>1, <2>2 DEF serverVars, latestVars
  <2>3. CASE Publish("closer", [gamepads EXCEPT ![r] = 0], age)
    <3>1. [gamepads EXCEPT ![r] = 0] \in Snapshots /\ age \in [Remotes -> 0..2] /\ gamepads \in [Remotes -> 0..MaxSequence]
      BY <1>a DEF Snapshots, EndpointTypeOK
    <3>2. gamepads' \in Snapshots /\ \A q \in Remotes : gamepads'[q] \in {0, [gamepads EXCEPT ![r] = 0][q]}
      BY <1>a, <2>3, <3>1, PublishKeeps
    <3>3. \A q \in Remotes : gamepads'[q] \in {0, gamepads[q]}
      BY <3>1, <3>2
    <3>4. UNCHANGED <<unread, seen>>
      BY <2>3 DEF Publish, SetLatest
    <3>5. QED
      BY <2>1, <3>2, <3>3, <3>4 DEF Prunes
  <2>4. QED
    BY <1>4, <2>2, <2>3 DEF NotifyRemotesClosed
<1>5. QED
  BY <1>2, <1>3, <1>4 DEF PeerThread

\* What a program reads next of a viewer that has not started anew.
ReadsOn ==
  \A c \in Clients, r \in Remotes :
    seen[c] # Nothing /\ seen'[c] # seen[c] /\ r \notin regressed => seen'[c][r] \in {0} \cup seen[c][r]..MaxSequence

(* Passing snapshots on keeps them in order, *)
LEMMA PassesKeeps ==
  ASSUME ProgramsInv, SnapshotsType, SnapshotsAscend, Passes
  PROVE  SnapshotsType' /\ SnapshotsAscend' /\ ReadsOn
<1>a. /\ gamepads \in [Remotes -> 0..MaxSequence] /\ last \in [Remotes -> 0..MaxSequence] /\ MaxSequence \in Nat
      /\ latest = gamepads \/ latest = Nothing
  BY EndpointsAssumption DEF ProgramsInv, EndpointInv, EndpointTypeOK, Snapshots, GamepadsInv
<1>b. UNCHANGED <<last, regressed, gamepads>>
  BY DEF Passes
<1>c. latest \in Snapshots \cup {Nothing}
  BY <1>a DEF Snapshots
<1>1. SnapshotsType'
  BY <1>c DEF Passes, SnapshotsType
<1>2. \A c \in Clients : unread'[c] \in {unread[c], latest, Nothing}
  BY DEF Passes, SnapshotsType
<1>3. \A c \in Clients : seen'[c] = seen[c] \/ (unread[c] # Nothing /\ seen'[c] = unread[c] /\ unread'[c] = Nothing)
  BY DEF Passes, SnapshotsType
<1>4. ASSUME NEW r \in Remotes \ regressed, NEW c \in Clients
      PROVE  /\ unread'[c] # Nothing => NotOlder(unread'[c], r)
             /\ seen'[c] # Nothing => NotOlder(seen'[c], r)
             /\ unread'[c] # Nothing /\ seen'[c] # Nothing /\ unread'[c][r] # 0 => seen'[c][r] <= unread'[c][r]
  <2>1. /\ gamepads[r] <= last[r]
        /\ unread[c] # Nothing => NotOlder(unread[c], r)
        /\ seen[c] # Nothing => NotOlder(seen[c], r)
        /\ unread[c] # Nothing /\ seen[c] # Nothing /\ unread[c][r] # 0 => seen[c][r] <= unread[c][r]
    BY <1>4 DEF SnapshotsAscend
  <2>2. gamepads[r] \in Nat /\ last[r] \in Nat
    BY <1>a
  <2>3. NotOlder(gamepads, r)
    BY <2>1, <2>2 DEF NotOlder
  <2>4. latest # Nothing => NotOlder(latest, r)
    BY <1>a, <2>3
  <2>5. unread'[c] # Nothing => NotOlder(unread'[c], r)
    BY <1>2, <2>1, <2>4
  <2>6. seen'[c] # Nothing => NotOlder(seen'[c], r)
    BY <1>3, <2>1
  <2>7. ASSUME unread'[c] # Nothing, seen'[c] # Nothing, unread'[c][r] # 0 PROVE seen'[c][r] <= unread'[c][r]
    <3>1. seen'[c] = seen[c]
      BY <1>3, <2>7
    <3>2. CASE unread'[c] = unread[c]
      BY <2>1, <2>7, <3>1, <3>2
    <3>3. CASE unread'[c] = gamepads
      BY <2>1, <2>7, <3>1, <3>3 DEF NotOlder
    <3>4. QED
      BY <1>2, <1>a, <2>7, <3>2, <3>3
  <2>8. QED
    BY <2>5, <2>6, <2>7
<1>5. SnapshotsAscend'
  BY <1>4, <1>b DEF SnapshotsAscend, NotOlder
<1>6. ReadsOn
  <2>1. SUFFICES ASSUME NEW c \in Clients, NEW r \in Remotes,
                        seen[c] # Nothing, seen'[c] # seen[c], r \notin regressed
                 PROVE  seen'[c][r] \in {0} \cup seen[c][r]..MaxSequence
    BY DEF ReadsOn
  <2>2. unread[c] # Nothing /\ seen'[c] = unread[c]
    BY <1>3, <2>1
  <2>3. unread[c][r] # 0 => seen[c][r] <= unread[c][r]
    BY <2>1, <2>2 DEF SnapshotsAscend
  <2>4. unread[c][r] \in 0..MaxSequence /\ seen[c][r] \in 0..MaxSequence
    BY <2>1, <2>2 DEF SnapshotsType, Snapshots
  <2>5. QED
    BY <1>a, <2>2, <2>3, <2>4
<1>7. QED
  BY <1>1, <1>5, <1>6

(* and so does what a viewer reports and what is pruned. *)
LEMMA ReportsKeep ==
  ASSUME ProgramsInv, SnapshotsType, SnapshotsAscend, Prunes \/ \E r \in Remotes, s \in 1..MaxSequence : Accepts(r, s)
  PROVE  SnapshotsType' /\ SnapshotsAscend' /\ ReadsOn
<1>a. /\ gamepads \in [Remotes -> 0..MaxSequence] /\ last \in [Remotes -> 0..MaxSequence] /\ MaxSequence \in Nat
  BY EndpointsAssumption DEF ProgramsInv, EndpointInv, EndpointTypeOK, Snapshots
<1>b. UNCHANGED <<unread, seen>>
  BY DEF Prunes, Accepts
<1>c. \A c \in Clients, r \in Remotes : /\ unread[c] # Nothing => unread[c][r] \in Nat
                                        /\ seen[c] # Nothing => seen[c][r] \in Nat
  BY <1>a DEF SnapshotsType, Snapshots
<1>1. ASSUME NEW q \in Remotes \ regressed', NEW l \in Nat, NEW g \in Nat,
             last'[q] = l, gamepads'[q] = g, last[q] <= l, g = 0 \/ g = gamepads[q] \/ (g = l /\ last[q] <= g),
             q \notin regressed
      PROVE  /\ gamepads'[q] <= last'[q]
             /\ \A c \in Clients :
                  /\ unread'[c] # Nothing => NotOlder(unread[c], q)'
                  /\ seen'[c] # Nothing => NotOlder(seen[c], q)'
                  /\ unread'[c] # Nothing /\ seen'[c] # Nothing /\ unread'[c][q] # 0 => seen'[c][q] <= unread'[c][q]
  <2>1. gamepads[q] <= last[q] /\ gamepads[q] \in Nat /\ last[q] \in Nat
    BY <1>1, <1>a DEF SnapshotsAscend
  <2>2. g <= l
    BY <1>1, <2>1
  <2>3. ASSUME NEW n \in Nat, n <= last[q], gamepads[q] # 0 => n <= gamepads[q]
        PROVE  n <= l /\ (g # 0 => n <= g)
    BY <1>1, <2>1, <2>3
  <2>4. ASSUME NEW c \in Clients
        PROVE  /\ unread'[c] # Nothing => NotOlder(unread[c], q)'
               /\ seen'[c] # Nothing => NotOlder(seen[c], q)'
               /\ unread'[c] # Nothing /\ seen'[c] # Nothing /\ unread'[c][q] # 0 => seen'[c][q] <= unread'[c][q]
    <3>1. /\ unread[c] # Nothing => NotOlder(unread[c], q)
          /\ seen[c] # Nothing => NotOlder(seen[c], q)
          /\ unread[c] # Nothing /\ seen[c] # Nothing /\ unread[c][q] # 0 => seen[c][q] <= unread[c][q]
      BY <1>1 DEF SnapshotsAscend
    <3>2. unread[c] # Nothing => NotOlder(unread[c], q)'
      BY <1>1, <1>b, <1>c, <2>3, <3>1 DEF NotOlder
    <3>3. seen[c] # Nothing => NotOlder(seen[c], q)'
      BY <1>1, <1>b, <1>c, <2>3, <3>1 DEF NotOlder
    <3>4. QED
      BY <1>b, <3>1, <3>2, <3>3
  <2>5. QED
    BY <1>1, <2>2, <2>4
<1>2. CASE Prunes
  <2>1. ASSUME NEW q \in Remotes \ regressed' PROVE last'[q] = last[q] /\ last[q] \in Nat /\ gamepads'[q] \in Nat
                 /\ (gamepads'[q] = 0 \/ gamepads'[q] = gamepads[q]) /\ q \notin regressed
    BY <1>2, <1>a, <2>1 DEF Prunes
  <2>2. SnapshotsAscend'
    BY <1>1, <2>1 DEF SnapshotsAscend
  <2>3. QED
    BY <1>b, <2>2 DEF SnapshotsType, Snapshots, ReadsOn
<1>3. ASSUME NEW r \in Remotes, NEW s \in 1..MaxSequence, Accepts(r, s) PROVE SnapshotsAscend'
  <2>1. ASSUME NEW q \in Remotes \ regressed'
        PROVE  /\ last'[q] \in Nat /\ gamepads'[q] \in Nat /\ last[q] <= last'[q] /\ q \notin regressed
               /\ gamepads'[q] = 0 \/ gamepads'[q] = gamepads[q] \/ (gamepads'[q] = last'[q] /\ last[q] <= gamepads'[q])
    <3>1. CASE q = r
      <4>1. last'[q] = s /\ s \in Nat /\ last[q] \in Nat /\ q \notin regressed
        BY <1>3, <1>a, <2>1, <3>1 DEF Accepts
      <4>2. last[q] <= s
        <5>1. s > last[r] \/ age[r] = 2
          BY <1>3 DEF Accepts, AcceptSequence
        <5>2. ~(s < last[r] /\ age[r] = 2)
          BY <1>3, <2>1, <3>1 DEF Accepts
        <5>3. QED
          BY <3>1, <4>1, <5>1, <5>2
      <4>3. gamepads'[q] \in {0, s, gamepads[q]} /\ gamepads[q] \in Nat
        BY <1>3, <1>a, <3>1 DEF Accepts
      <4>4. QED
        BY <4>1, <4>2, <4>3
    <3>2. CASE q # r
      <4>1. last'[q] = last[q] /\ last[q] \in Nat /\ q \notin regressed
        BY <1>3, <1>a, <2>1, <3>2 DEF Accepts
      <4>2. gamepads'[q] \in {0, gamepads[q]} /\ gamepads[q] \in Nat
        BY <1>3, <1>a, <3>2 DEF Accepts
      <4>3. QED
        BY <4>1, <4>2
    <3>3. QED
      BY <3>1, <3>2
  <2>2. QED
    BY <1>1, <2>1 DEF SnapshotsAscend
<1>4. SnapshotsType' /\ ReadsOn
  BY <1>b DEF SnapshotsType, Snapshots, ReadsOn
<1>5. QED
  BY <1>2, <1>3, <1>4

(* A program never reads an older report of a gamepad after a newer one, for any number  *)
(* of viewers, programs and reports (AcceptSequence, PublishLatest, SendLatest).           *)
THEOREM ReportsNeverOlder == Spec => NeverOlder
<1> DEFINE Inv == ProgramsInv /\ SnapshotsType /\ SnapshotsAscend
<1>1. Init => Inv
  <2>1. Init => ProgramsInv
    BY EndpointInitial DEF Init
  <2>2. Init => SnapshotsType
    BY DEF Init, EndpointInit, ServerInit, SnapshotsType
  <2>3. Init => SnapshotsAscend
    BY DEF Init, EndpointInit, ServerInit, SnapshotsAscend, NoGamepads
  <2>4. QED
    BY <2>1, <2>2, <2>3
<1>2. Inv /\ [Next]_vars => Inv' /\ [ReadsOn]_programVars
  <2> SUFFICES ASSUME Inv, [Next]_vars PROVE Inv' /\ [ReadsOn]_programVars
    OBVIOUS
  <2>1. CASE EndpointNext
    <3>1. Passes \/ Prunes \/ \E r \in Remotes, s \in 1..MaxSequence : Accepts(r, s)
      BY <2>1, ServerPasses, ViewerAccepts, PeerThreadPrunes DEF EndpointNext
    <3>2. QED
      BY <2>1, <3>1, PassesKeeps, ReportsKeep, ProgramsKeep
  <2>2. CASE UNCHANGED programVars
    <3>1. Passes
      BY <2>2 DEF Passes, programVars, endpointVars, lossyVars, serverVars, latestVars
    <3>2. QED
      BY <2>2, <3>1, PassesKeeps, ProgramsKeep
  <2>3. QED
    BY <2>1, <2>2 DEF Next, Viewer, Program, vars
<1>3. QED
  BY <1>1, <1>2, PTL DEF Spec, NeverOlder, ReadsOn
=============================================================================
