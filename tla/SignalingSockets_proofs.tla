------------------------- MODULE SignalingSockets_proofs -------------------------
(* Proofs about SignalingSockets, for any number of frames, joins and pings and any *)
(* silence of more than one ping interval.                                          *)
EXTENDS SignalingSockets, SequenceTheorems, TLAPS

-------------------------------------------------------------------------------
(* The write queue as a line of numbered frames, with pings between them. *)

\* The frames from one up to another are in line, in order; 0 is a ping.
InLine(q, done, last) ==
  /\ \A k \in done + 1..last : \E i \in 1..Len(q) : q[i] = k
  /\ \A i \in 1..Len(q) : q[i] # 0 => q[i] \in done + 1..last
  /\ \A i, j \in 1..Len(q) : i < j /\ q[i] # 0 /\ q[j] # 0 => q[i] < q[j]

HasPing(q) == \E i \in 1..Len(q) : q[i] = 0

(* What Append and Tail do to the places of a queue. *)
Longer(q, a, e) ==
  /\ Len(q) \in Nat /\ Len(a) = Len(q) + 1
  /\ \A i \in 1..Len(q) : q[i] \in Nat
  /\ \A i \in 1..Len(q) + 1 : (i \in 1..Len(q) /\ a[i] = q[i]) \/ (i = Len(q) + 1 /\ a[i] = e)
  /\ \A i \in 1..Len(q) : i \in 1..Len(q) + 1 /\ i < Len(q) + 1 /\ a[i] = q[i]
  /\ Len(q) + 1 \in 1..Len(q) + 1 /\ a[Len(q) + 1] = e

LEMMA AppendPlaces ==
  ASSUME NEW m \in Nat, NEW q \in Seq(0..m), NEW e \in 0..m
  PROVE  Longer(q, Append(q, e), e)
<1> DEFINE a == Append(q, e)
<1>1. Len(a) = Len(q) + 1 /\ a[Len(q) + 1] = e /\ \A i \in 1..Len(q) : a[i] = q[i]
  BY AppendProperties
<1>2. Len(q) \in Nat /\ \A i \in 1..Len(q) : q[i] \in 0..m
  BY LenProperties
<1> HIDE DEF a
<1>3. \A i \in 1..Len(q) + 1 : (i \in 1..Len(q) /\ a[i] = q[i]) \/ (i = Len(q) + 1 /\ a[i] = e)
  BY <1>1, <1>2
<1>4. \A i \in 1..Len(q) : i \in 1..Len(q) + 1 /\ i < Len(q) + 1 /\ Len(q) + 1 \in 1..Len(q) + 1
  BY <1>2
<1>5. Len(q) + 1 \in 1..Len(q) + 1 /\ \A i \in 1..Len(q) : q[i] \in Nat
  BY <1>2
<1>6. Longer(q, a, e)
  BY <1>1, <1>2, <1>3, <1>4, <1>5 DEF Longer
<1>7. QED
  BY <1>6 DEF a

LEMMA TailPlaces ==
  ASSUME NEW m \in Nat, NEW q \in Seq(0..m), q # <<>>
  PROVE  /\ \A i \in 1..Len(q) : q[i] \in Nat
         /\ 1 \in 1..Len(q) /\ Head(q) = q[1]
         /\ \A i \in 1..Len(Tail(q)) : i + 1 \in 1..Len(q) /\ 1 < i + 1 /\ Tail(q)[i] = q[i + 1]
         /\ \A i, j \in 1..Len(Tail(q)) : i < j => i + 1 < j + 1
         /\ \A i \in 1..Len(q) : i # 1 => 1 < i /\ \E j \in 1..Len(Tail(q)) : Tail(q)[j] = q[i]
<1>1. Len(q) \in Nat \ {0} /\ \A i \in 1..Len(q) : q[i] \in 0..m
  BY LenProperties, EmptySeq
<1>2. Len(Tail(q)) = Len(q) - 1 /\ (\A i \in 1..Len(Tail(q)) : Tail(q)[i] = q[i + 1]) /\ Head(q) = q[1]
  BY HeadTailProperties
<1>3. \A i \in 1..Len(Tail(q)) : i + 1 \in 1..Len(q) /\ 1 < i + 1
  BY <1>1, <1>2
<1>4. \A i \in 1..Len(q) : i # 1 => 1 < i /\ i - 1 \in 1..Len(Tail(q)) /\ Tail(q)[i - 1] = q[i]
  <2> SUFFICES ASSUME NEW i \in 1..Len(q), i # 1
               PROVE  1 < i /\ i - 1 \in 1..Len(Tail(q)) /\ Tail(q)[i - 1] = q[i]
    OBVIOUS
  <2>1. 1 < i /\ i - 1 \in 1..Len(Tail(q)) /\ (i - 1) + 1 = i
    BY <1>1, <1>2
  <2>2. QED
    BY <1>2, <2>1
<1>5. (\A i \in 1..Len(q) : q[i] \in Nat) /\ 1 \in 1..Len(q) /\ \A i, j \in 1..Len(Tail(q)) : i < j => i + 1 < j + 1
  BY <1>1, <1>2
<1>6. QED
  BY <1>2, <1>3, <1>4, <1>5

LEMMA EmptyLine == ASSUME NEW done \in Nat, NEW last \in Nat, InLine(<<>>, done, last), done <= last PROVE done = last
<1>1. Len(<<>>) = 0
  OBVIOUS
<1>2. CASE done < last
  <2>1. done + 1 \in done + 1..last
    BY <1>2
  <2>2. QED
    BY <1>1, <2>1 DEF InLine
<1>3. QED
  BY <1>2

(* Send: the next frame. *)
LEMMA AppendFrame ==
  ASSUME NEW m \in Nat, NEW q \in Seq(0..m), NEW done \in Nat, NEW last \in Nat, last + 1 <= m, done <= last,
         InLine(q, done, last)
  PROVE  InLine(Append(q, last + 1), done, last + 1) /\ (HasPing(q) => HasPing(Append(q, last + 1)))
<1> DEFINE a == Append(q, last + 1)
           n == Len(q)
<1>1. /\ n \in Nat /\ Len(a) = n + 1 /\ \A i \in 1..n : q[i] \in Nat
      /\ \A i \in 1..n + 1 : (i \in 1..n /\ a[i] = q[i]) \/ (i = n + 1 /\ a[i] = last + 1)
      /\ \A i \in 1..n : i \in 1..n + 1 /\ i < n + 1 /\ a[i] = q[i]
      /\ n + 1 \in 1..n + 1 /\ a[n + 1] = last + 1
  <2>1. last + 1 \in 0..m
    OBVIOUS
  <2>2. Longer(q, a, last + 1)
    BY <2>1, AppendPlaces
  <2>3. QED
    BY <2>2 DEF Longer
<1>2. /\ \A k \in done + 1..last : \E i \in 1..n : q[i] = k
      /\ \A i \in 1..n : q[i] # 0 => q[i] \in done + 1..last
      /\ \A i, j \in 1..n : i < j /\ q[i] # 0 /\ q[j] # 0 => q[i] < q[j]
  BY DEF InLine
<1> HIDE DEF a, n
<1>3. \A k \in done + 1..last + 1 : \E i \in 1..n + 1 : a[i] = k
  <2> SUFFICES ASSUME NEW k \in done + 1..last + 1 PROVE \E i \in 1..n + 1 : a[i] = k
    OBVIOUS
  <2>1. CASE k = last + 1
    BY <1>1, <2>1
  <2>2. CASE k # last + 1
    <3>1. PICK i \in 1..n : q[i] = k
      BY <1>2, <2>2
    <3>2. QED
      BY <1>1, <3>1
  <2>3. QED
    BY <2>1, <2>2
<1>4. \A i \in 1..n + 1 : a[i] # 0 => a[i] \in done + 1..last + 1
  <2> SUFFICES ASSUME NEW i \in 1..n + 1, a[i] # 0 PROVE a[i] \in done + 1..last + 1
    OBVIOUS
  <2>1. CASE i \in 1..n /\ a[i] = q[i]
    BY <1>2, <2>1
  <2>2. QED
    BY <1>1, <2>1
<1>5. \A i, j \in 1..n + 1 : i < j /\ a[i] # 0 /\ a[j] # 0 => a[i] < a[j]
  <2> SUFFICES ASSUME NEW i \in 1..n + 1, NEW j \in 1..n + 1, i < j, a[i] # 0, a[j] # 0 PROVE a[i] < a[j]
    OBVIOUS
  <2>1. i \in 1..n
    BY <1>1
  <2>2. a[i] = q[i] /\ q[i] \in done + 1..last
    BY <1>1, <1>2, <2>1
  <2>3. CASE j = n + 1
    BY <1>1, <2>2, <2>3
  <2>4. CASE j \in 1..n
    BY <1>1, <1>2, <2>1, <2>2, <2>4
  <2>5. QED
    BY <1>1, <2>3, <2>4
<1>6. HasPing(q) => HasPing(a)
  BY <1>1 DEF HasPing, n
<1>7. InLine(a, done, last + 1)
  BY <1>1, <1>3, <1>4, <1>5 DEF InLine
<1>8. QED
  BY <1>6, <1>7 DEF a

(* OnPing: a ping among them. *)
LEMMA AppendPing ==
  ASSUME NEW m \in Nat, NEW q \in Seq(0..m), NEW done \in Nat, NEW last \in Nat, InLine(q, done, last)
  PROVE  InLine(Append(q, 0), done, last) /\ HasPing(Append(q, 0))
<1> DEFINE a == Append(q, 0)
           n == Len(q)
<1>1. /\ n \in Nat /\ Len(a) = n + 1 /\ \A i \in 1..n : q[i] \in Nat
      /\ \A i \in 1..n + 1 : (i \in 1..n /\ a[i] = q[i]) \/ (i = n + 1 /\ a[i] = 0)
      /\ \A i \in 1..n : i \in 1..n + 1 /\ i < n + 1 /\ a[i] = q[i]
      /\ n + 1 \in 1..n + 1 /\ a[n + 1] = 0
  <2>1. 0 \in 0..m
    OBVIOUS
  <2>2. Longer(q, a, 0)
    BY <2>1, AppendPlaces
  <2>3. QED
    BY <2>2 DEF Longer
<1>2. /\ \A k \in done + 1..last : \E i \in 1..n : q[i] = k
      /\ \A i \in 1..n : q[i] # 0 => q[i] \in done + 1..last
      /\ \A i, j \in 1..n : i < j /\ q[i] # 0 /\ q[j] # 0 => q[i] < q[j]
  BY DEF InLine
<1> HIDE DEF a, n
<1>3. \A k \in done + 1..last : \E i \in 1..n + 1 : a[i] = k
  <2> SUFFICES ASSUME NEW k \in done + 1..last PROVE \E i \in 1..n + 1 : a[i] = k
    OBVIOUS
  <2>1. PICK i \in 1..n : q[i] = k
    BY <1>2
  <2>2. QED
    BY <1>1, <2>1
<1>4. \A i \in 1..n + 1 : a[i] # 0 => i \in 1..n /\ a[i] = q[i]
  BY <1>1
<1>5. /\ \A i \in 1..n + 1 : a[i] # 0 => a[i] \in done + 1..last
      /\ \A i, j \in 1..n + 1 : i < j /\ a[i] # 0 /\ a[j] # 0 => a[i] < a[j]
  BY <1>2, <1>4
<1>6. QED
  BY <1>1, <1>3, <1>5 DEF InLine, HasPing, a

(* OnWritten: the first in line has gone, and it was the next frame or a ping. *)
LEMMA TailFrame ==
  ASSUME NEW m \in Nat, NEW q \in Seq(0..m), NEW done \in Nat, NEW last \in Nat, InLine(q, done, last), q # <<>>,
         done <= last
  PROVE  /\ Head(q) # 0 => done < last /\ InLine(Tail(q), done + 1, last)
         /\ Head(q) = 0 => InLine(Tail(q), done, last)
         /\ HasPing(q) => Head(q) = 0 \/ HasPing(Tail(q))
<1> DEFINE t == Tail(q)
           n == Len(q)
           l == Len(t)
<1>1. /\ \A i \in 1..n : q[i] \in Nat
      /\ 1 \in 1..n /\ Head(q) = q[1]
      /\ \A i \in 1..l : i + 1 \in 1..n /\ 1 < i + 1 /\ t[i] = q[i + 1]
      /\ \A i, j \in 1..l : i < j => i + 1 < j + 1
      /\ \A i \in 1..n : i # 1 => 1 < i /\ \E j \in 1..l : t[j] = q[i]
  BY TailPlaces
<1>2. /\ \A k \in done + 1..last : \E i \in 1..n : q[i] = k
      /\ \A i \in 1..n : q[i] # 0 => q[i] \in done + 1..last
      /\ \A i, j \in 1..n : i < j /\ q[i] # 0 /\ q[j] # 0 => q[i] < q[j]
  BY DEF InLine
<1>3. HasPing(q) => Head(q) = 0 \/ HasPing(t)
  <2> HIDE DEF t, n, l
  <2>1. (\E i \in 1..n : q[i] = 0) => q[1] = 0 \/ \E j \in 1..l : t[j] = 0
    BY <1>1
  <2>2. QED
    BY <1>1, <2>1 DEF HasPing, n, l
<1>4. \A i, j \in 1..l : i < j /\ t[i] # 0 /\ t[j] # 0 => t[i] < t[j]
  <2> HIDE DEF t, n, l
  <2>1. \A i, j \in 1..l : i < j => i + 1 < j + 1 /\ i + 1 \in 1..n /\ j + 1 \in 1..n /\ t[i] = q[i + 1] /\ t[j] = q[j + 1]
    BY <1>1
  <2>2. SUFFICES ASSUME NEW i \in 1..l, NEW j \in 1..l, i < j, t[i] # 0, t[j] # 0 PROVE t[i] < t[j]
    OBVIOUS
  <2>3. QED
    BY <1>2, <2>1, <2>2
<1>5. \A i \in 1..l : t[i] # 0 => t[i] \in done + 1..last
  <2> HIDE DEF t, n, l
  <2> QED BY <1>1, <1>2
<1> HIDE DEF t, n, l
<1>6. ASSUME q[1] # 0
      PROVE  /\ done < last
             /\ \A k \in done + 2..last : \E i \in 1..l : t[i] = k
             /\ \A i \in 1..l : t[i] # 0 => t[i] \in done + 2..last
  <2>1. q[1] \in done + 1..last
    BY <1>1, <1>2, <1>6
  <2>2. done + 1 \in done + 1..last
    BY <2>1
  <2>3. q[1] = done + 1
    <3>1. PICK i \in 1..n : q[i] = done + 1
      BY <1>2, <2>2
    <3>2. CASE i # 1
      <4>1. 1 \in 1..n /\ 1 < i /\ q[i] # 0
        BY <1>1, <3>1, <3>2
      <4>2. q[1] < q[i]
        BY <1>2, <1>6, <4>1
      <4>3. QED
        BY <2>1, <3>1, <4>2
    <3>3. QED
      BY <3>1, <3>2
  <2>4. \A k \in done + 2..last : \E i \in 1..l : t[i] = k
    <3> SUFFICES ASSUME NEW k \in done + 2..last PROVE \E i \in 1..l : t[i] = k
      OBVIOUS
    <3>1. PICK i \in 1..n : q[i] = k
      BY <1>2
    <3>2. i # 1
      BY <2>3, <3>1
    <3>3. QED
      BY <1>1, <3>1, <3>2
  <2>5. \A i \in 1..l : t[i] # 0 => t[i] \in done + 2..last
    <3> SUFFICES ASSUME NEW i \in 1..l, t[i] # 0 PROVE t[i] \in done + 2..last
      OBVIOUS
    <3>1. t[i] = q[i + 1] /\ i + 1 \in 1..n /\ 1 \in 1..n /\ 1 < i + 1
      BY <1>1
    <3>2. q[1] < q[i + 1]
      BY <1>2, <1>6, <3>1
    <3>3. QED
      BY <1>5, <2>1, <2>3, <3>1, <3>2
  <2>6. QED
    BY <2>1, <2>4, <2>5
<1>7. ASSUME q[1] = 0 PROVE \A k \in done + 1..last : \E i \in 1..l : t[i] = k
  <2> SUFFICES ASSUME NEW k \in done + 1..last PROVE \E i \in 1..l : t[i] = k
    OBVIOUS
  <2>1. PICK i \in 1..n : q[i] = k
    BY <1>2
  <2>2. i # 1
    BY <1>7, <2>1
  <2>3. QED
    BY <1>1, <2>1, <2>2
<1>8. Head(q) # 0 => done < last /\ InLine(t, done + 1, last)
  BY <1>1, <1>4, <1>6 DEF InLine, l
<1>9. Head(q) = 0 => InLine(t, done, last)
  BY <1>1, <1>4, <1>5, <1>7 DEF InLine, l
<1>10. QED
  BY <1>3, <1>8, <1>9 DEF t

-------------------------------------------------------------------------------
(* The inductive invariant of the WebSocket: what holds before it opens, while it is *)
(* open, and after its end.                                                          *)

Fresh ==
  ~open /\ ~finished => /\ ~closing /\ ~shut /\ ~shutting /\ ~writing /\ ~reading
                        /\ queue = <<>> /\ ping = Off /\ silence = Off

\* A connection that is being closed has a frame or the close frame under way.
Up ==
  open => /\ writing <=> queue # <<>>
          /\ silence # Off
          /\ closing => writing \/ shutting
          /\ shut => queue = <<>>

Over ==
  /\ finished <=> told # Untold
  /\ finished => ~open /\ ping = Off /\ silence = Off /\ Len(queue) = (IF writing THEN 1 ELSE 0)

CloseFrame == (shutting => shut) /\ (shut => closing)

Frames == ~finished => InLine(queue, gone, given) /\ gone <= given

\* Before the silence timer of a live server runs out, a ping is due, is queued, or has
\* gone out and is being answered.
Heard ==
  open /\ server = "up" => /\ silence # 0
                           /\ ping = 1 => silence # 1 \/ owed \/ HasPing(queue)
                           /\ ping = Off => closing

SocketIInv == SocketTypeOK /\ Fresh /\ Up /\ Over /\ CloseFrame /\ Frames /\ Heard

LEMMA OffIsNoTime == Off \in Nat /\ Off # 0 /\ Off # 1 /\ \A t \in 0..SilenceTimeout : t # Off
  BY SilenceAssumption DEF Off

LEMMA SocketStarts == SocketInit => SocketIInv
<1> SUFFICES ASSUME SocketInit PROVE SocketIInv
  OBVIOUS
<1>1. SocketTypeOK
  <2>1. queue \in Seq(0..MaxFrames) /\ given \in 0..MaxFrames /\ gone \in 0..MaxFrames
    BY FramesAssumption DEF SocketInit
  <2>2. QED
    BY <2>1 DEF SocketInit, SocketTypeOK
<1>2. Fresh /\ Up /\ Over /\ CloseFrame /\ Heard
  BY FramesAssumption DEF SocketInit, Fresh, Up, Over, CloseFrame, Heard
<1>3. InLine(<<>>, 0, 0)
  BY DEF InLine
<1>4. Frames
  BY <1>3 DEF SocketInit, Frames
<1>5. QED
  BY <1>1, <1>2, <1>4 DEF SocketIInv

(* What the connection ends with: Finish, whoever calls it. *)
LEMMA FinishEnds ==
  ASSUME SocketIInv, ~finished, NEW code \in {"server", "own", "none"}, Finish(code)
  PROVE  /\ finished' /\ ~open' /\ finished' \in BOOLEAN /\ open' \in BOOLEAN
         /\ ping' = Off /\ silence' = Off /\ told' = code /\ code # Untold
         /\ queue' \in Seq(0..MaxFrames) /\ Len(queue') = (IF writing THEN 1 ELSE 0)
<1>1. /\ finished' = TRUE /\ open' = FALSE /\ ping' = Off /\ silence' = Off
      /\ queue' = (IF writing THEN <<Head(queue)>> ELSE <<>>) /\ told' = code
  BY DEF Finish
<1>2. writing => queue # <<>>
  BY DEF SocketIInv, Fresh, Up
<1>3. queue \in Seq(0..MaxFrames)
  BY DEF SocketIInv, SocketTypeOK
<1>4. CASE writing
  <2>1. Head(queue) \in 0..MaxFrames
    BY <1>2, <1>3, <1>4, HeadTailProperties
  <2>2. queue' = <<Head(queue)>>
    BY <1>1, <1>4
  <2>3. <<Head(queue)>> \in Seq(0..MaxFrames) /\ Len(<<Head(queue)>>) = 1
    BY <2>1
  <2>4. queue' \in Seq(0..MaxFrames) /\ Len(queue') = (IF writing THEN 1 ELSE 0)
    BY <1>4, <2>2, <2>3
  <2>5. QED
    BY <1>1, <2>4, FramesAssumption
<1>5. CASE ~writing
  <2>1. queue' \in Seq(0..MaxFrames) /\ Len(queue') = (IF writing THEN 1 ELSE 0)
    BY <1>1, <1>5
  <2>2. QED
    BY <1>1, <2>1, FramesAssumption
<1>6. QED
  BY <1>4, <1>5

LEMMA EndKeeps ==
  ASSUME SocketIInv, ~finished, NEW code \in {"server", "own", "none"}, Finish(code),
         writing' = writing, UNCHANGED <<given, gone, shut, serverVars>>,
         closing' \in BOOLEAN, closing => closing', shutting' \in BOOLEAN, shutting' => shutting,
         reading' \in BOOLEAN, stage' \in Opening \cup {"new", "up", "over"}
  PROVE  SocketIInv'
<1>1. /\ finished' /\ ~open' /\ finished' \in BOOLEAN /\ open' \in BOOLEAN
      /\ ping' = Off /\ silence' = Off /\ told' = code /\ code # Untold
      /\ queue' \in Seq(0..MaxFrames) /\ Len(queue') = (IF writing THEN 1 ELSE 0)
  BY FinishEnds
<1>2. SocketTypeOK'
  BY <1>1 DEF SocketIInv, SocketTypeOK, serverVars
<1>3. Fresh' /\ Up' /\ Frames' /\ Heard'
  BY <1>1 DEF Fresh, Up, Frames, Heard
<1>4. Over'
  BY <1>1 DEF Over, Off
<1>5. CloseFrame'
  BY DEF SocketIInv, CloseFrame
<1>6. QED
  BY <1>2, <1>3, <1>4, <1>5 DEF SocketIInv

(* What leaves the loop, the timers and the user alone. *)
LEMMA IdleKeeps ==
  ASSUME SocketIInv, UNCHANGED <<loopVars, timerVars, toldVars>>,
         stage' \in Opening \cup {"new", "up", "over"},
         server' \in {"up", "closed", "lost", "vanished"}, owed' \in BOOLEAN,
         server' = "up" => UNCHANGED serverVars
  PROVE  SocketIInv'
<1>1. SocketTypeOK'
  BY DEF SocketIInv, SocketTypeOK, loopVars, timerVars, toldVars
<1>2. Fresh' /\ Up' /\ Over' /\ CloseFrame'
  BY DEF SocketIInv, Fresh, Up, Over, CloseFrame, loopVars, timerVars, toldVars, Off
<1>3. Frames'
  BY DEF SocketIInv, Frames, loopVars, toldVars
<1>4. Heard'
  BY DEF SocketIInv, Heard, loopVars, timerVars, serverVars, Off
<1>5. QED
  BY <1>1, <1>2, <1>3, <1>4 DEF SocketIInv

(* DoWrite on an open connection. *)
LEMMA DoWriteDoes ==
  ASSUME SocketIInv, ~finished, open, NEW q, NEW busy \in BOOLEAN, NEW toClose \in BOOLEAN,
         DoWrite(q, busy, toClose)
  PROVE  /\ queue' = q
         /\ writing' \in BOOLEAN /\ shutting' \in BOOLEAN /\ shut' \in BOOLEAN
         /\ writing' <=> busy \/ q # <<>>
         /\ shutting' <=> shutting \/ (~busy /\ q = <<>> /\ toClose)
         /\ shut' <=> shut \/ shutting'
<1>1. /\ queue' = q
      /\ writing' = (busy \/ (~busy /\ ~finished /\ open /\ q # <<>>))
      /\ shutting' = (shutting \/ (~busy /\ ~finished /\ open /\ q = <<>> /\ toClose))
      /\ shut' = (shut \/ shutting')
  BY Zenon DEF DoWrite
<1>2. writing' \in BOOLEAN /\ shutting' \in BOOLEAN /\ shut' \in BOOLEAN
  BY <1>1
<1>3. writing' <=> busy \/ q # <<>>
  BY <1>1
<1>4. shutting' <=> shutting \/ (~busy /\ q = <<>> /\ toClose)
  BY <1>1
<1>5. shut' <=> shut \/ shutting'
  BY <1>1
<1>6. QED
  BY <1>1, <1>2, <1>3, <1>4, <1>5

(* Send: the frame is queued, and one is being written. *)
LEMMA SendKeeps == ASSUME SocketIInv, Send PROVE SocketIInv'
<1>1. /\ given < MaxFrames /\ open /\ ~finished /\ ~closing /\ given' = given + 1
      /\ open' = open /\ closing' = closing /\ finished' = finished /\ gone' = gone /\ told' = told
      /\ stage' = stage /\ reading' = reading /\ UNCHANGED <<timerVars, serverVars>>
  BY DEF Send
<1>2. /\ queue \in Seq(0..MaxFrames) /\ given \in Nat /\ gone \in Nat /\ gone <= given
      /\ MaxFrames \in Nat /\ given + 1 <= MaxFrames /\ given + 1 \in 0..MaxFrames
  BY <1>1, FramesAssumption DEF SocketIInv, SocketTypeOK, Frames
<1>3. /\ InLine(Append(queue, given + 1), gone, given + 1)
      /\ HasPing(queue) => HasPing(Append(queue, given + 1))
  BY <1>1, <1>2, AppendFrame DEF SocketIInv, Frames
<1>4. Append(queue, given + 1) # <<>> /\ Append(queue, given + 1) \in Seq(0..MaxFrames)
  BY <1>2, AppendProperties
<1>5. writing \in BOOLEAN /\ DoWrite(Append(queue, given + 1), writing, FALSE)
  BY <1>1 DEF Send, SocketIInv, SocketTypeOK
<1>6. /\ queue' = Append(queue, given + 1)
      /\ writing' \in BOOLEAN /\ shutting' \in BOOLEAN /\ shut' \in BOOLEAN
      /\ writing' /\ (shutting' <=> shutting) /\ (shut' <=> shut \/ shutting')
  BY <1>1, <1>4, <1>5, DoWriteDoes
<1>7. ~shut' /\ ~shutting'
  BY <1>1, <1>6 DEF SocketIInv, CloseFrame
<1>8. SocketTypeOK'
  <2>1. queue' \in Seq(0..MaxFrames) /\ given' \in 0..MaxFrames
    BY <1>1, <1>2, <1>4, <1>6
  <2>2. QED
    BY <1>1, <1>6, <2>1 DEF SocketIInv, SocketTypeOK, timerVars, serverVars
<1>9. Fresh' /\ CloseFrame'
  BY <1>1, <1>7 DEF Fresh, CloseFrame
<1>10. Up'
  <2>1. queue' # <<>>
    BY <1>4, <1>6
  <2>2. QED
    BY <1>1, <1>6, <1>7, <2>1 DEF SocketIInv, Up, timerVars, Off
<1>11. Over'
  BY <1>1 DEF SocketIInv, Over
<1>12. Frames'
  BY <1>1, <1>2, <1>3, <1>6 DEF Frames
<1>13. Heard'
  BY <1>1, <1>3, <1>6 DEF SocketIInv, Heard, timerVars, serverVars, Off
<1>14. QED
  BY <1>8, <1>9, <1>10, <1>11, <1>12, <1>13 DEF SocketIInv

(* Close: an open connection writes what is queued, and then the close frame. *)
LEMMA CloseKeeps == ASSUME SocketIInv, Close PROVE SocketIInv'
<1>1. /\ ~finished /\ ~closing /\ stage' = stage /\ reading' = reading /\ closing' = TRUE
      /\ given' = given /\ gone' = gone /\ UNCHANGED serverVars
  BY DEF Close
<1>2. CASE ~open
  <2>1. Finish("own") /\ UNCHANGED <<writing, shutting, shut>>
    BY <1>2 DEF Close
  <2>2. /\ stage' \in Opening \cup {"new", "up", "over"} /\ reading' \in BOOLEAN /\ shutting' \in BOOLEAN
        /\ (shutting' => shutting)
    BY <1>1, <2>1 DEF SocketIInv, SocketTypeOK
  <2>3. QED
    BY <1>1, <2>1, <2>2, EndKeeps
<1>3. CASE open
  <2>1. DoWrite(queue, writing, TRUE) /\ UNCHANGED <<open, finished, timerVars, told>> /\ writing \in BOOLEAN
    BY <1>3 DEF Close, SocketIInv, SocketTypeOK
  <2>2. /\ queue' = queue
        /\ writing' \in BOOLEAN /\ shutting' \in BOOLEAN /\ shut' \in BOOLEAN
        /\ writing' <=> writing \/ queue # <<>>
        /\ shutting' <=> shutting \/ (~writing /\ queue = <<>>)
        /\ shut' <=> shut \/ shutting'
    BY <1>1, <1>3, <2>1, DoWriteDoes
  <2>3. ~shut /\ ~shutting /\ (writing <=> queue # <<>>) /\ silence # Off
    BY <1>1, <1>3 DEF SocketIInv, CloseFrame, Up
  <2>4. SocketTypeOK'
    BY <1>1, <2>1, <2>2 DEF SocketIInv, SocketTypeOK, timerVars, serverVars
  <2>5. Fresh' /\ CloseFrame'
    BY <1>1, <1>3, <2>1, <2>2 DEF Fresh, CloseFrame
  <2>6. Up'
    BY <1>1, <2>1, <2>2, <2>3 DEF Up, timerVars, Off
  <2>7. Over'
    BY <1>1, <2>1 DEF SocketIInv, Over
  <2>8. Frames'
    BY <1>1, <2>1, <2>2 DEF SocketIInv, Frames
  <2>9. Heard'
    BY <1>1, <1>3, <2>1, <2>2 DEF SocketIInv, Heard, timerVars, serverVars, Off
  <2>10. QED
    BY <2>4, <2>5, <2>6, <2>7, <2>8, <2>9 DEF SocketIInv
<1>4. QED
  BY <1>2, <1>3

(* Opening: nothing was queued before, and both timers start. *)
LEMMA OpeningKeeps ==
  ASSUME SocketIInv, Open \/ OnResolve \/ OnConnect \/ OnTlsHandshake \/ HandlerDropped
  PROVE  SocketIInv'
<1>1. UNCHANGED <<loopVars, timerVars, serverVars, toldVars>> /\ stage' \in Opening \cup {"new", "up", "over"}
  BY DEF Open, OnResolve, OnConnect, OnTlsHandshake, HandlerDropped, Opening
<1>2. server' \in {"up", "closed", "lost", "vanished"} /\ owed' \in BOOLEAN
  BY <1>1 DEF SocketIInv, SocketTypeOK, serverVars
<1>3. QED
  BY <1>1, <1>2, IdleKeeps

LEMMA OpenFailsKeeps == ASSUME SocketIInv, OpenFails PROVE SocketIInv'
<1>1. /\ ~finished /\ Finish("none") /\ stage' = "over"
      /\ UNCHANGED <<closing, writing, reading, shutting, serverVars, given, gone, shut>>
  BY DEF OpenFails
<1>2. closing' \in BOOLEAN /\ shutting' \in BOOLEAN /\ reading' \in BOOLEAN
  BY <1>1 DEF SocketIInv, SocketTypeOK
<1>3. QED
  BY <1>1, <1>2, EndKeeps

LEMMA HandshakeKeeps == ASSUME SocketIInv, OnHandshake PROVE SocketIInv'
<1>1. /\ ~finished /\ stage' = "up" /\ open' = TRUE /\ reading' = TRUE
      /\ ping' = 1 /\ silence' = SilenceTimeout
      /\ UNCHANGED <<closing, finished, writing, queue, shutting, serverVars, toldVars>>
  BY DEF OnHandshake
<1>2. SilenceTimeout \in 0..SilenceTimeout /\ SilenceTimeout # Off /\ SilenceTimeout # 0 /\ SilenceTimeout # 1
      /\ Off # 1
  BY SilenceAssumption DEF Off
<1>3. SocketTypeOK'
  BY <1>1, <1>2 DEF SocketIInv, SocketTypeOK, serverVars, toldVars, Off
<1>4. Fresh' /\ CloseFrame' /\ Over'
  BY <1>1 DEF SocketIInv, Fresh, CloseFrame, Over, toldVars
<1>5. Frames'
  BY <1>1 DEF SocketIInv, Frames, toldVars
<1>6. (writing <=> queue # <<>>) /\ (closing => writing \/ shutting) /\ (shut => queue = <<>>)
  BY <1>1 DEF SocketIInv, Fresh, Up
<1>7. silence' # Off /\ Off' = Off
  BY <1>1, <1>2 DEF Off
<1>8. Up'
  BY <1>1, <1>6, <1>7 DEF Up, toldVars
<1>9. Heard'
  BY <1>1, <1>2 DEF Heard, Off
<1>10. QED
  BY <1>3, <1>4, <1>5, <1>8, <1>9 DEF SocketIInv

(* A frame puts the silence timer back. *)
LEMMA FrameKeeps == ASSUME SocketIInv, OnFrame PROVE SocketIInv'
<1>1. /\ ~finished /\ owed' \in {owed, FALSE} /\ silence' = SilenceTimeout /\ ping' = ping
      /\ UNCHANGED <<stage, loopVars, server, toldVars>>
  BY DEF OnFrame, ResetSilenceTimer
<1>2. SilenceTimeout \in 0..SilenceTimeout /\ SilenceTimeout # Off /\ SilenceTimeout # 0 /\ SilenceTimeout # 1
  BY SilenceAssumption DEF Off
<1>3. SocketTypeOK'
  <2>1. owed' \in BOOLEAN /\ silence' \in 0..SilenceTimeout
    BY <1>1, <1>2 DEF SocketIInv, SocketTypeOK
  <2>2. QED
    BY <1>1, <2>1 DEF SocketIInv, SocketTypeOK, loopVars, toldVars, Off
<1>4. open
  BY <1>1 DEF OnFrame, SocketIInv, Fresh
<1>5. open' /\ silence' # Off /\ Off' = Off
  BY <1>1, <1>2, <1>4 DEF loopVars, Off
<1>6. Fresh' /\ CloseFrame'
  BY <1>1, <1>5 DEF SocketIInv, Fresh, CloseFrame, loopVars, toldVars
<1>7. Up'
  BY <1>1, <1>4, <1>5 DEF SocketIInv, Up, loopVars, toldVars
<1>8. Over'
  BY <1>1 DEF SocketIInv, Over, loopVars, toldVars
<1>9. Frames'
  BY <1>1 DEF SocketIInv, Frames, loopVars, toldVars
<1>10. Heard'
  BY <1>1, <1>2, <1>4, <1>5 DEF SocketIInv, Heard, loopVars
<1>11. QED
  BY <1>3, <1>6, <1>7, <1>8, <1>9, <1>10 DEF SocketIInv

LEMMA ReadErrorKeeps == ASSUME SocketIInv, OnReadError PROVE SocketIInv'
<1> DEFINE code == IF server = "closed" \/ (shut /\ server = "up") THEN "server" ELSE IF closing THEN "own" ELSE "none"
<1>1. /\ reading' = FALSE /\ Finish(code)
      /\ UNCHANGED <<stage, closing, writing, shutting, serverVars, given, gone, shut>>
  BY DEF OnReadError
<1>2. CASE ~finished
  <2>1. code \in {"server", "own", "none"}
    OBVIOUS
  <2>2. /\ closing' \in BOOLEAN /\ shutting' \in BOOLEAN /\ reading' \in BOOLEAN
        /\ stage' \in Opening \cup {"new", "up", "over"}
    BY <1>1 DEF SocketIInv, SocketTypeOK
  <2> HIDE DEF code
  <2>3. QED
    BY <1>1, <1>2, <2>1, <2>2, EndKeeps
<1>3. CASE finished
  <2>1. UNCHANGED <<open, finished, queue, timerVars, told>>
    BY <1>1, <1>3 DEF Finish
  <2>2. SocketTypeOK'
    <3>1. reading' \in BOOLEAN /\ writing' \in BOOLEAN
      BY <1>1 DEF SocketIInv, SocketTypeOK
    <3>2. QED
      BY <1>1, <2>1, <3>1 DEF SocketIInv, SocketTypeOK, serverVars, timerVars, Off
  <2>3. Fresh' /\ Up' /\ Frames' /\ Heard'
    BY <1>1, <1>3, <2>1 DEF SocketIInv, Fresh, Up, Over, Frames, Heard
  <2>4. Over' /\ CloseFrame'
    BY <1>1, <2>1 DEF SocketIInv, Over, CloseFrame, timerVars, Off
  <2>5. QED
    BY <2>2, <2>3, <2>4 DEF SocketIInv
<1>4. QED
  BY <1>2, <1>3

(* OnWritten: the next frame, a ping, or, when the queue is empty, the close frame. *)
LEMMA WrittenQueue ==
  ASSUME SocketIInv, OnWritten
  PROVE  /\ open /\ ~finished /\ queue # <<>> /\ ~shut /\ ~shutting
         /\ Tail(queue) \in Seq(0..MaxFrames)
         /\ gone' \in Nat /\ gone' <= given /\ gone \in Nat /\ given \in Nat
         /\ InLine(Tail(queue), gone', given)
         /\ HasPing(queue) => owed' \/ HasPing(Tail(queue))
         /\ owed => owed'
         /\ owed' \in BOOLEAN
         /\ gone' = gone \/ gone' = gone + 1
<1>1. writing /\ ~finished /\ open
  BY DEF OnWritten, SocketIInv, Fresh
<1>2. queue # <<>> /\ ~shut /\ ~shutting
  BY <1>1 DEF SocketIInv, Up, CloseFrame
<1>3. /\ queue \in Seq(0..MaxFrames) /\ MaxFrames \in Nat /\ gone \in Nat /\ given \in Nat
      /\ InLine(queue, gone, given) /\ gone <= given
  BY <1>1, FramesAssumption DEF SocketIInv, SocketTypeOK, Frames
<1>4. /\ Head(queue) # 0 => gone < given /\ InLine(Tail(queue), gone + 1, given)
      /\ Head(queue) = 0 => InLine(Tail(queue), gone, given)
      /\ HasPing(queue) => Head(queue) = 0 \/ HasPing(Tail(queue))
  BY <1>2, <1>3, TailFrame
<1>5. Tail(queue) \in Seq(0..MaxFrames)
  BY <1>2, <1>3, HeadTailProperties
<1>6. gone' = (IF Head(queue) = 0 THEN gone ELSE gone + 1) /\ owed' = (owed \/ Head(queue) = 0)
  BY DEF OnWritten
<1>7. /\ gone' \in Nat /\ gone' <= given
      /\ InLine(Tail(queue), gone', given)
      /\ gone' = gone \/ gone' = gone + 1
  <2>1. CASE Head(queue) = 0
    BY <1>3, <1>4, <1>6, <2>1
  <2>2. CASE Head(queue) # 0
    <3>1. gone' = gone + 1 /\ gone + 1 \in Nat /\ gone + 1 <= given
      BY <1>3, <1>4, <1>6, <2>2
    <3>2. QED
      BY <1>4, <2>2, <3>1
  <2>3. QED
    BY <2>1, <2>2
<1>8. /\ HasPing(queue) => owed' \/ HasPing(Tail(queue))
      /\ owed => owed'
      /\ owed' \in BOOLEAN
  BY <1>4, <1>6
<1>9. QED
  BY <1>1, <1>2, <1>3, <1>5, <1>7, <1>8

LEMMA WrittenKeeps == ASSUME SocketIInv, OnWritten PROVE SocketIInv'
<1>1. /\ DoWrite(Tail(queue), FALSE, closing) /\ closing \in BOOLEAN
      /\ UNCHANGED <<stage, open, closing, finished, reading, timerVars, server, given, told>>
  BY DEF OnWritten, SocketIInv, SocketTypeOK
<1>2. /\ open /\ ~finished /\ queue # <<>> /\ ~shut /\ ~shutting
      /\ Tail(queue) \in Seq(0..MaxFrames)
      /\ gone' \in Nat /\ gone' <= given
      /\ InLine(Tail(queue), gone', given)
      /\ HasPing(queue) => owed' \/ HasPing(Tail(queue))
      /\ owed => owed'
      /\ owed' \in BOOLEAN
  BY WrittenQueue
<1>3. /\ queue' = Tail(queue)
      /\ writing' \in BOOLEAN /\ shutting' \in BOOLEAN /\ shut' \in BOOLEAN
      /\ writing' <=> queue' # <<>>
      /\ shutting' <=> queue' = <<>> /\ closing
      /\ shut' <=> shutting'
  <2>1. FALSE \in BOOLEAN
    OBVIOUS
  <2>2. /\ queue' = Tail(queue)
        /\ writing' \in BOOLEAN /\ shutting' \in BOOLEAN /\ shut' \in BOOLEAN
        /\ writing' <=> FALSE \/ Tail(queue) # <<>>
        /\ shutting' <=> shutting \/ (~FALSE /\ Tail(queue) = <<>> /\ closing)
        /\ shut' <=> shut \/ shutting'
    BY <1>1, <1>2, <2>1, DoWriteDoes
  <2>3. QED
    BY <1>2, <2>2
<1>4. SocketTypeOK'
  <2>1. gone' \in 0..MaxFrames /\ queue' \in Seq(0..MaxFrames)
    BY <1>2, <1>3, FramesAssumption DEF SocketIInv, SocketTypeOK
  <2>2. QED
    BY <1>1, <1>2, <1>3, <2>1 DEF SocketIInv, SocketTypeOK, timerVars
<1>5. Fresh' /\ CloseFrame'
  BY <1>1, <1>2, <1>3 DEF Fresh, CloseFrame
<1>6. Up'
  BY <1>1, <1>2, <1>3 DEF SocketIInv, Up, timerVars, Off
<1>7. Over'
  BY <1>1, <1>2 DEF SocketIInv, Over
<1>8. Frames'
  BY <1>1, <1>2, <1>3 DEF Frames
<1>9. Heard'
  BY <1>1, <1>2, <1>3 DEF SocketIInv, Heard, timerVars, Off
<1>10. QED
  BY <1>4, <1>5, <1>6, <1>7, <1>8, <1>9 DEF SocketIInv

LEMMA WriteErrorKeeps == ASSUME SocketIInv, OnWriteError PROVE SocketIInv'
<1>1. /\ writing' = FALSE /\ UNCHANGED <<stage, closing, reading, shutting, serverVars, given, gone, shut>>
      /\ queue' = <<>> /\ <<>> \in Seq(0..MaxFrames) /\ Len(<<>>) = 0
  BY DEF OnWriteError
<1>2. CASE finished
  <2>1. UNCHANGED <<open, finished, timerVars, told>>
    BY <1>2 DEF OnWriteError
  <2>2. SocketTypeOK'
    <3>1. reading' \in BOOLEAN /\ writing' \in BOOLEAN
      BY <1>1 DEF SocketIInv, SocketTypeOK
    <3>2. QED
      BY <1>1, <2>1, <3>1 DEF SocketIInv, SocketTypeOK, serverVars, timerVars, Off
  <2>3. Fresh' /\ Up' /\ Frames' /\ Heard'
    BY <1>1, <1>2, <2>1 DEF SocketIInv, Fresh, Up, Over, Frames, Heard
  <2>4. Over' /\ CloseFrame'
    BY <1>1, <2>1 DEF SocketIInv, Over, CloseFrame, timerVars, Off
  <2>5. QED
    BY <2>2, <2>3, <2>4 DEF SocketIInv
<1>3. CASE ~finished
  <2>1. /\ finished' = TRUE /\ open' = FALSE /\ ping' = Off /\ silence' = Off /\ told' = "none"
        /\ "none" # Untold /\ Off' = Off
    BY <1>3, FramesAssumption DEF OnWriteError, Off
  <2>2. SocketTypeOK'
    BY <1>1, <2>1 DEF SocketIInv, SocketTypeOK, serverVars
  <2>3. Fresh' /\ Up' /\ Frames' /\ Heard'
    BY <2>1 DEF Fresh, Up, Frames, Heard
  <2>4. Over' /\ CloseFrame'
    BY <1>1, <2>1 DEF SocketIInv, Over, CloseFrame
  <2>5. QED
    BY <2>2, <2>3, <2>4 DEF SocketIInv
<1>4. QED
  BY <1>2, <1>3

LEMMA ShutKeeps == ASSUME SocketIInv, OnShut PROVE SocketIInv'
<1>1. /\ shutting /\ shutting' = FALSE /\ Finish("own")
      /\ UNCHANGED <<stage, closing, writing, reading, serverVars, given, gone, shut>>
  BY DEF OnShut
<1>2. CASE ~finished
  <2>1. /\ closing' \in BOOLEAN /\ shutting' \in BOOLEAN /\ reading' \in BOOLEAN /\ (shutting' => shutting)
        /\ stage' \in Opening \cup {"new", "up", "over"}
    BY <1>1 DEF SocketIInv, SocketTypeOK
  <2>2. QED
    BY <1>1, <1>2, <2>1, EndKeeps
<1>3. CASE finished
  <2>1. UNCHANGED <<open, finished, queue, timerVars, told>> /\ shutting' \in BOOLEAN
    BY <1>1, <1>3 DEF Finish
  <2>2. SocketTypeOK'
    BY <1>1, <2>1 DEF SocketIInv, SocketTypeOK, serverVars, timerVars, Off
  <2>3. Fresh' /\ Up' /\ Frames' /\ Heard'
    BY <1>1, <1>3, <2>1 DEF SocketIInv, Fresh, Up, Over, Frames, Heard
  <2>4. Over' /\ CloseFrame'
    BY <1>1, <2>1 DEF SocketIInv, Over, CloseFrame, timerVars, Off
  <2>5. QED
    BY <2>2, <2>3, <2>4 DEF SocketIInv
<1>4. QED
  BY <1>2, <1>3

(* The timers: they run on an open connection only. *)
LEMMA TimersRun ==
  ASSUME SocketIInv, ping = 0 \/ silence = 0
  PROVE  open /\ ~finished
  BY OffIsNoTime DEF SocketIInv, Over, Fresh

LEMMA PingKeeps == ASSUME SocketIInv, OnPing PROVE SocketIInv'
<1>1. /\ ping = 0 /\ UNCHANGED <<stage, open, closing, finished, reading, silence, serverVars, given, gone, told>>
  BY DEF OnPing
<1>2. open /\ ~finished /\ silence # Off
  BY <1>1, TimersRun DEF SocketIInv, Up
<1>3. CASE closing
  <2>1. ping' = Off /\ UNCHANGED <<writing, queue, shutting, shut>> /\ Off' = Off /\ Off # 1
    BY <1>3, OffIsNoTime DEF OnPing, Off
  <2>2. SocketTypeOK'
    BY <1>1, <2>1 DEF SocketIInv, SocketTypeOK, serverVars
  <2>3. Fresh' /\ Up' /\ CloseFrame'
    BY <1>1, <1>2, <2>1 DEF SocketIInv, Fresh, Up, CloseFrame
  <2>4. Over' /\ Frames'
    BY <1>1, <1>2, <2>1 DEF SocketIInv, Over, Frames
  <2>5. Heard'
    BY <1>1, <1>2, <1>3, <2>1 DEF SocketIInv, Heard, serverVars
  <2>6. QED
    BY <2>2, <2>3, <2>4, <2>5 DEF SocketIInv
<1>4. CASE ~closing
  <2>1. /\ ping' = 1 /\ DoWrite(Append(queue, 0), writing, FALSE) /\ writing \in BOOLEAN /\ Off' = Off /\ Off # 1
    BY <1>4, OffIsNoTime DEF OnPing, SocketIInv, SocketTypeOK, Off
  <2>2. queue \in Seq(0..MaxFrames) /\ gone \in Nat /\ given \in Nat /\ InLine(queue, gone, given) /\ MaxFrames \in Nat
    BY <1>2, FramesAssumption DEF SocketIInv, SocketTypeOK, Frames
  <2>3. InLine(Append(queue, 0), gone, given) /\ HasPing(Append(queue, 0))
    BY <2>2, AppendPing
  <2>4. Append(queue, 0) # <<>> /\ Append(queue, 0) \in Seq(0..MaxFrames)
    BY <2>2, AppendProperties
  <2>5. /\ queue' = Append(queue, 0)
        /\ writing' \in BOOLEAN /\ shutting' \in BOOLEAN /\ shut' \in BOOLEAN
        /\ writing' /\ (shutting' <=> shutting) /\ (shut' <=> shut \/ shutting')
    BY <1>2, <2>1, <2>4, DoWriteDoes
  <2>6. ~shut' /\ ~shutting' /\ queue' # <<>>
    BY <1>4, <2>4, <2>5 DEF SocketIInv, CloseFrame
  <2>7. SocketTypeOK'
    <3>1. queue' \in Seq(0..MaxFrames)
      BY <2>4, <2>5
    <3>2. QED
      BY <1>1, <2>1, <2>5, <3>1 DEF SocketIInv, SocketTypeOK, serverVars
  <2>8. Fresh' /\ Up' /\ CloseFrame'
    BY <1>1, <1>2, <1>4, <2>1, <2>5, <2>6 DEF Fresh, Up, CloseFrame
  <2>9. Over'
    BY <1>1, <1>2, <2>1 DEF SocketIInv, Over
  <2>10. Frames'
    BY <1>1, <2>3, <2>5 DEF SocketIInv, Frames
  <2>11. Heard'
    BY <1>1, <1>2, <2>1, <2>3, <2>5 DEF SocketIInv, Heard, serverVars
  <2>12. QED
    BY <2>7, <2>8, <2>9, <2>10, <2>11 DEF SocketIInv
<1>5. QED
  BY <1>3, <1>4

LEMMA SilenceKeeps == ASSUME SocketIInv, OnSilence PROVE SocketIInv'
<1>1. /\ silence = 0 /\ Finish("none")
      /\ UNCHANGED <<stage, closing, writing, reading, shutting, serverVars, given, gone, shut>>
  BY DEF OnSilence
<1>2. ~finished
  BY <1>1, TimersRun
<1>3. /\ closing' \in BOOLEAN /\ shutting' \in BOOLEAN /\ reading' \in BOOLEAN
      /\ stage' \in Opening \cup {"new", "up", "over"}
  BY <1>1 DEF SocketIInv, SocketTypeOK
<1>4. QED
  BY <1>1, <1>2, <1>3, EndKeeps

(* Time: a live server has answered what a ping interval ago was sent. *)
LEMMA TickKeeps == ASSUME SocketIInv, Tick PROVE SocketIInv'
<1>1. /\ open /\ ping # 0 /\ silence # 0
      /\ server = "up" => ~writing /\ ~owed /\ ~shutting
      /\ ping' = (IF ping = Off THEN Off ELSE ping - 1) /\ silence' = silence - 1
      /\ UNCHANGED <<stage, loopVars, serverVars, toldVars>> /\ Off' = Off
  BY DEF Tick, Prompt, Off
<1>2. ~finished /\ silence # Off
  BY <1>1 DEF SocketIInv, Over, Up
<1>3. ping \in {1, Off} /\ silence \in 1..SilenceTimeout
  BY <1>1, <1>2, SilenceAssumption DEF SocketIInv, SocketTypeOK
<1>4. ping' \in {0, Off} /\ silence' \in 0..SilenceTimeout /\ silence' # Off /\ (ping' = Off => ping = Off)
  BY <1>1, <1>3, OffIsNoTime, SilenceAssumption
<1>5. SocketTypeOK'
  BY <1>1, <1>4 DEF SocketIInv, SocketTypeOK, loopVars, serverVars, toldVars
<1>6. Fresh' /\ CloseFrame'
  BY <1>1 DEF SocketIInv, Fresh, CloseFrame, loopVars, toldVars
<1>7. Up'
  BY <1>1, <1>4 DEF SocketIInv, Up, loopVars, toldVars
<1>8. Over'
  BY <1>1, <1>2 DEF SocketIInv, Over, loopVars, toldVars
<1>9. Frames'
  BY <1>1 DEF SocketIInv, Frames, loopVars, toldVars
<1>10. server = "up" => queue = <<>> /\ ~HasPing(queue) /\ ~closing
  <2>1. ~HasPing(<<>>)
    BY DEF HasPing
  <2>2. QED
    BY <1>1, <2>1 DEF SocketIInv, Up
<1>11. server = "up" => ping = 1 /\ silence # 1
  BY <1>1, <1>3, <1>10 DEF SocketIInv, Heard
<1>12. Heard'
  <2>1. server = "up" => ping' = 0 /\ silence' # 0
    BY <1>1, <1>3, <1>11, OffIsNoTime, SilenceAssumption
  <2>2. QED
    BY <1>1, <2>1, OffIsNoTime DEF Heard, serverVars
<1>13. QED
  BY <1>5, <1>6, <1>7, <1>8, <1>9, <1>12 DEF SocketIInv

LEMMA ServerEndsKeeps == ASSUME SocketIInv, ServerEnds PROVE SocketIInv'
<1>1. /\ UNCHANGED <<stage, loopVars, timerVars, toldVars>> /\ owed' = FALSE
      /\ server' \in {"closed", "lost", "vanished"}
  BY DEF ServerEnds
<1>2. /\ stage' \in Opening \cup {"new", "up", "over"} /\ owed' \in BOOLEAN
      /\ server' \in {"up", "closed", "lost", "vanished"} /\ server' # "up"
  BY <1>1 DEF SocketIInv, SocketTypeOK
<1>3. QED
  BY <1>1, <1>2, IdleKeeps

LEMMA SocketKeeps == ASSUME SocketIInv, SocketStep PROVE SocketIInv'
  BY OpeningKeeps, OpenFailsKeeps, HandshakeKeeps, SendKeeps, WrittenKeeps, WriteErrorKeeps, FrameKeeps,
     ReadErrorKeeps, CloseKeeps, ShutKeeps, PingKeeps, SilenceKeeps, TickKeeps, ServerEndsKeeps
  DEF SocketStep, OpenEnds, WriteEnds

-------------------------------------------------------------------------------
(* The request for a token, and LiveKit. *)

HttpIInv == HttpTypeOK /\ replies = (IF request = "done" THEN 1 ELSE 0)

LEMMA HttpKeeps == ASSUME HttpIInv, HttpStep \/ UNCHANGED httpVars PROVE HttpIInv'
<1>1. ASSUME NEW response \in {"ok", "refused", "failed"}, request # "done", Complete(response)
      PROVE  HttpIInv'
  <2>1. replies = 0 /\ replies' = 1 /\ request' = "done" /\ reply' = response
    BY <1>1 DEF HttpIInv, Complete
  <2>2. deadline' \in BOOLEAN
    BY <1>1 DEF Complete
  <2>3. QED
    BY <2>1, <2>2 DEF HttpIInv, HttpTypeOK
<1>2. CASE HttpSend \/ HttpResolveFails \/ HttpRead \/ HttpFails
  <2>1. CASE request = "none" /\ request' = "resolve" /\ UNCHANGED <<deadline, replies, reply>>
    BY <2>1 DEF HttpIInv, HttpTypeOK
  <2>2. QED
    BY <1>1, <1>2, <2>1 DEF HttpSend, HttpResolveFails, HttpRead, HttpFails
<1>3. CASE HttpResolved \/ HttpConnected \/ HttpSecured \/ HttpWritten
  BY <1>3 DEF HttpIInv, HttpTypeOK, HttpResolved, HttpConnected, HttpSecured, HttpWritten
<1>4. CASE UNCHANGED httpVars
  BY <1>4 DEF HttpIInv, HttpTypeOK, httpVars
<1>5. QED
  BY <1>2, <1>3, <1>4 DEF HttpStep

-------------------------------------------------------------------------------
(* A word that is queued before another. *)

Queued(word, q) == \E i \in 1..Len(q) : q[i] = word
Precedes(q) == \A i \in 1..Len(q) : q[i] = "offer" => \E j \in 1..Len(q) : j < i /\ q[j] = "tracks"

LEMMA AppendWord ==
  ASSUME NEW q \in Seq(Words), NEW word \in Words
  PROVE  /\ Append(q, word) \in Seq(Words)
         /\ Queued("tracks", q) => Queued("tracks", Append(q, word))
         /\ Queued(word, Append(q, word))
         /\ Precedes(q) /\ (word = "offer" => Queued("tracks", q)) => Precedes(Append(q, word))
<1> DEFINE a == Append(q, word)
           n == Len(q)
<1>1. a \in Seq(Words) /\ Len(a) = n + 1 /\ a[n + 1] = word /\ \A i \in 1..n : a[i] = q[i]
  BY AppendProperties
<1>2. n \in Nat
  BY LenProperties
<1>3. n + 1 \in 1..n + 1 /\ \A i \in 1..n : i \in 1..n + 1 /\ i < n + 1
  BY <1>2
<1>4. /\ Queued("tracks", q) => \E i \in 1..n : q[i] = "tracks"
      /\ Precedes(q) => \A i \in 1..n : q[i] = "offer" => \E j \in 1..n : j < i /\ q[j] = "tracks"
  BY DEF Queued, Precedes
<1> HIDE DEF a, n
<1>5. (\E i \in 1..n : q[i] = "tracks") => Queued("tracks", a)
  BY <1>1, <1>3 DEF Queued
<1>6. Queued(word, a)
  BY <1>1, <1>3 DEF Queued
<1>7. ASSUME Precedes(q), word = "offer" => \E j \in 1..n : q[j] = "tracks" PROVE Precedes(a)
  <2>1. SUFFICES ASSUME NEW i \in 1..n + 1, a[i] = "offer" PROVE \E j \in 1..n + 1 : j < i /\ a[j] = "tracks"
    BY <1>1 DEF Precedes
  <2>2. CASE i \in 1..n
    <3>1. q[i] = "offer"
      BY <1>1, <2>1, <2>2
    <3>2. PICK j \in 1..n : j < i /\ q[j] = "tracks"
      BY <1>4, <1>7, <2>2, <3>1
    <3>3. QED
      BY <1>1, <1>3, <3>2
  <2>3. CASE i = n + 1
    <3>1. PICK j \in 1..n : q[j] = "tracks"
      BY <1>1, <1>7, <2>1, <2>3
    <3>2. QED
      BY <1>1, <1>3, <2>3, <3>1
  <2>4. QED
    BY <1>2, <2>2, <2>3
<1>8. QED
  BY <1>1, <1>4, <1>5, <1>6, <1>7 DEF a

LEMMA TailWord ==
  ASSUME NEW q \in Seq(Words), q # <<>>
  PROVE  /\ Tail(q) \in Seq(Words) /\ Head(q) \in Words
         /\ Queued("tracks", q) => Head(q) = "tracks" \/ Queued("tracks", Tail(q))
         /\ Precedes(q) => Head(q) # "offer"
         /\ Precedes(q) => Head(q) = "tracks" \/ Precedes(Tail(q))
<1> DEFINE t == Tail(q)
           n == Len(q)
           l == Len(t)
<1>1. n \in Nat \ {0} /\ \A i \in 1..n : q[i] \in Words
  BY LenProperties, EmptySeq
<1>2. t \in Seq(Words) /\ Len(t) = n - 1 /\ (\A i \in 1..l : t[i] = q[i + 1]) /\ Head(q) = q[1]
  BY HeadTailProperties
<1>3. /\ Queued("tracks", q) => \E i \in 1..n : q[i] = "tracks"
      /\ Precedes(q) => \A i \in 1..n : q[i] = "offer" => \E j \in 1..n : j < i /\ q[j] = "tracks"
      /\ (\E i \in 1..l : t[i] = "tracks") => Queued("tracks", t)
      /\ (\A i \in 1..l : t[i] = "offer" => \E j \in 1..l : j < i /\ t[j] = "tracks") => Precedes(t)
  BY DEF Queued, Precedes
<1>4. l = n - 1 /\ 1 \in 1..n
  BY <1>1, <1>2
<1> HIDE DEF t, n, l
<1>5. \A i \in 1..l : i + 1 \in 1..n /\ t[i] = q[i + 1]
  BY <1>1, <1>2, <1>4
<1>6. \A i \in 1..n : i # 1 => i - 1 \in 1..l /\ t[i - 1] = q[i]
  <2> SUFFICES ASSUME NEW i \in 1..n, i # 1 PROVE i - 1 \in 1..l /\ t[i - 1] = q[i]
    OBVIOUS
  <2>1. i - 1 \in 1..l /\ (i - 1) + 1 = i
    BY <1>1, <1>4
  <2>2. QED
    BY <1>5, <2>1
<1>7. (\E i \in 1..n : q[i] = "tracks") => q[1] = "tracks" \/ \E i \in 1..l : t[i] = "tracks"
  BY <1>6
<1>8. ASSUME Precedes(q) PROVE q[1] # "offer"
  BY <1>1, <1>3, <1>4, <1>8
<1>9. ASSUME Precedes(q), q[1] # "tracks"
      PROVE  \A i \in 1..l : t[i] = "offer" => \E j \in 1..l : j < i /\ t[j] = "tracks"
  <2> SUFFICES ASSUME NEW i \in 1..l, t[i] = "offer" PROVE \E j \in 1..l : j < i /\ t[j] = "tracks"
    OBVIOUS
  <2>1. i + 1 \in 1..n /\ q[i + 1] = "offer"
    BY <1>5
  <2>2. PICK j \in 1..n : j < i + 1 /\ q[j] = "tracks"
    BY <1>3, <1>9, <2>1
  <2>3. j # 1
    BY <1>9, <2>2
  <2>4. j - 1 \in 1..l /\ t[j - 1] = q[j] /\ j - 1 < i
    BY <1>6, <2>2, <2>3
  <2>5. QED
    BY <2>2, <2>4
<1>10. QED
  BY <1>1, <1>2, <1>3, <1>4, <1>7, <1>8, <1>9 DEF t

(* While the connection is open, an offer comes after the tracks it carries. *)
Unopened == {"off", "resolve", "connect", "handshake"}

TracksFirst ==
  link = "open" => \/ "tracks" \in onWire
                   \/ Precedes(outbox) /\ (offering > 0 => Queued("tracks", outbox))

LiveKitIInv ==
  /\ LiveKitTypeOK
  /\ "offer" \in onWire => "tracks" \in onWire
  /\ offering <= joins
  /\ link \in Unopened => outbox = <<>> /\ offering = 0 /\ ~peersMade /\ pings = "off"
  /\ TracksFirst

LEMMA LiveKitStarts == LiveKitInit => LiveKitIInv
<1> SUFFICES ASSUME LiveKitInit PROVE LiveKitIInv
  OBVIOUS
<1>1. LiveKitTypeOK
  <2>1. outbox \in Seq(Words) /\ onWire \in SUBSET {"tracks", "offer"}
    BY DEF LiveKitInit
  <2>2. receives \in BOOLEAN /\ peersMade \in BOOLEAN
    BY DEF LiveKitInit
  <2>3. QED
    BY <2>1, <2>2, LiveKitAssumption DEF LiveKitInit, LiveKitTypeOK
<1>2. QED
  BY <1>1 DEF LiveKitInit, LiveKitIInv, TracksFirst

(* The actions that do not write. *)
LEMMA ConnectionKeeps ==
  ASSUME LiveKitIInv,
         \/ LkConnect \/ LkNext \/ LkOpenFails \/ LkOnHandshake \/ LkClosed
         \/ OnLeave \/ LkReadError \/ PingExpires \/ UNCHANGED liveKitVars
  PROVE  LiveKitIInv'
<1>1. UNCHANGED <<outbox, peersMade, offering, onWire, joins, signals>>
  BY DEF LkConnect, LkNext, LkOpenFails, LkOnHandshake, LkClosed, OnLeave, LkReadError, PingExpires, liveKitVars
<1>2. /\ link' \in {"off", "resolve", "connect", "handshake", "open", "closing", "closed"}
      /\ receives' \in BOOLEAN /\ pings' \in {"off", "armed", "due"}
      /\ link' \in Unopened => link \in Unopened /\ pings' = pings
      /\ link' = "open" => link \in {"handshake", "open"}
  BY DEF LiveKitIInv, LiveKitTypeOK, LkConnect, LkNext, LkOpenFails, LkOnHandshake, LkClosed, OnLeave, LkRead,
         LkReadError, PingExpires, LkDisconnect, liveKitVars, Unopened
<1>3. LiveKitTypeOK'
  BY <1>1, <1>2 DEF LiveKitIInv, LiveKitTypeOK
<1>4. TracksFirst'
  <2>1. CASE link = "open"
    BY <1>1, <2>1 DEF LiveKitIInv, TracksFirst
  <2>2. CASE link = "handshake"
    <3>1. outbox = <<>> /\ offering = 0
      BY <2>2 DEF LiveKitIInv, Unopened
    <3>2. Precedes(<<>>)
      BY DEF Precedes
    <3>3. QED
      BY <1>1, <3>1, <3>2 DEF TracksFirst
  <2>3. QED
    BY <1>2, <2>1, <2>2 DEF TracksFirst
<1>5. QED
  BY <1>1, <1>2, <1>3, <1>4 DEF LiveKitIInv

(* The actions that write. *)
LEMMA WordKeeps ==
  ASSUME LiveKitIInv, NEW word \in Words, LkWrite(word), UNCHANGED <<link, onWire>>,
         receives' \in BOOLEAN, peersMade' \in BOOLEAN, pings' \in {"off", "armed", "due"},
         joins' \in 0..MaxJoins, signals' \in 0..MaxSignals, offering' \in Nat, offering' <= joins',
         link \notin Unopened,
         \/ offering' <= offering /\ (word = "offer" => offering > 0)
         \/ word = "tracks"
  PROVE  LiveKitIInv'
<1>1. /\ outbox' = Append(outbox, word) /\ outbox \in Seq(Words) /\ offering \in Nat
      /\ MaxJoins \in Nat
  BY LiveKitAssumption DEF LkWrite, LiveKitIInv, LiveKitTypeOK
<1>2. /\ outbox' \in Seq(Words)
      /\ Queued("tracks", outbox) => Queued("tracks", outbox')
      /\ Queued(word, outbox')
      /\ Precedes(outbox) /\ (word = "offer" => Queued("tracks", outbox)) => Precedes(outbox')
  BY <1>1, AppendWord
<1>3. offering' \in 0..MaxJoins
  BY <1>1
<1>4. LiveKitTypeOK'
  BY <1>2, <1>3 DEF LiveKitIInv, LiveKitTypeOK
<1>5. TracksFirst'
  <2>1. SUFFICES ASSUME link = "open", "tracks" \notin onWire
                 PROVE  Precedes(outbox') /\ (offering' > 0 => Queued("tracks", outbox'))
    BY DEF TracksFirst
  <2>2. Precedes(outbox) /\ (offering > 0 => Queued("tracks", outbox))
    BY <2>1 DEF LiveKitIInv, TracksFirst
  <2>3. CASE word = "tracks"
    BY <1>2, <2>2, <2>3
  <2>4. CASE offering' <= offering /\ (word = "offer" => offering > 0)
    <3>1. offering' > 0 => offering > 0
      BY <1>1, <2>4
    <3>2. QED
      BY <1>2, <2>2, <2>4, <3>1
  <2>5. QED
    BY <2>3, <2>4
<1>6. QED
  BY <1>4, <1>5 DEF LiveKitIInv

LEMMA WritesKeep ==
  ASSUME LiveKitIInv, OnJoin \/ OnLocalOffer \/ OnLocalSignal \/ LkOnPing
  PROVE  LiveKitIInv'
<1>1. /\ joins \in 0..MaxJoins /\ signals \in 0..MaxSignals /\ offering \in Nat /\ offering <= joins
      /\ MaxJoins \in Nat /\ MaxSignals \in Nat /\ receives \in BOOLEAN /\ peersMade \in BOOLEAN
      /\ pings \in {"off", "armed", "due"}
  BY LiveKitAssumption DEF LiveKitIInv, LiveKitTypeOK
<1>2. link \in Unopened => offering = 0 /\ ~peersMade /\ pings = "off"
  BY DEF LiveKitIInv
<1>3. CASE OnJoin
  <2>1. /\ LkWrite("tracks") /\ UNCHANGED <<link, pings, onWire, signals>> /\ link \notin Unopened
        /\ "tracks" \in Words
    BY <1>3 DEF OnJoin, LkRead, LkWrite, Unopened, Words
  <2>2. receives' \in BOOLEAN /\ peersMade' \in BOOLEAN
    BY <1>3 DEF OnJoin, LkRead
  <2>3. joins' \in 0..MaxJoins /\ offering' \in Nat /\ offering' <= joins'
    BY <1>1, <1>3 DEF OnJoin
  <2>4. QED
    BY <1>1, <2>1, <2>2, <2>3, WordKeeps
<1>4. CASE OnLocalOffer
  <2>1. /\ LkWrite("offer") /\ UNCHANGED <<link, receives, pings, peersMade, onWire, joins, signals>>
        /\ offering > 0 /\ "offer" \in Words
    BY <1>4 DEF OnLocalOffer, Words
  <2>2. offering' \in Nat /\ offering' <= joins' /\ offering' <= offering /\ link \notin Unopened
    BY <1>1, <1>2, <1>4 DEF OnLocalOffer
  <2>3. QED
    BY <1>1, <2>1, <2>2, WordKeeps
<1>5. CASE OnLocalSignal
  <2>1. /\ LkWrite("signal") /\ UNCHANGED <<link, receives, pings, peersMade, offering, onWire, joins>>
        /\ "signal" \in Words /\ link \notin Unopened
    BY <1>2, <1>5 DEF OnLocalSignal, Words
  <2>2. signals' \in 0..MaxSignals /\ offering' \in Nat /\ offering' <= joins' /\ offering' <= offering
    BY <1>1, <1>5 DEF OnLocalSignal
  <2>3. QED
    BY <1>1, <2>1, <2>2, WordKeeps
<1>6. CASE LkOnPing
  <2>1. /\ LkWrite("ping") /\ UNCHANGED <<link, receives, peersMade, offering, onWire, joins, signals>>
        /\ pings' \in {"off", "armed", "due"} /\ "ping" \in Words /\ link \notin Unopened
    BY <1>2, <1>6 DEF LkOnPing, Words
  <2>2. offering' \in Nat /\ offering' <= joins' /\ offering' <= offering
    BY <1>1, <2>1
  <2>3. QED
    BY <1>1, <2>1, <2>2, WordKeeps
<1>7. QED
  BY <1>3, <1>4, <1>5, <1>6

(* The end of a write: what failed is lost, but then nothing follows. *)
LEMMA WriteEndsKeep == ASSUME LiveKitIInv, OnWriteDone \/ OnWriteFails PROVE LiveKitIInv'
<1>1. /\ outbox # <<>> /\ outbox' = Tail(outbox)
      /\ UNCHANGED <<receives, peersMade, offering, joins, signals>>
      /\ outbox \in Seq(Words) /\ link \notin Unopened
  BY DEF OnWriteDone, OnWriteFails, LiveKitIInv, LiveKitTypeOK
<1>2. /\ outbox' \in Seq(Words) /\ Head(outbox) \in Words
      /\ Queued("tracks", outbox) => Head(outbox) = "tracks" \/ Queued("tracks", outbox')
      /\ Precedes(outbox) => Head(outbox) # "offer"
      /\ Precedes(outbox) => Head(outbox) = "tracks" \/ Precedes(outbox')
  BY <1>1, TailWord
<1>3. CASE OnWriteFails
  <2>1. /\ link # "open" /\ link' = link /\ onWire' = onWire
        /\ pings' \in {"off", "armed", "due"}
    BY <1>3 DEF OnWriteFails, LkDisconnect, LiveKitIInv, LiveKitTypeOK
  <2>2. LiveKitTypeOK'
    BY <1>1, <1>2, <2>1 DEF LiveKitIInv, LiveKitTypeOK
  <2>3. QED
    BY <1>1, <2>1, <2>2 DEF LiveKitIInv, TracksFirst
<1>4. CASE OnWriteDone
  <2>1. /\ link = "open" /\ link' = link /\ pings' = pings
        /\ onWire' = onWire \cup ({Head(outbox)} \cap {"tracks", "offer"})
    BY <1>4 DEF OnWriteDone
  <2>2. onWire' \in SUBSET {"tracks", "offer"}
    BY <2>1 DEF LiveKitIInv, LiveKitTypeOK
  <2>3. LiveKitTypeOK'
    BY <1>1, <1>2, <2>1, <2>2 DEF LiveKitIInv, LiveKitTypeOK
  <2>4. CASE "tracks" \in onWire \/ Head(outbox) = "tracks"
    <3>1. "tracks" \in onWire'
      BY <2>1, <2>4
    <3>2. QED
      BY <1>1, <2>1, <2>3, <3>1 DEF LiveKitIInv, TracksFirst
  <2>5. CASE "tracks" \notin onWire /\ Head(outbox) # "tracks"
    <3>1. Precedes(outbox) /\ (offering > 0 => Queued("tracks", outbox)) /\ "offer" \notin onWire
      BY <2>1, <2>5 DEF LiveKitIInv, TracksFirst
    <3>2. Precedes(outbox') /\ (offering > 0 => Queued("tracks", outbox')) /\ Head(outbox) # "offer"
      BY <1>2, <2>5, <3>1
    <3>3. "offer" \notin onWire'
      BY <2>1, <3>1, <3>2
    <3>4. QED
      BY <1>1, <2>1, <2>3, <3>2, <3>3 DEF LiveKitIInv, TracksFirst
  <2>6. QED
    BY <2>4, <2>5
<1>5. QED
  BY <1>3, <1>4

LEMMA LiveKitKeeps == ASSUME LiveKitIInv, LiveKitStep \/ UNCHANGED liveKitVars PROVE LiveKitIInv'
  BY ConnectionKeeps, WritesKeep, WriteEndsKeep DEF LiveKitStep, LiveKitHandler

-------------------------------------------------------------------------------
(* All of them on one io_context. *)

IInv == SocketIInv /\ HttpIInv /\ LiveKitIInv

LEMMA SocketStays == ASSUME SocketIInv, UNCHANGED socketVars PROVE SocketIInv'
<1>1. UNCHANGED <<loopVars, timerVars, toldVars, serverVars, stage>>
  BY DEF socketVars
<1>2. /\ stage' \in Opening \cup {"new", "up", "over"}
      /\ server' \in {"up", "closed", "lost", "vanished"} /\ owed' \in BOOLEAN
  BY <1>1 DEF SocketIInv, SocketTypeOK, serverVars
<1>3. QED
  BY <1>1, <1>2, IdleKeeps

LEMMA Inductive == IInv /\ [Next]_vars => IInv'
<1> SUFFICES ASSUME IInv, [Next]_vars PROVE IInv'
  OBVIOUS
<1>1. SocketStep \/ UNCHANGED socketVars
  BY DEF Next, SocketNext, HttpNext, LiveKitNext, vars
<1>2. HttpStep \/ UNCHANGED httpVars
  BY DEF Next, SocketNext, HttpNext, LiveKitNext, vars
<1>3. LiveKitStep \/ UNCHANGED liveKitVars
  BY DEF Next, SocketNext, HttpNext, LiveKitNext, vars
<1>4. QED
  BY <1>1, <1>2, <1>3, SocketKeeps, SocketStays, HttpKeeps, LiveKitKeeps DEF IInv

LEMMA Starts == Init => IInv
<1> SUFFICES ASSUME Init PROVE IInv
  OBVIOUS
<1>1. HttpIInv
  <2>1. deadline \in BOOLEAN
    BY DEF Init, HttpInit
  <2>2. QED
    BY <2>1 DEF Init, HttpInit, HttpIInv, HttpTypeOK
<1>2. QED
  BY <1>1, SocketStarts, LiveKitStarts DEF Init, IInv

\* A finished connection is not open and has no timer, one write is under way exactly while
\* an open connection has something queued, and LiveKit announces the tracks before their
\* offer (DoWrite, Finish, OnHandshake of WebSocketClient; DoWrite and OnMessage of
\* LiveKitService), for any number of frames, joins and pings.
THEOREM SocketsAlwaysKept == Spec => []SocketInv
<1>1. IInv => SocketInv
  <2> SUFFICES ASSUME IInv PROVE SocketInv
    OBVIOUS
  <2>1. SocketTypeOK /\ TracksBeforeOffer
    BY DEF IInv, SocketIInv, LiveKitIInv, HttpIInv, TracksBeforeOffer
  <2>2. writing \in BOOLEAN /\ finished \in BOOLEAN
    BY <2>1 DEF SocketTypeOK
  <2>3. finished = (told # Untold) /\ (finished => ~open /\ ping = Off /\ silence = Off) /\ (shut => closing)
    BY <2>2 DEF IInv, SocketIInv, Over, CloseFrame
  <2>4. open => writing = (queue # <<>>) /\ silence # Off
    BY <2>2 DEF IInv, SocketIInv, Up
  <2>5. ~open => Len(queue) = (IF writing THEN 1 ELSE 0)
    <3>1. Len(<<>>) = 0
      OBVIOUS
    <3>2. QED
      BY <3>1 DEF IInv, SocketIInv, Fresh, Over
  <2>6. QED
    BY <2>1, <2>3, <2>4, <2>5 DEF SocketInv
<1>2. QED
  BY <1>1, Starts, Inductive, PTL DEF Spec

-------------------------------------------------------------------------------
(* The WebSocket keeps its promise: every step is one of SocketPromise's, or none. *)

promised == <<given, gone, closing, shut, told>>

LEMMA LastFrame ==
  ASSUME SocketIInv, ~finished, queue = <<>>
  PROVE  gone = given
<1>1. InLine(<<>>, gone, given) /\ gone <= given /\ gone \in Nat /\ given \in Nat
  BY FramesAssumption DEF SocketIInv, Frames, SocketTypeOK
<1>2. QED
  BY <1>1, EmptyLine

LEMMA TellRefines ==
  ASSUME SocketIInv, ~finished, NEW code \in {"server", "own", "none"}, Finish(code),
         UNCHANGED <<given, gone, shut>>, closing' = closing \/ closing' = TRUE,
         code = "own" => closing'
  PROVE  Promise!PromiseNext
<1>1. told = Untold
  BY DEF SocketIInv, Over
<1>2. told' = code
  BY DEF Finish
<1>3. Promise!Tell(code)
  BY <1>2 DEF Promise!Tell
<1>4. QED
  BY <1>1, <1>3 DEF Promise!PromiseNext

LEMMA OthersRefine ==
  ASSUME SocketIInv,
         \/ Open \/ OnResolve \/ OnConnect \/ OnTlsHandshake \/ HandlerDropped \/ OnHandshake
         \/ OnFrame \/ Tick \/ ServerEnds
  PROVE  UNCHANGED promised
  BY DEF Open, OnResolve, OnConnect, OnTlsHandshake, HandlerDropped, OnHandshake, OnFrame, Tick, ServerEnds,
         loopVars, toldVars, promised

LEMMA EndsRefine ==
  ASSUME SocketIInv, OpenFails \/ OnReadError \/ OnWriteError \/ OnShut \/ OnSilence
  PROVE  Promise!PromiseNext \/ UNCHANGED promised
<1>1. CASE OpenFails
  <2>1. ~finished /\ Finish("none") /\ UNCHANGED <<given, gone, shut>> /\ closing' = closing
    BY <1>1 DEF OpenFails
  <2>2. QED
    BY <2>1, TellRefines
<1>2. CASE OnReadError
  <2> DEFINE code == IF server = "closed" \/ (shut /\ server = "up") THEN "server" ELSE IF closing THEN "own" ELSE "none"
  <2>1. Finish(code) /\ UNCHANGED <<closing, given, gone, shut>>
    BY <1>2 DEF OnReadError
  <2>2. code \in {"server", "own", "none"} /\ (code = "own" => closing)
    OBVIOUS
  <2> HIDE DEF code
  <2>3. CASE finished
    BY <2>1, <2>3 DEF Finish, promised
  <2>4. CASE ~finished
    BY <2>1, <2>2, <2>4, TellRefines
  <2>5. QED
    BY <2>3, <2>4
<1>3. CASE OnWriteError
  <2>1. UNCHANGED <<closing, given, gone, shut>>
    BY <1>3 DEF OnWriteError
  <2>2. CASE finished
    BY <1>3, <2>1, <2>2 DEF OnWriteError, promised
  <2>3. CASE ~finished
    <3>1. told = Untold /\ told' = "none"
      BY <1>3, <2>3 DEF OnWriteError, SocketIInv, Over
    <3>2. Promise!Tell("none")
      BY <2>1, <3>1 DEF Promise!Tell
    <3>3. QED
      BY <3>1, <3>2 DEF Promise!PromiseNext
  <2>4. QED
    BY <2>2, <2>3
<1>4. CASE OnShut
  <2>1. Finish("own") /\ UNCHANGED <<given, gone, shut>> /\ closing' = closing /\ shutting
    BY <1>4 DEF OnShut
  <2>2. closing
    BY <2>1 DEF SocketIInv, CloseFrame
  <2>3. CASE finished
    BY <2>1, <2>3 DEF Finish, promised
  <2>4. CASE ~finished
    BY <2>1, <2>2, <2>4, TellRefines
  <2>5. QED
    BY <2>3, <2>4
<1>5. CASE OnSilence
  <2>1. ~finished /\ Finish("none") /\ UNCHANGED <<given, gone, shut>> /\ closing' = closing
    BY <1>5, TimersRun DEF OnSilence
  <2>2. QED
    BY <2>1, TellRefines
<1>6. QED
  BY <1>1, <1>2, <1>3, <1>4, <1>5

LEMMA SendRefines == ASSUME SocketIInv, Send PROVE Promise!PromiseNext
<1>1. /\ given < MaxFrames /\ open /\ ~finished /\ ~closing /\ given' = given + 1
      /\ UNCHANGED <<closing, gone, told>>
  BY DEF Send
<1>2. writing \in BOOLEAN /\ DoWrite(Append(queue, given + 1), writing, FALSE) /\ told = Untold
  BY <1>1 DEF Send, SocketIInv, SocketTypeOK, Over
<1>3. (shutting' <=> shutting) /\ (shut' <=> shut \/ shutting') /\ shut' \in BOOLEAN
  BY <1>1, <1>2, DoWriteDoes
<1>4. shut' = shut
  BY <1>1, <1>3 DEF SocketIInv, SocketTypeOK, CloseFrame
<1>5. QED
  BY <1>1, <1>2, <1>4 DEF Promise!PromiseNext, Promise!Take

LEMMA CloseRefines == ASSUME SocketIInv, Close PROVE Promise!PromiseNext
<1>1. ~finished /\ ~closing /\ closing' = TRUE /\ given' = given /\ gone' = gone /\ told = Untold
  BY DEF Close, SocketIInv, Over
<1>2. CASE ~open
  <2>1. Finish("own") /\ shut' = shut
    BY <1>2 DEF Close
  <2>2. QED
    BY <1>1, <2>1, TellRefines
<1>3. CASE open
  <2>1. DoWrite(queue, writing, TRUE) /\ told' = told /\ writing \in BOOLEAN
    BY <1>3 DEF Close, SocketIInv, SocketTypeOK
  <2>2. /\ shutting' <=> shutting \/ (~writing /\ queue = <<>>)
        /\ shut' <=> shut \/ shutting'
        /\ shut' \in BOOLEAN
    BY <1>1, <1>3, <2>1, DoWriteDoes
  <2>3. ~shut /\ ~shutting /\ shut \in BOOLEAN
    BY <1>1 DEF SocketIInv, CloseFrame, SocketTypeOK
  <2>4. shut' # shut => shut' /\ gone' = given
    BY <1>1, <2>2, <2>3, LastFrame
  <2>5. Promise!MayShut
    BY <1>1, <2>2, <2>4 DEF Promise!MayShut
  <2>6. QED
    BY <1>1, <2>1, <2>5 DEF Promise!PromiseNext, Promise!Ask
<1>4. QED
  BY <1>2, <1>3

LEMMA WrittenRefines == ASSUME SocketIInv, OnWritten PROVE Promise!PromiseNext \/ UNCHANGED promised
<1>1. /\ DoWrite(Tail(queue), FALSE, closing) /\ closing \in BOOLEAN /\ shut \in BOOLEAN
      /\ UNCHANGED <<closing, finished, given, told>>
  BY DEF OnWritten, SocketIInv, SocketTypeOK
<1>2. /\ open /\ ~finished /\ ~shut /\ ~shutting /\ told = Untold
      /\ gone' \in Nat /\ gone' <= given /\ gone \in Nat /\ given \in Nat
      /\ InLine(Tail(queue), gone', given)
      /\ gone' = gone \/ gone' = gone + 1
  BY WrittenQueue DEF SocketIInv, Over
<1>3. (shut' => Tail(queue) = <<>> /\ closing) /\ shut' \in BOOLEAN
  <2>1. FALSE \in BOOLEAN
    OBVIOUS
  <2>2. /\ shutting' <=> shutting \/ (~FALSE /\ Tail(queue) = <<>> /\ closing)
        /\ shut' <=> shut \/ shutting'
        /\ shut' \in BOOLEAN
    BY <1>1, <1>2, <2>1, DoWriteDoes
  <2>3. QED
    BY <1>2, <2>2
<1>4. shut' => gone' = given /\ closing'
  <2> SUFFICES ASSUME shut' PROVE gone' = given /\ closing'
    OBVIOUS
  <2>1. InLine(<<>>, gone', given)
    BY <1>2, <1>3
  <2>2. QED
    BY <1>1, <1>2, <1>3, <2>1, EmptyLine
<1>5. Promise!MayShut
  <2>1. shut' # shut => shut'
    BY <1>1, <1>2, <1>3
  <2>2. QED
    BY <1>3, <1>4, <2>1 DEF Promise!MayShut
<1>6. CASE gone' = gone + 1
  <2>1. gone < given
    BY <1>2, <1>6
  <2>2. Promise!Transmit
    BY <1>1, <1>2, <1>5, <1>6, <2>1 DEF Promise!Transmit
  <2>3. QED
    BY <1>2, <2>2 DEF Promise!PromiseNext
<1>7. CASE gone' = gone /\ shut'
  <2>1. Promise!Shut
    BY <1>1, <1>5, <1>7 DEF Promise!Shut
  <2>2. QED
    BY <1>2, <2>1 DEF Promise!PromiseNext
<1>8. CASE gone' = gone /\ ~shut'
  <2>1. shut' = shut
    BY <1>1, <1>2, <1>3, <1>8
  <2>2. QED
    BY <1>1, <1>8, <2>1 DEF promised
<1>9. QED
  BY <1>2, <1>6, <1>7, <1>8

LEMMA PingRefines == ASSUME SocketIInv, OnPing PROVE UNCHANGED promised
<1>1. ping = 0 /\ UNCHANGED <<closing, given, gone, told>>
  BY DEF OnPing
<1>2. CASE closing
  BY <1>1, <1>2 DEF OnPing, promised
<1>3. CASE ~closing
  <2>1. open /\ ~finished
    BY <1>1, TimersRun
  <2>2. DoWrite(Append(queue, 0), writing, FALSE) /\ writing \in BOOLEAN
    BY <1>3 DEF OnPing, SocketIInv, SocketTypeOK
  <2>3. (shutting' <=> shutting) /\ (shut' <=> shut \/ shutting') /\ shut' \in BOOLEAN
    BY <2>1, <2>2, DoWriteDoes
  <2>4. shut' = shut
    BY <1>3, <2>3 DEF SocketIInv, SocketTypeOK, CloseFrame
  <2>5. QED
    BY <1>1, <2>4 DEF promised
<1>4. QED
  BY <1>2, <1>3

LEMMA StepRefines == IInv /\ [Next]_vars => [Promise!PromiseNext]_promised
<1> SUFFICES ASSUME IInv, [Next]_vars PROVE Promise!PromiseNext \/ UNCHANGED promised
  OBVIOUS
<1>1. SocketIInv
  BY DEF IInv
<1>2. CASE SocketStep
  BY <1>1, <1>2, OthersRefine, EndsRefine, SendRefines, CloseRefines, WrittenRefines, PingRefines
  DEF SocketStep, OpenEnds, WriteEnds
<1>3. CASE UNCHANGED socketVars
  BY <1>3 DEF socketVars, loopVars, toldVars, promised
<1>4. SocketStep \/ UNCHANGED socketVars
  BY DEF Next, SocketNext, HttpNext, LiveKitNext, vars
<1>5. QED
  BY <1>2, <1>3, <1>4

(* A live server is heard of in time: Heard says so. *)
LEMMA LiveServerStays == IInv /\ [Next]_vars => [silence = 0 /\ told' # told => server # "up"]_vars
<1> SUFFICES ASSUME IInv, silence = 0 PROVE server # "up"
  OBVIOUS
<1>1. open
  BY TimersRun DEF IInv
<1>2. QED
  BY <1>1 DEF IInv, SocketIInv, Heard

\* WebSocketClient does what websocket_client.h promises its user: frames leave in the order
\* they were given, the close frame follows all of them, and OnClose is called once, at the
\* end, with a code that says who ended the connection; and a server that answers pings is
\* never given up for its silence, whatever the silence and the ping timer expire between.
THEOREM PromiseKept == Spec => KeepsPromise
<1>1. Init => Promise!Promised
  BY DEF Init, SocketInit, Promise!Promised
<1>2. IInv /\ [Next]_vars => [Promise!PromiseNext]_(Promise!promiseVars)
  BY StepRefines DEF promised, Promise!promiseVars
<1>3. Spec => []IInv
  BY Starts, Inductive, PTL DEF Spec
<1>4. Spec => Promise!Spec
  BY <1>1, <1>2, <1>3, PTL DEF Spec, Promise!Spec
<1>5. Spec => LiveServerKept
  BY <1>3, LiveServerStays, PTL DEF Spec, LiveServerKept
<1>6. QED
  BY <1>4, <1>5 DEF KeepsPromise
=============================================================================
