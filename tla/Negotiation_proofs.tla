--------------------------- MODULE Negotiation_proofs ---------------------------
(* Proofs about Negotiation, for any number of offers. *)
EXTENDS Negotiation, FunctionTheorems, FiniteSetTheorems, SequenceTheorems, TLAPS

-------------------------------------------------------------------------------
(* Queues: which elements of some kind they have, and how many. *)

Has(s, T) == \E i \in 1..Len(s) : s[i] \in T
Places(s, T) == {i \in 1..Len(s) : s[i] \in T}
CountOf(s, T) == Cardinality(Places(s, T))
One(b) == IF b THEN 1 ELSE 0

LEMMA CountIsNat ==
  ASSUME NEW S, NEW s \in Seq(S), NEW T
  PROVE  /\ IsFiniteSet(Places(s, T)) /\ CountOf(s, T) \in Nat
         /\ CountOf(s, T) = 0 <=> ~Has(s, T)
<1>1. Len(s) \in Nat
  BY LenProperties
<1>2. IsFiniteSet(1..Len(s))
  BY <1>1, FS_Interval
<1>3. Places(s, T) \in SUBSET (1..Len(s))
  BY DEF Places
<1>4. IsFiniteSet(Places(s, T))
  BY <1>2, <1>3, FS_Subset
<1>5. Cardinality(Places(s, T)) \in Nat
  BY <1>4, FS_CardinalityType
<1>6. Cardinality(Places(s, T)) = 0 <=> Places(s, T) = {}
  BY <1>4, FS_EmptySet
<1>7. Places(s, T) = {} <=> ~Has(s, T)
  BY DEF Places, Has
<1>8. QED
  BY <1>4, <1>5, <1>6, <1>7 DEF CountOf

LEMMA Empty ==
  ASSUME NEW T
  PROVE  ~Has(<<>>, T) /\ CountOf(<<>>, T) = 0
<1>1. Places(<<>>, T) = {} /\ ~Has(<<>>, T)
  BY DEF Places, Has
<1>2. QED
  BY <1>1, FS_EmptySet DEF CountOf

\* Two elements count twice.
LEMMA CountTwo ==
  ASSUME NEW S, NEW s \in Seq(S), NEW T, NEW i \in 1..Len(s), NEW j \in 1..Len(s), i # j,
         s[i] \in T, s[j] \in T
  PROVE  CountOf(s, T) >= 2
<1>1. {i, j} \in SUBSET Places(s, T)
  BY DEF Places
<1>2. IsFiniteSet({i}) /\ Cardinality({i}) = 1
  BY FS_Singleton
<1>3. Cardinality({i} \cup {j}) = 2
  <2>1. j \notin {i}
    OBVIOUS
  <2>2. Cardinality({i} \cup {j}) = Cardinality({i}) + 1
    BY <1>2, <2>1, FS_AddElement, Zenon
  <2>3. QED
    BY <1>2, <2>2
<1>4. {i} \cup {j} = {i, j}
  OBVIOUS
<1>5. Cardinality({i, j}) <= CountOf(s, T) /\ CountOf(s, T) \in Nat
  BY <1>1, CountIsNat, FS_Subset DEF CountOf
<1>6. QED
  BY <1>3, <1>4, <1>5

LEMMA Appended ==
  ASSUME NEW S, NEW s \in Seq(S), NEW x \in S
  PROVE  /\ Append(s, x) \in Seq(S) /\ Append(s, x) # <<>> /\ Len(s) \in Nat /\ Len(Append(s, x)) = Len(s) + 1
         /\ Append(s, x)[Len(s) + 1] = x /\ \A i \in 1..Len(s) : Append(s, x)[i] = s[i]
<1>1. /\ Append(s, x) \in Seq(S) /\ Len(s) \in Nat /\ Len(Append(s, x)) = Len(s) + 1
      /\ Append(s, x)[Len(s) + 1] = x /\ \A i \in 1..Len(s) : Append(s, x)[i] = s[i]
  BY AppendProperties, LenProperties
<1>2. Len(Append(s, x)) # 0
  BY <1>1
<1>3. QED
  BY <1>1, <1>2, EmptySeq

LEMMA HasAppended ==
  ASSUME NEW S, NEW s \in Seq(S), NEW x \in S, NEW T
  PROVE  /\ Has(Append(s, x), T) <=> Has(s, T) \/ x \in T
         /\ CountOf(Append(s, x), T) = CountOf(s, T) + One(x \in T)
<1> DEFINE n == Len(s)
           a == Append(s, x)
<1>1. n \in Nat /\ Len(a) = n + 1 /\ a[n + 1] = x /\ \A i \in 1..n : a[i] = s[i]
  BY Appended
<1> HIDE DEF a, n
<1>2. 1..Len(a) = 1..n \cup {n + 1} /\ n + 1 \notin 1..n
  BY <1>1
<1>3. Places(s, T) = {i \in 1..n : s[i] \in T} /\ (Has(s, T) <=> \E i \in 1..n : s[i] \in T)
  BY DEF Places, Has, n
<1>4. Places(a, T) = IF x \in T THEN Places(s, T) \cup {n + 1} ELSE Places(s, T)
  BY <1>1, <1>2, <1>3 DEF Places
<1>5. n + 1 \notin Places(s, T)
  BY <1>2, <1>3
<1>6. CountOf(s, T) \in Nat /\ Cardinality(Places(s, T) \cup {n + 1}) = CountOf(s, T) + 1
  BY <1>5, CountIsNat, FS_AddElement DEF CountOf
<1>7. CountOf(a, T) = CountOf(s, T) + One(x \in T)
  <2>1. CASE x \in T
    BY <1>4, <1>6, <2>1 DEF CountOf, One
  <2>2. CASE x \notin T
    BY <1>4, <1>6, <2>2 DEF CountOf, One
  <2>3. QED
    BY <2>1, <2>2
<1>8. Has(a, T) <=> Has(s, T) \/ x \in T
  BY <1>1, <1>2, <1>3 DEF Has
<1>9. QED
  BY <1>7, <1>8 DEF a

LEMMA Taken ==
  ASSUME NEW S, NEW s \in Seq(S), s # <<>>
  PROVE  /\ Head(s) \in S /\ Head(s) = s[1] /\ Tail(s) \in Seq(S)
         /\ Len(s) \in Nat \ {0} /\ Len(Tail(s)) = Len(s) - 1
         /\ \A i \in 1..Len(Tail(s)) : Tail(s)[i] = s[i + 1]
  BY HeadTailProperties, EmptySeq

LEMMA HasTaken ==
  ASSUME NEW S, NEW s \in Seq(S), s # <<>>, NEW T
  PROVE  /\ Has(s, T) <=> Has(Tail(s), T) \/ Head(s) \in T
         /\ CountOf(s, T) = CountOf(Tail(s), T) + One(Head(s) \in T)
<1> DEFINE n == Len(s)
           t == Tail(s)
           P == Places(s, T)
           Q == Places(t, T)
           f == [i \in Q |-> i + 1]
<1>1. n \in Nat \ {0} /\ Head(s) = s[1] /\ t \in Seq(S) /\ Len(t) = n - 1 /\ \A i \in 1..Len(t) : t[i] = s[i + 1]
  BY Taken
<1> HIDE DEF n, t
<1>2. P = {i \in 1..n : s[i] \in T} /\ Q = {i \in 1..(n - 1) : s[i + 1] \in T}
  BY <1>1 DEF Places, n
<1> HIDE DEF P, Q
<1>3. Q \subseteq Nat /\ 1 \in 1..n
  BY <1>1, <1>2
<1>4. \A j \in P \ {1} : j - 1 \in Q /\ (j - 1) + 1 = j
  BY <1>1, <1>2
<1>5. \A i \in Q : i + 1 \in P \ {1}
  BY <1>1, <1>2
<1>6. f \in Bijection(Q, P \ {1})
  <2>1. f \in [Q -> P \ {1}] /\ \A i \in Q : f[i] = i + 1
    BY <1>5
  <2> HIDE DEF f
  <2>2. \A i, j \in Q : f[i] = f[j] => i = j
    BY <1>3, <2>1
  <2>3. \A j \in P \ {1} : \E i \in Q : f[i] = j
    BY <1>4, <2>1
  <2>4. QED
    BY <2>1, <2>2, <2>3, Fun_IsBij
<1>7. IsFiniteSet(Q) /\ IsFiniteSet(P) /\ Cardinality(P) \in Nat /\ Cardinality(Q) \in Nat
  BY <1>1, CountIsNat DEF CountOf, P, Q
<1>8. Cardinality(P \ {1}) = Cardinality(Q)
  <2>1. ExistsBijection(Q, P \ {1})
    BY <1>6 DEF ExistsBijection
  <2>2. QED
    BY <1>7, <2>1, FS_Bijection
<1>9. Cardinality(P \ {1}) = IF 1 \in P THEN Cardinality(P) - 1 ELSE Cardinality(P)
  BY <1>7, FS_RemoveElement
<1>10. 1 \in P <=> Head(s) \in T
  BY <1>1, <1>2, <1>3
<1>11. CountOf(s, T) = Cardinality(P) /\ CountOf(t, T) = Cardinality(Q)
  BY DEF CountOf, P, Q
<1>12. CountOf(s, T) = CountOf(t, T) + One(Head(s) \in T)
  BY <1>7, <1>8, <1>9, <1>10, <1>11 DEF One
<1>13. Has(s, T) <=> Has(t, T) \/ Head(s) \in T
  <2>1. Has(s, T) <=> P # {}
    BY DEF Has, P, Places
  <2>2. Has(t, T) <=> Q # {}
    BY DEF Has, Q, Places
  <2>3. P # {} <=> Q # {} \/ 1 \in P
    BY <1>4, <1>5
  <2>4. QED
    BY <1>10, <2>1, <2>2, <2>3
<1>14. QED
  BY <1>12, <1>13 DEF t

\* What \o adds here is one element, two, or none.
LEMMA Joined ==
  ASSUME NEW S, NEW s \in Seq(S)
  PROVE  /\ s \o <<>> = s
         /\ \A x \in S : s \o <<x>> = Append(s, x)
         /\ \A x, y \in S : s \o <<x, y>> = Append(Append(s, x), y)
<1>1. s \o <<>> = s
  BY ConcatEmptySeq
<1>2. ASSUME NEW x \in S PROVE s \o <<x>> = Append(s, x)
  <2>1. <<x>> \in Seq(S) /\ Len(<<x>>) = 1 /\ <<x>>[1] = x
    OBVIOUS
  <2>2. /\ s \o <<x>> \in Seq(S) /\ Len(s \o <<x>>) = Len(s) + 1
        /\ \A i \in 1 .. Len(s) + 1 : (s \o <<x>>)[i] = IF i <= Len(s) THEN s[i] ELSE <<x>>[i - Len(s)]
    BY <2>1, ConcatProperties
  <2>3. /\ Append(s, x) \in Seq(S) /\ Len(s) \in Nat /\ Len(Append(s, x)) = Len(s) + 1
        /\ Append(s, x)[Len(s) + 1] = x /\ \A i \in 1..Len(s) : Append(s, x)[i] = s[i]
    BY Appended
  <2>4. ASSUME NEW i \in 1..(Len(s) + 1) PROVE (s \o <<x>>)[i] = Append(s, x)[i]
    <3>1. CASE i \in 1..Len(s)
      BY <2>2, <2>3, <3>1
    <3>2. CASE i = Len(s) + 1
      <4>1. i - Len(s) = 1 /\ ~(i <= Len(s))
        BY <2>3, <3>2
      <4>2. QED
        BY <2>1, <2>2, <2>3, <3>2, <4>1
    <3>3. QED
      BY <2>3, <3>1, <3>2
  <2>5. QED
    BY <2>2, <2>3, <2>4, SeqEqual
<1>3. ASSUME NEW x \in S, NEW y \in S PROVE s \o <<x, y>> = Append(Append(s, x), y)
  <2> DEFINE a == Append(s, x)
             n == Len(s)
             z == <<x, y>>
  <2>1. /\ a \in Seq(S) /\ n \in Nat /\ Len(a) = n + 1
        /\ a[n + 1] = x /\ \A i \in 1..n : a[i] = s[i]
    BY Appended
  <2>2. z \in Seq(S) /\ Len(z) = 2 /\ z[1] = x /\ z[2] = y
    OBVIOUS
  <2> HIDE DEF a, z
  <2>3. /\ Append(a, y) \in Seq(S) /\ Len(Append(a, y)) = n + 2
        /\ Append(a, y)[n + 2] = y /\ \A i \in 1..(n + 1) : Append(a, y)[i] = a[i]
    <3>1. /\ Append(a, y) \in Seq(S) /\ Len(Append(a, y)) = Len(a) + 1
          /\ Append(a, y)[Len(a) + 1] = y /\ \A i \in 1..Len(a) : Append(a, y)[i] = a[i]
      BY <2>1, AppendProperties
    <3>2. Len(a) + 1 = n + 2
      BY <2>1
    <3>3. QED
      BY <2>1, <3>1, <3>2
  <2>4. /\ s \o z \in Seq(S) /\ Len(s \o z) = n + 2
        /\ \A i \in 1..(n + 2) : (s \o z)[i] = IF i <= n THEN s[i] ELSE z[i - n]
    <3>1. /\ s \o z \in Seq(S) /\ Len(s \o z) = n + Len(z)
          /\ \A i \in 1..(n + Len(z)) : (s \o z)[i] = IF i <= n THEN s[i] ELSE z[i - n]
      BY <2>2, ConcatProperties, Zenon
    <3>2. QED
      BY <2>2, <3>1, Zenon
  <2>5. ASSUME NEW i \in 1..(n + 2) PROVE (s \o z)[i] = Append(a, y)[i]
    <3>1. CASE i \in 1..n
      BY <2>1, <2>3, <2>4, <3>1
    <3>2. CASE i = n + 1
      <4>1. i - n = 1 /\ ~(i <= n) /\ i \in 1..(n + 1)
        BY <2>1, <3>2
      <4>2. QED
        BY <2>1, <2>2, <2>3, <2>4, <3>2, <4>1
    <3>3. CASE i = n + 2
      <4>1. i - n = 2 /\ ~(i <= n)
        BY <2>1, <3>3
      <4>2. QED
        BY <2>2, <2>3, <2>4, <3>3, <4>1
    <3>4. i \in 1..n \/ i = n + 1 \/ i = n + 2
      <4>1. n \in Nat
        BY <2>1
      <4> HIDE DEF n
      <4>2. QED
        BY <4>1
    <3>5. QED
      BY <3>1, <3>2, <3>3, <3>4
  <2>6. s \o z = Append(a, y)
    BY <2>3, <2>4, <2>5, SeqEqual
  <2>7. QED
    BY <2>6 DEF a, z
<1>4. QED
  BY <1>1, <1>2, <1>3

-------------------------------------------------------------------------------
(* Operations, callbacks and messages by kind. *)

CreateOffers == {x \in ChainOps : x.op = "createOffer"}
CreateAnswers == {x \in ChainOps : x.op = "createAnswer"}
SetOffers == {x \in ChainOps : x.op = "setRemote" /\ x.msg.type = "offer"}
SetAnswers == {x \in ChainOps : x.op = "setLocal" /\ x.msg.type = "answer"}
Rollbacks == {x \in ChainOps : x.op = "rollback"}
Held == {x \in ChainOps : x.op \in {"createAnswer", "rollback"}}

MadeOffers == {x \in TaskOps : x.op = "created" /\ x.msg.type = "offer"}
MadeAnswers == {x \in TaskOps : x.op = "created" /\ x.msg.type = "answer"}
RolledBack == {x \in TaskOps : x.op = "rolledBack"}
Kept == {x \in TaskOps : x.op = "rolledBack" \/ x.msg.type = "answer"}

OfferMsgs == {m \in Messages : m.type = "offer"}
AnswerMsgs == {m \in Messages : m.type = "answer"}

(* What fits an open offer n of the viewer. *)
ChainFits(n) ==
  {x \in ChainOps :
     /\ x.op \in {"createAnswer", "rollback"} => x.msg.type = "offer" /\ x.msg.n = n
     /\ x.op = "rollback" => x.saw = "local"
     /\ x.op = "setRemote" /\ x.msg.type = "offer" => x.saw # "local"}
TaskFits(n) ==
  {x \in TaskOps : /\ x.op = "rolledBack" => x.msg.type = "offer"
                   /\ x.op = "rolledBack" \/ x.msg.type = "answer" => x.msg.n = n}
LoopFits(n) ==
  {x \in LoopOps :
     /\ x.msg.type = "offer" => x.msg.by = "viewer"
     /\ x.op # "idle" /\ x.msg.type = "offer" => x.msg.n = n
     /\ x.op \in {"tracks", "answer", "rollback"} => x.msg.type = "offer"
     /\ x.op = "rollback" => x.saw = "local"
     /\ x.op = "set" /\ x.msg.type = "offer" => x.saw # "local"}
ToDeviceFits(n) == {m \in Messages : m.type = "offer" => m.n = n /\ m.by = "viewer"}
ToViewerFits(n) == {m \in Messages : m.type = "answer" => m.n = n}

Flags ==
  /\ needs \in BOOLEAN /\ connected \in BOOLEAN /\ raced \in BOOLEAN
  /\ added \in BOOLEAN /\ changed \in BOOLEAN /\ told \in BOOLEAN

Fits ==
  /\ sig \in States
  /\ chain \in Seq(ChainFits(viewer.offer)) /\ tasks \in Seq(TaskFits(viewer.offer))
  /\ loop \in LoopFits(viewer.offer)
  /\ toDevice \in Seq(ToDeviceFits(viewer.offer)) /\ toViewer \in Seq(ToViewerFits(viewer.offer))
  /\ viewer \in [state : {"stable", "local"}, offer : 0..MaxOffers]
  /\ offers \in 0..MaxOffers

(* An open offer of the viewer is in one place: with the messages, with the service's    *)
(* thread, in the chain, among the callbacks, or on its way back as its answer.          *)
InLoop == loop.op # "idle" /\ loop.msg.type = "offer"
Tokens ==
  CountOf(toDevice, OfferMsgs) + One(InLoop) + CountOf(chain, Held) + CountOf(tasks, Kept)
    + CountOf(toViewer, AnswerMsgs)

OneExchange ==
  /\ Tokens <= 1
  /\ viewer.state = "stable" => Tokens = 0
  /\ viewer.state = "local" /\ ~raced => Tokens = 1

(* In the chain an answer is set before the next offer, and an offer before its answer   *)
(* is made.                                                                              *)
Sorted(c) ==
  \A i, j \in 1..Len(c) : i < j =>
    /\ c[i] \in CreateAnswers => c[j] \notin SetOffers \cup SetAnswers \cup Rollbacks
    /\ c[i] \in SetOffers => c[j] \notin SetAnswers
    /\ c[i] \in SetAnswers => c[j] \notin SetAnswers

\* An answer is still to be asked for, or is asked for.
Answering == loop.op = "answer" \/ Has(chain, CreateAnswers)

Order ==
  /\ Sorted(chain)
  /\ Has(chain, SetOffers) => Answering
  /\ Answering => Has(chain, SetOffers) \/ ~Has(chain, SetAnswers)
  /\ Has(tasks, MadeAnswers) => ~Has(chain, SetAnswers)

(* As long as nothing raced, the device is in the state "remote" from the offer to the   *)
(* answer, and only then.                                                                *)
RemoteKept ==
  /\ Answering /\ ~Has(chain, SetOffers) => sig = "remote"
  /\ Has(tasks, MadeAnswers) \/ Has(chain, SetAnswers) => sig = "remote"
  /\ sig = "remote" => Answering \/ Has(tasks, MadeAnswers) \/ Has(chain, SetAnswers)

(* Unless an offer of the device is still to be made, the chain is short, or can do no   *)
(* harm.                                                                                 *)
NoOffers == ~Has(chain, CreateOffers) /\ ~Has(tasks, MadeOffers)
Harmless ==
  sig = "remote" /\ ~Has(chain, SetAnswers) /\ ~Has(chain, SetOffers) /\ ~Has(chain, Rollbacks)
Short ==
  \/ Len(chain) <= 1
  \/ Len(chain) = 2 /\ chain[1] \in SetOffers /\ chain[2] \in CreateAnswers
  \/ Harmless

(* The last offer of the device is open or about to be.  Then it or its answer is on the *)
(* way, or an offer of the viewer that is yet to be checked, or rolls it back.           *)
Opens == chain # <<>> /\ Head(chain).op = "setLocal" /\ Head(chain).msg.type = "offer"
LastOpen == sig = "local" \/ (sig = "stable" /\ Opens)
Closes == chain # <<>> /\ Head(chain).op \in {"rollback", "setRemote"}
Closing ==
  \/ Has(toViewer, OfferMsgs) \/ toDevice # <<>>
  \/ loop.op \in {"tracks", "check", "rollback", "set"}
  \/ Closes
  \/ Has(tasks, RolledBack)
\* Behind an answer to the viewer.
Followed(q) ==
  \A i \in 1..Len(q) : q[i] \in AnswerMsgs => \E j \in 1..Len(q) : i < j /\ q[j] \in OfferMsgs

LocalKept == NoOffers => Short /\ (LastOpen => Closing /\ Followed(toViewer))

IInv == Flags /\ Fits /\ OneExchange /\ Order /\ (~raced => RemoteKept /\ LocalKept)

-------------------------------------------------------------------------------
(* What the invariant says.                                                              *)

LEMMA FitsAre ==
  ASSUME NEW n
  PROVE  /\ ChainFits(n) \subseteq ChainOps /\ TaskFits(n) \subseteq TaskOps /\ LoopFits(n) \subseteq LoopOps
         /\ ToDeviceFits(n) \subseteq Messages /\ ToViewerFits(n) \subseteq Messages
  BY DEF ChainFits, TaskFits, LoopFits, ToDeviceFits, ToViewerFits

LEMMA Kinds ==
  /\ Held \cap SetOffers = {} /\ Held \cap SetAnswers = {} /\ Held \cap CreateOffers = {}
  /\ SetOffers \cap SetAnswers = {} /\ SetOffers \cap CreateOffers = {} /\ SetAnswers \cap CreateOffers = {}
  /\ CreateAnswers \subseteq Held /\ Rollbacks \subseteq Held /\ CreateAnswers \cap Rollbacks = {}
  /\ MadeAnswers \subseteq Kept /\ RolledBack \subseteq Kept
  /\ MadeAnswers \cap RolledBack = {} /\ MadeOffers \cap MadeAnswers = {} /\ MadeOffers \cap RolledBack = {}
  /\ OfferMsgs \cap AnswerMsgs = {}
  BY DEF Held, SetOffers, SetAnswers, CreateOffers, CreateAnswers, Rollbacks,
         Kept, MadeOffers, MadeAnswers, RolledBack, OfferMsgs, AnswerMsgs

LEMMA HasLess ==
  ASSUME NEW s, NEW T, NEW U, T \subseteq U, Has(s, T)
  PROVE  Has(s, U)
  BY DEF Has

LEMMA HasKinds ==
  /\ Has(chain, CreateAnswers) \/ Has(chain, Rollbacks) => Has(chain, Held)
  /\ Has(tasks, MadeAnswers) \/ Has(tasks, RolledBack) => Has(tasks, Kept)
  BY Kinds, HasLess

LEMMA Types == Flags /\ Fits => TypeOK
<1> SUFFICES ASSUME Flags, Fits PROVE TypeOK
  OBVIOUS
<1> DEFINE n == viewer.offer
<1>1. chain \in Seq(ChainOps) /\ tasks \in Seq(TaskOps) /\ toDevice \in Seq(Messages) /\ toViewer \in Seq(Messages)
  BY FitsAre, SeqMonotonic DEF Fits
<1>2. loop \in LoopOps /\ (loop.op = "rollback" => loop.msg.type = "offer" /\ loop.msg.by = "viewer")
  BY DEF Fits, LoopFits
<1>3. QED
  BY <1>1, <1>2 DEF TypeOK, Flags, Fits

\* The counts, and where the token is.
LEMMA Counts ==
  ASSUME Fits
  PROVE  /\ CountOf(toDevice, OfferMsgs) \in Nat /\ One(InLoop) \in {0, 1} /\ CountOf(chain, Held) \in Nat
         /\ CountOf(tasks, Kept) \in Nat /\ CountOf(toViewer, AnswerMsgs) \in Nat
         /\ CountOf(toDevice, OfferMsgs) = 0 <=> ~Has(toDevice, OfferMsgs)
         /\ One(InLoop) = 0 <=> ~InLoop
         /\ CountOf(chain, Held) = 0 <=> ~Has(chain, Held)
         /\ CountOf(tasks, Kept) = 0 <=> ~Has(tasks, Kept)
         /\ CountOf(toViewer, AnswerMsgs) = 0 <=> ~Has(toViewer, AnswerMsgs)
<1>1. CountOf(toDevice, OfferMsgs) \in Nat /\ (CountOf(toDevice, OfferMsgs) = 0 <=> ~Has(toDevice, OfferMsgs))
  BY CountIsNat DEF Fits
<1>2. CountOf(chain, Held) \in Nat /\ (CountOf(chain, Held) = 0 <=> ~Has(chain, Held))
  BY CountIsNat DEF Fits
<1>3. CountOf(tasks, Kept) \in Nat /\ (CountOf(tasks, Kept) = 0 <=> ~Has(tasks, Kept))
  BY CountIsNat DEF Fits
<1>4. CountOf(toViewer, AnswerMsgs) \in Nat /\ (CountOf(toViewer, AnswerMsgs) = 0 <=> ~Has(toViewer, AnswerMsgs))
  BY CountIsNat DEF Fits
<1>5. One(InLoop) \in {0, 1} /\ (One(InLoop) = 0 <=> ~InLoop)
  BY DEF One
<1>6. QED
  BY <1>1, <1>2, <1>3, <1>4, <1>5

LEMMA OnePlace ==
  ASSUME Fits, OneExchange
  PROVE  /\ InLoop => ~Has(chain, Held) /\ ~Has(tasks, Kept) /\ ~Has(toDevice, OfferMsgs) /\ ~Has(toViewer, AnswerMsgs)
         /\ Has(chain, Held) => ~InLoop /\ ~Has(tasks, Kept) /\ ~Has(toDevice, OfferMsgs) /\ ~Has(toViewer, AnswerMsgs)
         /\ Has(tasks, Kept) => ~InLoop /\ ~Has(chain, Held) /\ ~Has(toDevice, OfferMsgs) /\ ~Has(toViewer, AnswerMsgs)
         /\ Has(toDevice, OfferMsgs) => ~InLoop /\ ~Has(chain, Held) /\ ~Has(tasks, Kept) /\ ~Has(toViewer, AnswerMsgs)
         /\ Has(toViewer, AnswerMsgs) => ~InLoop /\ ~Has(chain, Held) /\ ~Has(tasks, Kept) /\ ~Has(toDevice, OfferMsgs)
         /\ InLoop \/ Has(chain, Held) \/ Has(tasks, Kept) \/ Has(toDevice, OfferMsgs) \/ Has(toViewer, AnswerMsgs)
              => viewer.state = "local"
         /\ viewer.state = "local" /\ ~raced =>
              InLoop \/ Has(chain, Held) \/ Has(tasks, Kept) \/ Has(toDevice, OfferMsgs) \/ Has(toViewer, AnswerMsgs)
<1> DEFINE d == CountOf(toDevice, OfferMsgs)
           l == One(InLoop)
           c == CountOf(chain, Held)
           t == CountOf(tasks, Kept)
           v == CountOf(toViewer, AnswerMsgs)
<1>1. /\ d \in Nat /\ l \in Nat /\ c \in Nat /\ t \in Nat /\ v \in Nat
      /\ d + l + c + t + v <= 1
      /\ viewer.state = "stable" => d + l + c + t + v = 0
      /\ viewer.state = "local" /\ ~raced => d + l + c + t + v = 1
  BY Counts DEF OneExchange, Tokens
<1>2. /\ d # 0 <=> Has(toDevice, OfferMsgs)
      /\ l # 0 <=> InLoop
      /\ c # 0 <=> Has(chain, Held)
      /\ t # 0 <=> Has(tasks, Kept)
      /\ v # 0 <=> Has(toViewer, AnswerMsgs)
  BY Counts
<1>3. viewer.state \in {"stable", "local"}
  BY DEF Fits
<1> HIDE DEF d, l, c, t, v
<1>4. /\ l # 0 => c = 0 /\ t = 0 /\ d = 0 /\ v = 0
      /\ c # 0 => l = 0 /\ t = 0 /\ d = 0 /\ v = 0
      /\ t # 0 => l = 0 /\ c = 0 /\ d = 0 /\ v = 0
      /\ d # 0 => l = 0 /\ c = 0 /\ t = 0 /\ v = 0
      /\ v # 0 => l = 0 /\ c = 0 /\ t = 0 /\ d = 0
  BY <1>1
<1>5. l # 0 \/ c # 0 \/ t # 0 \/ d # 0 \/ v # 0 => viewer.state = "local"
  BY <1>1, <1>3
<1>6. viewer.state = "local" /\ ~raced => l # 0 \/ c # 0 \/ t # 0 \/ d # 0 \/ v # 0
  BY <1>1
<1>7. QED
  BY <1>2, <1>4, <1>5, <1>6

LEMMA AnswersFit == IInv => AnswerFits
<1> SUFFICES ASSUME IInv, NEW i \in 1..Len(toViewer), toViewer[i].type = "answer"
             PROVE  /\ viewer.state = "local" /\ toViewer[i].n = viewer.offer
                    /\ \A j \in 1..(i - 1) : toViewer[j].type # "answer"
  BY DEF AnswerFits
<1> DEFINE q == toViewer
<1>1. q \in Seq(ToViewerFits(viewer.offer)) /\ Len(q) \in Nat
  BY LenProperties DEF IInv, Fits
<1>2. \A j \in 1..Len(q) : q[j] \in ToViewerFits(viewer.offer)
  BY <1>1, ElementOfSeq
<1>3. q[i] \in AnswerMsgs /\ q[i].n = viewer.offer
  BY <1>2 DEF ToViewerFits, AnswerMsgs
<1>4. Has(toViewer, AnswerMsgs)
  BY <1>3 DEF Has
<1>5. viewer.state = "local"
  BY <1>4, OnePlace DEF IInv
<1>6. ASSUME NEW j \in 1..(i - 1), q[j].type = "answer" PROVE FALSE
  <2>1. j \in 1..Len(q) /\ j # i
    BY <1>1
  <2>2. q[j] \in AnswerMsgs
    BY <1>2, <1>6, <2>1 DEF ToViewerFits, AnswerMsgs
  <2>3. CountOf(q, AnswerMsgs) >= 2
    BY <1>1, <1>3, <2>1, <2>2, CountTwo
  <2>4. /\ CountOf(toDevice, OfferMsgs) \in Nat /\ One(InLoop) \in {0, 1} /\ CountOf(chain, Held) \in Nat
        /\ CountOf(tasks, Kept) \in Nat /\ CountOf(toViewer, AnswerMsgs) \in Nat /\ Tokens <= 1
    BY Counts DEF IInv, OneExchange
  <2>5. QED
    BY <2>3, <2>4 DEF Tokens
<1>7. QED
  BY <1>3, <1>5, <1>6

LEMMA QuietIsStable == IInv => BothStable
<1> SUFFICES ASSUME IInv, Quiet, ~raced PROVE sig = "stable" /\ viewer.state = "stable"
  BY DEF BothStable
<1>1. chain = <<>> /\ tasks = <<>> /\ loop.op = "idle" /\ toDevice = <<>> /\ toViewer = <<>>
  BY DEF Quiet
<1>2. \A T : ~Has(chain, T) /\ ~Has(tasks, T) /\ ~Has(toDevice, T) /\ ~Has(toViewer, T)
  BY <1>1, Empty
<1>3. viewer.state # "local"
  BY <1>1, <1>2, OnePlace DEF IInv, InLoop
<1>4. sig # "remote"
  BY <1>1, <1>2 DEF IInv, RemoteKept, Answering
<1>5. NoOffers /\ ~Closing
  BY <1>1, <1>2 DEF NoOffers, Closing, Closes
<1>6. sig # "local"
  BY <1>5 DEF IInv, LocalKept, LastOpen
<1>7. QED
  BY <1>3, <1>4, <1>6 DEF IInv, Fits, States

LEMMA Implied == IInv => NegotiationInv
  BY Types, AnswersFit, QuietIsStable DEF IInv, NegotiationInv

LEMMA Initial == Init => IInv
<1> SUFFICES ASSUME Init PROVE IInv
  OBVIOUS
<1>1. /\ chain = <<>> /\ tasks = <<>> /\ loop = Idle /\ toDevice = <<>> /\ toViewer = <<>>
      /\ sig = "stable" /\ viewer = [state |-> "stable", offer |-> 0] /\ offers = 0
  BY DEF Init
<1>2. None \in Messages /\ None.type = "offer" /\ None.by = "viewer"
  BY DEF None, Offer, Messages, Sides, Media
<1>3. Idle \in LoopFits(0) /\ Idle.op = "idle"
  BY <1>2 DEF Idle, LoopFits, LoopOps, States
<1>4. Flags
  BY DEF Init, Flags
<1>5. Fits
  <2>1. viewer.offer = 0 /\ 0 \in 0..MaxOffers
    BY <1>1, NegotiationAssumption
  <2>2. <<>> \in Seq(ChainFits(0)) /\ <<>> \in Seq(TaskFits(0)) /\ <<>> \in Seq(ToDeviceFits(0)) /\ <<>> \in Seq(ToViewerFits(0))
    OBVIOUS
  <2>3. QED
    BY <1>1, <1>3, <2>1, <2>2 DEF Fits, States
<1>6. \A T : ~Has(chain, T) /\ ~Has(tasks, T) /\ CountOf(toDevice, T) = 0 /\ CountOf(chain, T) = 0
             /\ CountOf(tasks, T) = 0 /\ CountOf(toViewer, T) = 0
  BY <1>1, Empty
<1>7. Tokens = 0
  <2>1. One(InLoop) = 0
    BY <1>1, <1>3 DEF One, InLoop
  <2>2. QED
    BY <1>6, <2>1 DEF Tokens
<1>8. OneExchange
  BY <1>1, <1>7 DEF OneExchange
<1>9. ~Answering
  BY <1>1, <1>3, <1>6 DEF Answering
<1>10. Order
  BY <1>1, <1>6, <1>9 DEF Order, Sorted
<1>11. RemoteKept
  BY <1>1, <1>6, <1>9 DEF RemoteKept
<1>12. LocalKept
  BY <1>1 DEF LocalKept, LastOpen, Opens, Short
<1>13. QED
  BY <1>4, <1>5, <1>8, <1>10, <1>11, <1>12 DEF IInv

-------------------------------------------------------------------------------
(* Steps of a queue. *)

LEMMA SortedTaken ==
  ASSUME NEW S, NEW c \in Seq(S), c # <<>>, Sorted(c)
  PROVE  /\ Sorted(Tail(c))
         /\ Head(c) \in CreateAnswers =>
              ~Has(Tail(c), SetOffers) /\ ~Has(Tail(c), SetAnswers) /\ ~Has(Tail(c), Rollbacks)
         /\ Head(c) \in SetOffers => ~Has(Tail(c), SetAnswers)
         /\ Head(c) \in SetAnswers => ~Has(Tail(c), SetAnswers)
<1> DEFINE t == Tail(c)
           n == Len(c)
<1>1. n \in Nat \ {0} /\ Head(c) = c[1] /\ Len(t) = n - 1 /\ \A i \in 1..Len(t) : t[i] = c[i + 1]
  BY Taken
<1> HIDE DEF n, t
<1>2. \A i \in 1..Len(t) : i + 1 \in 1..n /\ t[i] = c[i + 1] /\ 1 < i + 1
  BY <1>1
<1>3. \A i, j \in 1..Len(t) : i < j => i + 1 < j + 1
  BY <1>1
<1>4. 1 \in 1..n
  BY <1>1
<1>5. Sorted(t)
  BY <1>2, <1>3 DEF Sorted, n
<1>6. ASSUME NEW i \in 1..Len(t)
      PROVE  /\ Head(c) \in CreateAnswers => t[i] \notin SetOffers /\ t[i] \notin SetAnswers /\ t[i] \notin Rollbacks
             /\ Head(c) \in SetOffers => t[i] \notin SetAnswers
             /\ Head(c) \in SetAnswers => t[i] \notin SetAnswers
  BY <1>1, <1>2, <1>4 DEF Sorted, n
<1>7. QED
  BY <1>5, <1>6 DEF Has, t

LEMMA SortedAppended ==
  ASSUME NEW S, NEW c \in Seq(S), NEW x \in S, Sorted(c),
         x \in SetOffers \cup SetAnswers \cup Rollbacks => ~Has(c, CreateAnswers),
         x \in SetAnswers => ~Has(c, SetOffers) /\ ~Has(c, SetAnswers)
  PROVE  Sorted(Append(c, x))
<1> DEFINE a == Append(c, x)
           n == Len(c)
<1>1. n \in Nat /\ Len(a) = n + 1 /\ a[n + 1] = x /\ \A i \in 1..n : a[i] = c[i]
  BY Appended
<1> HIDE DEF n, a
<1>2. \A i, j \in 1..Len(a) : i < j => i \in 1..n /\ a[i] = c[i] /\ (j = n + 1 \/ (j \in 1..n /\ a[j] = c[j]))
  BY <1>1
<1> SUFFICES ASSUME NEW i \in 1..Len(a), NEW j \in 1..Len(a), i < j
             PROVE  /\ a[i] \in CreateAnswers => a[j] \notin SetOffers \cup SetAnswers \cup Rollbacks
                    /\ a[i] \in SetOffers => a[j] \notin SetAnswers
                    /\ a[i] \in SetAnswers => a[j] \notin SetAnswers
  BY DEF Sorted, a
<1>3. i \in 1..n /\ a[i] = c[i]
  BY <1>2
<1>4. CASE j = n + 1
  BY <1>1, <1>3, <1>4 DEF Has, n
<1>5. CASE j \in 1..n /\ a[j] = c[j]
  BY <1>3, <1>5 DEF Sorted, n
<1>6. QED
  BY <1>2, <1>4, <1>5

LEMMA FollowedTaken ==
  ASSUME NEW S, NEW q \in Seq(S), q # <<>>, Followed(q)
  PROVE  Followed(Tail(q)) /\ (Has(q, AnswerMsgs) => Has(Tail(q), OfferMsgs))
<1> DEFINE t == Tail(q)
           n == Len(q)
<1>1. n \in Nat \ {0} /\ Len(t) = n - 1 /\ \A i \in 1..Len(t) : t[i] = q[i + 1]
  BY Taken
<1> HIDE DEF n, t
<1>2. \A i \in 1..Len(t) : i + 1 \in 1..n /\ t[i] = q[i + 1]
  BY <1>1
<1>3. \A i, j \in 1..n : i < j => j - 1 \in 1..Len(t) /\ t[j - 1] = q[j]
  BY <1>1
<1>4. ASSUME NEW i \in 1..n, q[i] \in AnswerMsgs
      PROVE  \E j \in 1..Len(t) : i < j + 1 /\ t[j] \in OfferMsgs
  <2>1. PICK j \in 1..n : i < j /\ q[j] \in OfferMsgs
    BY <1>4 DEF Followed, n
  <2>2. j - 1 \in 1..Len(t) /\ t[j - 1] = q[j]
    BY <1>3, <2>1
  <2>3. i < (j - 1) + 1
    BY <1>1, <2>1
  <2>4. QED
    BY <2>1, <2>2, <2>3
<1>5. ASSUME NEW i \in 1..Len(t), t[i] \in AnswerMsgs
      PROVE  \E j \in 1..Len(t) : i < j /\ t[j] \in OfferMsgs
  <2>1. i + 1 \in 1..n /\ q[i + 1] \in AnswerMsgs
    BY <1>2, <1>5
  <2>2. PICK j \in 1..Len(t) : i + 1 < j + 1 /\ t[j] \in OfferMsgs
    BY <1>4, <2>1
  <2>3. i < j
    BY <1>1, <2>2
  <2>4. QED
    BY <2>2, <2>3
<1>6. Has(q, AnswerMsgs) => Has(t, OfferMsgs)
  BY <1>4 DEF Has, n
<1>7. QED
  BY <1>5, <1>6 DEF Followed, t

LEMMA FollowedByOffer ==
  ASSUME NEW S, NEW q \in Seq(S), NEW m \in S, m \in OfferMsgs
  PROVE  Followed(Append(q, m))
<1> DEFINE a == Append(q, m)
           n == Len(q)
<1>1. n \in Nat /\ Len(a) = n + 1 /\ a[n + 1] = m
  BY Appended
<1> HIDE DEF n, a
<1>2. m \notin AnswerMsgs
  BY Kinds
<1>3. \A i \in 1..Len(a) : a[i] \in AnswerMsgs => n + 1 \in 1..Len(a) /\ i < n + 1
  BY <1>1, <1>2
<1>4. QED
  BY <1>1, <1>3 DEF Followed, a

-------------------------------------------------------------------------------
(* The chain when the signaling thread is free. *)

LEMMA Facts ==
  ASSUME IInv
  PROVE  /\ Flags /\ Fits /\ OneExchange /\ Order /\ Sorted(chain)
         /\ chain \in Seq(ChainFits(viewer.offer)) /\ tasks \in Seq(TaskFits(viewer.offer))
         /\ loop \in LoopFits(viewer.offer)
         /\ toDevice \in Seq(ToDeviceFits(viewer.offer)) /\ toViewer \in Seq(ToViewerFits(viewer.offer))
         /\ sig \in States
  BY DEF IInv, Fits, Order

LEMMA HeadKinds ==
  ASSUME IInv, chain # <<>>
  PROVE  /\ Head(chain) \in ChainOps /\ Head(chain) \in ChainFits(viewer.offer)
         /\ Head(chain).msg \in Messages
         /\ SignalingFree => Head(chain) \in CreateOffers \/ Head(chain) \in CreateAnswers
<1>1. Head(chain) \in ChainFits(viewer.offer)
  BY Facts, Taken
<1>2. Head(chain) \in ChainOps
  BY <1>1, FitsAre
<1>3. Head(chain).msg \in Messages /\ Head(chain).op \in Creates \cup Sets
  BY <1>2 DEF ChainOps
<1>4. QED
  BY <1>1, <1>2, <1>3 DEF SignalingFree, SetFirst, CreateOffers, CreateAnswers, Creates

LEMMA FirstOfAll ==
  ASSUME IInv, chain # <<>>, NEW T, Head(chain) \in T
  PROVE  Has(chain, T)
  BY Facts, HasTaken

\* An answer that is made next is to an offer that has been set.
LEMMA AnswerNext ==
  ASSUME IInv, chain # <<>>, Head(chain) \in CreateAnswers
  PROVE  /\ ~Has(chain, SetOffers) /\ ~Has(chain, SetAnswers) /\ ~Has(chain, Rollbacks)
         /\ ~raced => sig = "remote" /\ Harmless
<1>1. Sorted(chain) /\ chain \in Seq(ChainFits(viewer.offer))
  BY Facts
<1>2. ~Has(Tail(chain), SetOffers) /\ ~Has(Tail(chain), SetAnswers) /\ ~Has(Tail(chain), Rollbacks)
  BY <1>1, SortedTaken
<1>3. ~Has(chain, SetOffers) /\ ~Has(chain, SetAnswers) /\ ~Has(chain, Rollbacks)
  BY <1>1, <1>2, Kinds, HasTaken
<1>4. Answering
  BY FirstOfAll DEF Answering
<1>5. QED
  BY <1>3, <1>4 DEF IInv, RemoteKept, Harmless

LEMMA AtRest ==
  ASSUME IInv, SignalingFree, ~Has(chain, CreateOffers)
  PROVE  chain = <<>> \/ (chain # <<>> /\ Head(chain) \in CreateAnswers)
  BY HeadKinds, FirstOfAll

LEMMA NoOfferBeforeCheck ==
  ASSUME IInv, ~Answering
  PROVE  ~Has(chain, SetOffers) /\ ~Has(chain, CreateAnswers)
  BY DEF IInv, Order, Answering

LEMMA Exchange ==
  ASSUME IInv, viewer' = viewer, raced => raced', Tokens' = Tokens \/ (raced' /\ Tokens' <= Tokens /\ Tokens' \in Nat)
  PROVE  OneExchange'
<1>1. Tokens \in Nat
  BY Facts, Counts DEF Tokens
<1>2. Tokens <= 1 /\ (viewer.state = "stable" => Tokens = 0) /\ (viewer.state = "local" /\ ~raced => Tokens = 1)
  BY Facts DEF OneExchange
<1>3. Tokens' <= 1 /\ (viewer.state = "stable" => Tokens' = 0) /\ (viewer.state = "local" /\ ~raced' => Tokens' = 1)
  BY <1>1, <1>2
<1>4. QED
  BY <1>3 DEF OneExchange

LEMMA AskFits ==
  ASSUME NEW n
  PROVE  CreateOffer("stable") = <<Op("createOffer", None)>>
         /\ Op("createOffer", None) \in ChainFits(n) /\ Op("createOffer", None) \in CreateOffers
         /\ Op("createOffer", None) \notin Held /\ Op("createOffer", None) \notin CreateAnswers
         /\ Op("createOffer", None) \notin SetOffers /\ Op("createOffer", None) \notin SetAnswers
         /\ Op("createOffer", None) \notin Rollbacks
<1> DEFINE x == Op("createOffer", None)
<1>1. None \in Messages
  BY DEF None, Offer, Messages, Sides, Media
<1>2. x.op = "createOffer" /\ x \in ChainOps
  BY <1>1 DEF Op, ChainOps, Creates, States
<1>3. CreateOffer("stable") = <<x>>
  BY DEF CreateOffer
<1> HIDE DEF x
<1>4. QED
  BY <1>2, <1>3 DEF ChainFits, CreateOffers, Held, CreateAnswers, SetOffers, SetAnswers, Rollbacks, x

-------------------------------------------------------------------------------
(* One step at a time. *)

LEMMA FlagsKept == Flags /\ Next => Flags'
<1> SUFFICES ASSUME Flags, Next PROVE Flags'
  OBVIOUS
<1> USE DEF Flags
<1>1. CASE RunSet
  <2>1. raced' \in BOOLEAN /\ connected' \in BOOLEAN /\ added' \in BOOLEAN
    BY <1>1, Zenon DEF RunSet
  <2>2. needs' \in BOOLEAN /\ changed' \in BOOLEAN /\ told' \in BOOLEAN
    BY <1>1, Zenon DEF RunSet, SetLocal, SetRemote, Rollback, OnStable, OnOffer, Refused, Negotiated
  <2>3. QED
    BY <2>1, <2>2
<1>2. CASE RunCreate
  BY <1>2, Zenon DEF RunCreate, trackVars
<1>3. CASE RunTask
  BY <1>3, Zenon DEF RunTask, trackVars
<1>4. CASE NegotiationNeeded
  BY <1>4, Zenon DEF NegotiationNeeded, OnRenegotiationNeeded
<1>5. CASE OnConnectionChange
  BY <1>5, Zenon DEF OnConnectionChange, trackVars
<1>6. CASE Receive \/ AddTracks
  BY <1>6, Zenon DEF Receive, AddTracks, peerVars, trackVars
<1>7. CASE SetRemoteSdp
  BY <1>7, Zenon DEF SetRemoteSdp, CheckSdp, trackVars
<1>8. CASE ViewerOffers \/ ViewerReceives
  BY <1>8, Zenon DEF ViewerOffers, ViewerReceives, peerVars, trackVars
<1>9. QED
  BY <1>1, <1>2, <1>3, <1>4, <1>5, <1>6, <1>7, <1>8, Zenon DEF Next, PeerConnectionStep, ServiceStep

\* The service's thread moves on, with nothing done to the chain.
LEMMA ThreadMoves ==
  ASSUME IInv, Flags', UNCHANGED <<sig, chain, tasks, raced, toViewer, viewer, offers>>,
         toDevice' \in Seq(ToDeviceFits(viewer.offer)), loop' \in LoopFits(viewer.offer),
         CountOf(toDevice', OfferMsgs) + One(InLoop') = CountOf(toDevice, OfferMsgs) + One(InLoop),
         loop.op # "answer" /\ loop'.op # "answer",
         loop'.op \in {"tracks", "check", "rollback", "set"} \/ (sig = "stable" /\ SignalingFree)
  PROVE  IInv'
<1>1. Fits'
  BY Facts DEF Fits
<1>2. Tokens' = Tokens
  <2>1. /\ CountOf(chain', Held) = CountOf(chain, Held) /\ CountOf(tasks', Kept) = CountOf(tasks, Kept)
        /\ CountOf(toViewer', AnswerMsgs) = CountOf(toViewer, AnswerMsgs)
    OBVIOUS
  <2>2. /\ CountOf(toDevice, OfferMsgs) \in Nat /\ One(InLoop) \in Nat /\ CountOf(chain, Held) \in Nat
        /\ CountOf(tasks, Kept) \in Nat /\ CountOf(toViewer, AnswerMsgs) \in Nat
    BY Facts, Counts
  <2>3. QED
    BY <2>1, <2>2 DEF Tokens
<1>3. OneExchange'
  BY <1>2, Exchange
<1>4. Answering' <=> Answering
  BY DEF Answering
<1>5. Order'
  BY <1>4, Facts DEF Order
<1>6. ASSUME ~raced' PROVE RemoteKept' /\ LocalKept'
  <2>1. RemoteKept /\ LocalKept
    BY <1>6 DEF IInv
  <2>2. RemoteKept'
    BY <1>4, <2>1 DEF RemoteKept
  <2>3. (NoOffers' <=> NoOffers) /\ (Short' <=> Short) /\ (LastOpen' <=> LastOpen)
    BY DEF NoOffers, Short, Harmless, LastOpen, Opens
  <2>4. LastOpen => Closing'
    <3>1. CASE loop'.op \in {"tracks", "check", "rollback", "set"}
      BY <3>1 DEF Closing
    <3>2. CASE sig = "stable" /\ SignalingFree
      BY <3>2 DEF LastOpen, Opens, SignalingFree, SetFirst, Sets
    <3>3. QED
      BY <3>1, <3>2
  <2>5. QED
    BY <2>1, <2>2, <2>3, <2>4 DEF LocalKept
<1>7. QED
  BY <1>1, <1>3, <1>5, <1>6 DEF IInv

LEMMA ChainAppended ==
  ASSUME IInv, NEW n, chain \in Seq(ChainFits(n)), NEW x \in ChainFits(n)
  PROVE  /\ Append(chain, x) \in Seq(ChainFits(n)) /\ Append(chain, x) # <<>>
         /\ \A T : Has(Append(chain, x), T) <=> Has(chain, T) \/ x \in T
         /\ CountOf(Append(chain, x), Held) = CountOf(chain, Held) + One(x \in Held)
         /\ chain = <<>> => Len(Append(chain, x)) = 1 /\ Head(Append(chain, x)) = x
         /\ chain # <<>> => Head(Append(chain, x)) = Head(chain)
<1>1. /\ Append(chain, x) \in Seq(ChainFits(n)) /\ Append(chain, x) # <<>>
      /\ Len(chain) \in Nat /\ Len(Append(chain, x)) = Len(chain) + 1
      /\ Append(chain, x)[Len(chain) + 1] = x /\ \A i \in 1..Len(chain) : Append(chain, x)[i] = chain[i]
  BY Appended
<1>2. \A T : Has(Append(chain, x), T) <=> Has(chain, T) \/ x \in T
  BY HasAppended
<1>3. CountOf(Append(chain, x), Held) = CountOf(chain, Held) + One(x \in Held)
  BY HasAppended
<1>4. Head(Append(chain, x)) = Append(chain, x)[1]
  BY <1>1, Taken
<1>5. ASSUME chain = <<>> PROVE Len(Append(chain, x)) = 1 /\ Head(Append(chain, x)) = x
  <2>1. Len(chain) = 0
    BY <1>5
  <2>2. QED
    BY <1>1, <1>4, <2>1
<1>6. ASSUME chain # <<>> PROVE Head(Append(chain, x)) = Head(chain)
  <2>1. 1 \in 1..Len(chain) /\ Head(chain) = chain[1]
    BY <1>6, <1>1, Taken
  <2>2. QED
    BY <1>1, <1>4, <2>1
<1>7. QED
  BY <1>1, <1>2, <1>3, <1>5, <1>6

LEMMA OfReceive == IInv /\ Flags' /\ Receive => IInv'
<1> SUFFICES ASSUME IInv, Flags', Receive PROVE IInv'
  OBVIOUS
<1> DEFINE m == Head(toDevice)
           n == viewer.offer
<1>1. /\ loop.op = "idle" /\ toDevice # <<>> /\ toDevice' = Tail(toDevice)
      /\ loop' = [loop EXCEPT !.op = IF m.type = "offer" /\ m.media # "none" THEN "tracks" ELSE "check", !.msg = m]
      /\ UNCHANGED <<sig, chain, tasks, raced, toViewer, viewer, offers>>
  BY DEF Receive, peerVars
<1>2. m \in ToDeviceFits(n) /\ toDevice' \in Seq(ToDeviceFits(n))
      /\ CountOf(toDevice, OfferMsgs) = CountOf(toDevice', OfferMsgs) + One(m \in OfferMsgs)
      /\ CountOf(toDevice', OfferMsgs) \in Nat
  BY <1>1, Facts, Taken, HasTaken, CountIsNat
<1>3. m \in Messages /\ (m.type = "offer" => m.n = n /\ m.by = "viewer") /\ (m \in OfferMsgs <=> m.type = "offer")
  BY <1>2 DEF ToDeviceFits, OfferMsgs
<1>4. loop \in LoopOps
  BY Facts, FitsAre
<1> HIDE DEF m
<1>5. /\ loop'.op \in {"tracks", "check"} /\ loop'.msg = m /\ loop' \in LoopOps
      /\ loop'.op = "tracks" => m.type = "offer"
  BY <1>1, <1>3, <1>4 DEF LoopOps
<1>6. loop' \in LoopFits(n)
  BY <1>3, <1>5 DEF LoopFits
<1>7. One(InLoop) = 0 /\ One(InLoop') = One(m \in OfferMsgs)
  BY <1>1, <1>3, <1>5 DEF InLoop, One
<1>8. CountOf(toDevice', OfferMsgs) + One(InLoop') = CountOf(toDevice, OfferMsgs) + One(InLoop)
  <2>1. One(m \in OfferMsgs) \in Nat
    BY DEF One
  <2>2. QED
    BY <1>2, <1>7, <2>1 DEF m
<1>9. QED
  BY <1>1, <1>2, <1>5, <1>6, <1>8, ThreadMoves

LEMMA OfAddTracks == IInv /\ Flags' /\ AddTracks => IInv'
<1> SUFFICES ASSUME IInv, Flags', AddTracks PROVE IInv'
  OBVIOUS
<1>1. /\ loop.op = "tracks" /\ loop' = [loop EXCEPT !.op = "check"] /\ toDevice' = toDevice
      /\ UNCHANGED <<sig, chain, tasks, raced, toViewer, viewer, offers>>
  BY DEF AddTracks, peerVars, viewerVars
<1>2. loop \in LoopOps /\ loop \in LoopFits(viewer.offer)
  BY Facts, FitsAre
<1>3. loop'.op = "check" /\ loop'.msg = loop.msg /\ loop' \in LoopOps
  BY <1>1, <1>2 DEF LoopOps
<1>4. loop' \in LoopFits(viewer.offer)
  BY <1>1, <1>2, <1>3 DEF LoopFits
<1>5. InLoop' <=> InLoop
  BY <1>1, <1>3 DEF InLoop
<1>6. CountOf(toDevice', OfferMsgs) + One(InLoop') = CountOf(toDevice, OfferMsgs) + One(InLoop)
  BY <1>1, <1>5 DEF One
<1>7. toDevice' \in Seq(ToDeviceFits(viewer.offer))
  BY <1>1, Facts
<1>8. QED
  BY <1>1, <1>3, <1>4, <1>6, <1>7, ThreadMoves

LEMMA IdleFits == ASSUME NEW n PROVE Idle \in LoopFits(n) /\ Idle.op = "idle"
<1>1. None \in Messages /\ None.type = "offer" /\ None.by = "viewer"
  BY DEF None, Offer, Messages, Sides, Media
<1>2. QED
  BY <1>1 DEF Idle, LoopFits, LoopOps, States

LEMMA OfCheckSdp ==
  IInv /\ Flags' /\ CheckSdp /\ UNCHANGED <<raced, sig, chain, tasks, viewerVars, toViewer>> => IInv'
<1> SUFFICES ASSUME IInv, Flags', CheckSdp, UNCHANGED <<raced, sig, chain, tasks, viewerVars, toViewer>> PROVE IInv'
  OBVIOUS
<1>1. /\ loop.op = "check" /\ SignalingFree /\ toDevice' = toDevice
      /\ UNCHANGED <<sig, chain, tasks, raced, toViewer, viewer, offers>>
  BY DEF CheckSdp, viewerVars
<1>2. loop \in LoopOps /\ loop \in LoopFits(viewer.offer) /\ sig \in States
      /\ toDevice' \in Seq(ToDeviceFits(viewer.offer))
  BY <1>1, Facts, FitsAre
<1>3. CASE loop.msg.type = "answer" /\ sig = "stable" /\ loop' = Idle
  <2>1. loop' \in LoopFits(viewer.offer) /\ loop'.op = "idle"
    BY <1>3, IdleFits
  <2>2. ~InLoop /\ ~InLoop'
    BY <1>3, <2>1 DEF InLoop
  <2>3. CountOf(toDevice', OfferMsgs) + One(InLoop') = CountOf(toDevice, OfferMsgs) + One(InLoop)
    BY <1>1, <2>2 DEF One
  <2>4. QED
    BY <1>1, <1>2, <1>3, <2>1, <2>3, ThreadMoves
<1>4. ASSUME NEW o \in {"rollback", "set"}, loop' = [loop EXCEPT !.op = o, !.saw = sig],
             o = "rollback" <=> loop.msg.type = "offer" /\ sig = "local"
      PROVE  IInv'
  <2>1. loop'.op = o /\ loop'.msg = loop.msg /\ loop'.saw = sig /\ loop' \in LoopOps
    BY <1>2, <1>4 DEF LoopOps
  <2>2. loop' \in LoopFits(viewer.offer)
    BY <1>1, <1>2, <1>4, <2>1 DEF LoopFits
  <2>3. InLoop' <=> InLoop
    BY <1>1, <1>4, <2>1 DEF InLoop
  <2>4. CountOf(toDevice', OfferMsgs) + One(InLoop') = CountOf(toDevice, OfferMsgs) + One(InLoop)
    BY <1>1, <2>3 DEF One
  <2>5. QED
    BY <1>1, <1>2, <1>4, <2>1, <2>2, <2>4, ThreadMoves
<1>5. QED
  BY <1>3, <1>4 DEF CheckSdp

\* The loop hands its offer to the chain, or keeps it.
LEMMA ThreadCalls ==
  ASSUME IInv, Flags', SignalingFree, NEW x \in ChainFits(viewer.offer), chain' = Append(chain, x),
         UNCHANGED <<raced, sig, tasks, viewerVars, toViewer>>,
         loop' \in LoopFits(viewer.offer),
         One(x \in Held) + One(InLoop') = One(InLoop),
         Order', ~raced => RemoteKept',
         ~Has(chain, CreateAnswers) \/ (x.op = "setRemote" /\ x \notin SetOffers),
         x \notin CreateOffers,
         x.op \in {"rollback", "setRemote"} \/ loop.op = "answer"
  PROVE  IInv'
<1>1. /\ chain' \in Seq(ChainFits(viewer.offer)) /\ chain' # <<>>
      /\ \A T : Has(chain', T) <=> Has(chain, T) \/ x \in T
      /\ CountOf(chain', Held) = CountOf(chain, Held) + One(x \in Held)
      /\ chain = <<>> => Len(chain') = 1 /\ Head(chain') = x
      /\ chain # <<>> => Head(chain') = Head(chain)
  BY Facts, ChainAppended
<1>2. UNCHANGED <<raced, sig, tasks, viewer, offers, toDevice, toViewer>>
  BY DEF viewerVars
<1>3. Fits'
  BY <1>1, <1>2, Facts DEF Fits
<1>4. Tokens' = Tokens
  <2>1. /\ CountOf(toDevice', OfferMsgs) = CountOf(toDevice, OfferMsgs) /\ CountOf(tasks', Kept) = CountOf(tasks, Kept)
        /\ CountOf(toViewer', AnswerMsgs) = CountOf(toViewer, AnswerMsgs)
    BY <1>2
  <2>2. /\ CountOf(toDevice, OfferMsgs) \in Nat /\ CountOf(chain, Held) \in Nat
        /\ CountOf(tasks, Kept) \in Nat /\ CountOf(toViewer, AnswerMsgs) \in Nat
    BY Facts, Counts
  <2>3. One(InLoop) \in Nat /\ One(InLoop') \in Nat /\ One(x \in Held) \in Nat
    BY DEF One
  <2>4. QED
    BY <1>1, <2>1, <2>2, <2>3 DEF Tokens
<1>5. OneExchange'
  BY <1>2, <1>4, Exchange
<1>6. ASSUME ~raced' PROVE LocalKept'
  <2>1. RemoteKept /\ LocalKept /\ ~raced
    BY <1>2, <1>6 DEF IInv
  <2> SUFFICES ASSUME NoOffers' PROVE Short' /\ (LastOpen' => Closing' /\ Followed(toViewer'))
    BY DEF LocalKept
  <2>2. NoOffers
    BY <1>1, <1>2 DEF NoOffers
  <2>3. CASE chain = <<>>
    <3>1. Len(chain') = 1 /\ Head(chain') = x
      BY <1>1, <2>3
    <3>2. Short'
      BY <3>1 DEF Short
    <3>3. CASE x.op \in {"rollback", "setRemote"}
      <4>1. Closing'
        BY <1>1, <3>1, <3>3 DEF Closing, Closes
      <4>2. LastOpen' => LastOpen
        BY <1>2, <3>1, <3>3 DEF LastOpen, Opens
      <4>3. QED
        BY <1>2, <2>1, <2>2, <3>2, <4>1, <4>2 DEF LocalKept
    <3>4. CASE loop.op = "answer"
      <4>1. ~Has(chain, SetOffers)
        BY <2>3, Empty
      <4>2. sig = "remote"
        BY <2>1, <3>4, <4>1 DEF RemoteKept, Answering
      <4>3. QED
        BY <1>2, <3>2, <4>2 DEF LastOpen
    <3>5. QED
      BY <3>3, <3>4
  <2>4. CASE chain # <<>>
    <3>1. Head(chain) \in CreateAnswers
      BY <2>2, <2>4, AtRest DEF NoOffers
    <3>2. Harmless /\ sig = "remote"
      BY <2>1, <2>4, <3>1, AnswerNext
    <3>3. Has(chain, CreateAnswers)
      BY <2>4, <3>1, FirstOfAll
    <3>4. x.op = "setRemote" /\ x \notin SetOffers
      BY <3>3
    <3>5. x \notin SetAnswers /\ x \notin Rollbacks
      BY <3>4 DEF SetAnswers, Rollbacks
    <3>6. Harmless'
      BY <1>1, <1>2, <3>2, <3>4, <3>5 DEF Harmless
    <3>7. QED
      BY <1>2, <3>2, <3>6 DEF Short, LastOpen
  <2>5. QED
    BY <2>3, <2>4
<1>7. QED
  BY <1>2, <1>3, <1>5, <1>6 DEF IInv

LEMMA OfCallRollback ==
  IInv /\ Flags' /\ CallRollback /\ UNCHANGED <<raced, sig, tasks, viewerVars, toViewer>> => IInv'
<1> SUFFICES ASSUME IInv, Flags', CallRollback, UNCHANGED <<raced, sig, tasks, viewerVars, toViewer>> PROVE IInv'
  OBVIOUS
<1> DEFINE x == OpSeen("rollback", loop.msg, loop.saw)
<1>1. loop.op = "rollback" /\ SignalingFree /\ chain' = Append(chain, x) /\ loop' = Idle
  BY DEF CallRollback, Call
<1>2. loop \in LoopOps /\ loop \in LoopFits(viewer.offer)
  BY Facts, FitsAre
<1>3. /\ x.op = "rollback" /\ x.msg = loop.msg /\ x.saw = "local" /\ x \in ChainFits(viewer.offer)
      /\ x \in Rollbacks /\ x \in Held /\ InLoop
  BY <1>1, <1>2 DEF OpSeen, Op, ChainFits, ChainOps, LoopOps, LoopFits, Creates, Sets, States, Rollbacks, Held, InLoop
<1> HIDE DEF x
<1>4. x \notin CreateOffers /\ x \notin CreateAnswers /\ x \notin SetOffers /\ x \notin SetAnswers
  BY <1>3, Kinds
<1>5. loop' \in LoopFits(viewer.offer) /\ loop'.op = "idle" /\ ~InLoop'
  BY <1>1, IdleFits DEF InLoop
<1>6. One(x \in Held) + One(InLoop') = One(InLoop)
  BY <1>3, <1>5 DEF One
<1>7. ~Has(chain, CreateAnswers)
  BY <1>3, Facts, OnePlace, HasKinds
<1>8. \A T : Has(chain', T) <=> Has(chain, T) \/ x \in T
  BY <1>1, <1>3, Facts, ChainAppended
<1>9. Answering' <=> Answering
  BY <1>1, <1>4, <1>5, <1>8 DEF Answering
<1>10. Sorted(chain')
  BY <1>1, <1>3, <1>4, <1>7, Facts, SortedAppended
<1>11. Order'
  BY <1>4, <1>8, <1>9, <1>10, Facts DEF Order
<1>12. ~raced => RemoteKept'
  BY <1>4, <1>8, <1>9 DEF IInv, RemoteKept
<1>13. QED
  BY <1>1, <1>3, <1>4, <1>5, <1>6, <1>7, <1>11, <1>12, ThreadCalls

LEMMA OfCallSetRemote ==
  IInv /\ Flags' /\ CallSetRemote /\ UNCHANGED <<raced, sig, tasks, viewerVars, toViewer>> => IInv'
<1> SUFFICES ASSUME IInv, Flags', CallSetRemote, UNCHANGED <<raced, sig, tasks, viewerVars, toViewer>> PROVE IInv'
  OBVIOUS
<1> DEFINE x == OpSeen("setRemote", loop.msg, loop.saw)
<1>1. /\ loop.op = "set" /\ SignalingFree /\ chain' = Append(chain, x)
      /\ loop' = IF loop.msg.type = "offer" THEN [loop EXCEPT !.op = "answer"] ELSE Idle
  BY DEF CallSetRemote, Call
<1>2. loop \in LoopOps /\ loop \in LoopFits(viewer.offer)
  BY Facts, FitsAre
<1>3. /\ x.op = "setRemote" /\ x.msg = loop.msg /\ x \in ChainFits(viewer.offer)
      /\ x \in SetOffers <=> loop.msg.type = "offer"
      /\ x \notin Held /\ x \notin Rollbacks /\ x \notin CreateOffers /\ x \notin CreateAnswers /\ x \notin SetAnswers
  <2>1. x.op = "setRemote" /\ x.msg = loop.msg /\ x.saw = loop.saw /\ x \in ChainOps
    BY <1>1, <1>2 DEF OpSeen, Op, ChainOps, LoopOps, Creates, Sets
  <2> HIDE DEF x
  <2>2. QED
    BY <1>1, <1>2, <2>1 DEF ChainFits, LoopFits, Rollbacks, Held, SetOffers, SetAnswers, CreateOffers, CreateAnswers
<1> HIDE DEF x
<1>4. \A T : Has(chain', T) <=> Has(chain, T) \/ x \in T
  BY <1>1, <1>3, Facts, ChainAppended
<1>5. CASE loop.msg.type = "offer"
  <2>1. loop'.op = "answer" /\ loop'.msg = loop.msg /\ loop' \in LoopFits(viewer.offer)
    BY <1>1, <1>2, <1>5 DEF LoopFits, LoopOps
  <2>2. InLoop /\ InLoop'
    BY <1>1, <1>5, <2>1 DEF InLoop
  <2>3. ~Has(chain, CreateAnswers)
    BY <2>2, Facts, OnePlace, HasKinds
  <2>4. Sorted(chain')
    BY <1>1, <1>3, <2>3, Facts, SortedAppended
  <2>5. Answering' /\ Has(chain', SetOffers)
    BY <1>3, <1>4, <1>5, <2>1 DEF Answering
  <2>6. Order'
    BY <1>3, <1>4, <2>4, <2>5, Facts DEF Order
  <2>7. ~raced => RemoteKept'
    BY <1>3, <1>4, <2>5 DEF IInv, RemoteKept
  <2>8. One(x \in Held) + One(InLoop') = One(InLoop)
    BY <1>3, <2>2 DEF One
  <2>9. QED
    BY <1>1, <1>3, <2>1, <2>3, <2>6, <2>7, <2>8, ThreadCalls
<1>6. CASE loop.msg.type # "offer"
  <2>1. loop' = Idle /\ loop' \in LoopFits(viewer.offer) /\ loop'.op = "idle"
    BY <1>1, <1>6, IdleFits
  <2>2. ~InLoop /\ ~InLoop'
    BY <1>6, <2>1 DEF InLoop
  <2>3. Sorted(chain')
    BY <1>1, <1>3, <1>6, Facts, SortedAppended
  <2>4. Answering' <=> Answering
    BY <1>1, <1>3, <1>4, <2>1 DEF Answering
  <2>5. Order'
    BY <1>3, <1>4, <1>6, <2>3, <2>4, Facts DEF Order
  <2>6. ~raced => RemoteKept'
    BY <1>3, <1>4, <1>6, <2>4 DEF IInv, RemoteKept
  <2>7. One(x \in Held) + One(InLoop') = One(InLoop)
    BY <1>3, <2>2 DEF One
  <2>8. QED
    BY <1>1, <1>3, <1>6, <2>1, <2>5, <2>6, <2>7, ThreadCalls
<1>7. QED
  BY <1>5, <1>6

LEMMA OfCallCreateAnswer ==
  IInv /\ Flags' /\ CallCreateAnswer /\ UNCHANGED <<raced, sig, tasks, viewerVars, toViewer>> => IInv'
<1> SUFFICES ASSUME IInv, Flags', CallCreateAnswer, UNCHANGED <<raced, sig, tasks, viewerVars, toViewer>> PROVE IInv'
  OBVIOUS
<1> DEFINE x == OpSeen("createAnswer", loop.msg, loop.saw)
<1>1. loop.op = "answer" /\ SignalingFree /\ chain' = Append(chain, x) /\ loop' = Idle
  BY DEF CallCreateAnswer, Call
<1>2. loop \in LoopOps /\ loop \in LoopFits(viewer.offer)
  BY Facts, FitsAre
<1>3. x.op = "createAnswer" /\ x \in ChainFits(viewer.offer) /\ x \in CreateAnswers /\ x \in Held /\ InLoop
  BY <1>1, <1>2 DEF OpSeen, Op, ChainFits, ChainOps, LoopOps, LoopFits, Creates, Sets, States, CreateAnswers, Held, InLoop
<1> HIDE DEF x
<1>4. x \notin CreateOffers /\ x \notin Rollbacks /\ x \notin SetOffers /\ x \notin SetAnswers
  BY <1>3, Kinds
<1>5. loop' \in LoopFits(viewer.offer) /\ loop'.op = "idle" /\ ~InLoop'
  BY <1>1, IdleFits DEF InLoop
<1>6. One(x \in Held) + One(InLoop') = One(InLoop)
  BY <1>3, <1>5 DEF One
<1>7. ~Has(chain, CreateAnswers)
  BY <1>3, Facts, OnePlace, HasKinds
<1>8. \A T : Has(chain', T) <=> Has(chain, T) \/ x \in T
  BY <1>1, <1>3, Facts, ChainAppended
<1>9. Answering /\ Answering'
  BY <1>1, <1>3, <1>8 DEF Answering
<1>10. Sorted(chain')
  BY <1>1, <1>3, <1>4, Facts, SortedAppended
<1>11. Order'
  BY <1>4, <1>8, <1>9, <1>10, Facts DEF Order
<1>12. ~raced => RemoteKept'
  BY <1>4, <1>8, <1>9 DEF IInv, RemoteKept
<1>13. QED
  BY <1>1, <1>3, <1>4, <1>5, <1>6, <1>7, <1>11, <1>12, ThreadCalls

\* A negotiation is asked for, or nothing happens.
LEMMA Asked ==
  ASSUME IInv, Flags', chain' = chain \/ chain' = chain \o CreateOffer("stable"),
         UNCHANGED <<sig, tasks, loop, raced, viewer, offers, toDevice, toViewer>>
  PROVE  IInv'
<1> DEFINE x == Op("createOffer", None)
<1>1. CASE chain' = chain
  <2>1. Fits' /\ Order'
    BY <1>1, Facts DEF Fits, Order, Answering
  <2>2. OneExchange'
    BY <1>1, Facts DEF OneExchange, Tokens, InLoop
  <2>3. ~raced' => RemoteKept' /\ LocalKept'
    BY <1>1 DEF IInv, RemoteKept, LocalKept, Answering, NoOffers, Short, Harmless, LastOpen, Opens, Closing, Closes
  <2>4. QED
    BY <2>1, <2>2, <2>3 DEF IInv
<1>2. CASE chain' = chain \o CreateOffer("stable")
  <2>1. /\ x \in ChainFits(viewer.offer) /\ x \in CreateOffers
        /\ x \notin Held /\ x \notin CreateAnswers /\ x \notin SetOffers /\ x \notin SetAnswers /\ x \notin Rollbacks
    BY AskFits
  <2>2. chain' = Append(chain, x)
    BY <1>2, <2>1, AskFits, Facts, Joined
  <2> HIDE DEF x
  <2>3. /\ chain' \in Seq(ChainFits(viewer.offer)) /\ CountOf(chain', Held) = CountOf(chain, Held) + One(x \in Held)
        /\ \A T : Has(chain', T) <=> Has(chain, T) \/ x \in T
    BY <2>1, <2>2, Facts, ChainAppended
  <2>4. Fits'
    BY <2>3, Facts DEF Fits
  <2>5. CountOf(chain', Held) = CountOf(chain, Held)
    BY <2>1, <2>3, Facts, Counts DEF One
  <2>6. OneExchange'
    BY <2>5, Facts DEF OneExchange, Tokens, InLoop
  <2>7. Sorted(chain')
    BY <2>1, <2>2, Facts, SortedAppended
  <2>8. Answering' <=> Answering
    BY <2>1, <2>3 DEF Answering
  <2>9. Order'
    BY <2>1, <2>3, <2>7, <2>8, Facts DEF Order
  <2>10. ~raced' => RemoteKept'
    BY <2>1, <2>3, <2>8 DEF IInv, RemoteKept
  <2>11. LocalKept'
    BY <2>1, <2>3 DEF LocalKept, NoOffers
  <2>12. QED
    BY <2>4, <2>6, <2>9, <2>10, <2>11 DEF IInv
<1>3. QED
  BY <1>1, <1>2

LEMMA OfNegotiationNeeded == IInv /\ Flags' /\ NegotiationNeeded => IInv'
<1> SUFFICES ASSUME IInv, Flags', NegotiationNeeded PROVE IInv'
  OBVIOUS
<1>1. /\ chain' = chain \/ chain' = chain \o CreateOffer("stable")
      /\ UNCHANGED <<sig, tasks, loop, raced, viewer, offers, toDevice, toViewer>>
  BY DEF NegotiationNeeded, OnRenegotiationNeeded, viewerVars
<1>2. QED
  BY <1>1, Asked

LEMMA OfOnConnectionChange == IInv /\ Flags' /\ OnConnectionChange => IInv'
<1> SUFFICES ASSUME IInv, Flags', OnConnectionChange PROVE IInv'
  OBVIOUS
<1>1. chain \o <<>> = chain
  BY Facts, Joined
<1>2. /\ chain' = chain \/ chain' = chain \o CreateOffer("stable")
      /\ UNCHANGED <<sig, tasks, loop, raced, viewer, offers, toDevice, toViewer>>
  BY <1>1 DEF OnConnectionChange, viewerVars
<1>3. QED
  BY <1>2, Asked

-------------------------------------------------------------------------------
(* The viewer. *)

LEMMA Without ==
  ASSUME NEW A, NEW B, NEW T, NEW s \in Seq(A), ~Has(s, T), \A x \in A : x \notin T => x \in B
  PROVE  s \in Seq(B)
<1>1. Len(s) \in Nat /\ s \in [1..Len(s) -> A]
  BY LenProperties
<1>2. \A i \in 1..Len(s) : s[i] \in B
  BY <1>1 DEF Has
<1>3. s \in [1..Len(s) -> B]
  BY <1>1, <1>2
<1>4. QED
  BY <1>1, <1>3, SeqDef

\* An offer is only made when nothing of the last one is left.
LEMMA OfViewerOffers == IInv /\ Flags' /\ ViewerOffers => IInv'
<1> SUFFICES ASSUME IInv, Flags', ViewerOffers PROVE IInv'
  OBVIOUS
<1> DEFINE n == offers + 1
<1>1. /\ viewer.state = "stable" /\ offers < MaxOffers /\ offers' = n
      /\ viewer' = [state |-> "local", offer |-> n]
      /\ UNCHANGED <<sig, chain, tasks, loop, raced, toViewer>>
  BY DEF ViewerOffers, peerVars
<1>2. PICK media \in Media : toDevice' = Append(toDevice, Offer("viewer", n, media))
  BY <1>1, Zenon DEF ViewerOffers
<1> DEFINE m == Offer("viewer", n, media)
<1>3. n \in 0..MaxOffers /\ n \in Nat
  BY <1>1, Facts, NegotiationAssumption DEF Fits
<1> HIDE DEF n
<1>4. m \in Messages /\ m \in OfferMsgs /\ m \in ToDeviceFits(n)
  BY <1>3 DEF Offer, Messages, Sides, OfferMsgs, ToDeviceFits
<1> HIDE DEF m
<1>5. ~InLoop /\ ~Has(chain, Held) /\ ~Has(tasks, Kept) /\ ~Has(toDevice, OfferMsgs) /\ ~Has(toViewer, AnswerMsgs)
  BY <1>1, Facts, OnePlace
<1>6. chain \in Seq(ChainFits(n))
  <2>1. \A x \in ChainFits(viewer.offer) : x \notin Held => x \in ChainFits(n)
    BY DEF ChainFits, Held
  <2>2. QED
    BY <1>5, <2>1, Facts, Without
<1>7. tasks \in Seq(TaskFits(n))
  <2>1. \A x \in TaskFits(viewer.offer) : x \notin Kept => x \in TaskFits(n)
    BY DEF TaskFits, Kept
  <2>2. QED
    BY <1>5, <2>1, Facts, Without
<1>8. toDevice \in Seq(ToDeviceFits(n))
  <2>1. \A x \in ToDeviceFits(viewer.offer) : x \notin OfferMsgs => x \in ToDeviceFits(n)
    BY DEF ToDeviceFits, OfferMsgs
  <2>2. QED
    BY <1>5, <2>1, Facts, Without
<1>9. toViewer \in Seq(ToViewerFits(n))
  <2>1. \A x \in ToViewerFits(viewer.offer) : x \notin AnswerMsgs => x \in ToViewerFits(n)
    BY DEF ToViewerFits, AnswerMsgs
  <2>2. QED
    BY <1>5, <2>1, Facts, Without
<1>10. loop \in LoopFits(n)
  BY <1>5, Facts DEF LoopFits, InLoop
<1>11. toDevice' \in Seq(ToDeviceFits(n)) /\ CountOf(toDevice', OfferMsgs) = 1 /\ toDevice' # <<>>
  <2>1. toDevice' \in Seq(ToDeviceFits(n)) /\ toDevice' # <<>>
    BY <1>2, <1>4, <1>8, Appended DEF m
  <2>2. CountOf(toDevice', OfferMsgs) = CountOf(toDevice, OfferMsgs) + One(m \in OfferMsgs)
    BY <1>2, <1>4, <1>8, HasAppended DEF m
  <2>3. CountOf(toDevice, OfferMsgs) = 0
    BY <1>5, Facts, Counts
  <2>4. QED
    BY <1>4, <2>1, <2>2, <2>3 DEF One
<1>12. viewer'.offer = n /\ viewer'.state = "local"
  BY <1>1
<1>13. Fits'
  BY <1>1, <1>3, <1>6, <1>7, <1>9, <1>10, <1>11, <1>12, Facts DEF Fits
<1>14. Tokens' = 1
  <2>1. One(InLoop') = 0 /\ CountOf(chain', Held) = 0 /\ CountOf(tasks', Kept) = 0 /\ CountOf(toViewer', AnswerMsgs) = 0
    BY <1>1, <1>5, Facts, Counts DEF InLoop
  <2>2. QED
    BY <1>11, <2>1 DEF Tokens
<1>15. OneExchange'
  BY <1>12, <1>14 DEF OneExchange
<1>16. Answering' <=> Answering
  BY <1>1 DEF Answering
<1>17. Order'
  BY <1>1, <1>16, Facts DEF Order
<1>18. ASSUME ~raced' PROVE RemoteKept' /\ LocalKept'
  <2>1. RemoteKept'
    BY <1>1, <1>16, <1>18 DEF IInv, RemoteKept
  <2>2. (NoOffers' <=> NoOffers) /\ (Short' <=> Short) /\ (LastOpen' <=> LastOpen) /\ Closing'
    BY <1>1, <1>11 DEF NoOffers, Short, Harmless, LastOpen, Opens, Closing
  <2>3. QED
    BY <1>1, <1>18, <2>1, <2>2 DEF IInv, LocalKept
<1>19. QED
  BY <1>13, <1>15, <1>17, <1>18 DEF IInv

\* While an offer of the viewer is open, and one of the device: what closes the latter.
LEMMA StillClosing ==
  ASSUME IInv, SignalingFree, ~raced, NoOffers, LastOpen, viewer.state = "local"
  PROVE  \/ toDevice # <<>>
         \/ loop.op \in {"tracks", "check", "rollback", "set"}
         \/ Has(tasks, RolledBack)
         \/ Has(toViewer, AnswerMsgs)
<1>1. RemoteKept /\ sig # "remote"
  BY DEF IInv, LastOpen
<1>2. ~Has(chain, CreateAnswers) /\ chain = <<>>
  <2>1. chain = <<>> \/ (chain # <<>> /\ Head(chain) \in CreateAnswers)
    BY AtRest DEF NoOffers
  <2>2. ASSUME chain # <<>> PROVE FALSE
    BY <1>1, <2>1, <2>2, AnswerNext
  <2>3. QED
    BY <2>2, Empty
<1>3. loop.op # "answer"
  <2>1. ~Has(chain, SetOffers)
    BY <1>2, Empty
  <2>2. QED
    BY <1>1, <2>1 DEF RemoteKept, Answering
<1>4. InLoop \/ Has(chain, Held) \/ Has(tasks, Kept) \/ Has(toDevice, OfferMsgs) \/ Has(toViewer, AnswerMsgs)
  BY Facts, OnePlace
<1>5. ~Has(chain, Held)
  BY <1>2, Empty
<1>6. CASE InLoop
  BY <1>3, <1>6, Facts, FitsAre DEF InLoop, LoopOps
<1>7. CASE Has(tasks, Kept)
  <2>1. ~Has(tasks, MadeAnswers)
    BY <1>1 DEF RemoteKept
  <2>2. PICK i \in 1..Len(tasks) : tasks[i] \in Kept
    BY <1>7 DEF Has
  <2>3. tasks[i] \in RolledBack \/ tasks[i] \in MadeAnswers
    BY <2>2 DEF Kept, RolledBack, MadeAnswers, TaskOps
  <2>4. QED
    BY <2>1, <2>2, <2>3 DEF Has
<1>8. CASE Has(toDevice, OfferMsgs)
  BY <1>8, Empty
<1>9. QED
  BY <1>4, <1>5, <1>6, <1>7, <1>8

LEMMA OfViewerReceives == IInv /\ Flags' /\ ViewerReceives => IInv'
<1> SUFFICES ASSUME IInv, Flags', ViewerReceives PROVE IInv'
  OBVIOUS
<1> DEFINE m == Head(toViewer)
<1>1. /\ SignalingFree /\ toViewer # <<>> /\ toViewer' = Tail(toViewer)
      /\ UNCHANGED <<sig, chain, tasks, loop, raced, offers>>
  BY DEF ViewerReceives, peerVars
<1>2. \/ m.type = "offer" /\ viewer.state = "stable" /\ toDevice' = Append(toDevice, AnswerTo(m)) /\ viewer' = viewer
      \/ m.type = "offer" /\ viewer.state = "local" /\ viewer' = viewer /\ toDevice' = toDevice
      \/ m.type = "answer" /\ viewer' = [viewer EXCEPT !.state = "stable"] /\ toDevice' = toDevice
  BY DEF ViewerReceives
<1>3. /\ m \in ToViewerFits(viewer.offer) /\ toViewer' \in Seq(ToViewerFits(viewer.offer))
      /\ CountOf(toViewer, AnswerMsgs) = CountOf(toViewer', AnswerMsgs) + One(m \in AnswerMsgs)
      /\ CountOf(toViewer', AnswerMsgs) \in Nat
  BY <1>1, Facts, Taken, HasTaken, CountIsNat
<1>4. m \in Messages
  BY <1>3, FitsAre
<1>5. Answering' <=> Answering
  BY <1>1 DEF Answering
<1>6. Order'
  BY <1>1, <1>5, Facts DEF Order
<1>7. ~raced' => RemoteKept'
  BY <1>1, <1>5 DEF IInv, RemoteKept
<1>8. (NoOffers' <=> NoOffers) /\ (Short' <=> Short) /\ (LastOpen' <=> LastOpen)
  BY <1>1 DEF NoOffers, Short, Harmless, LastOpen, Opens
<1>9. viewer'.offer = viewer.offer
  BY <1>2, Facts DEF Fits
<1>10. Followed(toViewer) => Followed(toViewer')
  BY <1>1, <1>3, Facts, FollowedTaken
<1>11. /\ CountOf(toDevice, OfferMsgs) \in Nat /\ One(InLoop) \in Nat /\ CountOf(chain, Held) \in Nat
       /\ CountOf(tasks, Kept) \in Nat /\ One(m \in AnswerMsgs) \in Nat
  BY Facts, Counts DEF One
<1>12. ASSUME ~raced', toDevice' # <<>> \/ (NoOffers' /\ LastOpen' => Closing') PROVE LocalKept'
  <2>1. NoOffers' /\ LastOpen' => Closing'
    BY <1>12 DEF Closing
  <2>2. QED
    BY <1>1, <1>8, <1>10, <1>12, <2>1 DEF IInv, LocalKept
<1> HIDE DEF m
<1>13. CASE m.type = "offer"
  <2>1. m \notin AnswerMsgs /\ One(m \in AnswerMsgs) = 0
    BY <1>13 DEF AnswerMsgs, One
  <2>2. /\ viewer' = viewer /\ CountOf(toDevice', OfferMsgs) = CountOf(toDevice, OfferMsgs)
        /\ toDevice' \in Seq(ToDeviceFits(viewer.offer))
        /\ toDevice' # <<>> \/ (viewer.state = "local" /\ toDevice' = toDevice)
    <3>1. CASE toDevice' = Append(toDevice, AnswerTo(m)) /\ viewer' = viewer
      <4>1. AnswerTo(m) \in Messages /\ AnswerTo(m).type = "answer"
        BY <1>4 DEF AnswerTo, Messages
      <4>2. AnswerTo(m) \in ToDeviceFits(viewer.offer) /\ AnswerTo(m) \notin OfferMsgs
        BY <4>1 DEF ToDeviceFits, OfferMsgs
      <4>3. /\ toDevice' \in Seq(ToDeviceFits(viewer.offer)) /\ toDevice' # <<>>
        BY <3>1, <4>2, Facts, Appended
      <4>4. CountOf(toDevice', OfferMsgs) = CountOf(toDevice, OfferMsgs) + One(AnswerTo(m) \in OfferMsgs)
        BY <3>1, <4>2, Facts, HasAppended
      <4>5. QED
        BY <1>11, <3>1, <4>2, <4>3, <4>4 DEF One
    <3>2. CASE viewer.state = "local" /\ viewer' = viewer /\ toDevice' = toDevice
      BY <3>2, Facts
    <3>3. QED
      BY <1>2, <1>13, <3>1, <3>2 DEF m
  <2>3. Fits'
    BY <1>1, <1>3, <2>2, Facts DEF Fits
  <2>4. Tokens' = Tokens
    <3>1. One(InLoop') = One(InLoop) /\ CountOf(chain', Held) = CountOf(chain, Held) /\ CountOf(tasks', Kept) = CountOf(tasks, Kept)
      BY <1>1 DEF One, InLoop
    <3>2. CountOf(toViewer', AnswerMsgs) = CountOf(toViewer, AnswerMsgs)
      BY <1>3, <2>1
    <3>3. QED
      BY <2>2, <3>1, <3>2 DEF Tokens
  <2>5. OneExchange'
    BY <1>1, <2>2, <2>4, Exchange
  <2>6. ASSUME ~raced' PROVE LocalKept'
    <3>1. CASE toDevice' # <<>>
      BY <1>12, <2>6, <3>1
    <3>2. CASE viewer.state = "local" /\ toDevice' = toDevice
      <4>1. ASSUME NoOffers', LastOpen' PROVE Closing'
        <5>1. NoOffers /\ LastOpen /\ ~raced
          BY <1>1, <1>8, <2>6, <4>1
        <5>2. Followed(toViewer)
          BY <5>1 DEF IInv, LocalKept
        <5>3. \/ toDevice # <<>> \/ loop.op \in {"tracks", "check", "rollback", "set"}
              \/ Has(tasks, RolledBack) \/ Has(toViewer, AnswerMsgs)
          BY <1>1, <3>2, <5>1, StillClosing
        <5>4. Has(toViewer, AnswerMsgs) => Has(toViewer', OfferMsgs)
          BY <1>1, <5>2, Facts, FollowedTaken
        <5>5. QED
          BY <1>1, <3>2, <5>3, <5>4 DEF Closing
      <4>2. QED
        BY <1>12, <2>6, <4>1
    <3>3. QED
      BY <2>2, <3>1, <3>2
  <2>7. QED
    BY <1>6, <1>7, <2>3, <2>5, <2>6 DEF IInv
<1>14. CASE m.type = "answer"
  <2>1. m \in AnswerMsgs /\ One(m \in AnswerMsgs) = 1
    BY <1>4, <1>14 DEF AnswerMsgs, One
  <2>2. viewer' = [viewer EXCEPT !.state = "stable"] /\ toDevice' = toDevice
    BY <1>2, <1>14 DEF m
  <2>3. viewer'.state = "stable" /\ viewer' \in [state : {"stable", "local"}, offer : 0..MaxOffers]
    BY <2>2, Facts DEF Fits
  <2>4. Fits'
    BY <1>1, <1>3, <1>9, <2>2, <2>3, Facts DEF Fits
  <2>5. Tokens' = 0
    <3>1. /\ One(InLoop') = One(InLoop) /\ CountOf(chain', Held) = CountOf(chain, Held)
          /\ CountOf(tasks', Kept) = CountOf(tasks, Kept) /\ CountOf(toDevice', OfferMsgs) = CountOf(toDevice, OfferMsgs)
      BY <1>1, <2>2 DEF One, InLoop
    <3>2. CountOf(toViewer, AnswerMsgs) = CountOf(toViewer', AnswerMsgs) + 1
      BY <1>3, <2>1
    <3>3. Tokens <= 1
      BY Facts DEF OneExchange
    <3>4. QED
      BY <1>3, <1>11, <3>1, <3>2, <3>3 DEF Tokens
  <2>6. OneExchange'
    BY <2>3, <2>5 DEF OneExchange
  <2>7. ASSUME ~raced' PROVE LocalKept'
    <3>1. ASSUME NoOffers', LastOpen' PROVE Closing'
      <4>1. Followed(toViewer)
        BY <1>1, <1>8, <2>7, <3>1 DEF IInv, LocalKept
      <4>2. Has(toViewer, AnswerMsgs)
        BY <1>1, <2>1, Facts, HasTaken DEF m
      <4>3. Has(toViewer', OfferMsgs)
        BY <1>1, <4>1, <4>2, Facts, FollowedTaken
      <4>4. QED
        BY <4>3 DEF Closing
    <3>2. QED
      BY <1>12, <2>7, <3>1
  <2>8. QED
    BY <1>6, <1>7, <2>4, <2>6, <2>7 DEF IInv
<1>15. QED
  BY <1>4, <1>13, <1>14 DEF Messages

-------------------------------------------------------------------------------
(* The PeerConnection. *)

LEMMA ChainTaken ==
  ASSUME IInv, chain # <<>>
  PROVE  /\ Tail(chain) \in Seq(ChainFits(viewer.offer)) /\ Sorted(Tail(chain))
         /\ \A T : Has(chain, T) <=> Has(Tail(chain), T) \/ Head(chain) \in T
         /\ CountOf(chain, Held) = CountOf(Tail(chain), Held) + One(Head(chain) \in Held)
         /\ CountOf(Tail(chain), Held) \in Nat
         /\ Len(chain) <= 1 => Tail(chain) = <<>>
         /\ Len(chain) = 2 => Len(Tail(chain)) = 1
         /\ Head(chain) = chain[1]
<1>1. /\ Tail(chain) \in Seq(ChainFits(viewer.offer)) /\ Len(chain) \in Nat \ {0} /\ Len(Tail(chain)) = Len(chain) - 1
      /\ Head(chain) = chain[1]
  BY Facts, Taken
<1>2. \A T : Has(chain, T) <=> Has(Tail(chain), T) \/ Head(chain) \in T
  BY Facts, HasTaken
<1>3. CountOf(chain, Held) = CountOf(Tail(chain), Held) + One(Head(chain) \in Held)
  BY Facts, HasTaken
<1>4. Sorted(Tail(chain))
  BY Facts, SortedTaken
<1>5. CountOf(Tail(chain), Held) \in Nat
  BY <1>1, CountIsNat
<1>6. Len(chain) <= 1 => Tail(chain) = <<>>
  BY <1>1, EmptySeq
<1>7. QED
  BY <1>1, <1>2, <1>3, <1>4, <1>5, <1>6

\* What a short chain leaves behind its first operation.
LEMMA ShortTaken ==
  ASSUME IInv, chain # <<>>, Short
  PROVE  \/ Tail(chain) = <<>>
         \/ Head(chain) \in SetOffers /\ Len(Tail(chain)) = 1
         \/ Harmless
  BY ChainTaken DEF Short

LEMMA TasksAppended ==
  ASSUME IInv, NEW x \in TaskFits(viewer.offer)
  PROVE  /\ Append(tasks, x) \in Seq(TaskFits(viewer.offer))
         /\ \A T : Has(Append(tasks, x), T) <=> Has(tasks, T) \/ x \in T
         /\ CountOf(Append(tasks, x), Kept) = CountOf(tasks, Kept) + One(x \in Kept)
<1>1. Append(tasks, x) \in Seq(TaskFits(viewer.offer))
  BY Facts, Appended
<1>2. \A T : Has(Append(tasks, x), T) <=> Has(tasks, T) \/ x \in T
  BY Facts, HasAppended
<1>3. CountOf(Append(tasks, x), Kept) = CountOf(tasks, Kept) + One(x \in Kept)
  BY Facts, HasAppended
<1>4. QED
  BY <1>1, <1>2, <1>3

\* The token is with the chain or the callbacks, as long as the others do not move.
LEMMA ChainExchange ==
  ASSUME IInv, UNCHANGED <<loop, viewer, toDevice, toViewer>>, raced => raced',
         CountOf(chain', Held) \in Nat, CountOf(tasks', Kept) \in Nat,
         \/ CountOf(chain', Held) + CountOf(tasks', Kept) = CountOf(chain, Held) + CountOf(tasks, Kept)
         \/ raced' /\ CountOf(chain', Held) + CountOf(tasks', Kept) <= CountOf(chain, Held) + CountOf(tasks, Kept)
  PROVE  OneExchange'
<1>1. /\ CountOf(toDevice', OfferMsgs) = CountOf(toDevice, OfferMsgs) /\ One(InLoop') = One(InLoop)
      /\ CountOf(toViewer', AnswerMsgs) = CountOf(toViewer, AnswerMsgs)
  BY DEF One, InLoop
<1>2. /\ CountOf(toDevice, OfferMsgs) \in Nat /\ One(InLoop) \in Nat /\ CountOf(chain, Held) \in Nat
      /\ CountOf(tasks, Kept) \in Nat /\ CountOf(toViewer, AnswerMsgs) \in Nat
  BY Facts, Counts
<1>3. Tokens' = Tokens \/ (raced' /\ Tokens' <= Tokens)
  BY <1>1, <1>2 DEF Tokens
<1>4. Tokens' \in Nat
  BY <1>1, <1>2 DEF Tokens
<1>5. QED
  BY <1>3, <1>4, Exchange

LEMMA OfRunCreate == IInv /\ Flags' /\ RunCreate => IInv'
<1> SUFFICES ASSUME IInv, Flags', RunCreate PROVE IInv'
  OBVIOUS
<1> DEFINE o == Head(chain)
<1>1. /\ chain # <<>> /\ SignalingFree /\ chain' = Tail(chain)
      /\ UNCHANGED <<sig, loop, raced, viewer, offers, toDevice, toViewer>>
      /\ \/ o.op = "createOffer" /\ tasks' = Append(tasks, Op("created", Offer("device", 0, IF added THEN "all" ELSE "none")))
         \/ o.op = "createAnswer" /\ tasks' = IF sig = "remote" THEN Append(tasks, Op("created", AnswerTo(o.msg))) ELSE tasks
  BY DEF RunCreate, SignalingFree, viewerVars
<1>2. /\ o \in ChainOps /\ o \in ChainFits(viewer.offer) /\ o.msg \in Messages
      /\ o \in CreateOffers \/ o \in CreateAnswers
  BY <1>1, HeadKinds
<1>3. /\ chain' \in Seq(ChainFits(viewer.offer)) /\ Sorted(chain')
      /\ \A T : Has(chain, T) <=> Has(chain', T) \/ o \in T
      /\ CountOf(chain, Held) = CountOf(chain', Held) + One(o \in Held)
      /\ CountOf(chain', Held) \in Nat
  BY <1>1, ChainTaken
<1>4. CountOf(tasks, Kept) \in Nat /\ CountOf(chain, Held) \in Nat
  BY Facts, Counts
<1> HIDE DEF o
<1>5. CASE o.op = "createOffer"
  <2> DEFINE x == Op("created", Offer("device", 0, IF added THEN "all" ELSE "none"))
  <2>1. /\ x \in TaskOps /\ x.op = "created" /\ x.msg.type = "offer"
    BY DEF Op, Offer, TaskOps, Messages, Sides, Media, States
  <2>2. tasks' = Append(tasks, x)
    BY <1>1, <1>5
  <2> HIDE DEF x
  <2>3. x \in TaskFits(viewer.offer) /\ x \in MadeOffers /\ x \notin Kept /\ x \notin MadeAnswers
    BY <2>1 DEF TaskFits, MadeOffers, Kept, MadeAnswers
  <2>4. /\ tasks' \in Seq(TaskFits(viewer.offer)) /\ CountOf(tasks', Kept) = CountOf(tasks, Kept)
        /\ \A T : Has(tasks', T) <=> Has(tasks, T) \/ x \in T
    BY <1>4, <2>2, <2>3, TasksAppended DEF One
  <2>5. o \notin Held /\ o \notin CreateAnswers /\ o \notin SetOffers /\ o \notin SetAnswers
    BY <1>5 DEF Held, CreateAnswers, SetOffers, SetAnswers
  <2>6. CountOf(chain', Held) = CountOf(chain, Held)
    BY <1>3, <2>5 DEF One
  <2>7. Fits'
    BY <1>1, <1>3, <2>4, Facts DEF Fits
  <2>8. OneExchange'
    BY <1>1, <1>3, <1>4, <2>4, <2>6, ChainExchange
  <2>9. Answering' <=> Answering
    BY <1>1, <1>3, <2>5 DEF Answering
  <2>10. Order'
    BY <1>3, <2>3, <2>4, <2>5, <2>9, Facts DEF Order
  <2>11. ~raced' => RemoteKept'
    BY <1>1, <1>3, <2>3, <2>4, <2>5, <2>9 DEF IInv, RemoteKept
  <2>12. LocalKept'
    BY <2>3, <2>4 DEF LocalKept, NoOffers
  <2>13. QED
    BY <2>7, <2>8, <2>10, <2>11, <2>12 DEF IInv
<1>6. CASE o.op = "createAnswer"
  <2>1. o \in CreateAnswers /\ o \in Held /\ o.msg.type = "offer" /\ o.msg.n = viewer.offer
    BY <1>2, <1>6 DEF CreateAnswers, Held, ChainFits
  <2>2. Has(chain, Held)
    BY <1>3, <2>1
  <2>3. ~InLoop /\ ~Has(tasks, Kept)
    BY <2>2, Facts, OnePlace
  <2>4. CountOf(chain, Held) = 1 /\ CountOf(chain', Held) = 0 /\ CountOf(tasks, Kept) = 0
    <3>1. /\ CountOf(toDevice, OfferMsgs) \in Nat /\ One(InLoop) \in Nat /\ CountOf(toViewer, AnswerMsgs) \in Nat
          /\ CountOf(tasks, Kept) = 0 /\ Tokens <= 1
      BY <2>3, Facts, Counts DEF OneExchange
    <3>2. CountOf(chain, Held) <= 1
      BY <1>4, <3>1 DEF Tokens
    <3>3. CountOf(chain, Held) = CountOf(chain', Held) + 1
      BY <1>3, <2>1 DEF One
    <3>4. QED
      BY <1>3, <1>4, <3>1, <3>2, <3>3
  <2>5. ~Has(chain', CreateAnswers)
    <3>1. ~Has(chain', Held)
      BY <1>3, <2>4, CountIsNat
    <3>2. QED
      BY <3>1, Kinds, HasLess
  <2>6. loop.op # "answer"
    BY <2>3, Facts DEF InLoop, LoopFits
  <2>7. ~Answering'
    BY <1>1, <2>5, <2>6 DEF Answering
  <2>8. /\ ~Has(chain, SetOffers) /\ ~Has(chain, SetAnswers) /\ ~Has(chain, Rollbacks)
        /\ ~raced => sig = "remote" /\ Harmless
    BY <1>1, <2>1, AnswerNext DEF o
  <2>9. ~Has(chain', SetOffers) /\ ~Has(chain', SetAnswers) /\ ~Has(chain', Rollbacks)
    BY <1>3, <2>8
  <2>10. Order'
    BY <1>3, <2>7, <2>9 DEF Order
  <2>11. CASE sig = "remote"
    <3> DEFINE x == Op("created", AnswerTo(o.msg))
    <3>1. AnswerTo(o.msg) \in Messages /\ AnswerTo(o.msg).type = "answer" /\ AnswerTo(o.msg).n = viewer.offer
      BY <1>2, <2>1 DEF AnswerTo, Messages
    <3>2. x \in TaskOps /\ x.op = "created" /\ x.msg.type = "answer" /\ x.msg.n = viewer.offer
      BY <3>1 DEF Op, TaskOps, States
    <3>3. tasks' = Append(tasks, x)
      BY <1>1, <1>6, <2>11
    <3> HIDE DEF x
    <3>4. x \in TaskFits(viewer.offer) /\ x \in MadeAnswers /\ x \in Kept /\ x \notin MadeOffers
      BY <3>2 DEF TaskFits, MadeAnswers, Kept, MadeOffers
    <3>5. /\ tasks' \in Seq(TaskFits(viewer.offer)) /\ CountOf(tasks', Kept) = 1
          /\ \A T : Has(tasks', T) <=> Has(tasks, T) \/ x \in T
      BY <2>4, <3>3, <3>4, TasksAppended DEF One
    <3>6. Fits'
      BY <1>1, <1>3, <3>5, Facts DEF Fits
    <3>7. OneExchange'
      BY <1>1, <1>3, <2>4, <3>5, ChainExchange
    <3>8. RemoteKept'
      BY <1>1, <2>7, <2>11, <3>4, <3>5 DEF RemoteKept
    <3>9. LocalKept'
      BY <1>1, <2>9, <2>11 DEF LocalKept, Short, Harmless, LastOpen
    <3>10. QED
      BY <2>10, <3>6, <3>7, <3>8, <3>9 DEF IInv
  <2>12. CASE sig # "remote"
    <3>1. raced /\ raced' /\ tasks' = tasks
      BY <1>1, <1>6, <2>8, <2>12, Zenon DEF IInv
    <3>2. Fits'
      BY <1>1, <1>3, <3>1, Facts DEF Fits
    <3>3. CountOf(tasks', Kept) = 0
      BY <2>4, <3>1
    <3>4. OneExchange'
      BY <1>1, <2>4, <3>1, <3>3, ChainExchange
    <3>5. QED
      BY <2>10, <3>1, <3>2, <3>4 DEF IInv
  <2>13. QED
    BY <2>11, <2>12
<1>7. QED
  BY <1>1, <1>5, <1>6

LEMMA OfRunTask == IInv /\ Flags' /\ RunTask => IInv'
<1> SUFFICES ASSUME IInv, Flags', RunTask PROVE IInv'
  OBVIOUS
<1> DEFINE t == Head(tasks)
           n == viewer.offer
<1>1. /\ SignalingFree /\ tasks # <<>> /\ tasks' = Tail(tasks)
      /\ UNCHANGED <<sig, loop, raced, viewer, offers, toDevice>>
      /\ \/ t.op = "created" /\ OnSuccess(t.msg)
         \/ t.op = "rolledBack" /\ Retry(t.msg)
  BY DEF RunTask, viewerVars
<1>2. /\ t \in TaskFits(n) /\ tasks' \in Seq(TaskFits(n))
      /\ \A T : Has(tasks, T) <=> Has(tasks', T) \/ t \in T
      /\ CountOf(tasks, Kept) = CountOf(tasks', Kept) + One(t \in Kept)
      /\ CountOf(tasks', Kept) \in Nat
  BY <1>1, Facts, Taken, HasTaken, CountIsNat
<1>3. t \in TaskOps /\ t.msg \in Messages
  BY <1>2, FitsAre DEF TaskOps
<1>4. /\ CountOf(toDevice, OfferMsgs) \in Nat /\ One(InLoop) \in Nat /\ CountOf(chain, Held) \in Nat
      /\ CountOf(tasks, Kept) \in Nat /\ CountOf(toViewer, AnswerMsgs) \in Nat
  BY Facts, Counts
<1>5. One(InLoop') = One(InLoop) /\ CountOf(toDevice', OfferMsgs) = CountOf(toDevice, OfferMsgs)
  BY <1>1 DEF One, InLoop
<1> HIDE DEF t
<1>6. CASE t.op = "created" /\ t.msg.type = "offer"
  <2> DEFINE m == t.msg
             x == Op("setLocal", m)
  <2>1. chain' = Append(chain, x) /\ toViewer' = Append(toViewer, m)
    BY <1>1, <1>6 DEF OnSuccess
  <2>2. /\ x.op = "setLocal" /\ x.msg = m /\ x \in ChainOps
    BY <1>3 DEF Op, ChainOps, Sets, States
  <2>3. m \in OfferMsgs /\ m \notin AnswerMsgs /\ m \in ToViewerFits(n)
    BY <1>3, <1>6 DEF OfferMsgs, AnswerMsgs, ToViewerFits
  <2>4. t \in MadeOffers /\ t \notin Kept /\ t \notin MadeAnswers
    BY <1>3, <1>6 DEF MadeOffers, Kept, MadeAnswers
  <2> HIDE DEF x
  <2>5. /\ x \in ChainFits(n) /\ x \notin Held /\ x \notin CreateOffers /\ x \notin CreateAnswers
        /\ x \notin SetOffers /\ x \notin SetAnswers /\ x \notin Rollbacks
    BY <1>6, <2>2 DEF ChainFits, Held, CreateOffers, CreateAnswers, SetOffers, SetAnswers, Rollbacks
  <2> HIDE DEF m
  <2>6. /\ chain' \in Seq(ChainFits(n)) /\ CountOf(chain', Held) = CountOf(chain, Held) + One(x \in Held)
        /\ \A T : Has(chain', T) <=> Has(chain, T) \/ x \in T
        /\ chain = <<>> => Len(chain') = 1
    BY <2>1, <2>5, Facts, ChainAppended
  <2>7. /\ toViewer' \in Seq(ToViewerFits(n))
        /\ CountOf(toViewer', AnswerMsgs) = CountOf(toViewer, AnswerMsgs) + One(m \in AnswerMsgs)
        /\ Has(toViewer', OfferMsgs) /\ Followed(toViewer')
    BY <2>1, <2>3, Facts, Appended, HasAppended, FollowedByOffer
  <2>8. Fits'
    BY <1>1, <1>2, <2>6, <2>7, Facts DEF Fits
  <2>9. Tokens' = Tokens
    <3>1. One(x \in Held) = 0 /\ One(m \in AnswerMsgs) = 0 /\ One(t \in Kept) = 0
      BY <2>3, <2>4, <2>5 DEF One
    <3>2. CountOf(chain', Held) = CountOf(chain, Held) /\ CountOf(tasks', Kept) = CountOf(tasks, Kept)
          /\ CountOf(toViewer', AnswerMsgs) = CountOf(toViewer, AnswerMsgs)
      BY <1>2, <1>4, <2>6, <2>7, <3>1
    <3>3. QED
      BY <1>5, <3>2 DEF Tokens
  <2>10. OneExchange'
    BY <1>1, <2>9, Exchange
  <2>11. Sorted(chain')
    BY <2>1, <2>5, Facts, SortedAppended
  <2>12. Answering' <=> Answering
    BY <1>1, <2>5, <2>6 DEF Answering
  <2>13. Order'
    BY <1>2, <2>4, <2>5, <2>6, <2>11, <2>12, Facts DEF Order
  <2>14. ~raced' => RemoteKept'
    BY <1>1, <1>2, <2>4, <2>5, <2>6, <2>12 DEF IInv, RemoteKept
  <2>15. ASSUME ~raced', NoOffers' PROVE Short'
    <3>1. ~Has(chain, CreateOffers)
      BY <2>6, <2>15 DEF NoOffers
    <3>2. CASE chain = <<>>
      <4>1. Len(chain') = 1
        BY <2>6, <3>2
      <4>2. QED
        BY <4>1 DEF Short
    <3>3. CASE chain # <<>>
      <4>1. Head(chain) \in CreateAnswers
        BY <1>1, <3>1, <3>3, AtRest
      <4>2. Harmless
        BY <1>1, <2>15, <3>3, <4>1, AnswerNext
      <4>3. Harmless'
        BY <1>1, <2>5, <2>6, <4>2 DEF Harmless
      <4>4. QED
        BY <4>3 DEF Short
    <3>4. QED
      BY <3>2, <3>3
  <2>16. ~raced' => LocalKept'
    BY <2>7, <2>15 DEF LocalKept, Closing
  <2>17. QED
    BY <2>8, <2>10, <2>13, <2>14, <2>16 DEF IInv
<1>7. ASSUME t \in Kept
      PROVE  /\ Has(tasks, Kept) /\ ~InLoop /\ ~Has(chain, Held) /\ ~Has(chain, CreateAnswers)
             /\ ~Has(chain, Rollbacks) /\ ~Has(chain, SetOffers) /\ ~Answering
             /\ ~Has(tasks', Kept) /\ ~Has(tasks', MadeAnswers)
             /\ CountOf(tasks', Kept) + 1 = CountOf(tasks, Kept)
             /\ t \notin MadeOffers
             /\ NoOffers => chain = <<>>
  <2>1. Has(tasks, Kept)
    BY <1>2, <1>7
  <2>2. ~InLoop /\ ~Has(chain, Held)
    BY <2>1, Facts, OnePlace
  <2>3. ~Has(chain, CreateAnswers) /\ ~Has(chain, Rollbacks)
    BY <2>2, HasKinds
  <2>4. loop.op # "answer"
    BY <2>2, Facts DEF InLoop, LoopFits
  <2>5. ~Answering /\ ~Has(chain, SetOffers)
    BY <2>3, <2>4, Facts DEF Answering, Order
  <2>6. CountOf(tasks', Kept) + 1 = CountOf(tasks, Kept)
    BY <1>2, <1>7 DEF One
  <2>7. CountOf(tasks', Kept) = 0
    <3>1. Tokens <= 1
      BY Facts DEF OneExchange
    <3>2. QED
      BY <1>2, <1>4, <2>6, <3>1 DEF Tokens
  <2>8. ~Has(tasks', Kept) /\ ~Has(tasks', MadeAnswers)
    <3>1. ~Has(tasks', Kept)
      BY <1>2, <2>7, CountIsNat
    <3>2. QED
      BY <3>1, Kinds, HasLess
  <2>9. NoOffers => chain = <<>>
    <3>1. ASSUME NoOffers, chain # <<>> PROVE FALSE
      BY <1>1, <2>3, <3>1, AtRest, FirstOfAll DEF NoOffers
    <3>2. QED
      BY <3>1
  <2>10. t \notin MadeOffers
    BY <1>7 DEF Kept, MadeOffers
  <2>11. QED
    BY <2>1, <2>2, <2>3, <2>5, <2>6, <2>8, <2>9, <2>10
<1>8. CASE t.op = "created" /\ t.msg.type = "answer"
  <2> DEFINE m == t.msg
             x == Op("setLocal", m)
  <2>1. chain' = Append(chain, x) /\ toViewer' = Append(toViewer, m)
    BY <1>1, <1>8 DEF OnSuccess
  <2>2. x.op = "setLocal" /\ x.msg = m /\ x \in ChainOps /\ m \in Messages
    BY <1>3 DEF Op, ChainOps, Sets, States
  <2>3. t \in Kept /\ t \in MadeAnswers /\ m.n = n
    BY <1>2, <1>3, <1>8 DEF Kept, MadeAnswers, TaskFits
  <2>4. m \in AnswerMsgs /\ m \in ToViewerFits(n)
    BY <1>8, <2>2, <2>3 DEF AnswerMsgs, ToViewerFits
  <2> HIDE DEF x
  <2>5. /\ x \in ChainFits(n) /\ x \in SetAnswers /\ x \notin Held /\ x \notin CreateOffers /\ x \notin CreateAnswers
        /\ x \notin SetOffers /\ x \notin Rollbacks
    BY <1>8, <2>2 DEF ChainFits, Held, CreateOffers, CreateAnswers, SetOffers, SetAnswers, Rollbacks
  <2> HIDE DEF m
  <2>6. /\ ~Has(chain, CreateAnswers) /\ ~Has(chain, SetOffers) /\ ~Answering
        /\ ~Has(tasks', MadeAnswers) /\ CountOf(tasks', Kept) + 1 = CountOf(tasks, Kept)
        /\ t \notin MadeOffers
        /\ NoOffers => chain = <<>>
    BY <1>7, <2>3
  <2>7. Has(tasks, MadeAnswers) /\ ~Has(chain, SetAnswers)
    BY <1>2, <2>3, Facts DEF Order
  <2>8. /\ chain' \in Seq(ChainFits(n)) /\ CountOf(chain', Held) = CountOf(chain, Held) + One(x \in Held)
        /\ \A T : Has(chain', T) <=> Has(chain, T) \/ x \in T
        /\ chain = <<>> => Len(chain') = 1
    BY <2>1, <2>5, Facts, ChainAppended
  <2>9. /\ toViewer' \in Seq(ToViewerFits(n))
        /\ CountOf(toViewer', AnswerMsgs) = CountOf(toViewer, AnswerMsgs) + One(m \in AnswerMsgs)
    BY <2>1, <2>4, Facts, Appended, HasAppended
  <2>10. Fits'
    BY <1>1, <1>2, <2>8, <2>9, Facts DEF Fits
  <2>11. Tokens' = Tokens
    <3>1. One(x \in Held) = 0 /\ One(m \in AnswerMsgs) = 1
      BY <2>4, <2>5 DEF One
    <3>2. CountOf(chain', Held) = CountOf(chain, Held) /\ CountOf(tasks', Kept) + 1 = CountOf(tasks, Kept)
          /\ CountOf(toViewer', AnswerMsgs) = CountOf(toViewer, AnswerMsgs) + 1
      BY <1>4, <2>6, <2>8, <2>9, <3>1
    <3>3. QED
      BY <1>2, <1>4, <1>5, <3>2 DEF Tokens
  <2>12. OneExchange'
    BY <1>1, <2>11, Exchange
  <2>13. Sorted(chain')
    BY <2>1, <2>5, <2>6, <2>7, Facts, SortedAppended
  <2>14. ~Answering' /\ ~Has(chain', SetOffers)
    BY <1>1, <2>5, <2>6, <2>8 DEF Answering
  <2>15. Order'
    BY <2>6, <2>13, <2>14 DEF Order
  <2>16. ASSUME ~raced' PROVE RemoteKept' /\ LocalKept'
    <3>1. sig = "remote"
      BY <1>1, <2>7, <2>16 DEF IInv, RemoteKept
    <3>2. Has(chain', SetAnswers)
      BY <2>5, <2>8
    <3>3. RemoteKept'
      BY <1>1, <2>14, <3>1, <3>2 DEF RemoteKept
    <3>4. ASSUME NoOffers' PROVE Short'
      <4>1. NoOffers
        <5>1. ~Has(chain', CreateOffers) /\ ~Has(tasks', MadeOffers)
          BY <3>4 DEF NoOffers
        <5>2. QED
          BY <1>2, <2>6, <2>8, <5>1 DEF NoOffers
      <4>2. Len(chain') = 1
        BY <2>6, <2>8, <4>1
      <4>3. QED
        BY <4>2 DEF Short
    <3>5. ~LastOpen'
      BY <1>1, <3>1 DEF LastOpen
    <3>6. QED
      BY <3>3, <3>4, <3>5 DEF LocalKept
  <2>17. QED
    BY <2>10, <2>12, <2>15, <2>16 DEF IInv
<1>9. ASSUME t.op = "rolledBack"
      PROVE  /\ t \in Kept /\ t \in RolledBack /\ t \notin MadeAnswers /\ t.msg.type = "offer" /\ t.msg.n = n
             /\ toViewer' = toViewer
             /\ sig = "local" => chain' = Append(chain, OpSeen("rollback", t.msg, sig))
             /\ sig # "local" =>
                  chain' = Append(Append(chain, OpSeen("setRemote", t.msg, sig)), Op("createAnswer", t.msg))
             /\ \A o \in {"rollback", "setRemote"} :
                  LET x == OpSeen(o, t.msg, sig) IN x.op = o /\ x.msg = t.msg /\ x.saw = sig /\ x \in ChainOps
             /\ LET x == Op("createAnswer", t.msg) IN x.op = "createAnswer" /\ x.msg = t.msg /\ x \in ChainOps
  <2>1. t \in Kept /\ t \in RolledBack /\ t \notin MadeAnswers /\ t.msg.type = "offer" /\ t.msg.n = n
    BY <1>2, <1>3, <1>9 DEF Kept, RolledBack, MadeAnswers, TaskFits
  <2>2. sig \in States
    BY Facts
  <2>3. \A o \in {"rollback", "setRemote"} :
          LET x == OpSeen(o, t.msg, sig) IN x.op = o /\ x.msg = t.msg /\ x.saw = sig /\ x \in ChainOps
    BY <1>3, <2>2 DEF OpSeen, Op, ChainOps, Sets
  <2>4. LET x == Op("createAnswer", t.msg) IN x.op = "createAnswer" /\ x.msg = t.msg /\ x \in ChainOps
    BY <1>3 DEF Op, ChainOps, Creates, States
  <2>5. chain \in Seq(ChainOps)
    BY Facts, FitsAre, SeqMonotonic
  <2>6. Retry(t.msg)
    BY <1>1, <1>9
  <2>7. sig = "local" => chain' = Append(chain, OpSeen("rollback", t.msg, sig))
    BY <2>3, <2>5, <2>6, Joined DEF Retry
  <2>8. sig # "local" =>
          chain' = Append(Append(chain, OpSeen("setRemote", t.msg, sig)), Op("createAnswer", t.msg))
    BY <2>3, <2>4, <2>5, <2>6, Joined DEF Retry
  <2>9. QED
    BY <2>1, <2>3, <2>4, <2>6, <2>7, <2>8 DEF Retry
<1>10. CASE t.op = "rolledBack" /\ sig = "local"
  <2> DEFINE x == OpSeen("rollback", t.msg, sig)
  <2>1. /\ chain' = Append(chain, x) /\ toViewer' = toViewer
        /\ x.op = "rollback" /\ x.msg = t.msg /\ x.saw = "local" /\ x \in ChainOps
        /\ t.msg.type = "offer" /\ t.msg.n = n
    BY <1>9, <1>10
  <2>2. t \in Kept /\ t \notin MadeAnswers
    BY <1>9, <1>10
  <2> HIDE DEF x
  <2>3. /\ x \in ChainFits(n) /\ x \in Held /\ x \in Rollbacks /\ x \notin CreateOffers /\ x \notin CreateAnswers
        /\ x \notin SetOffers /\ x \notin SetAnswers
    BY <2>1 DEF ChainFits, Held, CreateOffers, CreateAnswers, SetOffers, SetAnswers, Rollbacks
  <2>4. /\ ~Has(chain, CreateAnswers) /\ CountOf(tasks', Kept) + 1 = CountOf(tasks, Kept)
        /\ t \notin MadeOffers
        /\ NoOffers => chain = <<>>
    BY <1>7, <2>2
  <2>5. /\ chain' \in Seq(ChainFits(n)) /\ CountOf(chain', Held) = CountOf(chain, Held) + One(x \in Held)
        /\ chain' # <<>>
        /\ \A T : Has(chain', T) <=> Has(chain, T) \/ x \in T
        /\ chain = <<>> => Len(chain') = 1 /\ Head(chain') = x
    BY <2>1, <2>3, Facts, ChainAppended
  <2>6. Fits'
    BY <1>1, <1>2, <2>1, <2>5, Facts DEF Fits
  <2>7. OneExchange'
    <3>1. CountOf(chain', Held) = CountOf(chain, Held) + 1
      BY <2>3, <2>5 DEF One
    <3>2. /\ CountOf(chain', Held) \in Nat /\ CountOf(tasks', Kept) \in Nat
          /\ CountOf(chain', Held) + CountOf(tasks', Kept) = CountOf(chain, Held) + CountOf(tasks, Kept)
      BY <1>2, <1>4, <2>4, <3>1
    <3>3. QED
      BY <1>1, <2>1, <3>2, ChainExchange
  <2>8. Sorted(chain')
    BY <2>1, <2>3, <2>4, Facts, SortedAppended
  <2>9. Answering' <=> Answering
    BY <1>1, <2>3, <2>5 DEF Answering
  <2>10. Order'
    BY <1>2, <2>2, <2>3, <2>5, <2>8, <2>9, Facts DEF Order
  <2>11. ~raced' => RemoteKept'
    BY <1>1, <1>2, <2>2, <2>3, <2>5, <2>9 DEF IInv, RemoteKept
  <2>12. ASSUME ~raced', NoOffers' PROVE Short' /\ (LastOpen' => Closing' /\ Followed(toViewer'))
    <3>1. NoOffers
      <4>1. ~Has(chain', CreateOffers) /\ ~Has(tasks', MadeOffers)
        BY <2>12 DEF NoOffers
      <4>2. QED
        BY <1>2, <2>4, <2>5, <4>1 DEF NoOffers
    <3>2. Len(chain') = 1 /\ Head(chain') = x
      BY <2>4, <2>5, <3>1
    <3>3. Short'
      BY <3>2 DEF Short
    <3>4. Closing'
      BY <2>1, <2>5, <3>2 DEF Closing, Closes
    <3>5. LastOpen
      BY <1>10 DEF LastOpen
    <3>6. QED
      BY <1>1, <2>1, <2>12, <3>1, <3>3, <3>4, <3>5 DEF IInv, LocalKept
  <2>13. ~raced' => LocalKept'
    BY <2>12 DEF LocalKept
  <2>14. QED
    BY <2>6, <2>7, <2>10, <2>11, <2>13 DEF IInv
<1>11. CASE t.op = "rolledBack" /\ sig # "local"
  <2> DEFINE x == OpSeen("setRemote", t.msg, sig)
             y == Op("createAnswer", t.msg)
             c == Append(chain, x)
  <2>1. /\ chain' = Append(c, y) /\ toViewer' = toViewer
        /\ x.op = "setRemote" /\ x.msg = t.msg /\ x.saw # "local" /\ x \in ChainOps
        /\ y.op = "createAnswer" /\ y.msg = t.msg /\ y \in ChainOps
        /\ t.msg.type = "offer" /\ t.msg.n = n
    BY <1>9, <1>11
  <2>2. t \in Kept /\ t \notin MadeAnswers
    BY <1>9, <1>11
  <2> HIDE DEF x, y
  <2>3. /\ x \in ChainFits(n) /\ x \in SetOffers /\ x \notin Held /\ x \notin Rollbacks /\ x \notin CreateOffers
        /\ x \notin CreateAnswers /\ x \notin SetAnswers
    BY <2>1 DEF ChainFits, Held, CreateOffers, CreateAnswers, SetOffers, SetAnswers, Rollbacks
  <2>4. /\ y \in ChainFits(n) /\ y \in CreateAnswers /\ y \in Held /\ y \notin Rollbacks /\ y \notin CreateOffers
        /\ y \notin SetOffers /\ y \notin SetAnswers
    BY <2>1 DEF ChainFits, Held, CreateOffers, CreateAnswers, SetOffers, SetAnswers, Rollbacks
  <2>5. /\ ~Has(chain, CreateAnswers) /\ CountOf(tasks', Kept) + 1 = CountOf(tasks, Kept)
        /\ t \notin MadeOffers
        /\ NoOffers => chain = <<>>
    BY <1>7, <2>2
  <2>6. /\ c \in Seq(ChainFits(n)) /\ CountOf(c, Held) = CountOf(chain, Held) + One(x \in Held)
        /\ \A T : Has(c, T) <=> Has(chain, T) \/ x \in T
        /\ chain = <<>> => Len(c) = 1 /\ c # <<>> /\ Head(c) = x
    BY <2>3, Facts, ChainAppended
  <2>7. Sorted(c)
    BY <2>3, <2>5, Facts, SortedAppended
  <2> HIDE DEF c
  <2>8. /\ chain' \in Seq(ChainFits(n)) /\ CountOf(chain', Held) = CountOf(c, Held) + One(y \in Held)
        /\ \A T : Has(chain', T) <=> Has(c, T) \/ y \in T
    BY <2>1, <2>4, <2>6, HasAppended, Appended
  <2>9. Fits'
    BY <1>1, <1>2, <2>1, <2>8, Facts DEF Fits
  <2>10. OneExchange'
    <3>1. CountOf(chain', Held) = CountOf(chain, Held) + 1
      BY <1>4, <2>3, <2>4, <2>6, <2>8 DEF One
    <3>2. /\ CountOf(chain', Held) \in Nat /\ CountOf(tasks', Kept) \in Nat
          /\ CountOf(chain', Held) + CountOf(tasks', Kept) = CountOf(chain, Held) + CountOf(tasks, Kept)
      BY <1>2, <1>4, <2>5, <3>1
    <3>3. QED
      BY <1>1, <2>1, <3>2, ChainExchange
  <2>11. Sorted(chain')
    BY <2>1, <2>4, <2>6, <2>7, SortedAppended
  <2>12. Answering' /\ Has(chain', SetOffers) /\ (Has(chain', SetAnswers) <=> Has(chain, SetAnswers))
    BY <2>3, <2>4, <2>6, <2>8 DEF Answering
  <2>13. Has(tasks', MadeAnswers) <=> Has(tasks, MadeAnswers)
    BY <1>2, <2>2
  <2>14. Order'
    BY <2>11, <2>12, <2>13, Facts DEF Order
  <2>15. ~raced' => RemoteKept'
    BY <1>1, <2>12, <2>13 DEF IInv, RemoteKept
  <2>16. ASSUME ~raced', NoOffers' PROVE Short' /\ ~LastOpen'
    <3>1. NoOffers
      <4>1. ~Has(chain', CreateOffers) /\ ~Has(tasks', MadeOffers)
        BY <2>16 DEF NoOffers
      <4>2. QED
        BY <1>2, <2>5, <2>6, <2>8, <4>1 DEF NoOffers
    <3>2. Len(c) = 1 /\ c # <<>> /\ Head(c) = x /\ c[1] = x
      BY <2>5, <2>6, <3>1, Taken
    <3>3. Len(chain') = 2 /\ chain'[1] = x /\ chain'[2] = y /\ chain' # <<>> /\ Head(chain') = x
      <4>1. /\ chain' # <<>> /\ Len(chain') = Len(c) + 1 /\ chain'[Len(c) + 1] = y
            /\ \A i \in 1..Len(c) : chain'[i] = c[i]
        BY <2>1, <2>4, <2>6, Appended
      <4>2. Head(chain') = chain'[1]
        BY <2>8, <4>1, Taken
      <4>3. QED
        BY <3>2, <4>1, <4>2
    <3>4. Short'
      BY <2>3, <2>4, <3>3 DEF Short
    <3>5. ~LastOpen'
      BY <1>1, <1>11, <2>1, <3>3 DEF LastOpen, Opens
    <3>6. QED
      BY <3>4, <3>5
  <2>17. ~raced' => LocalKept'
    BY <2>16 DEF LocalKept
  <2>18. QED
    BY <2>9, <2>10, <2>14, <2>15, <2>17 DEF IInv
<1>12. QED
  BY <1>1, <1>3, <1>6, <1>8, <1>10, <1>11 DEF Messages

\* A set operation that leaves the chain.  Behind it an offer may be asked for.
LEMMA SetDone ==
  ASSUME IInv, chain # <<>>, Head(chain).op \in {"setLocal", "setRemote"},
         chain' = Tail(chain) \/ chain' = Tail(chain) \o CreateOffer("stable"), sig' \in States, raced => raced',
         UNCHANGED <<tasks, loop, viewer, offers, toDevice, toViewer>>
  PROVE  /\ Fits' /\ OneExchange' /\ Sorted(chain') /\ (Answering' <=> Answering)
         /\ \A T \in {CreateAnswers, Rollbacks} : Has(chain', T) <=> Has(chain, T)
         /\ \A T \in {SetOffers, SetAnswers} :
              /\ Has(chain', T) <=> Has(Tail(chain), T)
              /\ Has(chain, T) <=> Has(chain', T) \/ Head(chain) \in T
         /\ NoOffers' => NoOffers /\ chain' = Tail(chain)
<1> DEFINE o == Head(chain)
           c == Tail(chain)
           x == Op("createOffer", None)
           Same == {CreateAnswers, Rollbacks, SetOffers, SetAnswers}
<1>1. /\ c \in Seq(ChainFits(viewer.offer)) /\ Sorted(c)
      /\ \A T : Has(chain, T) <=> Has(c, T) \/ o \in T
      /\ CountOf(chain, Held) = CountOf(c, Held) + One(o \in Held) /\ CountOf(c, Held) \in Nat
  BY ChainTaken
<1>2. o \notin Held /\ o \notin CreateOffers /\ o \notin CreateAnswers /\ o \notin Rollbacks
  BY DEF Held, CreateOffers, CreateAnswers, Rollbacks
<1>3. /\ x \in ChainFits(viewer.offer) /\ x \in CreateOffers
      /\ x \notin Held /\ x \notin CreateAnswers /\ x \notin SetOffers /\ x \notin SetAnswers /\ x \notin Rollbacks
  BY AskFits
<1>4. chain' = c \/ chain' = Append(c, x)
  BY <1>1, <1>3, AskFits, Joined
<1> HIDE DEF c, o, x
<1>5. /\ chain' \in Seq(ChainFits(viewer.offer)) /\ Sorted(chain')
      /\ CountOf(chain', Held) = CountOf(c, Held)
      /\ \A T \in Same : Has(chain', T) <=> Has(c, T)
      /\ ~Has(chain', CreateOffers) => chain' = c
  <2>1. CASE chain' = c
    BY <1>1, <2>1
  <2>2. CASE chain' = Append(c, x)
    <3>1. /\ chain' \in Seq(ChainFits(viewer.offer)) /\ CountOf(chain', Held) = CountOf(c, Held) + One(x \in Held)
          /\ \A T : Has(chain', T) <=> Has(c, T) \/ x \in T
      BY <1>1, <1>3, <2>2, Appended, HasAppended
    <3>2. Sorted(chain')
      BY <1>1, <1>3, <2>2, SortedAppended
    <3>3. CountOf(chain', Held) = CountOf(c, Held)
      BY <1>1, <1>3, <3>1 DEF One
    <3>4. \A T \in Same : x \notin T
      BY <1>3
    <3>5. QED
      BY <1>3, <3>1, <3>2, <3>3, <3>4
  <2>3. QED
    BY <1>4, <2>1, <2>2
<1>6. Fits'
  BY <1>5, Facts DEF Fits
<1>7. OneExchange'
  <2>1. CountOf(chain', Held) = CountOf(chain, Held)
    BY <1>1, <1>2, <1>5 DEF One
  <2>2. CountOf(chain', Held) \in Nat /\ CountOf(tasks', Kept) = CountOf(tasks, Kept) /\ CountOf(tasks', Kept) \in Nat
    BY <1>1, <1>5, Facts, Counts
  <2>3. QED
    BY <2>1, <2>2, ChainExchange
<1>8. \A T \in {CreateAnswers, Rollbacks} : Has(chain', T) <=> Has(chain, T)
  BY <1>1, <1>2, <1>5
<1>9. \A T \in {SetOffers, SetAnswers} :
        /\ Has(chain', T) <=> Has(c, T)
        /\ Has(chain, T) <=> Has(chain', T) \/ o \in T
  BY <1>1, <1>5
<1>10. Answering' <=> Answering
  BY <1>8 DEF Answering
<1>11. NoOffers' => NoOffers /\ chain' = c
  <2>1. ASSUME NoOffers' PROVE NoOffers /\ chain' = c
    <3>1. ~Has(chain', CreateOffers) /\ ~Has(tasks, MadeOffers)
      BY <2>1 DEF NoOffers
    <3>2. chain' = c
      BY <1>5, <3>1
    <3>3. QED
      BY <1>1, <1>2, <3>1, <3>2 DEF NoOffers
  <2>2. QED
    BY <2>1
<1>12. QED
  BY <1>5, <1>6, <1>7, <1>8, <1>9, <1>10, <1>11 DEF c, o

LEMMA OfSetLocal ==
  ASSUME IInv, Flags', chain # <<>>, Head(chain).op = "setLocal", SetLocal(Head(chain).msg), raced' = raced,
         UNCHANGED <<loop, viewer, offers, toDevice, toViewer>>
  PROVE  IInv'
<1> DEFINE m == Head(chain).msg
<1>1. Head(chain) \in ChainOps /\ m \in Messages
  BY HeadKinds
<1>2. Tail(chain) \o <<>> = Tail(chain)
  BY ChainTaken, Joined
<1>3. tasks' = tasks
  BY DEF SetLocal
<1>4. \/ m.type = "offer" /\ sig \in {"stable", "local"} /\ sig' = "local" /\ chain' = Tail(chain)
      \/ /\ m.type = "answer" /\ sig = "remote" /\ sig' = "stable"
         /\ chain' = Tail(chain) \/ chain' = Tail(chain) \o CreateOffer("stable")
      \/ m.type = "offer" /\ sig = "remote" /\ sig' = sig /\ chain' = Tail(chain)
      \/ m.type # "offer" /\ sig # "remote" /\ sig' = sig /\ chain' = Tail(chain)
  BY <1>2, Zenon DEF SetLocal, OnOffer, OnStable, Refused
<1>5. chain' = Tail(chain) \/ chain' = Tail(chain) \o CreateOffer("stable")
  BY <1>4, Zenon
<1>6. sig' \in States
  BY <1>4, Facts DEF States
<1>7. /\ Fits' /\ OneExchange' /\ Sorted(chain') /\ (Answering' <=> Answering)
      /\ (Has(chain', Rollbacks) <=> Has(chain, Rollbacks))
      /\ (Has(chain, SetOffers) <=> Has(chain', SetOffers) \/ Head(chain) \in SetOffers)
      /\ (Has(chain, SetAnswers) <=> Has(chain', SetAnswers) \/ Head(chain) \in SetAnswers)
      /\ (Has(chain', SetAnswers) <=> Has(Tail(chain), SetAnswers))
      /\ NoOffers' => NoOffers /\ chain' = Tail(chain)
  BY <1>3, <1>5, <1>6, SetDone
<1>8. Head(chain) \notin SetOffers /\ (Head(chain) \in SetAnswers <=> m.type = "answer")
  BY <1>1 DEF SetOffers, SetAnswers
<1>9. Order'
  <2>1. Has(tasks, MadeAnswers) => ~Has(chain', SetAnswers)
    BY <1>7, Facts DEF Order
  <2>2. QED
    BY <1>3, <1>7, <1>8, <2>1, Facts DEF Order
<1>10. ASSUME ~raced' PROVE RemoteKept /\ LocalKept
  BY <1>10 DEF IInv
<1>11. ASSUME ~raced', NoOffers'
       PROVE  NoOffers /\ (chain' = <<>> \/ Harmless)
  BY <1>7, <1>8, <1>10, <1>11, ShortTaken DEF LocalKept
<1>12. CASE m.type = "offer" /\ sig \in {"stable", "local"} /\ sig' = "local"
  <2>1. ASSUME ~raced' PROVE RemoteKept'
    BY <1>3, <1>7, <1>8, <1>10, <1>12, <2>1 DEF RemoteKept
  <2>2. ASSUME ~raced', NoOffers' PROVE Short' /\ Closing' /\ Followed(toViewer')
    <3>1. chain' = <<>> /\ NoOffers
      BY <1>11, <1>12, <2>2 DEF Harmless
    <3>2. Short'
      BY <3>1 DEF Short
    <3>3. LastOpen
      BY <1>12 DEF LastOpen, Opens
    <3>4. Closing /\ Followed(toViewer)
      BY <1>10, <2>2, <3>1, <3>3 DEF LocalKept
    <3>5. ~Closes
      BY DEF Closes
    <3>6. Closing'
      BY <1>3, <3>4, <3>5 DEF Closing
    <3>7. QED
      BY <3>2, <3>4, <3>6
  <2>3. QED
    BY <1>7, <1>9, <2>1, <2>2 DEF IInv, LocalKept
<1>13. CASE m.type = "answer" /\ sig = "remote" /\ sig' = "stable"
  <2>1. Has(chain, SetAnswers) /\ ~Has(chain', SetAnswers)
    <3>1. ~Has(Tail(chain), SetAnswers)
      BY <1>8, <1>13, Facts, SortedTaken
    <3>2. QED
      BY <1>7, <1>8, <1>13, <3>1
  <2>2. ~Has(tasks, MadeAnswers) /\ (Answering => Has(chain, SetOffers))
    BY <2>1, Facts DEF Order
  <2>3. RemoteKept'
    BY <1>3, <1>7, <1>8, <1>13, <2>1, <2>2 DEF RemoteKept
  <2>4. ASSUME ~raced', NoOffers' PROVE Short' /\ ~LastOpen'
    <3>1. chain' = <<>>
      BY <1>11, <2>1, <2>4 DEF Harmless
    <3>2. QED
      BY <1>13, <3>1 DEF Short, LastOpen, Opens
  <2>5. QED
    BY <1>7, <1>9, <2>3, <2>4 DEF IInv, LocalKept
<1>14. CASE m.type = "offer" /\ sig = "remote" /\ sig' = sig
  <2>1. ASSUME ~raced' PROVE RemoteKept'
    BY <1>3, <1>7, <1>8, <1>10, <1>14, <2>1 DEF RemoteKept
  <2>2. ASSUME ~raced', NoOffers' PROVE Short' /\ ~LastOpen'
    <3>1. chain' = <<>> \/ Harmless'
      BY <1>7, <1>11, <1>14, <2>2 DEF Harmless
    <3>2. Short'
      BY <3>1 DEF Short
    <3>3. QED
      BY <1>14, <3>2 DEF LastOpen
  <2>3. QED
    BY <1>7, <1>9, <2>1, <2>2 DEF IInv, LocalKept
<1>15. CASE m.type # "offer" /\ sig # "remote" /\ sig' = sig
  <2>1. Has(chain, SetAnswers)
    BY <1>1, <1>7, <1>8, <1>15 DEF Messages
  <2>2. raced'
    BY <1>10, <1>15, <2>1 DEF RemoteKept
  <2>3. QED
    BY <1>7, <1>9, <2>2 DEF IInv
<1>16. QED
  BY <1>4, <1>12, <1>13, <1>14, <1>15, Zenon

LEMMA OfSetRemote ==
  ASSUME IInv, Flags', chain # <<>>, Head(chain).op = "setRemote", SetRemote(Head(chain).msg),
         raced' = (raced \/ Head(chain).saw # sig),
         UNCHANGED <<loop, viewer, offers, toDevice, toViewer>>
  PROVE  IInv'
<1> DEFINE m == Head(chain).msg
<1>1. Head(chain) \in ChainOps /\ m \in Messages
  BY HeadKinds
<1>2. Tail(chain) \o <<>> = Tail(chain)
  BY ChainTaken, Joined
<1>3. tasks' = tasks
  BY DEF SetRemote
<1>4. /\ chain' = Tail(chain)
      /\ \/ m.type = "offer" /\ sig \in {"stable", "remote"} /\ sig' = "remote"
         \/ m.type = "answer" /\ sig = "local" /\ sig' = "stable"
         \/ m.type = "offer" /\ sig = "local" /\ sig' = sig
         \/ m.type # "offer" /\ sig # "local" /\ sig' = sig
  <2>1. sig = "local" => ~Resumes
    BY DEF Resumes
  <2>2. QED
    BY <1>2, <2>1, Zenon DEF SetRemote, OnOffer, OnStable, Refused
<1>5. sig' \in States
  BY <1>4, Facts DEF States
<1>6. /\ Fits' /\ OneExchange' /\ Sorted(chain') /\ (Answering' <=> Answering)
      /\ (Has(chain', Rollbacks) <=> Has(chain, Rollbacks))
      /\ (Has(chain, SetOffers) <=> Has(chain', SetOffers) \/ Head(chain) \in SetOffers)
      /\ (Has(chain, SetAnswers) <=> Has(chain', SetAnswers) \/ Head(chain) \in SetAnswers)
      /\ (Has(chain', SetAnswers) <=> Has(Tail(chain), SetAnswers))
      /\ NoOffers' => NoOffers
  BY <1>3, <1>4, <1>5, SetDone
<1>7. Head(chain) \notin SetAnswers /\ (Head(chain) \in SetOffers <=> m.type = "offer")
  BY <1>1 DEF SetOffers, SetAnswers
<1>8. Head(chain) \in SetOffers => Answering /\ ~Has(chain', SetAnswers)
  <2>1. Head(chain) \in SetOffers => ~Has(Tail(chain), SetAnswers)
    BY Facts, SortedTaken
  <2>2. QED
    BY <1>6, <2>1, Facts DEF Order
<1>9. Order'
  BY <1>3, <1>6, <1>7, <1>8, Facts DEF Order
<1>10. ASSUME ~raced' PROVE ~raced /\ Head(chain).saw = sig /\ RemoteKept /\ LocalKept
  BY <1>10 DEF IInv
<1>11. ASSUME ~raced', NoOffers'
       PROVE  NoOffers /\ (chain' = <<>> \/ (Head(chain) \in SetOffers /\ Len(chain') = 1) \/ Harmless)
  BY <1>4, <1>6, <1>10, <1>11, ShortTaken DEF LocalKept
<1>12. CASE m.type = "offer" /\ sig' = "remote"
  <2>1. RemoteKept'
    BY <1>6, <1>7, <1>8, <1>12 DEF RemoteKept
  <2>2. ASSUME ~raced', NoOffers' PROVE Short'
    <3>1. Has(chain, SetOffers)
      BY <1>6, <1>7, <1>12
    <3>2. chain' = <<>> \/ Len(chain') = 1
      BY <1>11, <2>2, <3>1 DEF Harmless
    <3>3. QED
      BY <3>2 DEF Short
  <2>3. ~LastOpen'
    BY <1>12 DEF LastOpen
  <2>4. QED
    BY <1>6, <1>9, <2>1, <2>2, <2>3 DEF IInv, LocalKept
<1>13. CASE m.type = "answer" /\ sig = "local" /\ sig' = "stable"
  <2>1. ASSUME ~raced' PROVE RemoteKept'
    BY <1>3, <1>6, <1>7, <1>10, <1>13, <2>1 DEF RemoteKept
  <2>2. ASSUME ~raced', NoOffers' PROVE Short' /\ ~LastOpen'
    <3>1. chain' = <<>>
      BY <1>7, <1>11, <1>13, <2>2 DEF Harmless
    <3>2. QED
      BY <1>13, <3>1 DEF Short, LastOpen, Opens
  <2>3. QED
    BY <1>6, <1>9, <2>1, <2>2 DEF IInv, LocalKept
<1>14. CASE m.type = "offer" /\ sig = "local"
  <2>1. Head(chain).saw # "local"
    BY <1>14, HeadKinds DEF ChainFits
  <2>2. raced'
    BY <1>14, <2>1
  <2>3. QED
    BY <1>6, <1>9, <2>2 DEF IInv
<1>15. CASE m.type # "offer" /\ sig # "local" /\ sig' = sig
  <2>1. ASSUME ~raced' PROVE RemoteKept'
    BY <1>3, <1>6, <1>7, <1>10, <1>15, <2>1 DEF RemoteKept
  <2>2. ASSUME ~raced', NoOffers' PROVE Short' /\ ~LastOpen'
    <3>1. chain' = <<>> \/ Harmless
      BY <1>7, <1>11, <1>15, <2>2
    <3>2. CASE chain' = <<>>
      BY <1>15, <3>2 DEF Short, LastOpen, Opens
    <3>3. CASE Harmless
      <4>1. Harmless'
        BY <1>6, <1>15, <3>3 DEF Harmless
      <4>2. sig' = "remote"
        BY <1>15, <3>3 DEF Harmless
      <4>3. QED
        BY <4>1, <4>2 DEF Short, LastOpen
    <3>4. QED
      BY <3>1, <3>2, <3>3
  <2>3. QED
    BY <1>6, <1>9, <2>1, <2>2 DEF IInv, LocalKept
<1>16. QED
  BY <1>4, <1>12, <1>13, <1>14, <1>15, Zenon

\* A rollback hands the offer that caused it to a callback.
LEMMA OfRollback ==
  ASSUME IInv, Flags', chain # <<>>, Head(chain).op = "rollback", Rollback(Head(chain).msg),
         raced' = (raced \/ Head(chain).saw # sig),
         UNCHANGED <<loop, viewer, offers, toDevice, toViewer>>
  PROVE  IInv'
<1> DEFINE m == Head(chain).msg
           x == Op("rolledBack", m)
<1>1. /\ Head(chain) \in ChainOps /\ m \in Messages /\ m.type = "offer" /\ m.n = viewer.offer
      /\ Head(chain).saw = "local"
  BY HeadKinds DEF ChainFits
<1>2. Tail(chain) \o <<>> = Tail(chain)
  BY ChainTaken, Joined
<1>3. /\ chain' = Tail(chain)
      /\ \/ sig = "local" /\ sig' = "stable" /\ tasks' = Append(tasks, x)
         \/ sig # "local" /\ sig' = sig /\ tasks' = tasks
  <2>1. sig = "local" => ~Resumes
    BY DEF Resumes
  <2>2. QED
    BY <1>2, <2>1, Zenon DEF Rollback, OnStable, Refused
<1>4. /\ chain' \in Seq(ChainFits(viewer.offer)) /\ Sorted(chain')
      /\ \A T : Has(chain, T) <=> Has(chain', T) \/ Head(chain) \in T
      /\ CountOf(chain, Held) = CountOf(chain', Held) + One(Head(chain) \in Held)
      /\ CountOf(chain', Held) \in Nat
  BY <1>3, ChainTaken
<1>5. /\ Head(chain) \in Held /\ Head(chain) \notin CreateOffers /\ Head(chain) \notin CreateAnswers
      /\ Head(chain) \notin SetOffers /\ Head(chain) \notin SetAnswers
  BY <1>1 DEF Held, CreateOffers, CreateAnswers, SetOffers, SetAnswers
<1>6. CountOf(chain', Held) + 1 = CountOf(chain, Held)
  BY <1>4, <1>5 DEF One
<1>7. Answering' <=> Answering
  BY <1>4, <1>5 DEF Answering
<1>8. CountOf(chain, Held) \in Nat /\ CountOf(tasks, Kept) \in Nat
  BY Facts, Counts
<1> HIDE DEF m
<1>9. CASE sig = "local" /\ sig' = "stable" /\ tasks' = Append(tasks, x)
  <2>1. x.op = "rolledBack" /\ x.msg = m /\ x \in TaskOps
    BY <1>1 DEF Op, TaskOps, States, m
  <2> HIDE DEF x
  <2>2. x \in TaskFits(viewer.offer) /\ x \in Kept /\ x \notin MadeAnswers /\ x \notin MadeOffers
    BY <1>1, <2>1 DEF TaskFits, Kept, MadeAnswers, MadeOffers, m
  <2>3. /\ tasks' \in Seq(TaskFits(viewer.offer)) /\ CountOf(tasks', Kept) = CountOf(tasks, Kept) + 1
        /\ \A T : Has(tasks', T) <=> Has(tasks, T) \/ x \in T
    BY <1>9, <2>2, TasksAppended DEF One
  <2>4. Fits'
    BY <1>4, <1>9, <2>3, Facts DEF Fits, States
  <2>5. OneExchange'
    <3>1. /\ CountOf(tasks', Kept) \in Nat
          /\ CountOf(chain', Held) + CountOf(tasks', Kept) = CountOf(chain, Held) + CountOf(tasks, Kept)
      <4>1. CountOf(tasks', Kept) = CountOf(tasks, Kept) + 1
        BY <2>3
      <4>2. CountOf(chain', Held) \in Nat
        BY <1>4
      <4>3. QED
        BY <1>6, <1>8, <4>1, <4>2
    <3>2. QED
      BY <1>4, <3>1, ChainExchange
  <2>6. Order'
    BY <1>4, <1>5, <1>7, <2>2, <2>3, Facts DEF Order
  <2>7. ASSUME ~raced' PROVE RemoteKept' /\ LocalKept'
    <3>1. RemoteKept /\ LocalKept
      BY <2>7 DEF IInv
    <3>2. RemoteKept'
      BY <1>4, <1>5, <1>7, <1>9, <2>2, <2>3, <3>1 DEF RemoteKept
    <3>3. ASSUME NoOffers' PROVE Short' /\ ~LastOpen'
      <4>1. NoOffers
        <5>1. ~Has(chain', CreateOffers) /\ ~Has(tasks', MadeOffers)
          BY <3>3 DEF NoOffers
        <5>2. QED
          BY <1>4, <1>5, <2>2, <2>3, <5>1 DEF NoOffers
      <4>2. Short
        BY <3>1, <4>1 DEF LocalKept
      <4>3. chain' = <<>>
        BY <1>3, <1>5, <1>9, <4>2, ShortTaken DEF Harmless
      <4>4. QED
        BY <1>9, <4>3 DEF Short, LastOpen, Opens
    <3>4. QED
      BY <3>2, <3>3 DEF LocalKept
  <2>8. QED
    BY <2>4, <2>5, <2>6, <2>7 DEF IInv
<1>10. CASE sig # "local" /\ sig' = sig /\ tasks' = tasks
  <2>1. raced'
    BY <1>1, <1>10
  <2>2. Fits'
    BY <1>4, <1>10, Facts DEF Fits
  <2>3. OneExchange'
    <3>1. /\ CountOf(tasks', Kept) \in Nat /\ CountOf(tasks', Kept) = CountOf(tasks, Kept)
          /\ CountOf(chain', Held) + CountOf(tasks', Kept) <= CountOf(chain, Held) + CountOf(tasks, Kept)
      BY <1>4, <1>6, <1>8, <1>10
    <3>2. QED
      BY <1>4, <2>1, <3>1, ChainExchange
  <2>4. Order'
    BY <1>4, <1>5, <1>7, <1>10, Facts DEF Order
  <2>5. QED
    BY <2>1, <2>2, <2>3, <2>4 DEF IInv
<1>11. QED
  BY <1>3, <1>9, <1>10

LEMMA OfRunSet == IInv /\ Flags' /\ RunSet => IInv'
<1> SUFFICES ASSUME IInv, Flags', RunSet PROVE IInv'
  OBVIOUS
<1> DEFINE o == Head(chain)
<1>1. /\ chain # <<>>
      /\ \/ o.op = "setLocal" /\ SetLocal(o.msg)
         \/ o.op = "setRemote" /\ SetRemote(o.msg)
         \/ o.op = "rollback" /\ Rollback(o.msg)
      /\ raced' = (raced \/ (o.op # "setLocal" /\ o.saw # sig))
      /\ UNCHANGED <<loop, viewer, offers, toDevice, toViewer>>
  BY DEF RunSet, SetFirst, viewerVars
<1>2. raced \in BOOLEAN /\ raced' \in BOOLEAN
  BY Facts DEF Flags
<1>3. CASE o.op = "setLocal" /\ SetLocal(o.msg)
  <2>1. raced' = raced
    BY <1>1, <1>2, <1>3
  <2>2. QED
    BY <1>1, <1>3, <2>1, OfSetLocal
<1>4. CASE o.op = "setRemote" /\ SetRemote(o.msg)
  <2>1. raced' = (raced \/ o.saw # sig)
    BY <1>1, <1>4
  <2>2. QED
    BY <1>1, <1>4, <2>1, OfSetRemote
<1>5. CASE o.op = "rollback" /\ Rollback(o.msg)
  <2>1. raced' = (raced \/ o.saw # sig)
    BY <1>1, <1>5
  <2>2. QED
    BY <1>1, <1>5, <2>1, OfRollback
<1>6. QED
  BY <1>1, <1>3, <1>4, <1>5

-------------------------------------------------------------------------------

LEMMA Preserved == IInv /\ [Next]_vars => IInv'
<1> SUFFICES ASSUME IInv, [Next]_vars PROVE IInv'
  OBVIOUS
<1>1. ASSUME Next PROVE IInv'
  <2>1. Flags'
    BY <1>1, Facts, FlagsKept
  <2>2. CASE RunSet \/ RunCreate \/ RunTask
    BY <2>1, <2>2, OfRunSet, OfRunCreate, OfRunTask
  <2>3. CASE NegotiationNeeded \/ OnConnectionChange
    BY <2>1, <2>3, OfNegotiationNeeded, OfOnConnectionChange
  <2>4. CASE Receive \/ AddTracks
    BY <2>1, <2>4, OfReceive, OfAddTracks
  <2>5. CASE SetRemoteSdp
    BY <2>1, <2>5, OfCheckSdp, OfCallRollback, OfCallSetRemote, OfCallCreateAnswer DEF SetRemoteSdp
  <2>6. CASE ViewerOffers \/ ViewerReceives
    BY <2>1, <2>6, OfViewerOffers, OfViewerReceives
  <2>7. QED
    BY <1>1, <2>2, <2>3, <2>4, <2>5, <2>6 DEF Next, PeerConnectionStep, ServiceStep
<1>2. ASSUME UNCHANGED vars PROVE IInv'
  <2>1. UNCHANGED <<sig, needs, connected, chain, tasks, added, changed, told, loop, raced, viewer, offers, toDevice, toViewer>>
    BY <1>2 DEF vars, peerVars, trackVars, viewerVars
  <2>2. Flags' /\ Fits' /\ OneExchange' /\ Order'
    BY <2>1, Facts DEF Flags, Fits, OneExchange, Tokens, InLoop, Order, Answering
  <2>3. ~raced' => RemoteKept' /\ LocalKept'
    BY <2>1 DEF IInv, RemoteKept, LocalKept, Answering, NoOffers, Short, Harmless, LastOpen, Opens, Closing, Closes
  <2>4. QED
    BY <2>2, <2>3 DEF IInv
<1>3. QED
  BY <1>1, <1>2

\* RtcPeer::SetRemoteSdp and OnSuccess: whatever offers and answers cross, in whatever
\* order, an answer reaches the viewer only while the viewer waits for one, and it answers
\* the viewer's last offer; and once nothing is under way neither side waits for the other,
\* unless an operation ran in another signaling state than SetRemoteSdp had seen.
THEOREM AnswersFitAndCollisionsEnd == Spec => []NegotiationInv
<1>1. Init => IInv
  BY Initial
<1>2. IInv /\ [Next]_vars => IInv'
  BY Preserved
<1>3. IInv => NegotiationInv
  BY Implied
<1>4. QED
  BY <1>1, <1>2, <1>3, PTL DEF Spec
================================================================================
