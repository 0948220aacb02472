-------------------------- MODULE ClientLink_proof --------------------------
(***************************************************************************)
(* Proofs about ClientLink, for every number of clients, modulus and set   *)
(* of rates.                                                               *)
(***************************************************************************)
EXTENDS ClientLink, SequenceTheorems, TLAPS

-----------------------------------------------------------------------------
(* Packets on their way.                                                   *)

\* Taking a packet off the way leaves packets on the way.
LEMMA WithoutType ==
  ASSUME inFlight \in Seq(Packet), NEW k \in DOMAIN inFlight
  PROVE  Without(k) \in Seq(Packet)
<1>1. Len(inFlight) \in Nat /\ k \in 1 .. Len(inFlight)
  BY LenProperties
<1>2. /\ \A i \in 1 .. k - 1 : inFlight[i] \in Packet
      /\ \A i \in k + 1 .. Len(inFlight) : inFlight[i] \in Packet
  BY <1>1, ElementOfSeq
<1>3. SubSeq(inFlight, 1, k - 1) \in Seq(Packet)
  BY <1>1, <1>2, SubSeqProperties
<1>4. SubSeq(inFlight, k + 1, Len(inFlight)) \in Seq(Packet)
  BY <1>1, <1>2, SubSeqProperties
<1> QED
  BY <1>3, <1>4, ConcatProperties DEF Without, RemoveAt

\* A packet by its kind.
LEMMA PacketKinds ==
  ASSUME NEW p \in Packet
  PROVE  /\ p.kind = "pose" => p \in Pose /\ p.from \in Clients /\ p.sequence \in Sequences32
         /\ p.kind = "handshake" => p.from \in Clients /\ p.rate \in RequestedRates
  BY DEF Packet, Pose, Handshake, KeyframeRequest

\* Marking what is newer changes no packet's kind.
LEMMA MarkNewerType ==
  ASSUME inFlight \in Seq(Packet), NEW k \in DOMAIN inFlight
  PROVE  MarkNewer(k) \in Seq(Packet)
<1> DEFINE w == Without(k)
<1>1. w \in Seq(Packet)
  BY WithoutType
<1>2. Len(w) \in Nat /\ DOMAIN w = 1 .. Len(w)
  BY <1>1, LenProperties
<1>3. k \in Int
  BY LenProperties
<1>4. MarkNewer(k) = [j \in 1 .. Len(w) |->
        IF w[j].kind = "pose" THEN [w[j] EXCEPT !.newer = j >= k] ELSE w[j]]
  BY <1>2 DEF MarkNewer
<1>5. \A j \in 1 .. Len(w) : w[j] \in Packet
  BY <1>1, ElementOfSeq
<1> HIDE DEF w
<1>6. ASSUME NEW j \in 1 .. Len(w)
      PROVE  (IF w[j].kind = "pose" THEN [w[j] EXCEPT !.newer = j >= k] ELSE w[j]) \in Packet
  <2>1. CASE w[j].kind = "pose"
    <3>1. w[j] \in Pose
      BY <1>5, <2>1, PacketKinds
    <3>2. (j >= k) \in BOOLEAN
      OBVIOUS
    <3>3. [w[j] EXCEPT !.newer = j >= k] \in Pose
      BY <3>1, <3>2 DEF Pose
    <3> QED
      BY <2>1, <3>3 DEF Packet
  <2>2. CASE w[j].kind # "pose"
    BY <1>5, <2>2
  <2> QED
    BY <2>1, <2>2
<1> QED
  BY <1>2, <1>4, <1>6

LEMMA SendType ==
  ASSUME inFlight \in Seq(Packet), NEW p \in Packet, Send(p)
  PROVE  inFlight' \in Seq(Packet)
  BY DEF Send

-----------------------------------------------------------------------------
(* Type correctness.                                                       *)

LEMMA ConstantFacts ==
  /\ SequenceModulus \in Nat \ {0} /\ ConfiguredRate \in Nat \ {0}
  /\ MaxClients \in Nat \ {0} /\ MaxKeyframeRequests \in Nat
  /\ Clients \subseteq Nat
  /\ \A n \in Int : n % SequenceModulus \in Sequences32
  /\ 0 \in Sequences32
  BY ModulusAssumption, RatesAssumption, BoundsAssumption DEF Clients, Sequences32

LEMMA SmallerOfTwo ==
  ASSUME NEW a \in Nat \ {0}, NEW b \in Nat \ {0}
  PROVE  Min({a, b}) \in 1 .. b
<1>1. CASE a <= b
  <2>1. Min({a, b}) = a
    BY <1>1 DEF Min
  <2> QED
    BY <1>1, <2>1
<1>2. CASE a > b
  <2>1. Min({a, b}) = b
    BY <1>2 DEF Min
  <2> QED
    BY <2>1
<1> QED
  BY <1>1, <1>2

LEMMA TypeInit == Init => TypeOK
<1> SUFFICES ASSUME Init PROVE TypeOK
  OBVIOUS
<1>1. 1 \in Clients /\ 0 \in 0 .. LostAfter + 1 /\ 0 \in Nat
        /\ ConfiguredRate \in 1 .. ConfiguredRate
  BY ConstantFacts DEF Clients, LostAfter
<1>2. <<>> \in Seq(Packet)
  OBVIOUS
<1> QED
  BY <1>1, <1>2, ConstantFacts DEF Init, TypeOK

LEMMA TypeStep ==
  ASSUME TypeOK, [Next]_vars
  PROVE  TypeOK'
<1> USE DEF TypeOK, clientVars, linkVars, sessionVars, historyVars
<1>1. CASE UNCHANGED vars
  BY <1>1 DEF vars
<1>2. CASE ClientSide
  <2>1. CASE SendPose
    <3>1. sequence' \in Sequences32
      <4>1. sequence + 1 \in Int
        BY ConstantFacts DEF Sequences32
      <4> QED
        BY <2>1, <4>1, ConstantFacts DEF SendPose
    <3> DEFINE p == [kind |-> "pose", from |-> client, sequence |-> sequence', newer |-> TRUE]
    <3>2. p \in Packet
      BY <3>1 DEF Packet, Pose
    <3>3. Send(p)
      BY <2>1 DEF SendPose
    <3> HIDE DEF p
    <3>4. inFlight' \in Seq(Packet)
      BY <3>2, <3>3, SendType
    <3> QED
      BY <2>1, <3>1, <3>4 DEF SendPose
  <2>2. CASE RequestKeyframe
    <3>1. [kind |-> "keyframe"] \in Packet
      BY DEF Packet, KeyframeRequest
    <3>2. inFlight' \in Seq(Packet)
      BY <2>2, <3>1, SendType DEF RequestKeyframe
    <3> QED
      BY <2>2, <3>2 DEF RequestKeyframe
  <2>3. CASE HearVideo
    BY <2>3 DEF HearVideo
  <2>4. CASE RestartClient
    <3>1. client' \in Clients
      BY <2>4, ConstantFacts DEF RestartClient, Clients
    <3> QED
      BY <2>4, <3>1, ConstantFacts DEF RestartClient
  <2>5. ASSUME NEW rate \in RequestedRates, Announce(rate)
        PROVE  TypeOK'
    <3>1. [kind |-> "handshake", from |-> client, rate |-> rate] \in Packet
      BY DEF Packet, Handshake
    <3>2. inFlight' \in Seq(Packet)
      BY <2>5, <3>1, SendType DEF Announce
    <3> QED
      BY <2>5, <3>2 DEF Announce
  <2> QED
    BY <1>2, <2>1, <2>2, <2>3, <2>4, <2>5 DEF ClientSide
<1>3. ASSUME NEW k \in DOMAIN inFlight, DrainOne(k)
      PROVE  TypeOK'
  <2>1. inFlight[k] \in Packet
    BY ElementOfSeq, LenProperties
  <2>2. Without(k) \in Seq(Packet) /\ MarkNewer(k) \in Seq(Packet)
    BY WithoutType, MarkNewerType
  <2>3. CASE RejectPose(k)
    <3>1. misjudged' \in BOOLEAN
      BY <2>3 DEF RejectPose
    <3> QED
      BY <2>2, <2>3, <3>1 DEF RejectPose
  <2>4. CASE AcceptPose(k)
    <3>1. misjudged' \in BOOLEAN
      BY <2>4 DEF AcceptPose
    <3>2. latest' \in [from : Clients \cup {Nobody}, sequence : Sequences32]
      BY <2>1, <2>4, PacketKinds DEF AcceptPose
    <3>3. age' \in 0 .. LostAfter + 1
      BY <2>4 DEF AcceptPose, LostAfter
    <3> QED
      BY <2>2, <2>4, <3>1, <3>2, <3>3 DEF AcceptPose
  <2>5. CASE ReadKeyframeRequest(k)
    BY <2>2, <2>5 DEF ReadKeyframeRequest
  <2>6. CASE ReadHandshake(k)
    <3>1. pending' \in Endpoint /\ lastHandshake' \in Clients
      BY <2>1, <2>6, PacketKinds DEF ReadHandshake, Endpoint
    <3> QED
      BY <2>2, <2>6, <3>1 DEF ReadHandshake
  <2> QED
    BY <1>3, <2>3, <2>4, <2>5, <2>6 DEF DrainOne, ReadPose
<1>4. CASE WaitFrame
  <2>1. CASE BeginWaitFrame
    BY <2>1 DEF BeginWaitFrame
  <2>2. CASE EndPollForClient
    <3>1. destination' \in Clients \cup {Nobody}
      BY <2>2, NobodyAssumption DEF EndPollForClient, Endpoint
    <3>2. deliveryFrameRate' \in 1 .. ConfiguredRate
      <4>1. CASE pending # Nobody /\ pending.rate # 0
        <5>1. pending.rate \in Nat /\ pending.rate # 0
          BY <4>1, RatesAssumption DEF Endpoint
        <5>2. Min({pending.rate, ConfiguredRate}) \in 1 .. ConfiguredRate
          BY <5>1, ConstantFacts, SmallerOfTwo
        <5> QED
          BY <2>2, <4>1, <5>2 DEF EndPollForClient
      <4>2. CASE pending = Nobody \/ pending.rate = 0
        BY <2>2, <4>2 DEF EndPollForClient
      <4> QED
        BY <4>1, <4>2
    <3> QED
      BY <2>2, <3>1, <3>2 DEF EndPollForClient
  <2>3. CASE EndPollPose
    <3>1. keyframeRequests' \in Nat
      BY <2>3 DEF EndPollPose
    <3>2. frame' \in [poseValid : BOOLEAN, from : Clients \cup {Nobody}]
      <4>1. [poseValid |-> TRUE, from |-> latest.from]
              \in [poseValid : BOOLEAN, from : Clients \cup {Nobody}]
        OBVIOUS
      <4> QED
        BY <2>3, <4>1 DEF EndPollPose
    <3> QED
      BY <2>3, <3>1, <3>2 DEF EndPollPose
  <2> QED
    BY <1>4, <2>1, <2>2, <2>3 DEF WaitFrame
<1>5. CASE Tick
  BY <1>5 DEF Tick, LostAfter
<1> QED
  BY <1>1, <1>2, <1>3, <1>4, <1>5 DEF Next

-----------------------------------------------------------------------------
(* The handshake.                                                          *)

LEMMA HandshakeStep ==
  ASSUME TypeOK, HandshakeIsKept, [Next]_vars
  PROVE  HandshakeIsKept'
<1> USE DEF HandshakeIsKept, clientVars, linkVars, sessionVars, historyVars
<1>1. CASE UNCHANGED vars
  BY <1>1 DEF vars
<1>2. CASE ClientSide
  BY <1>2 DEF ClientSide, SendPose, RequestKeyframe, HearVideo, RestartClient, Announce
<1>3. ASSUME NEW k \in DOMAIN inFlight, DrainOne(k)
      PROVE  HandshakeIsKept'
  <2>1. CASE ReadHandshake(k)
    <3>1. inFlight[k] \in Packet
      BY ElementOfSeq, LenProperties DEF TypeOK
    <3>2. pending' \in Endpoint /\ pending'.from = lastHandshake'
      BY <2>1, <3>1, PacketKinds DEF ReadHandshake, Endpoint
    <3> QED
      BY <3>2, NobodyAssumption
  <2>2. CASE RejectPose(k) \/ AcceptPose(k) \/ ReadKeyframeRequest(k)
    BY <2>2 DEF RejectPose, AcceptPose, ReadKeyframeRequest
  <2> QED
    BY <1>3, <2>1, <2>2 DEF DrainOne, ReadPose
<1>4. CASE WaitFrame
  BY <1>4 DEF WaitFrame, BeginWaitFrame, EndPollForClient, EndPollPose
<1>5. CASE Tick
  BY <1>5 DEF Tick
<1> QED
  BY <1>1, <1>2, <1>3, <1>4, <1>5 DEF Next

-----------------------------------------------------------------------------
(* Sequence numbers.                                                       *)

\* A difference of two numbers, reduced.
LEMMA ReduceDifference ==
  ASSUME NEW x \in Int, -SequenceModulus < x, x < SequenceModulus
  PROVE  x % SequenceModulus = IF x >= 0 THEN x ELSE x + SequenceModulus
  BY ConstantFacts

\* Half of all numbers, and what Delta is of two of them.
LEMMA HalfFacts ==
  /\ SequenceModulus \div 2 \in Nat
  /\ SequenceModulus = 2 * (SequenceModulus \div 2)
  /\ MaxDelay \in Nat \ {0} /\ MaxDelay < SequenceModulus \div 2
  BY ModulusAssumption, BoundsAssumption, WindowAssumption

LEMMA DeltaByCases ==
  ASSUME NEW a \in Sequences32, NEW b \in Sequences32
  PROVE  LET h == SequenceModulus \div 2
             x == a - b
         IN  /\ x \in Int /\ -SequenceModulus < x /\ x < SequenceModulus
             /\ h <= x => Delta(a, b) = x - SequenceModulus
             /\ -h <= x /\ x < h => Delta(a, b) = x
             /\ x < -h => Delta(a, b) = x + SequenceModulus
<1> DEFINE x == a - b
<1>1. x \in Int /\ -SequenceModulus < x /\ x < SequenceModulus
  BY ConstantFacts DEF Sequences32
<1>2. x % SequenceModulus = IF x >= 0 THEN x ELSE x + SequenceModulus
  BY <1>1, ReduceDifference
<1>3. Delta(a, b) = IF x % SequenceModulus < SequenceModulus \div 2
                    THEN x % SequenceModulus ELSE (x % SequenceModulus) - SequenceModulus
  BY DEF Delta
<1> HIDE DEF x
<1> DEFINE h == SequenceModulus \div 2
<1>4. h \in Nat /\ SequenceModulus = 2 * h
  BY HalfFacts
<1> HIDE DEF h
<1>5. Delta(a, b) = IF x % SequenceModulus < h
                    THEN x % SequenceModulus ELSE (x % SequenceModulus) - SequenceModulus
  BY <1>3 DEF h
<1>6. /\ h <= x => Delta(a, b) = x - SequenceModulus
      /\ -h <= x /\ x < h => Delta(a, b) = x
      /\ x < -h => Delta(a, b) = x + SequenceModulus
  BY <1>1, <1>2, <1>4, <1>5
<1> QED
  BY <1>1, <1>6 DEF x, h

LEMMA DeltaType ==
  ASSUME NEW a \in Sequences32, NEW b \in Sequences32
  PROVE  Delta(a, b) \in Int
  BY HalfFacts, DeltaByCases

\* A number sent a little after another is newer by as much as the other is older.
LEMMA DeltaAntisymmetric ==
  ASSUME NEW a \in Sequences32, NEW b \in Sequences32, Delta(a, b) \in 1 .. MaxDelay
  PROVE  Delta(b, a) < 0
<1> DEFINE h == SequenceModulus \div 2
<1>1. h \in Nat /\ SequenceModulus = 2 * h /\ MaxDelay < h /\ MaxDelay \in Nat
  BY HalfFacts
<1>2. a \in Int /\ b \in Int
  BY DEF Sequences32
<1>3. /\ -SequenceModulus < a - b /\ a - b < SequenceModulus
      /\ h <= a - b => Delta(a, b) = (a - b) - SequenceModulus
      /\ -h <= a - b /\ a - b < h => Delta(a, b) = a - b
      /\ a - b < -h => Delta(a, b) = (a - b) + SequenceModulus
  BY DeltaByCases
<1>4. /\ h <= b - a => Delta(b, a) = (b - a) - SequenceModulus
      /\ -h <= b - a /\ b - a < h => Delta(b, a) = b - a
      /\ b - a < -h => Delta(b, a) = (b - a) + SequenceModulus
  BY DeltaByCases
<1> HIDE DEF h
<1> QED
  BY <1>1, <1>2, <1>3, <1>4

\* The next number is one further from a number that is close behind.
LEMMA DeltaOfNext ==
  ASSUME NEW a \in Sequences32, NEW b \in Sequences32, NEW c \in Sequences32,
         c = (a + 1) % SequenceModulus,
         Delta(a, b) >= 0, Delta(a, b) < MaxDelay
  PROVE  Delta(c, b) \in 1 .. MaxDelay
<1> DEFINE h == SequenceModulus \div 2
<1>1. h \in Nat /\ SequenceModulus = 2 * h /\ MaxDelay < h /\ MaxDelay \in Nat
  BY HalfFacts
<1>2. a \in 0 .. SequenceModulus - 1 /\ b \in 0 .. SequenceModulus - 1
  BY DEF Sequences32
<1>3. c = IF a + 1 < SequenceModulus THEN a + 1 ELSE 0
  <2>1. a + 1 < SequenceModulus => (a + 1) % SequenceModulus = a + 1
    BY <1>1, <1>2, ReduceDifference
  <2>2. a + 1 = SequenceModulus => (a + 1) % SequenceModulus = 0
    BY <1>1, <1>2, ConstantFacts
  <2> QED
    BY <1>1, <1>2, <2>1, <2>2
<1>4. /\ h <= a - b => Delta(a, b) = (a - b) - SequenceModulus
      /\ -h <= a - b /\ a - b < h => Delta(a, b) = a - b
      /\ a - b < -h => Delta(a, b) = (a - b) + SequenceModulus
  BY DeltaByCases
<1>5. /\ h <= c - b => Delta(c, b) = (c - b) - SequenceModulus
      /\ -h <= c - b /\ c - b < h => Delta(c, b) = c - b
      /\ c - b < -h => Delta(c, b) = (c - b) + SequenceModulus
  BY DeltaByCases
<1> HIDE DEF h
<1>6. Delta(c, b) = Delta(a, b) + 1 /\ Delta(a, b) \in Int
  BY <1>1, <1>2, <1>3, <1>4, <1>5
<1> QED
  BY <1>1, <1>6

LEMMA DeltaOfItself ==
  ASSUME NEW a \in Sequences32
  PROVE  Delta(a, a) = 0
  BY HalfFacts, DeltaByCases DEF Sequences32

-----------------------------------------------------------------------------
(* Which pose is the newest.                                               *)

\* Where a packet was before packet k was taken off the way.
Before(k, j) == IF j < k THEN j ELSE j + 1

LEMMA WithoutElements ==
  ASSUME inFlight \in Seq(Packet), NEW k \in DOMAIN inFlight
  PROVE  /\ DOMAIN Without(k) = 1 .. Len(inFlight) - 1
         /\ \A j \in 1 .. Len(inFlight) - 1 :
              Before(k, j) \in DOMAIN inFlight /\ Without(k)[j] = inFlight[Before(k, j)]
<1>1. Len(inFlight) \in Nat /\ DOMAIN inFlight = 1 .. Len(inFlight) /\ k \in 1 .. Len(inFlight)
  BY LenProperties
<1> DEFINE s == SubSeq(inFlight, 1, k - 1)
           t == SubSeq(inFlight, k + 1, Len(inFlight))
<1>2. /\ s \in Seq(Packet) /\ Len(s) = k - 1
      /\ \A i \in 1 .. k - 1 : s[i] = inFlight[i]
  BY <1>1, ElementOfSeq, SubSeqProperties
<1>3. /\ t \in Seq(Packet) /\ Len(t) = Len(inFlight) - k
      /\ \A i \in 1 .. Len(inFlight) - k : t[i] = inFlight[k + i]
  <2>1. \A i \in k + 1 .. Len(inFlight) : inFlight[i] \in Packet
    BY <1>1, ElementOfSeq
  <2>2. k + 1 \in Int /\ Len(inFlight) \in Int
    BY <1>1
  <2>3. /\ t \in Seq(Packet)
        /\ Len(t) = IF k + 1 <= Len(inFlight) THEN Len(inFlight) - (k + 1) + 1 ELSE 0
        /\ \A i \in 1 .. Len(inFlight) - (k + 1) + 1 : t[i] = inFlight[(k + 1) + i - 1]
    BY <1>1, <2>1, <2>2, SubSeqProperties
  <2> QED
    BY <1>1, <2>3
<1> HIDE DEF s, t
<1>4. Without(k) = s \o t
  BY DEF Without, RemoveAt, s, t
<1>5. /\ Len(s \o t) = Len(inFlight) - 1
      /\ s \o t \in Seq(Packet)
      /\ \A j \in 1 .. Len(s) + Len(t) :
           (s \o t)[j] = IF j <= Len(s) THEN s[j] ELSE t[j - Len(s)]
  <2>1. /\ Len(s \o t) = Len(s) + Len(t) /\ s \o t \in Seq(Packet)
        /\ \A j \in 1 .. Len(s) + Len(t) :
             (s \o t)[j] = IF j <= Len(s) THEN s[j] ELSE t[j - Len(s)]
    BY <1>2, <1>3, ConcatProperties
  <2>2. Len(s) + Len(t) = Len(inFlight) - 1
    BY <1>1, <1>2, <1>3
  <2> QED
    BY <2>1, <2>2
<1>6. DOMAIN Without(k) = 1 .. Len(inFlight) - 1
  BY <1>4, <1>5, LenProperties
<1>7. ASSUME NEW j \in 1 .. Len(inFlight) - 1
      PROVE  Before(k, j) \in DOMAIN inFlight /\ Without(k)[j] = inFlight[Before(k, j)]
  <2>1. CASE j < k
    BY <1>1, <1>2, <1>3, <1>4, <1>5, <2>1 DEF Before
  <2>2. CASE j >= k
    <3>1. (s \o t)[j] = t[j - (k - 1)]
      BY <1>1, <1>2, <1>3, <1>5, <2>2
    <3>2. j - (k - 1) \in 1 .. Len(inFlight) - k
      BY <1>1, <2>2
    <3>3. t[j - (k - 1)] = inFlight[k + (j - (k - 1))]
      BY <1>3, <3>2
    <3>4. k + (j - (k - 1)) = j + 1
      BY <1>1
    <3> QED
      BY <1>1, <1>4, <2>2, <3>1, <3>3, <3>4 DEF Before
  <2> QED
    BY <1>1, <2>1, <2>2
<1> QED
  BY <1>6, <1>7

\* A packet lost leaves the others; a packet sent comes behind them.
LEMMA SendElements ==
  ASSUME inFlight \in Seq(Packet), NEW p \in Packet, Send(p)
  PROVE  \/ inFlight' = inFlight
         \/ /\ DOMAIN inFlight = 1 .. Len(inFlight) /\ Len(inFlight) \in Nat
            /\ DOMAIN inFlight' = 1 .. Len(inFlight) + 1
            /\ \A j \in DOMAIN inFlight : inFlight'[j] = inFlight[j]
            /\ inFlight'[Len(inFlight) + 1] = p
<1>1. CASE inFlight' = Append(inFlight, p)
  <2>1. Len(inFlight) \in Nat /\ DOMAIN inFlight = 1 .. Len(inFlight)
    BY LenProperties
  <2>2. /\ inFlight' \in Seq(Packet) /\ Len(inFlight') = Len(inFlight) + 1
        /\ \A j \in 1 .. Len(inFlight) : inFlight'[j] = inFlight[j]
        /\ inFlight'[Len(inFlight) + 1] = p
    BY <1>1, AppendProperties
  <2> QED
    BY <2>1, <2>2, LenProperties
<1> QED
  BY <1>1 DEF Send

\* A packet that is no pose disturbs no order of poses.
LEMMA OtherSent ==
  ASSUME TypeOK, WindowInv, OrderInv, NewerInv, NEW p \in Packet, p.kind # "pose", Send(p),
         UNCHANGED <<client, sequence, havePose, latest, age>>
  PROVE  WindowInv' /\ OrderInv' /\ NewerInv'
<1>1. CASE inFlight' = inFlight
  BY <1>1 DEF WindowInv, CloseBehind, OrderInv, NewerInv, IsPose, LinkStale
<1>2. CASE inFlight' # inFlight
  <2>1. /\ DOMAIN inFlight = 1 .. Len(inFlight) /\ Len(inFlight) \in Nat
        /\ DOMAIN inFlight' = 1 .. Len(inFlight) + 1
        /\ \A j \in DOMAIN inFlight : inFlight'[j] = inFlight[j]
        /\ inFlight'[Len(inFlight) + 1] = p
    BY <1>2, SendElements DEF TypeOK
  <2>2. ASSUME NEW j \in DOMAIN inFlight', inFlight'[j].kind = "pose"
        PROVE  j \in DOMAIN inFlight /\ inFlight'[j] = inFlight[j]
    BY <2>1, <2>2
  <2> QED
    BY <2>2 DEF WindowInv, CloseBehind, OrderInv, NewerInv, IsPose, LinkStale
<1> QED
  BY <1>1, <1>2

\* A pose that is close behind the counter is close behind it after the next is sent.
LEMMA StillClose ==
  ASSUME TypeOK, SendPose, NEW f \in [from : Clients, sequence : Sequences32], CloseBehind(f),
         f.from = client => Delta(sequence, f.sequence) < MaxDelay
  PROVE  f.from \in 1 .. client /\ (f.from = client => Delta(sequence', f.sequence) \in 1 .. MaxDelay)
<1>1. sequence' \in Sequences32 /\ sequence' = (sequence + 1) % SequenceModulus
        /\ sequence \in Sequences32
  <2>1. sequence + 1 \in Int
    BY ConstantFacts DEF Sequences32, TypeOK
  <2> QED
    BY <2>1, ConstantFacts DEF SendPose, TypeOK
<1>2. f.from = client => Delta(sequence', f.sequence) \in 1 .. MaxDelay
  <2> SUFFICES ASSUME f.from = client
               PROVE  Delta(sequence', f.sequence) \in 1 .. MaxDelay
    OBVIOUS
  <2>1. Delta(sequence, f.sequence) >= 0 /\ Delta(sequence, f.sequence) < MaxDelay
    BY HalfFacts DEF CloseBehind
  <2> QED
    BY <1>1, <2>1, DeltaOfNext
<1> QED
  BY <1>2 DEF CloseBehind

\* The next pose is the newest of its client's on their way, and newer than the one
\* the host has.
LEMMA PoseSent ==
  ASSUME TypeOK, WindowInv, OrderInv, NewerInv, SendPose
  PROVE  WindowInv' /\ OrderInv' /\ NewerInv'
<1> DEFINE p == [kind |-> "pose", from |-> client, sequence |-> sequence', newer |-> TRUE]
<1>1. sequence' \in Sequences32
  <2>1. sequence + 1 \in Int
    BY ConstantFacts DEF Sequences32, TypeOK
  <2> QED
    BY <2>1, ConstantFacts DEF SendPose
<1>2. p \in Packet
  BY <1>1 DEF Packet, Pose, TypeOK
<1>3. /\ Send(p) /\ client' = client /\ client \in Nat \ {0}
      /\ UNCHANGED <<havePose, latest, age>> /\ LinkStale' = LinkStale
  BY ConstantFacts DEF SendPose, TypeOK, linkVars, LinkStale, Clients
<1>4. p.kind = "pose" /\ p.from = client /\ p.sequence = sequence' /\ p.newer
  OBVIOUS
<1> HIDE DEF p
<1>5. ASSUME NEW j \in DOMAIN inFlight, IsPose(j)
      PROVE  /\ inFlight[j].from \in 1 .. client
             /\ inFlight[j].from = client => Delta(sequence', inFlight[j].sequence) \in 1 .. MaxDelay
  <2> DEFINE f == [from |-> inFlight[j].from, sequence |-> inFlight[j].sequence]
  <2>1. inFlight[j] \in Packet
    BY ElementOfSeq, LenProperties DEF TypeOK
  <2>2. f \in [from : Clients, sequence : Sequences32]
    BY <1>5, <2>1, PacketKinds DEF IsPose
  <2>3. CloseBehind(f)
    BY <1>5 DEF WindowInv, CloseBehind
  <2>4. f.from = client => Delta(sequence, f.sequence) < MaxDelay
    BY <1>5 DEF SendPose, InWindow, IsPose
  <2>5. f.from \in 1 .. client /\ (f.from = client => Delta(sequence', f.sequence) \in 1 .. MaxDelay)
    BY <2>2, <2>3, <2>4, StillClose
  <2> QED
    BY <2>5
<1>6. ASSUME havePose, ~LinkStale
      PROVE  /\ CloseBehind(latest)'
             /\ latest.from = client => Delta(sequence', latest.sequence) \in 1 .. MaxDelay
  <2>1. CloseBehind(latest) /\ client \in Clients
    BY <1>6 DEF WindowInv, TypeOK
  <2>2. latest \in [from : Clients, sequence : Sequences32]
    <3>1. latest.from \in Clients
      BY <2>1, ConstantFacts DEF CloseBehind, Clients
    <3>2. latest = [from |-> latest.from, sequence |-> latest.sequence]
            /\ latest.sequence \in Sequences32
      BY DEF TypeOK
    <3> QED
      BY <3>1, <3>2
  <2>3. age <= StaleAfter
    BY <1>6 DEF LinkStale, StaleAfter, LostAfter, TypeOK
  <2>4. latest.from = client => Delta(sequence, latest.sequence) < MaxDelay
    BY <1>6, <2>3 DEF SendPose, InWindow
  <2>5. latest.from \in 1 .. client
          /\ (latest.from = client => Delta(sequence', latest.sequence) \in 1 .. MaxDelay)
    BY <2>1, <2>2, <2>4, StillClose
  <2>6. latest' = latest
    BY <1>3
  <2>7. /\ latest.from \in 1 .. client
        /\ latest.from = client => Delta(sequence', latest.sequence) \in 0 .. MaxDelay
    BY <2>1, <2>5, HalfFacts DEF CloseBehind
  <2> QED
    BY <1>3, <2>5, <2>6, <2>7 DEF CloseBehind
<1>7. MaxDelay \in Nat \ {0}
  BY HalfFacts
<1>8. CASE inFlight' = inFlight
  BY <1>3, <1>5, <1>6, <1>8 DEF WindowInv, CloseBehind, OrderInv, NewerInv, IsPose
<1>9. CASE inFlight' # inFlight
  <2>1. /\ DOMAIN inFlight = 1 .. Len(inFlight) /\ Len(inFlight) \in Nat
        /\ DOMAIN inFlight' = 1 .. Len(inFlight) + 1
        /\ \A j \in DOMAIN inFlight : inFlight'[j] = inFlight[j]
        /\ inFlight'[Len(inFlight) + 1] = p
    BY <1>2, <1>3, <1>9, SendElements DEF TypeOK
  <2>2. WindowInv'
    <3>1. Delta(sequence', sequence') = 0
      BY <1>1, DeltaOfItself
    <3>2. ASSUME NEW j \in DOMAIN inFlight', inFlight'[j].kind = "pose"
          PROVE  /\ inFlight'[j].from \in 1 .. client'
                 /\ inFlight'[j].from = client' =>
                      Delta(sequence', inFlight'[j].sequence) \in 0 .. MaxDelay
      <4>1. CASE j \in DOMAIN inFlight
        BY <1>3, <1>5, <1>7, <2>1, <3>2, <4>1 DEF IsPose
      <4>2. CASE j = Len(inFlight) + 1
        BY <1>3, <1>4, <1>7, <2>1, <3>1, <4>2
      <4> QED
        BY <2>1, <4>1, <4>2
    <3> QED
      BY <1>3, <1>6, <3>2 DEF WindowInv, CloseBehind, IsPose
  <2>3. OrderInv'
    <3> SUFFICES ASSUME NEW i \in DOMAIN inFlight', NEW j \in DOMAIN inFlight', i < j,
                        inFlight'[i].kind = "pose", inFlight'[j].kind = "pose",
                        inFlight'[i].from = inFlight'[j].from
                 PROVE  Delta(inFlight'[j].sequence, inFlight'[i].sequence) \in 1 .. MaxDelay
      BY DEF OrderInv, IsPose
    <3>1. i \in DOMAIN inFlight
      BY <2>1
    <3>2. CASE j \in DOMAIN inFlight
      BY <2>1, <3>1, <3>2 DEF OrderInv, IsPose
    <3>3. CASE j = Len(inFlight) + 1
      BY <1>4, <1>5, <2>1, <3>1, <3>3 DEF IsPose
    <3> QED
      BY <2>1, <3>2, <3>3
  <2>4. NewerInv'
    <3> SUFFICES ASSUME havePose, ~LinkStale, NEW j \in DOMAIN inFlight',
                        inFlight'[j].kind = "pose", inFlight'[j].from = latest.from
                 PROVE  inFlight'[j].newer <=> Delta(inFlight'[j].sequence, latest.sequence) > 0
      BY <1>3 DEF NewerInv, IsPose
    <3>1. CASE j \in DOMAIN inFlight
      BY <2>1, <3>1 DEF NewerInv, IsPose
    <3>2. CASE j = Len(inFlight) + 1
      <4>1. inFlight'[j] = p
        BY <2>1, <3>2
      <4>2. Delta(sequence', latest.sequence) \in 1 .. MaxDelay
        BY <1>4, <1>6, <4>1
      <4>3. Delta(sequence', latest.sequence) > 0
        BY <1>7, <4>2
      <4> QED
        BY <1>4, <4>1, <4>3
    <3> QED
      BY <2>1, <3>1, <3>2
  <2> QED
    BY <2>2, <2>3, <2>4
<1> QED
  BY <1>8, <1>9

\* What is left when a packet is read is what was there.
LEMMA LeftElements ==
  ASSUME inFlight \in Seq(Packet), NEW k \in DOMAIN inFlight,
         inFlight' = Without(k) \/ inFlight' = MarkNewer(k)
  PROVE  /\ DOMAIN inFlight' = 1 .. Len(inFlight) - 1
         /\ \A j \in DOMAIN inFlight' :
              /\ Before(k, j) \in DOMAIN inFlight
              /\ inFlight'[j].kind = inFlight[Before(k, j)].kind
              /\ inFlight'[j].kind = "pose" =>
                   /\ inFlight'[j].from = inFlight[Before(k, j)].from
                   /\ inFlight'[j].sequence = inFlight[Before(k, j)].sequence
                   /\ inFlight' = MarkNewer(k) => inFlight'[j].newer = (j >= k)
<1>1. /\ DOMAIN Without(k) = 1 .. Len(inFlight) - 1
      /\ \A j \in DOMAIN Without(k) :
           Before(k, j) \in DOMAIN inFlight /\ Without(k)[j] = inFlight[Before(k, j)]
  BY WithoutElements
<1>2. Without(k) \in Seq(Packet)
  BY WithoutType
<1>3. ASSUME NEW j \in DOMAIN Without(k), Without(k)[j].kind = "pose"
      PROVE  /\ MarkNewer(k)[j].kind = "pose"
             /\ MarkNewer(k)[j].from = Without(k)[j].from
             /\ MarkNewer(k)[j].sequence = Without(k)[j].sequence
             /\ MarkNewer(k)[j].newer = (j >= k)
  <2> DEFINE w == Without(k)[j]
  <2>1. w \in Packet
    BY <1>2, ElementOfSeq, LenProperties
  <2>2. w \in Pose
    BY <1>3, <2>1, PacketKinds
  <2>3. MarkNewer(k)[j] = [w EXCEPT !.newer = j >= k]
    BY <1>3 DEF MarkNewer
  <2> HIDE DEF w
  <2>4. w = [kind |-> w.kind, from |-> w.from, sequence |-> w.sequence, newer |-> w.newer]
    BY <2>2 DEF Pose
  <2>5. /\ [w EXCEPT !.newer = j >= k].kind = w.kind
        /\ [w EXCEPT !.newer = j >= k].from = w.from
        /\ [w EXCEPT !.newer = j >= k].sequence = w.sequence
        /\ [w EXCEPT !.newer = j >= k].newer = (j >= k)
    BY <2>4
  <2> QED
    BY <1>3, <2>3, <2>5 DEF w
<1>4. ASSUME NEW j \in DOMAIN Without(k), Without(k)[j].kind # "pose"
      PROVE  MarkNewer(k)[j] = Without(k)[j]
  BY <1>4 DEF MarkNewer
<1>5. DOMAIN MarkNewer(k) = DOMAIN Without(k)
  BY DEF MarkNewer
<1>6. CASE inFlight' = MarkNewer(k)
  BY <1>1, <1>3, <1>4, <1>5, <1>6
<1>7. CASE inFlight' = Without(k) /\ inFlight' # MarkNewer(k)
  BY <1>1, <1>7
<1> QED
  BY <1>6, <1>7

\* Reading a packet leaves the poses in their order.
LEMMA LeftInOrder ==
  ASSUME TypeOK, WindowInv, OrderInv, NEW k \in DOMAIN inFlight,
         inFlight' = Without(k) \/ inFlight' = MarkNewer(k),
         UNCHANGED <<client, sequence>>,
         havePose' /\ ~LinkStale' => CloseBehind(latest)'
  PROVE  WindowInv' /\ OrderInv'
<1>1. /\ DOMAIN inFlight' = 1 .. Len(inFlight) - 1
      /\ \A j \in DOMAIN inFlight' :
           /\ Before(k, j) \in DOMAIN inFlight
           /\ inFlight'[j].kind = inFlight[Before(k, j)].kind
           /\ inFlight'[j].kind = "pose" =>
                /\ inFlight'[j].from = inFlight[Before(k, j)].from
                /\ inFlight'[j].sequence = inFlight[Before(k, j)].sequence
  BY LeftElements DEF TypeOK
<1>2. k \in Int
  BY LenProperties DEF TypeOK
<1>3. \A i, j \in DOMAIN inFlight' : i < j => Before(k, i) < Before(k, j)
  BY <1>1, <1>2 DEF Before
<1>4. WindowInv'
  BY <1>1 DEF WindowInv, CloseBehind, IsPose
<1>5. OrderInv'
  <2> SUFFICES ASSUME NEW i \in DOMAIN inFlight', NEW j \in DOMAIN inFlight', i < j,
                      inFlight'[i].kind = "pose", inFlight'[j].kind = "pose",
                      inFlight'[i].from = inFlight'[j].from
               PROVE  Delta(inFlight'[j].sequence, inFlight'[i].sequence) \in 1 .. MaxDelay
    BY DEF OrderInv, IsPose
  <2>1. Before(k, i) < Before(k, j)
    BY <1>3
  <2> QED
    BY <1>1, <2>1 DEF OrderInv, IsPose
<1> QED
  BY <1>4, <1>5

\* A packet that is no newer pose leaves what is newer as it was.
LEMMA LeftNewer ==
  ASSUME TypeOK, NewerInv, NEW k \in DOMAIN inFlight, inFlight' = Without(k),
         UNCHANGED <<havePose, latest, age>>
  PROVE  NewerInv'
<1>1. /\ DOMAIN inFlight' = 1 .. Len(inFlight) - 1
      /\ \A j \in DOMAIN inFlight' :
           Before(k, j) \in DOMAIN inFlight /\ inFlight'[j] = inFlight[Before(k, j)]
  BY WithoutElements DEF TypeOK
<1> QED
  BY <1>1 DEF NewerInv, IsPose, LinkStale

\* After a pose is accepted the newer ones are those that were sent after it.
LEMMA AcceptedIsNewest ==
  ASSUME TypeOK, OrderInv, NEW k \in DOMAIN inFlight, AcceptPose(k)
  PROVE  NewerInv'
<1> DEFINE p == inFlight[k]
<1>1. inFlight' = MarkNewer(k) /\ latest' = [from |-> p.from, sequence |-> p.sequence]
        /\ IsPose(k)
  BY DEF AcceptPose, IsPose
<1>2. /\ DOMAIN inFlight' = 1 .. Len(inFlight) - 1
      /\ \A j \in DOMAIN inFlight' :
           /\ Before(k, j) \in DOMAIN inFlight
           /\ inFlight'[j].kind = inFlight[Before(k, j)].kind
           /\ inFlight'[j].kind = "pose" =>
                /\ inFlight'[j].from = inFlight[Before(k, j)].from
                /\ inFlight'[j].sequence = inFlight[Before(k, j)].sequence
                /\ inFlight'[j].newer = (j >= k)
  BY <1>1, LeftElements DEF TypeOK
<1>3. k \in 1 .. Len(inFlight) /\ Len(inFlight) \in Nat /\ MaxDelay \in Nat \ {0}
  BY LenProperties, HalfFacts DEF TypeOK
<1> HIDE DEF p
<1>4. ASSUME NEW j \in DOMAIN inFlight', inFlight'[j].kind = "pose",
             inFlight'[j].from = latest'.from
      PROVE  inFlight'[j].newer <=> Delta(inFlight'[j].sequence, latest'.sequence) > 0
  <2> DEFINE i == Before(k, j)
  <2>1. i \in DOMAIN inFlight /\ IsPose(i) /\ inFlight[i].from = p.from
    BY <1>1, <1>2, <1>4 DEF IsPose
  <2>2. inFlight'[j].sequence = inFlight[i].sequence /\ inFlight'[j].newer = (j >= k)
          /\ latest'.sequence = p.sequence
    BY <1>1, <1>2, <1>4
  <2>3. CASE j >= k
    <3>1. k < i
      BY <1>2, <1>3, <2>3 DEF Before
    <3>2. Delta(inFlight[i].sequence, p.sequence) \in 1 .. MaxDelay
      BY <1>1, <2>1, <3>1 DEF OrderInv, p
    <3>3. Delta(inFlight[i].sequence, p.sequence) > 0
      BY <1>3, <3>2
    <3> QED
      BY <2>2, <2>3, <3>3
  <2>4. CASE j < k
    <3>1. i < k
      BY <1>2, <1>3, <2>4 DEF Before
    <3>2. Delta(p.sequence, inFlight[i].sequence) \in 1 .. MaxDelay
      BY <1>1, <2>1, <3>1 DEF OrderInv, p
    <3>3. inFlight[i] \in Packet /\ p \in Packet
      BY <2>1, ElementOfSeq, LenProperties DEF TypeOK, p
    <3>4. inFlight[i].sequence \in Sequences32 /\ p.sequence \in Sequences32
      BY <1>1, <2>1, <3>3, PacketKinds DEF IsPose, p
    <3>5. Delta(inFlight[i].sequence, p.sequence) < 0
      BY <3>2, <3>4, DeltaAntisymmetric
    <3>6. ~(j >= k)
      BY <1>2, <1>3, <2>4
    <3>7. ~(Delta(inFlight[i].sequence, p.sequence) > 0)
      <4>1. Delta(inFlight[i].sequence, p.sequence) \in Int
        BY <3>4, DeltaType
      <4> QED
        BY <3>5, <4>1
    <3> QED
      BY <2>2, <3>6, <3>7
  <2> QED
    BY <1>2, <1>3, <2>3, <2>4
<1> QED
  BY <1>4 DEF NewerInv, IsPose

LEMMA NewestStep ==
  ASSUME IInv, [Next]_vars
  PROVE  WindowInv' /\ OrderInv' /\ NewerInv' /\ NewestSurvives'
<1> USE DEF IInv
<1>1. CASE UNCHANGED vars
  BY <1>1 DEF vars, WindowInv, CloseBehind, OrderInv, NewerInv, NewestSurvives, IsPose, LinkStale
<1>2. CASE ClientSide
  <2>1. CASE SendPose
    <3>1. NewestSurvives'
      BY <2>1 DEF SendPose, NewestSurvives, historyVars
    <3> QED
      BY <2>1, <3>1, PoseSent
  <2>2. CASE RequestKeyframe
    <3>1. [kind |-> "keyframe"] \in Packet /\ [kind |-> "keyframe"].kind # "pose"
      BY DEF Packet, KeyframeRequest
    <3> QED
      BY <2>2, <3>1, OtherSent
         DEF RequestKeyframe, NewestSurvives, clientVars, linkVars, historyVars
  <2>3. CASE HearVideo
    BY <2>3 DEF HearVideo, linkVars, historyVars, WindowInv, CloseBehind, OrderInv, NewerInv,
                NewestSurvives, IsPose, LinkStale
  <2>4. CASE RestartClient
    <3>1. client \in Nat /\ client' = client + 1
      BY <2>4, ConstantFacts DEF RestartClient, TypeOK
    <3>2. ASSUME NEW f, f.from \in 1 .. client
          PROVE  f.from \in 1 .. client' /\ f.from # client'
      BY <3>1, <3>2
    <3>3. /\ \A j \in DOMAIN inFlight : IsPose(j) => inFlight[j].from \in 1 .. client
          /\ havePose /\ ~LinkStale => latest.from \in 1 .. client
      BY DEF WindowInv, CloseBehind
    <3>4. UNCHANGED <<inFlight, havePose, latest, age>>
      BY <2>4 DEF RestartClient, linkVars
    <3>5. WindowInv'
      BY <3>2, <3>3, <3>4 DEF WindowInv, CloseBehind, IsPose, LinkStale
    <3> QED
      BY <2>4, <3>5 DEF RestartClient, linkVars, historyVars, OrderInv, NewerInv,
                        NewestSurvives, IsPose, LinkStale
  <2>5. ASSUME NEW rate \in RequestedRates, Announce(rate)
        PROVE  WindowInv' /\ OrderInv' /\ NewerInv' /\ NewestSurvives'
    <3> DEFINE h == [kind |-> "handshake", from |-> client, rate |-> rate]
    <3>1. h \in Packet /\ h.kind # "pose"
      BY DEF Packet, Handshake, TypeOK
    <3>2. Send(h)
      BY <2>5 DEF Announce
    <3> HIDE DEF h
    <3> QED
      BY <2>5, <3>1, <3>2, OtherSent
         DEF Announce, NewestSurvives, clientVars, linkVars, historyVars
  <2> QED
    BY <1>2, <2>1, <2>2, <2>3, <2>4, <2>5 DEF ClientSide
<1>3. ASSUME NEW k \in DOMAIN inFlight, DrainOne(k)
      PROVE  WindowInv' /\ OrderInv' /\ NewerInv' /\ NewestSurvives'
  <2>a. UNCHANGED <<client, sequence, havePose, latest, age>> =>
          (havePose' /\ ~LinkStale' => CloseBehind(latest)')
    BY DEF WindowInv, CloseBehind, LinkStale
  <2>1. CASE RejectPose(k)
    <3>1. NewestSurvives'
      <4>1. inFlight[k].from = latest.from => ~inFlight[k].newer
        <5>1. inFlight[k] \in Packet
          BY ElementOfSeq, LenProperties DEF TypeOK
        <5>2. inFlight[k].sequence \in Sequences32 /\ latest.sequence \in Sequences32
          BY <2>1, <5>1, PacketKinds DEF RejectPose, TypeOK
        <5>3. Delta(inFlight[k].sequence, latest.sequence) \in Int
          BY <5>2, DeltaType
        <5>4. havePose /\ ~LinkStale /\ IsPose(k)
                /\ Delta(inFlight[k].sequence, latest.sequence) <= 0
          BY <2>1 DEF RejectPose, Rejected, IsPose
        <5> QED
          BY <5>3, <5>4 DEF NewerInv
      <4> QED
        BY <2>1, <4>1 DEF RejectPose, NewestSurvives
    <3> QED
      BY <2>1, <3>1, <2>a, LeftInOrder, LeftNewer DEF RejectPose, clientVars, linkVars
  <2>2. CASE AcceptPose(k)
    <3>1. NewestSurvives'
      <4>1. havePose /\ ~LinkStale /\ inFlight[k].from = latest.from => inFlight[k].newer
        <5>1. inFlight[k] \in Packet
          BY ElementOfSeq, LenProperties DEF TypeOK
        <5>2. inFlight[k].sequence \in Sequences32 /\ latest.sequence \in Sequences32
          BY <2>2, <5>1, PacketKinds DEF AcceptPose, TypeOK
        <5>3. Delta(inFlight[k].sequence, latest.sequence) \in Int
          BY <5>2, DeltaType
        <5>4. IsPose(k) /\ (havePose /\ ~LinkStale =>
                ~(Delta(inFlight[k].sequence, latest.sequence) <= 0))
          BY <2>2 DEF AcceptPose, Rejected, IsPose
        <5> QED
          BY <5>3, <5>4 DEF NewerInv
      <4> QED
        BY <2>2, <4>1 DEF AcceptPose, NewestSurvives
    <3>2. CloseBehind(latest)'
      <4>1. CloseBehind(inFlight[k])
        BY <2>2 DEF AcceptPose, WindowInv, IsPose
      <4> QED
        BY <2>2, <4>1 DEF AcceptPose, CloseBehind, clientVars
    <3> QED
      BY <2>2, <3>1, <3>2, LeftInOrder, AcceptedIsNewest DEF AcceptPose, clientVars
  <2>3. CASE ReadKeyframeRequest(k)
    BY <2>3, <2>a, LeftInOrder, LeftNewer
       DEF ReadKeyframeRequest, clientVars, historyVars, NewestSurvives
  <2>4. CASE ReadHandshake(k)
    BY <2>4, <2>a, LeftInOrder, LeftNewer DEF ReadHandshake, clientVars, NewestSurvives
  <2> QED
    BY <1>3, <2>1, <2>2, <2>3, <2>4 DEF DrainOne, ReadPose
<1>4. CASE WaitFrame
  BY <1>4 DEF WaitFrame, BeginWaitFrame, EndPollForClient, EndPollPose, clientVars, linkVars,
              historyVars, WindowInv, CloseBehind, OrderInv, NewerInv, NewestSurvives, IsPose,
              LinkStale
<1>5. CASE Tick
  <2>1. LinkStale' \/ ~havePose'
    BY <1>5 DEF Tick, LinkStale, StaleAfter, LostAfter, TypeOK
  <2> QED
    BY <1>5, <2>1 DEF Tick, clientVars, historyVars, WindowInv, CloseBehind, OrderInv, NewerInv,
                      NewestSurvives, IsPose
<1> QED
  BY <1>1, <1>2, <1>3, <1>4, <1>5 DEF Next

-----------------------------------------------------------------------------
(* The theorems.                                                           *)

\* Whatever arrives in whatever order, the session never delivers at more than
\* the rate its encoders are configured for, nor at none.
THEOREM TypeCorrect == Spec => []TypeOK
  BY TypeInit, TypeStep, PTL DEF Spec

\* A handshake is not lost between the two polls that may read it.
THEOREM HandshakeAttaches == Spec => []HandshakeIsKept
<1>1. Init => HandshakeIsKept
  BY DEF Init, HandshakeIsKept
<1> QED
  BY <1>1, TypeCorrect, HandshakeStep, PTL DEF Spec

\* The host never drops a pose sent after the one it has, nor takes one sent before
\* it, while the link is alive: not by overtaking, not by loss, and not where the
\* counter wraps.
THEOREM OnlyNewestPose == Spec => []NewestSurvives
<1>1. Init => IInv
  <2>1. Init => inFlight = <<>> /\ ~havePose /\ ~misjudged
    BY DEF Init
  <2>2. Init => WindowInv /\ OrderInv /\ NewerInv /\ NewestSurvives
    BY <2>1 DEF WindowInv, OrderInv, NewerInv, NewestSurvives
  <2> QED
    BY <2>2, TypeInit DEF IInv
<1>2. IInv /\ [Next]_vars => IInv'
  BY TypeStep, NewestStep DEF IInv
<1>3. IInv => NewestSurvives
  BY DEF IInv
<1> QED
  BY <1>1, <1>2, <1>3, PTL DEF Spec
=============================================================================
