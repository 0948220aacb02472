------------------------- MODULE VideoEncoder_proof -------------------------
(***************************************************************************)
(* Proofs about VideoEncoder, for every rate, every number of inputs the   *)
(* transform asks for ahead and every bound.                               *)
(***************************************************************************)
EXTENDS VideoEncoder, SequenceTheorems, FiniteSetTheorems, WellFoundedInduction,
        TLAPS

-----------------------------------------------------------------------------
(* Counting the events of a kind.                                          *)

Of(s, kind) == {k \in DOMAIN s : s[k] = kind}

LEMMA OfIsFinite ==
  ASSUME NEW s \in Seq(Kinds), NEW kind
  PROVE  IsFiniteSet(Of(s, kind)) /\ Cardinality(Of(s, kind)) \in Nat
<1>1. DOMAIN s = 1 .. Len(s) /\ Len(s) \in Int
  OBVIOUS
<1>2. IsFiniteSet(1 .. Len(s))
  BY <1>1, FS_Interval
<1>3. Of(s, kind) \subseteq 1 .. Len(s)
  BY <1>1 DEF Of
<1> QED
  BY <1>2, <1>3, FS_Subset, FS_CardinalityType

\* An event at the end counts once for its own kind, and for no other.
LEMMA OfAppend ==
  ASSUME NEW s \in Seq(Kinds), NEW e \in Kinds, NEW kind
  PROVE  /\ Append(s, e) \in Seq(Kinds)
         /\ Cardinality(Of(Append(s, e), kind))
              = Cardinality(Of(s, kind)) + (IF e = kind THEN 1 ELSE 0)
<1>1. /\ Append(s, e) \in Seq(Kinds) /\ Len(s) \in Nat
      /\ DOMAIN s = 1 .. Len(s) /\ DOMAIN Append(s, e) = 1 .. Len(s) + 1
      /\ \A k \in 1 .. Len(s) : Append(s, e)[k] = s[k]
      /\ Append(s, e)[Len(s) + 1] = e
  OBVIOUS
<1>2. CASE e = kind
  <2>1. Of(Append(s, e), kind) = Of(s, kind) \cup {Len(s) + 1}
    BY <1>1, <1>2 DEF Of
  <2>2. Len(s) + 1 \notin Of(s, kind)
    BY <1>1 DEF Of
  <2> QED
    BY <1>1, <1>2, <2>1, <2>2, OfIsFinite, FS_AddElement
<1>3. CASE e # kind
  <2>1. Of(Append(s, e), kind) = Of(s, kind)
    BY <1>1, <1>3 DEF Of
  <2> QED
    BY <1>1, <1>3, <2>1, OfIsFinite
<1> QED
  BY <1>2, <1>3

\* An event taken from the front leaves one less of its own kind, and as many of
\* every other.
LEMMA OfTail ==
  ASSUME NEW s \in Seq(Kinds), s # <<>>, NEW kind
  PROVE  /\ Tail(s) \in Seq(Kinds)
         /\ Cardinality(Of(Tail(s), kind))
              = Cardinality(Of(s, kind)) - (IF Head(s) = kind THEN 1 ELSE 0)
<1>1. /\ Tail(s) \in Seq(Kinds) /\ Len(s) \in Nat \ {0} /\ Head(s) = s[1]
      /\ DOMAIN s = 1 .. Len(s) /\ DOMAIN Tail(s) = 1 .. Len(s) - 1
      /\ \A k \in 1 .. Len(s) - 1 : Tail(s)[k] = s[k + 1]
  BY HeadTailProperties
<1> DEFINE shift == [k \in Of(Tail(s), kind) |-> k + 1]
<1>2. shift \in Bijection(Of(Tail(s), kind), Of(s, kind) \ {1})
  <2>1. \A k \in Of(Tail(s), kind) : k + 1 \in Of(s, kind) \ {1} /\ k \in Int
    BY <1>1 DEF Of
  <2>2. shift \in [Of(Tail(s), kind) -> Of(s, kind) \ {1}]
    BY <2>1
  <2>3. \A j, k \in Of(Tail(s), kind) : shift[j] = shift[k] => j = k
    BY <2>1
  <2>4. ASSUME NEW j \in Of(s, kind) \ {1}
        PROVE  \E k \in Of(Tail(s), kind) : shift[k] = j
    <3>1. j - 1 \in Of(Tail(s), kind) /\ (j - 1) + 1 = j
      BY <1>1, <2>4 DEF Of
    <3> QED
      BY <3>1
  <2> QED
    BY <2>2, <2>3, <2>4 DEF Bijection, Injection, Surjection, IsInjective
<1>3. Cardinality(Of(Tail(s), kind)) = Cardinality(Of(s, kind) \ {1})
  <2>1. ExistsBijection(Of(Tail(s), kind), Of(s, kind) \ {1})
    BY <1>2 DEF ExistsBijection
  <2>2. IsFiniteSet(Of(Tail(s), kind))
    BY <1>1, OfIsFinite
  <2> QED
    BY <2>1, <2>2, FS_Bijection
<1>4. Cardinality(Of(s, kind)) \in Nat
  BY OfIsFinite
<1>5. CASE Head(s) = kind
  <2>1. 1 \in Of(s, kind)
    BY <1>1, <1>5 DEF Of
  <2>2. Cardinality(Of(s, kind) \ {1}) = Cardinality(Of(s, kind)) - 1
    BY <2>1, OfIsFinite, FS_RemoveElement
  <2> QED
    BY <1>1, <1>3, <1>5, <2>2
<1>6. CASE Head(s) # kind
  <2>1. Of(s, kind) \ {1} = Of(s, kind)
    BY <1>1, <1>6 DEF Of
  <2>2. Cardinality(Of(Tail(s), kind)) = Cardinality(Of(s, kind))
    BY <1>3, <2>1, Zenon
  <2> QED
    BY <1>1, <1>4, <1>6, <2>2
<1> QED
  BY <1>5, <1>6

-----------------------------------------------------------------------------
(* The parts of a step.                                                    *)

LEMMA ConstantFacts ==
  /\ MaxFrames \in Nat /\ MaxFailures \in Nat /\ MaxRequests \in Nat
  /\ MaxTracked \in Nat /\ MaxAsks \in Nat
  /\ ConfiguredRate \in Nat /\ HnsPerSecond \in Nat
  /\ ConfiguredBitrate \in Bitrates /\ Bitrates \subseteq Nat /\ 0 \notin Bitrates
  /\ Rates \subseteq Nat \ {0}
  BY RatesAssumption, BitratesAssumption, LimitsAssumption, BoundsAssumption DEF Rates

\* A sample time is a natural number.
LEMMA SampleTime ==
  ASSUME NEW i \in Nat, NEW rate \in Nat \ {0}
  PROVE  (i * HnsPerSecond) \div rate \in Nat
<1>1. \A p \in Nat : p \div rate \in Nat
  OBVIOUS
<1>2. i * HnsPerSecond \in Nat
  BY ConstantFacts
<1> QED
  BY <1>1, <1>2

\* Taking an output out of the transform leaves frames on both sides.
LEMMA OutputTypes ==
  ASSUME outputs \in Seq(Frame), outputs # <<>>
  PROVE  /\ Head(outputs) \in Frame /\ Tail(outputs) \in Seq(Frame)
         /\ Matching(Head(outputs)) \in OutputStates
<1>1. Head(outputs) \in Frame /\ Tail(outputs) \in Seq(Frame)
  BY HeadTailProperties
<1> QED
  BY <1>1 DEF Matching, OutputStates

\* The states of an output.
LEMMA OutputKinds ==
  /\ NoOutput \in OutputStates
  /\ \A o \in OutputStates : o.at = "matching" => o.frame \in Frame
  /\ \A f \in Frame, id \in 0 .. MaxFrames : Sending(f, id) \in OutputStates
<1>1. \A o \in OutputStates : o.at = "matching" => o.frame \in Frame
  BY DEF OutputStates, NoOutput
<1>2. \A f \in Frame, id \in 0 .. MaxFrames : Sending(f, id) \in OutputStates
  BY DEF OutputStates, Sending
<1> QED
  BY <1>1, <1>2 DEF OutputStates

\* The end of a frame keeps the types of what it changes.
LEMMA EndsFrameTypes ==
  ASSUME frameIndex \in Nat, failures \in 0 .. MaxFailures, EndsFrame
  PROVE  app' = "idle" /\ frameIndex' \in Nat /\ failures' \in 0 .. MaxFailures
  BY ConstantFacts DEF EndsFrame

-----------------------------------------------------------------------------
(* Type correctness.                                                       *)

Inv == TypeOK /\ InHandInv

LEMMA TypeInit == Init => Inv
<1> SUFFICES ASSUME Init PROVE Inv
  OBVIOUS
<1>1. ConfiguredRate \in Rates
  BY RatesAssumption DEF Rates
<1>2. output \in OutputStates
  BY OutputKinds DEF Init
<1>3. inside \in Seq(Frame) /\ outputs \in Seq(Frame) /\ events \in Seq(Kinds)
  BY DEF Init
<1>4. InHandInv
  BY DEF Init, InHandInv, InSubmit
<1>5. /\ frameIndex \in Nat /\ time \in Nat /\ submitted \in 0 .. MaxFrames
      /\ failures \in 0 .. MaxFailures /\ requests \in 0 .. MaxRequests
      /\ needInputCredits \in Nat /\ asked \in 0 .. MaxAsks
  BY ConstantFacts DEF Init
<1>6. /\ bitrate \in Bitrates /\ currentBitrate \in Bitrates
      /\ pendingBitrate \in Bitrates \cup {0} /\ deliveryFrameRate \in Rates
      /\ submitTimes \subseteq Frame
  BY <1>1, ConstantFacts DEF Init
<1>7. eventThread \in {"none", "waiting", "outputting", "ended"}
  BY DEF Init
<1> QED
  BY <1>2, <1>3, <1>4, <1>5, <1>6, <1>7 DEF Init, Inv, TypeOK, Places

LEMMA SessionType == Inv /\ Session => Inv'
<1> SUFFICES ASSUME Inv, Session PROVE Inv'
  OBVIOUS
<1> USE ConstantFacts DEF Inv, TypeOK, InHandInv, InSubmit, Places, sessionVars, creditVars,
        requestVars, threadVars, queueVars, historyVars, frameVars
<1>1. CASE ChangeRate
  BY <1>1 DEF ChangeRate
<1>2. CASE RequestKeyframe
  BY <1>2 DEF RequestKeyframe
<1>3. CASE SetBitrate
  BY <1>3 DEF SetBitrate
<1>4. CASE SubmitFrame
  <2>1. deliveryFrameRate \in Nat \ {0}
    OBVIOUS
  <2>2. time' \in Nat
    BY <1>4, <2>1, SampleTime DEF SubmitFrame
  <2> QED
    BY <1>4, <2>2 DEF SubmitFrame
<1>5. CASE Drain
  BY <1>5 DEF Drain
<1> QED
  BY <1>1, <1>2, <1>3, <1>4, <1>5 DEF Session

LEMMA RecordedType ==
  ASSUME Inv, app = "recording"
  PROVE  Recorded \subseteq Frame /\ Evicted(Recorded) \subseteq Frame
<1>1. [id |-> submitted, time |-> time] \in Frame
  BY ConstantFacts DEF Inv, TypeOK, InHandInv, InSubmit, Frame
<1>2. Recorded \subseteq Frame
  BY <1>1 DEF Recorded, Inv, TypeOK
<1> QED
  BY <1>2 DEF Evicted

LEMMA CallType == Inv /\ InCall => Inv'
<1> SUFFICES ASSUME Inv, InCall PROVE Inv'
  OBVIOUS
<1> USE ConstantFacts DEF Inv, TypeOK, InHandInv, InSubmit, Places, sessionVars, creditVars,
        requestVars, threadVars, queueVars, historyVars, frameVars
<1>1. CASE RecordSubmit
  <2>1. submitTimes' \subseteq Frame
    BY <1>1, RecordedType DEF RecordSubmit
  <2>2. /\ force' \in BOOLEAN /\ keyframeRequested' \in BOOLEAN
        /\ pendingBitrate' \in Bitrates \cup {0} /\ currentBitrate' \in Bitrates
    BY <1>1 DEF RecordSubmit, ApplyPendingKeyframeRequest, ApplyPendingBitrate
  <2>3. refused' \in BOOLEAN
    BY <1>1 DEF RecordSubmit, Refuses
  <2> QED
    BY <1>1, <2>1, <2>2, <2>3 DEF RecordSubmit
<1>2. CASE TakeCredit
  BY <1>2 DEF TakeCredit
<1>3. CASE AwaitNeedInput
  BY <1>3 DEF AwaitNeedInput
<1>4. CASE TakeCreditAfterWait
  BY <1>4 DEF TakeCreditAfterWait
<1>5. CASE DropFrame
  BY <1>5, EndsFrameTypes DEF DropFrame
<1>6. CASE ProcessInput
  <2>1. [id |-> submitted, time |-> time] \in Frame
    BY <1>6 DEF ProcessInput, Frame
  <2>2. inside' \in Seq(Frame)
    BY <1>6, <2>1 DEF ProcessInput
  <2>3. asked' \in 0 .. MaxAsks
    BY <1>6 DEF ProcessInput
  <2>4. /\ app' \in {"idle", "pumping"} /\ frameIndex' \in Nat
        /\ failures' \in 0 .. MaxFailures
    <3>1. CASE async
      BY <1>6, <3>1, EndsFrameTypes DEF ProcessInput
    <3>2. CASE ~async
      BY <1>6, <3>2 DEF ProcessInput
    <3> QED
      BY <3>1, <3>2
  <2>5. force' \in BOOLEAN /\ keyframeOwed' \in BOOLEAN
    BY <1>6 DEF ProcessInput
  <2> QED
    BY <1>6, <2>2, <2>3, <2>4, <2>5 DEF ProcessInput
<1>7. CASE ProcessInputFails
  <2>1. failures' \in 0 .. MaxFailures
    BY <1>7 DEF ProcessInputFails
  <2> QED
    BY <1>7, <2>1 DEF ProcessInputFails
<1>8. CASE Pump
  <2>1. output' \in OutputStates /\ outputs' \in Seq(Frame)
    BY <1>8, OutputTypes DEF Pump, TakesOutput, LosesOutput
  <2> QED
    BY <1>8, <2>1 DEF Pump
<1>9. CASE PumpEnds
  <2>1. CASE app = "pumping"
    BY <1>9, <2>1, EndsFrameTypes DEF PumpEnds
  <2>2. CASE app # "pumping"
    BY <1>9, <2>2 DEF PumpEnds
  <2> QED
    BY <2>1, <2>2
<1>10. CASE AwaitDrain
  <2>1. drainComplete' \in BOOLEAN
    BY <1>10 DEF AwaitDrain
  <2> QED
    BY <1>10, <2>1 DEF AwaitDrain
<1>11. CASE DrainReturns
  BY <1>11 DEF DrainReturns
<1>12. CASE Shutdown
  <2>1. events' \in Seq(Kinds)
    BY <1>12 DEF Shutdown, Kinds
  <2>2. eventThreadRunning' \in BOOLEAN /\ app' = "joining"
    BY <1>12 DEF Shutdown
  <2>3. TypeOK'
    BY <1>12, <2>1, <2>2 DEF Shutdown
  <2> QED
    BY <2>2, <2>3
<1>13. CASE Join
  BY <1>13 DEF Join
<1> QED
  BY <1>1, <1>2, <1>3, <1>4, <1>5, <1>6, <1>7, <1>8, <1>9, <1>10, <1>11, <1>12, <1>13
     DEF InCall

LEMMA OutputsType == Inv /\ Outputs => Inv'
<1> SUFFICES ASSUME Inv, Outputs PROVE Inv'
  OBVIOUS
<1> USE ConstantFacts DEF Inv, TypeOK, InHandInv, InSubmit, Places, sessionVars, creditVars,
        requestVars, threadVars, queueVars, historyVars, frameVars
<1>1. CASE MatchOutput
  <2>1. output.frame \in Frame
    BY <1>1, OutputKinds DEF MatchOutput
  <2>2. \A r \in submitTimes : r.id \in 0 .. MaxFrames
    BY DEF Frame
  <2>3. output' \in OutputStates /\ submitTimes' \subseteq Frame
    <3>1. Unmatched \in 0 .. MaxFrames
      BY DEF Unmatched
    <3> QED
      BY <1>1, <2>1, <2>2, <3>1, OutputKinds DEF MatchOutput
  <2> QED
    BY <1>1, <2>3 DEF MatchOutput
<1>2. CASE SinkReturns
  <2>1. output' \in OutputStates
    BY <1>2, OutputKinds DEF SinkReturns
  <2>2. eventThread' \in {"none", "waiting", "outputting", "ended"}
    BY <1>2 DEF SinkReturns, NextEvent
  <2> QED
    BY <1>2, <2>1, <2>2 DEF SinkReturns
<1> QED
  BY <1>1, <1>2 DEF Outputs

LEMMA EventThreadType == Inv /\ (EventThread \/ GetEventFails) => Inv'
<1> SUFFICES ASSUME Inv, EventThread \/ GetEventFails PROVE Inv'
  OBVIOUS
<1> USE ConstantFacts DEF Inv, TypeOK, InHandInv, InSubmit, Places, sessionVars, creditVars,
        requestVars, threadVars, queueVars, historyVars, frameVars
<1>1. events # <<>> => Tail(events) \in Seq(Kinds)
  BY HeadTailProperties
<1>2. CASE HandleNeedInput
  <2>1. events' \in Seq(Kinds) /\ needInputCredits' \in Nat
    BY <1>1, <1>2 DEF HandleNeedInput, NextEventIs
  <2>2. eventThread' \in {"none", "waiting", "outputting", "ended"}
    BY <1>2 DEF HandleNeedInput, NextEvent
  <2> QED
    BY <1>2, <2>1, <2>2 DEF HandleNeedInput
<1>3. CASE HandleHaveOutput
  <2>1. events' \in Seq(Kinds)
    BY <1>1, <1>3 DEF HandleHaveOutput, NextEventIs
  <2>2. output' \in OutputStates /\ outputs' \in Seq(Frame)
    BY <1>3, OutputTypes DEF HandleHaveOutput, TakesOutput, LosesOutput
  <2>3. eventThread' \in {"none", "waiting", "outputting", "ended"}
    BY <1>3 DEF HandleHaveOutput, NextEvent
  <2> QED
    BY <1>3, <2>1, <2>2, <2>3 DEF HandleHaveOutput
<1>4. CASE HandleDrainComplete
  <2>1. events' \in Seq(Kinds) /\ drainComplete' \in BOOLEAN
    BY <1>1, <1>4 DEF HandleDrainComplete, NextEventIs
  <2>2. eventThread' \in {"none", "waiting", "outputting", "ended"}
    BY <1>4 DEF HandleDrainComplete, NextEvent
  <2> QED
    BY <1>4, <2>1, <2>2 DEF HandleDrainComplete
<1>5. CASE HandleOther
  <2>1. events' \in Seq(Kinds)
    BY <1>1, <1>5 DEF HandleOther, NextEventIs
  <2>2. eventThread' \in {"none", "waiting", "outputting", "ended"}
    BY <1>5 DEF HandleOther, NextEvent
  <2> QED
    BY <1>5, <2>1, <2>2 DEF HandleOther
<1>6. CASE GetEventFails
  <2>1. failures' \in 0 .. MaxFailures
    BY <1>6 DEF GetEventFails
  <2> QED
    BY <1>6, <2>1 DEF GetEventFails
<1> QED
  BY <1>2, <1>3, <1>4, <1>5, <1>6 DEF EventThread

LEMMA TransformType == Inv /\ Transform => Inv'
<1> SUFFICES ASSUME Inv, Transform PROVE Inv'
  OBVIOUS
<1> USE ConstantFacts DEF Inv, TypeOK, InHandInv, InSubmit, Places, sessionVars, creditVars,
        requestVars, threadVars, queueVars, historyVars, frameVars
<1>1. inside # <<>> => Head(inside) \in Frame /\ Tail(inside) \in Seq(Frame)
  BY HeadTailProperties
<1>2. \A e \in Kinds : Append(events, e) \in Seq(Kinds)
  OBVIOUS
<1>3. CASE AskForInput
  <2>1. events' \in Seq(Kinds) /\ asked' \in 0 .. MaxAsks
    BY <1>2, <1>3 DEF AskForInput, Kinds
  <2> QED
    BY <1>3, <2>1 DEF AskForInput
<1>4. CASE Encode
  <2>1. inside' \in Seq(Frame) /\ outputs' \in Seq(Frame)
    BY <1>1, <1>4 DEF Encode
  <2>2. events' \in Seq(Kinds)
    BY <1>2, <1>4 DEF Encode, Kinds
  <2> QED
    BY <1>4, <2>1, <2>2 DEF Encode
<1>5. CASE Discard
  <2>1. inside' \in Seq(Frame)
    BY <1>1, <1>5 DEF Discard
  <2> QED
    BY <1>5, <2>1 DEF Discard
<1>6. CASE FinishDrain
  <2>1. events' \in Seq(Kinds) /\ draining' \in {"no", "draining", "drained"}
    BY <1>2, <1>6 DEF FinishDrain, Kinds
  <2> QED
    BY <1>6, <2>1 DEF FinishDrain
<1> QED
  BY <1>3, <1>4, <1>5, <1>6 DEF Transform

LEMMA TypeStep == Inv /\ [Next]_vars => Inv'
<1> SUFFICES ASSUME Inv, [Next]_vars PROVE Inv'
  OBVIOUS
<1>1. CASE UNCHANGED vars
  BY <1>1 DEF Inv, TypeOK, InHandInv, vars, sessionVars, creditVars, requestVars,
              threadVars, queueVars, historyVars
<1> QED
  BY <1>1, SessionType, CallType, OutputsType, EventThreadType, TransformType DEF Next

\* The encoder, its two threads and the transform keep their types over any run: no
\* count of credits goes below zero, and the codec's bitrate is always one that the
\* session has chosen.
THEOREM TypeCorrect == Spec => []TypeOK
<1>1. Inv => TypeOK
  BY DEF Inv
<1> QED
  BY TypeInit, TypeStep, <1>1, PTL DEF Spec

-----------------------------------------------------------------------------
(* Credits.                                                                *)

\* The requests for input that the event thread has not read.
Unread == Cardinality(Of(events, "needInput"))

InHand == IF app = "feeding" THEN 1 ELSE 0

\* NeverUnasked, as a sum of numbers.
LEMMA CreditSum ==
  NeverUnasked <=> (async => needInputCredits + Unread + InHand <= asked)
  BY DEF NeverUnasked, EventsOf, Of, Unread, InHand

LEMMA CreditSumPrimed ==
  NeverUnasked' <=> (async' => needInputCredits' + Unread' + InHand' <= asked')
  BY DEF NeverUnasked, EventsOf, Of, Unread, InHand

LEMMA UnreadType ==
  ASSUME TypeOK
  PROVE  Unread \in Nat /\ needInputCredits \in Nat /\ asked \in Nat
  BY OfIsFinite, ConstantFacts DEF Unread, TypeOK

\* An event the transform or Shutdown posts.
LEMMA UnreadAppend ==
  ASSUME TypeOK, NEW e \in Kinds, events' = Append(events, e)
  PROVE  Unread' = Unread + (IF e = "needInput" THEN 1 ELSE 0)
  BY OfAppend DEF Unread, TypeOK

\* An event the event thread reads.
LEMMA UnreadTail ==
  ASSUME TypeOK, events # <<>>, events' = Tail(events)
  PROVE  Unread' = Unread - (IF Head(events) = "needInput" THEN 1 ELSE 0)
  BY OfTail DEF Unread, TypeOK

\* A step that leaves the credits and the events alone, and does not come to feed.
LEMMA CreditsLeftAlone ==
  ASSUME TypeOK, NeverUnasked, UNCHANGED <<async, asked, events, needInputCredits>>,
         async => (app' = "feeding" => app = "feeding")
  PROVE  NeverUnasked'
<1>1. Unread' = Unread
  BY DEF Unread
<1>2. async => InHand' <= InHand
  BY DEF InHand
<1>3. InHand \in Nat /\ InHand' \in Nat
  BY DEF InHand
<1> QED
  BY <1>1, <1>2, <1>3, UnreadType, CreditSum, CreditSumPrimed

LEMMA CreditsInit == Init => NeverUnasked
<1> SUFFICES ASSUME Init PROVE NeverUnasked
  OBVIOUS
<1>1. Of(events, "needInput") = {}
  BY DEF Init, Of
<1>2. Unread = 0
  BY <1>1, FS_EmptySet DEF Unread
<1> QED
  BY <1>2, CreditSum DEF Init, InHand

\* What the application's thread does with the credits.
LEMMA CreditsCall == TypeOK /\ NeverUnasked /\ InCall => NeverUnasked'
<1> SUFFICES ASSUME TypeOK, NeverUnasked, InCall PROVE NeverUnasked'
  OBVIOUS
<1> USE UnreadType, CreditSum, CreditSumPrimed
<1>1. CASE TakeCredit \/ TakeCreditAfterWait
  <2>1. UNCHANGED <<async, asked, events>> /\ app # "feeding"
    BY <1>1 DEF TakeCredit, TakeCreditAfterWait, queueVars
  <2>2. Unread' = Unread /\ InHand = 0
    BY <2>1 DEF Unread, InHand
  <2>3. \/ UNCHANGED needInputCredits /\ InHand' = 0
        \/ needInputCredits' = needInputCredits - 1 /\ InHand' = 1
    BY <1>1 DEF TakeCredit, TakeCreditAfterWait, InHand
  <2> QED
    BY <2>1, <2>2, <2>3
<1>2. CASE ProcessInput
  <2>1. UNCHANGED <<async, events, needInputCredits>> /\ (async => asked' = asked - 1)
    BY <1>2 DEF ProcessInput, creditVars
  <2>2. Unread' = Unread /\ InHand = 1 /\ InHand' = 0
    BY <1>2, <2>1 DEF ProcessInput, EndsFrame, Unread, InHand
  <2> QED
    BY <2>1, <2>2
<1>3. CASE Shutdown
  <2>1. /\ UNCHANGED <<async, asked, needInputCredits>>
        /\ async => events' = Append(events, "error")
    BY <1>3 DEF Shutdown, creditVars
  <2>2. InHand = 0 /\ InHand' = 0
    BY <1>3 DEF Shutdown, InHand
  <2>3. async => Unread' = Unread
    BY <2>1, UnreadAppend DEF Kinds
  <2> QED
    BY <2>1, <2>2, <2>3
<1>4. CASE RecordSubmit \/ AwaitNeedInput \/ DropFrame \/ ProcessInputFails
  BY <1>4, CreditsLeftAlone
     DEF RecordSubmit, AwaitNeedInput, DropFrame, ProcessInputFails, EndsFrame,
         creditVars, queueVars
<1>5. CASE Pump \/ PumpEnds
  BY <1>5, CreditsLeftAlone DEF Pump, PumpEnds, EndsFrame, creditVars, queueVars
<1>6. CASE AwaitDrain \/ DrainReturns \/ Join
  BY <1>6, CreditsLeftAlone DEF AwaitDrain, DrainReturns, Join, creditVars, queueVars
<1> QED
  BY <1>1, <1>2, <1>3, <1>4, <1>5, <1>6 DEF InCall

\* What the event thread and the transform do with them.
LEMMA CreditsEvents ==
  TypeOK /\ NeverUnasked /\ (EventThread \/ GetEventFails \/ Transform) => NeverUnasked'
<1> SUFFICES ASSUME TypeOK, NeverUnasked, EventThread \/ GetEventFails \/ Transform
             PROVE  NeverUnasked'
  OBVIOUS
<1> USE UnreadType, CreditSum, CreditSumPrimed
<1>1. InHand \in Nat /\ (app' = app => InHand' = InHand)
  BY DEF InHand
<1>2. CASE HandleNeedInput
  <2>1. /\ UNCHANGED <<app, async, asked>>
        /\ needInputCredits' = needInputCredits + 1
        /\ events # <<>> /\ events' = Tail(events) /\ Head(events) = "needInput"
    BY <1>2 DEF HandleNeedInput, NextEventIs
  <2>2. Unread' = Unread - 1
    BY <2>1, UnreadTail
  <2> QED
    BY <1>1, <2>1, <2>2
<1>3. CASE HandleHaveOutput \/ HandleDrainComplete \/ HandleOther
  <2>1. /\ UNCHANGED <<app, async, asked, needInputCredits>>
        /\ events # <<>> /\ events' = Tail(events) /\ Head(events) # "needInput"
    BY <1>3 DEF HandleHaveOutput, HandleDrainComplete, HandleOther, NextEventIs, creditVars
  <2>2. Unread' = Unread
    BY <2>1, UnreadTail
  <2> QED
    BY <1>1, <2>1, <2>2
<1>4. CASE GetEventFails \/ Discard
  BY <1>4, CreditsLeftAlone DEF GetEventFails, Discard, creditVars, queueVars
<1>5. CASE AskForInput
  <2>1. /\ UNCHANGED <<app, async, needInputCredits>> /\ asked' = asked + 1
        /\ events' = Append(events, "needInput")
    BY <1>5 DEF AskForInput, creditVars
  <2>2. Unread' = Unread + 1
    BY <2>1, UnreadAppend DEF Kinds
  <2> QED
    BY <1>1, <2>1, <2>2
<1>6. CASE Encode \/ FinishDrain
  <2>1. /\ UNCHANGED <<app, async, asked, needInputCredits>>
        /\ \/ ~async
           \/ events' = Append(events, "haveOutput")
           \/ events' = Append(events, "drainComplete")
    BY <1>6 DEF Encode, FinishDrain, creditVars
  <2>2. async => Unread' = Unread
    BY <2>1, UnreadAppend DEF Kinds
  <2> QED
    BY <1>1, <2>1, <2>2
<1> QED
  BY <1>2, <1>3, <1>4, <1>5, <1>6 DEF EventThread, Transform

LEMMA CreditsStep == TypeOK /\ NeverUnasked /\ [Next]_vars => NeverUnasked'
<1> SUFFICES ASSUME TypeOK, NeverUnasked, [Next]_vars PROVE NeverUnasked'
  OBVIOUS
<1>1. CASE UNCHANGED vars
  BY <1>1, CreditsLeftAlone DEF vars, creditVars, queueVars
<1>2. CASE Session
  BY <1>2, CreditsLeftAlone
     DEF Session, ChangeRate, RequestKeyframe, SetBitrate, SubmitFrame, Drain, creditVars,
         queueVars
<1>3. CASE Outputs
  BY <1>3, CreditsLeftAlone DEF Outputs, MatchOutput, SinkReturns, creditVars, queueVars
<1> QED
  BY <1>1, <1>2, <1>3, CreditsCall, CreditsEvents DEF Next

\* However many inputs the transform asks for ahead, and whenever a wait for one ends
\* without it, Submit never feeds the transform a frame it has not asked for.
THEOREM CreditsAreAsked == Spec => []NeverUnasked
<1>1. TypeOK /\ Init => NeverUnasked
  BY CreditsInit
<1> QED
  BY <1>1, TypeCorrect, CreditsStep, PTL DEF Spec

-----------------------------------------------------------------------------
(* Requests.                                                               *)

LEMMA RequestsInit == Init => RequestsKept
  BY DEF Init, RequestsKept

\* A step that leaves the requests alone.
LEMMA RequestsLeftAlone ==
  ASSUME RequestsKept,
         UNCHANGED <<bitrate, keyframeRequested, pendingBitrate, currentBitrate, force,
                     keyframeOwed, refused>>
  PROVE  RequestsKept'
  BY DEF RequestsKept

\* Submit takes what is staged.
LEMMA RequestsTaken == TypeOK /\ RequestsKept /\ RecordSubmit => RequestsKept'
<1> SUFFICES ASSUME TypeOK, RequestsKept, RecordSubmit, ~refused' PROVE RequestsKept'
  BY DEF RequestsKept
<1>1. ~refused /\ ~Refuses
  BY DEF RecordSubmit
<1>2. keyframeOwed' => force'
  BY <1>1 DEF RecordSubmit, ApplyPendingKeyframeRequest, Refuses, RequestsKept
<1>3. pendingBitrate' = 0 /\ bitrate' = currentBitrate'
  BY <1>1 DEF RecordSubmit, ApplyPendingBitrate, Refuses, RequestsKept, sessionVars
<1> QED
  BY <1>2, <1>3 DEF RequestsKept

LEMMA RequestsStep == TypeOK /\ RequestsKept /\ [Next]_vars => RequestsKept'
<1> SUFFICES ASSUME TypeOK, RequestsKept, [Next]_vars PROVE RequestsKept'
  OBVIOUS
<1> USE DEF sessionVars, requestVars, historyVars
<1>1. CASE UNCHANGED vars
  BY <1>1, RequestsLeftAlone DEF vars
<1>2. CASE RequestKeyframe
  BY <1>2 DEF RequestKeyframe, RequestsKept
<1>3. CASE SetBitrate
  <2>1. pendingBitrate' # 0 /\ bitrate' = pendingBitrate'
    BY <1>3, ConstantFacts DEF SetBitrate
  <2> QED
    BY <1>3, <2>1 DEF SetBitrate, RequestsKept
<1>4. CASE ChangeRate \/ SubmitFrame \/ Drain
  BY <1>4, RequestsLeftAlone DEF ChangeRate, SubmitFrame, Drain
<1>5. CASE RecordSubmit
  BY <1>5, RequestsTaken
<1>6. CASE ProcessInput
  BY <1>6 DEF ProcessInput, RequestsKept
<1>7. CASE TakeCredit \/ AwaitNeedInput \/ TakeCreditAfterWait \/ DropFrame
  BY <1>7, RequestsLeftAlone DEF TakeCredit, AwaitNeedInput, TakeCreditAfterWait, DropFrame
<1>8. CASE ProcessInputFails \/ Pump \/ PumpEnds
  BY <1>8, RequestsLeftAlone DEF ProcessInputFails, Pump, PumpEnds
<1>9. CASE AwaitDrain \/ DrainReturns \/ Shutdown \/ Join
  BY <1>9, RequestsLeftAlone DEF AwaitDrain, DrainReturns, Shutdown, Join
<1>10. CASE Outputs
  BY <1>10, RequestsLeftAlone DEF Outputs, MatchOutput, SinkReturns
<1>11. CASE EventThread \/ GetEventFails
  BY <1>11, RequestsLeftAlone
     DEF EventThread, GetEventFails, HandleNeedInput, HandleHaveOutput, HandleDrainComplete,
         HandleOther
<1>12. CASE Transform
  BY <1>12, RequestsLeftAlone DEF Transform, AskForInput, Encode, Discard, FinishDrain
<1> QED
  BY <1>1, <1>2, <1>3, <1>4, <1>5, <1>6, <1>7, <1>8, <1>9, <1>10, <1>11, <1>12
     DEF Next, Session, InCall

\* A keyframe or a bitrate that was asked for survives frames that are dropped or fail, in
\* any number, unless the codec itself refuses it.
THEOREM RequestsSurvive == Spec => []RequestsKept
<1>1. TypeOK /\ Init => RequestsKept
  BY RequestsInit
<1> QED
  BY <1>1, TypeCorrect, RequestsStep, PTL DEF Spec

-----------------------------------------------------------------------------
(* The bound on the records.                                               *)

\* Some record is the oldest.
LEMMA OldestRecord ==
  ASSUME NEW R, R # {}, \A r \in R : r.time \in Nat
  PROVE  \E m \in R : \A r \in R : r.time >= m.time
<1> DEFINE times == {r.time : r \in R}
<1>1. times \subseteq Nat /\ times # {}
  OBVIOUS
<1>2. PICK t \in times : \A u \in times : <<u, t>> \notin OpToRel(<, Nat)
  BY <1>1, WFMin, NatLessThanWellFounded, Zenon
<1>3. \A u \in times : ~ (u < t)
  BY <1>1, <1>2, Zenon DEF OpToRel
<1>4. PICK m \in R : m.time = t
  BY <1>2
<1>5. \A u \in times : u >= t
  <2> HIDE DEF times
  <2>1. t \in Nat /\ \A u \in times : u \in Nat
    BY <1>1, <1>2
  <2> QED
    BY <2>1, <1>3
<1>6. \A r \in R : r.time \in times
  OBVIOUS
<1> HIDE DEF times
<1> QED
  BY <1>4, <1>5, <1>6

\* What is left after the eviction all has the oldest one that is left below it, and
\* that has at most MaxTracked at or above it.
LEMMA EvictedBounded ==
  ASSUME NEW records, IsFiniteSet(records), \A r \in records : r.time \in Nat
  PROVE  IsFiniteSet(Evicted(records)) /\ Cardinality(Evicted(records)) <= MaxTracked
<1>1. Evicted(records) \subseteq records
  BY DEF Evicted
<1>2. IsFiniteSet(Evicted(records))
  BY <1>1, FS_Subset
<1>3. CASE Evicted(records) = {}
  BY <1>2, <1>3, FS_EmptySet, ConstantFacts
<1>4. CASE Evicted(records) # {}
  <2>1. PICK m \in Evicted(records) : \A r \in Evicted(records) : r.time >= m.time
    BY <1>1, <1>4, OldestRecord
  <2> DEFINE above == {s \in records : s.time >= m.time}
  <2>2. Cardinality(above) <= MaxTracked
    BY <2>1 DEF Evicted
  <2>3. Evicted(records) \subseteq above /\ above \subseteq records
    BY <1>1, <2>1
  <2>4. /\ IsFiniteSet(above)
        /\ Cardinality(Evicted(records)) <= Cardinality(above)
    BY <2>3, FS_Subset
  <2>5. Cardinality(above) \in Nat /\ Cardinality(Evicted(records)) \in Nat
    BY <1>2, <2>4, FS_CardinalityType
  <2> HIDE DEF above
  <2> QED
    BY <1>2, <2>2, <2>4, <2>5, ConstantFacts
<1> QED
  BY <1>3, <1>4

RecordsInv == IsFiniteSet(submitTimes) /\ RecordsBounded

LEMMA RecordsInit == Init => RecordsInv
<1> SUFFICES ASSUME Init PROVE RecordsInv
  OBVIOUS
<1>1. submitTimes = {}
  BY DEF Init
<1> QED
  BY <1>1, FS_EmptySet, ConstantFacts DEF RecordsInv, RecordsBounded

LEMMA RecordsLessened ==
  ASSUME RecordsInv, submitTimes' \subseteq submitTimes
  PROVE  RecordsInv'
<1>1. /\ IsFiniteSet(submitTimes')
      /\ Cardinality(submitTimes') <= Cardinality(submitTimes)
  BY FS_Subset DEF RecordsInv
<1>2. Cardinality(submitTimes') \in Nat /\ Cardinality(submitTimes) \in Nat
  BY <1>1, FS_CardinalityType DEF RecordsInv
<1> QED
  BY <1>1, <1>2, ConstantFacts DEF RecordsInv, RecordsBounded

LEMMA RecordsStep == Inv /\ RecordsInv /\ [Next]_vars => RecordsInv'
<1> SUFFICES ASSUME Inv, RecordsInv, [Next]_vars PROVE RecordsInv'
  OBVIOUS
<1>1. CASE UNCHANGED vars
  BY <1>1, RecordsLessened DEF vars
<1>2. CASE RecordSubmit
  <2>1. app = "recording" /\ submitTimes' = Evicted(Recorded)
    BY <1>2 DEF RecordSubmit
  <2>2. \A r \in Recorded : r.time \in Nat
    BY <2>1, RecordedType DEF Frame
  <2>3. IsFiniteSet(Recorded)
    <3>1. IsFiniteSet({r \in submitTimes : r.time # time})
      BY FS_Subset DEF RecordsInv
    <3> QED
      BY <3>1, FS_AddElement DEF Recorded
  <2> QED
    BY <2>1, <2>2, <2>3, EvictedBounded DEF RecordsInv, RecordsBounded
<1>3. CASE MatchOutput
  <2>1. submitTimes' \subseteq submitTimes
    BY <1>3 DEF MatchOutput
  <2> QED
    BY <2>1, RecordsLessened
<1>4. CASE Session \/ SinkReturns
  BY <1>4, RecordsLessened
     DEF Session, ChangeRate, RequestKeyframe, SetBitrate, SubmitFrame, Drain, SinkReturns
<1>5. CASE \/ TakeCredit \/ AwaitNeedInput \/ TakeCreditAfterWait \/ DropFrame
           \/ ProcessInput \/ ProcessInputFails
  BY <1>5, RecordsLessened
     DEF TakeCredit, AwaitNeedInput, TakeCreditAfterWait, DropFrame, ProcessInput,
         ProcessInputFails
<1>6. CASE Pump \/ PumpEnds \/ AwaitDrain \/ DrainReturns \/ Shutdown \/ Join
  BY <1>6, RecordsLessened DEF Pump, PumpEnds, AwaitDrain, DrainReturns, Shutdown, Join
<1>7. CASE EventThread \/ GetEventFails
  BY <1>7, RecordsLessened
     DEF EventThread, GetEventFails, HandleNeedInput, HandleHaveOutput, HandleDrainComplete,
         HandleOther
<1>8. CASE Transform
  BY <1>8, RecordsLessened DEF Transform, AskForInput, Encode, Discard, FinishDrain
<1> QED
  BY <1>1, <1>2, <1>3, <1>4, <1>5, <1>6, <1>7, <1>8 DEF Next, InCall, Outputs

\* However many frames the encoder drops, and in whatever order sample times come, the
\* session keeps at most kMaxTrackedFrames records.
THEOREM RecordsStayBounded == Spec => []RecordsBounded
<1>1. RecordsInv => RecordsBounded
  BY DEF RecordsInv
<1> QED
  BY TypeInit, TypeStep, RecordsInit, RecordsStep, <1>1, PTL DEF Spec

-----------------------------------------------------------------------------
(* The drain.                                                              *)

LEMMA EventsOfIsOf == \A kind : EventsOf(kind) = Of(events, kind)
  BY DEF EventsOf, Of

\* What a step that posts an event adds.
LEMMA EventsAppend ==
  ASSUME TypeOK, NEW e \in Kinds, events' = Append(events, e)
  PROVE  /\ Len(events) \in Nat /\ DOMAIN events = 1 .. Len(events)
         /\ \A kind : EventsOf(kind)' =
              EventsOf(kind) \cup (IF e = kind THEN {Len(events) + 1} ELSE {})
         /\ \A kind : Cardinality(EventsOf(kind)')
              = Cardinality(EventsOf(kind)) + (IF e = kind THEN 1 ELSE 0)
<1>1. events \in Seq(Kinds)
  BY DEF TypeOK
<1>2. /\ Len(events) \in Nat /\ DOMAIN events = 1 .. Len(events)
      /\ DOMAIN events' = 1 .. Len(events) + 1
      /\ \A k \in 1 .. Len(events) : events'[k] = events[k]
      /\ events'[Len(events) + 1] = e
  BY <1>1
<1>3. \A kind : EventsOf(kind)' =
        EventsOf(kind) \cup (IF e = kind THEN {Len(events) + 1} ELSE {})
  BY <1>2 DEF EventsOf
<1>4. \A kind : EventsOf(kind)' = Of(Append(events, e), kind) /\ EventsOf(kind) = Of(events, kind)
  BY DEF EventsOf, Of
<1>5. \A kind : Cardinality(EventsOf(kind)')
              = Cardinality(EventsOf(kind)) + (IF e = kind THEN 1 ELSE 0)
  <2> TAKE kind
  <2> QED
    BY <1>1, <1>4, OfAppend
<1> QED
  BY <1>2, <1>3, <1>5

\* What a step that reads an event leaves: the others, one place further to the front.
LEMMA EventsTail ==
  ASSUME TypeOK, events # <<>>, events' = Tail(events)
  PROVE  /\ \A kind : \A k \in EventsOf(kind)' : k + 1 \in EventsOf(kind) /\ k \in Nat
         /\ \A kind : Cardinality(EventsOf(kind)')
              = Cardinality(EventsOf(kind)) - (IF Head(events) = kind THEN 1 ELSE 0)
         /\ 1 \in EventsOf(Head(events))
<1>1. events \in Seq(Kinds)
  BY DEF TypeOK
<1>2. /\ Len(events) \in Nat \ {0} /\ DOMAIN events = 1 .. Len(events)
      /\ Head(events) = events[1] /\ DOMAIN events' = 1 .. Len(events) - 1
      /\ \A k \in 1 .. Len(events) - 1 : events'[k] = events[k + 1]
  BY <1>1, HeadTailProperties
<1>3. \A kind : \A k \in EventsOf(kind)' : k + 1 \in EventsOf(kind) /\ k \in Nat
  BY <1>2 DEF EventsOf
<1>4. \A kind : EventsOf(kind)' = Of(Tail(events), kind) /\ EventsOf(kind) = Of(events, kind)
  BY DEF EventsOf, Of
<1>5. \A kind : Cardinality(EventsOf(kind)')
              = Cardinality(EventsOf(kind)) - (IF Head(events) = kind THEN 1 ELSE 0)
  <2> TAKE kind
  <2> QED
    BY <1>1, <1>4, OfTail
<1>6. 1 \in EventsOf(Head(events))
  BY <1>2 DEF EventsOf
<1> QED
  BY <1>3, <1>5, <1>6

LEMMA EventsOfSame == events' = events => \A kind : EventsOf(kind)' = EventsOf(kind)
  BY DEF EventsOf

\* The queue behind an event that was read.
LEMMA ReadInOrder ==
  ASSUME TypeOK, DrainInv, events # <<>>, events' = Tail(events)
  PROVE  /\ \A j \in EventsOf("drainComplete")', k \in EventsOf("haveOutput")' : k < j
         /\ EventsOf("drainComplete")' # {} => EventsOf("drainComplete") # {}
         /\ EventsOf("haveOutput") = {} => EventsOf("haveOutput")' = {}
<1>1. \A kind : \A k \in EventsOf(kind)' : k + 1 \in EventsOf(kind) /\ k \in Nat
  BY EventsTail
<1>2. ASSUME NEW j \in EventsOf("drainComplete")', NEW k \in EventsOf("haveOutput")'
      PROVE  k < j
  <2>1. k + 1 < j + 1 /\ k \in Nat /\ j \in Nat
    BY <1>1, <1>2 DEF DrainInv
  <2> QED
    BY <2>1
<1> QED
  BY <1>1, <1>2

LEMMA DrainInit == Init => DrainInv
<1> SUFFICES ASSUME Init PROVE DrainInv
  OBVIOUS
<1>1. \A kind : EventsOf(kind) = {}
  BY DEF Init, EventsOf
<1>2. Len(outputs) = 0 /\ Cardinality(EventsOf("haveOutput")) = 0
  BY <1>1, FS_EmptySet DEF Init
<1> QED
  BY <1>1, <1>2 DEF Init, DrainInv, Ending

\* A step that does nothing but move the application's thread within a call.
LEMMA DrainLeftAlone ==
  ASSUME TypeOK, DrainInv,
         UNCHANGED <<events, outputs, inside, draining, drainComplete, async, eventThread, output>>,
         app' \in Ending <=> app \in Ending,
         async => app' \notin {"pumping", "flushing"}
  PROVE  DrainInv'
<1>1. \A kind : EventsOf(kind)' = EventsOf(kind)
  BY EventsOfSame
<1> QED
  BY <1>1 DEF DrainInv

LEMMA DrainSession == TypeOK /\ DrainInv /\ Session => DrainInv'
<1> SUFFICES ASSUME TypeOK, DrainInv, Session PROVE DrainInv'
  OBVIOUS
<1> USE DEF creditVars, queueVars, threadVars, Ending
<1>1. CASE ChangeRate \/ RequestKeyframe \/ SetBitrate
  BY <1>1, DrainLeftAlone DEF ChangeRate, RequestKeyframe, SetBitrate, DrainInv
<1>2. CASE SubmitFrame
  BY <1>2, DrainLeftAlone DEF SubmitFrame
<1>3. CASE Drain
  <2>1. \A kind : EventsOf(kind)' = EventsOf(kind)
    BY <1>3, EventsOfSame DEF Drain
  <2>2. draining = "no"
    BY <1>3 DEF Drain, DrainInv
  <2>3. app' \in Ending /\ draining' = "draining" /\ (async => app' = "drainPosted")
    BY <1>3 DEF Drain
  <2>4. UNCHANGED <<events, outputs, inside, drainComplete, async, eventThread, output>>
    BY <1>3 DEF Drain
  <2> QED
    BY <2>1, <2>2, <2>3, <2>4 DEF DrainInv
<1> QED
  BY <1>1, <1>2, <1>3 DEF Session

LEMMA DrainCall == TypeOK /\ DrainInv /\ InCall => DrainInv'
<1> SUFFICES ASSUME TypeOK, DrainInv, InCall PROVE DrainInv'
  OBVIOUS
<1> USE DEF creditVars, queueVars, threadVars, Ending
<1>1. CASE RecordSubmit \/ TakeCredit \/ AwaitNeedInput \/ TakeCreditAfterWait
  BY <1>1, DrainLeftAlone DEF RecordSubmit, TakeCredit, AwaitNeedInput, TakeCreditAfterWait
<1>2. CASE DropFrame \/ ProcessInputFails
  BY <1>2, DrainLeftAlone DEF DropFrame, ProcessInputFails, EndsFrame
<1>3. CASE ProcessInput
  <2>1. \A kind : EventsOf(kind)' = EventsOf(kind)
    BY <1>3, EventsOfSame DEF ProcessInput
  <2>2. draining = "no"
    BY <1>3 DEF ProcessInput, DrainInv
  <2>3. app' \notin Ending /\ (async => app' = "idle")
    BY <1>3 DEF ProcessInput, EndsFrame
  <2>4. UNCHANGED <<events, outputs, draining, drainComplete, async, eventThread, output>>
    BY <1>3 DEF ProcessInput
  <2> QED
    BY <2>1, <2>2, <2>3, <2>4 DEF DrainInv
<1>4. CASE Pump
  <2>1. \A kind : EventsOf(kind)' = EventsOf(kind)
    BY <1>4, EventsOfSame DEF Pump
  <2>2. ~async /\ draining # "drained" /\ ~drainComplete
    BY <1>4 DEF Pump, DrainInv
  <2>3. UNCHANGED <<app, events, draining, drainComplete, async, eventThread, inside>>
    BY <1>4 DEF Pump
  <2> QED
    BY <2>1, <2>2, <2>3 DEF DrainInv
<1>5. CASE PumpEnds
  <2>1. app' \in Ending <=> app \in Ending
    BY <1>5 DEF PumpEnds, EndsFrame
  <2>2. app' \notin {"pumping", "flushing"}
    BY <1>5 DEF PumpEnds, EndsFrame
  <2> QED
    BY <1>5, <2>1, <2>2, DrainLeftAlone DEF PumpEnds
<1>6. CASE AwaitDrain
  <2>1. \A kind : EventsOf(kind)' = EventsOf(kind)
    BY <1>6, EventsOfSame DEF AwaitDrain
  <2> QED
    BY <1>6, <2>1 DEF AwaitDrain, DrainInv
<1>7. CASE DrainReturns \/ Join
  BY <1>7, DrainLeftAlone DEF DrainReturns, Join
<1>8. CASE Shutdown
  <2>1. UNCHANGED <<outputs, inside, draining, drainComplete, async, eventThread, output>>
    BY <1>8 DEF Shutdown
  <2>2. app = "stopping" /\ app' = "joining"
    BY <1>8 DEF Shutdown
  <2>3. /\ EventsOf("drainComplete")' = EventsOf("drainComplete")
        /\ EventsOf("haveOutput")' = EventsOf("haveOutput")
    <3>1. CASE async
      <4>1. events' = Append(events, "error") /\ "error" \in Kinds
        BY <1>8, <3>1 DEF Shutdown, Kinds
      <4>2. \A kind : EventsOf(kind)' =
              EventsOf(kind) \cup (IF "error" = kind THEN {Len(events) + 1} ELSE {})
        BY <4>1, EventsAppend
      <4> QED
        BY <4>2
    <3>2. CASE ~async
      BY <1>8, <3>2, EventsOfSame DEF Shutdown
    <3> QED
      BY <3>1, <3>2
  <2>4. ~async => events' = events
    BY <1>8 DEF Shutdown
  <2> QED
    BY <2>1, <2>2, <2>3, <2>4 DEF DrainInv
<1> QED
  BY <1>1, <1>2, <1>3, <1>4, <1>5, <1>6, <1>7, <1>8 DEF InCall

LEMMA DrainOutputs == TypeOK /\ DrainInv /\ Outputs => DrainInv'
<1> SUFFICES ASSUME TypeOK, DrainInv, Outputs PROVE DrainInv'
  OBVIOUS
<1> USE DEF creditVars, queueVars, threadVars, Ending
<1>1. /\ \A kind : EventsOf(kind)' = EventsOf(kind)
      /\ UNCHANGED <<app, events, outputs, inside, draining, drainComplete, async>>
  BY EventsOfSame DEF Outputs, MatchOutput, SinkReturns
<1>2. CASE MatchOutput
  <2>1. output # NoOutput /\ output' # NoOutput /\ UNCHANGED eventThread
    BY <1>2 DEF MatchOutput, NoOutput, Sending
  <2> QED
    BY <1>1, <2>1 DEF DrainInv
<1>3. CASE SinkReturns
  <2>1. output # NoOutput /\ output' = NoOutput
    BY <1>3 DEF SinkReturns, NoOutput
  <2>2. eventThread' # "outputting" \/ ~async
    BY <1>3 DEF SinkReturns, NextEvent
  <2>3. ~async => UNCHANGED eventThread
    BY <1>3 DEF SinkReturns
  <2> QED
    BY <1>1, <2>1, <2>2, <2>3 DEF DrainInv
<1> QED
  BY <1>2, <1>3 DEF Outputs

LEMMA DrainEvents == TypeOK /\ DrainInv /\ (EventThread \/ GetEventFails) => DrainInv'
<1> SUFFICES ASSUME TypeOK, DrainInv, EventThread \/ GetEventFails PROVE DrainInv'
  OBVIOUS
<1> USE DEF creditVars, queueVars, threadVars
<1>1. /\ eventThread = "waiting" /\ async /\ output = NoOutput
      /\ UNCHANGED <<app, draining, async, inside>>
  BY DEF EventThread, HandleNeedInput, HandleHaveOutput, HandleDrainComplete, HandleOther,
         GetEventFails, NextEventIs, DrainInv
<1>2. CASE GetEventFails
  <2>1. \A kind : EventsOf(kind)' = EventsOf(kind)
    BY <1>2, EventsOfSame DEF GetEventFails
  <2>2. UNCHANGED <<events, outputs, output, drainComplete>> /\ eventThread' = "ended"
    BY <1>2 DEF GetEventFails
  <2> QED
    BY <1>1, <2>1, <2>2 DEF DrainInv
<1>3. CASE HandleNeedInput \/ HandleOther
  <2>1. /\ events # <<>> /\ events' = Tail(events) /\ Head(events) # "haveOutput"
        /\ UNCHANGED <<outputs, output, drainComplete>> /\ eventThread' # "outputting"
    BY <1>3 DEF HandleNeedInput, HandleOther, NextEventIs, NextEvent
  <2>2. Cardinality(EventsOf("haveOutput")') = Len(outputs')
    <3>1. Cardinality(EventsOf("haveOutput")') = Cardinality(EventsOf("haveOutput"))
      <4>1. Cardinality(EventsOf("haveOutput")) \in Nat
        BY OfIsFinite, EventsOfIsOf DEF TypeOK
      <4> QED
        BY <2>1, <4>1, EventsTail
    <3> QED
      BY <1>1, <2>1, <3>1 DEF DrainInv
  <2> QED
    BY <1>1, <2>1, <2>2, ReadInOrder DEF DrainInv
<1>4. CASE HandleDrainComplete
  <2>1. /\ events # <<>> /\ events' = Tail(events) /\ Head(events) = "drainComplete"
        /\ UNCHANGED <<outputs, output>> /\ eventThread' # "outputting"
    BY <1>4 DEF HandleDrainComplete, NextEventIs, NextEvent
  <2>2. Cardinality(EventsOf("haveOutput")') = Len(outputs')
    <3>1. Cardinality(EventsOf("haveOutput")') = Cardinality(EventsOf("haveOutput"))
      <4>1. Cardinality(EventsOf("haveOutput")) \in Nat
        BY OfIsFinite, EventsOfIsOf DEF TypeOK
      <4> QED
        BY <2>1, <4>1, EventsTail
    <3> QED
      BY <1>1, <2>1, <3>1 DEF DrainInv
  <2>3. 1 \in EventsOf("drainComplete")
    BY <2>1, EventsTail
  <2>4. EventsOf("haveOutput") = {}
    <3>1. \A k \in EventsOf("haveOutput") : k \in Nat \ {0}
      BY DEF EventsOf, TypeOK
    <3> QED
      BY <2>3, <3>1 DEF DrainInv
  <2>5. draining = "drained"
    BY <2>3 DEF DrainInv
  <2> QED
    BY <1>1, <2>1, <2>2, <2>4, <2>5, ReadInOrder DEF DrainInv
<1>5. CASE HandleHaveOutput
  <2>1. /\ events # <<>> /\ events' = Tail(events) /\ Head(events) = "haveOutput"
        /\ UNCHANGED drainComplete /\ outputs # <<>> /\ outputs' = Tail(outputs)
    BY <1>5 DEF HandleHaveOutput, NextEventIs, TakesOutput, LosesOutput
  <2>2. output' # NoOutput <=> eventThread' = "outputting"
    <3>1. Matching(Head(outputs)) # NoOutput
      BY DEF Matching, NoOutput
    <3> QED
      BY <1>1, <1>5, <3>1 DEF HandleHaveOutput, TakesOutput, LosesOutput, NextEvent
  <2>3. ~drainComplete
    BY <2>1, EventsTail DEF DrainInv
  <2>4. Cardinality(EventsOf("haveOutput")') = Len(outputs')
    <3>1. Cardinality(EventsOf("haveOutput")') = Cardinality(EventsOf("haveOutput")) - 1
      BY <2>1, EventsTail
    <3>2. Len(outputs') = Len(outputs) - 1
      BY <2>1, HeadTailProperties DEF TypeOK
    <3> QED
      BY <1>1, <3>1, <3>2 DEF DrainInv
  <2> QED
    BY <1>1, <2>1, <2>2, <2>3, <2>4, ReadInOrder DEF DrainInv
<1> QED
  BY <1>2, <1>3, <1>4, <1>5 DEF EventThread

LEMMA DrainTransform == TypeOK /\ DrainInv /\ Transform => DrainInv'
<1> SUFFICES ASSUME TypeOK, DrainInv, Transform PROVE DrainInv'
  OBVIOUS
<1> USE DEF creditVars, queueVars, threadVars, Kinds
<1>1. UNCHANGED <<app, drainComplete, async, eventThread, output>>
  BY DEF Transform, AskForInput, Encode, Discard, FinishDrain
<1>2. Cardinality(EventsOf("haveOutput")) \in Nat
  BY OfIsFinite, EventsOfIsOf DEF TypeOK
<1>3. CASE AskForInput
  <2>1. events' = Append(events, "needInput") /\ UNCHANGED <<outputs, inside, draining>> /\ async
    BY <1>3 DEF AskForInput
  <2>2. /\ EventsOf("drainComplete")' = EventsOf("drainComplete")
        /\ EventsOf("haveOutput")' = EventsOf("haveOutput")
    BY <2>1, EventsAppend
  <2> QED
    BY <1>1, <2>1, <2>2 DEF DrainInv
<1>4. CASE Encode
  <2>1. /\ inside # <<>> /\ UNCHANGED draining /\ outputs' = Append(outputs, Head(inside))
        /\ events' = IF async THEN Append(events, "haveOutput") ELSE events
    BY <1>4 DEF Encode
  <2>2. draining # "drained" /\ ~drainComplete /\ EventsOf("drainComplete") = {}
    BY <2>1 DEF DrainInv
  <2>3. CASE async
    <3>1. events' = Append(events, "haveOutput")
      BY <2>1, <2>3
    <3>2. /\ EventsOf("drainComplete")' = EventsOf("drainComplete")
          /\ Cardinality(EventsOf("haveOutput")') = Cardinality(EventsOf("haveOutput")) + 1
      BY <3>1, EventsAppend
    <3>3. Len(outputs') = Len(outputs) + 1
      BY <2>1 DEF TypeOK
    <3> QED
      BY <1>1, <2>1, <2>2, <2>3, <3>2, <3>3 DEF DrainInv
  <2>4. CASE ~async
    <3>1. events' = events /\ \A kind : EventsOf(kind)' = EventsOf(kind)
      BY <2>1, <2>4, EventsOfSame
    <3> QED
      BY <1>1, <2>1, <2>2, <2>4, <3>1 DEF DrainInv
  <2> QED
    BY <2>3, <2>4
<1>5. CASE Discard
  <2>1. inside # <<>> /\ UNCHANGED <<draining, outputs, events>>
    BY <1>5 DEF Discard
  <2>2. \A kind : EventsOf(kind)' = EventsOf(kind)
    BY <2>1, EventsOfSame
  <2> QED
    BY <1>1, <2>1, <2>2 DEF DrainInv
<1>6. CASE FinishDrain
  <2>1. /\ async /\ inside = <<>> /\ draining = "draining" /\ draining' = "drained"
        /\ events' = Append(events, "drainComplete") /\ UNCHANGED <<inside, outputs>>
    BY <1>6 DEF FinishDrain
  <2>2. /\ EventsOf("drainComplete")' = EventsOf("drainComplete") \cup {Len(events) + 1}
        /\ EventsOf("haveOutput")' = EventsOf("haveOutput")
        /\ Len(events) \in Nat /\ DOMAIN events = 1 .. Len(events)
    BY <2>1, EventsAppend
  <2>3. \A k \in EventsOf("haveOutput") : k < Len(events) + 1
    BY <2>2 DEF EventsOf
  <2> QED
    BY <1>1, <2>1, <2>2, <2>3 DEF DrainInv
<1> QED
  BY <1>3, <1>4, <1>5, <1>6 DEF Transform

LEMMA DrainStep == TypeOK /\ DrainInv /\ [Next]_vars => DrainInv'
<1> SUFFICES ASSUME TypeOK, DrainInv, [Next]_vars PROVE DrainInv'
  OBVIOUS
<1>1. CASE UNCHANGED vars
  <2>1. UNCHANGED <<app, events, outputs, inside, draining, drainComplete, async, eventThread, output>>
    BY <1>1 DEF vars, queueVars, creditVars, threadVars
  <2> QED
    BY <2>1, DrainLeftAlone DEF DrainInv
<1> QED
  BY <1>1, DrainSession, DrainCall, DrainOutputs, DrainEvents, DrainTransform DEF Next

\* When Drain finds the drain complete, nothing is left in the encoder or on its way to the
\* sink, although the events of outputs and of the drain are read by another thread.
THEOREM DrainIsFlushed == Spec => []DrainFlushes
<1>1. TypeOK /\ DrainInv => DrainFlushes
  <2> SUFFICES ASSUME TypeOK, DrainInv, app = "draining", drainComplete
               PROVE  inside = <<>> /\ outputs = <<>> /\ output = NoOutput
    BY DEF DrainFlushes
  <2>1. async /\ inside = <<>> /\ output = NoOutput /\ EventsOf("haveOutput") = {}
    BY DEF DrainInv
  <2>2. Len(outputs) = 0
    BY <2>1, FS_EmptySet DEF DrainInv
  <2> QED
    BY <2>1, <2>2, EmptySeq DEF TypeOK
<1> QED
  BY <1>1, DrainInit, DrainStep, TypeCorrect, PTL DEF Spec

-----------------------------------------------------------------------------
(* Outputs and their records.                                              *)

LEMMA KnownTypes ==
  ASSUME Inv
  PROVE  /\ outputs \in Seq(Frame) /\ inside \in Seq(Frame) /\ submitTimes \subseteq Frame
         /\ \A f \in Frame : f.id \in Nat \ {0} /\ f.time \in Nat
         /\ Pending \subseteq Frame /\ Current \subseteq Frame /\ Known \subseteq Frame
         /\ submitted \in Nat /\ time \in Nat
<1>1. /\ outputs \in Seq(Frame) /\ inside \in Seq(Frame) /\ submitTimes \subseteq Frame
      /\ submitted \in Nat /\ time \in Nat /\ submitted <= MaxFrames
  BY ConstantFacts DEF Inv, TypeOK
<1>2. \A f \in Frame : f.id \in Nat \ {0} /\ f.time \in Nat
  BY ConstantFacts DEF Frame
<1>3. output.at = "matching" => output.frame \in Frame
  BY OutputKinds DEF Inv, TypeOK
<1>4. Pending \subseteq Frame
  BY <1>1, <1>3 DEF Pending
<1>5. Current \subseteq Frame
  BY <1>1, ConstantFacts DEF Inv, InHandInv, Current, Frame
<1> QED
  BY <1>1, <1>2, <1>4, <1>5 DEF Known

\* The elements of a sequence that lost its first, or got one at the end.
LEMMA TailElements ==
  ASSUME NEW S, NEW s \in Seq(S), s # <<>>
  PROVE  /\ 1 \in DOMAIN s /\ Head(s) = s[1] /\ DOMAIN s \subseteq Nat
         /\ \A k \in DOMAIN Tail(s) :
              k \in Nat \ {0} /\ k + 1 \in DOMAIN s /\ Tail(s)[k] = s[k + 1]
  BY HeadTailProperties

LEMMA AppendElements ==
  ASSUME NEW S, NEW s \in Seq(S), NEW e \in S
  PROVE  \A k \in DOMAIN Append(s, e) :
           /\ k \in Nat
           /\ \/ k = Len(s) + 1 /\ Append(s, e)[k] = e
              \/ k \in DOMAIN s /\ k <= Len(s) /\ Append(s, e)[k] = s[k]
  OBVIOUS

\* The first of the outputs is taken, or lost.
LEMMA QueueTakes ==
  ASSUME Inv, QueueInv, outputs # <<>>, TakesOutput \/ LosesOutput,
         UNCHANGED <<app, inside, submitted>>
  PROVE  QueueInv' /\ Pending' \subseteq Pending
<1>1. /\ 1 \in DOMAIN outputs /\ Head(outputs) = outputs[1] /\ outputs' = Tail(outputs)
      /\ \A k \in DOMAIN outputs' :
           k \in Nat \ {0} /\ k + 1 \in DOMAIN outputs /\ outputs'[k] = outputs[k + 1]
  BY KnownTypes, TailElements DEF TakesOutput, LosesOutput
<1>2. output' = output \/ (output'.at = "matching" /\ output'.frame = outputs[1])
  BY <1>1 DEF TakesOutput, LosesOutput, Matching
<1>3. Pending' \subseteq Pending
  BY <1>1, <1>2 DEF Pending
<1>4. \A j, k \in DOMAIN outputs' : j < k => outputs'[j].id < outputs'[k].id
  <2> SUFFICES ASSUME NEW j \in DOMAIN outputs', NEW k \in DOMAIN outputs', j < k
               PROVE  outputs'[j].id < outputs'[k].id
    OBVIOUS
  <2>1. j + 1 < k + 1 /\ j + 1 \in DOMAIN outputs /\ k + 1 \in DOMAIN outputs
    BY <1>1
  <2> QED
    BY <1>1, <2>1 DEF QueueInv
<1>5. \A k \in DOMAIN outputs' : outputs[1].id < outputs'[k].id
  <2> SUFFICES ASSUME NEW k \in DOMAIN outputs' PROVE outputs[1].id < outputs'[k].id
    OBVIOUS
  <2>1. 1 < k + 1 /\ k + 1 \in DOMAIN outputs
    BY <1>1
  <2> QED
    BY <1>1, <2>1 DEF QueueInv
<1>6. output'.at = "matching" =>
        /\ \A k \in DOMAIN outputs' : output'.frame.id < outputs'[k].id
        /\ \A k \in DOMAIN inside' : output'.frame.id < inside'[k].id
  BY <1>1, <1>2, <1>5 DEF QueueInv
<1>7. \A j \in DOMAIN outputs', k \in DOMAIN inside' : outputs'[j].id < inside'[k].id
  BY <1>1 DEF QueueInv
<1> QED
  BY <1>3, <1>4, <1>6, <1>7 DEF QueueInv

\* The transform passes the first frame inside to its outputs, or discards it.
LEMMA QueueEncodes ==
  ASSUME Inv, QueueInv, inside # <<>>, inside' = Tail(inside),
         outputs' = outputs \/ outputs' = Append(outputs, Head(inside)),
         UNCHANGED <<app, output, submitted>>
  PROVE  QueueInv' /\ Pending' \subseteq Pending
<1>1. /\ 1 \in DOMAIN inside /\ Head(inside) = inside[1]
      /\ \A k \in DOMAIN inside' :
           k \in Nat \ {0} /\ k + 1 \in DOMAIN inside /\ inside'[k] = inside[k + 1]
  BY KnownTypes, TailElements
<1>2. \A k \in DOMAIN outputs' :
        \/ k \in DOMAIN outputs /\ outputs'[k] = outputs[k]
        \/ /\ outputs'[k] = inside[1] /\ k = Len(outputs) + 1
           /\ \A j \in DOMAIN outputs : j < k
  <2>1. inside[1] \in Frame /\ Len(outputs) \in Nat /\ DOMAIN outputs = 1 .. Len(outputs)
    BY <1>1, KnownTypes
  <2> QED
    BY <1>1, <2>1, KnownTypes, AppendElements
<1>3. Pending' \subseteq Pending
  BY <1>1, <1>2 DEF Pending
<1>4. \A j, k \in DOMAIN inside' : j < k => inside'[j].id < inside'[k].id
  <2> SUFFICES ASSUME NEW j \in DOMAIN inside', NEW k \in DOMAIN inside', j < k
               PROVE  inside'[j].id < inside'[k].id
    OBVIOUS
  <2>1. j + 1 < k + 1 /\ j + 1 \in DOMAIN inside /\ k + 1 \in DOMAIN inside
    BY <1>1
  <2> QED
    BY <1>1, <2>1 DEF QueueInv
<1>5. \A k \in DOMAIN inside' : inside[1].id < inside'[k].id
  <2> SUFFICES ASSUME NEW k \in DOMAIN inside' PROVE inside[1].id < inside'[k].id
    OBVIOUS
  <2>1. 1 < k + 1 /\ k + 1 \in DOMAIN inside
    BY <1>1
  <2> QED
    BY <1>1, <2>1 DEF QueueInv
<1>6. \A j \in DOMAIN outputs', k \in DOMAIN inside' : outputs'[j].id < inside'[k].id
  BY <1>1, <1>2, <1>5 DEF QueueInv
<1>7. \A j, k \in DOMAIN outputs' : j < k => outputs'[j].id < outputs'[k].id
  <2> SUFFICES ASSUME NEW j \in DOMAIN outputs', NEW k \in DOMAIN outputs', j < k
               PROVE  outputs'[j].id < outputs'[k].id
    OBVIOUS
  <2>1. j \in DOMAIN outputs /\ outputs'[j] = outputs[j]
    <3>1. DOMAIN outputs \subseteq Nat /\ Len(outputs) \in Nat
      BY KnownTypes
    <3>2. k <= Len(outputs) + 1
      <4>1. k \in DOMAIN outputs => k <= Len(outputs)
        BY KnownTypes
      <4> QED
        BY <1>2, <3>1, <4>1
    <3>3. j # Len(outputs) + 1
      <4>1. k \in Nat
        BY <1>2, <3>1
      <4> QED
        BY <3>1, <3>2, <4>1
    <3> QED
      BY <1>2, <3>3
  <2> QED
    BY <1>1, <1>2, <2>1 DEF QueueInv
<1>8. output'.at = "matching" =>
        /\ \A k \in DOMAIN outputs' : output'.frame.id < outputs'[k].id
        /\ \A k \in DOMAIN inside' : output'.frame.id < inside'[k].id
  BY <1>1, <1>2 DEF QueueInv
<1> QED
  BY <1>3, <1>4, <1>6, <1>7, <1>8 DEF QueueInv

\* Submit feeds the frame in hand.
LEMMA QueueFeeds ==
  ASSUME Inv, QueueInv, app \in InSubmit, app' \notin InSubmit,
         inside' = Append(inside, [id |-> submitted, time |-> time]),
         UNCHANGED <<outputs, output, submitted>>
  PROVE  QueueInv' /\ Pending' \subseteq Pending \cup Current
<1> DEFINE f == [id |-> submitted, time |-> time]
<1>1. Current = {f} /\ f.id = submitted /\ f \in Frame
  BY KnownTypes DEF Current
<1> HIDE DEF f
<1>2. \A k \in DOMAIN inside' :
        \/ k \in DOMAIN inside /\ inside'[k] = inside[k]
        \/ inside'[k] = f /\ k = Len(inside) + 1
  BY <1>1, KnownTypes, AppendElements DEF f
<1>3. Pending' \subseteq Pending \cup Current
  BY <1>1, <1>2 DEF Pending
<1>4. \A g \in Pending : g.id < submitted
  BY DEF QueueInv
<1>5. /\ \A k \in DOMAIN outputs : outputs[k] \in Pending
      /\ \A k \in DOMAIN inside : inside[k] \in Pending
      /\ output.at = "matching" => output.frame \in Pending
  BY DEF Pending
<1>6. \A j, k \in DOMAIN inside' : j < k => inside'[j].id < inside'[k].id
  <2> SUFFICES ASSUME NEW j \in DOMAIN inside', NEW k \in DOMAIN inside', j < k
               PROVE  inside'[j].id < inside'[k].id
    OBVIOUS
  <2>1. j \in DOMAIN inside /\ inside'[j] = inside[j]
    <3>1. /\ DOMAIN inside = 1 .. Len(inside) /\ Len(inside) \in Nat
          /\ DOMAIN inside' = 1 .. Len(inside) + 1
      BY <1>1, KnownTypes DEF f
    <3>2. j # Len(inside) + 1
      BY <3>1
    <3> QED
      BY <1>2, <3>2
  <2> QED
    BY <1>1, <1>2, <1>4, <1>5, <2>1 DEF QueueInv
<1>7. \A j \in DOMAIN outputs', k \in DOMAIN inside' : outputs'[j].id < inside'[k].id
  BY <1>1, <1>2, <1>4, <1>5 DEF QueueInv
<1>8. output'.at = "matching" =>
        /\ \A k \in DOMAIN outputs' : output'.frame.id < outputs'[k].id
        /\ \A k \in DOMAIN inside' : output'.frame.id < inside'[k].id
  BY <1>1, <1>2, <1>4, <1>5 DEF QueueInv
<1>9. \A g \in Pending' : g.id <= submitted' /\ (app' \in InSubmit => g.id < submitted')
  BY <1>1, <1>3, <1>4, KnownTypes DEF InSubmit
<1>10. \A j, k \in DOMAIN outputs' : j < k => outputs'[j].id < outputs'[k].id
  BY DEF QueueInv
<1>11. QueueInv'
  BY <1>6, <1>7, <1>8, <1>9, <1>10 DEF QueueInv
<1> QED
  BY <1>3, <1>11

\* A step that leaves the queues alone, and the frame in hand or ends with it.
LEMMA QueueLeftAlone ==
  ASSUME QueueInv, UNCHANGED <<outputs, inside, submitted>>,
         output' = output \/ output'.at # "matching",
         app' \in InSubmit => app \in InSubmit
  PROVE  QueueInv' /\ Pending' \subseteq Pending
<1>1. Pending' \subseteq Pending
  BY DEF Pending
<1> QED
  BY <1>1 DEF QueueInv

QueueTimesInv == QueueInv /\ TimesInv /\ OutputMatchedInTime

\* A step that makes no frame known, and gives up no record.
LEMMA TimesKept ==
  ASSUME Inv, TimesInv,
         UNCHANGED <<submitted, time, submitTimes>>, timesGrow' => timesGrow,
         Pending' \subseteq Pending \cup (IF app = "feeding" THEN Current ELSE {}),
         app' \in InSubmit => app \in InSubmit /\ (app = "recording" => app' = "recording")
  PROVE  TimesInv'
<1> SUFFICES ASSUME timesGrow' PROVE TimesInv'
  BY DEF TimesInv
<1>1. InSubmit' = InSubmit /\ MaxTracked \in Nat
  BY ConstantFacts DEF InSubmit
<1>2. app = "feeding" => app \in InSubmit \ {"recording"}
  BY DEF InSubmit
<1>3. Current' \subseteq Current
  BY DEF Current, InSubmit
<1>4. Known' \subseteq Known
  BY <1>3 DEF Known
<1>5. \A f \in Pending' : f \in submitTimes' \/ submitted' - f.id >= MaxTracked
  BY <1>2 DEF TimesInv
<1>6. app' \in InSubmit \ {"recording"} => Current' \subseteq submitTimes'
  BY <1>3 DEF TimesInv
<1> QED
  BY <1>1, <1>4, <1>5, <1>6 DEF TimesInv, Agree

\* A step that leaves the output alone, or is done with it.
LEMMA StampKept ==
  ASSUME Inv, OutputMatchedInTime, output' = output \/ output'.at # "sending",
         timesGrow' => timesGrow, submitted' = submitted \/ submitted' = submitted + 1
  PROVE  OutputMatchedInTime'
<1> SUFFICES ASSUME timesGrow', output'.at = "sending", output' = output
             PROVE  OutputMatchedInTime'
  BY DEF OutputMatchedInTime
<1>1. output \in OutputStates /\ submitted \in Nat /\ MaxTracked \in Nat
  BY ConstantFacts DEF Inv, TypeOK
<1>2. output.frame.id \in Nat
  <2>1. \A o \in OutputStates : o.at = "sending" => o.frame \in Frame
    BY DEF OutputStates, NoOutput
  <2>2. output.frame \in Frame
    BY <1>1, <2>1
  <2> QED
    BY <2>2, KnownTypes
<1> QED
  BY <1>1, <1>2 DEF OutputMatchedInTime

\* A record that is given up has been overtaken by as many as may be kept.
LEMMA EvictedOvertaken ==
  ASSUME NEW R, IsFiniteSet(R), R \subseteq Frame,
         \A f, g \in R : Agree(f, g), NEW n \in Nat, \A f \in R : f.id <= n,
         NEW f \in R, f \notin Evicted(R)
  PROVE  n - f.id >= MaxTracked
<1> DEFINE above == {r \in R : r.time >= f.time}
           number == [r \in above |-> r.id]
<1>1. \A r \in Frame : r.id \in Nat /\ r.time \in Nat
  BY ConstantFacts DEF Frame
<1>2. IsFiniteSet(above) /\ Cardinality(above) \in Nat
  BY FS_Subset, FS_CardinalityType
<1>3. Cardinality(above) > MaxTracked
  BY <1>2, ConstantFacts DEF Evicted
<1>4. \A r \in above : r.id \in f.id .. n
  <2> SUFFICES ASSUME NEW r \in above PROVE r.id \in f.id .. n
    OBVIOUS
  <2>1. ~ (r.time < f.time) /\ r.id \in Nat /\ f.id \in Nat
    BY <1>1
  <2>2. ~ (r.id < f.id)
    BY <2>1 DEF Agree
  <2> QED
    BY <2>1, <2>2
<1>5. \A r, s \in above : r.id = s.id => r = s
  <2> SUFFICES ASSUME NEW r \in above, NEW s \in above, r.id = s.id PROVE r = s
    OBVIOUS
  <2>1. r \in Frame /\ s \in Frame
    OBVIOUS
  <2>2. ~ (r.time < s.time) /\ ~ (s.time < r.time)
    BY <1>1, <2>1 DEF Agree
  <2>3. r.time = s.time
    BY <1>1, <2>1, <2>2
  <2> QED
    BY <2>1, <2>3 DEF Frame
<1>6. number \in Injection(above, f.id .. n)
  BY <1>4, <1>5 DEF Injection, IsInjective
<1>7. f.id \in Nat /\ f.id <= n
  BY <1>1
<1>8. IsFiniteSet(f.id .. n) /\ Cardinality(f.id .. n) = n - f.id + 1
  <2>1. f.id \in Int /\ n \in Int /\ ~ (f.id > n)
    BY <1>7
  <2> QED
    BY <2>1, FS_Interval
<1> HIDE DEF above, number
<1>9. Cardinality(above) <= n - f.id + 1
  BY <1>6, <1>8, FS_Injection
<1> QED
  BY <1>2, <1>3, <1>7, <1>9, ConstantFacts

\* A new frame has the next number and, while sample times grow, a later time than all.
LEMMA TimesSubmit ==
  ASSUME Inv, QueueTimesInv, SubmitFrame
  PROVE  QueueTimesInv'
<1> USE DEF frameVars, queueVars
<1>1. /\ app = "idle" /\ app' = "recording" /\ submitted' = submitted + 1
      /\ UNCHANGED <<submitTimes, output, inside, outputs>>
      /\ timesGrow' = (timesGrow /\ (submitted > 0 => time' > time))
  BY DEF SubmitFrame
<1>2. time' \in Nat
  <2>1. deliveryFrameRate \in Nat \ {0} /\ frameIndex \in Nat
    BY ConstantFacts DEF Inv, TypeOK
  <2> QED
    BY <2>1, SampleTime DEF SubmitFrame
<1>3. Pending' = Pending
  BY <1>1 DEF Pending
<1>4. \A f \in Frame : f.id \in Nat \ {0} /\ f.time \in Nat
  BY KnownTypes
<1>5. Pending \subseteq Frame /\ Known \subseteq Frame /\ submitted \in Nat /\ time \in Nat
  BY KnownTypes
<1>6. QueueInv'
  <2>1. \A f \in Pending' : f.id <= submitted' /\ f.id < submitted'
    BY <1>1, <1>3, <1>4, <1>5 DEF QueueTimesInv, QueueInv
  <2> QED
    BY <1>1, <2>1 DEF QueueTimesInv, QueueInv
<1>7. OutputMatchedInTime'
  BY <1>1, StampKept DEF QueueTimesInv
<1>8. ASSUME timesGrow' PROVE TimesInv'
  <2> DEFINE f == [id |-> submitted', time |-> time']
  <2>1. timesGrow /\ (submitted > 0 => time' > time)
    BY <1>1, <1>8
  <2>2. Current = {} /\ Current' = {f} /\ f.id = submitted' /\ f.time = time'
    BY <1>1 DEF Current, InSubmit
  <2> HIDE DEF f
  <2>3. \A g \in Known : g.id <= submitted /\ g.time <= time /\ g.id < f.id /\ g.time < f.time
    <3> SUFFICES ASSUME NEW g \in Known
                 PROVE  g.id <= submitted /\ g.time <= time /\ g.id < f.id /\ g.time < f.time
      OBVIOUS
    <3>1. g.id <= submitted /\ g.time <= time
      BY <2>1 DEF QueueTimesInv, TimesInv
    <3>2. g.id \in Nat \ {0} /\ g.time \in Nat
      BY <1>4, <1>5
    <3>3. submitted > 0
      BY <1>5, <3>1, <3>2
    <3> QED
      BY <1>1, <1>2, <1>5, <2>1, <2>2, <3>1, <3>2, <3>3
  <2>4. Known' = Known \cup {f}
    BY <1>1, <1>3, <2>2 DEF Known
  <2>5. \A g \in Known' : g.id <= submitted' /\ g.time <= time'
    <3>1. \A g \in Known : g.id <= submitted' /\ g.time <= time'
      BY <1>1, <1>2, <1>4, <1>5, <2>2, <2>3
    <3> QED
      BY <1>1, <1>2, <1>5, <2>2, <2>4, <3>1
  <2>6. \A g, h \in Known' : Agree(g, h)
    <3>1. \A g, h \in Known : Agree(g, h)
      BY <2>1 DEF QueueTimesInv, TimesInv
    <3>2. \A g \in Known : Agree(g, f) /\ Agree(f, g)
      <4> SUFFICES ASSUME NEW g \in Known PROVE Agree(g, f) /\ Agree(f, g)
        OBVIOUS
      <4>1. g.id \in Nat /\ g.time \in Nat /\ f.id \in Nat /\ f.time \in Nat
        BY <1>1, <1>2, <1>4, <1>5, <2>2
      <4> QED
        BY <2>3, <4>1 DEF Agree
    <3>3. Agree(f, f)
      BY <1>1, <1>2, <1>5, <2>2 DEF Agree
    <3> QED
      BY <2>4, <3>1, <3>2, <3>3
  <2>7. \A g \in Pending' : g \in submitTimes' \/ submitted' - g.id >= MaxTracked
    <3> SUFFICES ASSUME NEW g \in Pending PROVE g \in submitTimes \/ submitted' - g.id >= MaxTracked
      BY <1>1, <1>3
    <3>1. g \in submitTimes \/ submitted - g.id >= MaxTracked
      BY <2>1 DEF QueueTimesInv, TimesInv
    <3>2. g.id \in Nat
      BY <1>4, <1>5
    <3> QED
      BY <1>1, <1>5, <3>1, <3>2, ConstantFacts
  <2> QED
    BY <1>1, <2>5, <2>6, <2>7 DEF TimesInv, Agree
<1>9. ~timesGrow' => TimesInv'
  BY DEF TimesInv
<1> QED
  BY <1>6, <1>7, <1>8, <1>9 DEF QueueTimesInv

\* The frame in hand gets its record, and the oldest records may go.
LEMMA TimesRecord ==
  ASSUME Inv, IsFiniteSet(submitTimes), QueueTimesInv, RecordSubmit
  PROVE  QueueTimesInv'
<1> USE DEF frameVars, queueVars
<1>1. /\ app = "recording" /\ app' \in {"asking", "feeding"}
      /\ submitTimes' = Evicted(Recorded)
      /\ UNCHANGED <<submitted, time, output, inside, outputs, timesGrow>>
  BY DEF RecordSubmit
<1>2. app \in InSubmit /\ app' \in InSubmit /\ InSubmit' = InSubmit
  BY <1>1 DEF InSubmit
<1>3. QueueInv' /\ Pending' = Pending
  BY <1>1, <1>2, QueueLeftAlone DEF QueueTimesInv, Pending
<1>4. OutputMatchedInTime'
  BY <1>1, StampKept DEF QueueTimesInv
<1>5. ASSUME timesGrow PROVE TimesInv'
  <2> DEFINE f == [id |-> submitted, time |-> time]
  <2>1. Current = {f} /\ Current' = {f} /\ f.id = submitted /\ f.time = time
    BY <1>1, <1>2 DEF Current
  <2>2. Recorded = {r \in submitTimes : r.time # time} \cup {f}
    BY DEF Recorded
  <2> HIDE DEF f
  <2>3. /\ Recorded \subseteq Known /\ Recorded \subseteq Frame /\ f \in Recorded
        /\ \A g, h \in Recorded : Agree(g, h)
        /\ \A g \in Recorded : g.id <= submitted
    <3>1. Recorded \subseteq Known /\ f \in Recorded
      BY <2>1, <2>2 DEF Known
    <3> QED
      BY <1>5, <3>1, KnownTypes DEF QueueTimesInv, TimesInv
  <2>4. IsFiniteSet(Recorded)
    <3>1. IsFiniteSet({r \in submitTimes : r.time # time})
      BY FS_Subset
    <3> QED
      BY <2>2, <3>1, FS_AddElement
  <2>5. submitted \in Nat
    BY KnownTypes
  <2>6. \A g \in Recorded : g \in submitTimes' \/ submitted - g.id >= MaxTracked
    BY <1>1, <2>3, <2>4, <2>5, EvictedOvertaken
  <2>7. Known' \subseteq Known
    BY <1>1, <1>3, <2>1, <2>3 DEF Known, Evicted
  <2>8. \A g \in Pending' : g \in submitTimes' \/ submitted' - g.id >= MaxTracked
    <3> SUFFICES ASSUME NEW g \in Pending, g \in submitTimes PROVE g \in Recorded
      BY <1>1, <1>3, <1>5, <2>6 DEF QueueTimesInv, TimesInv
    <3>1. g.id < submitted
      BY <1>2 DEF QueueTimesInv, QueueInv
    <3>2. g \in Known /\ f \in Known
      BY <2>1 DEF Known
    <3>3. g.time < time
      BY <1>5, <2>1, <3>1, <3>2 DEF QueueTimesInv, TimesInv, Agree
    <3>4. g.time \in Nat /\ time \in Nat
      BY <3>2, KnownTypes
    <3>5. g.time # time
      BY <3>3, <3>4
    <3> QED
      BY <2>2, <3>5
  <2>9. f \in submitTimes'
    <3>1. ~ (submitted - submitted >= MaxTracked)
      BY <2>5, LimitsAssumption
    <3> QED
      BY <2>1, <2>3, <2>6, <3>1
  <2> QED
    BY <1>1, <1>2, <1>5, <2>1, <2>7, <2>8, <2>9 DEF QueueTimesInv, TimesInv, Agree
<1>6. ~timesGrow => TimesInv'
  BY <1>1 DEF TimesInv
<1> QED
  BY <1>3, <1>4, <1>5, <1>6 DEF QueueTimesInv

\* An output meets its own record, or none; the records it takes with it are of frames
\* before it.
LEMMA TimesMatch ==
  ASSUME Inv, QueueTimesInv, MatchOutput
  PROVE  QueueTimesInv'
<1> USE DEF frameVars, queueVars, historyVars
<1> DEFINE f == output.frame
           found == {r \in submitTimes : r.time = f.time}
<1>1. /\ output.at = "matching" /\ output'.at = "sending" /\ output'.frame = f
      /\ UNCHANGED <<app, submitted, time, inside, outputs, timesGrow>>
      /\ \/ found = {} /\ output'.stamp = Unmatched /\ submitTimes' = submitTimes
         \/ /\ \E r \in found : output'.stamp = r.id
            /\ submitTimes' = {r \in submitTimes : r.time > f.time}
  BY DEF MatchOutput, Sending
<1>2. InSubmit' = InSubmit
  BY DEF InSubmit
<1>3. QueueInv' /\ Pending' \subseteq Pending
  BY <1>1, QueueLeftAlone DEF QueueTimesInv
<1>4. f \in Pending /\ f \in Known
  BY <1>1 DEF Pending, Known
<1>5. CASE timesGrow
  <2>1. \A g \in Known : /\ Agree(f, g) /\ Agree(g, f)
                         /\ g.id \in Nat /\ g.time \in Nat
    BY <1>4, <1>5, KnownTypes DEF QueueTimesInv, TimesInv
  <2>2. f.id \in Nat /\ f.time \in Nat
    BY <1>4, <2>1
  <2>3. \A r \in found : r.id = f.id
    <3> SUFFICES ASSUME NEW r \in found PROVE r.id = f.id
      OBVIOUS
    <3>1. r \in Known /\ r.time = f.time
      BY DEF Known
    <3>2. ~ (r.id < f.id) /\ ~ (f.id < r.id)
      BY <2>1, <2>2, <3>1 DEF Agree
    <3> QED
      BY <2>1, <2>2, <3>1, <3>2
  <2>4. found = {} => submitted - f.id >= MaxTracked
    BY <1>4, <1>5 DEF QueueTimesInv, TimesInv
  <2>5. OutputMatchedInTime'
    BY <1>1, <2>3, <2>4 DEF OutputMatchedInTime
  <2>6. submitTimes' \subseteq submitTimes
    BY <1>1
  <2>7. Current' = Current /\ Known' \subseteq Known
    BY <1>1, <1>2, <1>3, <2>6 DEF Current, Known
  <2>8. \A g \in submitTimes : f.id < g.id => g \in submitTimes'
    <3> SUFFICES ASSUME NEW g \in submitTimes, f.id < g.id PROVE g \in submitTimes'
      OBVIOUS
    <3>1. g \in Known
      BY DEF Known
    <3>2. f.time < g.time
      BY <2>1, <3>1 DEF Agree
    <3>3. g.time > f.time
      BY <2>1, <2>2, <3>1, <3>2
    <3> QED
      BY <1>1, <3>3
  <2>9. \A g \in Pending' : f.id < g.id
    <3>1. Pending' = {outputs[k] : k \in DOMAIN outputs} \cup {inside[k] : k \in DOMAIN inside}
      BY <1>1 DEF Pending
    <3> QED
      BY <1>1, <3>1 DEF QueueTimesInv, QueueInv
  <2>10. \A g \in Pending' : g \in submitTimes' \/ submitted' - g.id >= MaxTracked
    BY <1>1, <1>3, <1>5, <2>8, <2>9 DEF QueueTimesInv, TimesInv
  <2>11. app' \in InSubmit \ {"recording"} => Current' \subseteq submitTimes'
    <3> SUFFICES ASSUME app \in InSubmit \ {"recording"}, NEW g \in Current
                 PROVE  g \in submitTimes'
      BY <1>1, <2>7
    <3>1. g \in submitTimes
      BY <1>5 DEF QueueTimesInv, TimesInv
    <3>2. g.id = submitted
      BY DEF Current
    <3>3. f.id < submitted
      BY <1>4 DEF QueueTimesInv, QueueInv
    <3> QED
      BY <2>8, <3>1, <3>2, <3>3
  <2>12. TimesInv'
    BY <1>1, <1>2, <1>5, <2>7, <2>10, <2>11 DEF QueueTimesInv, TimesInv, Agree
  <2> QED
    BY <1>3, <2>5, <2>12 DEF QueueTimesInv
<1>6. CASE ~timesGrow
  BY <1>1, <1>3, <1>6 DEF QueueTimesInv, TimesInv, OutputMatchedInTime
<1> QED
  BY <1>5, <1>6

\* Every other step leaves frames and records as they are, or moves a frame on.
LEMMA TimesOther ==
  ASSUME Inv, QueueTimesInv, QueueInv',
         Pending' \subseteq Pending \cup (IF app = "feeding" THEN Current ELSE {}),
         UNCHANGED <<submitted, time, submitTimes, timesGrow>>,
         output' = output \/ output'.at # "sending",
         app' \in InSubmit => app \in InSubmit /\ (app = "recording" => app' = "recording")
  PROVE  QueueTimesInv'
<1>1. TimesInv'
  BY TimesKept DEF QueueTimesInv
<1>2. OutputMatchedInTime'
  BY StampKept DEF QueueTimesInv
<1> QED
  BY <1>1, <1>2 DEF QueueTimesInv

LEMMA TimesStep ==
  ASSUME Inv, IsFiniteSet(submitTimes), QueueTimesInv, [Next]_vars
  PROVE  QueueTimesInv'
<1> USE DEF frameVars, queueVars, historyVars
<1>0. QueueInv /\ InSubmit' = InSubmit
  BY DEF QueueTimesInv, InSubmit
<1>1. CASE \/ UNCHANGED vars \/ ChangeRate \/ RequestKeyframe \/ SetBitrate \/ Drain
           \/ AskForInput \/ FinishDrain
  <2>1. /\ UNCHANGED <<output, outputs, inside, submitted, time, submitTimes, timesGrow>>
        /\ app' \in InSubmit => app' = app
    BY <1>1 DEF vars, ChangeRate, RequestKeyframe, SetBitrate, Drain, AskForInput, FinishDrain,
                InSubmit
  <2>2. QueueInv' /\ Pending' \subseteq Pending
    BY <1>0, <2>1, QueueLeftAlone
  <2> QED
    BY <2>1, <2>2, TimesOther
<1>2. CASE SubmitFrame
  BY <1>2, TimesSubmit
<1>3. CASE RecordSubmit
  BY <1>3, TimesRecord
<1>4. CASE \/ TakeCredit \/ AwaitNeedInput \/ TakeCreditAfterWait \/ DropFrame
           \/ ProcessInputFails
  <2>1. /\ UNCHANGED <<output, outputs, inside, submitted, time, submitTimes, timesGrow>>
        /\ app \in InSubmit \ {"recording"} /\ app' # "recording"
    BY <1>4 DEF TakeCredit, AwaitNeedInput, TakeCreditAfterWait, DropFrame, ProcessInputFails,
                EndsFrame, InSubmit
  <2>2. QueueInv' /\ Pending' \subseteq Pending
    BY <1>0, <2>1, QueueLeftAlone
  <2> QED
    BY <2>1, <2>2, TimesOther
<1>5. CASE ProcessInput
  <2>1. /\ UNCHANGED <<output, outputs, submitted, time, submitTimes, timesGrow>>
        /\ inside' = Append(inside, [id |-> submitted, time |-> time])
        /\ app = "feeding" /\ app' \in {"idle", "pumping"}
    BY <1>5 DEF ProcessInput, EndsFrame
  <2>2. app \in InSubmit /\ app' \notin InSubmit
    BY <2>1 DEF InSubmit
  <2>3. QueueInv' /\ Pending' \subseteq Pending \cup Current
    BY <1>0, <2>1, <2>2, QueueFeeds
  <2> QED
    BY <2>1, <2>2, <2>3, TimesOther
<1>6. CASE PumpEnds \/ AwaitDrain \/ DrainReturns \/ Shutdown \/ Join
  <2>1. /\ UNCHANGED <<output, outputs, inside, submitted, time, submitTimes, timesGrow>>
        /\ app' \notin InSubmit
    BY <1>6 DEF PumpEnds, EndsFrame, AwaitDrain, DrainReturns, Shutdown, Join, InSubmit
  <2>2. QueueInv' /\ Pending' \subseteq Pending
    BY <1>0, <2>1, QueueLeftAlone
  <2> QED
    BY <2>1, <2>2, TimesOther
<1>7. CASE Pump \/ HandleHaveOutput
  <2>1. /\ outputs # <<>> /\ (TakesOutput \/ LosesOutput)
        /\ UNCHANGED <<app, inside, submitted, time, submitTimes, timesGrow>>
    BY <1>7 DEF Pump, HandleHaveOutput
  <2>2. QueueInv' /\ Pending' \subseteq Pending
    BY <1>0, <2>1, QueueTakes
  <2>3. output' = output \/ output'.at # "sending"
    BY <2>1 DEF TakesOutput, LosesOutput, Matching
  <2> QED
    BY <2>1, <2>2, <2>3, TimesOther
<1>8. CASE MatchOutput
  BY <1>8, TimesMatch
<1>9. CASE SinkReturns
  <2>1. /\ UNCHANGED <<app, outputs, inside, submitted, time, submitTimes, timesGrow>>
        /\ output'.at \notin {"matching", "sending"}
    BY <1>9 DEF SinkReturns, NoOutput
  <2>2. QueueInv' /\ Pending' \subseteq Pending
    BY <1>0, <2>1, QueueLeftAlone
  <2> QED
    BY <2>1, <2>2, TimesOther
<1>10. CASE HandleNeedInput \/ HandleDrainComplete \/ HandleOther \/ GetEventFails
  <2>1. UNCHANGED <<app, output, outputs, inside, submitted, time, submitTimes, timesGrow>>
    BY <1>10 DEF HandleNeedInput, HandleDrainComplete, HandleOther, GetEventFails
  <2>2. QueueInv' /\ Pending' \subseteq Pending
    BY <1>0, <2>1, QueueLeftAlone
  <2> QED
    BY <2>1, <2>2, TimesOther
<1>11. CASE Encode \/ Discard
  <2>1. /\ inside # <<>> /\ inside' = Tail(inside)
        /\ outputs' = outputs \/ outputs' = Append(outputs, Head(inside))
        /\ UNCHANGED <<app, output, submitted, time, submitTimes, timesGrow>>
    BY <1>11 DEF Encode, Discard
  <2>2. QueueInv' /\ Pending' \subseteq Pending
    BY <1>0, <2>1, QueueEncodes
  <2> QED
    BY <2>1, <2>2, TimesOther
<1> QED
  BY <1>1, <1>2, <1>3, <1>4, <1>5, <1>6, <1>7, <1>8, <1>9, <1>10, <1>11
     DEF Next, Session, InCall, Outputs, EventThread, Transform

LEMMA TimesInit == Init => QueueTimesInv
<1> SUFFICES ASSUME Init PROVE QueueTimesInv
  OBVIOUS
<1>1. /\ DOMAIN outputs = {} /\ DOMAIN inside = {} /\ submitTimes = {}
      /\ output.at = "none" /\ app = "idle"
  BY DEF Init, NoOutput
<1>2. Pending = {} /\ Current = {} /\ Known = {}
  BY <1>1 DEF Pending, Current, Known, InSubmit
<1> QED
  BY <1>1, <1>2 DEF QueueTimesInv, QueueInv, TimesInv, OutputMatchedInTime, InSubmit

\* As long as sample times grow no frame goes out with another frame's index, capture time
\* or pose, whatever the encoder discards and however late its outputs come.
THEOREM OutputsMatched == Spec => []OutputMatchedInTime
<1>1. QueueTimesInv => OutputMatchedInTime
  BY DEF QueueTimesInv
<1>2. RecordsInv => IsFiniteSet(submitTimes)
  BY DEF RecordsInv
<1>3. Inv /\ RecordsInv /\ QueueTimesInv /\ [Next]_vars => (Inv /\ RecordsInv /\ QueueTimesInv)'
  BY <1>2, TypeStep, RecordsStep, TimesStep
<1> QED
  BY <1>1, <1>3, TypeInit, RecordsInit, TimesInit, PTL DEF Spec
=============================================================================
