---------------------------- MODULE XrInput_proof ----------------------------
(***************************************************************************)
(* Proofs about XrInput: what an application is told of its controllers    *)
(* stays what it is between two syncs, what is said to have changed has,   *)
(* and a pull of a trigger is one shot, with the aim of its own sample.    *)
(***************************************************************************)
EXTENDS XrInput, FiniteSetTheorems, TLAPS

-----------------------------------------------------------------------------
(* What a query returns.                                                   *)

\* The parts of a snapshot.
LEMMA FrameTyped ==
  ASSUME NEW f \in Frames
  PROVE  f.number \in 0 .. MaxSamples /\ f.controllers \in [Hands -> ControllerInput]
  <1>1. f.number \in 0 .. MaxSamples /\ f.controllers \in Samples \cup {NoSample.controllers}
    BY DEF Frames
  <1>2. Idle \in ControllerInput
    BY DEF Idle, ControllerInput, Levels, Pulled
  <1>3. NoSample.controllers \in [Hands -> ControllerInput]
    BY <1>2 DEF NoSample
  <1> QED
    BY <1>1, <1>3, SampleAssumption

\* A query reads a level from a controller, whatever it is bound to.
LEMMA ValueTyped ==
  ASSUME NEW t, NEW c \in ControllerInput, NEW b
  PROVE  ValueOf(t, c, b) \in Levels
  BY DEF ValueOf, AxisValue, ButtonDown, ControllerInput, Levels, Pulled

\* A query that can be answered is answered from a hand that can answer it.
LEMMA ResolvedHand ==
  ASSUME NEW b, NEW s, NEW f, Resolving(b, s, f) # {}
  PROVE  ResolveAction(b, s, f) \in Resolving(b, s, f)
  <1>1. Resolving(b, s, f) \subseteq 0 .. 1
    BY DEF Resolving, Hands
  <1>2. \E h \in Resolving(b, s, f) : \A g \in Resolving(b, s, f) : h <= g
    <2>1. CASE 0 \in Resolving(b, s, f)
      BY <2>1, <1>1
    <2>2. CASE 0 \notin Resolving(b, s, f)
      <3>1. Resolving(b, s, f) = {1}
        BY <2>2, <1>1
      <3> QED
        BY <3>1
    <2> QED
      BY <2>1, <2>2
  <1> QED
    BY <1>2 DEF ResolveAction

\* The answer of a query.
LEMMA AnswerTyped ==
  ASSUME NEW t, NEW b, NEW s, NEW f \in Frames, NEW p \in Frames
  PROVE  GetActionState(t, b, s, f, p) \in Answers
  <1>1. CASE Resolving(b, s, f) = {}
    BY <1>1 DEF GetActionState, Inactive, Answers, Pulled
  <1>2. CASE Resolving(b, s, f) # {}
    <2> DEFINE h == ResolveAction(b, s, f)
    <2>1. h \in Hands
      BY <1>2, ResolvedHand DEF Resolving
    <2>2. f.controllers[h] \in ControllerInput /\ p.controllers[h] \in ControllerInput
      BY <2>1, FrameTyped
    <2> HIDE DEF h
    <2>3. ValueOf(t, f.controllers[h], b[h]) \in Levels
      BY <2>2, ValueTyped
    <2> QED
      BY <1>2, <2>3 DEF GetActionState, h, Inactive, Answers, Levels, Pulled
  <1> QED
    BY <1>1, <1>2

\* Before the first sample no hand can answer.
LEMMA NoSampleAnswers ==
  ASSUME NEW t, NEW b, NEW s, NEW p
  PROVE  GetActionState(t, b, s, NoSample, p) = Inactive
  <1>1. Resolving(b, s, NoSample) = {}
    BY DEF Resolving, NoSample, Idle
  <1> QED
    BY <1>1 DEF GetActionState

\* A query about one hand is answered from that hand.
LEMMA OneHand ==
  ASSUME NEW t, NEW b, NEW s \in Hands, NEW f, NEW p, GetActionState(t, b, s, f, p).active
  PROVE  /\ GetActionState(t, b, s, f, p).current = ValueOf(t, f.controllers[s], b[s])
         /\ GetActionState(t, b, s, f, p).changed =
              (ValueOf(t, f.controllers[s], b[s]) # ValueOf(t, p.controllers[s], b[s]))
  <1>1. Resolving(b, s, f) # {}
    BY DEF GetActionState, Inactive
  <1>2. \A g \in Resolving(b, s, f) : g = s
    BY DEF Resolving, AnyHand, Hands
  <1>3. ResolveAction(b, s, f) = s
    BY <1>1, <1>2, ResolvedHand
  <1> QED
    BY <1>1, <1>3 DEF GetActionState, Inactive

\* What the range reads of a trigger is the newest sample's.
LEMMA ReadsTheFrame ==
  ASSUME NEW h \in Hands, TypeOK, bindings = [g \in Hands |-> "Trigger"]
  PROVE  Read(h) = Level(frame.controllers[h])
  <1>1. frame.controllers[h] \in ControllerInput
    BY FrameTyped DEF TypeOK, SampleType
  <1>2. CASE ~frame.controllers[h].active
    <2>1. Resolving(bindings, h, frame) = {}
      BY <1>2 DEF Resolving, AnyHand, Hands
    <2> QED
      BY <1>2, <2>1 DEF Read, GetActionState, Inactive, Level
  <1>3. CASE frame.controllers[h].active
    <2>1. h \in Resolving(bindings, h, frame)
      BY <1>3 DEF Resolving
    <2>2. ResolveAction(bindings, h, frame) = h
      BY <2>1, ResolvedHand DEF Resolving, AnyHand, Hands
    <2> QED
      BY <1>3, <2>1, <2>2 DEF Read, GetActionState, ValueOf, AxisValue, Level
  <1> QED
    BY <1>2, <1>3

\* The level of a controller is a level.
LEMMA LevelTyped ==
  ASSUME NEW c \in ControllerInput
  PROVE  Level(c) \in Levels
  BY DEF Level, ControllerInput, Levels, Pulled

-----------------------------------------------------------------------------
(* The inductive invariant.                                                *)

\* The application's own variables stay typed.
LEMMA TitleTypeStep ==
  ASSUME TypeOK, [Next]_vars
  PROVE  TitleType'
  <1> USE DEF TypeOK, TitleType
  <1>1. CASE SuggestInteractionProfileBindings
    <2>1. PICK u \in {"/user/hand/left", "/user/hand/right", "/user/gamepad"}, c \in Components :
            bindings' = Suggested(bindings, u, c)
      BY <1>1 DEF SuggestInteractionProfileBindings
    <2>2. bindings' \in [Hands -> Bindings]
      BY <2>1 DEF Suggested, BindingFromPath, Bindings
    <2> QED
      BY <1>1, <2>2 DEF SuggestInteractionProfileBindings, saidVars
  <1>2. CASE AttachSessionActionSets
    BY <1>2 DEF AttachSessionActionSets, titleVars, saidVars, clientVars, syncVars,
         handVars, gameVars, rangeVars
  <1>3. CASE TitleSyncs
    <2>1. NotAsked \in Answers
      BY DEF NotAsked, Answers, Pulled
    <2> QED
      BY <1>3, <2>1 DEF TitleSyncs, titleVars
  <1>4. CASE TitleAsks
    <2>1. said' \in Answers
      BY <1>4, AnswerTyped DEF TitleAsks, SampleType
    <2> QED
      BY <1>4, <2>1 DEF TitleAsks, titleVars
  <1>5. CASE CreateActions
    <2>1. bindings' \in [Hands -> Bindings]
      BY <1>5 DEF CreateActions, Suggested, BindingFromPath, Bindings
    <2> QED
      BY <1>5, <2>1 DEF CreateActions, saidVars
  <1>6. CASE SyncInput
    BY <1>6 DEF SyncInput, SyncActions, After, titleVars, saidVars, clientVars, syncVars,
         handVars, gameVars, rangeVars
  <1>7. CASE UpdateGame
    BY <1>7 DEF UpdateGame, After, titleVars, saidVars, clientVars, syncVars, handVars,
         gameVars, rangeVars
  <1>8. CASE WaitFrame
    BY <1>8 DEF WaitFrame, PollForClient, PollPose, After, titleVars, saidVars,
         clientVars, syncVars, handVars, gameVars, rangeVars
  <1>9. CASE ClientComes
    BY <1>9 DEF ClientComes, titleVars, saidVars, clientVars, syncVars, handVars,
         gameVars, rangeVars
  <1>10. CASE ClientGoes
    BY <1>10 DEF ClientGoes, titleVars, saidVars, clientVars, syncVars, handVars,
         gameVars, rangeVars
  <1>11. CASE UNCHANGED vars
    BY <1>11 DEF vars
  <1> QED
    BY <1>1, <1>2, <1>3, <1>4, <1>5, <1>6, <1>7, <1>8, <1>9, <1>10, <1>11
    DEF Next, TitleNext, RangeNext

\* What comes from the client stays typed.
LEMMA SampleTypeStep ==
  ASSUME TypeOK, [Next]_vars
  PROVE  SampleType'
  <1> USE DEF TypeOK, SampleType
  <1>1. CASE SuggestInteractionProfileBindings
    BY <1>1 DEF SuggestInteractionProfileBindings, titleVars, saidVars, clientVars,
         syncVars, handVars, gameVars, rangeVars
  <1>2. CASE AttachSessionActionSets
    BY <1>2 DEF AttachSessionActionSets, titleVars, saidVars, clientVars, syncVars,
         handVars, gameVars, rangeVars
  <1>3. CASE TitleSyncs
    BY <1>3 DEF TitleSyncs, SyncActions, titleVars, saidVars, clientVars, syncVars,
         handVars, gameVars, rangeVars
  <1>4. CASE TitleAsks
    BY <1>4 DEF TitleAsks, titleVars, saidVars, clientVars, syncVars, handVars, gameVars,
         rangeVars
  <1>5. CASE CreateActions
    BY <1>5 DEF CreateActions, titleVars, saidVars, clientVars, syncVars, handVars,
         gameVars, rangeVars
  <1>6. CASE SyncInput
    BY <1>6 DEF SyncInput, SyncActions, After, titleVars, saidVars, clientVars, syncVars,
         handVars, gameVars, rangeVars
  <1>7. CASE UpdateGame
    <2>1. lowest' \in [Hands -> Levels]
      BY <1>7 DEF UpdateGame, Levels, Pulled
    <2> QED
      BY <1>7, <2>1 DEF UpdateGame, clientVars, syncVars
  <1>8. CASE WaitFrame
    <2>1. clientConnected' \in BOOLEAN
      BY <1>8, Zenon DEF WaitFrame, PollForClient
    <2>2. frame' \in Frames /\ lowest' \in [Hands -> Levels]
      <3>1. CASE UNCHANGED <<frame, lowest>>
        BY <3>1
      <3>2. ASSUME NEW s \in Samples, frame.number < MaxSamples,
                   frame' = [number |-> frame.number + 1, controllers |-> s],
                   lowest' = [h \in Hands |-> IF Level(s[h]) < lowest[h] THEN Level(s[h])
                                                                       ELSE lowest[h]]
            PROVE  frame' \in Frames /\ lowest' \in [Hands -> Levels]
        <4>1. frame.number \in 0 .. MaxSamples
          BY FrameTyped
        <4>2. frame' \in Frames
          BY <3>2, <4>1, MaxSamplesAssumption DEF Frames
        <4>3. \A h \in Hands : Level(s[h]) \in Levels
          BY LevelTyped, SampleAssumption
        <4> QED
          BY <3>2, <4>2, <4>3
      <3> QED
        BY <1>8, <3>1, <3>2 DEF WaitFrame, PollPose
    <2> QED
      BY <1>8, <2>1, <2>2 DEF WaitFrame, syncVars
  <1>9. CASE ClientComes
    BY <1>9 DEF ClientComes, titleVars, saidVars, clientVars, syncVars, handVars,
         gameVars, rangeVars
  <1>10. CASE ClientGoes
    BY <1>10 DEF ClientGoes, titleVars, saidVars, clientVars, syncVars, handVars,
         gameVars, rangeVars
  <1>11. CASE UNCHANGED vars
    BY <1>11 DEF vars
  <1> QED
    BY <1>1, <1>2, <1>3, <1>4, <1>5, <1>6, <1>7, <1>8, <1>9, <1>10, <1>11
    DEF Next, TitleNext, RangeNext

\* The range's variables stay typed.
LEMMA RangeTypeStep ==
  ASSUME TypeOK, [Next]_vars
  PROVE  RangeType'
  <1> USE DEF TypeOK, RangeType
  <1>1. CASE SuggestInteractionProfileBindings
    BY <1>1 DEF SuggestInteractionProfileBindings, titleVars, saidVars, clientVars,
         syncVars, handVars, gameVars, rangeVars
  <1>2. CASE AttachSessionActionSets
    BY <1>2 DEF AttachSessionActionSets, titleVars, saidVars, clientVars, syncVars,
         handVars, gameVars, rangeVars
  <1>3. CASE TitleSyncs
    BY <1>3 DEF TitleSyncs, SyncActions, titleVars, saidVars, clientVars, syncVars,
         handVars, gameVars, rangeVars
  <1>4. CASE TitleAsks
    BY <1>4 DEF TitleAsks, titleVars, saidVars, clientVars, syncVars, handVars, gameVars,
         rangeVars
  <1>5. CASE CreateActions
    BY <1>5 DEF CreateActions, titleVars, saidVars, clientVars, syncVars, handVars,
         gameVars, rangeVars
  <1>6. CASE SyncInput
    <2>1. frame.number \in 0 .. MaxSamples
      BY FrameTyped DEF SampleType
    <2>2. \A h \in Hands : Read(h) \in -1 .. Pulled
      BY AnswerTyped DEF SampleType, Read, Answers
    <2>3. \A h \in Hands : Read(h) \in Levels
      <3> TAKE h \in Hands
      <3>1. CASE Resolving(bindings, h, frame) = {}
        BY <3>1 DEF Read, GetActionState, Inactive, Levels, Pulled
      <3>2. CASE Resolving(bindings, h, frame) # {}
        <4> DEFINE g == ResolveAction(bindings, h, frame)
        <4>1. frame.controllers[g] \in ControllerInput
          BY <3>2, ResolvedHand, FrameTyped DEF SampleType, Resolving
        <4>2. ValueOf("float", frame.controllers[g], bindings[g]) \in Levels
          BY <4>1, ValueTyped
        <4> HIDE DEF g
        <4> QED
          BY <3>2, <4>2 DEF Read, GetActionState, g
      <3> QED
        BY <3>1, <3>2
    <2>4. trigger' \in [Hands -> Levels]
      BY <1>6, <2>3 DEF SyncInput
    <2>5. pendingShot' \in [Hands -> NoShot .. MaxSamples]
      BY <1>6, <2>1, MaxSamplesAssumption DEF SyncInput, NoShot
    <2>6. handPose' \in [Hands -> 0 .. MaxSamples]
      BY <1>6, <2>1, MaxSamplesAssumption DEF SyncInput, LocateSpace, NotLocated
    <2>7. handTracked' \in [Hands -> BOOLEAN]
      BY <1>6 DEF SyncInput
    <2> QED
      BY <1>6, <2>4, <2>5, <2>6, <2>7 DEF SyncInput, gameVars
  <1>7. CASE UpdateGame
    <2>1. PICK hit \in [Firing -> Targets \cup {Missed}] :
            LET killed == {hit[h] : h \in Firing} \ {Missed}
            IN  /\ score' = score + Cardinality({h \in Firing : hit[h] # Missed})
                /\ fade' = [t \in Targets |-> Faded(IF t \in killed THEN FadeSteps ELSE fade[t])]
      BY <1>7 DEF UpdateGame
    <2>2. score' \in Nat
      <3>1. IsFiniteSet(Hands)
        <4>1. 0 \in Int /\ 1 \in Int
          OBVIOUS
        <4> QED
          BY <4>1, FS_Interval DEF Hands
      <3>2. {h \in Firing : hit[h] # Missed} \subseteq Hands
        BY DEF Firing
      <3>3. Cardinality({h \in Firing : hit[h] # Missed}) \in Nat
        BY <3>1, <3>2, FS_Subset, FS_CardinalityType
      <3> HIDE DEF Firing
      <3> QED
        BY <2>1, <3>3
    <2>3. fade' \in [Targets -> 0 .. FadeSteps - 1]
      BY <2>1, FadeAssumption DEF Faded
    <2>4. shot' \in [Hands -> {NotFired} \cup Shots]
      <3>1. frame.number \in 0 .. MaxSamples
        BY FrameTyped DEF SampleType
      <3>2. \A h \in Firing : h \in Hands /\ Shot(h) \in Shots
        BY <3>1, MaxSamplesAssumption DEF Firing, Shot, Shots, SampleType, NoShot
      <3> QED
        BY <1>7, <3>2 DEF UpdateGame
    <2>5. pendingShot' \in [Hands -> NoShot .. MaxSamples]
      BY <1>7, MaxSamplesAssumption DEF UpdateGame, NoShot
    <2> QED
      BY <1>7, <2>2, <2>3, <2>4, <2>5 DEF UpdateGame
  <1>8. CASE WaitFrame
    BY <1>8 DEF WaitFrame, PollForClient, PollPose, After, titleVars, saidVars,
         clientVars, syncVars, handVars, gameVars, rangeVars
  <1>9. CASE ClientComes
    BY <1>9 DEF ClientComes, titleVars, saidVars, clientVars, syncVars, handVars,
         gameVars, rangeVars
  <1>10. CASE ClientGoes
    BY <1>10 DEF ClientGoes, titleVars, saidVars, clientVars, syncVars, handVars,
         gameVars, rangeVars
  <1>11. CASE UNCHANGED vars
    BY <1>11 DEF vars
  <1> QED
    BY <1>1, <1>2, <1>3, <1>4, <1>5, <1>6, <1>7, <1>8, <1>9, <1>10, <1>11
    DEF Next, TitleNext, RangeNext

\* The game's actions stay bound to the triggers.
LEMMA BoundStep ==
  ASSUME TypeOK, BoundInv, [Next]_vars
  PROVE  BoundInv'
  <1> USE DEF TypeOK, TitleType, BoundInv
  <1>1. CASE SuggestInteractionProfileBindings
    BY <1>1 DEF SuggestInteractionProfileBindings, titleVars, saidVars, clientVars,
         syncVars, handVars, gameVars, rangeVars
  <1>2. CASE AttachSessionActionSets
    BY <1>2 DEF AttachSessionActionSets, titleVars, saidVars, clientVars, syncVars,
         handVars, gameVars, rangeVars
  <1>3. CASE TitleSyncs
    BY <1>3 DEF TitleSyncs, SyncActions, titleVars, saidVars, clientVars, syncVars,
         handVars, gameVars, rangeVars
  <1>4. CASE TitleAsks
    BY <1>4 DEF TitleAsks, titleVars, saidVars, clientVars, syncVars, handVars, gameVars,
         rangeVars
  <1>5. CASE CreateActions
    <2>1. bindings' = [h \in Hands |-> "Trigger"]
      BY <1>5 DEF CreateActions, Suggested, BindingFromPath, HandsFromPath, Hands
    <2> QED
      BY <1>5, <2>1 DEF CreateActions
  <1>6. CASE SyncInput
    BY <1>6 DEF SyncInput, SyncActions, After, titleVars, saidVars, clientVars, syncVars,
         handVars, gameVars, rangeVars
  <1>7. CASE UpdateGame
    BY <1>7 DEF UpdateGame, After, titleVars, saidVars, clientVars, syncVars, handVars,
         gameVars, rangeVars
  <1>8. CASE WaitFrame
    BY <1>8 DEF WaitFrame, PollForClient, PollPose, After, titleVars, saidVars,
         clientVars, syncVars, handVars, gameVars, rangeVars
  <1>9. CASE ClientComes
    BY <1>9 DEF ClientComes, titleVars, saidVars, clientVars, syncVars, handVars,
         gameVars, rangeVars
  <1>10. CASE ClientGoes
    BY <1>10 DEF ClientGoes, titleVars, saidVars, clientVars, syncVars, handVars,
         gameVars, rangeVars
  <1>11. CASE UNCHANGED vars
    BY <1>11 DEF vars
  <1> QED
    BY <1>1, <1>2, <1>3, <1>4, <1>5, <1>6, <1>7, <1>8, <1>9, <1>10, <1>11
    DEF Next, TitleNext, RangeNext

\* A hand's part of PullInv.
LEMMA PullStep ==
  ASSUME TypeOK, BoundInv, PullInv, [Next]_vars
  PROVE  PullInv'
  <1> USE DEF TypeOK, TitleType, PullInv
  <1>1. CASE SuggestInteractionProfileBindings
    BY <1>1 DEF SuggestInteractionProfileBindings, titleVars, saidVars, clientVars,
         syncVars, handVars, gameVars, rangeVars
  <1>2. CASE AttachSessionActionSets
    BY <1>2 DEF AttachSessionActionSets, titleVars, saidVars, clientVars, syncVars,
         handVars, gameVars, rangeVars
  <1>3. CASE TitleSyncs
    BY <1>3 DEF TitleSyncs, SyncActions, titleVars, saidVars, clientVars, syncVars,
         handVars, gameVars, rangeVars
  <1>4. CASE TitleAsks
    BY <1>4 DEF TitleAsks, titleVars, saidVars, clientVars, syncVars, handVars, gameVars,
         rangeVars
  <1>5. CASE CreateActions
    BY <1>5 DEF CreateActions, titleVars, saidVars, clientVars, syncVars, handVars,
         gameVars, rangeVars
  <1>6. CASE SyncInput
    <2> SUFFICES ASSUME NEW h \in Hands
                 PROVE  /\ \/ Level(frame.controllers[h]) < FirePoint
                           \/ trigger'[h] < FirePoint
                           => lowest[h] < FirePoint
                        /\ pendingShot'[h] # NoShot =>
                             /\ pendingShot'[h] = frame.number /\ lowest[h] < FirePoint
                             /\ Level(frame.controllers[h]) >= FirePoint
                             /\ trigger'[h] >= FirePoint
                        /\ handTracked'[h] => handPose'[h] = frame.number
      BY <1>6 DEF SyncInput, After
    <2>1. bindings = [g \in Hands |-> "Trigger"]
      BY <1>6 DEF SyncInput, BoundInv
    <2>2. Read(h) = Level(frame.controllers[h])
      BY <2>1, ReadsTheFrame
    <2>3. trigger'[h] = Level(frame.controllers[h])
      BY <1>6, <2>2 DEF SyncInput
    <2>4. Level(frame.controllers[h]) \in Levels
      BY FrameTyped, LevelTyped DEF SampleType
    <2>5. pendingShot[h] = NoShot
      BY <1>6 DEF SyncInput
    <2>6. pendingShot'[h] = IF Pulls(h) THEN frame.number ELSE NoShot
      BY <1>6, <2>5 DEF SyncInput
    <2>7. Pulls(h) => lowest[h] < FirePoint /\ Level(frame.controllers[h]) >= FirePoint
      BY <1>6, <2>2 DEF Pulls, SyncInput
    <2>8. handTracked'[h] => handPose'[h] = frame.number
      BY <1>6 DEF SyncInput, LocateSpace
    <2> QED
      BY <1>6, <2>3, <2>4, <2>6, <2>7, <2>8 DEF SyncInput, Levels, FirePoint
  <1>7. CASE UpdateGame
    <2> SUFFICES ASSUME NEW h \in Hands
                 PROVE  /\ \/ Level(frame.controllers[h]) < FirePoint
                           \/ trigger[h] < FirePoint
                           => lowest'[h] < FirePoint
                        /\ pendingShot'[h] = NoShot
      BY <1>7 DEF UpdateGame, After
    <2>1. Level(frame.controllers[h]) \in Levels /\ trigger[h] \in Levels
      BY FrameTyped, LevelTyped DEF SampleType, RangeType
    <2>2. CASE h \in Firing
      BY <1>7, <2>1, <2>2 DEF UpdateGame, Firing, Levels, Pulled, FirePoint
    <2>3. CASE h \notin Firing
      BY <1>7, <2>3 DEF UpdateGame
    <2> QED
      BY <1>7, <2>2, <2>3
  <1>8. CASE WaitFrame
    <2> SUFFICES ASSUME app = "range", NEW h \in Hands
                 PROVE  /\ \/ Level(frame.controllers[h])' < FirePoint
                           \/ trigger[h] < FirePoint
                           => lowest'[h] < FirePoint
                        /\ pendingShot[h] = NoShot
      BY <1>8 DEF WaitFrame, After, handVars
    <2>1. pendingShot[h] = NoShot
      BY <1>8 DEF WaitFrame
    <2>2. CASE UNCHANGED <<frame, lowest>>
      BY <1>8, <2>1, <2>2
    <2>3. ASSUME NEW s \in Samples,
                 frame' = [number |-> frame.number + 1, controllers |-> s],
                 lowest' = [g \in Hands |-> IF Level(s[g]) < lowest[g] THEN Level(s[g])
                                                                     ELSE lowest[g]]
          PROVE  \/ Level(frame.controllers[h])' < FirePoint
                 \/ trigger[h] < FirePoint
                 => lowest'[h] < FirePoint
      <3>1. Level(frame.controllers[h])' = Level(s[h])
        BY <2>3 DEF Level
      <3>2. Level(s[h]) \in Levels /\ lowest[h] \in Levels /\ trigger[h] \in Levels
        BY LevelTyped, SampleAssumption DEF SampleType, RangeType
      <3>3. trigger[h] < FirePoint => lowest[h] < FirePoint
        BY <1>8
      <3>4. lowest'[h] = IF Level(s[h]) < lowest[h] THEN Level(s[h]) ELSE lowest[h]
        BY <2>3
      <3> QED
        BY <3>1, <3>2, <3>3, <3>4 DEF Levels, Pulled, FirePoint
    <2> QED
      BY <1>8, <2>1, <2>2, <2>3 DEF WaitFrame, PollPose
  <1>9. CASE ClientComes
    BY <1>9 DEF ClientComes, titleVars, saidVars, clientVars, syncVars, handVars,
         gameVars, rangeVars
  <1>10. CASE ClientGoes
    BY <1>10 DEF ClientGoes, titleVars, saidVars, clientVars, syncVars, handVars,
         gameVars, rangeVars
  <1>11. CASE UNCHANGED vars
    BY <1>11 DEF vars
  <1> QED
    BY <1>1, <1>2, <1>3, <1>4, <1>5, <1>6, <1>7, <1>8, <1>9, <1>10, <1>11
    DEF Next, TitleNext, RangeNext

\* A shot is of the sample whose pull it was.
LEMMA ShotStep ==
  ASSUME TypeOK, PullInv, ShotIsOfOneSample, [Next]_vars
  PROVE  ShotIsOfOneSample'
  <1> USE DEF ShotIsOfOneSample
  <1>1. CASE SuggestInteractionProfileBindings
    BY <1>1 DEF SuggestInteractionProfileBindings, titleVars, saidVars, clientVars,
         syncVars, handVars, gameVars, rangeVars
  <1>2. CASE AttachSessionActionSets
    BY <1>2 DEF AttachSessionActionSets, titleVars, saidVars, clientVars, syncVars,
         handVars, gameVars, rangeVars
  <1>3. CASE TitleSyncs
    BY <1>3 DEF TitleSyncs, SyncActions, titleVars, saidVars, clientVars, syncVars,
         handVars, gameVars, rangeVars
  <1>4. CASE TitleAsks
    BY <1>4 DEF TitleAsks, titleVars, saidVars, clientVars, syncVars, handVars, gameVars,
         rangeVars
  <1>5. CASE CreateActions
    BY <1>5 DEF CreateActions, titleVars, saidVars, clientVars, syncVars, handVars,
         gameVars, rangeVars
  <1>6. CASE SyncInput
    BY <1>6 DEF SyncInput, SyncActions, After, titleVars, saidVars, clientVars, syncVars,
         handVars, gameVars, rangeVars
  <1>7. CASE UpdateGame
    <2> SUFFICES ASSUME NEW h \in Hands, shot'[h] # NotFired
                 PROVE  shot'[h].pulled = shot'[h].newest /\ shot'[h].aim = shot'[h].newest
      OBVIOUS
    <2>1. CASE h \in Firing
      BY <1>7, <2>1 DEF UpdateGame, Firing, Shot, PullInv
    <2>2. CASE h \notin Firing
      BY <1>7, <2>2 DEF UpdateGame
    <2> QED
      BY <2>1, <2>2
  <1>8. CASE WaitFrame
    BY <1>8 DEF WaitFrame, PollForClient, PollPose, After, titleVars, saidVars,
         clientVars, syncVars, handVars, gameVars, rangeVars
  <1>9. CASE ClientComes
    BY <1>9 DEF ClientComes, titleVars, saidVars, clientVars, syncVars, handVars,
         gameVars, rangeVars
  <1>10. CASE ClientGoes
    BY <1>10 DEF ClientGoes, titleVars, saidVars, clientVars, syncVars, handVars,
         gameVars, rangeVars
  <1>11. CASE UNCHANGED vars
    BY <1>11 DEF vars
  <1> QED
    BY <1>1, <1>2, <1>3, <1>4, <1>5, <1>6, <1>7, <1>8, <1>9, <1>10, <1>11
    DEF Next, TitleNext, RangeNext

\* A shot comes after the trigger was let go.
LEMMA PullOnceStep ==
  ASSUME TypeOK, PullInv, OneShotPerPull, [Next]_vars
  PROVE  OneShotPerPull'
  <1> USE DEF OneShotPerPull
  <1>1. CASE SuggestInteractionProfileBindings
    BY <1>1 DEF SuggestInteractionProfileBindings, titleVars, saidVars, clientVars,
         syncVars, handVars, gameVars, rangeVars
  <1>2. CASE AttachSessionActionSets
    BY <1>2 DEF AttachSessionActionSets, titleVars, saidVars, clientVars, syncVars,
         handVars, gameVars, rangeVars
  <1>3. CASE TitleSyncs
    BY <1>3 DEF TitleSyncs, SyncActions, titleVars, saidVars, clientVars, syncVars,
         handVars, gameVars, rangeVars
  <1>4. CASE TitleAsks
    BY <1>4 DEF TitleAsks, titleVars, saidVars, clientVars, syncVars, handVars, gameVars,
         rangeVars
  <1>5. CASE CreateActions
    BY <1>5 DEF CreateActions, titleVars, saidVars, clientVars, syncVars, handVars,
         gameVars, rangeVars
  <1>6. CASE SyncInput
    BY <1>6 DEF SyncInput, SyncActions, After, titleVars, saidVars, clientVars, syncVars,
         handVars, gameVars, rangeVars
  <1>7. CASE UpdateGame
    <2> SUFFICES ASSUME NEW h \in Hands, shot'[h] # NotFired
                 PROVE  shot'[h].lowest < FirePoint
      OBVIOUS
    <2>1. CASE h \in Firing
      BY <1>7, <2>1 DEF UpdateGame, Firing, Shot, PullInv
    <2>2. CASE h \notin Firing
      BY <1>7, <2>2 DEF UpdateGame
    <2> QED
      BY <2>1, <2>2
  <1>8. CASE WaitFrame
    BY <1>8 DEF WaitFrame, PollForClient, PollPose, After, titleVars, saidVars,
         clientVars, syncVars, handVars, gameVars, rangeVars
  <1>9. CASE ClientComes
    BY <1>9 DEF ClientComes, titleVars, saidVars, clientVars, syncVars, handVars,
         gameVars, rangeVars
  <1>10. CASE ClientGoes
    BY <1>10 DEF ClientGoes, titleVars, saidVars, clientVars, syncVars, handVars,
         gameVars, rangeVars
  <1>11. CASE UNCHANGED vars
    BY <1>11 DEF vars
  <1> QED
    BY <1>1, <1>2, <1>3, <1>4, <1>5, <1>6, <1>7, <1>8, <1>9, <1>10, <1>11
    DEF Next, TitleNext, RangeNext

\* An answer stays what the snapshots say.
LEMMA SaidStep ==
  ASSUME TypeOK, BoundInv, SaidInv, [Next]_vars
  PROVE  SaidInv'
  <1> USE DEF SaidInv
  <1>1. CASE SuggestInteractionProfileBindings
    <2>1. said # NotAsked =>
            said = GetActionState(type, bindings', sub, actionFrame, actionFramePrev)
      BY <1>1, NoSampleAnswers DEF SuggestInteractionProfileBindings
    <2> QED
      BY <1>1, <2>1 DEF SuggestInteractionProfileBindings, saidVars, syncVars
  <1>2. CASE AttachSessionActionSets
    BY <1>2 DEF AttachSessionActionSets, titleVars, saidVars, clientVars, syncVars,
         handVars, gameVars, rangeVars
  <1>3. CASE TitleSyncs
    <2>1. said # NotAsked =>
            \E p \in Frames : said = GetActionState(type, bindings, sub, actionFrame, p)
      BY DEF TypeOK, SampleType
    <2> QED
      BY <1>3, <2>1 DEF TitleSyncs, SyncActions, titleVars
  <1>4. CASE TitleAsks
    BY <1>4 DEF TitleAsks, titleVars, saidVars, clientVars, syncVars, handVars, gameVars,
         rangeVars
  <1>5. CASE CreateActions
    BY <1>5 DEF CreateActions, titleVars, saidVars, clientVars, syncVars, handVars,
         gameVars, rangeVars
  <1>6. CASE SyncInput
    <2>1. said = NotAsked /\ saidBefore = NotAsked /\ attached
      BY <1>6 DEF SyncInput, BoundInv
    <2> QED
      BY <1>6, <2>1 DEF SyncInput, saidVars, titleVars
  <1>7. CASE UpdateGame
    BY <1>7 DEF UpdateGame, After, titleVars, saidVars, clientVars, syncVars, handVars,
         gameVars, rangeVars
  <1>8. CASE WaitFrame
    BY <1>8 DEF WaitFrame, PollForClient, PollPose, After, titleVars, saidVars,
         clientVars, syncVars, handVars, gameVars, rangeVars
  <1>9. CASE ClientComes
    BY <1>9 DEF ClientComes, titleVars, saidVars, clientVars, syncVars, handVars,
         gameVars, rangeVars
  <1>10. CASE ClientGoes
    BY <1>10 DEF ClientGoes, titleVars, saidVars, clientVars, syncVars, handVars,
         gameVars, rangeVars
  <1>11. CASE UNCHANGED vars
    BY <1>11 DEF vars
  <1> QED
    BY <1>1, <1>2, <1>3, <1>4, <1>5, <1>6, <1>7, <1>8, <1>9, <1>10, <1>11
    DEF Next, TitleNext, RangeNext

-----------------------------------------------------------------------------
(* Theorems.                                                               *)

\* The first state satisfies the inductive invariant.
LEMMA InitIInv ==
  ASSUME Init
  PROVE  IInv
  <1> USE DEF Init
  <1>1. NoSample \in Frames
    BY MaxSamplesAssumption DEF Frames, NoSample
  <1>2. TitleType
    <2>1. bindings \in [Hands -> Bindings] /\ said \in Answers /\ saidBefore \in Answers
      BY DEF Bindings, NotAsked, Answers, Pulled
    <2>2. type \in {"boolean", "float", "vector", "pose"} /\ sub \in Hands \cup {AnyHand}
      BY DEF AnyHand
    <2> QED
      BY <2>1, <2>2 DEF TitleType
  <1>3. SampleType
    <2>1. lowest \in [Hands -> Levels]
      BY DEF Levels, Pulled
    <2> QED
      BY <1>1, <2>1 DEF SampleType
  <1>4. RangeType
    BY FadeAssumption, MaxSamplesAssumption DEF RangeType, Levels, Pulled, NoShot
  <1>5. BoundInv
    BY DEF BoundInv
  <1>6. PullInv
    BY DEF PullInv, FirePoint
  <1>7. ShotIsOfOneSample /\ OneShotPerPull
    BY DEF ShotIsOfOneSample, OneShotPerPull
  <1>8. SaidInv
    BY DEF SaidInv
  <1> QED
    BY <1>2, <1>3, <1>4, <1>5, <1>6, <1>7, <1>8 DEF IInv, TypeOK

\* Every step keeps the inductive invariant.
LEMMA NextIInv ==
  ASSUME IInv, [Next]_vars
  PROVE  IInv'
  <1>1. TypeOK'
    BY TitleTypeStep, SampleTypeStep, RangeTypeStep DEF IInv, TypeOK
  <1>2. BoundInv' /\ PullInv'
    BY BoundStep, PullStep DEF IInv
  <1>3. ShotIsOfOneSample' /\ OneShotPerPull'
    BY ShotStep, PullOnceStep DEF IInv
  <1>4. SaidInv'
    BY SaidStep DEF IInv
  <1> QED
    BY <1>1, <1>2, <1>3, <1>4 DEF IInv

\* What the properties below follow from holds in every state.
THEOREM Invariance == Spec => []IInv
  BY InitIInv, NextIInv, PTL DEF Spec

\* The state stays what the code can give it (Controllers, ActionState, CubeApp).
THEOREM TypeCorrect == Spec => []TypeOK
  <1>1. IInv => TypeOK
    BY DEF IInv
  <1> QED
    BY <1>1, Invariance, PTL

\* Whatever the samples and however they fall between the frames, the pull and the aim of
\* a shot are of the same sample, the newest (CubeApp::SyncInput, CubeApp::UpdateGame).
THEOREM ShotsAreWhole == Spec => []ShotIsOfOneSample
  <1>1. IInv => ShotIsOfOneSample
    BY DEF IInv
  <1> QED
    BY <1>1, Invariance, PTL

\* A held trigger fires one shot (CubeApp::SyncInput).
THEOREM HeldFiresOnce == Spec => []OneShotPerPull
  <1>1. IInv => OneShotPerPull
    BY DEF IInv
  <1> QED
    BY <1>1, Invariance, PTL

\* An answer is the same however often it is asked for between two syncs, whatever the
\* other thread's frames bring (xrSyncActions, xrGetActionState*).
THEOREM AnswersHeld == Spec => AnswersAreHeld
  <1>1. ASSUME IInv, [Next]_vars PROVE [said # NotAsked => said' \in {said, NotAsked}]_vars
    <2>1. CASE TitleAsks
      BY <1>1, <2>1 DEF IInv, SaidInv, TitleAsks
    <2>2. CASE TitleSyncs
      BY <2>2 DEF TitleSyncs
    <2>3. CASE UNCHANGED said
      BY <2>3
    <2>4. ~TitleAsks /\ ~TitleSyncs => UNCHANGED said
      BY <1>1 DEF Next, TitleNext, RangeNext, SuggestInteractionProfileBindings,
         AttachSessionActionSets, CreateActions, SyncInput, UpdateGame, WaitFrame,
         ClientComes, ClientGoes, vars, saidVars
    <2> QED
      BY <2>1, <2>2, <2>3, <2>4
  <1> QED
    BY <1>1, Invariance, PTL DEF Spec, AnswersAreHeld

\* What is said to have changed since the last sync has, and the other way round, for a
\* query about one hand (xrGetActionState*).
THEOREM ChangesAreHonest == Spec => []ChangeIsHonest
  <1>1. IInv => ChangeIsHonest
    <2> SUFFICES ASSUME IInv, sub # AnyHand, said.active, saidBefore.active
                 PROVE  said.changed = (said.current # saidBefore.current)
      BY DEF ChangeIsHonest
    <2>1. sub \in Hands
      BY DEF IInv, TypeOK, TitleType
    <2>2. said = GetActionState(type, bindings, sub, actionFrame, actionFramePrev)
      BY DEF IInv, SaidInv, NotAsked
    <2>3. PICK p \in Frames :
            saidBefore = GetActionState(type, bindings, sub, actionFramePrev, p)
      BY DEF IInv, SaidInv, NotAsked
    <2>4. /\ said.current = ValueOf(type, actionFrame.controllers[sub], bindings[sub])
          /\ said.changed = (ValueOf(type, actionFrame.controllers[sub], bindings[sub])
                               # ValueOf(type, actionFramePrev.controllers[sub], bindings[sub]))
      BY <2>1, <2>2, OneHand
    <2>5. saidBefore.current = ValueOf(type, actionFramePrev.controllers[sub], bindings[sub])
      BY <2>1, <2>3, OneHand
    <2> QED
      BY <2>4, <2>5
  <1> QED
    BY <1>1, Invariance, PTL
-----------------------------------------------------------------------------
(* The refinement of ActionStates.                                         *)

\* The answers of two syncs, the second of which keeps the snapshot of the first.
LEMMA SyncFollows ==
  ASSUME TypeOK, NEW p \in Frames, NEW f \in Frames, NEW q \in Frames
  PROVE  Actions!Follows(GetActionState(type, bindings, sub, f, p),
                         GetActionState(type, bindings, sub, q, f))
  <1> DEFINE last == GetActionState(type, bindings, sub, f, p)
             next == GetActionState(type, bindings, sub, q, f)
  <1>1. CASE next.active
    <2> SUFFICES ASSUME sub # AnyHand, last.active
                 PROVE  next.changed = (next.current # last.current)
      BY <1>1 DEF Actions!Follows
    <2>1. sub \in Hands
      BY DEF TypeOK, TitleType
    <2>2. last.current = ValueOf(type, f.controllers[sub], bindings[sub])
      BY <2>1, OneHand
    <2>3. /\ next.current = ValueOf(type, q.controllers[sub], bindings[sub])
          /\ next.changed = (ValueOf(type, q.controllers[sub], bindings[sub])
                               # ValueOf(type, f.controllers[sub], bindings[sub]))
      BY <1>1, <2>1, OneHand
    <2> QED
      BY <2>2, <2>3
  <1>2. CASE ~next.active
    <2>1. next = Inactive
      BY <1>2 DEF GetActionState
    <2> QED
      BY <1>2, <2>1 DEF Actions!Follows
  <1> QED
    BY <1>1, <1>2

\* xrSyncActions fixes an answer, for the title and for the range.
LEMMA SyncIsSync ==
  ASSUME TypeOK, SyncActions, UNCHANGED <<type, sub, bindings>>, said' = NotAsked
  PROVE  Actions!Sync
  <1>1. frame \in Frames /\ actionFrame \in Frames /\ actionFramePrev \in Frames
    BY DEF TypeOK, SampleType
  <1>2. Fixed' = GetActionState(type, bindings, sub, frame, actionFrame)
    BY DEF SyncActions, Fixed
  <1>3. Fixed' \in Answers
    BY <1>1, <1>2, AnswerTyped
  <1>4. Actions!Follows(Fixed, Fixed')
    BY <1>1, <1>2, SyncFollows DEF Fixed
  <1> QED
    BY <1>3, <1>4 DEF Actions!Sync

\* Every step is a sync, an answer, or nothing to the title.
LEMMA ActionsRefinementStep ==
  IInv /\ IInv' /\ [Next]_vars => [Actions!Next]_(Actions!actionVars)
<1> SUFFICES ASSUME IInv, IInv', [Next]_vars
             PROVE  Actions!Next \/ UNCHANGED <<sub # AnyHand, Fixed, said>>
  BY DEF Actions!actionVars
<1> USE DEF titleVars, saidVars, syncVars, rangeVars
<1>1. ASSUME UNCHANGED <<titleVars, syncVars, said>>
      PROVE  UNCHANGED <<sub # AnyHand, Fixed, said>>
  BY <1>1 DEF Fixed
<1>2. ASSUME ~attached, UNCHANGED <<sub, syncVars, said>>
      PROVE  UNCHANGED <<sub # AnyHand, Fixed, said>>
  <2>1. actionFrame = NoSample /\ actionFrame' = NoSample
    BY <1>2 DEF IInv, SaidInv
  <2>2. Fixed = Inactive /\ Fixed' = Inactive
    BY <2>1, NoSampleAnswers DEF Fixed
  <2> QED
    BY <1>2, <2>2
<1>3. CASE SuggestInteractionProfileBindings
  BY <1>2, <1>3 DEF SuggestInteractionProfileBindings
<1>4. CASE AttachSessionActionSets
  BY <1>2, <1>4 DEF AttachSessionActionSets
<1>5. CASE CreateActions
  BY <1>2, <1>5 DEF CreateActions
<1>6. CASE TitleSyncs
  BY <1>6, SyncIsSync DEF TitleSyncs, IInv, Actions!Next
<1>7. CASE SyncInput
  <2>1. said = NotAsked /\ said' = NotAsked
    BY <1>7 DEF SyncInput, IInv, SaidInv
  <2> QED
    BY <1>7, <2>1, SyncIsSync DEF SyncInput, IInv, Actions!Next
<1>8. CASE TitleAsks
  <2>1. said' = Fixed /\ UNCHANGED <<titleVars, syncVars>>
    BY <1>8 DEF TitleAsks, Fixed
  <2>2. UNCHANGED <<sub # AnyHand, Fixed>>
    BY <2>1 DEF Fixed
  <2> QED
    BY <2>1, <2>2 DEF Actions!Next, Actions!Ask
<1>9. CASE UpdateGame \/ WaitFrame \/ ClientComes \/ ClientGoes \/ UNCHANGED vars
  <2>1. UNCHANGED <<titleVars, syncVars, said>>
    BY <1>9 DEF UpdateGame, WaitFrame, ClientComes, ClientGoes, vars
  <2> QED
    BY <1>1, <2>1
<1> QED
  BY <1>3, <1>4, <1>5, <1>6, <1>7, <1>8, <1>9 DEF Next, TitleNext, RangeNext

\* For any samples and any bindings, and with frames and queries on two threads in any
\* order, what an application is told is what its last sync has fixed, and what a sync
\* fixes about a hand says whether it differs from what the sync before it fixed.
THEOREM InputImplementsActions == Spec => ImplementsActions
<1>1. Init => Actions!Init
  <2> SUFFICES ASSUME Init PROVE Actions!Init
    OBVIOUS
  <2>1. Fixed = Inactive
    BY NoSampleAnswers DEF Init, Fixed
  <2> QED
    BY <2>1 DEF Init, Actions!Init
<1> QED
  BY <1>1, ActionsRefinementStep, Invariance, PTL DEF Spec, ImplementsActions, Actions!Spec
=============================================================================
