--------------------------- MODULE VrClient_proof ---------------------------
(***************************************************************************)
(* Proofs about VrClient: the state stays typed, an eye is warped from the *)
(* pose its tag names, however the ring of poses wraps, and its tag is     *)
(* never older than its image.                                             *)
(***************************************************************************)
EXTENDS VrClient, SequenceTheorems, TLAPS

-----------------------------------------------------------------------------
(* Sequences.                                                              *)

\* What the bound on the streamed eyes says of an eye.
LEMMA StreamedAssumption == \A e \in StreamedEyes : e \in Eyes
  BY BoundsAssumption DEF Eyes

\* Append and Tail keep the type of a sequence.
LEMMA TypedSeq ==
  ASSUME NEW S, NEW s \in Seq(S)
  PROVE  /\ \A x \in S : Append(s, x) \in Seq(S)
         /\ s # <<>> => Tail(s) \in Seq(S) /\ Head(s) \in S
  OBVIOUS

\* The poses in a sequence, its first and the rest.
LEMMA PosesIn ==
  ASSUME NEW s \in Seq(Poses)
  PROVE  /\ \A i \in DOMAIN s : s[i] \in Nat /\ i \in Nat \ {0}
         /\ s # <<>> =>
              /\ Head(s) = s[1] /\ 1 \in DOMAIN s /\ s[1] \in Nat
              /\ \A i \in DOMAIN Tail(s) : /\ i \in Nat \ {0} /\ i + 1 \in DOMAIN s
                                           /\ Tail(s)[i] = s[i + 1]
  <1>1. \A i \in DOMAIN s : s[i] \in Poses
    OBVIOUS
  <1>2. \A i \in DOMAIN s : s[i] \in Nat /\ i \in Nat \ {0}
    BY <1>1 DEF Poses
  <1>3. s # <<>> => Head(s) = s[1] /\ 1 \in DOMAIN s
    OBVIOUS
  <1>4. \A i \in DOMAIN Tail(s) : s # <<>> =>
          i \in Nat \ {0} /\ i + 1 \in DOMAIN s /\ Tail(s)[i] = s[i + 1]
    OBVIOUS
  <1> QED
    BY <1>2, <1>3, <1>4

\* The slot of a sequence number is in the ring.
LEMMA SlotInRing ==
  ASSUME NEW n \in Nat
  PROVE  Slot(n) \in 0 .. HistorySize - 1
  BY SizeAssumption DEF Slot

-----------------------------------------------------------------------------
(* Types.                                                                  *)

\* The loop's state stays typed.
LEMMA LoopTypeStep ==
  ASSUME TypeOK, [Next]_vars
  PROVE  LoopType'
  <1> USE DEF TypeOK, LoopType
  <1>1. CASE InitializeFails
    BY <1>1 DEF InitializeFails, At, Goto, loopVars, xrVars, textureVars, statusVars
  <1>2. CASE Initialize
    BY <1>2 DEF Initialize, At, Goto, loopVars, xrVars, textureVars, statusVars
  <1>3. CASE DrainLooper
    BY <1>3 DEF DrainLooper, At, Goto, loopVars, xrVars, textureVars, statusVars
  <1>4. CASE PollEvent
    <2>1. events' \in Seq({"READY", "STOPPING", "EXITING", "LOSS_PENDING"})
      BY <1>4, TypedSeq DEF PollEvent
    <2>2. CASE BeginSession
      BY <1>4, <2>1, <2>2 DEF PollEvent, BeginSession, textureVars, statusVars
    <2>3. CASE EndSession
      BY <1>4, <2>1, <2>3 DEF PollEvent, EndSession, textureVars, statusVars
    <2>4. CASE exitRequested' = TRUE /\ UNCHANGED <<sessionRunning, xrState>>
      BY <1>4, <2>1, <2>4 DEF PollEvent, textureVars, statusVars
    <2> QED
      BY <1>4, <2>2, <2>3, <2>4 DEF PollEvent
  <1>5. CASE PolledEvents
    BY <1>5 DEF PolledEvents, At, Goto, loopVars, xrVars, textureVars, statusVars
  <1>6. CASE WaitFrame
    BY <1>6 DEF WaitFrame, At, Goto, loopVars, xrVars, textureVars, statusVars
  <1>7. CASE AttachEyeTexture
    BY <1>7 DEF AttachEyeTexture, At, NextEye, Eyes, loopVars, xrVars, textureVars, statusVars
  <1>8. CASE AttachedEyeTextures
    BY <1>8 DEF AttachedEyeTextures, At, Goto, loopVars, xrVars, textureVars, statusVars
  <1>9. CASE UpdateTexImage
    BY <1>9 DEF UpdateTexImage, At, loopVars, xrVars, textureVars, statusVars
  <1>10. CASE ReadTag
    BY <1>10 DEF ReadTag, At, Eyes, loopVars, xrVars, textureVars, statusVars
  <1>11. CASE SetStatus
    <2>1. status' \in Statuses
      BY <1>11 DEF SetStatus, StreamStatus, Statuses
    <2>2. everReceivedFrame' \in BOOLEAN
      BY <1>11 DEF SetStatus, HasNewFrame
    <2> QED
      BY <1>11, <2>1, <2>2 DEF SetStatus, At, Goto, loopVars, xrVars, textureVars
  <1>12. CASE UpdateControllers
    BY <1>12 DEF UpdateControllers, At, Goto, loopVars, xrVars, textureVars, statusVars
  <1>13. CASE EndEmptyFrame
    BY <1>13 DEF EndEmptyFrame, At, Goto, loopVars, xrVars, textureVars, statusVars
  <1>14. CASE RenderFrame
    BY <1>14 DEF RenderFrame, At, Goto, loopVars, xrVars, textureVars, statusVars
  <1>15. CASE Shutdown
    BY <1>15 DEF Shutdown, At, Goto, loopVars, xrVars, textureVars, statusVars
  <1>16. CASE FragmentsArrive
    BY <1>16 DEF FragmentsArrive, loopVars, xrVars, textureVars, statusVars
  <1>17. ASSUME NEW e \in Eyes, NEW p \in Poses, NEW k \in BOOLEAN, OnFrame(e, p, k)
        PROVE  LoopType'
    BY <1>17 DEF OnFrame, loopVars, xrVars, textureVars, statusVars
  <1>18. ASSUME NEW e \in Eyes, OutputAvailable(e)
        PROVE  LoopType'
    BY <1>18 DEF OutputAvailable, loopVars, xrVars, textureVars, statusVars
  <1>19. ASSUME NEW e \in Eyes, ReleaseOutput(e)
        PROVE  LoopType'
    BY <1>19 DEF ReleaseOutput, loopVars, xrVars, textureVars, statusVars
  <1>20. ASSUME NEW e \in Eyes, CodecError(e)
        PROVE  LoopType'
    BY <1>20 DEF CodecError, loopVars, xrVars, textureVars, statusVars
  <1>21. CASE XrStateChanges
    <2>1. events' \in Seq({"READY", "STOPPING", "EXITING", "LOSS_PENDING"})
      BY <1>21 DEF XrStateChanges
    <2> QED
      BY <1>21, <2>1, BoundsAssumption DEF XrStateChanges, loopVars, textureVars, statusVars
  <1>22. CASE OnDestroy
    BY <1>22 DEF OnDestroy, loopVars, xrVars, textureVars, statusVars
  <1>23. CASE OnDestroyed
    BY <1>23 DEF OnDestroyed, At, loopVars, xrVars, textureVars, statusVars
  <1>24. CASE UNCHANGED vars
    BY <1>24 DEF vars, loopVars, xrVars, textureVars, statusVars
  <1> QED
    BY StreamedAssumption, <1>1, <1>2, <1>3, <1>4, <1>5, <1>6, <1>7, <1>8, <1>9, <1>10,
        <1>11, <1>12, <1>13, <1>14, <1>15, <1>16, <1>17, <1>18, <1>19, <1>20, <1>21,
        <1>22, <1>23, <1>24 DEF Next, Loop, Stream

\* The stream's state stays typed.
LEMMA StreamTypeStep ==
  ASSUME TypeOK, [Next]_vars
  PROVE  StreamType'
  <1> USE DEF TypeOK, LoopType, StreamType
  <1>1. CASE InitializeFails
    BY <1>1 DEF InitializeFails, At, Goto, decoderVars, codecVars, latchVars, streamVars
  <1>2. CASE Initialize
    BY <1>2 DEF Initialize, At, Goto, decoderVars, codecVars, latchVars, streamVars
  <1>3. CASE DrainLooper
    BY <1>3 DEF DrainLooper, At, Goto, decoderVars, codecVars, latchVars, streamVars
  <1>4. CASE PollEvent
    BY <1>4 DEF PollEvent, At, BeginSession, EndSession, decoderVars, codecVars,
        latchVars, streamVars
  <1>5. CASE PolledEvents
    BY <1>5 DEF PolledEvents, At, Goto, decoderVars, codecVars, latchVars, streamVars
  <1>6. CASE WaitFrame
    BY <1>6 DEF WaitFrame, At, Goto, decoderVars, codecVars, latchVars, streamVars
  <1>7. CASE AttachEyeTexture
    <2>1. configured' \in [Eyes -> BOOLEAN] /\ sawKeyframe' \in [Eyes -> BOOLEAN]
      BY <1>7 DEF AttachEyeTexture
    <2> QED
      BY <1>7, <2>1 DEF AttachEyeTexture, codecVars, latchVars, streamVars
  <1>8. CASE AttachedEyeTextures
    BY <1>8 DEF AttachedEyeTextures, At, Goto, decoderVars, codecVars, latchVars,
        streamVars
  <1>9. CASE UpdateTexImage
    <2>1. shown' \in [Eyes -> Images]
      BY <1>9 DEF UpdateTexImage
    <2> QED
      BY <1>9, <2>1 DEF UpdateTexImage, decoderVars, codecVars, streamVars
  <1>10. CASE ReadTag
    <2>1. displayed' \in [Eyes -> Poses]
      BY <1>10 DEF ReadTag, TagRendered
    <2> QED
      BY <1>10, <2>1 DEF ReadTag, decoderVars, codecVars, streamVars
  <1>11. CASE SetStatus
    BY <1>11 DEF SetStatus, At, Goto, decoderVars, codecVars, latchVars, streamVars
  <1>12. CASE UpdateControllers
    BY <1>12 DEF UpdateControllers, At, Goto, decoderVars, codecVars, latchVars,
        streamVars
  <1>13. CASE EndEmptyFrame
    BY <1>13 DEF EndEmptyFrame, At, Goto, decoderVars, codecVars, latchVars, streamVars
  <1>14. CASE RenderFrame
    BY <1>14 DEF RenderFrame, At, Goto, decoderVars, codecVars, latchVars, streamVars
  <1>15. CASE Shutdown
    BY <1>15 DEF Shutdown, At, Goto, decoderVars, codecVars, latchVars, streamVars
  <1>16. CASE FragmentsArrive
    BY <1>16 DEF FragmentsArrive, decoderVars, codecVars, latchVars, streamVars
  <1>17. ASSUME NEW e \in Eyes, NEW p \in Poses, NEW k \in BOOLEAN, OnFrame(e, p, k)
        PROVE  StreamType'
    <2>1. arrived' \in [Eyes -> Poses]
      BY <1>17 DEF OnFrame
    <2>2. codec' \in [Eyes -> Seq(Poses)]
      <3>1. Append(codec[e], p) \in Seq(Poses)
        BY <1>17, TypedSeq
      <3>2. codec' = codec \/ codec' = [codec EXCEPT ![e] = Append(@, p)]
        BY <1>17 DEF OnFrame
      <3> QED
        BY <3>1, <3>2
    <2>3. sawKeyframe' \in [Eyes -> BOOLEAN]
      BY <1>17 DEF OnFrame
    <2> QED
      BY <1>17, <2>1, <2>2, <2>3 DEF OnFrame, latchVars
  <1>18. ASSUME NEW e \in Eyes, OutputAvailable(e)
        PROVE  StreamType'
    <2>1. Head(codec[e]) \in Poses /\ Tail(codec[e]) \in Seq(Poses)
      BY <1>18, TypedSeq DEF OutputAvailable
    <2>2. codec' = [codec EXCEPT ![e] = Tail(codec[e])]
      BY <1>18 DEF OutputAvailable
    <2>3. codec' \in [Eyes -> Seq(Poses)]
      BY <2>1, <2>2
    <2>4. rendering' \in [Eyes -> Images] /\ lastRendered' \in [Eyes -> Poses]
      BY <1>18, <2>1 DEF OutputAvailable, Images
    <2> QED
      BY <1>18, <2>3, <2>4 DEF OutputAvailable, decoderVars, latchVars, streamVars
  <1>19. ASSUME NEW e \in Eyes, ReleaseOutput(e)
        PROVE  StreamType'
    <2>1. surface' \in [Eyes -> Images] /\ rendering' \in [Eyes -> Images]
      BY <1>19 DEF ReleaseOutput, Images
    <2> QED
      BY <1>19, <2>1 DEF ReleaseOutput, decoderVars, latchVars, streamVars
  <1>20. ASSUME NEW e \in Eyes, CodecError(e)
        PROVE  StreamType'
    <2>1. sawKeyframe' \in [Eyes -> BOOLEAN]
      BY <1>20 DEF CodecError
    <2> QED
      BY <1>20, <2>1 DEF CodecError, codecVars, latchVars, streamVars
  <1>21. CASE XrStateChanges
    BY <1>21 DEF XrStateChanges, decoderVars, codecVars, latchVars, streamVars
  <1>22. CASE OnDestroy
    BY <1>22 DEF OnDestroy, decoderVars, codecVars, latchVars, streamVars
  <1>23. CASE OnDestroyed
    <2>1. codec' \in [Eyes -> Seq(Poses)]
      BY <1>23 DEF OnDestroyed
    <2>2. rendering' \in [Eyes -> Images] /\ configured' \in [Eyes -> BOOLEAN]
      BY <1>23 DEF OnDestroyed, Images
    <2> QED
      BY <1>23, <2>1, <2>2 DEF OnDestroyed, latchVars, streamVars
  <1>24. CASE UNCHANGED vars
    BY <1>24 DEF vars, decoderVars, codecVars, latchVars, streamVars
  <1> QED
    BY StreamedAssumption, <1>1, <1>2, <1>3, <1>4, <1>5, <1>6, <1>7, <1>8, <1>9, <1>10,
        <1>11, <1>12, <1>13, <1>14, <1>15, <1>16, <1>17, <1>18, <1>19, <1>20, <1>21,
        <1>22, <1>23, <1>24 DEF Next, Loop, Stream

\* The poses stay typed.
LEMMA PoseTypeStep ==
  ASSUME TypeOK, RoomInv, [Next]_vars
  PROVE  PoseType'
  <1> USE DEF TypeOK, PoseType
  <1>0. At("render") \/ At("controllers") => ThisView \in Poses
    BY BoundsAssumption DEF At, RoomInv, ThisView, Poses
  <1>1. CASE InitializeFails
    BY <1>1 DEF InitializeFails, At, Goto, poseVars, handVars
  <1>2. CASE Initialize
    BY <1>2 DEF Initialize, At, Goto, poseVars, handVars
  <1>3. CASE DrainLooper
    BY <1>3 DEF DrainLooper, At, Goto, poseVars, handVars
  <1>4. CASE PollEvent
    BY <1>4 DEF PollEvent, At, BeginSession, EndSession, poseVars, handVars
  <1>5. CASE PolledEvents
    BY <1>5 DEF PolledEvents, At, Goto, poseVars, handVars
  <1>6. CASE WaitFrame
    BY <1>6 DEF WaitFrame, At, Goto, poseVars, handVars
  <1>7. CASE AttachEyeTexture
    BY <1>7 DEF AttachEyeTexture, At, NextEye, poseVars, handVars
  <1>8. CASE AttachedEyeTextures
    BY <1>8 DEF AttachedEyeTextures, At, Goto, poseVars, handVars
  <1>9. CASE UpdateTexImage
    BY <1>9 DEF UpdateTexImage, At, poseVars, handVars
  <1>10. CASE ReadTag
    BY <1>10 DEF ReadTag, At, poseVars, handVars
  <1>11. CASE SetStatus
    BY <1>11 DEF SetStatus, At, Goto, poseVars, handVars
  <1>12. CASE UpdateControllers
    <2>1. controllerState' \in Poses
      BY <1>12, <1>0 DEF UpdateControllers, HandsTime
    <2>2. synced' \in BOOLEAN
      BY <1>12 DEF UpdateControllers
    <2> QED
      BY <1>12, <2>1, <2>2 DEF UpdateControllers, poseVars
  <1>13. CASE EndEmptyFrame
    <2>1. view' \in Poses /\ sequence' \in 0 .. view'
      BY <1>13, <1>0 DEF EndEmptyFrame, ThisView, Poses
    <2> QED
      BY <1>13, <2>1 DEF EndEmptyFrame, handVars
  <1>14. CASE RenderFrame
    <2>1. view' = ThisView /\ ThisView \in Poses
      BY <1>14, <1>0 DEF RenderFrame
    <2>2. CASE host \/ hostAddress
      <3>0. sequence' = sequence + 1
        BY <1>14, <2>2 DEF RenderFrame, SubmitPose
      <3>1. sequence' = sequence + 1 /\ sequence' \in 0 .. view' /\ sequence' \in Poses
        BY <2>1, <3>0, BoundsAssumption DEF ThisView, Poses
      <3>2. history' = [history EXCEPT ![Slot(sequence + 1)] =
                          [sequence |-> sequence + 1, view |-> ThisView]]
        BY <1>14, <2>2 DEF RenderFrame, SubmitPose
      <3>3. history' \in [0 .. HistorySize - 1 -> [sequence : Poses, view : Poses]]
        BY <2>1, <3>1, <3>2
      <3>4. packet' \in [view : Poses, hands : Poses, synced : BOOLEAN]
        BY <1>14, <2>1, <2>2 DEF RenderFrame, SubmitPose
      <3>5. sent' = Append(sent, ThisView) /\ host' = TRUE
        BY <1>14, <2>2 DEF RenderFrame, SubmitPose
      <3>6. sent' \in Seq(Poses)
        BY <2>1, <3>5, TypedSeq
      <3> QED
        BY <1>14, <2>1, <3>1, <3>3, <3>4, <3>5, <3>6 DEF RenderFrame, handVars
    <2>3. CASE ~(host \/ hostAddress)
      <3>1. UNCHANGED <<host, sequence, history, packet, sent>>
        BY <1>14, <2>3 DEF RenderFrame, SubmitPose
      <3>2. sequence' \in 0 .. view'
        BY <2>1, <3>1 DEF ThisView, Poses
      <3> QED
        BY <1>14, <2>1, <3>1, <3>2 DEF RenderFrame, handVars
    <2> QED
      BY <2>2, <2>3
  <1>15. CASE Shutdown
    BY <1>15 DEF Shutdown, At, Goto, poseVars, handVars
  <1>16. CASE FragmentsArrive
    BY <1>16 DEF FragmentsArrive, poseVars, handVars
  <1>17. ASSUME NEW e \in Eyes, NEW p \in Poses, NEW k \in BOOLEAN, OnFrame(e, p, k)
        PROVE  PoseType'
    BY <1>17 DEF OnFrame, poseVars, handVars
  <1>18. ASSUME NEW e \in Eyes, OutputAvailable(e)
        PROVE  PoseType'
    BY <1>18 DEF OutputAvailable, poseVars, handVars
  <1>19. ASSUME NEW e \in Eyes, ReleaseOutput(e)
        PROVE  PoseType'
    BY <1>19 DEF ReleaseOutput, poseVars, handVars
  <1>20. ASSUME NEW e \in Eyes, CodecError(e)
        PROVE  PoseType'
    BY <1>20 DEF CodecError, poseVars, handVars
  <1>21. CASE XrStateChanges
    BY <1>21 DEF XrStateChanges, poseVars, handVars
  <1>22. CASE OnDestroy
    BY <1>22 DEF OnDestroy, poseVars, handVars
  <1>23. CASE OnDestroyed
    BY <1>23 DEF OnDestroyed, At, poseVars, handVars
  <1>24. CASE UNCHANGED vars
    BY <1>24 DEF vars, poseVars, handVars
  <1> QED
    BY StreamedAssumption, <1>1, <1>2, <1>3, <1>4, <1>5, <1>6, <1>7, <1>8, <1>9, <1>10,
        <1>11, <1>12, <1>13, <1>14, <1>15, <1>16, <1>17, <1>18, <1>19, <1>20, <1>21,
        <1>22, <1>23, <1>24 DEF Next, Loop, Stream

\* Nothing but a frame with views draws an eye, sends a pose or changes the ring.
LEMMA OnlyRenderDraws ==
  ASSUME [Next]_vars
  PROVE  RenderFrame \/ UNCHANGED <<drawn, sent, sequence, history>>
  <1>1. CASE InitializeFails
    BY <1>1 DEF InitializeFails, At, Goto, poseVars
  <1>2. CASE Initialize
    BY <1>2 DEF Initialize, At, Goto, poseVars
  <1>3. CASE DrainLooper
    BY <1>3 DEF DrainLooper, At, Goto, poseVars
  <1>4. CASE PollEvent
    BY <1>4 DEF PollEvent, At, BeginSession, EndSession, poseVars
  <1>5. CASE PolledEvents
    BY <1>5 DEF PolledEvents, At, Goto, poseVars
  <1>6. CASE WaitFrame
    BY <1>6 DEF WaitFrame, At, Goto, poseVars
  <1>7. CASE AttachEyeTexture
    BY <1>7 DEF AttachEyeTexture, At, NextEye, poseVars
  <1>8. CASE AttachedEyeTextures
    BY <1>8 DEF AttachedEyeTextures, At, Goto, poseVars
  <1>9. CASE UpdateTexImage
    BY <1>9 DEF UpdateTexImage, At, poseVars
  <1>10. CASE ReadTag
    BY <1>10 DEF ReadTag, At, poseVars
  <1>11. CASE SetStatus
    BY <1>11 DEF SetStatus, At, Goto, poseVars
  <1>12. CASE UpdateControllers
    BY <1>12 DEF UpdateControllers, At, Goto, poseVars
  <1>13. CASE EndEmptyFrame
    BY <1>13 DEF EndEmptyFrame, At, Goto, poseVars
  <1>14. CASE RenderFrame
    BY <1>14
  <1>15. CASE Shutdown
    BY <1>15 DEF Shutdown, At, Goto, poseVars
  <1>16. CASE FragmentsArrive
    BY <1>16 DEF FragmentsArrive, poseVars
  <1>17. ASSUME NEW e \in Eyes, NEW p \in Poses, NEW k \in BOOLEAN, OnFrame(e, p, k)
        PROVE  RenderFrame \/ UNCHANGED <<drawn, sent, sequence, history>>
    BY <1>17 DEF OnFrame, poseVars
  <1>18. ASSUME NEW e \in Eyes, OutputAvailable(e)
        PROVE  RenderFrame \/ UNCHANGED <<drawn, sent, sequence, history>>
    BY <1>18 DEF OutputAvailable, poseVars
  <1>19. ASSUME NEW e \in Eyes, ReleaseOutput(e)
        PROVE  RenderFrame \/ UNCHANGED <<drawn, sent, sequence, history>>
    BY <1>19 DEF ReleaseOutput, poseVars
  <1>20. ASSUME NEW e \in Eyes, CodecError(e)
        PROVE  RenderFrame \/ UNCHANGED <<drawn, sent, sequence, history>>
    BY <1>20 DEF CodecError, poseVars
  <1>21. CASE XrStateChanges
    BY <1>21 DEF XrStateChanges, poseVars
  <1>22. CASE OnDestroy
    BY <1>22 DEF OnDestroy, poseVars
  <1>23. CASE OnDestroyed
    BY <1>23 DEF OnDestroyed, At, poseVars
  <1>24. CASE UNCHANGED vars
    BY <1>24 DEF vars, poseVars
  <1> QED
    BY StreamedAssumption, <1>1, <1>2, <1>3, <1>4, <1>5, <1>6, <1>7, <1>8, <1>9, <1>10,
        <1>11, <1>12, <1>13, <1>14, <1>15, <1>16, <1>17, <1>18, <1>19, <1>20, <1>21,
        <1>22, <1>23, <1>24 DEF Next, Loop, Stream

\* What an eye is drawn with.
LEMMA DrawnTyped ==
  ASSUME TypeOK, PoseType', ThisView \in Poses, NEW e \in Eyes
  PROVE  DrawEye(e, Reprojection(e, history')) \in Pictures
  <1>1. displayed[e] \in Poses /\ displayed[e] \in Nat /\ shown[e] \in Images
    BY DEF TypeOK, StreamType, Poses
  <1>2. 0 \in Poses
    BY BoundsAssumption DEF Poses
  <1>3. Reprojection(e, history') \in Warps
    <2>1. Slot(displayed[e]) \in 0 .. HistorySize - 1
      BY <1>1, SlotInRing
    <2>2. history'[Slot(displayed[e])].view \in Poses
      BY <2>1 DEF PoseType
    <2> QED
      BY <1>2, <2>2 DEF Reprojection, Warps, NoWarp
  <1>4. Pattern \in Pictures
    BY <1>2 DEF Pattern, Pictures, NoWarp, Warps, Images
  <1> QED
    BY <1>1, <1>3, <1>4 DEF DrawEye, Pictures

\* What was drawn stays typed.
LEMMA DrawnStep ==
  ASSUME TypeOK, RoomInv, [Next]_vars
  PROVE  drawn' \in [Eyes -> Pictures]
  <1>1. CASE RenderFrame
    <2>1. ThisView \in Poses
      BY <1>1, BoundsAssumption DEF RenderFrame, At, RoomInv, TypeOK, PoseType, ThisView, Poses
    <2>2. PoseType'
      BY PoseTypeStep
    <2>3. \A e \in Eyes : DrawEye(e, Reprojection(e, history')) \in Pictures
      BY <2>1, <2>2, DrawnTyped
    <2> QED
      BY <1>1, <2>3 DEF RenderFrame
  <1>2. CASE UNCHANGED drawn
    BY <1>2 DEF TypeOK
  <1> QED
    BY <1>1, <1>2, OnlyRenderDraws

-----------------------------------------------------------------------------
(* The parts of the invariant.                                             *)

\* Only the beginning of a frame leads into one, and only its end counts a view.
LEMMA RoomStep ==
  ASSUME TypeOK, RoomInv, [Next]_vars
  PROVE  RoomInv'
  <1> USE DEF TypeOK, PoseType, RoomInv
  <1>1. CASE InitializeFails
    BY <1>1 DEF InitializeFails, At, Goto, poseVars
  <1>2. CASE Initialize
    BY <1>2 DEF Initialize, At, Goto, poseVars
  <1>3. CASE DrainLooper
    BY <1>3 DEF DrainLooper, At, Goto, poseVars
  <1>4. CASE PollEvent
    BY <1>4 DEF PollEvent, At, BeginSession, EndSession, poseVars
  <1>5. CASE PolledEvents
    BY <1>5 DEF PolledEvents, At, Goto, poseVars
  <1>6. CASE WaitFrame
    BY <1>6, BoundsAssumption DEF WaitFrame, At, Goto, Poses, poseVars
  <1>7. CASE AttachEyeTexture
    BY <1>7 DEF AttachEyeTexture, At, NextEye, poseVars
  <1>8. CASE AttachedEyeTextures
    BY <1>8 DEF AttachedEyeTextures, At, Goto, poseVars
  <1>9. CASE UpdateTexImage
    BY <1>9 DEF UpdateTexImage, At, poseVars
  <1>10. CASE ReadTag
    BY <1>10 DEF ReadTag, At, poseVars
  <1>11. CASE SetStatus
    BY <1>11 DEF SetStatus, At, Goto, poseVars
  <1>12. CASE UpdateControllers
    BY <1>12 DEF UpdateControllers, At, Goto, poseVars
  <1>13. CASE EndEmptyFrame
    BY <1>13 DEF EndEmptyFrame, At, Goto, poseVars
  <1>14. CASE RenderFrame
    BY <1>14 DEF RenderFrame, At, Goto, poseVars
  <1>15. CASE Shutdown
    BY <1>15 DEF Shutdown, At, Goto, poseVars
  <1>16. CASE FragmentsArrive
    BY <1>16 DEF FragmentsArrive, poseVars
  <1>17. ASSUME NEW e \in Eyes, NEW p \in Poses, NEW k \in BOOLEAN, OnFrame(e, p, k)
        PROVE  RoomInv'
    BY <1>17 DEF OnFrame, poseVars
  <1>18. ASSUME NEW e \in Eyes, OutputAvailable(e)
        PROVE  RoomInv'
    BY <1>18 DEF OutputAvailable, poseVars
  <1>19. ASSUME NEW e \in Eyes, ReleaseOutput(e)
        PROVE  RoomInv'
    BY <1>19 DEF ReleaseOutput, poseVars
  <1>20. ASSUME NEW e \in Eyes, CodecError(e)
        PROVE  RoomInv'
    BY <1>20 DEF CodecError, poseVars
  <1>21. CASE XrStateChanges
    BY <1>21 DEF XrStateChanges, poseVars
  <1>22. CASE OnDestroy
    BY <1>22 DEF OnDestroy, poseVars
  <1>23. CASE OnDestroyed
    BY <1>23 DEF OnDestroyed, At, poseVars
  <1>24. CASE UNCHANGED vars
    BY <1>24 DEF vars, poseVars
  <1> QED
    BY StreamedAssumption, <1>1, <1>2, <1>3, <1>4, <1>5, <1>6, <1>7, <1>8, <1>9, <1>10,
        <1>11, <1>12, <1>13, <1>14, <1>15, <1>16, <1>17, <1>18, <1>19, <1>20, <1>21,
        <1>22, <1>23, <1>24 DEF Next, Loop, Stream

\* The ring keeps what was sent.
LEMMA RingStep ==
  ASSUME TypeOK, RoomInv, RingInv, [Next]_vars
  PROVE  RingInv'
  <1>1. CASE RenderFrame /\ (host \/ hostAddress)
    <2> DEFINE n == sequence + 1
    <2>1. n \in Nat \ {0} /\ sent \in Seq(Poses) /\ ThisView \in Poses
      BY <1>1, BoundsAssumption DEF RenderFrame, At, RoomInv, TypeOK, PoseType, ThisView, Poses
    <2>2. /\ sequence' = n
          /\ history' = [history EXCEPT ![Slot(n)] = [sequence |-> n, view |-> ThisView]]
          /\ sent' = Append(sent, ThisView)
      BY <1>1 DEF RenderFrame, SubmitPose
    <2>3. Len(sent) = sequence
      BY DEF RingInv
    <2>4. /\ Len(sent') = n
          /\ sent'[n] = ThisView
          /\ \A m \in 1 .. Len(sent) : sent'[m] = sent[m]
      BY <2>1, <2>2, <2>3
    <2>5. DOMAIN history = 0 .. HistorySize - 1 /\ DOMAIN history' = DOMAIN history
      BY <2>2 DEF TypeOK, PoseType
    <2> HIDE DEF n
    <2>6. ASSUME NEW i \in DOMAIN history, history'[i].sequence # 0
          PROVE  /\ history'[i].sequence \in 1 .. Len(sent')
                 /\ history'[i].view = sent'[history'[i].sequence]
      <3>1. CASE i = Slot(n)
        <4>1. history'[i] = [sequence |-> n, view |-> ThisView]
          BY <2>2, <3>1
        <4> QED
          BY <4>1, <2>1, <2>4
      <3>2. CASE i # Slot(n)
        <4>1. history'[i] = history[i]
          BY <2>2, <3>2
        <4>2. history[i].sequence \in 1 .. Len(sent)
              /\ history[i].view = sent[history[i].sequence]
          BY <2>6, <4>1 DEF RingInv
        <4>3. Len(sent') = Len(sent) + 1 /\ Len(sent) \in Nat
          BY <2>1, <2>2
        <4> QED
          BY <4>1, <4>2, <4>3, <2>4
      <3> QED
        BY <3>1, <3>2
    <2> QED
      BY <2>2, <2>4, <2>5, <2>6 DEF RingInv
  <1>2. CASE UNCHANGED <<sent, sequence, history>>
    BY <1>2 DEF RingInv
  <1>3. RenderFrame /\ ~(host \/ hostAddress) => UNCHANGED <<sent, sequence, history>>
    BY DEF RenderFrame, SubmitPose
  <1> QED
    BY <1>1, <1>2, <1>3, OnlyRenderDraws

\* Frames stay in order.
LEMMA OrderStep ==
  ASSUME TypeOK, OrderInv, [Next]_vars
  PROVE  OrderInv'
  <1> USE DEF TypeOK, StreamType, OrderInv
  <1>1. CASE InitializeFails
    BY <1>1 DEF InitializeFails, At, Goto, codecVars, streamVars
  <1>2. CASE Initialize
    BY <1>2 DEF Initialize, At, Goto, codecVars, streamVars
  <1>3. CASE DrainLooper
    BY <1>3 DEF DrainLooper, At, Goto, codecVars, streamVars
  <1>4. CASE PollEvent
    BY <1>4 DEF PollEvent, At, BeginSession, EndSession, codecVars, streamVars
  <1>5. CASE PolledEvents
    BY <1>5 DEF PolledEvents, At, Goto, codecVars, streamVars
  <1>6. CASE WaitFrame
    BY <1>6 DEF WaitFrame, At, Goto, codecVars, streamVars
  <1>7. CASE AttachEyeTexture
    BY <1>7 DEF AttachEyeTexture, At, NextEye, codecVars, streamVars
  <1>8. CASE AttachedEyeTextures
    BY <1>8 DEF AttachedEyeTextures, At, Goto, codecVars, streamVars
  <1>9. CASE UpdateTexImage
    BY <1>9 DEF UpdateTexImage, At, codecVars, streamVars
  <1>10. CASE ReadTag
    BY <1>10 DEF ReadTag, At, codecVars, streamVars
  <1>11. CASE SetStatus
    BY <1>11 DEF SetStatus, At, Goto, codecVars, streamVars
  <1>12. CASE UpdateControllers
    BY <1>12 DEF UpdateControllers, At, Goto, codecVars, streamVars
  <1>13. CASE EndEmptyFrame
    BY <1>13 DEF EndEmptyFrame, At, Goto, codecVars, streamVars
  <1>14. CASE RenderFrame
    BY <1>14 DEF RenderFrame, At, Goto, codecVars, streamVars
  <1>15. CASE Shutdown
    BY <1>15 DEF Shutdown, At, Goto, codecVars, streamVars
  <1>16. CASE FragmentsArrive
    BY <1>16 DEF FragmentsArrive, codecVars, streamVars
  <1>17. ASSUME NEW e \in Eyes, NEW p \in Poses, NEW k \in BOOLEAN, OnFrame(e, p, k)
        PROVE  OrderInv'
    <2> SUFFICES ASSUME NEW g \in Eyes
                 PROVE  /\ \A i, j \in DOMAIN codec'[g] : i < j => codec'[g][i] <= codec'[g][j]
                        /\ \A i \in DOMAIN codec'[g] :
                             lastRendered[g] <= codec'[g][i] /\ codec'[g][i] <= arrived'[g]
                        /\ rendering[g] <= lastRendered[g] /\ surface[g] <= lastRendered[g]
                        /\ lastRendered[g] <= arrived'[g]
      BY <1>17 DEF OnFrame, OrderInv
    <2>1. /\ codec[g] \in Seq(Poses) /\ arrived[g] \in Nat /\ lastRendered[g] \in Nat
          /\ p \in Nat /\ \A i \in DOMAIN codec[g] : codec[g][i] \in Nat
      <3>1. codec[g] \in Seq(Poses)
        OBVIOUS
      <3>2. arrived[g] \in Nat /\ lastRendered[g] \in Nat /\ p \in Nat
        BY DEF Poses
      <3> QED
        BY <3>1, <3>2, PosesIn
    <2>2. arrived'[g] = IF g = e THEN p ELSE arrived[g]
      BY <1>17 DEF OnFrame
    <2>3. arrived[e] <= p
      BY <1>17 DEF OnFrame, PoseType, Poses
    <2>4. CASE codec'[g] = codec[g]
      BY <2>1, <2>2, <2>3, <2>4
    <2>5. CASE g = e /\ codec'[g] = Append(codec[g], p)
      <3>1. \A i \in DOMAIN codec'[g] :
              \/ i \in DOMAIN codec[g] /\ codec'[g][i] = codec[g][i]
              \/ i = Len(codec[g]) + 1 /\ codec'[g][i] = p
        BY <2>1, <2>5
      <3>2. \A i \in DOMAIN codec'[g] : codec'[g][i] <= p
        BY <2>1, <2>3, <2>5, <3>1
      <3>3. \A i \in DOMAIN codec[g] : i \in 1 .. Len(codec[g]) /\ Len(codec[g]) \in Nat
        BY <2>1
      <3>4. ASSUME NEW i \in DOMAIN codec'[g], NEW j \in DOMAIN codec'[g], i < j
            PROVE  codec'[g][i] <= codec'[g][j]
        <4>1. CASE codec'[g][j] = p
          BY <3>2, <4>1
        <4>2. CASE j \in DOMAIN codec[g] /\ codec'[g][j] = codec[g][j]
          <5>1. i \in DOMAIN codec[g] /\ codec'[g][i] = codec[g][i]
            BY <3>1, <3>3, <3>4, <4>2
          <5> QED
            BY <3>4, <4>2, <5>1
        <4> QED
          BY <3>1, <4>1, <4>2
      <3>5. \A i \in DOMAIN codec'[g] : lastRendered[g] <= codec'[g][i]
        BY <2>1, <2>3, <2>5, <3>1
      <3> QED
        BY <2>1, <2>2, <2>3, <2>5, <3>2, <3>4, <3>5
    <2> QED
      BY <1>17, <2>4, <2>5 DEF OnFrame
  <1>18. ASSUME NEW e \in Eyes, OutputAvailable(e)
        PROVE  OrderInv'
    <2> DEFINE q == codec[e]
    <2>1. q \in Seq(Poses) /\ q # <<>>
      BY <1>18 DEF OutputAvailable
    <2>2. /\ Head(q) = q[1] /\ 1 \in DOMAIN q /\ q[1] \in Nat
          /\ \A i \in DOMAIN Tail(q) : i + 1 \in DOMAIN q /\ Tail(q)[i] = q[i + 1] /\ i \in Nat \ {0}
      BY <2>1, PosesIn
    <2> HIDE DEF q
    <2>3. /\ codec' = [codec EXCEPT ![e] = Tail(q)]
          /\ rendering' = [rendering EXCEPT ![e] = q[1]]
          /\ lastRendered' = [lastRendered EXCEPT ![e] = q[1]]
          /\ UNCHANGED <<surface, arrived>>
      BY <1>18, <2>2 DEF OutputAvailable, streamVars, q
    <2>4. /\ \A i, j \in DOMAIN q : i < j => q[i] <= q[j]
          /\ \A i \in DOMAIN q : lastRendered[e] <= q[i] /\ q[i] <= arrived[e]
          /\ surface[e] <= lastRendered[e]
      BY DEF q
    <2>5. /\ \A i, j \in DOMAIN Tail(q) : i < j => Tail(q)[i] <= Tail(q)[j]
          /\ \A i \in DOMAIN Tail(q) : q[1] <= Tail(q)[i] /\ Tail(q)[i] <= arrived[e]
      <3>1. ASSUME NEW i \in DOMAIN Tail(q), NEW j \in DOMAIN Tail(q), i < j
            PROVE  Tail(q)[i] <= Tail(q)[j]
        <4>1. i + 1 \in DOMAIN q /\ j + 1 \in DOMAIN q /\ i + 1 < j + 1
          BY <2>2, <3>1
        <4> QED
          BY <2>2, <2>4, <4>1
      <3>2. ASSUME NEW i \in DOMAIN Tail(q)
            PROVE  q[1] <= Tail(q)[i] /\ Tail(q)[i] <= arrived[e]
        <4>1. i + 1 \in DOMAIN q /\ 1 < i + 1 /\ Tail(q)[i] = q[i + 1]
          BY <2>2
        <4> QED
          BY <2>2, <2>4, <4>1
      <3> QED
        BY <3>1, <3>2
    <2>6. surface[e] \in Int /\ lastRendered[e] \in Nat /\ q[1] <= q[1]
      BY <2>2 DEF Images, NoImage, Poses
    <2>7. surface[e] <= q[1] /\ q[1] <= arrived[e]
      BY <2>2, <2>4, <2>6
    <2>8. ASSUME NEW g \in Eyes
          PROVE  /\ \A i, j \in DOMAIN codec'[g] : i < j => codec'[g][i] <= codec'[g][j]
                 /\ \A i \in DOMAIN codec'[g] :
                      lastRendered'[g] <= codec'[g][i] /\ codec'[g][i] <= arrived[g]
                 /\ rendering'[g] <= lastRendered'[g] /\ surface[g] <= lastRendered'[g]
                 /\ lastRendered'[g] <= arrived[g]
      <3>1. CASE g = e
        <4>1. codec'[g] = Tail(q) /\ rendering'[g] = q[1] /\ lastRendered'[g] = q[1]
          BY <2>3, <3>1
        <4> QED
          BY <2>5, <2>6, <2>7, <3>1, <4>1
      <3>2. CASE g # e
        <4>1. /\ codec'[g] = codec[g] /\ rendering'[g] = rendering[g]
              /\ lastRendered'[g] = lastRendered[g]
          BY <2>3, <3>2
        <4> QED
          BY <4>1
      <3> QED
        BY <3>1, <3>2
    <2> QED
      BY <2>3, <2>8
  <1>19. ASSUME NEW e \in Eyes, ReleaseOutput(e)
        PROVE  OrderInv'
    <2>1. \A g \in Eyes : /\ surface'[g] = IF g = e THEN rendering[e] ELSE surface[g]
                          /\ rendering'[g] = IF g = e THEN NoImage ELSE rendering[g]
                          /\ NoImage <= lastRendered[g]
      BY <1>19 DEF ReleaseOutput, NoImage, Poses
    <2> QED
      BY <1>19, <2>1 DEF ReleaseOutput, streamVars
  <1>20. ASSUME NEW e \in Eyes, CodecError(e)
        PROVE  OrderInv'
    BY <1>20 DEF CodecError, codecVars, streamVars
  <1>21. CASE XrStateChanges
    BY <1>21 DEF XrStateChanges, codecVars, streamVars
  <1>22. CASE OnDestroy
    BY <1>22 DEF OnDestroy, codecVars, streamVars
  <1>23. CASE OnDestroyed
    <2>1. \A g \in Eyes : codec'[g] = <<>> /\ rendering'[g] = NoImage
                          /\ NoImage <= lastRendered[g]
      BY <1>23 DEF OnDestroyed, NoImage, Poses
    <2> QED
      BY <1>23, <2>1 DEF OnDestroyed, streamVars
  <1>24. CASE UNCHANGED vars
    BY <1>24 DEF vars, codecVars, streamVars
  <1> QED
    BY StreamedAssumption, <1>1, <1>2, <1>3, <1>4, <1>5, <1>6, <1>7, <1>8, <1>9, <1>10,
        <1>11, <1>12, <1>13, <1>14, <1>15, <1>16, <1>17, <1>18, <1>19, <1>20, <1>21,
        <1>22, <1>23, <1>24 DEF Next, Loop, Stream

\* Tags are not older than images, but for the eye that is between the two.
LEMMA TagStep ==
  ASSUME TypeOK, OrderInv, TagInv, [Next]_vars
  PROVE  TagInv'
  <1> USE DEF TypeOK, LoopType, StreamType, TagInv
  <1>1. CASE InitializeFails
    BY <1>1 DEF InitializeFails, At, Goto, latchVars, codecVars
  <1>2. CASE Initialize
    BY <1>2 DEF Initialize, At, Goto, latchVars, codecVars
  <1>3. CASE DrainLooper
    BY <1>3 DEF DrainLooper, At, Goto, latchVars, codecVars
  <1>4. CASE PollEvent
    BY <1>4 DEF PollEvent, At, BeginSession, EndSession, latchVars, codecVars
  <1>5. CASE PolledEvents
    BY <1>5 DEF PolledEvents, At, Goto, latchVars, codecVars
  <1>6. CASE WaitFrame
    BY <1>6 DEF WaitFrame, At, Goto, latchVars, codecVars
  <1>7. CASE AttachEyeTexture
    BY <1>7 DEF AttachEyeTexture, At, NextEye, latchVars, codecVars
  <1>8. CASE AttachedEyeTextures
    BY <1>8 DEF AttachedEyeTextures, At, Goto, latchVars, codecVars
  <1>9. CASE UpdateTexImage
    <2>1. \A g \in Eyes : shown'[g] = IF g = eye THEN surface[g] ELSE shown[g]
      BY <1>9 DEF UpdateTexImage
    <2>2. \A g \in Eyes : surface[g] <= lastRendered[g]
      BY DEF OrderInv
    <2> QED
      BY <1>9, <2>1, <2>2 DEF UpdateTexImage, At, codecVars
  <1>10. CASE ReadTag
    <2> SUFFICES ASSUME NEW g \in Eyes
                 PROVE  displayed'[g] <= lastRendered[g] /\ shown[g] <= displayed'[g]
      BY <1>10 DEF ReadTag, codecVars
    <2>1. /\ shown[g] \in Int /\ displayed[g] \in Nat /\ lastRendered[g] \in Nat
          /\ shown[g] <= lastRendered[g] /\ displayed[g] <= lastRendered[g]
      BY DEF Images, NoImage, Poses
    <2>2. CASE g = eye
      <3>1. displayed'[g] = IF lastRendered[g] > 0 THEN lastRendered[g] ELSE displayed[g]
        BY <1>10, <2>2 DEF ReadTag, TagRendered
      <3> QED
        BY <2>1, <3>1
    <2>3. CASE g # eye
      <3>1. displayed'[g] = displayed[g]
        BY <1>10, <2>3 DEF ReadTag
      <3> QED
        BY <1>10, <2>1, <2>3, <3>1
    <2> QED
      BY <2>2, <2>3
  <1>11. CASE SetStatus
    BY <1>11 DEF SetStatus, At, Goto, latchVars, codecVars
  <1>12. CASE UpdateControllers
    BY <1>12 DEF UpdateControllers, At, Goto, latchVars, codecVars
  <1>13. CASE EndEmptyFrame
    BY <1>13 DEF EndEmptyFrame, At, Goto, latchVars, codecVars
  <1>14. CASE RenderFrame
    BY <1>14 DEF RenderFrame, At, Goto, latchVars, codecVars
  <1>15. CASE Shutdown
    BY <1>15 DEF Shutdown, At, Goto, latchVars, codecVars
  <1>16. CASE FragmentsArrive
    BY <1>16 DEF FragmentsArrive, latchVars, codecVars
  <1>17. ASSUME NEW e \in Eyes, NEW p \in Poses, NEW k \in BOOLEAN, OnFrame(e, p, k)
        PROVE  TagInv'
    BY <1>17 DEF OnFrame, latchVars, codecVars
  <1>18. ASSUME NEW e \in Eyes, OutputAvailable(e)
        PROVE  TagInv'
    <2>1. /\ Head(codec[e]) = codec[e][1] /\ 1 \in DOMAIN codec[e]
          /\ Head(codec[e]) \in Nat
      BY <1>18, PosesIn DEF OutputAvailable
    <2>2. lastRendered[e] <= Head(codec[e])
      BY <2>1 DEF OrderInv
    <2>3. \A g \in Eyes : lastRendered[g] \in Nat /\ shown[g] \in Int /\ displayed[g] \in Nat
      BY DEF Images, NoImage, Poses
    <2>4. \A g \in Eyes : lastRendered'[g] = IF g = e THEN Head(codec[e]) ELSE lastRendered[g]
      BY <1>18 DEF OutputAvailable
    <2>5. \A g \in Eyes : lastRendered'[g] \in Nat /\ lastRendered[g] <= lastRendered'[g]
      BY <2>1, <2>2, <2>3, <2>4
    <2> QED
      BY <1>18, <2>3, <2>5 DEF OutputAvailable, latchVars
  <1>19. ASSUME NEW e \in Eyes, ReleaseOutput(e)
        PROVE  TagInv'
    BY <1>19 DEF ReleaseOutput, latchVars, codecVars
  <1>20. ASSUME NEW e \in Eyes, CodecError(e)
        PROVE  TagInv'
    BY <1>20 DEF CodecError, latchVars, codecVars
  <1>21. CASE XrStateChanges
    BY <1>21 DEF XrStateChanges, latchVars, codecVars
  <1>22. CASE OnDestroy
    BY <1>22 DEF OnDestroy, latchVars, codecVars
  <1>23. CASE OnDestroyed
    BY <1>23 DEF OnDestroyed, At, latchVars, codecVars
  <1>24. CASE UNCHANGED vars
    BY <1>24 DEF vars, latchVars, codecVars
  <1> QED
    BY StreamedAssumption, <1>1, <1>2, <1>3, <1>4, <1>5, <1>6, <1>7, <1>8, <1>9, <1>10,
        <1>11, <1>12, <1>13, <1>14, <1>15, <1>16, <1>17, <1>18, <1>19, <1>20, <1>21,
        <1>22, <1>23, <1>24 DEF Next, Loop, Stream

\* A warp is from the views that were sent as its pose.
LEMMA WarpStep ==
  ASSUME TypeOK, RoomInv, RingInv, WarpIsOfItsPose, [Next]_vars
  PROVE  WarpIsOfItsPose'
  <1>1. CASE RenderFrame
    <2>1. PoseType' /\ RingInv'
      BY PoseTypeStep, RingStep
    <2> SUFFICES ASSUME NEW e \in Eyes, drawn'[e].warp.valid
                 PROVE  drawn'[e].tag \in 1 .. Len(sent') /\ drawn'[e].warp.from = sent'[drawn'[e].tag]
      BY DEF WarpIsOfItsPose
    <2>2. drawn'[e] = DrawEye(e, Reprojection(e, history'))
      BY <1>1 DEF RenderFrame
    <2>3. drawn'[e].tag = displayed[e] /\ drawn'[e].warp = Reprojection(e, history')
      BY <2>2 DEF DrawEye, Pattern, NoWarp
    <2>4. /\ displayed[e] # 0 /\ history'[Slot(displayed[e])].sequence = displayed[e]
          /\ drawn'[e].warp.from = history'[Slot(displayed[e])].view
      BY <2>3 DEF Reprojection, LookupPose, NoWarp
    <2>5. Slot(displayed[e]) \in DOMAIN history'
      <3>1. displayed[e] \in Nat
        BY DEF TypeOK, StreamType, Poses
      <3>2. DOMAIN history' = 0 .. HistorySize - 1
        BY <2>1 DEF PoseType
      <3> QED
        BY <3>1, <3>2, SlotInRing
    <2> QED
      BY <2>1, <2>3, <2>4, <2>5 DEF RingInv
  <1>2. CASE UNCHANGED <<drawn, sent>>
    BY <1>2 DEF WarpIsOfItsPose
  <1> QED
    BY <1>1, <1>2, OnlyRenderDraws

\* The last tag of a decoder only grows.
LEMMA RenderedGrows ==
  ASSUME TypeOK, OrderInv, [Next]_vars
  PROVE  \A e \in Eyes : /\ lastRendered[e] \in Nat /\ lastRendered'[e] \in Nat
                         /\ lastRendered[e] <= lastRendered'[e]
  <1> USE DEF TypeOK, StreamType
  <1>1. CASE UNCHANGED lastRendered
    BY <1>1 DEF Poses
  <1>2. ASSUME NEW e \in Eyes, OutputAvailable(e)
        PROVE  \A g \in Eyes : /\ lastRendered[g] \in Nat /\ lastRendered'[g] \in Nat
                               /\ lastRendered[g] <= lastRendered'[g]
    <2>1. Head(codec[e]) = codec[e][1] /\ 1 \in DOMAIN codec[e] /\ Head(codec[e]) \in Nat
      BY <1>2, PosesIn DEF OutputAvailable
    <2>2. lastRendered[e] <= Head(codec[e])
      BY <2>1 DEF OrderInv
    <2> QED
      BY <1>2, <2>1, <2>2 DEF OutputAvailable, Poses
  <1>3. (\A e \in Eyes : ~OutputAvailable(e)) => UNCHANGED lastRendered
    BY StreamedAssumption DEF Next, Loop, Stream, InitializeFails, Initialize, DrainLooper,
       PollEvent, PolledEvents, WaitFrame, AttachEyeTexture, AttachedEyeTextures, UpdateTexImage,
       ReadTag, SetStatus, UpdateControllers, EndEmptyFrame, RenderFrame, Shutdown,
       FragmentsArrive, OnFrame, ReleaseOutput, CodecError, XrStateChanges, OnDestroy,
       OnDestroyed, vars, codecVars
  <1> QED
    BY <1>1, <1>2, <1>3

\* An eye that shows video has a tag that is not older.
LEMMA PictureStep ==
  ASSUME TypeOK, OrderInv, TagInv, TagIsOfARenderedFrame, [Next]_vars
  PROVE  TagIsOfARenderedFrame'
  <1>1. CASE RenderFrame
    <2> SUFFICES ASSUME NEW e \in Eyes, drawn'[e].video
                 PROVE  drawn'[e].image <= drawn'[e].tag /\ drawn'[e].tag <= lastRendered'[e]
      BY DEF TagIsOfARenderedFrame
    <2>1. drawn'[e] = DrawEye(e, Reprojection(e, history'))
      BY <1>1 DEF RenderFrame
    <2>2. drawn'[e].image = shown[e] /\ drawn'[e].tag = displayed[e]
      BY <2>1 DEF DrawEye, Pattern
    <2>3. shown[e] <= displayed[e] /\ displayed[e] <= lastRendered[e]
      BY <1>1 DEF RenderFrame, At, TagInv
    <2>4. lastRendered' = lastRendered
      BY <1>1 DEF RenderFrame, codecVars
    <2> QED
      BY <2>2, <2>3, <2>4
  <1>2. CASE UNCHANGED drawn
    <2>1. \A e \in Eyes : drawn[e].tag \in Nat
      BY DEF TypeOK, Pictures, Poses
    <2> QED
      BY <1>2, <2>1, RenderedGrows DEF TagIsOfARenderedFrame
  <1> QED
    BY <1>1, <1>2, OnlyRenderDraws

-----------------------------------------------------------------------------
(* Theorems.                                                               *)

\* The first state satisfies the inductive invariant.
LEMMA InitIInv ==
  ASSUME Init
  PROVE  IInv
  <1> USE DEF Init
  <1>1. 0 \in Poses /\ NoImage \in Images
    BY BoundsAssumption DEF Poses, Images
  <1>2. LoopType
    <2>1. events \in Seq({"READY", "STOPPING", "EXITING", "LOSS_PENDING"})
      OBVIOUS
    <2>2. /\ sessionRunning \in BOOLEAN /\ exitRequested \in BOOLEAN
          /\ destroyRequested \in BOOLEAN /\ texturesAttached \in BOOLEAN
          /\ texturesReady \in BOOLEAN /\ videoProgram \in BOOLEAN
          /\ everReceivedFrame \in BOOLEAN
      BY Zenon
    <2>3. changes \in 0 .. MaxChanges /\ eye \in Eyes /\ status \in Statuses
      BY BoundsAssumption DEF Eyes, Statuses
    <2> QED
      BY <2>1, <2>2, <2>3 DEF LoopType
  <1>3. StreamType
    <2>1. codec \in [Eyes -> Seq(Poses)]
      OBVIOUS
    <2> QED
      BY <1>1, <2>1 DEF StreamType
  <1>4. PoseType
    <2>1. sent \in Seq(Poses)
      OBVIOUS
    <2>2. /\ history \in [0 .. HistorySize - 1 -> [sequence : Poses, view : Poses]]
          /\ packet \in [view : Poses, hands : Poses, synced : BOOLEAN]
      BY <1>1 DEF NoSlot
    <2>3. host \in BOOLEAN /\ synced \in BOOLEAN
      BY Zenon
    <2>4. sequence \in 0 .. view
      OBVIOUS
    <2> QED
      BY <1>1, <2>1, <2>2, <2>3, <2>4 DEF PoseType
  <1>5. Pattern \in Pictures
    BY <1>1 DEF Pattern, Pictures, NoWarp, Warps
  <1>6. TypeOK
    BY <1>2, <1>3, <1>4, <1>5 DEF TypeOK
  <1>7. RoomInv /\ RingInv
    BY SizeAssumption DEF RoomInv, RingInv, NoSlot
  <1>8. OrderInv /\ TagInv
    BY DEF OrderInv, TagInv, NoImage
  <1>9. WarpIsOfItsPose /\ TagIsOfARenderedFrame
    BY DEF WarpIsOfItsPose, TagIsOfARenderedFrame, Pattern, NoWarp
  <1> QED
    BY <1>6, <1>7, <1>8, <1>9 DEF IInv

\* Every step keeps the inductive invariant.
LEMMA NextIInv ==
  ASSUME IInv, [Next]_vars
  PROVE  IInv'
  <1>1. TypeOK'
    BY LoopTypeStep, StreamTypeStep, PoseTypeStep, DrawnStep DEF IInv, TypeOK
  <1>2. RoomInv' /\ RingInv'
    BY RoomStep, RingStep DEF IInv
  <1>3. OrderInv' /\ TagInv'
    BY OrderStep, TagStep DEF IInv
  <1>4. WarpIsOfItsPose' /\ TagIsOfARenderedFrame'
    BY WarpStep, PictureStep DEF IInv
  <1> QED
    BY <1>1, <1>2, <1>3, <1>4 DEF IInv

\* What the properties below follow from holds in every state.
THEOREM Invariance == Spec => []IInv
  BY InitIInv, NextIInv, PTL DEF Spec

\* The state stays what the code can give it (XrApp, VrActivity, PoseSender).
THEOREM TypeCorrect == Spec => []TypeOK
  <1>1. IInv => TypeOK
    BY DEF IInv
  <1> QED
    BY <1>1, Invariance, PTL

\* For a ring of any size: an eye is warped from the views that were sent as the pose its
\* tag names, or not at all (PoseSender.send, PoseSender.lookupPose, UpdateReprojection).
THEOREM WarpsFromItsPose == Spec => []WarpIsOfItsPose
  <1>1. IInv => WarpIsOfItsPose
    BY DEF IInv
  <1> QED
    BY <1>1, Invariance, PTL

\* The tag an eye is warped by is never older than its image, nor newer than what its
\* decoder has rendered (VrActivity.updateEyeTextures, VideoDecoder's callback).
THEOREM TagsFollowImages == Spec => []TagIsOfARenderedFrame
  <1>1. IInv => TagIsOfARenderedFrame
    BY DEF IInv
  <1> QED
    BY <1>1, Invariance, PTL
=============================================================================
