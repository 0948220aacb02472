------------------------ MODULE XrApplication_proof ------------------------
(* Proofs about XrApplication, for every configured bitrate, its limits, and   *)
(* every bound on frames and poses.                                            *)
EXTENDS XrApplication, TLAPS

USE DEF At, Goto, appVars, loopVars, eventVars, rateVars, imageVars

-----------------------------------------------------------------------------
(* Bitrates.                                                                   *)

\* A clamped bitrate is between the limits.
LEMMA ClampedType == ASSUME NEW r \in Nat PROVE Clamped(r) \in MinRate .. MaxRate
  BY RateAssumption DEF Clamped, Lower, Higher

\* Going down never raises a bitrate, and going up never lowers it.
LEMMA DownIsDown ==
  ASSUME NEW r \in MinRate .. MaxRate PROVE Down(r) \in Nat /\ Clamped(Down(r)) <= r
  BY RateAssumption DEF Down, Clamped, Lower, Higher

LEMMA UpIsUp ==
  ASSUME NEW r \in MinRate .. MaxRate PROVE Up(r) \in Nat /\ Clamped(Up(r)) >= r
  BY RateAssumption DEF Up, Clamped, Lower, Higher

-----------------------------------------------------------------------------
(* Types.                                                                      *)

LEMMA FlagsStep == FlagsType /\ [Next]_vars => FlagsType'
  <1> SUFFICES ASSUME FlagsType, [Next]_vars PROVE FlagsType'
    OBVIOUS
  <1> USE DEF FlagsType
  <1>1. CASE SetupFails
    BY <1>1, Zenon DEF SetupFails, Setup, Dies
  <1>2. CASE CreateInstanceAndSystem
    BY <1>2, Zenon DEF CreateInstanceAndSystem
  <1>3. CASE CreateSession
    BY <1>3, Zenon DEF CreateSession, QueueSessionState
  <1>4. CASE CreateSpacesAndSwapchains
    BY <1>4, Zenon DEF CreateSpacesAndSwapchains, FreshSwapchain, Blank
  <1>5. CASE CreateActions
    BY <1>5, Zenon DEF CreateActions
  <1>6. CASE RequestExitSession
    BY <1>6, Zenon DEF RequestExitSession, QueueSessionState
  <1>7. CASE ProcessEvents
    BY <1>7, Zenon DEF ProcessEvents
  <1>8. CASE PumpEvent
    <2>1. CASE Head(events) = "READY" /\ ~sessionRunning
      BY <1>8, <2>1, Zenon DEF PumpEvent, NextEvent, BeginSession
    <2>2. CASE Head(events) = "STOPPING" /\ running
      BY <1>8, <2>2, Zenon DEF PumpEvent, NextEvent, EndSession
    <2> QED
      BY <1>8, <2>1, <2>2 DEF PumpEvent, NextEvent, EndSession
  <1>9. CASE PumpedEvents
    BY <1>9, Zenon DEF PumpedEvents
  <1>10. CASE HarnessBegins
    BY <1>10, Zenon DEF HarnessBegins, BeginSession
  <1>11. CASE WaitFrame
    BY <1>11, Zenon DEF WaitFrame, AdaptBitrate, Considered
  <1>12. CASE WaitFrameFails
    BY <1>12, Zenon DEF WaitFrameFails, Dies
  <1>13. CASE BeginFrame
    BY <1>13, Zenon DEF BeginFrame
  <1>14. CASE LocateViews
    BY <1>14, Zenon DEF LocateViews
  <1>15. CASE AcquireSwapchainImage
    BY <1>15, Zenon DEF AcquireSwapchainImage, Acquire
  <1>16. CASE RenderEye
    BY <1>16, Zenon DEF RenderEye
  <1>17. CASE ReleaseSwapchainImage
    BY <1>17, Zenon DEF ReleaseSwapchainImage, Release
  <1>18. CASE EndFrameOnLostDevice
    BY <1>18, Zenon DEF EndFrameOnLostDevice, EndingFrame
  <1>19. CASE EndFrameWithoutLayer
    BY <1>19, Zenon DEF EndFrameWithoutLayer, EndingFrame, NextFrame
  <1>20. CASE EndFrame
    BY <1>20, Zenon DEF EndFrame, EndingFrame, EncodeEyes, NextFrame
  <1>21. ASSUME NEW e \in Eyes, EndFrameFails(e) PROVE FlagsType'
    BY <1>21, Zenon DEF EndFrameFails, EndingFrame, EncodeEyes, EncodeFailed, NextFrame, Dies
  <1>22. CASE LoseDevice
    BY <1>22, Zenon DEF LoseDevice
  <1>23. CASE HarnessLeaves
    BY <1>23, Zenon DEF HarnessLeaves
  <1>24. CASE HarnessEndsSession
    BY <1>24, Zenon DEF HarnessEndsSession, EndSession
  <1>25. CASE Teardown
    BY <1>25, Zenon DEF Teardown
  <1>26. CASE UNCHANGED vars
    BY <1>26, Zenon DEF vars
  <1> QED
    BY <1>1, <1>2, <1>3, <1>4, <1>5, <1>6, <1>7, <1>8, <1>9, <1>10, <1>11,
       <1>12, <1>13, <1>14, <1>15, <1>16, <1>17, <1>18, <1>19, <1>20,
       <1>21, <1>22, <1>23, <1>24, <1>25, <1>26
    DEF Next, Setups, Loop, Frame, Leave

LEMMA ThreeInSeq ==
  ASSUME NEW S, NEW a \in S, NEW b \in S, NEW c \in S PROVE <<a, b, c>> \in Seq(S)
  OBVIOUS

LEMMA ConcatInSeq ==
  ASSUME NEW S, NEW s \in Seq(S), NEW t \in Seq(S) PROVE s \o t \in Seq(S)
  OBVIOUS

\* A frame that ends is within the bound.
LEMMA LoopStep == LoopType /\ BoundInv /\ [Next]_vars => LoopType'
  <1> SUFFICES ASSUME LoopType, BoundInv, [Next]_vars PROVE LoopType'
    OBVIOUS
  <1> USE BoundsAssumption DEF LoopType, Calls, Setup, States
  <1>0. at = "end" => frames + 1 \in 0 .. MaxFrames
    BY DEF BoundInv, Drawing
  <1>1. CASE SetupFails
    BY <1>1 DEF SetupFails, Setup, Dies
  <1>2. CASE CreateInstanceAndSystem
    BY <1>2 DEF CreateInstanceAndSystem
  <1>3. CASE CreateSession
    BY <1>3 DEF CreateSession, QueueSessionState
  <1>4. CASE CreateSpacesAndSwapchains
    BY <1>4 DEF CreateSpacesAndSwapchains, FreshSwapchain, Blank
  <1>5. CASE CreateActions
    BY <1>5 DEF CreateActions
  <1>6. CASE RequestExitSession
    BY <1>6 DEF RequestExitSession, QueueSessionState
  <1>7. CASE ProcessEvents
    BY <1>7 DEF ProcessEvents
  <1>8. CASE PumpEvent
    <2>1. Tail(events) \in Seq(States)
      BY <1>8
      DEF PumpEvent
    <2>a. <<"SYNCHRONIZED", "VISIBLE", "FOCUSED">> \in Seq(States)
      BY ThreeInSeq
    <2>2. Tail(events) \o <<"SYNCHRONIZED", "VISIBLE", "FOCUSED">> \in Seq(States)
      BY <2>1, <2>a, ConcatInSeq
    <2>3. events' \in Seq(States)
      BY <1>8, <2>1, <2>2 DEF PumpEvent, NextEvent, BeginSession
    <2> QED
      BY <1>8, <2>3 DEF PumpEvent
  <1>9. CASE PumpedEvents
    BY <1>9 DEF PumpedEvents
  <1>10. CASE HarnessBegins
    BY <1>10 DEF HarnessBegins, BeginSession
  <1>11. CASE WaitFrame
    BY <1>11 DEF WaitFrame, AdaptBitrate, Considered
  <1>12. CASE WaitFrameFails
    BY <1>12 DEF WaitFrameFails, Dies
  <1>13. CASE BeginFrame
    BY <1>13 DEF BeginFrame
  <1>14. CASE LocateViews
    BY <1>14 DEF LocateViews
  <1>15. CASE AcquireSwapchainImage
    BY <1>15 DEF AcquireSwapchainImage, Acquire
  <1>16. CASE RenderEye
    BY <1>16 DEF RenderEye
  <1>17. CASE ReleaseSwapchainImage
    BY <1>17 DEF ReleaseSwapchainImage, Release
  <1>18. CASE EndFrameOnLostDevice
    BY <1>18 DEF EndFrameOnLostDevice, EndingFrame
  <1>19. CASE EndFrameWithoutLayer
    BY <1>19, <1>0 DEF EndFrameWithoutLayer, EndingFrame, NextFrame
  <1>20. CASE EndFrame
    BY <1>20, <1>0 DEF EndFrame, EndingFrame, EncodeEyes, NextFrame
  <1>21. ASSUME NEW e \in Eyes, EndFrameFails(e) PROVE LoopType'
    BY <1>21, <1>0 DEF EndFrameFails, EndingFrame, EncodeEyes, EncodeFailed, NextFrame, Dies
  <1>22. CASE LoseDevice
    BY <1>22 DEF LoseDevice
  <1>23. CASE HarnessLeaves
    BY <1>23 DEF HarnessLeaves
  <1>24. CASE HarnessEndsSession
    BY <1>24 DEF HarnessEndsSession, EndSession
  <1>25. CASE Teardown
    BY <1>25 DEF Teardown
  <1>26. CASE UNCHANGED vars
    BY <1>26 DEF vars
  <1> QED
    BY <1>1, <1>2, <1>3, <1>4, <1>5, <1>6, <1>7, <1>8, <1>9, <1>10, <1>11,
       <1>12, <1>13, <1>14, <1>15, <1>16, <1>17, <1>18, <1>19, <1>20,
       <1>21, <1>22, <1>23, <1>24, <1>25, <1>26
    DEF Next, Setups, Loop, Frame, Leave

\* An image drawn in is one of the three.
LEMMA SubmissionType ==
  ASSUME LoopType, ImagesType, NEW e \in Eyes PROVE Submission(e) \in Submissions
  <1>1. swapchains[e] \in Chains
    BY DEF ImagesType
  <1>2. swapchains[e].images[swapchains[e].index] \in Drawings
    BY <1>1 DEF Chains
  <1> QED
    BY <1>2 DEF Submission, Submissions, LoopType

LEMMA EncodeEyesType ==
  ASSUME LoopType, ImagesType, NEW done \in SUBSET Eyes, NEW unstaged \in SUBSET Eyes,
         EncodeEyes(done, unstaged)
  PROVE  ImagesType'
  <1>1. encoded' \in [Eyes -> Submissions]
    BY SubmissionType DEF EncodeEyes, ImagesType
  <1> QED
    BY <1>1 DEF EncodeEyes, ImagesType

LEMMA ImagesStep == ImagesType /\ LoopType /\ [Next]_vars => ImagesType'
  <1> SUFFICES ASSUME ImagesType, LoopType, [Next]_vars PROVE ImagesType'
    OBVIOUS
  <1> USE DEF ImagesType, Eyes
  <1>1. CASE SetupFails
    BY <1>1 DEF SetupFails, Setup, Dies
  <1>2. CASE CreateInstanceAndSystem
    BY <1>2 DEF CreateInstanceAndSystem
  <1>3. CASE CreateSession
    BY <1>3 DEF CreateSession, QueueSessionState
  <1>4. CASE CreateSpacesAndSwapchains
    <2>1. FreshSwapchain \in Chains
      BY BoundsAssumption DEF FreshSwapchain, Blank, Chains, Drawings, Images
    <2> QED
      BY <1>4, <2>1 DEF CreateSpacesAndSwapchains
  <1>5. CASE CreateActions
    BY <1>5 DEF CreateActions
  <1>6. CASE RequestExitSession
    BY <1>6 DEF RequestExitSession, QueueSessionState
  <1>7. CASE ProcessEvents
    BY <1>7 DEF ProcessEvents
  <1>8. CASE PumpEvent
    BY <1>8 DEF PumpEvent, NextEvent, BeginSession, EndSession
  <1>9. CASE PumpedEvents
    BY <1>9 DEF PumpedEvents
  <1>10. CASE HarnessBegins
    BY <1>10 DEF HarnessBegins, BeginSession
  <1>11. CASE WaitFrame
    BY <1>11 DEF WaitFrame, AdaptBitrate, Considered
  <1>12. CASE WaitFrameFails
    BY <1>12 DEF WaitFrameFails, Dies
  <1>13. CASE BeginFrame
    BY <1>13 DEF BeginFrame
  <1>14. CASE LocateViews
    BY <1>14 DEF LocateViews
  <1>15. CASE AcquireSwapchainImage
    <2>1. swapchains[eye] \in Chains
      OBVIOUS
    <2>a. (swapchains[eye].index + 1) % 3 \in Images
      BY <2>1 DEF Chains, Images
    <2>2. Acquire(swapchains[eye]) \in Chains
      BY <2>1, <2>a DEF Acquire, Chains
    <2> QED
      BY <1>15, <2>2 DEF AcquireSwapchainImage
  <1>16. CASE RenderEye
    <2> DEFINE chain == [swapchains[eye] EXCEPT !.images[swapchains[eye].index] =
                           [frame |-> frames + 1, pose |-> view]]
    <2>1. swapchains[eye] \in Chains
      OBVIOUS
    <2>2. [frame |-> frames + 1, pose |-> view] \in Drawings
      BY BoundsAssumption DEF LoopType, Drawings
    <2>3. chain \in Chains
      BY <2>1, <2>2 DEF Chains
    <2>4. swapchains' = [swapchains EXCEPT ![eye] = chain]
      BY <1>16 DEF RenderEye
    <2> HIDE DEF chain
    <2> QED
      BY <1>16, <2>3, <2>4 DEF RenderEye
  <1>17. CASE ReleaseSwapchainImage
    <2>1. Release(swapchains[eye]) \in Chains
      BY DEF Release, Chains
    <2> QED
      BY <1>17, <2>1 DEF ReleaseSwapchainImage
  <1>18. CASE EndFrameOnLostDevice
    BY <1>18 DEF EndFrameOnLostDevice, EndingFrame
  <1>19. CASE EndFrameWithoutLayer
    BY <1>19 DEF EndFrameWithoutLayer, EndingFrame, NextFrame
  <1>20. CASE EndFrame
    BY <1>20, EncodeEyesType DEF EndFrame
  <1>21. ASSUME NEW e \in Eyes, EndFrameFails(e) PROVE ImagesType'
    BY <1>21, EncodeEyesType DEF EndFrameFails
  <1>22. CASE LoseDevice
    BY <1>22 DEF LoseDevice
  <1>23. CASE HarnessLeaves
    BY <1>23 DEF HarnessLeaves
  <1>24. CASE HarnessEndsSession
    BY <1>24 DEF HarnessEndsSession, EndSession
  <1>25. CASE Teardown
    BY <1>25 DEF Teardown
  <1>26. CASE UNCHANGED vars
    BY <1>26 DEF vars
  <1> QED
    BY <1>1, <1>2, <1>3, <1>4, <1>5, <1>6, <1>7, <1>8, <1>9, <1>10, <1>11,
       <1>12, <1>13, <1>14, <1>15, <1>16, <1>17, <1>18, <1>19, <1>20,
       <1>21, <1>22, <1>23, <1>24, <1>25, <1>26
    DEF Next, Setups, Loop, Frame, Leave

LEMMA RateStep == RateType /\ [Next]_vars => RateType'
  <1> SUFFICES ASSUME RateType, [Next]_vars PROVE RateType'
    OBVIOUS
  <1> USE DEF RateType, Eyes
  <1>1. CASE SetupFails
    BY <1>1 DEF SetupFails, Setup, Dies
  <1>2. CASE CreateInstanceAndSystem
    BY <1>2 DEF CreateInstanceAndSystem
  <1>3. CASE CreateSession
    BY <1>3 DEF CreateSession, QueueSessionState
  <1>4. CASE CreateSpacesAndSwapchains
    BY <1>4 DEF CreateSpacesAndSwapchains, FreshSwapchain, Blank
  <1>5. CASE CreateActions
    BY <1>5 DEF CreateActions
  <1>6. CASE RequestExitSession
    BY <1>6 DEF RequestExitSession, QueueSessionState
  <1>7. CASE ProcessEvents
    BY <1>7 DEF ProcessEvents
  <1>8. CASE PumpEvent
    BY <1>8 DEF PumpEvent, NextEvent, BeginSession, EndSession
  <1>9. CASE PumpedEvents
    BY <1>9 DEF PumpedEvents
  <1>10. CASE HarnessBegins
    BY <1>10 DEF HarnessBegins, BeginSession
  <1>11. CASE WaitFrame
    <2>1. PICK r \in 0 .. 1, elapsed \in BOOLEAN : AdaptBitrate(r, elapsed)
      BY <1>11 DEF WaitFrame
    <2>2. requests' \in Nat /\ checked' \in Nat /\ heard' \in Nat
      BY <2>1 DEF AdaptBitrate, Considered
    <2>3. CASE rate = 0
      BY <2>1, <2>2, <2>3, RateAssumption DEF AdaptBitrate
    <2>4. CASE rate # 0 /\ ~elapsed
      BY <2>1, <2>2, <2>4 DEF AdaptBitrate
    <2>5. CASE rate # 0 /\ elapsed
      <3>1. rate \in MinRate .. MaxRate
        BY <2>5
      <3>2. Down(rate) \in Nat /\ Up(rate) \in Nat
        BY <3>1, DownIsDown, UpIsUp
      <3>3. rate' \in MinRate .. MaxRate
        BY <2>1, <2>5, <3>2, ClampedType DEF AdaptBitrate
      <3> QED
        BY <2>1, <2>2, <2>5, <3>3 DEF AdaptBitrate
    <2> QED
      BY <2>3, <2>4, <2>5
  <1>12. CASE WaitFrameFails
    BY <1>12 DEF WaitFrameFails, Dies
  <1>13. CASE BeginFrame
    BY <1>13 DEF BeginFrame
  <1>14. CASE LocateViews
    BY <1>14 DEF LocateViews
  <1>15. CASE AcquireSwapchainImage
    BY <1>15 DEF AcquireSwapchainImage, Acquire
  <1>16. CASE RenderEye
    BY <1>16 DEF RenderEye
  <1>17. CASE ReleaseSwapchainImage
    BY <1>17 DEF ReleaseSwapchainImage, Release
  <1>18. CASE EndFrameOnLostDevice
    BY <1>18 DEF EndFrameOnLostDevice, EndingFrame
  <1>19. CASE EndFrameWithoutLayer
    BY <1>19 DEF EndFrameWithoutLayer, EndingFrame, NextFrame
  <1>20. CASE EndFrame
    BY <1>20 DEF EndFrame, EndingFrame, EncodeEyes, NextFrame
  <1>21. ASSUME NEW e \in Eyes, EndFrameFails(e) PROVE RateType'
    BY <1>21 DEF EndFrameFails, EndingFrame, EncodeEyes, EncodeFailed, NextFrame, Dies
  <1>22. CASE LoseDevice
    BY <1>22 DEF LoseDevice
  <1>23. CASE HarnessLeaves
    BY <1>23 DEF HarnessLeaves
  <1>24. CASE HarnessEndsSession
    BY <1>24 DEF HarnessEndsSession, EndSession
  <1>25. CASE Teardown
    BY <1>25 DEF Teardown
  <1>26. CASE UNCHANGED vars
    BY <1>26 DEF vars
  <1> QED
    BY <1>1, <1>2, <1>3, <1>4, <1>5, <1>6, <1>7, <1>8, <1>9, <1>10, <1>11,
       <1>12, <1>13, <1>14, <1>15, <1>16, <1>17, <1>18, <1>19, <1>20,
       <1>21, <1>22, <1>23, <1>24, <1>25, <1>26
    DEF Next, Setups, Loop, Frame, Leave

LEMMA InitTypes == Init => TypeOK
  <1> SUFFICES ASSUME Init PROVE TypeOK
    OBVIOUS
  <1>1. FreshSwapchain \in Chains /\ Blank \in Drawings
    BY BoundsAssumption DEF FreshSwapchain, Blank, Chains, Drawings, Images
  <1>2. NoFrame \in Submissions
    BY <1>1, BoundsAssumption DEF NoFrame, Submissions
  <1>3. FlagsType
    BY Zenon DEF Init, FlagsType
  <1>4. LoopType
    BY BoundsAssumption DEF Init, LoopType, Calls, Setup
  <1>5. ImagesType
    BY <1>1, <1>2 DEF Init, ImagesType, Eyes
  <1>6. RateType
    BY RateAssumption DEF Init, RateType
  <1> QED
    BY <1>3, <1>4, <1>5, <1>6 DEF TypeOK

-----------------------------------------------------------------------------
(* The order of the calls.                                                     *)

\* What CallInv says of the session, and what it says of the images.
RunInv ==
  process = "running" =>
    /\ at \in {"ready", "end session"} => app = "harness"
    /\ at \in {"loop", "events"} => app # "harness"
    /\ at \in {"instance", "session"} => ~session
    /\ app # "harness" => running = sessionRunning
    /\ at \in FrameCalls => running
    /\ at \in {"locate"} \cup Drawing => frameBegun

AcquireInv ==
  process = "running" =>
    \A e \in Eyes : swapchains[e].acquired <=> at \in {"render", "release"} /\ e = eye

LEMMA CallParts == CallInv <=> RunInv /\ AcquireInv
  BY Zenon DEF CallInv, RunInv, AcquireInv

LEMMA BoundStep == LoopType /\ BoundInv /\ [Next]_vars => BoundInv'
  <1> SUFFICES ASSUME LoopType, BoundInv, [Next]_vars PROVE BoundInv'
    OBVIOUS
  <1> USE BoundsAssumption DEF LoopType, BoundInv, Drawing
  <1>1. CASE SetupFails
    BY <1>1 DEF SetupFails, Setup, Dies
  <1>2. CASE CreateInstanceAndSystem
    BY <1>2 DEF CreateInstanceAndSystem
  <1>3. CASE CreateSession
    BY <1>3 DEF CreateSession, QueueSessionState
  <1>4. CASE CreateSpacesAndSwapchains
    BY <1>4 DEF CreateSpacesAndSwapchains, FreshSwapchain, Blank
  <1>5. CASE CreateActions
    BY <1>5 DEF CreateActions
  <1>6. CASE RequestExitSession
    BY <1>6 DEF RequestExitSession, QueueSessionState
  <1>7. CASE ProcessEvents
    BY <1>7 DEF ProcessEvents
  <1>8. CASE PumpEvent
    BY <1>8 DEF PumpEvent, NextEvent, BeginSession, EndSession
  <1>9. CASE PumpedEvents
    BY <1>9 DEF PumpedEvents
  <1>10. CASE HarnessBegins
    BY <1>10 DEF HarnessBegins, BeginSession
  <1>11. CASE WaitFrame
    BY <1>11 DEF WaitFrame, AdaptBitrate, Considered
  <1>12. CASE WaitFrameFails
    BY <1>12 DEF WaitFrameFails, Dies
  <1>13. CASE BeginFrame
    BY <1>13 DEF BeginFrame
  <1>14. CASE LocateViews
    BY <1>14 DEF LocateViews
  <1>15. CASE AcquireSwapchainImage
    BY <1>15 DEF AcquireSwapchainImage, Acquire
  <1>16. CASE RenderEye
    BY <1>16 DEF RenderEye
  <1>17. CASE ReleaseSwapchainImage
    BY <1>17 DEF ReleaseSwapchainImage, Release
  <1>18. CASE EndFrameOnLostDevice
    BY <1>18 DEF EndFrameOnLostDevice, EndingFrame
  <1>19. CASE EndFrameWithoutLayer
    BY <1>19 DEF EndFrameWithoutLayer, EndingFrame, NextFrame
  <1>20. CASE EndFrame
    BY <1>20 DEF EndFrame, EndingFrame, EncodeEyes, NextFrame
  <1>21. ASSUME NEW e \in Eyes, EndFrameFails(e) PROVE BoundInv'
    BY <1>21 DEF EndFrameFails, EndingFrame, EncodeEyes, EncodeFailed, NextFrame, Dies
  <1>22. CASE LoseDevice
    BY <1>22 DEF LoseDevice
  <1>23. CASE HarnessLeaves
    BY <1>23 DEF HarnessLeaves
  <1>24. CASE HarnessEndsSession
    BY <1>24 DEF HarnessEndsSession, EndSession
  <1>25. CASE Teardown
    BY <1>25 DEF Teardown
  <1>26. CASE UNCHANGED vars
    BY <1>26 DEF vars
  <1> QED
    BY <1>1, <1>2, <1>3, <1>4, <1>5, <1>6, <1>7, <1>8, <1>9, <1>10, <1>11,
       <1>12, <1>13, <1>14, <1>15, <1>16, <1>17, <1>18, <1>19, <1>20,
       <1>21, <1>22, <1>23, <1>24, <1>25, <1>26
    DEF Next, Setups, Loop, Frame, Leave

LEMMA RunStep == TypeOK /\ RunInv /\ [Next]_vars => RunInv'
  <1> SUFFICES ASSUME TypeOK, RunInv, [Next]_vars PROVE RunInv'
    OBVIOUS
  <1> USE DEF TypeOK, FlagsType, LoopType, RunInv, FrameCalls, Drawing
  <1>1. CASE SetupFails
    BY <1>1 DEF SetupFails, Setup, Dies
  <1>2. CASE CreateInstanceAndSystem
    BY <1>2 DEF CreateInstanceAndSystem
  <1>3. CASE CreateSession
    BY <1>3 DEF CreateSession, QueueSessionState
  <1>4. CASE CreateSpacesAndSwapchains
    BY <1>4 DEF CreateSpacesAndSwapchains
  <1>5. CASE CreateActions
    BY <1>5 DEF CreateActions
  <1>6. CASE RequestExitSession
    BY <1>6 DEF RequestExitSession, QueueSessionState
  <1>7. CASE ProcessEvents
    BY <1>7 DEF ProcessEvents
  <1>8. CASE PumpEvent
    <2>1. CASE Head(events) = "READY" /\ ~sessionRunning
      BY <1>8, <2>1 DEF PumpEvent, NextEvent, BeginSession
    <2>2. CASE Head(events) = "STOPPING"
      BY <1>8, <2>2 DEF PumpEvent, NextEvent, EndSession
    <2>3. CASE ~(Head(events) = "READY" /\ ~sessionRunning) /\ Head(events) # "STOPPING"
      BY <1>8, <2>3 DEF PumpEvent, NextEvent
    <2> QED
      BY <2>1, <2>2, <2>3
  <1>9. CASE PumpedEvents
    BY <1>9 DEF PumpedEvents
  <1>10. CASE HarnessBegins
    BY <1>10 DEF HarnessBegins, BeginSession
  <1>11. CASE WaitFrame
    BY <1>11 DEF WaitFrame
  <1>12. CASE WaitFrameFails
    BY <1>12 DEF WaitFrameFails, Dies
  <1>13. CASE BeginFrame
    BY <1>13 DEF BeginFrame
  <1>14. CASE LocateViews
    BY <1>14 DEF LocateViews
  <1>15. CASE AcquireSwapchainImage
    BY <1>15 DEF AcquireSwapchainImage
  <1>16. CASE RenderEye
    BY <1>16 DEF RenderEye
  <1>17. CASE ReleaseSwapchainImage
    BY <1>17 DEF ReleaseSwapchainImage
  <1>18. CASE EndFrameOnLostDevice
    BY <1>18 DEF EndFrameOnLostDevice, EndingFrame
  <1>19. CASE EndFrameWithoutLayer
    BY <1>19 DEF EndFrameWithoutLayer, EndingFrame, NextFrame
  <1>20. CASE EndFrame
    BY <1>20 DEF EndFrame, EndingFrame, NextFrame
  <1>21. ASSUME NEW e \in Eyes, EndFrameFails(e) PROVE RunInv'
    BY <1>21 DEF EndFrameFails, EndingFrame, EncodeFailed, NextFrame, Dies
  <1>22. CASE LoseDevice
    BY <1>22 DEF LoseDevice
  <1>23. CASE HarnessLeaves
    BY <1>23 DEF HarnessLeaves
  <1>24. CASE HarnessEndsSession
    BY <1>24 DEF HarnessEndsSession, EndSession
  <1>25. CASE Teardown
    BY <1>25 DEF Teardown
  <1>26. CASE UNCHANGED vars
    BY <1>26 DEF vars
  <1> QED
    BY <1>1, <1>2, <1>3, <1>4, <1>5, <1>6, <1>7, <1>8, <1>9, <1>10, <1>11,
       <1>12, <1>13, <1>14, <1>15, <1>16, <1>17, <1>18, <1>19, <1>20,
       <1>21, <1>22, <1>23, <1>24, <1>25, <1>26
    DEF Next, Setups, Loop, Frame, Leave

LEMMA AcquireStep == TypeOK /\ AcquireInv /\ [Next]_vars => AcquireInv'
  <1> SUFFICES ASSUME TypeOK, AcquireInv, [Next]_vars PROVE AcquireInv'
    OBVIOUS
  <1> USE DEF TypeOK, LoopType, ImagesType, AcquireInv, Eyes
  <1>1. CASE SetupFails
    BY <1>1 DEF SetupFails, Setup, Dies
  <1>2. CASE CreateInstanceAndSystem
    BY <1>2 DEF CreateInstanceAndSystem
  <1>3. CASE CreateSession
    BY <1>3 DEF CreateSession, QueueSessionState
  <1>4. CASE CreateSpacesAndSwapchains
    BY <1>4 DEF CreateSpacesAndSwapchains, FreshSwapchain, Blank
  <1>5. CASE CreateActions
    BY <1>5 DEF CreateActions
  <1>6. CASE RequestExitSession
    BY <1>6 DEF RequestExitSession, QueueSessionState
  <1>7. CASE ProcessEvents
    BY <1>7 DEF ProcessEvents
  <1>8. CASE PumpEvent
    BY <1>8 DEF PumpEvent
  <1>9. CASE PumpedEvents
    BY <1>9 DEF PumpedEvents
  <1>10. CASE HarnessBegins
    BY <1>10 DEF HarnessBegins
  <1>11. CASE WaitFrame
    BY <1>11 DEF WaitFrame
  <1>12. CASE WaitFrameFails
    BY <1>12 DEF WaitFrameFails, Dies
  <1>13. CASE BeginFrame
    BY <1>13 DEF BeginFrame
  <1>14. CASE LocateViews
    BY <1>14 DEF LocateViews
  <1>15. CASE AcquireSwapchainImage
    BY <1>15 DEF AcquireSwapchainImage, Acquire
  <1>16. CASE RenderEye
    BY <1>16 DEF RenderEye
  <1>17. CASE ReleaseSwapchainImage
    BY <1>17 DEF ReleaseSwapchainImage, Release
  <1>18. CASE EndFrameOnLostDevice
    BY <1>18 DEF EndFrameOnLostDevice, EndingFrame
  <1>19. CASE EndFrameWithoutLayer
    BY <1>19 DEF EndFrameWithoutLayer, EndingFrame, NextFrame
  <1>20. CASE EndFrame
    BY <1>20 DEF EndFrame, EndingFrame, EncodeEyes, NextFrame
  <1>21. ASSUME NEW e \in Eyes, EndFrameFails(e) PROVE AcquireInv'
    BY <1>21 DEF EndFrameFails, EndingFrame, EncodeEyes, EncodeFailed, NextFrame, Dies
  <1>22. CASE LoseDevice
    BY <1>22 DEF LoseDevice
  <1>23. CASE HarnessLeaves
    BY <1>23 DEF HarnessLeaves
  <1>24. CASE HarnessEndsSession
    BY <1>24 DEF HarnessEndsSession
  <1>25. CASE Teardown
    BY <1>25 DEF Teardown
  <1>26. CASE UNCHANGED vars
    BY <1>26 DEF vars
  <1> QED
    BY <1>1, <1>2, <1>3, <1>4, <1>5, <1>6, <1>7, <1>8, <1>9, <1>10, <1>11,
       <1>12, <1>13, <1>14, <1>15, <1>16, <1>17, <1>18, <1>19, <1>20,
       <1>21, <1>22, <1>23, <1>24, <1>25, <1>26
    DEF Next, Setups, Loop, Frame, Leave

-----------------------------------------------------------------------------
(* The image that is encoded.                                                  *)

\* An image is drawn where it was acquired, and stays the last acquired one.
LEMMA DrawStep == TypeOK /\ DrawInv /\ [Next]_vars => DrawInv'
  <1> SUFFICES ASSUME TypeOK, DrawInv, [Next]_vars PROVE DrawInv'
    OBVIOUS
  <1> USE DEF TypeOK, LoopType, ImagesType, DrawInv, Drawing, Drawn, Eyes
  <1>1. CASE SetupFails
    BY <1>1 DEF SetupFails, Setup, Dies
  <1>2. CASE CreateInstanceAndSystem
    BY <1>2 DEF CreateInstanceAndSystem
  <1>3. CASE CreateSession
    BY <1>3 DEF CreateSession
  <1>4. CASE CreateSpacesAndSwapchains
    BY <1>4 DEF CreateSpacesAndSwapchains
  <1>5. CASE CreateActions
    BY <1>5 DEF CreateActions
  <1>6. CASE RequestExitSession
    BY <1>6 DEF RequestExitSession
  <1>7. CASE ProcessEvents
    BY <1>7 DEF ProcessEvents
  <1>8. CASE PumpEvent
    BY <1>8 DEF PumpEvent
  <1>9. CASE PumpedEvents
    BY <1>9 DEF PumpedEvents
  <1>10. CASE HarnessBegins
    BY <1>10 DEF HarnessBegins
  <1>11. CASE WaitFrame
    BY <1>11 DEF WaitFrame
  <1>12. CASE WaitFrameFails
    BY <1>12 DEF WaitFrameFails, Dies
  <1>13. CASE BeginFrame
    BY <1>13 DEF BeginFrame
  <1>14. CASE LocateViews
    BY <1>14 DEF LocateViews
  <1>15. CASE AcquireSwapchainImage
    <2>1. \A e \in Eyes : e < eye => swapchains'[e] = swapchains[e]
      BY <1>15 DEF AcquireSwapchainImage
    <2> QED
      BY <1>15, <2>1 DEF AcquireSwapchainImage
  <1>16. CASE RenderEye
    <2>1. \A e \in Eyes : e < eye => swapchains'[e] = swapchains[e]
      BY <1>16 DEF RenderEye
    <2>2. swapchains[eye] \in Chains
      OBVIOUS
    <2>3. swapchains'[eye].index = swapchains[eye].index
      BY <1>16, <2>2 DEF RenderEye, Chains
    <2>4. swapchains'[eye].images[swapchains[eye].index] = [frame |-> frames + 1, pose |-> view]
      BY <1>16, <2>2 DEF RenderEye, Chains
    <2> QED
      BY <1>16, <2>1, <2>3, <2>4 DEF RenderEye
  <1>17. CASE ReleaseSwapchainImage
    <2>1. \A e \in Eyes : /\ swapchains'[e].index = swapchains[e].index
                             /\ swapchains'[e].images = swapchains[e].images
      BY <1>17 DEF ReleaseSwapchainImage, Release, Chains
    <2> QED
      BY <1>17, <2>1 DEF ReleaseSwapchainImage
  <1>18. CASE EndFrameOnLostDevice
    BY <1>18 DEF EndFrameOnLostDevice, EndingFrame
  <1>19. CASE EndFrameWithoutLayer
    BY <1>19 DEF EndFrameWithoutLayer, EndingFrame, NextFrame
  <1>20. CASE EndFrame
    BY <1>20 DEF EndFrame, EndingFrame, NextFrame
  <1>21. ASSUME NEW e \in Eyes, EndFrameFails(e) PROVE DrawInv'
    BY <1>21 DEF EndFrameFails, EndingFrame, EncodeEyes, EncodeFailed, NextFrame, Dies
  <1>22. CASE LoseDevice
    BY <1>22 DEF LoseDevice
  <1>23. CASE HarnessLeaves
    BY <1>23 DEF HarnessLeaves
  <1>24. CASE HarnessEndsSession
    BY <1>24 DEF HarnessEndsSession
  <1>25. CASE Teardown
    BY <1>25 DEF Teardown
  <1>26. CASE UNCHANGED vars
    BY <1>26 DEF vars
  <1> QED
    BY <1>1, <1>2, <1>3, <1>4, <1>5, <1>6, <1>7, <1>8, <1>9, <1>10, <1>11,
       <1>12, <1>13, <1>14, <1>15, <1>16, <1>17, <1>18, <1>19, <1>20,
       <1>21, <1>22, <1>23, <1>24, <1>25, <1>26
    DEF Next, Setups, Loop, Frame, Leave

\* Whatever eyes are encoded, each gets the image drawn for this frame.
LEMMA EncodeEyesDrawn ==
  ASSUME TypeOK, DrawInv, DrawnIsEncoded, at = "end",
         NEW done \in SUBSET Eyes, NEW unstaged \in SUBSET Eyes, EncodeEyes(done, unstaged)
  PROVE  DrawnIsEncoded'
  <1>1. \A e \in Eyes : Submission(e).image = [frame |-> Submission(e).frame,
                                               pose |-> Submission(e).tag]
    BY DEF DrawInv, Drawn, Drawing, Submission
  <1> QED
    BY <1>1 DEF DrawnIsEncoded, EncodeEyes

LEMMA EncodedStep == TypeOK /\ DrawInv /\ DrawnIsEncoded /\ [Next]_vars => DrawnIsEncoded'
  <1> SUFFICES ASSUME TypeOK, DrawInv, DrawnIsEncoded, [Next]_vars PROVE DrawnIsEncoded'
    OBVIOUS
  <1>a. encoded' = encoded => DrawnIsEncoded'
    BY DEF DrawnIsEncoded
  <1>1. CASE SetupFails
    BY <1>1, <1>a DEF SetupFails, Setup, Dies
  <1>2. CASE CreateInstanceAndSystem
    BY <1>2, <1>a DEF CreateInstanceAndSystem
  <1>3. CASE CreateSession
    BY <1>3, <1>a DEF CreateSession
  <1>4. CASE CreateSpacesAndSwapchains
    BY <1>4, <1>a DEF CreateSpacesAndSwapchains
  <1>5. CASE CreateActions
    BY <1>5, <1>a DEF CreateActions
  <1>6. CASE RequestExitSession
    BY <1>6, <1>a DEF RequestExitSession
  <1>7. CASE ProcessEvents
    BY <1>7, <1>a DEF ProcessEvents
  <1>8. CASE PumpEvent
    BY <1>8, <1>a DEF PumpEvent
  <1>9. CASE PumpedEvents
    BY <1>9, <1>a DEF PumpedEvents
  <1>10. CASE HarnessBegins
    BY <1>10, <1>a DEF HarnessBegins
  <1>11. CASE WaitFrame
    BY <1>11, <1>a DEF WaitFrame
  <1>12. CASE WaitFrameFails
    BY <1>12, <1>a DEF WaitFrameFails, Dies
  <1>13. CASE BeginFrame
    BY <1>13, <1>a DEF BeginFrame
  <1>14. CASE LocateViews
    BY <1>14, <1>a DEF LocateViews
  <1>15. CASE AcquireSwapchainImage
    BY <1>15, <1>a DEF AcquireSwapchainImage
  <1>16. CASE RenderEye
    BY <1>16, <1>a DEF RenderEye
  <1>17. CASE ReleaseSwapchainImage
    BY <1>17, <1>a DEF ReleaseSwapchainImage
  <1>18. CASE EndFrameOnLostDevice
    BY <1>18, <1>a DEF EndFrameOnLostDevice, EndingFrame
  <1>19. CASE EndFrameWithoutLayer
    BY <1>19, <1>a DEF EndFrameWithoutLayer, EndingFrame, NextFrame
  <1>20. CASE EndFrame
    BY <1>20, EncodeEyesDrawn DEF EndFrame, EndingFrame
  <1>21. ASSUME NEW e \in Eyes, EndFrameFails(e) PROVE DrawnIsEncoded'
    BY <1>21, EncodeEyesDrawn DEF EndFrameFails, EndingFrame
  <1>22. CASE LoseDevice
    BY <1>22, <1>a DEF LoseDevice
  <1>23. CASE HarnessLeaves
    BY <1>23, <1>a DEF HarnessLeaves
  <1>24. CASE HarnessEndsSession
    BY <1>24, <1>a DEF HarnessEndsSession
  <1>25. CASE Teardown
    BY <1>25, <1>a DEF Teardown
  <1>26. CASE UNCHANGED vars
    BY <1>26, <1>a DEF vars
  <1> QED
    BY <1>1, <1>2, <1>3, <1>4, <1>5, <1>6, <1>7, <1>8, <1>9, <1>10, <1>11,
       <1>12, <1>13, <1>14, <1>15, <1>16, <1>17, <1>18, <1>19, <1>20,
       <1>21, <1>22, <1>23, <1>24, <1>25, <1>26
    DEF Next, Setups, Loop, Frame, Leave

-----------------------------------------------------------------------------
(* Frame indices, and the requests of a window.                                *)

LEMMA IndexStep == TypeOK /\ IndexInv /\ [Next]_vars => IndexInv'
  <1> SUFFICES ASSUME TypeOK, IndexInv, [Next]_vars PROVE IndexInv'
    OBVIOUS
  <1> USE DEF TypeOK, LoopType, ImagesType, IndexInv, Submissions
  <1>1. CASE SetupFails
    BY <1>1 DEF SetupFails, Setup, Dies
  <1>2. CASE CreateInstanceAndSystem
    BY <1>2 DEF CreateInstanceAndSystem
  <1>3. CASE CreateSession
    BY <1>3 DEF CreateSession
  <1>4. CASE CreateSpacesAndSwapchains
    BY <1>4 DEF CreateSpacesAndSwapchains
  <1>5. CASE CreateActions
    BY <1>5 DEF CreateActions
  <1>6. CASE RequestExitSession
    BY <1>6 DEF RequestExitSession
  <1>7. CASE ProcessEvents
    BY <1>7 DEF ProcessEvents
  <1>8. CASE PumpEvent
    BY <1>8 DEF PumpEvent
  <1>9. CASE PumpedEvents
    BY <1>9 DEF PumpedEvents
  <1>10. CASE HarnessBegins
    BY <1>10 DEF HarnessBegins
  <1>11. CASE WaitFrame
    BY <1>11 DEF WaitFrame
  <1>12. CASE WaitFrameFails
    BY <1>12 DEF WaitFrameFails, Dies
  <1>13. CASE BeginFrame
    BY <1>13 DEF BeginFrame
  <1>14. CASE LocateViews
    BY <1>14 DEF LocateViews
  <1>15. CASE AcquireSwapchainImage
    BY <1>15 DEF AcquireSwapchainImage
  <1>16. CASE RenderEye
    BY <1>16 DEF RenderEye
  <1>17. CASE ReleaseSwapchainImage
    BY <1>17 DEF ReleaseSwapchainImage
  <1>18. CASE EndFrameOnLostDevice
    BY <1>18 DEF EndFrameOnLostDevice, EndingFrame
  <1>19. CASE EndFrameWithoutLayer
    BY <1>19 DEF EndFrameWithoutLayer, EndingFrame, NextFrame
  <1>20. CASE EndFrame
    BY <1>20 DEF EndFrame, EndingFrame, EncodeEyes, Submission
  <1>21. ASSUME NEW e \in Eyes, EndFrameFails(e) PROVE IndexInv'
    BY <1>21 DEF EndFrameFails, EndingFrame, EncodeEyes, EncodeFailed, NextFrame, Dies
  <1>22. CASE LoseDevice
    BY <1>22 DEF LoseDevice
  <1>23. CASE HarnessLeaves
    BY <1>23 DEF HarnessLeaves
  <1>24. CASE HarnessEndsSession
    BY <1>24 DEF HarnessEndsSession
  <1>25. CASE Teardown
    BY <1>25 DEF Teardown
  <1>26. CASE UNCHANGED vars
    BY <1>26 DEF vars
  <1> QED
    BY <1>1, <1>2, <1>3, <1>4, <1>5, <1>6, <1>7, <1>8, <1>9, <1>10, <1>11,
       <1>12, <1>13, <1>14, <1>15, <1>16, <1>17, <1>18, <1>19, <1>20,
       <1>21, <1>22, <1>23, <1>24, <1>25, <1>26
    DEF Next, Setups, Loop, Frame, Leave

LEMMA HeardStep == TypeOK /\ HeardInv /\ [Next]_vars => HeardInv'
  <1> SUFFICES ASSUME TypeOK, HeardInv, [Next]_vars PROVE HeardInv'
    OBVIOUS
  <1> USE DEF TypeOK, RateType, HeardInv
  <1>1. CASE SetupFails
    BY <1>1 DEF SetupFails, Setup, Dies
  <1>2. CASE CreateInstanceAndSystem
    BY <1>2 DEF CreateInstanceAndSystem
  <1>3. CASE CreateSession
    BY <1>3 DEF CreateSession
  <1>4. CASE CreateSpacesAndSwapchains
    BY <1>4 DEF CreateSpacesAndSwapchains
  <1>5. CASE CreateActions
    BY <1>5 DEF CreateActions
  <1>6. CASE RequestExitSession
    BY <1>6 DEF RequestExitSession
  <1>7. CASE ProcessEvents
    BY <1>7 DEF ProcessEvents
  <1>8. CASE PumpEvent
    BY <1>8 DEF PumpEvent
  <1>9. CASE PumpedEvents
    BY <1>9 DEF PumpedEvents
  <1>10. CASE HarnessBegins
    BY <1>10 DEF HarnessBegins
  <1>11. CASE WaitFrame
    BY <1>11 DEF WaitFrame, AdaptBitrate, Considered
  <1>12. CASE WaitFrameFails
    BY <1>12 DEF WaitFrameFails, Dies
  <1>13. CASE BeginFrame
    BY <1>13 DEF BeginFrame
  <1>14. CASE LocateViews
    BY <1>14 DEF LocateViews
  <1>15. CASE AcquireSwapchainImage
    BY <1>15 DEF AcquireSwapchainImage
  <1>16. CASE RenderEye
    BY <1>16 DEF RenderEye
  <1>17. CASE ReleaseSwapchainImage
    BY <1>17 DEF ReleaseSwapchainImage
  <1>18. CASE EndFrameOnLostDevice
    BY <1>18 DEF EndFrameOnLostDevice, EndingFrame
  <1>19. CASE EndFrameWithoutLayer
    BY <1>19 DEF EndFrameWithoutLayer, EndingFrame, NextFrame
  <1>20. CASE EndFrame
    BY <1>20 DEF EndFrame, EndingFrame, EncodeEyes, NextFrame
  <1>21. ASSUME NEW e \in Eyes, EndFrameFails(e) PROVE HeardInv'
    BY <1>21 DEF EndFrameFails, EndingFrame, EncodeEyes, EncodeFailed, NextFrame, Dies
  <1>22. CASE LoseDevice
    BY <1>22 DEF LoseDevice
  <1>23. CASE HarnessLeaves
    BY <1>23 DEF HarnessLeaves
  <1>24. CASE HarnessEndsSession
    BY <1>24 DEF HarnessEndsSession
  <1>25. CASE Teardown
    BY <1>25 DEF Teardown
  <1>26. CASE UNCHANGED vars
    BY <1>26 DEF vars
  <1> QED
    BY <1>1, <1>2, <1>3, <1>4, <1>5, <1>6, <1>7, <1>8, <1>9, <1>10, <1>11,
       <1>12, <1>13, <1>14, <1>15, <1>16, <1>17, <1>18, <1>19, <1>20,
       <1>21, <1>22, <1>23, <1>24, <1>25, <1>26
    DEF Next, Setups, Loop, Frame, Leave

\* Only xrEndFrame changes what an encoder has, of a process that runs.
LEMMA EncodedChange ==
  ASSUME [Next]_vars, NEW e \in Eyes, encoded'[e] # encoded[e]
  PROVE  process = "running" /\ encoded'[e] = Submission(e)
  <1> DEFINE Goal == process = "running" /\ encoded'[e] = Submission(e)
  <1> SUFFICES encoded' = encoded \/ Goal
    OBVIOUS
  <1> HIDE DEF Goal
  <1>1. CASE SetupFails
    BY <1>1 DEF SetupFails, Setup, Dies
  <1>2. CASE CreateInstanceAndSystem
    BY <1>2 DEF CreateInstanceAndSystem
  <1>3. CASE CreateSession
    BY <1>3 DEF CreateSession
  <1>4. CASE CreateSpacesAndSwapchains
    BY <1>4 DEF CreateSpacesAndSwapchains
  <1>5. CASE CreateActions
    BY <1>5 DEF CreateActions
  <1>6. CASE RequestExitSession
    BY <1>6 DEF RequestExitSession
  <1>7. CASE ProcessEvents
    BY <1>7 DEF ProcessEvents
  <1>8. CASE PumpEvent
    BY <1>8 DEF PumpEvent
  <1>9. CASE PumpedEvents
    BY <1>9 DEF PumpedEvents
  <1>10. CASE HarnessBegins
    BY <1>10 DEF HarnessBegins
  <1>11. CASE WaitFrame
    BY <1>11 DEF WaitFrame
  <1>12. CASE WaitFrameFails
    BY <1>12 DEF WaitFrameFails, Dies
  <1>13. CASE BeginFrame
    BY <1>13 DEF BeginFrame
  <1>14. CASE LocateViews
    BY <1>14 DEF LocateViews
  <1>15. CASE AcquireSwapchainImage
    BY <1>15 DEF AcquireSwapchainImage
  <1>16. CASE RenderEye
    BY <1>16 DEF RenderEye
  <1>17. CASE ReleaseSwapchainImage
    BY <1>17 DEF ReleaseSwapchainImage
  <1>18. CASE EndFrameOnLostDevice
    BY <1>18 DEF EndFrameOnLostDevice, EndingFrame
  <1>19. CASE EndFrameWithoutLayer
    BY <1>19 DEF EndFrameWithoutLayer, EndingFrame, NextFrame
  <1>20. CASE EndFrame
    BY <1>20 DEF EndFrame, EndingFrame, EncodeEyes, Goal
  <1>21. ASSUME NEW f \in Eyes, EndFrameFails(f) PROVE encoded' = encoded \/ Goal
    BY <1>21 DEF EndFrameFails, EndingFrame, EncodeEyes, Goal
  <1>22. CASE LoseDevice
    BY <1>22 DEF LoseDevice
  <1>23. CASE HarnessLeaves
    BY <1>23 DEF HarnessLeaves
  <1>24. CASE HarnessEndsSession
    BY <1>24 DEF HarnessEndsSession
  <1>25. CASE Teardown
    BY <1>25 DEF Teardown
  <1>26. CASE UNCHANGED vars
    BY <1>26 DEF vars
  <1> QED
    BY <1>1, <1>2, <1>3, <1>4, <1>5, <1>6, <1>7, <1>8, <1>9, <1>10, <1>11,
       <1>12, <1>13, <1>14, <1>15, <1>16, <1>17, <1>18, <1>19, <1>20,
       <1>21, <1>22, <1>23, <1>24, <1>25, <1>26
    DEF Next, Setups, Loop, Frame, Leave

\* Only AdaptBitrate changes the bitrate.
LEMMA RateChange ==
  ASSUME [Next]_vars, rate' # rate
  PROVE  \E r \in 0 .. 1, elapsed \in BOOLEAN : AdaptBitrate(r, elapsed)
  <1> DEFINE Goal == \E r \in 0 .. 1, elapsed \in BOOLEAN : AdaptBitrate(r, elapsed)
  <1> SUFFICES rate' = rate \/ Goal
    OBVIOUS
  <1>1. CASE SetupFails
    BY <1>1 DEF SetupFails, Setup, Dies
  <1>2. CASE CreateInstanceAndSystem
    BY <1>2 DEF CreateInstanceAndSystem
  <1>3. CASE CreateSession
    BY <1>3 DEF CreateSession
  <1>4. CASE CreateSpacesAndSwapchains
    BY <1>4 DEF CreateSpacesAndSwapchains
  <1>5. CASE CreateActions
    BY <1>5 DEF CreateActions
  <1>6. CASE RequestExitSession
    BY <1>6 DEF RequestExitSession
  <1>7. CASE ProcessEvents
    BY <1>7 DEF ProcessEvents
  <1>8. CASE PumpEvent
    BY <1>8 DEF PumpEvent
  <1>9. CASE PumpedEvents
    BY <1>9 DEF PumpedEvents
  <1>10. CASE HarnessBegins
    BY <1>10 DEF HarnessBegins
  <1>11. CASE WaitFrame
    BY <1>11 DEF WaitFrame
  <1>12. CASE WaitFrameFails
    BY <1>12 DEF WaitFrameFails, Dies
  <1>13. CASE BeginFrame
    BY <1>13 DEF BeginFrame
  <1>14. CASE LocateViews
    BY <1>14 DEF LocateViews
  <1>15. CASE AcquireSwapchainImage
    BY <1>15 DEF AcquireSwapchainImage
  <1>16. CASE RenderEye
    BY <1>16 DEF RenderEye
  <1>17. CASE ReleaseSwapchainImage
    BY <1>17 DEF ReleaseSwapchainImage
  <1>18. CASE EndFrameOnLostDevice
    BY <1>18 DEF EndFrameOnLostDevice, EndingFrame
  <1>19. CASE EndFrameWithoutLayer
    BY <1>19 DEF EndFrameWithoutLayer, EndingFrame, NextFrame
  <1>20. CASE EndFrame
    BY <1>20 DEF EndFrame
  <1>21. ASSUME NEW e \in Eyes, EndFrameFails(e) PROVE rate' = rate \/ Goal
    BY <1>21 DEF EndFrameFails
  <1>22. CASE LoseDevice
    BY <1>22 DEF LoseDevice
  <1>23. CASE HarnessLeaves
    BY <1>23 DEF HarnessLeaves
  <1>24. CASE HarnessEndsSession
    BY <1>24 DEF HarnessEndsSession
  <1>25. CASE Teardown
    BY <1>25 DEF Teardown
  <1>26. CASE UNCHANGED vars
    BY <1>26 DEF vars
  <1> QED
    BY <1>1, <1>2, <1>3, <1>4, <1>5, <1>6, <1>7, <1>8, <1>9, <1>10, <1>11,
       <1>12, <1>13, <1>14, <1>15, <1>16, <1>17, <1>18, <1>19, <1>20,
       <1>21, <1>22, <1>23, <1>24, <1>25, <1>26
    DEF Next, Setups, Loop, Frame, Leave

-----------------------------------------------------------------------------
(* The theorems.                                                               *)

\* IInv holds at the start and every step keeps it.
THEOREM Invariance == Spec => []IInv
  <1>1. Init => IInv
    <2> SUFFICES ASSUME Init PROVE IInv
      OBVIOUS
    <2>1. TypeOK
      BY InitTypes
    <2>2. CallInv /\ BoundInv
      BY DEF Init, CallInv, BoundInv, FrameCalls, Drawing, FreshSwapchain, Eyes
    <2>3. DrawInv /\ DrawnIsEncoded
      BY DEF Init, DrawInv, Drawn, Drawing, DrawnIsEncoded
    <2>4. IndexInv /\ HeardInv
      BY DEF Init, IndexInv, NoFrame, HeardInv
    <2> QED
      BY <2>1, <2>2, <2>3, <2>4 DEF IInv
  <1>2. IInv /\ [Next]_vars => IInv'
    <2> SUFFICES ASSUME IInv, [Next]_vars PROVE IInv'
      OBVIOUS
    <2>1. TypeOK'
      BY FlagsStep, LoopStep, ImagesStep, RateStep DEF IInv, TypeOK
    <2>2. CallInv'
      <3>1. RunInv /\ AcquireInv
        BY CallParts DEF IInv
      <3>2. RunInv' /\ AcquireInv'
        BY <3>1, RunStep, AcquireStep DEF IInv
      <3> QED
        BY <3>2, Zenon DEF CallInv, RunInv, AcquireInv
    <2>3. BoundInv' /\ DrawInv' /\ DrawnIsEncoded' /\ IndexInv' /\ HeardInv'
      BY BoundStep, DrawStep, EncodedStep, IndexStep, HeardStep DEF IInv, TypeOK
    <2> QED
      BY <2>1, <2>2, <2>3 DEF IInv
  <1> QED
    BY <1>1, <1>2, PTL DEF Spec

\* The types of all variables are kept, whatever the applications do.
THEOREM TypeCorrect == Spec => []TypeOK
  <1>1. IInv => TypeOK
    BY DEF IInv
  <1> QED
    BY <1>1, Invariance, PTL

\* xrCreateSession to xrEndFrame: no call comes where the runtime refuses it.
THEOREM CallsInOrder == Spec => []CallsAreTaken
  <1>1. IInv => CallsAreTaken
    BY DEF IInv, TypeOK, ImagesType, CallInv, CallsAreTaken, Taken, FrameCalls, Drawing
  <1> QED
    BY <1>1, Invariance, PTL

\* What is encoded is what was drawn for the frame, tagged with the pose it was drawn for.
THEOREM EncodesWhatWasDrawn == Spec => []DrawnIsEncoded
  <1>1. IInv => DrawnIsEncoded
    BY DEF IInv
  <1> QED
    BY <1>1, Invariance, PTL

\* No encoder of an application that stops at a failed xrEndFrame gets an index twice.
THEOREM IndicesIncrease == Spec => NoIndexTwice
  <1> DEFINE Increases == \A e \in Eyes : app # "harness" /\ encoded'[e] # encoded[e]
                                              => encoded'[e].index > encoded[e].index
  <1>1. IInv /\ [Next]_vars => Increases
    <2> SUFFICES ASSUME IInv, [Next]_vars, NEW e \in Eyes, app # "harness",
                        encoded'[e] # encoded[e]
                 PROVE  encoded'[e].index > encoded[e].index
      OBVIOUS
    <2>1. process = "running" /\ encoded'[e] = Submission(e)
      BY EncodedChange
    <2>2. encoded[e] \in Submissions /\ frameIndex \in Nat
      BY DEF IInv, TypeOK, LoopType, ImagesType
    <2> QED
      BY <2>1, <2>2 DEF IInv, IndexInv, Submission, Submissions
  <1>2. IInv /\ [Next]_vars => [Increases]_vars
    BY <1>1
  <1> QED
    BY <1>2, Invariance, PTL DEF Spec, NoIndexTwice

\* The bitrate follows the keyframe requests of its window.
THEOREM RateFollowsRequests == Spec => RateFollowsLoss
  <1> DEFINE Follows == rate # 0 => /\ rate' > rate => heard = 0 /\ requests' = requests
                                    /\ rate' < rate => heard > 0 \/ requests' > requests
  <1>1. IInv /\ [Next]_vars => Follows
    <2> SUFFICES ASSUME IInv, [Next]_vars, rate # 0, rate' # rate PROVE Follows
      BY DEF IInv, TypeOK, RateType
    <2>1. PICK r \in 0 .. 1, elapsed \in BOOLEAN : AdaptBitrate(r, elapsed)
      BY RateChange
    <2>2. rate \in MinRate .. MaxRate /\ requests \in Nat /\ checked \in Nat /\ heard \in Nat
      BY DEF IInv, TypeOK, RateType
    <2>3. requests' = requests + r /\ elapsed
      BY <2>1 DEF AdaptBitrate
    <2>4. heard = requests - checked
      BY DEF IInv, HeardInv
    <2>7. rate' \in Nat /\ rate \in Nat
      BY RateStep, RateAssumption DEF IInv, TypeOK, RateType
    <2>5. CASE requests' > checked
      <3>1. rate' <= rate
        BY <2>1, <2>2, <2>3, <2>5, DownIsDown DEF AdaptBitrate
      <3> QED
        BY <2>2, <2>3, <2>4, <2>5, <2>7, <3>1
    <2>6. CASE ~(requests' > checked)
      <3>1. rate' >= rate
        BY <2>1, <2>2, <2>3, <2>6, UpIsUp DEF AdaptBitrate
      <3> QED
        BY <2>2, <2>3, <2>4, <2>6, <2>7, <3>1
    <2> QED
      BY <2>5, <2>6
  <1>2. IInv /\ [Next]_vars => [Follows]_vars
    BY <1>1
  <1> QED
    BY <1>2, Invariance, PTL DEF Spec, RateFollowsLoss

=============================================================================
