--------------------------- MODULE XrSession_proof ---------------------------
(* Proofs about XrSession, for every stall threshold and every bound.          *)
EXTENDS XrSession, TLAPS

USE DEF Eyes, Before, externalVars, pipelineVars, watchdogVars, timeVars, frameVars

LEMMA FlagsStep == FlagsType /\ [Next]_vars => FlagsType'
  <1> SUFFICES ASSUME FlagsType, [Next]_vars PROVE FlagsType'
    OBVIOUS
  <1> USE DEF FlagsType
  <1>1. CASE CreateSession
    BY <1>1, Zenon DEF CreateSession, FreshSession
  <1>2. CASE BeginSession
    BY <1>2, Zenon DEF BeginSession
  <1>3. CASE WaitFrame
    BY <1>3, Zenon DEF WaitFrame
  <1>4. CASE StartTerminates
    BY <1>4, Zenon DEF StartTerminates, Starting
  <1>5. ASSUME NEW e \in Eyes, EncoderFails(e) PROVE FlagsType'
    BY <1>5, Zenon DEF EncoderFails, Starting
  <1>6. ASSUME NEW disabled \in BOOLEAN, LinkFails(disabled) PROVE FlagsType'
    BY <1>6, Zenon DEF LinkFails, Starting, BuildEncoders
  <1>7. ASSUME NEW disabled \in BOOLEAN, StartPipeline(disabled) PROVE FlagsType'
    BY <1>7, Zenon DEF StartPipeline, Starting, BuildEncoders
  <1>8. CASE BeginFrame
    BY <1>8, Zenon DEF BeginFrame
  <1>9. CASE EndFrameOnLostDevice
    BY <1>9, Zenon DEF EndFrameOnLostDevice, EndingFrame
  <1>10. CASE EndFrameWithoutLayer
    BY <1>10, Zenon DEF EndFrameWithoutLayer, EndingFrame
  <1>11. CASE EndFrame
    BY <1>11, Zenon DEF EndFrame, EndingFrame
  <1>12. CASE EndSession
    BY <1>12, Zenon DEF EndSession, StopWatchdog
  <1>13. CASE DestroySession
    BY <1>13, Zenon DEF DestroySession, StopWatchdog
  <1>14. CASE Release
    BY <1>14, Zenon DEF Release
  <1>15. CASE Delete
    BY <1>15, Zenon DEF Delete, FreshSession
  <1>16. ASSUME NEW e \in Eyes, ReleaseFails(e) PROVE FlagsType'
    BY <1>16, Zenon DEF ReleaseFails
  <1>17. CASE WatchdogCheck
    BY <1>17, Zenon DEF WatchdogCheck
  <1>18. CASE WatchdogWake
    BY <1>18, Zenon DEF WatchdogWake
  <1>19. CASE Tick
    BY <1>19, Zenon DEF Tick
  <1>20. CASE LoseDevice
    BY <1>20, Zenon DEF LoseDevice
  <1>21. CASE UNCHANGED vars
    BY <1>21, Zenon DEF vars
  <1> QED
    BY <1>1, <1>2, <1>3, <1>4, <1>5, <1>6, <1>7, <1>8, <1>9, <1>10, <1>11,
       <1>12, <1>13, <1>14, <1>15, <1>16, <1>17, <1>18, <1>19, <1>20, <1>21
    DEF Next, Application, Watchdog

LEMMA PlacesStep == PlacesType /\ [Next]_vars => PlacesType'
  <1> SUFFICES ASSUME PlacesType, [Next]_vars PROVE PlacesType'
    OBVIOUS
  <1> USE DEF PlacesType
  <1>1. CASE CreateSession
    BY <1>1 DEF CreateSession, FreshSession
  <1>2. CASE BeginSession
    BY <1>2 DEF BeginSession
  <1>3. CASE WaitFrame
    BY <1>3 DEF WaitFrame
  <1>4. CASE StartTerminates
    BY <1>4 DEF StartTerminates, Starting
  <1>5. ASSUME NEW e \in Eyes, EncoderFails(e) PROVE PlacesType'
    BY <1>5 DEF EncoderFails, Starting
  <1>6. ASSUME NEW disabled \in BOOLEAN, LinkFails(disabled) PROVE PlacesType'
    BY <1>6 DEF LinkFails, Starting, BuildEncoders
  <1>7. ASSUME NEW disabled \in BOOLEAN, StartPipeline(disabled) PROVE PlacesType'
    BY <1>7 DEF StartPipeline, Starting, BuildEncoders
  <1>8. CASE BeginFrame
    BY <1>8 DEF BeginFrame
  <1>9. CASE EndFrameOnLostDevice
    BY <1>9 DEF EndFrameOnLostDevice, EndingFrame
  <1>10. CASE EndFrameWithoutLayer
    BY <1>10 DEF EndFrameWithoutLayer, EndingFrame
  <1>11. CASE EndFrame
    BY <1>11 DEF EndFrame, EndingFrame
  <1>12. CASE EndSession
    BY <1>12 DEF EndSession, StopWatchdog
  <1>13. CASE DestroySession
    BY <1>13 DEF DestroySession, StopWatchdog
  <1>14. CASE Release
    BY <1>14 DEF Release
  <1>15. CASE Delete
    BY <1>15 DEF Delete, FreshSession
  <1>16. ASSUME NEW e \in Eyes, ReleaseFails(e) PROVE PlacesType'
    BY <1>16 DEF ReleaseFails
  <1>17. CASE WatchdogCheck
    BY <1>17 DEF WatchdogCheck
  <1>18. CASE WatchdogWake
    BY <1>18 DEF WatchdogWake
  <1>19. CASE Tick
    BY <1>19 DEF Tick
  <1>20. CASE LoseDevice
    BY <1>20 DEF LoseDevice
  <1>21. CASE UNCHANGED vars
    BY <1>21 DEF vars
  <1> QED
    BY <1>1, <1>2, <1>3, <1>4, <1>5, <1>6, <1>7, <1>8, <1>9, <1>10, <1>11,
       <1>12, <1>13, <1>14, <1>15, <1>16, <1>17, <1>18, <1>19, <1>20, <1>21
    DEF Next, Application, Watchdog

LEMMA NumbersStep == NumbersType /\ [Next]_vars => NumbersType'
  <1> SUFFICES ASSUME NumbersType, [Next]_vars PROVE NumbersType'
    OBVIOUS
  <1> USE StallAssumption, BoundsAssumption DEF NumbersType
  <1>1. CASE CreateSession
    BY <1>1 DEF CreateSession, FreshSession
  <1>2. CASE BeginSession
    BY <1>2 DEF BeginSession
  <1>3. CASE WaitFrame
    BY <1>3 DEF WaitFrame
  <1>4. CASE StartTerminates
    BY <1>4 DEF StartTerminates, Starting
  <1>5. ASSUME NEW e \in Eyes, EncoderFails(e) PROVE NumbersType'
    BY <1>5 DEF EncoderFails, Starting
  <1>6. ASSUME NEW disabled \in BOOLEAN, LinkFails(disabled) PROVE NumbersType'
    BY <1>6 DEF LinkFails, Starting, BuildEncoders
  <1>7. ASSUME NEW disabled \in BOOLEAN, StartPipeline(disabled) PROVE NumbersType'
    BY <1>7 DEF StartPipeline, Starting, BuildEncoders
  <1>8. CASE BeginFrame
    BY <1>8 DEF BeginFrame
  <1>9. CASE EndFrameOnLostDevice
    BY <1>9 DEF EndFrameOnLostDevice, EndingFrame
  <1>10. CASE EndFrameWithoutLayer
    BY <1>10 DEF EndFrameWithoutLayer, EndingFrame
  <1>11. CASE EndFrame
    BY <1>11 DEF EndFrame, EndingFrame
  <1>12. CASE EndSession
    BY <1>12 DEF EndSession, StopWatchdog
  <1>13. CASE DestroySession
    BY <1>13 DEF DestroySession, StopWatchdog
  <1>14. CASE Release
    BY <1>14 DEF Release
  <1>15. CASE Delete
    BY <1>15 DEF Delete, FreshSession
  <1>16. ASSUME NEW e \in Eyes, ReleaseFails(e) PROVE NumbersType'
    BY <1>16 DEF ReleaseFails
  <1>17. CASE WatchdogCheck
    BY <1>17 DEF WatchdogCheck
  <1>18. CASE WatchdogWake
    BY <1>18 DEF WatchdogWake
  <1>19. CASE Tick
    BY <1>19 DEF Tick, Later
  <1>20. CASE LoseDevice
    BY <1>20 DEF LoseDevice
  <1>21. CASE UNCHANGED vars
    BY <1>21 DEF vars
  <1> QED
    BY <1>1, <1>2, <1>3, <1>4, <1>5, <1>6, <1>7, <1>8, <1>9, <1>10, <1>11,
       <1>12, <1>13, <1>14, <1>15, <1>16, <1>17, <1>18, <1>19, <1>20, <1>21
    DEF Next, Application, Watchdog

\* What the session holds, from what it held: the parts need each other.
HoldingInv == StoppedIsReleased /\ PipelineComplete /\ FrameInv /\ FramesMeetEncoders

LEMMA HoldingStep == PlacesType /\ HoldingInv /\ [Next]_vars => HoldingInv'
  <1> SUFFICES ASSUME PlacesType, HoldingInv, [Next]_vars PROVE HoldingInv'
    OBVIOUS
  <1> USE DEF PlacesType, HoldingInv, StoppedIsReleased, PipelineComplete, FrameInv,
              FramesMeetEncoders
  <1>1. CASE CreateSession
    BY <1>1 DEF CreateSession, FreshSession
  <1>2. CASE BeginSession
    BY <1>2 DEF BeginSession, Callable
  <1>3. CASE WaitFrame
    BY <1>3 DEF WaitFrame, Callable
  <1>4. CASE StartTerminates
    BY <1>4 DEF StartTerminates, Starting, Callable
  <1>5. ASSUME NEW e \in Eyes, EncoderFails(e) PROVE HoldingInv'
    BY <1>5 DEF EncoderFails, Starting, Callable
  <1>6. ASSUME NEW disabled \in BOOLEAN, LinkFails(disabled) PROVE HoldingInv'
    BY <1>6 DEF LinkFails, Starting, BuildEncoders, Callable
  <1>7. ASSUME NEW disabled \in BOOLEAN, StartPipeline(disabled) PROVE HoldingInv'
    BY <1>7 DEF StartPipeline, Starting, BuildEncoders, Callable
  <1>8. CASE BeginFrame
    BY <1>8 DEF BeginFrame, Callable
  <1>9. CASE EndFrameOnLostDevice
    BY <1>9 DEF EndFrameOnLostDevice, EndingFrame, Callable
  <1>10. CASE EndFrameWithoutLayer
    BY <1>10 DEF EndFrameWithoutLayer, EndingFrame, Callable
  <1>11. CASE EndFrame
    BY <1>11 DEF EndFrame, EndingFrame, MeetsNoEncoder, Callable
  <1>12. CASE EndSession
    BY <1>12 DEF EndSession, StopWatchdog, Callable
  <1>13. CASE DestroySession
    BY <1>13 DEF DestroySession, StopWatchdog, Callable
  <1>14. CASE Release
    BY <1>14 DEF Release, Joined
  <1>15. CASE Delete
    BY <1>15 DEF Delete, Joined, FreshSession
  <1>16. ASSUME NEW e \in Eyes, ReleaseFails(e) PROVE HoldingInv'
    BY <1>16 DEF ReleaseFails, Joined
  <1>17. CASE WatchdogCheck
    BY <1>17 DEF WatchdogCheck
  <1>18. CASE WatchdogWake
    BY <1>18 DEF WatchdogWake
  <1>19. CASE Tick
    BY <1>19 DEF Tick
  <1>20. CASE LoseDevice
    BY <1>20 DEF LoseDevice
  <1>21. CASE UNCHANGED vars
    BY <1>21 DEF vars
  <1> QED
    BY <1>1, <1>2, <1>3, <1>4, <1>5, <1>6, <1>7, <1>8, <1>9, <1>10, <1>11,
       <1>12, <1>13, <1>14, <1>15, <1>16, <1>17, <1>18, <1>19, <1>20, <1>21
    DEF Next, Application, Watchdog

LEMMA ClockStep == ClockInv /\ [Next]_vars => ClockInv'
  <1> SUFFICES ASSUME ClockInv, [Next]_vars PROVE ClockInv'
    OBVIOUS
  <1>1. CASE UNCHANGED <<watchdog, lastFrameTick, silence>>
    BY <1>1 DEF ClockInv
  <1>2. CASE watchdog' = "none"
    BY <1>2 DEF ClockInv
  <1>3. CASE lastFrameTick' = 0 /\ silence' = 0
    BY <1>3 DEF ClockInv
  <1>4. CASE WatchdogCheck \/ WatchdogWake
    BY <1>4 DEF WatchdogCheck, WatchdogWake, ClockInv
  <1>5. CASE Tick
    BY <1>5 DEF Tick, Later, ClockInv
  <1> QED
    BY <1>1, <1>2, <1>3, <1>4, <1>5
    DEF Next, Application, Watchdog, vars, CreateSession, FreshSession, BeginSession, WaitFrame,
        StartTerminates, EncoderFails, LinkFails, StartPipeline, BeginFrame, EndingFrame,
        EndFrameOnLostDevice, EndFrameWithoutLayer, EndFrame, EndSession, DestroySession,
        StopWatchdog, Release, ReleaseFails, Delete, LoseDevice

LEMMA InitInv == Init => IInv
  <1> SUFFICES ASSUME Init PROVE IInv
    OBVIOUS
  <1> USE DEF Init
  <1>1. FlagsType /\ PlacesType
    BY DEF FlagsType, PlacesType
  <1>2. NumbersType
    BY StallAssumption, BoundsAssumption DEF NumbersType
  <1>3. HoldingInv /\ ClockInv
    BY DEF HoldingInv, StoppedIsReleased, PipelineComplete, FrameInv, FramesMeetEncoders, ClockInv
  <1> QED
    BY <1>1, <1>2, <1>3 DEF IInv, TypeOK, HoldingInv

LEMMA StepInv == IInv /\ [Next]_vars => IInv'
  BY FlagsStep, PlacesStep, NumbersStep, HoldingStep, ClockStep DEF IInv, TypeOK, HoldingInv

\* The inductive invariant holds in every reachable state.
THEOREM Invariance == Spec => []IInv
  <1> QED
    BY InitInv, StepInv, PTL DEF Spec

\* Every variable keeps its type.
THEOREM TypeCorrect == Spec => []TypeOK
  BY Invariance, PTL DEF IInv

\* Whatever failed before, a stopped session holds no thread, encoder or socket.
THEOREM StoppedHoldsNothing == Spec => []StoppedIsReleased
  BY Invariance, PTL DEF IInv

\* A pipeline that counts as ready has all its parts.
THEOREM ReadyIsComplete == Spec => []PipelineComplete
  BY Invariance, PTL DEF IInv

\* With encoding on, no frame of a session meets a missing encoder.
THEOREM EncodersMet == Spec => []FramesMeetEncoders
  BY Invariance, PTL DEF IInv

\* The watchdog exits only after a silence of the length it claims.
THEOREM WatchdogTellsTheTruth == Spec => NoFalseAlarm
  <1>1. IInv /\ [Next]_vars =>
          [WatchdogWake /\ process' = "exited" =>
             /\ silence >= ReportStall
             /\ deviceLost \/ silence >= FatalStall]_vars
    BY DEF IInv, ClockInv, WatchdogWake, Stuck
  <1> QED
    BY <1>1, Invariance, PTL DEF Spec, NoFalseAlarm
=============================================================================
