------------------------------ MODULE XrSession ------------------------------
(***************************************************************************)
(* The life of an OpenXR session and of the pipeline under it: encoders,   *)
(* sinks, discovery socket and watchdog, brought up by the first           *)
(* xrWaitFrame and taken down by xrEndSession, xrDestroySession and        *)
(* xrDestroyInstance (framework/src/openxr/XrApi.cpp and XrRuntime.cpp).   *)
(*                                                                         *)
(* Two threads: the application's, inside one entry point at a time, and   *)
(* the watchdog's.  The application keeps to OpenXR: a frame is begun      *)
(* after a successful xrWaitFrame, and ended once.                         *)
(*                                                                         *)
(* External: the encoder's driver, which can fail, and the device, which   *)
(* can be lost.  `silence' is history: how long the application has given  *)
(* no sign of life, in ticks.                                              *)
(***************************************************************************)
EXTENDS Integers, FiniteSets

CONSTANTS
  ReportStall,  \* kReportStallMs, in ticks
  FatalStall,   \* kFatalStallMs, in ticks
  MaxSessions,  \* bound: sessions created
  MaxFrames     \* bound: frames submitted to a session

ASSUME StallAssumption == ReportStall \in Nat \ {0} /\ FatalStall \in Nat
                            /\ ReportStall < FatalStall
ASSUME BoundsAssumption == MaxSessions \in Nat \ {0} /\ MaxFrames \in Nat

VARIABLES
  process,      \* running, or how it ended
  async,        \* the driver's encoder has an event thread (VideoEncoder.m_async)
  deviceLost,   \* GetDeviceRemovedReason reports a failure
  session,      \* Instance.session: whether there is one
  created,      \* sessions created
  running, frameBegun, frameIndex, encodeDisabled, pipelineReady,  \* of the session
  encoders,     \* for each eye: no VideoEncoder, one that failed in Initialize, one that works
  sinks,        \* the eyes whose sink has a socket
  link,         \* ClientLink has its socket
  watchdog,     \* where the watchdog thread is
  watchdogRunning,
  lastFrameTick, \* how long ago lastFrameTick was stored, in ticks
  shutdown,     \* the application's thread waits in SessionShutdown, and what for
  waited, begun, \* the application has a frame from xrWaitFrame, from xrBeginFrame
  silence

externalVars == <<async, deviceLost>>
pipelineVars == <<encodeDisabled, pipelineReady, encoders, sinks, link>>
watchdogVars == <<watchdog, watchdogRunning>>
timeVars == <<lastFrameTick, silence>>
frameVars == <<frameBegun, frameIndex, waited, begun>>
vars == <<process, async, deviceLost, session, created, running, frameBegun, frameIndex,
          encodeDisabled, pipelineReady, encoders, sinks, link, watchdog, watchdogRunning,
          lastFrameTick, shutdown, waited, begun, silence>>

Eyes == 0 .. 1
Before(e) == {d \in Eyes : d < e}

\* The application can call, and the session is there to be called.
Callable == process = "running" /\ session = "open" /\ shutdown = "no"

-----------------------------------------------------------------------------
(* The session.                                                            *)

\* A Session object as its constructor leaves it.
FreshSession ==
  /\ running' = FALSE /\ frameBegun' = FALSE /\ frameIndex' = 0
  /\ encodeDisabled' = FALSE /\ pipelineReady' = FALSE
  /\ encoders' = [e \in Eyes |-> "none"] /\ sinks' = {} /\ link' = FALSE
  /\ watchdog' = "none" /\ watchdogRunning' = FALSE
  /\ waited' = FALSE /\ begun' = FALSE

\* The ramp of events to READY is not modelled here, nor is any other event.
CreateSession ==
  /\ process = "running" /\ session = "none" /\ created < MaxSessions
  /\ session' = "open" /\ created' = created + 1
  /\ FreshSession
  /\ UNCHANGED <<process, externalVars, timeVars, shutdown>>

BeginSession ==
  /\ Callable /\ ~running
  /\ running' = TRUE
  /\ UNCHANGED <<process, externalVars, session, created, frameVars, pipelineVars,
                 watchdogVars, timeVars, shutdown>>

-----------------------------------------------------------------------------
(* xrWaitFrame and StartPipelineImpl.                                      *)

\* Replacing the encoder of eye e destroys a std::thread that still runs:
\* VideoEncoder has no destructor, and Shutdown was not called.
Terminates(e) == async /\ encoders[e] = "live"

\* The pipeline is up already.
WaitFrame ==
  /\ Callable /\ running /\ pipelineReady
  /\ waited' = TRUE
  /\ UNCHANGED <<process, externalVars, session, created, running, frameBegun, frameIndex,
                 begun, pipelineVars, watchdogVars, timeVars, shutdown>>

\* The pipeline has to be brought up, with encoding or, if the marker file is
\* there, without.
Starting(disabled) ==
  /\ Callable /\ running /\ ~pipelineReady
  /\ encodeDisabled' = disabled

StartTerminates ==
  /\ Starting(FALSE)
  /\ \E e \in Eyes : Terminates(e) /\ \A d \in Before(e) : ~Terminates(d)
  /\ process' = "terminated"
  /\ UNCHANGED <<externalVars, session, created, running, frameVars, pipelineReady,
                 encoders, sinks, link, watchdogVars, timeVars, shutdown>>

\* The encoder of eye e throws in Initialize, or what comes before it does.  What
\* was built stays.
EncoderFails(e) ==
  /\ Starting(FALSE)
  /\ \A d \in Before(e) \cup {e} : ~Terminates(d)
  /\ encoders' = [d \in Eyes |-> IF d \in Before(e) THEN "live"
                                 ELSE IF d = e THEN "failed" ELSE encoders[d]]
  /\ sinks' = sinks \cup Before(e) \cup {e}
  /\ UNCHANGED <<process, externalVars, session, created, running, frameVars, pipelineReady,
                 link, watchdogVars, timeVars, shutdown>>

BuildEncoders(disabled) ==
  IF disabled THEN UNCHANGED <<encoders, sinks>>
  ELSE /\ \A e \in Eyes : ~Terminates(e)
       /\ encoders' = [e \in Eyes |-> "live"] /\ sinks' = Eyes

\* Fault: the pipeline is called ready before its socket is.
LinkFailsReady(disabled) ==
  /\ Starting(disabled) /\ BuildEncoders(disabled)
  /\ pipelineReady' = TRUE
  /\ UNCHANGED <<process, externalVars, session, created, running, frameVars,
                 link, watchdogVars, timeVars, shutdown>>

\* The discovery socket does not bind.
LinkFails(disabled) ==
  /\ Starting(disabled) /\ BuildEncoders(disabled)
  /\ UNCHANGED <<process, externalVars, session, created, running, frameVars, pipelineReady,
                 link, watchdogVars, timeVars, shutdown>>

\* Fault: the watchdog starts with the frame clock of the last run.
StartPipelineStale(disabled) ==
  /\ Starting(disabled) /\ BuildEncoders(disabled)
  /\ link' = TRUE /\ pipelineReady' = TRUE
  /\ watchdog' = "checking" /\ watchdogRunning' = TRUE
  /\ silence' = 0
  /\ waited' = TRUE
  /\ UNCHANGED <<process, externalVars, session, created, running, frameBegun, frameIndex,
                 begun, lastFrameTick, shutdown>>

StartPipeline(disabled) ==
  /\ Starting(disabled) /\ BuildEncoders(disabled)
  /\ link' = TRUE /\ pipelineReady' = TRUE
  /\ watchdog' = "checking" /\ watchdogRunning' = TRUE
  /\ lastFrameTick' = 0 /\ silence' = 0
  /\ waited' = TRUE
  /\ UNCHANGED <<process, externalVars, session, created, running, frameBegun, frameIndex,
                 begun, shutdown>>

-----------------------------------------------------------------------------
(* xrBeginFrame and xrEndFrame.                                            *)

\* Twice in a row is legal: the frame in between is discarded.
BeginFrame ==
  /\ Callable /\ running /\ waited
  /\ frameBegun' = TRUE
  /\ begun' = TRUE /\ waited' = FALSE
  /\ UNCHANGED <<process, externalVars, session, created, running, frameIndex, pipelineVars,
                 watchdogVars, timeVars, shutdown>>

\* When the periodic report is made.
Reports(n) == n <= 10 \/ (n < 300 /\ n % 30 = 0) \/ n % 300 = 0

\* SubmitFrameImpl meets an encoder that is not there, or is not initialised.  The
\* report looks at both encoders, whether or not encoding is disabled.
MeetsNoEncoder ==
  \/ ~encodeDisabled /\ \E e \in Eyes : encoders[e] # "live"
  \/ encodeDisabled /\ Reports(frameIndex + 1) /\ \E e \in Eyes : encoders[e] = "none"

\* A frame is ended: the frame clock is reset.
EndingFrame ==
  /\ Callable /\ running /\ begun /\ frameBegun /\ frameIndex < MaxFrames
  /\ frameBegun' = FALSE /\ begun' = FALSE
  /\ lastFrameTick' = 0 /\ silence' = 0
  /\ UNCHANGED <<externalVars, session, created, running, waited, pipelineVars,
                 watchdogVars, shutdown>>

\* Fault: a lost device is left to the watchdog.
EndFrameOnLostDeviceIgnoring ==
  EndingFrame /\ deviceLost /\ frameIndex' = frameIndex /\ process' = process

\* CheckDeviceHealth gives up.
EndFrameOnLostDevice ==
  EndingFrame /\ deviceLost /\ frameIndex' = frameIndex /\ process' = "exited"

\* Fault: a frame with no layer is counted twice.
EndFrameWithoutLayerFallingThrough ==
  EndingFrame /\ ~deviceLost /\ frameIndex' = frameIndex + 2 /\ process' = process

\* With no layer to show, a frame is only counted.
EndFrameWithoutLayer ==
  EndingFrame /\ ~deviceLost /\ frameIndex' = frameIndex + 1 /\ process' = process

\* Both eyes are encoded.  When that throws, the frame is not counted.
EndFrame ==
  /\ EndingFrame /\ ~deviceLost
  /\ \/ MeetsNoEncoder /\ process' = "faulted" /\ frameIndex' = frameIndex
     \/ ~MeetsNoEncoder /\ process' = process /\ frameIndex' = frameIndex + 1
     \/ ~MeetsNoEncoder /\ ~encodeDisabled /\ process' = process /\ frameIndex' = frameIndex

-----------------------------------------------------------------------------
(* xrEndSession, xrDestroySession, xrDestroyInstance and SessionShutdown.  *)

\* The watchdog is told to stop, and is waited for.
StopWatchdog(next) ==
  /\ watchdogRunning' = FALSE
  /\ shutdown' = next
  /\ waited' = FALSE /\ begun' = FALSE
  /\ UNCHANGED <<process, externalVars, session, created, frameBegun, frameIndex,
                 pipelineVars, watchdog, timeVars>>

EndSession == Callable /\ running /\ running' = FALSE /\ StopWatchdog("ending")

DestroySession == Callable /\ UNCHANGED running /\ StopWatchdog("destroying")

\* The watchdog has been joined, or there was none.
Joined == process = "running" /\ shutdown # "no" /\ watchdog \in {"none", "ended"}

\* Fault: only what is ready is taken down.
ReleaseReady ==
  /\ Joined /\ shutdown = "ending"
  /\ IF pipelineReady
     THEN encoders' = [e \in Eyes |-> "none"] /\ sinks' = {} /\ link' = FALSE
     ELSE UNCHANGED <<encoders, sinks, link>>
  /\ pipelineReady' = FALSE
  /\ watchdog' = "none" /\ shutdown' = "no"
  /\ UNCHANGED <<process, externalVars, session, created, running, frameVars,
                 encodeDisabled, watchdogRunning, timeVars>>

\* Fault: the next session takes the pipeline for ready.
ReleaseStayingReady ==
  /\ Joined /\ shutdown = "ending"
  /\ encoders' = [e \in Eyes |-> "none"] /\ sinks' = {} /\ link' = FALSE
  /\ watchdog' = "none" /\ shutdown' = "no"
  /\ UNCHANGED <<process, externalVars, session, created, running, frameVars,
                 encodeDisabled, pipelineReady, watchdogRunning, timeVars>>

Release ==
  /\ Joined /\ shutdown = "ending"
  /\ encoders' = [e \in Eyes |-> "none"] /\ sinks' = {} /\ link' = FALSE
  /\ pipelineReady' = FALSE
  /\ watchdog' = "none" /\ shutdown' = "no"
  /\ UNCHANGED <<process, externalVars, session, created, running, frameVars,
                 encodeDisabled, watchdogRunning, timeVars>>

\* An encoder without an event thread pumps its last output in Drain, which throws:
\* Guard swallows that, and what comes after is not released.
ReleaseFails(e) ==
  /\ Joined /\ shutdown = "ending" /\ ~async /\ encoders[e] # "none"
  /\ encoders' = [d \in Eyes |-> IF d \in Before(e) THEN "none" ELSE encoders[d]]
  /\ watchdog' = "none" /\ shutdown' = "no"
  /\ UNCHANGED <<process, externalVars, session, created, running, frameVars,
                 encodeDisabled, pipelineReady, sinks, link, watchdogRunning, timeVars>>

\* After its shutdown, whether or not that threw, the Session is deleted.
Delete ==
  /\ Joined /\ shutdown = "destroying"
  /\ session' = "none" /\ shutdown' = "no"
  /\ FreshSession
  /\ UNCHANGED <<process, externalVars, created, timeVars>>

-----------------------------------------------------------------------------
(* The watchdog thread, time, and the device.                              *)

\* The head of its loop; then it sleeps 500 ms.
WatchdogCheck ==
  /\ process = "running" /\ watchdog = "checking"
  /\ watchdog' = IF watchdogRunning THEN "sleeping" ELSE "ended"
  /\ UNCHANGED <<process, externalVars, session, created, running, frameVars, pipelineVars,
                 watchdogRunning, timeVars, shutdown>>

Stuck ==
  /\ lastFrameTick >= ReportStall
  /\ deviceLost \/ lastFrameTick >= FatalStall

\* It wakes and looks at the frame clock and the device.
WatchdogWake ==
  /\ process = "running" /\ watchdog = "sleeping"
  /\ IF Stuck THEN process' = "exited" /\ watchdog' = watchdog
     ELSE process' = process /\ watchdog' = "checking"
  /\ UNCHANGED <<externalVars, session, created, running, frameVars, pipelineVars,
                 watchdogRunning, timeVars, shutdown>>

Later(t) == IF t < FatalStall THEN t + 1 ELSE t

Tick ==
  /\ process = "running"
  /\ lastFrameTick' = Later(lastFrameTick) /\ silence' = Later(silence)
  /\ UNCHANGED <<process, externalVars, session, created, running, frameVars, pipelineVars,
                 watchdogVars, shutdown>>

LoseDevice ==
  /\ process = "running" /\ ~deviceLost
  /\ deviceLost' = TRUE
  /\ UNCHANGED <<process, async, session, created, running, frameVars, pipelineVars,
                 watchdogVars, timeVars, shutdown>>

-----------------------------------------------------------------------------
Init ==
  /\ process = "running" /\ async \in BOOLEAN /\ deviceLost = FALSE
  /\ session = "none" /\ created = 0
  /\ running = FALSE /\ frameBegun = FALSE /\ frameIndex = 0
  /\ encodeDisabled = FALSE /\ pipelineReady = FALSE
  /\ encoders = [e \in Eyes |-> "none"] /\ sinks = {} /\ link = FALSE
  /\ watchdog = "none" /\ watchdogRunning = FALSE
  /\ lastFrameTick = 0 /\ silence = 0
  /\ shutdown = "no" /\ waited = FALSE /\ begun = FALSE

Application ==
  \/ CreateSession \/ BeginSession
  \/ WaitFrame \/ StartTerminates
  \/ \E e \in Eyes : EncoderFails(e)
  \/ \E disabled \in BOOLEAN : LinkFails(disabled) \/ StartPipeline(disabled)
  \/ BeginFrame \/ EndFrameOnLostDevice \/ EndFrameWithoutLayer \/ EndFrame
  \/ EndSession \/ DestroySession \/ Release \/ Delete
  \/ \E e \in Eyes : ReleaseFails(e)

Watchdog == WatchdogCheck \/ WatchdogWake

Next == Application \/ Watchdog \/ Tick \/ LoseDevice

Spec == Init /\ [][Next]_vars

\* The watchdog is scheduled and time passes; the application may stop at any point.
FairSpec == Spec /\ WF_vars(Watchdog) /\ WF_vars(Tick)

-----------------------------------------------------------------------------
(* Properties.                                                             *)

FlagsType ==
  /\ async \in BOOLEAN /\ deviceLost \in BOOLEAN
  /\ running \in BOOLEAN /\ frameBegun \in BOOLEAN
  /\ encodeDisabled \in BOOLEAN /\ pipelineReady \in BOOLEAN
  /\ link \in BOOLEAN /\ watchdogRunning \in BOOLEAN
  /\ waited \in BOOLEAN /\ begun \in BOOLEAN

PlacesType ==
  /\ process \in {"running", "terminated", "faulted", "exited"}
  /\ session \in {"none", "open"}
  /\ encoders \in [Eyes -> {"none", "failed", "live"}] /\ sinks \in SUBSET Eyes
  /\ watchdog \in {"none", "checking", "sleeping", "ended"}
  /\ shutdown \in {"no", "ending", "destroying"}

NumbersType ==
  /\ created \in 0 .. MaxSessions /\ frameIndex \in 0 .. MaxFrames
  /\ lastFrameTick \in 0 .. FatalStall /\ silence \in 0 .. FatalStall

TypeOK == FlagsType /\ PlacesType /\ NumbersType

\* A session that is not running holds nothing, also when its start failed half-way
\* or was never tried: no thread looks at it, and with an encoder whose Drain cannot
\* throw every encoder and socket is gone.
StoppedIsReleased ==
  ~running /\ shutdown = "no" =>
    /\ watchdog = "none"
    /\ async => encoders = [e \in Eyes |-> "none"] /\ sinks = {} /\ ~link /\ ~pipelineReady

\* A pipeline that counts as ready, so that xrWaitFrame looks no further, has all
\* its parts, through failed starts, retries and earlier runs of the session.
PipelineComplete ==
  async /\ pipelineReady /\ shutdown = "no" =>
    /\ link
    /\ watchdogRunning /\ watchdog \in {"checking", "sleeping"}
    /\ encodeDisabled \/ (sinks = Eyes /\ encoders = [e \in Eyes |-> "live"])

\* With encoding on, a frame begun after a successful xrWaitFrame of this run of the
\* session meets both encoders when it ends.
FramesMeetEncoders == process = "faulted" => encodeDisabled \/ ~async

\* The watchdog ends the process only when the application has been silent since
\* the pipeline was started or the last frame ended, whichever is later, for
\* kFatalStallMs, or for kReportStallMs with the device lost.
NoFalseAlarm ==
  [][WatchdogWake /\ process' = "exited" =>
       /\ silence >= ReportStall
       /\ deviceLost \/ silence >= FatalStall]_vars

\* With the device lost, a process whose pipeline is up does not stay: it exits,
\* whether the application goes on submitting frames or is stuck, unless it ends the
\* session.
LostDeviceEndsProcess ==
  deviceLost /\ watchdogRunning ~> process # "running" \/ ~watchdogRunning

-----------------------------------------------------------------------------
(* The inductive invariant behind StoppedIsReleased, PipelineComplete,         *)
(* FramesMeetEncoders and NoFalseAlarm.                                        *)

\* The application has a frame only while the pipeline it was given for is up.
FrameInv == waited \/ begun => running /\ pipelineReady /\ shutdown = "no"

\* As long as there is a watchdog, its clock shows how long nothing was heard.
ClockInv == watchdog # "none" => lastFrameTick = silence

IInv ==
  /\ TypeOK
  /\ StoppedIsReleased /\ PipelineComplete
  /\ FrameInv /\ FramesMeetEncoders
  /\ ClockInv
=============================================================================
