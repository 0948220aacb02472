--------------------------- MODULE XrApplication ---------------------------
(***************************************************************************)
(* An application and the OpenXR runtime it is linked with, from           *)
(* xrCreateInstance to xrDestroyInstance: the events that lead a session   *)
(* to READY, the swapchain images of a frame, and what xrEndFrame has the  *)
(* two encoders make of it (framework/src/openxr, samples/OpenXrCube and   *)
(* tools/XrHarness).                                                       *)
(*                                                                         *)
(* One thread runs, the application's; `at' is the call it makes next.     *)
(* `app' is one of three applications:                                     *)
(*   "cube"     samples/OpenXrCube: led by events, any failed call is the  *)
(*              end of the process;                                        *)
(*   "title"    external: as the cube, and it may ask for the session's    *)
(*              end and submit a frame without a layer, as the game named  *)
(*              in the comment in xrLocateViews does;                      *)
(*   "harness"  tools/XrHarness: led by its own loop, ignores most results.*)
(*                                                                         *)
(* External too: drivers, which can fail, and the client, by the poses and *)
(* keyframe requests ClientLink has for a frame.  `heard' is history.      *)
(***************************************************************************)
EXTENDS Integers, Sequences

CONSTANTS
  ConfigRate,        \* config.bitrateBps
  MinRate, MaxRate,  \* kAdaptiveMinBitrateBps, kAdaptiveMaxBitrateBps
  MaxFrames,         \* bound: frames begun (kFrames of the harness)
  MaxPose            \* bound: poses a client sends

ASSUME RateAssumption == /\ MinRate \in Nat \ {0} /\ MaxRate \in Nat
                         /\ ConfigRate \in MinRate .. MaxRate
ASSUME BoundsAssumption == MaxFrames \in Nat /\ MaxPose \in Nat

VARIABLES
  app, process,      \* which application; running, or how it ended
  at, eye,           \* the application's next call, and for which eye
  frames, view,      \* frames it has ended; the pose it located its views with
  sessionRunning, exiting,                \* CubeApp.m_sessionRunning, m_exiting
  deviceLost,        \* GetDeviceRemovedReason reports a failure
  events,            \* Instance.events, session states only
  session,           \* Instance.session is there
  running, stopping, frameBegun, frameIndex, pipelineReady,  \* of the session
  pose,              \* session.frame: the sequence of its pose, 0 before the first
  swapchains,        \* for each eye its Swapchain
  staging,           \* the eyes that have a staging texture
  encoded,           \* the last frame each eye's encoder was given
  rate, requests, checked,  \* currentBitrateBps, keyframeRequests and ...AtLastCheck
  encoderRate,       \* the rate each encoder was last set to
  heard              \* keyframe requests consumed since the rate was last considered

appVars == <<app, frames, view>>
loopVars == <<sessionRunning, exiting>>
eventVars == <<events, stopping>>
rateVars == <<rate, requests, checked, encoderRate, heard>>
imageVars == <<eye, swapchains, staging, encoded>>
vars == <<app, process, at, eye, frames, view, sessionRunning, exiting, deviceLost, events,
          session, running, stopping, frameBegun, frameIndex, pipelineReady, pose, swapchains,
          staging, encoded, rate, requests, checked, encoderRate, heard>>

Eyes == 0 .. 1
Images == 0 .. 2  \* kImageCount

\* What is in an image: the frame it was drawn in and the pose of its views.
Blank == [frame |-> 0, pose |-> 0]
Drawings == [frame : 0 .. MaxFrames + 1, pose : 0 .. MaxPose]

\* Nothing encoded yet.
NoFrame == [index |-> -1, tag |-> 0, frame |-> 0, image |-> Blank]

FreshSwapchain == [acquired |-> FALSE, index |-> 0, images |-> [i \in Images |-> Blank]]

\* The application is about to make the call c.
At(c) == process = "running" /\ at = c
Goto(c) == at' = c

\* Check throws, and nobody catches: the process ends.
Dies == process' = "failed" /\ UNCHANGED at

-----------------------------------------------------------------------------
(* Setting up.                                                             *)

Setup == {"instance", "session", "swapchains", "actions"}

\* A call of the setup fails in the driver.  The harness is taken to be set up.
SetupFails ==
  /\ process = "running" /\ at \in Setup /\ app # "harness"
  /\ Dies
  /\ UNCHANGED <<appVars, loopVars, eventVars, deviceLost, session, running, frameBegun,
                 frameIndex, pipelineReady, pose, imageVars, rateVars>>

CreateInstanceAndSystem ==
  /\ At("instance") /\ Goto("session")
  /\ UNCHANGED <<appVars, process, loopVars, eventVars, deviceLost, session, running,
                 frameBegun, frameIndex, pipelineReady, pose, imageVars, rateVars>>

QueueSessionState(states) == events' = events \o states

CreateSession ==
  /\ At("session") /\ ~session
  /\ session' = TRUE
  /\ QueueSessionState(<<"IDLE", "READY">>)
  /\ Goto("swapchains")
  /\ UNCHANGED <<appVars, process, loopVars, stopping, deviceLost, running, frameBegun,
                 frameIndex, pipelineReady, pose, imageVars, rateVars>>

\* One swapchain of three images for each eye.
CreateSpacesAndSwapchains ==
  /\ At("swapchains")
  /\ swapchains' = [e \in Eyes |-> FreshSwapchain]
  /\ Goto("actions")
  /\ UNCHANGED <<appVars, process, loopVars, eventVars, deviceLost, session, running,
                 frameBegun, frameIndex, pipelineReady, pose, eye, staging, encoded, rateVars>>

\* Actions are XrInput's; geometry and shaders are drawing.
CreateActions ==
  /\ At("actions") /\ Goto(IF app = "harness" THEN "ready" ELSE "loop")
  /\ UNCHANGED <<appVars, process, loopVars, eventVars, deviceLost, session, running,
                 frameBegun, frameIndex, pipelineReady, pose, imageVars, rateVars>>

-----------------------------------------------------------------------------
(* The session's states.                                                   *)

\* xrBeginSession, where the session is not running.
BeginSession(rest) ==
  /\ ~running /\ running' = TRUE
  /\ events' = rest \o <<"SYNCHRONIZED", "VISIBLE", "FOCUSED">>

\* Fault: the frame loop's flag alone is reset, and the pipeline is left running.
EndSessionFlagOnly ==
  UNCHANGED <<running, pipelineReady>>

\* xrEndSession, which is refused where the session is not running.
EndSession ==
  IF running THEN running' = FALSE /\ pipelineReady' = FALSE
             ELSE UNCHANGED <<running, pipelineReady>>

\* The title's user leaves: the window's events are processed at the top of the loop.
RequestExitSession ==
  /\ At("loop") /\ app = "title" /\ ~stopping
  /\ stopping' = TRUE /\ QueueSessionState(<<"STOPPING">>)
  /\ UNCHANGED <<appVars, process, at, loopVars, deviceLost, session, running, frameBegun,
                 frameIndex, pipelineReady, pose, imageVars, rateVars>>

ProcessEvents ==
  /\ At("loop") /\ Goto("events")
  /\ UNCHANGED <<appVars, process, loopVars, eventVars, deviceLost, session, running,
                 frameBegun, frameIndex, pipelineReady, pose, imageVars, rateVars>>

\* Fault: the session is ended and the loop goes on with it.
NextEventGoingOn(event) ==
  CASE event = "READY" /\ ~sessionRunning ->
         /\ BeginSession(Tail(events)) /\ sessionRunning' = TRUE
         /\ UNCHANGED <<pipelineReady, exiting>>
    [] event = "STOPPING" -> EndSession /\ events' = Tail(events) /\ UNCHANGED loopVars
    [] OTHER -> events' = Tail(events) /\ UNCHANGED <<running, pipelineReady, loopVars>>

\* What CubeApp makes of a session state.
NextEvent(event) ==
  CASE event = "READY" /\ ~sessionRunning ->
         /\ BeginSession(Tail(events)) /\ sessionRunning' = TRUE
         /\ UNCHANGED <<pipelineReady, exiting>>
    [] event = "STOPPING" ->
         /\ EndSession /\ sessionRunning' = FALSE
         /\ events' = Tail(events) /\ UNCHANGED exiting
    [] event = "EXITING" ->
         /\ exiting' = TRUE
         /\ events' = Tail(events) /\ UNCHANGED <<running, pipelineReady, sessionRunning>>
    [] OTHER ->
         /\ events' = Tail(events)
         /\ UNCHANGED <<running, pipelineReady, sessionRunning, exiting>>

PumpEvent ==
  /\ At("events") /\ events # <<>>
  /\ NextEvent(Head(events))
  /\ UNCHANGED <<appVars, process, at, stopping, deviceLost, session, frameBegun, frameIndex,
                 pose, imageVars, rateVars>>

\* xrPollEvent has no more.
PumpedEvents ==
  /\ At("events") /\ events = <<>>
  /\ Goto(IF sessionRunning THEN "wait" ELSE IF exiting THEN "destroy" ELSE "loop")
  /\ UNCHANGED <<appVars, process, loopVars, eventVars, deviceLost, session, running,
                 frameBegun, frameIndex, pipelineReady, pose, imageVars, rateVars>>

\* The harness reads the events for READY, and begins the session by itself.
HarnessBegins ==
  /\ At("ready") /\ app = "harness" /\ events # <<>>
  /\ BeginSession(<<>>)
  /\ Goto("wait")
  /\ UNCHANGED <<appVars, process, loopVars, stopping, deviceLost, session, frameBegun,
                 frameIndex, pipelineReady, pose, imageVars, rateVars>>

-----------------------------------------------------------------------------
(* xrWaitFrame.                                                            *)

Lower(a, b) == IF a < b THEN a ELSE b
Higher(a, b) == IF a < b THEN b ELSE a

Down(r) == (r * 3) \div 4
Up(r) == (r * 11) \div 10
Clamped(r) == Higher(MinRate, Lower(MaxRate, r))

\* Fault: requests are counted again in the next window.
ConsideredOnce == UNCHANGED checked /\ heard' = 0

\* keyframeRequestsAtLastCheck is brought up to date.
Considered == checked' = requests' /\ heard' = 0

\* AdaptBitrate, after r of the client's requests were consumed; `elapsed': two
\* seconds have passed since the rate was last considered.
AdaptBitrate(r, elapsed) ==
  /\ requests' = requests + r
  /\ \/ /\ rate = 0
        /\ rate' = ConfigRate /\ Considered
        /\ UNCHANGED encoderRate
     \/ /\ rate # 0 /\ ~elapsed
        /\ heard' = heard + r
        /\ UNCHANGED <<rate, checked, encoderRate>>
     \/ /\ rate # 0 /\ elapsed
        /\ rate' = Clamped(IF requests' > checked THEN Down(rate) ELSE Up(rate))
        /\ Considered
        /\ encoderRate' = IF rate' = rate THEN encoderRate ELSE [e \in Eyes |-> rate']

\* The frame has the newest pose the client sent, or the one it had.  A start of
\* the pipeline builds the encoders at the configured rate: AdaptBitrate comes
\* after it and leaves a rate of 0 to that.
WaitFrame ==
  /\ At("wait") /\ running /\ frames < MaxFrames
  /\ pipelineReady' = TRUE
  /\ pose' \in pose .. MaxPose
  /\ \E r \in 0 .. 1, elapsed \in BOOLEAN : AdaptBitrate(r, elapsed)
  /\ Goto("begin")
  /\ UNCHANGED <<appVars, process, loopVars, eventVars, deviceLost, session, running,
                 frameBegun, frameIndex, imageVars>>

\* The pipeline does not start.  The harness leaves its loop.
WaitFrameFails ==
  /\ At("wait") /\ running /\ ~pipelineReady
  /\ IF app = "harness" THEN Goto("end session") /\ UNCHANGED process ELSE Dies
  /\ UNCHANGED <<appVars, loopVars, eventVars, deviceLost, session, running, frameBegun,
                 frameIndex, pipelineReady, pose, imageVars, rateVars>>

\* The harness has had its frames.
HarnessLeaves ==
  /\ At("wait") /\ app = "harness" /\ frames = MaxFrames
  /\ Goto("end session")
  /\ UNCHANGED <<appVars, process, loopVars, eventVars, deviceLost, session, running,
                 frameBegun, frameIndex, pipelineReady, pose, imageVars, rateVars>>

-----------------------------------------------------------------------------
(* Drawing a frame.                                                        *)

\* A frame that was begun and not ended is discarded, with a success code.
BeginFrame ==
  /\ At("begin") /\ running
  /\ frameBegun' = TRUE
  /\ Goto("locate")
  /\ UNCHANGED <<appVars, process, loopVars, eventVars, deviceLost, session, running,
                 frameIndex, pipelineReady, pose, imageVars, rateVars>>

\* xrLocateViews reads session.frame; before the first pose it gives the default
\* viewpoint.
LocateViews ==
  /\ At("locate")
  /\ view' = pose /\ eye' = 0
  /\ Goto("acquire")
  /\ UNCHANGED <<app, frames, process, loopVars, eventVars, deviceLost, session, running,
                 frameBegun, frameIndex, pipelineReady, pose, swapchains, staging, encoded,
                 rateVars>>

\* Fault: the index counts on past the last image.
AcquireUnwrapped(chain) == [chain EXCEPT !.index = @ + 1, !.acquired = TRUE]

Acquire(chain) == [chain EXCEPT !.index = (@ + 1) % 3, !.acquired = TRUE]

AcquireSwapchainImage ==
  /\ At("acquire") /\ ~swapchains[eye].acquired
  /\ swapchains' = [swapchains EXCEPT ![eye] = Acquire(@)]
  /\ Goto("render")
  /\ UNCHANGED <<appVars, process, loopVars, eventVars, deviceLost, session, running,
                 frameBegun, frameIndex, pipelineReady, pose, eye, staging, encoded, rateVars>>

\* xrWaitSwapchainImage, which waits for nothing, and the drawing.
RenderEye ==
  /\ At("render") /\ swapchains[eye].acquired
  /\ swapchains' = [swapchains EXCEPT ![eye].images[swapchains[eye].index] =
                      [frame |-> frames + 1, pose |-> view]]
  /\ Goto("release")
  /\ UNCHANGED <<appVars, process, loopVars, eventVars, deviceLost, session, running,
                 frameBegun, frameIndex, pipelineReady, pose, eye, staging, encoded, rateVars>>

\* Fault: releasing an image moves on to the next.
ReleaseMoving(chain) == [Acquire(chain) EXCEPT !.acquired = FALSE]

Release(chain) == [chain EXCEPT !.acquired = FALSE]

ReleaseSwapchainImage ==
  /\ At("release") /\ swapchains[eye].acquired
  /\ swapchains' = [swapchains EXCEPT ![eye] = Release(@)]
  /\ IF eye = 0 THEN eye' = 1 /\ Goto("acquire") ELSE UNCHANGED eye /\ Goto("end")
  /\ UNCHANGED <<appVars, process, loopVars, eventVars, deviceLost, session, running,
                 frameBegun, frameIndex, pipelineReady, pose, staging, encoded, rateVars>>

-----------------------------------------------------------------------------
(* xrEndFrame.                                                             *)

\* The device reports that it is lost: from here on it always does.
LoseDevice ==
  /\ process = "running" /\ session /\ ~deviceLost
  /\ deviceLost' = TRUE
  /\ UNCHANGED <<appVars, process, at, loopVars, eventVars, session, running, frameBegun,
                 frameIndex, pipelineReady, pose, imageVars, rateVars>>

EndingFrame == At("end") /\ running /\ frameBegun /\ frameBegun' = FALSE

\* CheckDeviceHealth leaves the process.
EndFrameOnLostDevice ==
  /\ EndingFrame /\ deviceLost
  /\ process' = "exited"
  /\ UNCHANGED <<appVars, at, loopVars, eventVars, deviceLost, session, running, frameIndex,
                 pipelineReady, pose, imageVars, rateVars>>

\* The frame is over, for the application.
NextFrame ==
  /\ frames' = frames + 1
  /\ Goto(IF app = "harness" THEN "wait" ELSE IF exiting THEN "destroy" ELSE "loop")

\* A layer the title did not submit: the frame is counted, not encoded.
EndFrameWithoutLayer ==
  /\ EndingFrame /\ ~deviceLost /\ app = "title"
  /\ frameIndex' = frameIndex + 1
  /\ NextFrame
  /\ UNCHANGED <<app, view, process, loopVars, eventVars, deviceLost, session, running,
                 pipelineReady, pose, imageVars, rateVars>>

\* What EncodeEye gives the encoder of eye e: the image last acquired, the index
\* of the frame, and the pose session.frame has now.
Submission(e) == [index |-> frameIndex, tag |-> pose, frame |-> frames + 1,
                  image |-> swapchains[e].images[swapchains[e].index]]

\* Eyes `done' are encoded, but for those `unstaged' whose staging texture cannot
\* be created: they are passed over without an error.
EncodeEyes(done, unstaged) ==
  /\ unstaged \cap staging = {}
  /\ staging' = staging \cup (done \ unstaged)
  /\ encoded' = [e \in Eyes |-> IF e \in done \ unstaged THEN Submission(e) ELSE encoded[e]]
  /\ UNCHANGED <<eye, swapchains>>

EndFrame ==
  /\ EndingFrame /\ ~deviceLost
  /\ \E unstaged \in SUBSET Eyes : EncodeEyes(Eyes, unstaged)
  /\ frameIndex' = frameIndex + 1
  /\ NextFrame
  /\ UNCHANGED <<app, view, process, loopVars, eventVars, deviceLost, session, running,
                 pipelineReady, pose, rateVars>>

\* Fault: the cube ignores the result, as the harness does.
EncodeFailedIgnored == NextFrame /\ UNCHANGED process

\* xrEndFrame returned an error.
EncodeFailed == IF app = "harness" THEN NextFrame /\ UNCHANGED process
                ELSE Dies /\ UNCHANGED frames

\* The encoder of eye e throws: the eyes before it have been encoded, and the
\* frame is not counted.
EndFrameFails(e) ==
  /\ EndingFrame /\ ~deviceLost
  /\ \E unstaged \in SUBSET {d \in Eyes : d < e} : EncodeEyes({d \in Eyes : d < e}, unstaged)
  /\ EncodeFailed
  /\ UNCHANGED <<app, view, loopVars, eventVars, deviceLost, session, running, frameIndex,
                 pipelineReady, pose, rateVars>>

-----------------------------------------------------------------------------
(* Leaving.                                                                *)

HarnessEndsSession ==
  /\ At("end session") /\ EndSession
  /\ Goto("destroy")
  /\ UNCHANGED <<appVars, process, loopVars, eventVars, deviceLost, session, frameBegun,
                 frameIndex, pose, imageVars, rateVars>>

\* xrDestroySwapchain of each, xrDestroySession, xrDestroyInstance.
Teardown ==
  /\ At("destroy")
  /\ session' = FALSE /\ running' = FALSE /\ pipelineReady' = FALSE /\ events' = <<>>
  /\ process' = "ended"
  /\ UNCHANGED <<appVars, at, loopVars, stopping, deviceLost, frameBegun, frameIndex, pose,
                 imageVars, rateVars>>

-----------------------------------------------------------------------------
Init ==
  /\ app \in {"cube", "title", "harness"} /\ process = "running"
  /\ at = "instance" /\ eye = 0 /\ frames = 0 /\ view = 0
  /\ sessionRunning = FALSE /\ exiting = FALSE /\ deviceLost = FALSE
  /\ events = <<>> /\ session = FALSE
  /\ running = FALSE /\ stopping = FALSE /\ frameBegun = FALSE /\ frameIndex = 0
  /\ pipelineReady = FALSE /\ pose = 0
  /\ swapchains = [e \in Eyes |-> FreshSwapchain] /\ staging = {}
  /\ encoded = [e \in Eyes |-> NoFrame]
  /\ rate = 0 /\ requests = 0 /\ checked = 0 /\ heard = 0
  /\ encoderRate = [e \in Eyes |-> ConfigRate]

Setups == SetupFails \/ CreateInstanceAndSystem \/ CreateSession
            \/ CreateSpacesAndSwapchains \/ CreateActions

Loop == ProcessEvents \/ PumpEvent \/ PumpedEvents \/ HarnessBegins

Frame == \/ WaitFrame \/ WaitFrameFails \/ BeginFrame \/ LocateViews
         \/ AcquireSwapchainImage \/ RenderEye \/ ReleaseSwapchainImage
         \/ EndFrameOnLostDevice \/ EndFrameWithoutLayer \/ EndFrame
         \/ \E e \in Eyes : EndFrameFails(e)

Leave == HarnessLeaves \/ HarnessEndsSession \/ Teardown

Next == Setups \/ RequestExitSession \/ Loop \/ Frame \/ LoseDevice \/ Leave

Spec == Init /\ [][Next]_vars

\* The application's thread goes on.
FairSpec == Spec /\ WF_vars(Setups \/ Loop \/ Frame \/ Leave)

-----------------------------------------------------------------------------
(* Properties.                                                             *)

Calls == Setup \cup {"loop", "events", "ready", "wait", "begin", "locate", "acquire", "render",
                     "release", "end", "end session", "destroy"}
States == {"IDLE", "READY", "SYNCHRONIZED", "VISIBLE", "FOCUSED", "STOPPING", "EXITING"}
Chains == [acquired : BOOLEAN, index : Images, images : [Images -> Drawings]]
Submissions == [index : Int, tag : 0 .. MaxPose, frame : Nat, image : Drawings]

FlagsType ==
  /\ sessionRunning \in BOOLEAN /\ exiting \in BOOLEAN /\ deviceLost \in BOOLEAN
  /\ session \in BOOLEAN /\ running \in BOOLEAN /\ stopping \in BOOLEAN
  /\ frameBegun \in BOOLEAN /\ pipelineReady \in BOOLEAN

LoopType ==
  /\ app \in {"cube", "title", "harness"}
  /\ process \in {"running", "failed", "exited", "ended"}
  /\ at \in Calls /\ events \in Seq(States)
  /\ frames \in 0 .. MaxFrames /\ frameIndex \in Nat
  /\ view \in 0 .. MaxPose /\ pose \in 0 .. MaxPose

ImagesType ==
  /\ eye \in Eyes /\ swapchains \in [Eyes -> Chains]
  /\ staging \in SUBSET Eyes /\ encoded \in [Eyes -> Submissions]

RateType ==
  /\ rate \in {0} \cup (MinRate .. MaxRate)
  /\ encoderRate \in [Eyes -> MinRate .. MaxRate]
  /\ requests \in Nat /\ checked \in Nat /\ heard \in Nat

\* Every variable stays in its type: acquiredIndex names one of the three images,
\* and an adapted bitrate stays between its limits.
TypeOK == FlagsType /\ LoopType /\ ImagesType /\ RateType

\* The call the application makes next is one the runtime takes at this point.
Taken ==
  CASE at = "session" -> ~session
    [] at \in {"wait", "begin"} -> running
    [] at = "acquire" -> ~swapchains[eye].acquired
    [] at \in {"render", "release"} -> swapchains[eye].acquired
    [] at = "end" -> running /\ frameBegun
    [] OTHER -> TRUE

\* An application led by the runtime's events, ended by its user at any turn of
\* its loop, never makes a call the runtime refuses for its order: with Check on
\* every result, a refusal would be the end of the process.
CallsAreTaken == process = "running" => Taken

\* What an eye's encoder is given is the image the application drew for this very
\* frame, and the tag is the pose its views were located with: the client warps
\* from that pose (EncodeEye takes acquiredIndex for the image last released, and
\* SubmitFrameImpl the pose session.frame has by then).
DrawnIsEncoded ==
  \A e \in Eyes : encoded[e] # NoFrame =>
    encoded[e].image = [frame |-> encoded[e].frame, pose |-> encoded[e].tag]

\* An application that stops at a failed xrEndFrame gives no encoder two frames of
\* one index, not even when the second eye's encoder fails after the first eye's
\* was given the frame, which leaves frameIndex as it was.
NoIndexTwice ==
  [][\A e \in Eyes : app # "harness" /\ encoded'[e] # encoded[e]
                        => encoded'[e].index > encoded[e].index]_vars

\* The bitrate is raised only after two seconds without a keyframe request, and
\* lowered only if there was one: every request counts in exactly one window.
RateFollowsLoss ==
  [][rate # 0 => /\ rate' > rate => heard = 0 /\ requests' = requests
                 /\ rate' < rate => heard > 0 \/ requests' > requests]_vars

\* A title asked to stop stops: the runtime's session ends, whatever frame it was
\* in and whether or not it had begun.
StopEndsSession == stopping ~> (~running \/ process # "running")

-----------------------------------------------------------------------------
(* The inductive invariant behind TypeOK, CallsAreTaken, DrawnIsEncoded,        *)
(* NoIndexTwice and RateFollowsLoss.                                           *)

Drawing == {"acquire", "render", "release", "end"}
FrameCalls == {"wait", "begin", "locate"} \cup Drawing

\* What the session and the swapchains look like at each of the application's calls.
CallInv ==
  process = "running" =>
    /\ at \in {"ready", "end session"} => app = "harness"
    /\ at \in {"loop", "events"} => app # "harness"
    /\ at \in {"instance", "session"} => ~session
    /\ app # "harness" => running = sessionRunning
    /\ at \in FrameCalls => running
    /\ at \in {"locate"} \cup Drawing => frameBegun
    /\ \A e \in Eyes : swapchains[e].acquired <=> at \in {"render", "release"} /\ e = eye

\* A frame is begun only below the bound.
BoundInv == at \in {"begin", "locate"} \cup Drawing => frames < MaxFrames

\* The eyes whose image of this frame is drawn.
Drawn == CASE at \in {"acquire", "render"} -> {e \in Eyes : e < eye}
           [] at = "release" -> {e \in Eyes : e <= eye}
           [] at = "end" -> Eyes
           [] OTHER -> {}

\* From xrLocateViews to xrEndFrame the frame's pose stays, and the last acquired image
\* is this frame's.
DrawInv ==
  /\ at \in Drawing => view = pose
  /\ \A e \in Drawn :
       swapchains[e].images[swapchains[e].index] = [frame |-> frames + 1, pose |-> view]

\* No encoder has a frame of the index that comes next.
IndexInv ==
  app # "harness" /\ process = "running" => \A e \in Eyes : encoded[e].index < frameIndex

\* The requests of this window are those not yet considered.
HeardInv == heard = requests - checked

IInv == TypeOK /\ CallInv /\ BoundInv /\ DrawInv /\ DrawnIsEncoded /\ IndexInv /\ HeardInv
=============================================================================
