------------------------------ MODULE VrClient ------------------------------
(***************************************************************************)
(* The headset's client, from the launch of VrActivity to its end: the     *)
(* render loop on the native thread, the frames that the receiving and the *)
(* two codec threads bring into the eye textures, the poses that go out,   *)
(* and the warp that joins them again (client/android/vr, PoseSender).     *)
(*                                                                         *)
(* `at' is the native thread's place in android_main and XrApp::Tick, and  *)
(* `eye' the eye it is at.  A pose is the number of the views it was       *)
(* located with, in `view'; a frame is the sequence of the pose it was     *)
(* rendered against, 0 if the host had none.  StreamReceiver and           *)
(* VideoDecoder say which frames get this far; here any may, in order.     *)
(* External: the headset's OpenXR runtime, MediaCodec and SurfaceTexture.  *)
(***************************************************************************)
EXTENDS Integers, Sequences

CONSTANTS
  HistorySize,  \* HISTORY_SIZE of PoseSender
  StreamedEyes, \* bound: the eyes that frames come for
  MaxPose,      \* bound: views located
  MaxInCodec,   \* bound: frames in a codec
  MaxChanges    \* bound: changes of the session's state

ASSUME SizeAssumption == HistorySize \in Nat \ {0}
ASSUME BoundsAssumption == MaxPose \in Nat /\ MaxInCodec \in Nat \ {0} /\ MaxChanges \in Nat
                           /\ StreamedEyes \subseteq 0 .. 1

VARIABLES
  activity,        \* VrActivity: created, being destroyed, destroyed
  at, eye,         \* the native thread's next step, and for which eye
  xrState, changes, events,         \* external: the session, how often it changed; its events
  sessionRunning, exitRequested, destroyRequested,
  texturesAttached, texturesReady,  \* g_state's and VrActivity's
  videoProgram,    \* GlRenderer.m_videoProgram was built
  configured, sawKeyframe,          \* of each decoder
  codec, rendering,  \* the frames in each codec; the one its callback is about to release
  lastRendered,    \* lastRenderedPoseSequence of each decoder
  surface, shown,  \* the newest image of each SurfaceTexture; the one in the eye's texture
  displayed,       \* displayedRenderPoseSequence
  arrived,         \* the last frame that came for each eye
  receiving,       \* stats.fragmentsReceived > 0
  hostAddress, host,                \* the receiver's, and PoseSender's
  sequence, history,                \* PoseSender's count and ring
  view, synced, controllerState,  \* frames begun; whether this one's sync worked; VrActivity's
                                  \* hands, by the frame they are of
  everReceivedFrame, status,
  drawn,           \* what each eye was drawn with
  packet, sent     \* history: the last pose packet; the views of every pose sent

loopVars == <<sessionRunning, exitRequested, destroyRequested>>
xrVars == <<xrState, changes, events>>
textureVars == <<texturesAttached, texturesReady, videoProgram>>
decoderVars == <<configured, sawKeyframe>>
codecVars == <<codec, rendering, lastRendered, surface>>
latchVars == <<shown, displayed>>
streamVars == <<arrived, receiving, hostAddress>>
poseVars == <<host, sequence, history, view, packet, sent>>
handVars == <<synced, controllerState>>
statusVars == <<everReceivedFrame, status>>
vars == <<activity, at, eye, loopVars, xrVars, textureVars, decoderVars, codecVars, latchVars,
          streamVars, poseVars, handVars, statusVars, drawn>>

Eyes == 0 .. 1
Poses == 0 .. MaxPose
NoImage == -1
Images == {NoImage} \cup Poses
Statuses == {"WaitingForHost", "ReceivingNoKeyframe", "Decoding", "Streaming"}

NoWarp == [valid |-> FALSE, from |-> 0, to |-> 0]
Warps == [valid : BOOLEAN, from : Poses, to : Poses]
Pattern == [video |-> FALSE, image |-> NoImage, tag |-> 0, warp |-> NoWarp]
Pictures == [video : BOOLEAN, image : Images, tag : Poses, warp : Warps]

At(p) == at = p
Goto(p) == at' = p /\ UNCHANGED eye
\* Fault: one eye too many.
NextEyeTooMany(p) == IF eye < 2 THEN eye' = eye + 1 /\ UNCHANGED at ELSE eye' = 0 /\ at' = p

\* The next eye has the same step, the last one goes on to p.
NextEye(p) == IF eye = 0 THEN eye' = 1 /\ UNCHANGED at ELSE eye' = 0 /\ at' = p

-----------------------------------------------------------------------------
(* Starting, the session's events, and stopping.                           *)

\* XrApp::Initialize fails, and android_main returns.
InitializeFails ==
  /\ At("initialize") /\ Goto("exited")
  /\ UNCHANGED <<activity, loopVars, xrVars, textureVars, decoderVars, codecVars, latchVars,
                 streamVars, poseVars, handVars, statusVars, drawn>>

\* The renderer does without a video program that does not build.
Initialize ==
  /\ At("initialize") /\ Goto("loop")
  /\ videoProgram' \in BOOLEAN
  /\ UNCHANGED <<activity, loopVars, xrVars, texturesAttached, texturesReady, decoderVars,
                 codecVars, latchVars, streamVars, poseVars, handVars, statusVars, drawn>>

\* The headset's runtime changes the session's state, as OpenXR lets it, and says so.
XrStateChanges ==
  /\ at \notin {"initialize", "exited"} /\ changes < MaxChanges
  /\ changes' = changes + 1
  /\ \/ xrState = "idle" /\ xrState' = "ready" /\ events' = Append(events, "READY")
     \/ xrState = "idle" /\ xrState' = "exiting" /\ events' = Append(events, "EXITING")
     \/ xrState = "running" /\ xrState' = "stopping" /\ events' = Append(events, "STOPPING")
     \/ xrState # "lost" /\ xrState' = "lost" /\ events' = Append(events, "LOSS_PENDING")
  /\ UNCHANGED <<activity, at, eye, loopVars, textureVars, decoderVars, codecVars, latchVars,
                 streamVars, poseVars, handVars, statusVars, drawn>>

\* Fault: the looper is waited on for ever while no session runs.
DrainLooperBlocked ==
  /\ At("loop") /\ (sessionRunning \/ destroyRequested)
  /\ IF destroyRequested THEN Goto("shutdown") /\ UNCHANGED destroyRequested
     ELSE Goto("poll") /\ destroyRequested' = (activity = "destroying")
  /\ UNCHANGED <<activity, sessionRunning, exitRequested, xrVars, textureVars, decoderVars,
                 codecVars, latchVars, streamVars, poseVars, handVars, statusVars, drawn>>

\* The loop's condition; then the looper hands over what Android had to say, and the turn
\* it says so in is still taken.
DrainLooper ==
  /\ At("loop")
  /\ IF destroyRequested THEN Goto("shutdown") /\ UNCHANGED destroyRequested
     ELSE Goto("poll") /\ destroyRequested' = (activity = "destroying")
  /\ UNCHANGED <<activity, sessionRunning, exitRequested, xrVars, textureVars, decoderVars,
                 codecVars, latchVars, streamVars, poseVars, handVars, statusVars, drawn>>

\* READY: the session runs if xrBeginSession does, which only a lost session refuses.
BeginSession ==
  /\ sessionRunning' = (xrState = "ready" \/ sessionRunning)
  /\ xrState' = IF xrState = "ready" THEN "running" ELSE xrState
  /\ UNCHANGED exitRequested

EndSession ==
  /\ sessionRunning' = FALSE
  /\ xrState' = IF xrState = "stopping" THEN "idle" ELSE xrState
  /\ UNCHANGED exitRequested

PollEvent ==
  /\ At("poll") /\ events # <<>>
  /\ events' = Tail(events)
  /\ CASE Head(events) = "READY" -> BeginSession
       [] Head(events) = "STOPPING" -> EndSession
       [] OTHER -> exitRequested' = TRUE /\ UNCHANGED <<sessionRunning, xrState>>
  /\ UNCHANGED <<activity, at, eye, changes, destroyRequested, textureVars, decoderVars,
                 codecVars, latchVars, streamVars, poseVars, handVars, statusVars, drawn>>

\* Tick, as far as xrWaitFrame: only a running session gets there.
PolledEvents ==
  /\ At("poll") /\ events = <<>>
  /\ Goto(CASE exitRequested -> "shutdown"
            [] ~exitRequested /\ ~sessionRunning -> "loop"
            [] OTHER -> "wait")
  /\ UNCHANGED <<activity, loopVars, xrVars, textureVars, decoderVars, codecVars, latchVars,
                 streamVars, poseVars, handVars, statusVars, drawn>>

\* xrWaitFrame fails for a lost session (and past the bound); a frame is begun otherwise.
WaitFrame ==
  /\ At("wait")
  /\ Goto(IF xrState = "lost" \/ view = MaxPose THEN "loop"
          ELSE IF texturesAttached THEN "latch" ELSE "attach")
  /\ UNCHANGED <<activity, loopVars, xrVars, textureVars, decoderVars, codecVars, latchVars,
                 streamVars, poseVars, handVars, statusVars, drawn>>

Shutdown ==
  /\ At("shutdown") /\ Goto("exited")
  /\ UNCHANGED <<activity, loopVars, xrVars, textureVars, decoderVars, codecVars, latchVars,
                 streamVars, poseVars, handVars, statusVars, drawn>>

\* Android destroys the activity: NativeActivity's onDestroy waits for android_main.
OnDestroy ==
  /\ activity = "created" /\ activity' = "destroying"
  /\ UNCHANGED <<at, eye, loopVars, xrVars, textureVars, decoderVars, codecVars, latchVars,
                 streamVars, poseVars, handVars, statusVars, drawn>>

\* ... and only then are the receiver, the sender and the decoders stopped.
OnDestroyed ==
  /\ activity = "destroying" /\ At("exited")
  /\ activity' = "destroyed"
  /\ configured' = [e \in Eyes |-> FALSE]
  /\ codec' = [e \in Eyes |-> <<>>] /\ rendering' = [e \in Eyes |-> NoImage]
  /\ UNCHANGED <<at, eye, loopVars, xrVars, textureVars, sawKeyframe, lastRendered, surface,
                 latchVars, streamVars, poseVars, handVars, statusVars, drawn>>

-----------------------------------------------------------------------------
(* Frames: received, decoded, rendered to the surface.                     *)

\* The receiver's first fragments; it takes their sender for the host.
FragmentsArrive ==
  /\ activity # "destroyed" /\ ~receiving
  /\ receiving' = TRUE /\ hostAddress' = TRUE
  /\ UNCHANGED <<activity, at, eye, loopVars, xrVars, textureVars, decoderVars, codecVars,
                 latchVars, arrived, poseVars, handVars, statusVars, drawn>>

\* VrActivity.onFrame and VideoDecoder.decode, for a frame rendered against the pose p.
OnFrame(e, p, keyframe) ==
  /\ activity # "destroyed" /\ receiving
  /\ p \in arrived[e] .. sequence /\ Len(codec[e]) < MaxInCodec
  /\ arrived' = [arrived EXCEPT ![e] = p]
  /\ IF texturesReady /\ configured[e] /\ (sawKeyframe[e] \/ keyframe)
     THEN /\ codec' = [codec EXCEPT ![e] = Append(@, p)]
          /\ sawKeyframe' = [sawKeyframe EXCEPT ![e] = TRUE]
     ELSE UNCHANGED <<codec, sawKeyframe>>
  /\ UNCHANGED <<activity, at, eye, loopVars, xrVars, textureVars, configured, rendering,
                 lastRendered, surface, latchVars, receiving, hostAddress, poseVars, handVars,
                 statusVars, drawn>>

\* onOutputBufferAvailable keeps the pose of the frame ...
OutputAvailable(e) ==
  /\ rendering[e] = NoImage /\ codec[e] # <<>>
  /\ rendering' = [rendering EXCEPT ![e] = Head(codec[e])]
  /\ codec' = [codec EXCEPT ![e] = Tail(@)]
  /\ lastRendered' = [lastRendered EXCEPT ![e] = Head(codec[e])]
  /\ UNCHANGED <<activity, at, eye, loopVars, xrVars, textureVars, decoderVars, surface,
                 latchVars, streamVars, poseVars, handVars, statusVars, drawn>>

\* ... and then releases its buffer to the surface.
ReleaseOutput(e) ==
  /\ rendering[e] # NoImage
  /\ surface' = [surface EXCEPT ![e] = rendering[e]]
  /\ rendering' = [rendering EXCEPT ![e] = NoImage]
  /\ UNCHANGED <<activity, at, eye, loopVars, xrVars, textureVars, decoderVars, codec,
                 lastRendered, latchVars, streamVars, poseVars, handVars, statusVars, drawn>>

\* onError: the decoder waits for a keyframe again.
CodecError(e) ==
  /\ configured[e] /\ sawKeyframe[e]
  /\ sawKeyframe' = [sawKeyframe EXCEPT ![e] = FALSE]
  /\ UNCHANGED <<activity, at, eye, loopVars, xrVars, textureVars, configured, codecVars,
                 latchVars, streamVars, poseVars, handVars, statusVars, drawn>>
-----------------------------------------------------------------------------
(* A frame of the render loop.                                             *)

\* attachEyeTextures: a surface and a decoder for each eye, which may fail to start ...
AttachEyeTexture ==
  /\ At("attach")
  /\ \E started \in BOOLEAN :
       /\ configured' = [configured EXCEPT ![eye] = started]
       /\ sawKeyframe' = [sawKeyframe EXCEPT ![eye] = FALSE]
  /\ NextEye("attached")
  /\ UNCHANGED <<activity, loopVars, xrVars, textureVars, codecVars, latchVars, streamVars,
                 poseVars, handVars, statusVars, drawn>>

\* ... and frames are let in.
AttachedEyeTextures ==
  /\ At("attached") /\ Goto("latch")
  /\ texturesReady' = TRUE /\ texturesAttached' = TRUE
  /\ UNCHANGED <<activity, loopVars, xrVars, videoProgram, decoderVars, codecVars, latchVars,
                 streamVars, poseVars, handVars, statusVars, drawn>>

\* updateTexImage: the newest image, or, without an error, none.
UpdateTexImage ==
  /\ At("latch") /\ at' = "tag" /\ UNCHANGED eye
  /\ shown' = [shown EXCEPT ![eye] = surface[eye]]
  /\ UNCHANGED <<activity, loopVars, xrVars, textureVars, decoderVars, codecVars, displayed,
                 streamVars, poseVars, handVars, statusVars, drawn>>

\* Fault: the tag of the frame that arrived last.
TagArrived(e) == arrived[e]

\* The tag of the frame the decoder rendered last.
TagRendered(e) == lastRendered[e]

\* updateEyeTextures' second half, for an eye: 0 says nothing.
ReadTag ==
  /\ At("tag")
  /\ displayed' = IF TagRendered(eye) > 0 THEN [displayed EXCEPT ![eye] = TagRendered(eye)]
                                          ELSE displayed
  /\ IF eye = 0 THEN eye' = 1 /\ at' = "latch" ELSE eye' = 0 /\ at' = "status"
  /\ UNCHANGED <<activity, loopVars, xrVars, textureVars, decoderVars, codecVars, shown,
                 streamVars, poseVars, handVars, statusVars, drawn>>

\* VrActivity.getStreamStatus.
StreamStatus ==
  CASE ~receiving -> "WaitingForHost"
    [] receiving /\ ~(configured[0] /\ sawKeyframe[0]) -> "ReceivingNoKeyframe"
    [] OTHER -> "Decoding"

\* What updateEyeTextures returns: TRUE once it has run updateTexImage, with an image or none.
HasNewFrame == texturesReady

\* The native OnFrame: Streaming for 400 ms from the last new frame.
SetStatus ==
  /\ At("status") /\ Goto("controllers")
  /\ everReceivedFrame' = (HasNewFrame \/ everReceivedFrame)
  /\ status' \in IF HasNewFrame THEN {"Streaming"}
                ELSE {StreamStatus} \cup (IF everReceivedFrame THEN {"Streaming"} ELSE {})
  /\ UNCHANGED <<activity, loopVars, xrVars, textureVars, decoderVars, codecVars, latchVars,
                 streamVars, poseVars, handVars, drawn>>

\* The pose the views of this frame will have.
ThisView == view + 1

\* The predicted display time that UpdateControllers is called with.
HandsTime == ThisView

\* The hands of this frame, for the time its views are located for.  A sync that fails
\* leaves VrActivity with the hands of an earlier one.
UpdateControllers ==
  /\ At("controllers") /\ Goto("render")
  /\ synced' \in {TRUE, xrState # "lost"}
  /\ controllerState' = IF synced' THEN HandsTime ELSE controllerState
  /\ UNCHANGED <<activity, loopVars, xrVars, textureVars, decoderVars, codecVars, latchVars,
                 streamVars, poseVars, statusVars, drawn>>

\* shouldRender is FALSE: the frame is ended without a layer.
EndEmptyFrame ==
  /\ At("render") /\ Goto("loop")
  /\ view' = ThisView
  /\ UNCHANGED <<activity, loopVars, xrVars, textureVars, decoderVars, codecVars, latchVars,
                 streamVars, host, sequence, history, packet, sent, handVars, statusVars, drawn>>

Slot(n) == n % HistorySize

\* VrActivity.submitPose and PoseSender.send: the host is taken once it is known.
SubmitPose ==
  IF host \/ hostAddress
  THEN /\ host' = TRUE
       /\ sequence' = sequence + 1
       /\ history' = [history EXCEPT ![Slot(sequence + 1)] =
                        [sequence |-> sequence + 1, view |-> ThisView]]
       /\ packet' = [view |-> ThisView, hands |-> controllerState, synced |-> synced]
       /\ sent' = Append(sent, ThisView)
  ELSE UNCHANGED <<host, sequence, history, packet, sent>>

\* Fault: a slot is taken for the pose it was asked about.
LookupPoseUnchecked(h, n) == TRUE

\* PoseSender.lookupPose finds the pose n in the ring h.
LookupPose(h, n) == h[Slot(n)].sequence = n

\* UpdateReprojection of an eye, from the ring h: no warp without a pose to warp from.
Reprojection(e, h) ==
  IF displayed[e] # 0 /\ LookupPose(h, displayed[e])
  THEN [valid |-> TRUE, from |-> h[Slot(displayed[e])].view, to |-> ThisView]
  ELSE NoWarp

\* GlRenderer::DrawEye: the video where it streams and can be drawn, a pattern otherwise.
DrawEye(e, warp) ==
  IF status = "Streaming" /\ videoProgram
  THEN [video |-> TRUE, image |-> shown[e], tag |-> displayed[e], warp |-> warp]
  ELSE Pattern

\* The views are located and sent, and each eye is warped to them and drawn.
RenderFrame ==
  /\ At("render") /\ Goto("loop")
  /\ view' = ThisView
  /\ SubmitPose
  /\ drawn' = [e \in Eyes |-> DrawEye(e, Reprojection(e, history'))]
  /\ UNCHANGED <<activity, loopVars, xrVars, textureVars, decoderVars, codecVars, latchVars,
                 streamVars, handVars, statusVars>>

-----------------------------------------------------------------------------
(* Specification.                                                          *)

NoSlot == [sequence |-> 0, view |-> 0]

Init ==
  /\ activity = "created" /\ at = "initialize" /\ eye = 0
  /\ xrState = "idle" /\ changes = 0 /\ events = <<>>
  /\ sessionRunning = FALSE /\ exitRequested = FALSE /\ destroyRequested = FALSE
  /\ texturesAttached = FALSE /\ texturesReady = FALSE /\ videoProgram = FALSE
  /\ configured = [e \in Eyes |-> FALSE] /\ sawKeyframe = [e \in Eyes |-> FALSE]
  /\ codec = [e \in Eyes |-> <<>>] /\ rendering = [e \in Eyes |-> NoImage]
  /\ lastRendered = [e \in Eyes |-> 0] /\ surface = [e \in Eyes |-> NoImage]
  /\ shown = [e \in Eyes |-> NoImage] /\ displayed = [e \in Eyes |-> 0]
  /\ arrived = [e \in Eyes |-> 0] /\ receiving = FALSE /\ hostAddress = FALSE
  /\ host = FALSE /\ sequence = 0 /\ history = [i \in 0 .. HistorySize - 1 |-> NoSlot]
  /\ view = 0 /\ packet = [view |-> 0, hands |-> 0, synced |-> TRUE] /\ sent = <<>>
  /\ synced = FALSE /\ controllerState = 0
  /\ everReceivedFrame = FALSE /\ status = "WaitingForHost"
  /\ drawn = [e \in Eyes |-> Pattern]

Loop ==
  \/ InitializeFails \/ Initialize \/ DrainLooper \/ PollEvent \/ PolledEvents \/ WaitFrame
  \/ AttachEyeTexture \/ AttachedEyeTextures \/ UpdateTexImage \/ ReadTag \/ SetStatus
  \/ UpdateControllers \/ EndEmptyFrame \/ RenderFrame \/ Shutdown

Stream ==
  \/ FragmentsArrive
  \/ \E e \in StreamedEyes :
       \/ \E p \in Poses, keyframe \in BOOLEAN : OnFrame(e, p, keyframe)
       \/ OutputAvailable(e) \/ ReleaseOutput(e) \/ CodecError(e)

Next == Loop \/ Stream \/ XrStateChanges \/ OnDestroy \/ OnDestroyed

Spec == Init /\ [][Next]_vars

\* The native and the UI thread run; no call of the loop blocks for ever.
FairSpec == Spec /\ WF_vars(Loop) /\ WF_vars(OnDestroyed)

-----------------------------------------------------------------------------
(* Properties.                                                             *)

LoopType ==
  /\ activity \in {"created", "destroying", "destroyed"}
  /\ at \in {"initialize", "loop", "poll", "wait", "attach", "attached", "latch", "tag",
             "status", "controllers", "render", "shutdown", "exited"}
  /\ eye \in Eyes
  /\ xrState \in {"idle", "ready", "running", "stopping", "exiting", "lost"}
  /\ changes \in 0 .. MaxChanges
  /\ events \in Seq({"READY", "STOPPING", "EXITING", "LOSS_PENDING"})
  /\ sessionRunning \in BOOLEAN /\ exitRequested \in BOOLEAN /\ destroyRequested \in BOOLEAN
  /\ texturesAttached \in BOOLEAN /\ texturesReady \in BOOLEAN /\ videoProgram \in BOOLEAN
  /\ everReceivedFrame \in BOOLEAN /\ status \in Statuses

StreamType ==
  /\ configured \in [Eyes -> BOOLEAN] /\ sawKeyframe \in [Eyes -> BOOLEAN]
  /\ codec \in [Eyes -> Seq(Poses)] /\ rendering \in [Eyes -> Images]
  /\ lastRendered \in [Eyes -> Poses] /\ surface \in [Eyes -> Images]
  /\ shown \in [Eyes -> Images] /\ displayed \in [Eyes -> Poses]
  /\ arrived \in [Eyes -> Poses]
  /\ receiving \in BOOLEAN /\ hostAddress \in BOOLEAN

PoseType ==
  /\ host \in BOOLEAN /\ synced \in BOOLEAN
  /\ view \in Poses /\ sequence \in 0 .. view
  /\ history \in [0 .. HistorySize - 1 -> [sequence : Poses, view : Poses]]
  /\ packet \in [view : Poses, hands : Poses, synced : BOOLEAN] /\ sent \in Seq(Poses)
  /\ controllerState \in Poses

\* Every variable holds a value the code can give it.
TypeOK == LoopType /\ StreamType /\ PoseType /\ drawn \in [Eyes -> Pictures]

\* However the ring wraps, an eye is warped from the very views that were sent as the pose
\* its tag names, or not at all (PoseSender.lookupPose, UpdateReprojection).
WarpIsOfItsPose ==
  \A e \in Eyes : drawn[e].warp.valid =>
    drawn[e].tag \in 1 .. Len(sent) /\ drawn[e].warp.from = sent[drawn[e].tag]

\* The tag an eye is warped by is never older than its image, and of a frame the decoder has
\* given out, not of one that has only arrived (VrActivity.updateEyeTextures; the codec's
\* callback keeps the tag first, so that it can be newer).
TagIsOfARenderedFrame ==
  \A e \in Eyes : drawn[e].video =>
    drawn[e].image <= drawn[e].tag /\ drawn[e].tag <= lastRendered[e]

\* Android's wait for the native thread ends, whatever the session is doing, and with it the
\* decoders, the receiver and the sender are stopped (android_main, VrActivity.onDestroy).
DestroyReturns == activity = "destroying" ~> activity = "destroyed"

-----------------------------------------------------------------------------
(* The inductive invariant behind the safety properties.                    *)

\* Within a frame there is room for its views (a bound of the model).
RoomInv ==
  at \in {"attach", "attached", "latch", "tag", "status", "controllers", "render"} =>
    view < MaxPose

\* What the ring holds was sent as what it says.
RingInv ==
  /\ Len(sent) = sequence
  /\ \A i \in DOMAIN history : history[i].sequence # 0 =>
       /\ history[i].sequence \in 1 .. Len(sent)
       /\ history[i].view = sent[history[i].sequence]

\* Frames keep their order from the network to the surface.
OrderInv ==
  \A e \in Eyes :
    /\ \A i, j \in DOMAIN codec[e] : i < j => codec[e][i] <= codec[e][j]
    /\ \A i \in DOMAIN codec[e] : lastRendered[e] <= codec[e][i] /\ codec[e][i] <= arrived[e]
    /\ rendering[e] <= lastRendered[e] /\ surface[e] <= lastRendered[e]
    /\ lastRendered[e] <= arrived[e]

\* Between an eye's updateTexImage and the reading of its tag, and only there, its image
\* may be newer than its tag.
TagInv ==
  \A e \in Eyes :
    /\ shown[e] <= lastRendered[e] /\ displayed[e] <= lastRendered[e]
    /\ ~(at = "tag" /\ eye = e) => shown[e] <= displayed[e]

IInv == TypeOK /\ RoomInv /\ RingInv /\ OrderInv /\ TagInv /\ WarpIsOfItsPose /\ TagIsOfARenderedFrame
=============================================================================
