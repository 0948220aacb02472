------------------------------ MODULE XrInput ------------------------------
(***************************************************************************)
(* Controllers, from the client's samples to a shot: the bindings of an    *)
(* action, the snapshot xrSyncActions takes, the answers to the queries    *)
(* about it, the spaces that follow a hand, and the game that uses them    *)
(* (framework/src/openxr, samples/XrShootingRange).                        *)
(*                                                                         *)
(* `app' is one of two applications.  The "range" is the sample: on one    *)
(* thread, `at' its place, it waits, syncs, updates the game and draws.    *)
(* The "title" is external: it binds one action as it likes, waits on one  *)
(* thread and syncs and asks on another, in any order.                     *)
(*                                                                         *)
(* A trigger is a level: 0 released, 1 pulled short of the game's fire     *)
(* point of 0.6, 2 past it, 3 past the 0.7 that makes a boolean action     *)
(* true.  External: the client, by the samples that xrWaitFrame finds, and *)
(* chance, by the targets that a ray passes through.                       *)
(***************************************************************************)
EXTENDS Integers, FiniteSets

CONSTANTS
  Samples,     \* what a sample can say of the two hands
  Components,  \* the controls the title's suggestions name
  Targets,     \* targets of the range
  FadeSteps,   \* updates from a kill to the next spawn (1.0 / 0.04)
  MaxSamples   \* bound: samples the client sends

Hands == 0 .. 1
FirePoint == 2
Pulled == 3
Levels == 0 .. Pulled

\* A ControllerInput: the poses are told apart by their sample.
ControllerInput == [active : BOOLEAN, trigger : Levels, click : 0 .. 1, stick : 0 .. 1]

ASSUME SampleAssumption == Samples \subseteq [Hands -> ControllerInput]
ASSUME FadeAssumption == FadeSteps \in Nat \ {0, 1}
ASSUME MaxSamplesAssumption == MaxSamples \in Nat

VARIABLES
  app, at,                      \* which application; the range's next call
  type, sub, bindings,          \* the title's action, the hand it asks about, its bindings
  attached,                     \* session.actionsAttached
  client, clientConnected,      \* the client's life; session.clientConnected
  frame,                        \* session.frame: its sample, by number and controllers
  actionFrame, actionFramePrev, \* the last two syncs' snapshots
  focus,                        \* what the last xrSyncActions returned
  said, saidBefore,             \* history: the title's answers since the last sync and the one before
  trigger, pendingShot, handTracked, handPose,  \* the range's, for each hand
  fade,                         \* hitFlash of each target, in steps; 0 is alive
  score,                        \* m_score
  lowest, shot                  \* history: lowest level since a hand's shot; its last shot

titleVars == <<type, sub, bindings, attached>>
saidVars == <<said, saidBefore>>
clientVars == <<client, clientConnected>>
syncVars == <<actionFrame, actionFramePrev, focus>>
handVars == <<trigger, pendingShot, handTracked, handPose>>
gameVars == <<fade, score, shot>>
rangeVars == <<handVars, gameVars, lowest>>
vars == <<app, at, type, sub, bindings, attached, client, clientConnected, frame, actionFrame,
          actionFramePrev, focus, said, saidBefore, trigger, pendingShot, handTracked,
          handPose, fade, score, lowest, shot>>

AnyHand == -1  \* HandForSubaction of no subaction path
NoShot == -1   \* no shot is pending
Missed == "missed"
NotFired == [pulled |-> NoShot, aim |-> 0, newest |-> 0, lowest |-> 0]
Shots == [pulled : 0 .. MaxSamples, aim : 0 .. MaxSamples, newest : 0 .. MaxSamples,
          lowest : Levels]
NotAsked == [active |-> FALSE, current |-> -1, changed |-> FALSE]
Answers == [active : BOOLEAN, current : -1 .. Pulled, changed : BOOLEAN]

Idle == [active |-> FALSE, trigger |-> 0, click |-> 0, stick |-> 0]
NoSample == [number |-> 0, controllers |-> [h \in Hands |-> Idle]]
Frames == [number : 0 .. MaxSamples, controllers : Samples \cup {NoSample.controllers}]

-----------------------------------------------------------------------------
(* Bindings.                                                               *)

Bindings == {"None", "AimPose", "Trigger", "PrimaryClick", "Thumbstick"}

\* The control a path's last part names; the simple controller's select is no control.
BindingFromPath(component) ==
  CASE component = "aim/pose" -> "AimPose"
    [] component \in {"trigger/value", "trigger"} -> "Trigger"
    [] component = "a/click" -> "PrimaryClick"
    [] component = "thumbstick" -> "Thumbstick"
    [] OTHER -> "None"

\* The hands a path is about: a path of neither hand binds both.
HandsFromPath(user) ==
  CASE user = "/user/hand/left" -> {0}
    [] user = "/user/hand/right" -> {1}
    [] OTHER -> Hands

\* A suggestion for an unknown control is passed over; a later one replaces an earlier one.
Suggested(b, user, component) ==
  IF BindingFromPath(component) = "None" THEN b
  ELSE [h \in Hands |-> IF h \in HandsFromPath(user) THEN BindingFromPath(component) ELSE b[h]]

SuggestInteractionProfileBindings ==
  /\ app = "title" /\ ~attached
  /\ \E user \in {"/user/hand/left", "/user/hand/right", "/user/gamepad"}, c \in Components :
       bindings' = Suggested(bindings, user, c)
  /\ UNCHANGED <<app, at, type, sub, attached, clientVars, frame, syncVars, saidVars, rangeVars>>

AttachSessionActionSets ==
  /\ app = "title" /\ ~attached /\ attached' = TRUE
  /\ UNCHANGED <<app, at, type, sub, bindings, clientVars, frame, syncVars, saidVars, rangeVars>>

-----------------------------------------------------------------------------
(* What an action's state is.                                              *)

ButtonDown(controller, binding) ==
  CASE binding = "PrimaryClick" -> controller.click = 1
    [] binding = "Trigger" -> controller.trigger = Pulled
    [] OTHER -> FALSE

AxisValue(controller, binding) ==
  CASE binding = "Trigger" -> controller.trigger
    [] binding = "PrimaryClick" -> IF ButtonDown(controller, binding) THEN Pulled ELSE 0
    [] OTHER -> 0

\* The value a query of the type t reads from a controller.
ValueOf(t, controller, binding) ==
  CASE t = "boolean" -> IF ButtonDown(controller, binding) THEN 1 ELSE 0
    [] t = "float" -> AxisValue(controller, binding)
    [] t = "vector" -> controller.stick
    [] OTHER -> 0

\* The hands a query can be answered from; without a subaction path s, either.
Resolving(b, s, f) ==
  {h \in Hands : s \in {AnyHand, h} /\ b[h] # "None" /\ f.controllers[h].active}

\* ResolveAction takes the first of them.
ResolveAction(b, s, f) == CHOOSE h \in Resolving(b, s, f) : \A g \in Resolving(b, s, f) : h <= g

Inactive == [active |-> FALSE, current |-> 0, changed |-> FALSE]

\* xrGetActionStateBoolean, ...Float, ...Vector2f and ...Pose, with the snapshots f and before it p.
GetActionState(t, b, s, f, p) ==
  IF Resolving(b, s, f) = {} THEN Inactive
  ELSE LET h == ResolveAction(b, s, f)
           now == ValueOf(t, f.controllers[h], b[h])
           before == ValueOf(t, p.controllers[h], b[h])
       IN  IF t = "vector" /\ b[h] # "Thumbstick" THEN Inactive
           ELSE [active |-> TRUE, current |-> now, changed |-> now # before]

\* xrLocateSpace of a hand's space: the sample its pose is from, where there is one.
NotLocated == -1
LocateSpace(h) == IF frame.controllers[h].active THEN frame.number ELSE NotLocated

-----------------------------------------------------------------------------
(* xrWaitFrame and xrSyncActions.                                          *)

\* Fault: the game is updated before the input of its frame is read.
AfterUpdateFirst(call) ==
  CASE call = "wait" -> "update" [] call = "update" -> "sync" [] OTHER -> "wait"

\* RenderFrame's order; drawing and xrEndFrame are XrApplication's.
After(call) ==
  CASE call = "wait" -> "sync" [] call = "sync" -> "update" [] OTHER -> "wait"

\* The client comes, and goes for good.
ClientComes ==
  /\ client = "absent" /\ client' = "present"
  /\ UNCHANGED <<app, at, titleVars, clientConnected, frame, syncVars, saidVars, rangeVars>>

ClientGoes ==
  /\ client = "present" /\ client' = "gone"
  /\ UNCHANGED <<app, at, titleVars, clientConnected, frame, syncVars, saidVars, rangeVars>>

\* Nothing hears from a client that only a packet of its own would announce.
PollForClient == clientConnected' \in {clientConnected, clientConnected \/ client = "present"}

\* How far down a hand has let go in this sample: a lost controller counts as let go.
Level(controller) == IF controller.active THEN controller.trigger ELSE 0

\* The newest pose, whole, where one came.
PollPose ==
  \/ UNCHANGED <<frame, lowest>>
  \/ /\ client = "present" /\ frame.number < MaxSamples
     /\ \E s \in Samples :
          /\ frame' = [number |-> frame.number + 1, controllers |-> s]
          /\ lowest' = [h \in Hands |-> IF Level(s[h]) < lowest[h] THEN Level(s[h]) ELSE lowest[h]]

\* Each waits where the frame of the other has ended.
WaitFrame ==
  /\ attached
  /\ IF app = "range" THEN at = "wait" /\ at' = After("wait") ELSE UNCHANGED at
  /\ PollForClient
  /\ PollPose
  /\ UNCHANGED <<app, titleVars, client, syncVars, saidVars, handVars, gameVars>>

\* Fault: the snapshot before the last is lost.
SyncActionsOnly ==
  /\ actionFrame' = frame
  /\ actionFramePrev' = frame
  /\ focus' = IF clientConnected THEN "focused" ELSE "unfocused"

SyncActions ==
  /\ actionFramePrev' = actionFrame
  /\ actionFrame' = frame
  /\ focus' = IF clientConnected THEN "focused" ELSE "unfocused"

TitleSyncs ==
  /\ app = "title" /\ attached
  /\ SyncActions
  /\ saidBefore' = said /\ said' = NotAsked
  /\ UNCHANGED <<app, at, titleVars, clientVars, frame, rangeVars>>

\* Fault: the state is taken from the frame as it stands, not from the sync's.
TitleAsksLive ==
  /\ app = "title"
  /\ said' = GetActionState(type, bindings, sub, frame, actionFrame)
  /\ UNCHANGED <<app, at, titleVars, clientVars, frame, syncVars, saidBefore, rangeVars>>

TitleAsks ==
  /\ app = "title"
  /\ said' = GetActionState(type, bindings, sub, actionFrame, actionFramePrev)
  /\ UNCHANGED <<app, at, titleVars, clientVars, frame, syncVars, saidBefore, rangeVars>>

-----------------------------------------------------------------------------
(* The shooting range.                                                     *)

\* The aim pose and the trigger of each hand; all the targets are there.
CreateActions ==
  /\ app = "range" /\ ~attached
  /\ bindings' = Suggested(Suggested(bindings, "/user/hand/left", "trigger/value"),
                           "/user/hand/right", "trigger/value")
  /\ attached' = TRUE
  /\ UNCHANGED <<app, at, type, sub, clientVars, frame, syncVars, saidVars, rangeVars>>

\* m_trigger after a sync.
Read(h) == GetActionState("float", bindings, h, frame, actionFrame).current

\* Fault: the level, not the edge.
PullsLevel(h) == Read(h) >= FirePoint

\* From under the fire point to past it.
Pulls(h) == trigger[h] < FirePoint /\ Read(h) >= FirePoint

SyncInput ==
  /\ app = "range" /\ at = "sync" /\ at' = After("sync")
  /\ SyncActions
  /\ trigger' = [h \in Hands |-> Read(h)]
  /\ pendingShot' = [h \in Hands |-> IF Pulls(h) THEN frame.number ELSE pendingShot[h]]
  /\ handPose' = [h \in Hands |-> IF LocateSpace(h) = NotLocated THEN handPose[h]
                                                              ELSE LocateSpace(h)]
  /\ handTracked' = [h \in Hands |-> LocateSpace(h) # NotLocated]
  /\ UNCHANGED <<app, titleVars, clientVars, frame, saidVars, gameVars, lowest>>

\* The hands that fire.
Firing == {h \in Hands : pendingShot[h] # NoShot /\ handTracked[h]}

\* What the rays pass through first, for each hand: nothing, or a target that is alive,
\* the left hand's no longer when the right hand fires.
Hits(hit) ==
  /\ \A h \in DOMAIN hit : hit[h] # Missed => fade[hit[h]] = 0
  /\ \A g, h \in DOMAIN hit : g # h /\ hit[g] = hit[h] => hit[h] = Missed

\* What a shot was fired on.
Shot(h) == [pulled |-> pendingShot[h], aim |-> handPose[h], newest |-> frame.number,
            lowest |-> lowest[h]]

\* Fault: the count of a target that is alive goes down too.
FadedAlways(f) == f - 1

\* A killed target starts to fade in the update that killed it.
Faded(f) == IF f = 0 THEN 0 ELSE f - 1

UpdateGame ==
  /\ app = "range" /\ at = "update" /\ at' = After("update")
  /\ \E hit \in [Firing -> Targets \cup {Missed}] :
       LET killed == {hit[h] : h \in Firing} \ {Missed}
       IN  /\ Hits(hit)
           /\ score' = score + Cardinality({h \in Firing : hit[h] # Missed})
           /\ fade' = [t \in Targets |-> Faded(IF t \in killed THEN FadeSteps ELSE fade[t])]
  /\ shot' = [h \in Hands |-> IF h \in Firing THEN Shot(h) ELSE shot[h]]
  /\ lowest' = [h \in Hands |-> IF h \in Firing THEN Pulled ELSE lowest[h]]
  /\ pendingShot' = [h \in Hands |-> NoShot]
  /\ UNCHANGED <<app, titleVars, clientVars, frame, syncVars, saidVars, trigger, handTracked,
                 handPose>>

-----------------------------------------------------------------------------
(* Specification.                                                          *)

Init ==
  /\ app \in {"range", "title"} /\ at = "wait"
  /\ type \in (IF app = "range" THEN {"float"} ELSE {"boolean", "float", "vector", "pose"})
  /\ sub \in (IF app = "range" THEN {AnyHand} ELSE Hands \cup {AnyHand})
  /\ bindings = [h \in Hands |-> "None"] /\ attached = FALSE
  /\ client = "absent" /\ clientConnected = FALSE
  /\ frame = NoSample /\ actionFrame = NoSample /\ actionFramePrev = NoSample
  /\ focus = "never" /\ said = NotAsked /\ saidBefore = NotAsked
  /\ trigger = [h \in Hands |-> 0] /\ pendingShot = [h \in Hands |-> NoShot]
  /\ handTracked = [h \in Hands |-> FALSE] /\ handPose = [h \in Hands |-> 0]
  /\ fade = [t \in Targets |-> 0] /\ score = 0
  /\ lowest = [h \in Hands |-> 0] /\ shot = [h \in Hands |-> NotFired]

TitleNext ==
  \/ SuggestInteractionProfileBindings \/ AttachSessionActionSets
  \/ TitleSyncs \/ TitleAsks

RangeNext == CreateActions \/ SyncInput \/ UpdateGame

Next == TitleNext \/ RangeNext \/ WaitFrame \/ ClientComes \/ ClientGoes

Spec == Init /\ [][Next]_vars

\* The range's loop goes on for ever.
FairSpec == Spec /\ WF_vars(RangeNext) /\ WF_vars(WaitFrame)

-----------------------------------------------------------------------------
(* Properties.                                                             *)

TitleType ==
  /\ app \in {"range", "title"} /\ at \in {"wait", "sync", "update"}
  /\ type \in {"boolean", "float", "vector", "pose"} /\ sub \in Hands \cup {AnyHand}
  /\ bindings \in [Hands -> Bindings] /\ attached \in BOOLEAN
  /\ said \in Answers /\ saidBefore \in Answers

SampleType ==
  /\ client \in {"absent", "present", "gone"} /\ clientConnected \in BOOLEAN
  /\ frame \in Frames /\ actionFrame \in Frames /\ actionFramePrev \in Frames
  /\ focus \in {"never", "focused", "unfocused"}
  /\ lowest \in [Hands -> Levels]

RangeType ==
  /\ trigger \in [Hands -> Levels] /\ pendingShot \in [Hands -> NoShot .. MaxSamples]
  /\ handTracked \in [Hands -> BOOLEAN] /\ handPose \in [Hands -> 0 .. MaxSamples]
  /\ fade \in [Targets -> 0 .. FadeSteps - 1] /\ score \in Nat
  /\ shot \in [Hands -> {NotFired} \cup Shots]

\* Every variable holds a value the code can give it.
TypeOK == TitleType /\ SampleType /\ RangeType

\* A shot is of one moment, and the latest: the pull of the trigger, which the runtime
\* answers from the sync's snapshot, and the aim, which it reads from the frame as it
\* stands, are of the same sample, the newest there is (xrGetActionStateFloat,
\* xrLocateSpace, CubeApp::SyncInput).
ShotIsOfOneSample ==
  \A h \in Hands : shot[h] # NotFired =>
    shot[h].pulled = shot[h].newest /\ shot[h].aim = shot[h].newest

\* "A held trigger should fire one shot, not one per frame" (CubeApp::SyncInput): between
\* two shots of a hand a sample had its trigger short of the fire point, or lost the hand.
OneShotPerPull == \A h \in Hands : shot[h] # NotFired => shot[h].lowest < FirePoint

\* "Action state does not change underneath an application mid-frame": whatever samples
\* arrive, two answers between the same two syncs are the same (xrSyncActions,
\* xrGetActionState*).
AnswersAreHeld == [][said # NotAsked => said' \in {said, NotAsked}]_vars

\* changedSinceLastSync is "answered honestly" where one hand is asked about: it says
\* whether the answers of two syncs that found the hand differ.
ChangeIsHonest ==
  sub # AnyHand /\ type # "pose" /\ said.active /\ saidBefore.active =>
    said.changed = (said.current # saidBefore.current)

\* What the title is to be told until the next sync.
Fixed == GetActionState(type, bindings, sub, actionFrame, actionFramePrev)

Actions == INSTANCE ActionStates WITH Empty <- Inactive, oneHand <- sub # AnyHand, fixed <- Fixed

\* An application is told what its last sync has fixed, however often it asks, whatever the
\* frames of another thread bring and in whatever order the two threads go; what a sync
\* fixes about a hand says whether the value differs from the one the sync before fixed;
\* bindings do not change an answer that was given (xrSyncActions, xrGetActionState*,
\* xrSuggestInteractionProfileBindings).
ImplementsActions == Actions!Spec

\* "Reported unfocused when no client is attached, which is how an application learns to
\* pause rather than run against controllers that are not there" (xrSyncActions).
GoneClientIsReported == (app = "range" /\ client = "gone") ~> (focus = "unfocused")

-----------------------------------------------------------------------------
(* The inductive invariant behind the safety properties.                    *)

\* The game's actions are bound to the triggers before its first frame.
BoundInv ==
  app = "range" => IF attached THEN bindings = [h \in Hands |-> "Trigger"] ELSE at = "wait"

\* A hand that let go of its trigger, as the newest sample or the game has it, did so
\* since its last shot.  A shot is pending only between a sync and the update after it.
PullInv ==
  app = "range" => \A h \in Hands :
    /\ Level(frame.controllers[h]) < FirePoint \/ trigger[h] < FirePoint => lowest[h] < FirePoint
    /\ pendingShot[h] # NoShot =>
         /\ at = "update" /\ pendingShot[h] = frame.number /\ lowest[h] < FirePoint
         /\ Level(frame.controllers[h]) >= FirePoint /\ trigger[h] >= FirePoint
    /\ at = "update" /\ handTracked[h] => handPose[h] = frame.number

\* What the title was told is what it would be told again, and what it was told before
\* the last sync was of the snapshot before it.
SaidInv ==
  /\ app = "range" => said = NotAsked /\ saidBefore = NotAsked
  /\ ~attached => frame = NoSample /\ actionFrame = NoSample /\ saidBefore = NotAsked
  /\ said # NotAsked =>
       said = GetActionState(type, bindings, sub, actionFrame, actionFramePrev)
  /\ saidBefore # NotAsked =>
       \E p \in Frames : saidBefore = GetActionState(type, bindings, sub, actionFramePrev, p)

IInv == TypeOK /\ BoundInv /\ PullInv /\ ShotIsOfOneSample /\ OneShotPerPull /\ SaidInv
=============================================================================
