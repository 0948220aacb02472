---------------------------- MODULE VideoEncoder ----------------------------
(***************************************************************************)
(* One eye's VideoEncoder during a run of the session (framework/src/      *)
(* VideoEncoder.cpp), from its first Submit to its Shutdown.               *)
(*                                                                         *)
(* Two threads.  The application's: WaitFrameImpl stages requests,         *)
(* SubmitFrameImpl calls Submit, SessionShutdown calls Drain and Shutdown. *)
(* The encoder's event thread: EventThread and ProcessOneOutput.  An       *)
(* encoder that is not asynchronous has no event thread and calls          *)
(* ProcessOneOutput inside Submit and Drain.                               *)
(*                                                                         *)
(* External: the transform, which asks for input, encodes in order, may    *)
(* drop a frame or fail, and may stall for any time.                       *)
(*                                                                         *)
(* The actions are the critical sections of m_creditMutex and              *)
(* m_submitMutex; the second is held while the sink sends.                 *)
(* `submitted', `timesGrow', `keyframeOwed' and `refused' are history.     *)
(***************************************************************************)
EXTENDS Integers, Sequences, FiniteSets

CONSTANTS
  HnsPerSecond,   \* kHnsPerSecond
  ConfiguredRate, \* session.config.frameRate
  Bitrates,       \* values of session.currentBitrateBps
  ConfiguredBitrate, \* session.config.bitrateBps
  MaxTracked,     \* kMaxTrackedFrames
  MaxAsks,        \* inputs the transform asks for ahead
  MaxFrames,      \* bound: frames submitted
  MaxFailures,    \* bound: calls of ProcessInput that fail, for this eye or the other
  MaxRequests     \* bound: keyframe and bitrate requests

ASSUME RatesAssumption == ConfiguredRate \in Nat \ {0} /\ HnsPerSecond \in Nat
ASSUME BitratesAssumption == Bitrates \subseteq Nat \ {0} /\ ConfiguredBitrate \in Bitrates
ASSUME LimitsAssumption == MaxTracked \in Nat \ {0} /\ MaxAsks \in Nat \ {0}
ASSUME BoundsAssumption == MaxFrames \in Nat /\ MaxFailures \in Nat /\ MaxRequests \in Nat

VARIABLES
  app,           \* where the application's thread is
  frameIndex, deliveryFrameRate, bitrate,  \* of the session
  time,          \* timestampHns of the last frame submitted
  failures, requests,  \* counts, for the bounds
  submitTimes, needInputCredits, drainComplete, eventThreadRunning,
  keyframeRequested, pendingBitrate, currentBitrate,
  eventThread,   \* where the event thread is
  output,        \* what ProcessOneOutput is doing, on whichever thread
  async,         \* m_async
  asked, inside, outputs, events, draining, force,  \* the transform's
  submitted, timesGrow, keyframeOwed, refused

sessionVars == <<frameIndex, deliveryFrameRate, bitrate, failures, requests>>
creditVars == <<needInputCredits, drainComplete>>
requestVars == <<keyframeRequested, pendingBitrate, currentBitrate, force>>
threadVars == <<eventThreadRunning, eventThread>>
queueVars == <<inside, outputs, events>>
historyVars == <<timesGrow, keyframeOwed, refused>>
frameVars == <<submitted, time>>
vars == <<app, sessionVars, time, submitTimes, creditVars, requestVars, threadVars, output,
          async, asked, queueVars, draining, submitted, historyVars>>

-----------------------------------------------------------------------------
(* Frames, their records and the outputs.                                  *)

\* A frame in the encoder.  `id' tells submissions apart and stands for what the
\* record keeps: frame index, capture time, pose sequence.
Frame == [id : 1 .. MaxFrames, time : Nat]

Unmatched == 0

\* What deliveryFrameRate can be: a client's wish up to the configured rate.
Rates == 1 .. ConfiguredRate

NoOutput == [at |-> "none"]
Matching(f) == [at |-> "matching", frame |-> f]
Sending(f, id) == [at |-> "sending", frame |-> f, stamp |-> id]

OutputStates ==
  {NoOutput} \cup [at : {"matching"}, frame : Frame]
             \cup [at : {"sending"}, frame : Frame, stamp : 0 .. MaxFrames]

\* m_submitMutex is free.
SubmitMutexFree == output.at # "sending"

Kinds == {"needInput", "haveOutput", "drainComplete", "error"}

-----------------------------------------------------------------------------
(* What the session asks for between frames, in WaitFrameImpl.             *)

\* A client attached, and with it its rate.
ChangeRate ==
  /\ app = "idle"
  /\ \E rate \in Rates \ {deliveryFrameRate} : deliveryFrameRate' = rate
  /\ UNCHANGED <<app, frameIndex, bitrate, failures, requests, frameVars, submitTimes,
                 creditVars, requestVars, threadVars, output, async, asked, queueVars,
                 draining, historyVars>>

RequestKeyframe ==
  /\ app = "idle" /\ requests < MaxRequests
  /\ requests' = requests + 1
  /\ keyframeRequested' = TRUE /\ keyframeOwed' = TRUE
  /\ UNCHANGED <<app, frameIndex, deliveryFrameRate, bitrate, failures, frameVars,
                 submitTimes, creditVars, pendingBitrate, currentBitrate, force, threadVars,
                 output, async, asked, queueVars, draining, timesGrow, refused>>

\* AdaptBitrate has decided on another bitrate.
SetBitrate ==
  /\ app = "idle" /\ requests < MaxRequests
  /\ requests' = requests + 1
  /\ \E target \in Bitrates \ {bitrate} : bitrate' = target /\ pendingBitrate' = target
  /\ UNCHANGED <<app, frameIndex, deliveryFrameRate, failures, frameVars, submitTimes,
                 creditVars, keyframeRequested, currentBitrate, force, threadVars, output,
                 async, asked, queueVars, draining, historyVars>>

-----------------------------------------------------------------------------
(* Submit.                                                                 *)

SubmitFrame ==
  /\ app = "idle" /\ submitted < MaxFrames
  /\ app' = "recording"
  /\ submitted' = submitted + 1
  /\ time' = (frameIndex * HnsPerSecond) \div deliveryFrameRate
  /\ timesGrow' = (timesGrow /\ (submitted > 0 => time' > time))
  /\ UNCHANGED <<sessionVars, submitTimes, creditVars, requestVars, threadVars, output,
                 async, asked, queueVars, draining, keyframeOwed, refused>>

\* The staged keyframe request is taken; the codec may refuse it.
ApplyPendingKeyframeRequest ==
  /\ keyframeRequested' = FALSE
  /\ \/ force' = (force \/ keyframeRequested)
     \/ keyframeRequested /\ UNCHANGED force

\* Fault: the case that nothing is staged is forgotten.
ApplyPendingBitrateAlways ==
  /\ pendingBitrate' = 0
  /\ currentBitrate' = pendingBitrate

\* The staged bitrate, if there is one; the codec may refuse it.
ApplyPendingBitrate ==
  /\ pendingBitrate' = 0
  /\ \/ currentBitrate' = IF pendingBitrate = 0 THEN currentBitrate ELSE pendingBitrate
     \/ pendingBitrate \notin {0, currentBitrate} /\ UNCHANGED currentBitrate

Refuses ==
  \/ keyframeRequested /\ ~force'
  \/ pendingBitrate # 0 /\ currentBitrate' # pendingBitrate

\* The record of this frame, in place of one with the same time.
Recorded == {r \in submitTimes : r.time # time} \cup {[id |-> submitted, time |-> time]}

\* The records with the least times are given up above the limit.
Evicted(records) ==
  {r \in records : Cardinality({s \in records : s.time >= r.time}) <= MaxTracked}

RecordSubmit ==
  /\ app = "recording" /\ SubmitMutexFree
  /\ ApplyPendingKeyframeRequest /\ ApplyPendingBitrate
  /\ refused' = (refused \/ Refuses)
  /\ submitTimes' = Evicted(Recorded)
  /\ app' = IF async THEN "asking" ELSE "feeding"
  /\ UNCHANGED <<sessionVars, frameVars, creditVars, threadVars, output, async, asked,
                 queueVars, draining, timesGrow, keyframeOwed>>

\* A frame ends for the session.  The other eye's Submit may throw, and then the
\* index is not advanced.
EndsFrame ==
  /\ app' = "idle"
  /\ \/ frameIndex' = frameIndex + 1 /\ UNCHANGED failures
     \/ /\ failures < MaxFailures
        /\ failures' = failures + 1 /\ UNCHANGED frameIndex

\* The credit the encoder gave, if it gave one.
TakeCredit ==
  /\ app = "asking"
  /\ IF needInputCredits > 0
     THEN needInputCredits' = needInputCredits - 1 /\ app' = "feeding"
     ELSE UNCHANGED needInputCredits /\ app' = "awaiting"
  /\ UNCHANGED <<sessionVars, frameVars, submitTimes, drainComplete, requestVars, threadVars,
                 output, async, asked, queueVars, draining, historyVars>>

\* Fault: the wait for input has no timeout.
AwaitNeedInputForever ==
  /\ app = "awaiting" /\ needInputCredits > 0
  /\ app' = "rechecking"
  /\ UNCHANGED <<sessionVars, frameVars, submitTimes, creditVars, requestVars, threadVars,
                 output, async, asked, queueVars, draining, historyVars>>

\* The wait ends with a credit or after 100 ms.
AwaitNeedInput ==
  /\ app = "awaiting"
  /\ app' = "rechecking"
  /\ UNCHANGED <<sessionVars, frameVars, submitTimes, creditVars, requestVars, threadVars,
                 output, async, asked, queueVars, draining, historyVars>>

\* Fault: the credits are not looked at again after the wait.
TakeCreditAfterWaitUnchecked ==
  /\ app = "rechecking"
  /\ needInputCredits' = IF needInputCredits > 0 THEN needInputCredits - 1 ELSE 0
  /\ app' = "feeding"
  /\ UNCHANGED <<sessionVars, frameVars, submitTimes, drainComplete, requestVars, threadVars,
                 output, async, asked, queueVars, draining, historyVars>>

TakeCreditAfterWait ==
  /\ app = "rechecking" /\ needInputCredits > 0
  /\ needInputCredits' = needInputCredits - 1 /\ app' = "feeding"
  /\ UNCHANGED <<sessionVars, frameVars, submitTimes, drainComplete, requestVars, threadVars,
                 output, async, asked, queueVars, draining, historyVars>>

\* Fault: what was asked of the codec goes with the frame.
DropFrameAndRequest ==
  /\ app = "rechecking" /\ needInputCredits = 0
  /\ EndsFrame
  /\ force' = FALSE
  /\ UNCHANGED <<deliveryFrameRate, bitrate, requests, frameVars, submitTimes, creditVars,
                 keyframeRequested, pendingBitrate, currentBitrate, threadVars, output, async,
                 asked, queueVars, draining, historyVars>>

\* The encoder never asked for this frame.
DropFrame ==
  /\ app = "rechecking" /\ needInputCredits = 0
  /\ EndsFrame
  /\ UNCHANGED <<deliveryFrameRate, bitrate, requests, frameVars, submitTimes, creditVars,
                 requestVars, threadVars, output, async, asked, queueVars, draining,
                 historyVars>>

\* The transform takes the frame, as the keyframe it was asked for if it was.
ProcessInput ==
  /\ app = "feeding"
  /\ async => asked > 0
  /\ inside' = Append(inside, [id |-> submitted, time |-> time])
  /\ asked' = IF async THEN asked - 1 ELSE asked
  /\ force' = FALSE /\ keyframeOwed' = (keyframeOwed /\ ~force)
  /\ IF async THEN EndsFrame ELSE app' = "pumping" /\ UNCHANGED <<frameIndex, failures>>
  /\ UNCHANGED <<deliveryFrameRate, bitrate, requests, frameVars, submitTimes, creditVars,
                 keyframeRequested, pendingBitrate, currentBitrate, threadVars, output, async,
                 outputs, events, draining, timesGrow, refused>>

\* Submit throws, and xrEndFrame fails before it counts the frame.
ProcessInputFails ==
  /\ app = "feeding" /\ failures < MaxFailures
  /\ failures' = failures + 1
  /\ app' = "idle"
  /\ UNCHANGED <<frameIndex, deliveryFrameRate, bitrate, requests, frameVars, submitTimes,
                 creditVars, requestVars, threadVars, output, async, asked, queueVars,
                 draining, historyVars>>

-----------------------------------------------------------------------------
(* ProcessOneOutput.                                                       *)

\* ProcessOutput hands the oldest sample over, and its data can be read.
TakesOutput == output' = Matching(Head(outputs)) /\ outputs' = Tail(outputs)

\* The sample is lost: the call failed, or its buffer cannot be read.
LosesOutput == outputs' = Tail(outputs) /\ UNCHANGED output

\* Fault: an output clears the records of the frames that are still inside.
MatchOutputClearing ==
  /\ output.at = "matching"
  /\ LET f == output.frame
         found == {r \in submitTimes : r.time = f.time}
     IN  IF found = {}
         THEN output' = Sending(f, Unmatched) /\ UNCHANGED submitTimes
         ELSE /\ \E r \in found : output' = Sending(f, r.id)
              /\ submitTimes' = {}
  /\ UNCHANGED <<app, sessionVars, frameVars, creditVars, requestVars, threadVars, async,
                 asked, queueVars, draining, historyVars>>

\* The output is stamped from the record of its time, which goes with all earlier ones.
MatchOutput ==
  /\ output.at = "matching"
  /\ LET f == output.frame
         found == {r \in submitTimes : r.time = f.time}
     IN  IF found = {}
         THEN output' = Sending(f, Unmatched) /\ UNCHANGED submitTimes
         ELSE /\ \E r \in found : output' = Sending(f, r.id)
              /\ submitTimes' = {r \in submitTimes : r.time > f.time}
  /\ UNCHANGED <<app, sessionVars, frameVars, creditVars, requestVars, threadVars, async,
                 asked, queueVars, draining, historyVars>>

\* The event is dealt with, and the thread goes on waiting unless it was stopped.
NextEvent == eventThread' = IF eventThreadRunning THEN "waiting" ELSE "ended"

\* OnEncodedFrame returns.
SinkReturns ==
  /\ output.at = "sending"
  /\ output' = NoOutput
  /\ IF async THEN NextEvent ELSE UNCHANGED eventThread
  /\ UNCHANGED <<app, sessionVars, frameVars, submitTimes, creditVars, requestVars,
                 eventThreadRunning, async, asked, queueVars, draining, historyVars>>

\* Without an event thread Submit and Drain take what there is.
Pump ==
  /\ app \in {"pumping", "flushing"} /\ output = NoOutput /\ outputs # <<>>
  /\ TakesOutput \/ LosesOutput
  /\ UNCHANGED <<app, sessionVars, frameVars, submitTimes, creditVars, requestVars,
                 threadVars, async, asked, inside, events, draining, historyVars>>

\* ProcessOutput needs more input, or failed.
PumpEnds ==
  /\ app \in {"pumping", "flushing"} /\ output = NoOutput
  /\ IF app = "pumping" THEN EndsFrame
                        ELSE app' = "stopping" /\ UNCHANGED <<frameIndex, failures>>
  /\ UNCHANGED <<deliveryFrameRate, bitrate, requests, frameVars, submitTimes, creditVars,
                 requestVars, threadVars, output, async, asked, queueVars, draining,
                 historyVars>>

-----------------------------------------------------------------------------
(* EventThread.                                                            *)

NextEventIs(kind) == eventThread = "waiting" /\ events # <<>> /\ Head(events) = kind

HandleNeedInput ==
  /\ NextEventIs("needInput")
  /\ needInputCredits' = needInputCredits + 1
  /\ events' = Tail(events) /\ NextEvent
  /\ UNCHANGED <<app, sessionVars, frameVars, submitTimes, drainComplete, requestVars,
                 eventThreadRunning, output, async, asked, inside, outputs, draining,
                 historyVars>>

HandleHaveOutput ==
  /\ NextEventIs("haveOutput")
  /\ events' = Tail(events)
  /\ \/ outputs # <<>> /\ TakesOutput /\ eventThread' = "outputting"
     \/ outputs # <<>> /\ LosesOutput /\ NextEvent
  /\ UNCHANGED <<app, sessionVars, frameVars, submitTimes, creditVars, requestVars,
                 eventThreadRunning, async, asked, inside, draining, historyVars>>

HandleDrainComplete ==
  /\ NextEventIs("drainComplete")
  /\ drainComplete' = TRUE
  /\ events' = Tail(events) /\ NextEvent
  /\ UNCHANGED <<app, sessionVars, frameVars, submitTimes, needInputCredits, requestVars,
                 eventThreadRunning, output, async, asked, inside, outputs, draining,
                 historyVars>>

HandleOther ==
  /\ NextEventIs("error")
  /\ events' = Tail(events) /\ NextEvent
  /\ UNCHANGED <<app, sessionVars, frameVars, submitTimes, creditVars, requestVars,
                 eventThreadRunning, output, async, asked, inside, outputs, draining,
                 historyVars>>

\* GetEvent fails: the thread ends in mid-session.
GetEventFails ==
  /\ eventThread = "waiting" /\ failures < MaxFailures
  /\ failures' = failures + 1
  /\ eventThread' = "ended"
  /\ UNCHANGED <<app, frameIndex, deliveryFrameRate, bitrate, requests, frameVars, submitTimes,
                 creditVars, requestVars, eventThreadRunning, output, async, asked, queueVars,
                 draining, historyVars>>

-----------------------------------------------------------------------------
(* Drain and Shutdown, which SessionShutdown calls in this order.          *)

Drain ==
  /\ app = "idle"
  /\ draining' = "draining"
  /\ app' = IF async THEN "drainPosted" ELSE "flushing"
  /\ UNCHANGED <<sessionVars, frameVars, submitTimes, creditVars, requestVars, threadVars,
                 output, async, asked, queueVars, historyVars>>

\* Fault: the application's thread reads the event queue as well.
AwaitDrainReading ==
  /\ app = "drainPosted"
  /\ app' = "draining"
  /\ LET there == events # <<>> /\ Head(events) = "drainComplete"
     IN  drainComplete' = there /\ events' = IF there THEN Tail(events) ELSE events
  /\ UNCHANGED <<sessionVars, frameVars, submitTimes, needInputCredits, requestVars,
                 threadVars, output, async, asked, inside, outputs, draining, historyVars>>

\* m_drainComplete is cleared once the drain has been posted.
AwaitDrain ==
  /\ app = "drainPosted"
  /\ app' = "draining"
  /\ drainComplete' = FALSE
  /\ UNCHANGED <<sessionVars, frameVars, submitTimes, needInputCredits, requestVars,
                 threadVars, output, async, asked, queueVars, draining, historyVars>>

\* The wait ends with the drain or after 500 ms.
DrainReturns ==
  /\ app = "draining"
  /\ app' = "stopping"
  /\ UNCHANGED <<sessionVars, frameVars, submitTimes, creditVars, requestVars, threadVars,
                 output, async, asked, queueVars, draining, historyVars>>

Shutdown ==
  /\ app = "stopping"
  /\ app' = "joining"
  /\ eventThreadRunning' = FALSE
  /\ events' = IF async THEN Append(events, "error") ELSE events
  /\ UNCHANGED <<sessionVars, frameVars, submitTimes, creditVars, requestVars, eventThread,
                 output, async, asked, inside, outputs, draining, historyVars>>

\* The thread is joined, then the transform is released.
Join ==
  /\ app = "joining" /\ eventThread \in {"none", "ended"}
  /\ app' = "released"
  /\ UNCHANGED <<sessionVars, frameVars, submitTimes, creditVars, requestVars, threadVars,
                 output, async, asked, queueVars, draining, historyVars>>

-----------------------------------------------------------------------------
(* The transform.                                                          *)

AskForInput ==
  /\ async /\ app # "released" /\ draining = "no" /\ asked < MaxAsks
  /\ asked' = asked + 1
  /\ events' = Append(events, "needInput")
  /\ UNCHANGED <<app, sessionVars, frameVars, submitTimes, creditVars, requestVars,
                 threadVars, output, async, inside, outputs, draining, historyVars>>

Encode ==
  /\ app # "released" /\ inside # <<>>
  /\ inside' = Tail(inside)
  /\ outputs' = Append(outputs, Head(inside))
  /\ events' = IF async THEN Append(events, "haveOutput") ELSE events
  /\ UNCHANGED <<app, sessionVars, frameVars, submitTimes, creditVars, requestVars,
                 threadVars, output, async, asked, draining, historyVars>>

Discard ==
  /\ app # "released" /\ inside # <<>>
  /\ inside' = Tail(inside)
  /\ UNCHANGED <<app, sessionVars, frameVars, submitTimes, creditVars, requestVars,
                 threadVars, output, async, asked, outputs, events, draining, historyVars>>

FinishDrain ==
  /\ async /\ app # "released" /\ draining = "draining" /\ inside = <<>>
  /\ draining' = "drained"
  /\ events' = Append(events, "drainComplete")
  /\ UNCHANGED <<app, sessionVars, frameVars, submitTimes, creditVars, requestVars,
                 threadVars, output, async, asked, inside, outputs, historyVars>>

-----------------------------------------------------------------------------
Init ==
  /\ app = "idle"
  /\ frameIndex = 0 /\ time = 0 /\ submitted = 0
  /\ deliveryFrameRate = ConfiguredRate
  /\ bitrate = ConfiguredBitrate /\ currentBitrate = bitrate /\ pendingBitrate = 0
  /\ failures = 0 /\ requests = 0
  /\ submitTimes = {} /\ needInputCredits = 0 /\ drainComplete = FALSE
  /\ keyframeRequested = FALSE /\ force = FALSE
  /\ async \in BOOLEAN
  /\ eventThreadRunning = async
  /\ eventThread = IF async THEN "waiting" ELSE "none"
  /\ output = NoOutput
  /\ asked = 0 /\ inside = <<>> /\ outputs = <<>> /\ events = <<>> /\ draining = "no"
  /\ timesGrow = TRUE /\ keyframeOwed = FALSE /\ refused = FALSE

\* What the application's thread does once it is inside a call.
InCall ==
  \/ RecordSubmit \/ TakeCredit \/ AwaitNeedInput \/ TakeCreditAfterWait \/ DropFrame
  \/ ProcessInput \/ ProcessInputFails
  \/ Pump \/ PumpEnds
  \/ AwaitDrain \/ DrainReturns \/ Shutdown \/ Join

Session == ChangeRate \/ RequestKeyframe \/ SetBitrate \/ SubmitFrame \/ Drain

Outputs == MatchOutput \/ SinkReturns

EventThread ==
  \/ HandleNeedInput \/ HandleHaveOutput \/ HandleDrainComplete \/ HandleOther

Transform == AskForInput \/ Encode \/ Discard \/ FinishDrain

Next == Session \/ InCall \/ Outputs \/ EventThread \/ GetEventFails \/ Transform

Spec == Init /\ [][Next]_vars

\* Both threads are scheduled, timed waits end, the sink returns.  Nothing is assumed
\* of the transform, or of the application between calls.
FairSpec == Spec /\ WF_vars(InCall) /\ WF_vars(Outputs) /\ WF_vars(EventThread)

-----------------------------------------------------------------------------
(* Properties.                                                             *)

Places == {"idle", "recording", "asking", "awaiting", "rechecking", "feeding", "pumping",
           "drainPosted", "draining", "flushing", "stopping", "joining", "released"}

TypeOK ==
  /\ app \in Places
  /\ frameIndex \in Nat /\ time \in Nat /\ submitted \in 0 .. MaxFrames
  /\ deliveryFrameRate \in Rates
  /\ bitrate \in Bitrates /\ currentBitrate \in Bitrates /\ pendingBitrate \in Bitrates \cup {0}
  /\ failures \in 0 .. MaxFailures /\ requests \in 0 .. MaxRequests
  /\ submitTimes \subseteq Frame
  /\ needInputCredits \in Nat /\ drainComplete \in BOOLEAN
  /\ eventThreadRunning \in BOOLEAN /\ keyframeRequested \in BOOLEAN /\ force \in BOOLEAN
  /\ eventThread \in {"none", "waiting", "outputting", "ended"}
  /\ output \in OutputStates
  /\ async \in BOOLEAN /\ asked \in 0 .. MaxAsks
  /\ inside \in Seq(Frame) /\ outputs \in Seq(Frame) /\ events \in Seq(Kinds)
  /\ draining \in {"no", "draining", "drained"}
  /\ timesGrow \in BOOLEAN /\ keyframeOwed \in BOOLEAN /\ refused \in BOOLEAN

\* The records stay within kMaxTrackedFrames, whatever the encoder drops.
RecordsBounded == Cardinality(submitTimes) <= MaxTracked

EventsOf(kind) == {k \in DOMAIN events : events[k] = kind}

\* ProcessInput is called only for an input the transform has asked for: a credit is
\* neither counted twice nor spent twice, though two threads count and a wait for one may
\* end without it.
NeverUnasked ==
  async => needInputCredits + Cardinality(EventsOf("needInput"))
             + (IF app = "feeding" THEN 1 ELSE 0) <= asked

\* As long as sample times grow, an output without its record is one that was overtaken
\* by kMaxTrackedFrames others, and none goes out with another frame's.
OutputMatchedInTime ==
  timesGrow /\ output.at = "sending" =>
    \/ output.stamp = output.frame.id
    \/ output.stamp = Unmatched /\ submitted - output.frame.id >= MaxTracked

\* A drain that is reported complete has flushed the encoder: all its outputs have been
\* through the sink.
DrainFlushes ==
  app = "draining" /\ drainComplete =>
    inside = <<>> /\ outputs = <<>> /\ output = NoOutput

\* Unless the codec refuses, a request is kept until it has been served, also over
\* frames the encoder never asked for: a keyframe is owed only while it is staged
\* or forced, and the encoder is or will be at the session's bitrate.
RequestsKept ==
  ~refused =>
    /\ keyframeOwed => keyframeRequested \/ force
    /\ bitrate = IF pendingBitrate # 0 THEN pendingBitrate ELSE currentBitrate

\* Submit, Drain and Shutdown return, also when the transform stalls, the event thread
\* has ended or the sink holds the records ("blocking forever would wedge the whole
\* render loop").
CallsReturn == app \notin {"idle", "released"} ~> app \in {"idle", "released"}

-----------------------------------------------------------------------------
(* What TypeOK needs to be inductive.                                      *)

InSubmit == {"recording", "asking", "awaiting", "rechecking", "feeding"}

\* The frame in hand has a number.
InHandInv == app \in InSubmit => submitted >= 1

-----------------------------------------------------------------------------
(* The inductive invariants behind DrainFlushes and OutputMatchedInTime.   *)

Ending == {"drainPosted", "draining", "flushing", "stopping", "joining", "released"}

\* Each output the transform holds has its event, the end of the drain comes behind them
\* all, and the event thread reads nothing while an output is on its way to the sink.
DrainInv ==
  /\ draining # "no" <=> app \in Ending
  /\ draining = "drained" => async /\ inside = <<>>
  /\ drainComplete \/ EventsOf("drainComplete") # {} => draining = "drained"
  /\ drainComplete => EventsOf("haveOutput") = {} /\ output = NoOutput
  /\ \A j \in EventsOf("drainComplete"), k \in EventsOf("haveOutput") : k < j
  /\ async => /\ app \notin {"pumping", "flushing"}
              /\ output # NoOutput <=> eventThread = "outputting"
              /\ Cardinality(EventsOf("haveOutput")) = Len(outputs)
  /\ ~async => eventThread = "none" /\ events = <<>>

\* The frames that have no stamp yet, the one that is being submitted, and the records.
Pending ==
  (IF output.at = "matching" THEN {output.frame} ELSE {})
    \cup {outputs[k] : k \in DOMAIN outputs} \cup {inside[k] : k \in DOMAIN inside}

Current == IF app \in InSubmit THEN {[id |-> submitted, time |-> time]} ELSE {}

Known == submitTimes \cup Pending \cup Current

\* The earlier of two is the one with the earlier sample time.
Agree(f, g) == f.id < g.id <=> f.time < g.time

\* Frames leave the transform in the order they were submitted.
QueueInv ==
  /\ \A j, k \in DOMAIN outputs : j < k => outputs[j].id < outputs[k].id
  /\ \A j, k \in DOMAIN inside : j < k => inside[j].id < inside[k].id
  /\ \A j \in DOMAIN outputs, k \in DOMAIN inside : outputs[j].id < inside[k].id
  /\ output.at = "matching" =>
       /\ \A k \in DOMAIN outputs : output.frame.id < outputs[k].id
       /\ \A k \in DOMAIN inside : output.frame.id < inside[k].id
  /\ \A f \in Pending : f.id <= submitted /\ (app \in InSubmit => f.id < submitted)

\* While sample times grow they order frames and records as their numbers do, and a frame
\* without a record has been overtaken by as many as there may be records.
TimesInv ==
  timesGrow =>
    /\ \A f \in Known : f.id <= submitted /\ f.time <= time
    /\ \A f, g \in Known : Agree(f, g)
    /\ \A f \in Pending : f \in submitTimes \/ submitted - f.id >= MaxTracked
    /\ app \in InSubmit \ {"recording"} => Current \subseteq submitTimes
=============================================================================
