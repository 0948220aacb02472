---------------------------- MODULE VideoDecoder ----------------------------
(***************************************************************************)
(* One eye's VideoDecoder on the client, input side                        *)
(* (client/android/shared/.../VideoDecoder.java, driven by MainActivity).  *)
(*                                                                         *)
(* Three threads: the receiver thread calls onFrame and decode; the codec  *)
(* thread of each start runs MediaCodec's callbacks; the UI thread starts  *)
(* and stops the decoder as its surface comes and goes.  Each step of a    *)
(* thread is what it does between two points where another thread can be   *)
(* seen: a volatile access, the lock, a call to the codec.                 *)
(*                                                                         *)
(* MediaCodec is external: it hands an input buffer out, takes it back     *)
(* filled, and refuses, by an exception or a null buffer, an index it has  *)
(* not handed out.  `from' of a buffer and `queued' are history.           *)
(***************************************************************************)
EXTENDS Integers, Sequences, SequencesExt

CONSTANTS
  Buffers,    \* the indices of MediaCodec's input buffers
  MaxFrames,  \* bound: frames the receiver completes
  MaxStarts   \* bound: how often the surface is created

ASSUME BoundsAssumption == MaxFrames \in Nat /\ MaxStarts \in Nat \ {0}

VARIABLES
  ui,                \* where the UI thread is in start and stop
  starts,            \* how often start was called
  surfaceReady,      \* MainActivity.surfaceReady of the eye
  configured, sawKeyframe, pendingFrames, freeInputBuffers,
  codec,             \* which start's MediaCodec the field holds, 0 for null
  owned,             \* the buffers of that codec the client has been handed
  faulted,           \* that codec has failed for good
  receiver,          \* the receiver thread
  callback,          \* for each start, its codec thread
  arrived,           \* frames given to onFrame
  queued             \* what queueInputBuffer took, oldest first

uiVars == <<ui, starts, surfaceReady>>
codecVars == <<codec, owned, faulted>>
vars == <<ui, starts, surfaceReady, configured, sawKeyframe, pendingFrames, freeInputBuffers,
          codec, owned, faulted, receiver, callback, arrived, queued>>

Starts == 1 .. MaxStarts
Frame == [number : 1 .. MaxFrames, keyframe : BOOLEAN]
InputBuffer == [index : Buffers, from : Starts]

\* What a thread is doing, and the frame and buffer it holds.
Idle == [at |-> "idle"]
Entered(f) == [at |-> "entered", frame |-> f]
Checked(f) == [at |-> "checked", frame |-> f]
Announced(b) == [at |-> "announced", buffer |-> b]
Submitting(f, b) == [at |-> "submitting", frame |-> f, buffer |-> b]

-----------------------------------------------------------------------------
(* The UI thread: surfaceCreated calls start, surfaceDestroyed calls stop. *)

\* start up to codec.start(): the codec exists and may call back.
StartCodec ==
  /\ ui = "stopped" /\ starts < MaxStarts
  /\ starts' = starts + 1
  /\ codec' = starts + 1
  /\ owned' = {} /\ faulted' = FALSE
  /\ ui' = "started"
  /\ UNCHANGED <<surfaceReady, configured, sawKeyframe, pendingFrames, freeInputBuffers,
                 receiver, callback, arrived, queued>>

\* start when the codec cannot be configured: the field keeps a codec that never
\* runs.  surfaceCreated does not look at what start returned.
FailToStart ==
  /\ ui = "stopped" /\ starts < MaxStarts
  /\ starts' = starts + 1
  /\ codec' = starts + 1
  /\ owned' = {} /\ faulted' = TRUE
  /\ ui' = "resetting"
  /\ UNCHANGED <<surfaceReady, configured, sawKeyframe, pendingFrames, freeInputBuffers,
                 receiver, callback, arrived, queued>>

\* Fault: start clears the queues, when the codec may have called back already.
SetConfiguredClearing ==
  /\ ui = "started"
  /\ configured' = TRUE
  /\ pendingFrames' = <<>> /\ freeInputBuffers' = <<>>
  /\ ui' = "configured"
  /\ UNCHANGED <<starts, surfaceReady, sawKeyframe, codecVars, receiver, callback,
                 arrived, queued>>

\* start once the codec runs: decode lets frames through.
SetConfigured ==
  /\ ui = "started"
  /\ configured' = TRUE
  /\ ui' = "configured"
  /\ UNCHANGED <<starts, surfaceReady, sawKeyframe, pendingFrames, freeInputBuffers,
                 codecVars, receiver, callback, arrived, queued>>

\* The rest of start; then the activity lets frames through.
ResetKeyframe ==
  /\ ui = "configured"
  /\ sawKeyframe' = FALSE
  /\ ui' = "resetting"
  /\ UNCHANGED <<starts, surfaceReady, configured, pendingFrames, freeInputBuffers,
                 codecVars, receiver, callback, arrived, queued>>

SurfaceCreated ==
  /\ ui = "resetting"
  /\ surfaceReady' = TRUE
  /\ ui' = "running"
  /\ UNCHANGED <<starts, configured, sawKeyframe, pendingFrames, freeInputBuffers,
                 codecVars, receiver, callback, arrived, queued>>

SurfaceDestroyed ==
  /\ ui = "running"
  /\ surfaceReady' = FALSE
  /\ ui' = "destroyed"
  /\ UNCHANGED <<starts, configured, sawKeyframe, pendingFrames, freeInputBuffers,
                 codecVars, receiver, callback, arrived, queued>>

ClearConfigured ==
  /\ ui = "destroyed"
  /\ configured' = FALSE
  /\ ui' = "unconfigured"
  /\ UNCHANGED <<starts, surfaceReady, sawKeyframe, pendingFrames, freeInputBuffers,
                 codecVars, receiver, callback, arrived, queued>>

\* Fault: the codec is released and stays in its field.
ReleaseCodecInPlace ==
  /\ ui = "unconfigured"
  /\ owned' = {}
  /\ ui' = "released"
  /\ UNCHANGED <<starts, surfaceReady, configured, sawKeyframe, pendingFrames,
                 freeInputBuffers, codec, faulted, receiver, callback, arrived, queued>>

\* codec.stop(), release() and null: callbacks that have not begun never will.
ReleaseCodec ==
  /\ ui = "unconfigured"
  /\ codec' = 0 /\ owned' = {}
  /\ ui' = "released"
  /\ UNCHANGED <<starts, surfaceReady, configured, sawKeyframe, pendingFrames,
                 freeInputBuffers, faulted, receiver, callback, arrived, queued>>

\* Under the lock, the last of stop.  No thread is waited for.
ClearQueues ==
  /\ ui = "released"
  /\ pendingFrames' = <<>> /\ freeInputBuffers' = <<>>
  /\ ui' = "stopped"
  /\ UNCHANGED <<starts, surfaceReady, configured, sawKeyframe, codecVars,
                 receiver, callback, arrived, queued>>

-----------------------------------------------------------------------------
(* submitToCodec.                                                          *)

\* getInputBuffer and queueInputBuffer take the frame.
Accepts(b) == b.index \in owned /\ ~faulted

\* They throw, or there is no buffer.  A buffer of an earlier codec can meet that
\* codec still, since the field is neither volatile nor read under the lock.
Refuses(b) == b.index \notin owned \/ faulted \/ b.from # codec

\* `by' is 0 for the receiver thread, else the start whose codec thread it is.
SubmitToCodec(by, f, b) ==
  \/ /\ Accepts(b)
     /\ owned' = owned \ {b.index}
     /\ queued' = Append(queued, [frame |-> f, codec |-> codec, by |-> by])
  \/ Refuses(b) /\ UNCHANGED <<owned, queued>>

-----------------------------------------------------------------------------
(* The receiver thread: onFrame and decode.                                *)

\* A frame that comes when the surface is not ready is dropped.
OnFrame(keyframe) ==
  LET f == [number |-> arrived + 1, keyframe |-> keyframe] IN
  /\ receiver = Idle /\ arrived < MaxFrames
  /\ arrived' = arrived + 1
  /\ receiver' = IF surfaceReady THEN Entered(f) ELSE Idle
  /\ UNCHANGED <<uiVars, configured, sawKeyframe, pendingFrames, freeInputBuffers,
                 codecVars, callback, queued>>

\* decode up to the lock: nothing before the first keyframe.
DecodeCheck ==
  LET f == receiver.frame
      passes == configured /\ (sawKeyframe \/ f.keyframe) IN
  /\ receiver.at = "entered"
  /\ sawKeyframe' = (sawKeyframe \/ passes)
  /\ receiver' = IF passes THEN Checked(f) ELSE Idle
  /\ UNCHANGED <<uiVars, configured, pendingFrames, freeInputBuffers,
                 codecVars, callback, arrived, queued>>

\* Under the lock: a free buffer, or the frame replaces the one that waits.
DecodeTakeBuffer ==
  LET f == receiver.frame IN
  /\ receiver.at = "checked"
  /\ IF freeInputBuffers # <<>>
     THEN /\ receiver' = Submitting(f, Head(freeInputBuffers))
          /\ freeInputBuffers' = Tail(freeInputBuffers)
          /\ UNCHANGED pendingFrames
     ELSE /\ receiver' = Idle
          /\ pendingFrames' = <<f>>
          /\ UNCHANGED freeInputBuffers
  /\ UNCHANGED <<uiVars, configured, sawKeyframe, codecVars, callback, arrived, queued>>

DecodeSubmit ==
  /\ receiver.at = "submitting"
  /\ SubmitToCodec(0, receiver.frame, receiver.buffer)
  /\ receiver' = Idle
  /\ UNCHANGED <<uiVars, configured, sawKeyframe, pendingFrames, freeInputBuffers,
                 codec, faulted, callback, arrived>>

-----------------------------------------------------------------------------
(* The codec's callbacks, each start's on a thread of its own.             *)

\* MediaCodec hands out an input buffer: onInputBufferAvailable is entered.
OnInputBufferAvailable(index) ==
  /\ codec # 0 /\ ~faulted /\ index \notin owned
  /\ callback[codec] = Idle
  /\ owned' = owned \cup {index}
  /\ callback' = [callback EXCEPT ![codec] = Announced([index |-> index, from |-> codec])]
  /\ UNCHANGED <<uiVars, configured, sawKeyframe, pendingFrames, freeInputBuffers,
                 codec, faulted, receiver, arrived, queued>>

\* Fault: the buffer waits although a frame does.
HandleInputBufferParking(s) ==
  /\ callback[s].at = "announced"
  /\ callback' = [callback EXCEPT ![s] = Idle]
  /\ freeInputBuffers' = Append(freeInputBuffers, callback[s].buffer)
  /\ UNCHANGED <<uiVars, configured, sawKeyframe, pendingFrames, codecVars, receiver,
                 arrived, queued>>

\* Fault: the waiting frame is read and not removed.
HandleInputBufferPeeking(s) ==
  LET b == callback[s].buffer IN
  /\ callback[s].at = "announced"
  /\ IF pendingFrames # <<>>
     THEN /\ callback' = [callback EXCEPT ![s] = Submitting(Head(pendingFrames), b)]
          /\ UNCHANGED freeInputBuffers
     ELSE /\ callback' = [callback EXCEPT ![s] = Idle]
          /\ freeInputBuffers' = Append(freeInputBuffers, b)
  /\ UNCHANGED <<uiVars, configured, sawKeyframe, pendingFrames, codecVars, receiver,
                 arrived, queued>>

\* handleInputBuffer under the lock: the waiting frame, or the buffer waits.
HandleInputBuffer(s) ==
  LET b == callback[s].buffer IN
  /\ callback[s].at = "announced"
  /\ IF pendingFrames # <<>>
     THEN /\ callback' = [callback EXCEPT ![s] = Submitting(Head(pendingFrames), b)]
          /\ pendingFrames' = Tail(pendingFrames)
          /\ UNCHANGED freeInputBuffers
     ELSE /\ callback' = [callback EXCEPT ![s] = Idle]
          /\ freeInputBuffers' = Append(freeInputBuffers, b)
          /\ UNCHANGED pendingFrames
  /\ UNCHANGED <<uiVars, configured, sawKeyframe, codecVars, receiver, arrived, queued>>

CallbackSubmit(s) ==
  /\ callback[s].at = "submitting"
  /\ SubmitToCodec(s, callback[s].frame, callback[s].buffer)
  /\ callback' = [callback EXCEPT ![s] = Idle]
  /\ UNCHANGED <<uiVars, configured, sawKeyframe, pendingFrames, freeInputBuffers,
                 codec, faulted, receiver, arrived>>

\* onError: the codec recovers by itself, or is of no more use.
OnError ==
  /\ codec # 0 /\ ~faulted
  /\ callback[codec] = Idle
  /\ sawKeyframe' = FALSE
  /\ faulted' \in BOOLEAN
  /\ UNCHANGED <<uiVars, configured, pendingFrames, freeInputBuffers, codec, owned,
                 receiver, callback, arrived, queued>>

-----------------------------------------------------------------------------
Init ==
  /\ ui = "stopped" /\ starts = 0 /\ surfaceReady = FALSE
  /\ configured = FALSE /\ sawKeyframe = FALSE
  /\ pendingFrames = <<>> /\ freeInputBuffers = <<>>
  /\ codec = 0 /\ owned = {} /\ faulted = FALSE
  /\ receiver = Idle /\ callback = [s \in Starts |-> Idle]
  /\ arrived = 0 /\ queued = <<>>

UiThread ==
  \/ StartCodec \/ FailToStart \/ SetConfigured \/ ResetKeyframe \/ SurfaceCreated
  \/ SurfaceDestroyed \/ ClearConfigured \/ ReleaseCodec \/ ClearQueues

ReceiverThread ==
  \/ \E keyframe \in BOOLEAN : OnFrame(keyframe)
  \/ DecodeCheck \/ DecodeTakeBuffer \/ DecodeSubmit

CodecThread ==
  \/ \E index \in Buffers : OnInputBufferAvailable(index)
  \/ \E s \in Starts : HandleInputBuffer(s) \/ CallbackSubmit(s)
  \/ OnError

Next == UiThread \/ ReceiverThread \/ CodecThread

Spec == Init /\ [][Next]_vars

-----------------------------------------------------------------------------
(* Properties.                                                             *)

ReceiverType ==
  {Idle} \cup {Entered(f) : f \in Frame} \cup {Checked(f) : f \in Frame}
    \cup {Submitting(f, b) : f \in Frame, b \in InputBuffer}

CallbackType ==
  {Idle} \cup {Announced(b) : b \in InputBuffer}
    \cup {Submitting(f, b) : f \in Frame, b \in InputBuffer}

\* The field holds a codec exactly from start's codec.start() to stop's release.
TypeOK ==
  /\ ui \in {"stopped", "started", "configured", "resetting", "running",
             "destroyed", "unconfigured", "released"}
  /\ starts \in 0 .. MaxStarts
  /\ surfaceReady \in BOOLEAN /\ configured \in BOOLEAN /\ sawKeyframe \in BOOLEAN
  /\ pendingFrames \in Seq(Frame) /\ freeInputBuffers \in Seq(InputBuffer)
  /\ codec = (IF ui \in {"stopped", "released"} THEN 0 ELSE starts)
  /\ owned \subseteq Buffers /\ faulted \in BOOLEAN
  /\ receiver \in ReceiverType /\ callback \in [Starts -> CallbackType]
  /\ arrived \in 0 .. MaxFrames
  /\ queued \in Seq([frame : Frame, codec : Starts, by : 0 .. MaxStarts])

\* Of frames waiting for a buffer and buffers waiting for a frame, only one is
\* ever non-empty, and at most one frame waits: otherwise a frame would wait
\* beside a free buffer until the next one came, or a backlog would build up.
OneQueueEmpty ==
  /\ pendingFrames = <<>> \/ freeInputBuffers = <<>>
  /\ Len(pendingFrames) <= 1

\* A codec thread that stop did not wait for can outlive its codec.
OfThisCodec(q) == q.by \in {0, q.codec}

\* What the codecs are fed, for DecoderFeed.
FedFrames ==
  [k \in DOMAIN queued |->
    [number |-> queued[k].frame.number, start |-> queued[k].codec,
     by |-> IF OfThisCodec(queued[k]) THEN 0 ELSE queued[k].by]]

Feed == INSTANCE DecoderFeed WITH fed <- FedFrames

\* The receiver and the codec thread of a start feed that start's codec frames in the
\* order they arrived, none twice, although each takes frames and buffers under the lock
\* and submits them after releasing it; a codec thread that outlives its codec, since
\* stop waits for no thread, puts in at most one frame out of turn.
ImplementsFeed == Feed!Spec

\* The frame that waits is newer than every frame submitted or about to be: what
\* is given up when the decoder is behind is always the older image.
InHand ==
  {callback[s].frame : s \in {x \in Starts : callback[x].at = "submitting"}}
    \cup (IF receiver.at = "submitting" THEN {receiver.frame} ELSE {})

WaitingIsNewest ==
  pendingFrames # <<>> =>
    /\ \A k \in DOMAIN queued : queued[k].frame.number < Head(pendingFrames).number
    /\ \A f \in InHand : f.number < Head(pendingFrames).number

\* The buffers the client has: waiting, or in the hands of a thread.
Held ==
  ToSet(freeInputBuffers)
    \cup {callback[s].buffer : s \in {x \in Starts : callback[x] # Idle}}
    \cup (IF receiver.at = "submitting" THEN {receiver.buffer} ELSE {})

\* No buffer the codec handed out is forgotten while the codec works, restarts
\* and stale threads included: a decoder that loses buffers stops for good.
NoBufferLost ==
  ~faulted => \A index \in owned : [index |-> index, from |-> codec] \in Held

\* The first frame a codec is given is a keyframe ("a decoder cannot start
\* mid-GOP").
FirstOf(k) == \A j \in 1 .. k - 1 : queued[j].codec # queued[k].codec

StartsWithKeyframe ==
  \A k \in DOMAIN queued : FirstOf(k) => queued[k].frame.keyframe

-----------------------------------------------------------------------------
(* The inductive invariant behind WaitingIsNewest, NoBufferLost and        *)
(* ImplementsFeed.                                                         *)

\* The frame decode is about to place is the newest there is: no other is as new.
PlacingIsNewest ==
  receiver.at \in {"entered", "checked"} =>
    /\ receiver.frame.number = arrived
    /\ \A k \in DOMAIN queued : queued[k].frame.number < arrived
    /\ \A k \in DOMAIN pendingFrames : pendingFrames[k].number < arrived
    /\ \A f \in InHand : f.number < arrived

\* No frame anywhere is newer than the last that arrived.
NumbersInv ==
  /\ \A k \in DOMAIN queued : queued[k].frame.number <= arrived
  /\ \A k \in DOMAIN pendingFrames : pendingFrames[k].number <= arrived
  /\ \A f \in InHand : f.number <= arrived

\* Without a codec there are no buffers of it.
OwnedInv == codec = 0 => owned = {}

\* While the receiver thread submits a frame, that is the last one that arrived, and
\* none waits: no codec thread can take a newer one past it.
ReceiverIsNewest ==
  receiver.at = "submitting" =>
    /\ receiver.frame.number = arrived /\ pendingFrames = <<>>
    /\ \A k \in DOMAIN queued : queued[k].frame.number < arrived
    /\ \A s \in Starts : callback[s].at = "submitting" => callback[s].frame.number < arrived

\* A codec thread has buffers of its own codec only, and there is none before its start.
OwnThread ==
  \A s \in Starts : callback[s] # Idle => s <= starts /\ callback[s].buffer.from = s

\* While the codec's own thread submits, its buffer is the only one the codec has handed
\* out, since another would have taken the frame that waited; and unless that buffer is
\* taken by a thread that mistakes it for its own, what the codec was fed is older.
Submits == ~faulted /\ codec # 0 /\ callback[codec].at = "submitting"

OnlyBuffer == Submits => owned \subseteq {callback[codec].buffer.index}

OwnFrameIsNext ==
  Submits /\ callback[codec].buffer.index \in owned =>
    \A k \in DOMAIN queued :
      queued[k].codec = codec /\ OfThisCodec(queued[k]) =>
        queued[k].frame.number < callback[codec].frame.number

\* What one start's own threads feed its codec is in order of arrival.
InArrivalOrder ==
  \A j, k \in DOMAIN queued :
    /\ j < k /\ queued[j].codec = queued[k].codec
    /\ OfThisCodec(queued[j]) /\ OfThisCodec(queued[k])
    => queued[j].frame.number < queued[k].frame.number

OrderInv ==
  /\ ReceiverIsNewest /\ OwnThread /\ OnlyBuffer /\ OwnFrameIsNext /\ InArrivalOrder
  /\ \A k \in DOMAIN queued : queued[k].codec <= starts

\* A frame is in one place: fed, or in the hands of one thread.
OnePlace ==
  /\ \A j, k \in DOMAIN queued : j # k => queued[j].frame.number # queued[k].frame.number
  /\ \A s \in Starts : callback[s].at = "submitting" =>
       /\ \A k \in DOMAIN queued : queued[k].frame.number # callback[s].frame.number
       /\ \A x \in Starts \ {s} : callback[x].at = "submitting" =>
            callback[x].frame.number # callback[s].frame.number

\* A codec thread that has fed the codec of a later start is done: its own codec will
\* not call it again.
LateOnce ==
  /\ \A k \in DOMAIN queued : ~OfThisCodec(queued[k]) =>
       queued[k].by < queued[k].codec /\ callback[queued[k].by] = Idle
  /\ \A j, k \in DOMAIN queued :
       j # k /\ ~OfThisCodec(queued[j]) /\ ~OfThisCodec(queued[k]) =>
         queued[j].by # queued[k].by

FeedInv == OnePlace /\ LateOnce

IInv ==
  /\ TypeOK
  /\ OneQueueEmpty /\ NumbersInv /\ PlacingIsNewest /\ WaitingIsNewest
  /\ OwnedInv /\ NoBufferLost
  /\ OrderInv /\ FeedInv
=============================================================================
