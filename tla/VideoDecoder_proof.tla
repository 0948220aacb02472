------------------------- MODULE VideoDecoder_proof -------------------------
(***************************************************************************)
(* Proofs about VideoDecoder, for every set of buffers and every bound on  *)
(* frames and starts, and about VideoPath, which puts it behind the link.  *)
(***************************************************************************)
EXTENDS VideoPath, SequenceTheorems, TLAPS

-----------------------------------------------------------------------------
(* What a thread holds.                                                    *)

\* What the receiver thread holds, by where it is.
LEMMA ReceiverHolds ==
  ASSUME NEW r \in ReceiverType
  PROVE  /\ r.at \in {"idle", "entered", "checked", "submitting"}
         /\ r.at # "idle" => r.frame \in Frame
         /\ r.at = "submitting" => r.buffer \in InputBuffer
  BY DEF ReceiverType, Idle, Entered, Checked, Submitting

\* What a codec thread holds, by where it is.
LEMMA CallbackHolds ==
  ASSUME NEW c \in CallbackType
  PROVE  /\ c.at \in {"idle", "announced", "submitting"}
         /\ c # Idle <=> c.at # "idle"
         /\ c.at # "idle" => c.buffer \in InputBuffer
         /\ c.at = "submitting" => c.frame \in Frame
  BY DEF CallbackType, Idle, Announced, Submitting

\* The states of a thread, taken apart.
LEMMA ThreadStates ==
  ASSUME NEW f, NEW b
  PROVE  /\ Idle.at = "idle"
         /\ Entered(f).at = "entered" /\ Entered(f).frame = f
         /\ Checked(f).at = "checked" /\ Checked(f).frame = f
         /\ Announced(b).at = "announced" /\ Announced(b).buffer = b
         /\ Submitting(f, b).at = "submitting"
         /\ Submitting(f, b).frame = f /\ Submitting(f, b).buffer = b
  BY DEF Idle, Entered, Checked, Announced, Submitting

\* The states of a thread, put together.
LEMMA ThreadTypes ==
  ASSUME NEW f \in Frame, NEW b \in InputBuffer
  PROVE  /\ Idle \in ReceiverType /\ Entered(f) \in ReceiverType
         /\ Checked(f) \in ReceiverType /\ Submitting(f, b) \in ReceiverType
         /\ Idle \in CallbackType /\ Announced(b) \in CallbackType
         /\ Submitting(f, b) \in CallbackType
  BY DEF ReceiverType, CallbackType

LEMMA IdleTypes == Idle \in ReceiverType /\ Idle \in CallbackType
  BY DEF ReceiverType, CallbackType

LEMMA FrameFacts ==
  ASSUME NEW f \in Frame
  PROVE  f.number \in 1 .. MaxFrames /\ f.number \in Nat
  BY BoundsAssumption DEF Frame

-----------------------------------------------------------------------------
(* Type correctness.                                                       *)

\* A codec that takes a frame exists.
LEMMA AcceptsMeansCodec ==
  ASSUME TypeOK, OwnedInv, NEW b, Accepts(b)
  PROVE  codec \in Starts /\ codec # 0
<1>1. codec # 0
  BY DEF Accepts, OwnedInv
<1>2. codec \in Nat /\ codec <= MaxStarts
  BY BoundsAssumption DEF TypeOK
<1> QED
  BY <1>1, <1>2, BoundsAssumption DEF Starts

LEMMA SubmitType ==
  ASSUME TypeOK, OwnedInv, NEW by \in 0 .. MaxStarts, NEW f \in Frame, NEW b,
         SubmitToCodec(by, f, b)
  PROVE  /\ owned' \subseteq Buffers
         /\ queued' \in Seq([frame : Frame, codec : Starts, by : 0 .. MaxStarts])
         /\ codec = 0 => owned' = {}
<1> DEFINE Q == [frame : Frame, codec : Starts, by : 0 .. MaxStarts]
<1>1. queued \in Seq(Q) /\ owned \subseteq Buffers
  BY DEF TypeOK
<1>2. CASE Accepts(b) /\ owned' = owned \ {b.index}
             /\ queued' = Append(queued, [frame |-> f, codec |-> codec, by |-> by])
  <2>1. [frame |-> f, codec |-> codec, by |-> by] \in Q
    BY <1>2, AcceptsMeansCodec
  <2> HIDE DEF Q
  <2>2. Append(queued, [frame |-> f, codec |-> codec, by |-> by]) \in Seq(Q)
    BY <1>1, <2>1
  <2>3. codec # 0
    BY <1>2, AcceptsMeansCodec
  <2> QED
    BY <1>1, <1>2, <2>2, <2>3 DEF Q
<1>3. CASE Refuses(b) /\ UNCHANGED <<owned, queued>>
  BY <1>1, <1>3 DEF OwnedInv
<1> QED
  BY <1>2, <1>3 DEF SubmitToCodec

\* The queues of decode stay queues of frames and of buffers.
LEMMA TypeInit == Init => TypeOK /\ OwnedInv
<1> SUFFICES ASSUME Init PROVE TypeOK /\ OwnedInv
  OBVIOUS
<1>1. 0 \in 0 .. MaxStarts /\ 0 \in 0 .. MaxFrames
  BY BoundsAssumption
<1>2. /\ pendingFrames \in Seq(Frame) /\ freeInputBuffers \in Seq(InputBuffer)
      /\ queued \in Seq([frame : Frame, codec : Starts, by : 0 .. MaxStarts])
  BY DEF Init
<1>3. receiver \in ReceiverType /\ callback \in [Starts -> CallbackType]
  BY IdleTypes DEF Init
<1> QED
  BY <1>1, <1>2, <1>3 DEF Init, TypeOK, OwnedInv

LEMMA TypeStep ==
  ASSUME TypeOK, OwnedInv, [Next]_vars
  PROVE  TypeOK' /\ OwnedInv'
<1> USE DEF TypeOK, OwnedInv, uiVars, codecVars
<1>0. MaxStarts \in Nat /\ MaxFrames \in Nat
  BY BoundsAssumption
<1>1. CASE UNCHANGED vars
  BY <1>1 DEF vars
<1>2. CASE UiThread
  <2>1. CASE StartCodec
    <3>1. starts' \in 0 .. MaxStarts /\ codec' = starts'
      BY <1>0, <2>1 DEF StartCodec
    <3>2. faulted' \in BOOLEAN
      BY <2>1, Zenon DEF StartCodec
    <3> QED
      BY <2>1, <3>1, <3>2 DEF StartCodec
  <2>2. CASE FailToStart
    BY <1>0, <2>2 DEF FailToStart
  <2>3. CASE SetConfigured
    BY <2>3 DEF SetConfigured
  <2>4. CASE ResetKeyframe
    BY <2>4 DEF ResetKeyframe
  <2>5. CASE SurfaceCreated
    BY <2>5 DEF SurfaceCreated
  <2>6. CASE SurfaceDestroyed
    BY <2>6 DEF SurfaceDestroyed
  <2>7. CASE ClearConfigured
    BY <2>7 DEF ClearConfigured
  <2>8. CASE ReleaseCodec
    BY <2>8 DEF ReleaseCodec
  <2>9. CASE ClearQueues
    <3>1. <<>> \in Seq(Frame) /\ <<>> \in Seq(InputBuffer)
      OBVIOUS
    <3> QED
      BY <2>9, <3>1 DEF ClearQueues
  <2> QED
    BY <1>2, <2>1, <2>2, <2>3, <2>4, <2>5, <2>6, <2>7, <2>8, <2>9 DEF UiThread
<1>3. CASE ReceiverThread
  <2>1. ASSUME NEW keyframe \in BOOLEAN, OnFrame(keyframe)
        PROVE  TypeOK' /\ OwnedInv'
    <3>1. [number |-> arrived + 1, keyframe |-> keyframe] \in Frame
      BY <1>0, <2>1 DEF OnFrame, Frame
    <3>2. receiver' \in ReceiverType
      BY <2>1, <3>1, IdleTypes DEF OnFrame, ReceiverType
    <3>3. arrived' \in 0 .. MaxFrames
      BY <1>0, <2>1 DEF OnFrame
    <3> QED
      BY <2>1, <3>2, <3>3 DEF OnFrame
  <2>2. CASE DecodeCheck
    <3>1. receiver.frame \in Frame
      BY <2>2, ReceiverHolds DEF DecodeCheck
    <3>2. receiver' \in ReceiverType
      BY <2>2, <3>1, IdleTypes DEF DecodeCheck, ReceiverType
    <3> QED
      BY <2>2, <3>2 DEF DecodeCheck
  <2>3. CASE DecodeTakeBuffer
    <3>1. receiver.frame \in Frame
      BY <2>3, ReceiverHolds DEF DecodeTakeBuffer
    <3>2. CASE freeInputBuffers # <<>>
      <4>1. Head(freeInputBuffers) \in InputBuffer /\ Tail(freeInputBuffers) \in Seq(InputBuffer)
        BY <3>2
      <4>2. receiver' \in ReceiverType
        BY <2>3, <3>1, <3>2, <4>1 DEF DecodeTakeBuffer, ReceiverType
      <4> QED
        BY <2>3, <3>2, <4>1, <4>2 DEF DecodeTakeBuffer
    <3>3. CASE freeInputBuffers = <<>>
      <4>1. <<receiver.frame>> \in Seq(Frame)
        BY <3>1
      <4> QED
        BY <2>3, <3>3, <4>1, IdleTypes DEF DecodeTakeBuffer
    <3> QED
      BY <3>2, <3>3
  <2>4. CASE DecodeSubmit
    <3>1. receiver.frame \in Frame
      BY <2>4, ReceiverHolds DEF DecodeSubmit
    <3>2. 0 \in 0 .. MaxStarts
      BY <1>0
    <3>3. /\ owned' \subseteq Buffers /\ (codec = 0 => owned' = {})
          /\ queued' \in Seq([frame : Frame, codec : Starts, by : 0 .. MaxStarts])
      BY <2>4, <3>1, <3>2, SubmitType DEF DecodeSubmit
    <3> QED
      BY <2>4, <3>3, IdleTypes DEF DecodeSubmit
  <2> QED
    BY <1>3, <2>1, <2>2, <2>3, <2>4 DEF ReceiverThread
<1>4. CASE CodecThread
  <2>1. ASSUME NEW index \in Buffers, OnInputBufferAvailable(index)
        PROVE  TypeOK' /\ OwnedInv'
    <3>1. codec \in Starts
      BY <1>0, <2>1 DEF OnInputBufferAvailable, Starts
    <3>2. [index |-> index, from |-> codec] \in InputBuffer
      BY <3>1 DEF InputBuffer
    <3>3. Announced([index |-> index, from |-> codec]) \in CallbackType
      BY <3>2 DEF CallbackType
    <3> QED
      BY <2>1, <3>3 DEF OnInputBufferAvailable
  <2>2. ASSUME NEW s \in Starts, HandleInputBuffer(s)
        PROVE  TypeOK' /\ OwnedInv'
    <3>1. callback[s].buffer \in InputBuffer
      BY <2>2, CallbackHolds DEF HandleInputBuffer
    <3>2. CASE pendingFrames # <<>>
      <4>1. Head(pendingFrames) \in Frame /\ Tail(pendingFrames) \in Seq(Frame)
        BY <3>2
      <4>2. Submitting(Head(pendingFrames), callback[s].buffer) \in CallbackType
        BY <3>1, <4>1 DEF CallbackType
      <4> QED
        BY <2>2, <3>2, <4>1, <4>2 DEF HandleInputBuffer
    <3>3. CASE pendingFrames = <<>>
      <4>1. Append(freeInputBuffers, callback[s].buffer) \in Seq(InputBuffer)
        BY <3>1
      <4> QED
        BY <2>2, <3>3, <4>1, IdleTypes DEF HandleInputBuffer
    <3> QED
      BY <3>2, <3>3
  <2>3. ASSUME NEW s \in Starts, CallbackSubmit(s)
        PROVE  TypeOK' /\ OwnedInv'
    <3>1. callback[s].frame \in Frame
      BY <2>3, CallbackHolds DEF CallbackSubmit
    <3>2. s \in 0 .. MaxStarts
      BY <1>0 DEF Starts
    <3>3. /\ owned' \subseteq Buffers /\ (codec = 0 => owned' = {})
          /\ queued' \in Seq([frame : Frame, codec : Starts, by : 0 .. MaxStarts])
      BY <2>3, <3>1, <3>2, SubmitType DEF CallbackSubmit
    <3> QED
      BY <2>3, <3>3, IdleTypes DEF CallbackSubmit
  <2>4. CASE OnError
    BY <2>4 DEF OnError
  <2> QED
    BY <1>4, <2>1, <2>2, <2>3, <2>4 DEF CodecThread
<1> QED
  BY <1>1, <1>2, <1>3, <1>4 DEF Next

-----------------------------------------------------------------------------
(* The frames: which is in hand, which waits, which is the newest.         *)

FramesInv == OneQueueEmpty /\ NumbersInv /\ PlacingIsNewest /\ WaitingIsNewest

\* A sequence of at most one element that is not empty.
LEMMA OneElement ==
  ASSUME NEW S, NEW s \in Seq(S), s # <<>>, Len(s) <= 1
  PROVE  Len(s) = 1 /\ Head(s) = s[1] /\ 1 \in DOMAIN s /\ Tail(s) = <<>>
<1>1. Len(s) \in Nat /\ DOMAIN s = 1 .. Len(s) /\ Head(s) = s[1]
  OBVIOUS
<1>2. Len(s) # 0
  OBVIOUS
<1>3. \A n \in Nat : n # 0 /\ n <= 1 => n = 1
  OBVIOUS
<1>4. Len(s) = 1
  BY <1>1, <1>2, <1>3, Zenon
<1>5. Tail(s) = <<>>
  <2>1. Tail(s) \in Seq(S) /\ Len(Tail(s)) = 0
    BY <1>4, HeadTailProperties
  <2> QED
    BY <2>1, EmptySeq
<1>6. 1 \in DOMAIN s
  BY <1>1, <1>4
<1> QED
  BY <1>1, <1>4, <1>5, <1>6, Zenon

\* A thread in the middle of submitToCodec has a frame in hand.
LEMMA InHandMembers ==
  ASSUME NEW f
  PROVE  f \in InHand <=>
           \/ receiver.at = "submitting" /\ f = receiver.frame
           \/ \E s \in Starts : callback[s].at = "submitting" /\ f = callback[s].frame
  BY DEF InHand

LEMMA InHandFrames == TypeOK => \A f \in InHand : f \in Frame
<1> SUFFICES ASSUME TypeOK, NEW f \in InHand PROVE f \in Frame
  OBVIOUS
<1>1. receiver \in ReceiverType /\ \A s \in Starts : callback[s] \in CallbackType
  BY DEF TypeOK
<1> QED
  BY <1>1, InHandMembers, ReceiverHolds, CallbackHolds

\* The numbers that are compared are numbers.
LEMMA NumberTypes ==
  ASSUME TypeOK
  PROVE  /\ arrived \in Nat
         /\ \A k \in DOMAIN queued : queued[k].frame.number \in Nat
         /\ \A k \in DOMAIN pendingFrames : pendingFrames[k].number \in Nat
         /\ \A f \in InHand : f.number \in Nat
         /\ receiver.at # "idle" => receiver.frame.number \in Nat
<1>1. arrived \in Nat
  BY BoundsAssumption DEF TypeOK
<1>2. \A k \in DOMAIN queued : queued[k].frame \in Frame
  <2> DEFINE Q == [frame : Frame, codec : Starts, by : 0 .. MaxStarts]
  <2>1. queued \in Seq(Q)
    BY DEF TypeOK
  <2>2. \A q \in Q : q.frame \in Frame
    OBVIOUS
  <2> HIDE DEF Q
  <2> QED
    BY <2>1, <2>2
<1>3. \A k \in DOMAIN pendingFrames : pendingFrames[k] \in Frame
  BY DEF TypeOK
<1>4. receiver.at # "idle" => receiver.frame \in Frame
  BY ReceiverHolds DEF TypeOK
<1> QED
  BY <1>1, <1>2, <1>3, <1>4, InHandFrames, FrameFacts

\* A step that leaves the frames and the free buffers where they are.
LEMMA FramesUnchanged ==
  ASSUME FramesInv,
         UNCHANGED <<pendingFrames, freeInputBuffers, receiver, callback, arrived, queued>>
  PROVE  FramesInv'
<1>1. InHand' = InHand
  BY DEF InHand
<1> QED
  BY <1>1 DEF FramesInv, OneQueueEmpty, NumbersInv, PlacingIsNewest, WaitingIsNewest

\* Taking up to the submission: what one of the threads submits it had in hand.
LEMMA FramesSubmit ==
  ASSUME TypeOK, TypeOK', FramesInv, NEW f \in InHand, NEW by, NEW b,
         SubmitToCodec(by, f, b), InHand' \subseteq InHand,
         receiver' = receiver \/ receiver'.at = "idle",
         UNCHANGED <<pendingFrames, freeInputBuffers, arrived>>
  PROVE  FramesInv'
<1>1. \A k \in DOMAIN queued' :
        queued'[k].frame = f \/ (k \in DOMAIN queued /\ queued'[k] = queued[k])
  <2> DEFINE Q == [frame : Frame, codec : Starts, by : 0 .. MaxStarts]
             q == [frame |-> f, codec |-> codec, by |-> by]
  <2>1. queued \in Seq(Q) /\ q.frame = f
    BY DEF TypeOK
  <2>2. queued' = queued \/ queued' = Append(queued, q)
    BY DEF SubmitToCodec
  <2> HIDE DEF Q, q
  <2> QED
    BY <2>1, <2>2
<1> QED
  BY <1>1 DEF FramesInv, OneQueueEmpty, NumbersInv, PlacingIsNewest, WaitingIsNewest

LEMMA FramesStep ==
  ASSUME TypeOK, TypeOK', FramesInv, [Next]_vars
  PROVE  FramesInv'
<1> USE DEF uiVars, codecVars
<1>1. CASE UNCHANGED vars
  BY <1>1, FramesUnchanged DEF vars
<1>2. CASE UiThread
  <2>1. CASE ClearQueues
    <3>1. InHand' = InHand
      BY <2>1 DEF ClearQueues, InHand
    <3> QED
      BY <2>1, <3>1 DEF ClearQueues, FramesInv, OneQueueEmpty, NumbersInv,
        PlacingIsNewest, WaitingIsNewest
  <2>2. CASE StartCodec \/ FailToStart \/ SetConfigured \/ ResetKeyframe \/ SurfaceCreated
               \/ SurfaceDestroyed \/ ClearConfigured \/ ReleaseCodec
    BY <2>2, FramesUnchanged DEF StartCodec, FailToStart, SetConfigured, ResetKeyframe,
      SurfaceCreated, SurfaceDestroyed, ClearConfigured, ReleaseCodec
  <2> QED
    BY <1>2, <2>1, <2>2 DEF UiThread
<1>3. CASE ReceiverThread
  <2>1. ASSUME NEW keyframe \in BOOLEAN, OnFrame(keyframe)
        PROVE  FramesInv'
    <3>1. receiver.at = "idle" /\ receiver'.at \in {"idle", "entered"}
      BY <2>1, ThreadStates DEF OnFrame
    <3>2. receiver'.at = "entered" => receiver'.frame.number = arrived'
      BY <2>1, ThreadStates DEF OnFrame
    <3>3. InHand' = InHand
      BY <2>1, <3>1 DEF OnFrame, InHand
    <3>4. arrived' = arrived + 1 /\ UNCHANGED <<queued, pendingFrames, freeInputBuffers>>
      BY <2>1 DEF OnFrame
    <3>5. NumbersInv'
      BY <3>3, <3>4, NumberTypes DEF FramesInv, NumbersInv
    <3>6. PlacingIsNewest'
      BY <3>1, <3>2, <3>3, <3>4, NumberTypes DEF FramesInv, NumbersInv, PlacingIsNewest
    <3> QED
      BY <3>3, <3>4, <3>5, <3>6 DEF FramesInv, OneQueueEmpty, WaitingIsNewest
  <2>2. CASE DecodeCheck
    <3>1. receiver.at = "entered" /\ receiver'.at \in {"idle", "checked"}
      BY <2>2, ThreadStates DEF DecodeCheck
    <3>2. receiver'.at = "checked" => receiver'.frame = receiver.frame
      BY <2>2, ThreadStates DEF DecodeCheck
    <3>3. InHand' = InHand
      BY <2>2, <3>1 DEF DecodeCheck, InHand
    <3>4. UNCHANGED <<arrived, queued, pendingFrames, freeInputBuffers>>
      BY <2>2 DEF DecodeCheck
    <3> QED
      BY <3>1, <3>2, <3>3, <3>4 DEF FramesInv, OneQueueEmpty, NumbersInv,
        PlacingIsNewest, WaitingIsNewest
  <2>3. CASE DecodeTakeBuffer
    <3> DEFINE f == receiver.frame
    <3>1. receiver.at = "checked" /\ receiver'.at \in {"idle", "submitting"}
      BY <2>3, ThreadStates DEF DecodeTakeBuffer
    <3>2. UNCHANGED <<arrived, queued, callback>>
      BY <2>3 DEF DecodeTakeBuffer
    <3>3. /\ f.number = arrived
          /\ \A k \in DOMAIN queued : queued[k].frame.number < f.number
          /\ \A g \in InHand : g.number < f.number
      BY <3>1 DEF FramesInv, PlacingIsNewest
    <3>4. CASE freeInputBuffers # <<>>
      <4>1. receiver'.frame = f /\ UNCHANGED pendingFrames
        BY <2>3, <3>4, ThreadStates DEF DecodeTakeBuffer
      <4>2. pendingFrames = <<>>
        BY <3>4 DEF FramesInv, OneQueueEmpty
      <4>3. \A g \in InHand' : g = f \/ g \in InHand
        BY <3>1, <3>2, <4>1 DEF InHand
      <4>4. \A g \in InHand' : g.number <= arrived'
        BY <3>2, <3>3, <4>3, NumberTypes
      <4> QED
        BY <3>1, <3>2, <4>1, <4>2, <4>4 DEF FramesInv, OneQueueEmpty, NumbersInv,
          PlacingIsNewest, WaitingIsNewest
    <3>5. CASE freeInputBuffers = <<>>
      <4>1. receiver'.at = "idle" /\ pendingFrames' = <<f>> /\ freeInputBuffers' = <<>>
        BY <2>3, <3>5, ThreadStates DEF DecodeTakeBuffer
      <4>2. InHand' = InHand
        BY <3>1, <3>2, <4>1 DEF InHand
      <4>3. Len(pendingFrames') = 1 /\ DOMAIN pendingFrames' = {1}
              /\ pendingFrames'[1] = f /\ Head(pendingFrames') = f
        BY <4>1
      <4>4. OneQueueEmpty'
        BY <4>1, <4>3 DEF OneQueueEmpty
      <4>5. NumbersInv'
        BY <3>2, <3>3, <4>2, <4>3, NumberTypes DEF FramesInv, NumbersInv
      <4>6. WaitingIsNewest'
        BY <3>2, <3>3, <4>2, <4>3 DEF WaitingIsNewest
      <4> QED
        BY <4>1, <4>4, <4>5, <4>6 DEF FramesInv, PlacingIsNewest
    <3> QED
      BY <3>4, <3>5
  <2>4. CASE DecodeSubmit
    <3>1. receiver.frame \in InHand
      BY <2>4 DEF DecodeSubmit, InHand
    <3>2. receiver'.at = "idle"
      BY <2>4, ThreadStates DEF DecodeSubmit
    <3>3. InHand' \subseteq InHand
      BY <2>4, <3>2 DEF DecodeSubmit, InHand
    <3> QED
      BY <2>4, <3>1, <3>2, <3>3, FramesSubmit DEF DecodeSubmit
  <2> QED
    BY <1>3, <2>1, <2>2, <2>3, <2>4 DEF ReceiverThread
<1>4. CASE CodecThread
  <2>0. callback \in [Starts -> CallbackType]
    BY DEF TypeOK
  <2>1. ASSUME NEW index \in Buffers, OnInputBufferAvailable(index)
        PROVE  FramesInv'
    <3>1. \A s \in Starts : callback'[s].at = "submitting" => callback'[s] = callback[s]
      BY <2>0, <2>1, ThreadStates DEF OnInputBufferAvailable
    <3>2. InHand' \subseteq InHand
      BY <2>1, <3>1 DEF OnInputBufferAvailable, InHand
    <3> QED
      BY <2>1, <3>2 DEF OnInputBufferAvailable, FramesInv, OneQueueEmpty, NumbersInv,
        PlacingIsNewest, WaitingIsNewest
  <2>2. ASSUME NEW s \in Starts, HandleInputBuffer(s)
        PROVE  FramesInv'
    <3>1. UNCHANGED <<arrived, queued, receiver>>
      BY <2>2 DEF HandleInputBuffer
    <3>2. CASE pendingFrames # <<>>
      <4> DEFINE f == Head(pendingFrames)
      <4>1. Len(pendingFrames) = 1 /\ f = pendingFrames[1] /\ 1 \in DOMAIN pendingFrames
        <5>1. pendingFrames \in Seq(Frame) /\ Len(pendingFrames) <= 1
          BY DEF TypeOK, FramesInv, OneQueueEmpty
        <5> QED
          BY <3>2, <5>1, OneElement
      <4>2. pendingFrames' = <<>>
        BY <2>2, <3>2, <4>1 DEF HandleInputBuffer, TypeOK
      <4>3. \A x \in Starts : callback'[x].at = "submitting" =>
              callback'[x] = callback[x] \/ callback'[x].frame = f
        BY <2>0, <2>2, <3>2, ThreadStates DEF HandleInputBuffer
      <4>4. \A g \in InHand' : g = f \/ g \in InHand
        BY <3>1, <4>3 DEF InHand
      <4>5. \A g \in InHand' : g.number <= arrived'
        BY <3>1, <4>1, <4>4 DEF FramesInv, NumbersInv
      <4>6. receiver.at \in {"entered", "checked"} => \A g \in InHand' : g.number < arrived'
        BY <3>1, <4>1, <4>4 DEF FramesInv, PlacingIsNewest
      <4> QED
        BY <3>1, <4>2, <4>5, <4>6 DEF FramesInv, OneQueueEmpty, NumbersInv,
          PlacingIsNewest, WaitingIsNewest
    <3>3. CASE pendingFrames = <<>>
      <4>1. pendingFrames' = <<>>
        BY <2>2, <3>3 DEF HandleInputBuffer
      <4>2. \A x \in Starts : callback'[x].at = "submitting" => callback'[x] = callback[x]
        BY <2>0, <2>2, <3>3, ThreadStates DEF HandleInputBuffer
      <4>3. InHand' \subseteq InHand
        BY <3>1, <4>2 DEF InHand
      <4> QED
        BY <3>1, <4>1, <4>3 DEF FramesInv, OneQueueEmpty, NumbersInv,
          PlacingIsNewest, WaitingIsNewest
    <3> QED
      BY <3>2, <3>3
  <2>3. ASSUME NEW s \in Starts, CallbackSubmit(s)
        PROVE  FramesInv'
    <3>1. callback[s].frame \in InHand
      BY <2>3 DEF CallbackSubmit, InHand
    <3>2. \A x \in Starts : callback'[x].at = "submitting" => callback'[x] = callback[x]
      BY <2>0, <2>3, ThreadStates DEF CallbackSubmit
    <3>3. InHand' \subseteq InHand /\ receiver' = receiver
      BY <2>3, <3>2 DEF CallbackSubmit, InHand
    <3> QED
      BY <2>3, <3>1, <3>3, FramesSubmit DEF CallbackSubmit
  <2>4. CASE OnError
    BY <2>4, FramesUnchanged DEF OnError
  <2> QED
    BY <1>4, <2>1, <2>2, <2>3, <2>4 DEF CodecThread
<1> QED
  BY <1>1, <1>2, <1>3, <1>4 DEF Next

-----------------------------------------------------------------------------
(* The buffers: what the codec handed out is held by someone.              *)

LEMMA ToSetAppend ==
  ASSUME NEW S, NEW s \in Seq(S), NEW x \in S
  PROVE  ToSet(Append(s, x)) = ToSet(s) \cup {x}
<1>1. /\ DOMAIN Append(s, x) = 1 .. Len(s) + 1 /\ DOMAIN s = 1 .. Len(s) /\ Len(s) \in Nat
      /\ \A i \in 1 .. Len(s) : Append(s, x)[i] = s[i]
      /\ Append(s, x)[Len(s) + 1] = x
  OBVIOUS
<1>2. ASSUME NEW y \in ToSet(Append(s, x)) PROVE y \in ToSet(s) \cup {x}
  <2>1. PICK i \in 1 .. Len(s) + 1 : y = Append(s, x)[i]
    BY <1>1, <1>2 DEF ToSet
  <2>2. i = Len(s) + 1 \/ i \in 1 .. Len(s)
    BY <1>1, <2>1
  <2> QED
    BY <1>1, <2>1, <2>2 DEF ToSet
<1>3. ASSUME NEW y \in ToSet(s) \cup {x} PROVE y \in ToSet(Append(s, x))
  <2>1. CASE y = x
    <3>1. Len(s) + 1 \in DOMAIN Append(s, x)
      BY <1>1
    <3> QED
      BY <1>1, <2>1, <3>1 DEF ToSet
  <2>2. CASE y \in ToSet(s)
    <3>1. PICK i \in 1 .. Len(s) : y = s[i]
      BY <1>1, <2>2 DEF ToSet
    <3>2. i \in DOMAIN Append(s, x)
      BY <1>1, <3>1
    <3> QED
      BY <1>1, <3>1, <3>2 DEF ToSet
  <2> QED
    BY <1>3, <2>1, <2>2
<1> QED
  BY <1>2, <1>3

LEMMA ToSetHeadTail ==
  ASSUME NEW S, NEW s \in Seq(S), s # <<>>
  PROVE  ToSet(s) \subseteq ToSet(Tail(s)) \cup {Head(s)}
<1> SUFFICES ASSUME NEW y \in ToSet(s), y # Head(s) PROVE y \in ToSet(Tail(s))
  OBVIOUS
<1>1. Len(s) \in Nat /\ DOMAIN s = 1 .. Len(s) /\ Head(s) = s[1]
  OBVIOUS
<1>2. PICK i \in 1 .. Len(s) : y = s[i]
  BY <1>1 DEF ToSet
<1>3. i # 1 /\ i - 1 \in 1 .. Len(s) - 1
  BY <1>1, <1>2
<1>4. /\ Tail(s) \in Seq(S) /\ Len(Tail(s)) = Len(s) - 1
      /\ \A j \in 1 .. Len(s) - 1 : Tail(s)[j] = s[j + 1]
  BY HeadTailProperties
<1>5. i - 1 \in DOMAIN Tail(s) /\ Tail(s)[i - 1] = s[i]
  BY <1>1, <1>3, <1>4
<1> QED
  BY <1>2, <1>5 DEF ToSet

LEMMA HeldMembers ==
  ASSUME NEW b
  PROVE  b \in Held <=>
           \/ b \in ToSet(freeInputBuffers)
           \/ \E s \in Starts : callback[s] # Idle /\ b = callback[s].buffer
           \/ receiver.at = "submitting" /\ b = receiver.buffer
  BY DEF Held

\* Submitting a buffer to the codec it came from ends its being owned, so the
\* thread may let go of it; a buffer of an earlier codec need not be kept.
LEMMA BuffersSubmit ==
  ASSUME NoBufferLost, NEW by, NEW f, NEW b, SubmitToCodec(by, f, b),
         \A x \in Held : x = b \/ x \in Held', UNCHANGED <<codec, faulted>>
  PROVE  NoBufferLost'
<1> SUFFICES ASSUME ~faulted, NEW index \in owned'
             PROVE  [index |-> index, from |-> codec] \in Held'
  BY DEF NoBufferLost
<1> DEFINE x == [index |-> index, from |-> codec]
<1>1. index \in owned
  BY DEF SubmitToCodec
<1>2. x \in Held
  BY <1>1 DEF NoBufferLost
<1>3. CASE Accepts(b) /\ owned' = owned \ {b.index}
  BY <1>2, <1>3
<1>4. CASE Refuses(b) /\ owned' = owned
  BY <1>1, <1>2, <1>4 DEF Refuses
<1> QED
  BY <1>3, <1>4 DEF SubmitToCodec

LEMMA BuffersKept ==
  ASSUME NoBufferLost, Held \subseteq Held', UNCHANGED <<codec, owned>>, faulted => faulted'
  PROVE  NoBufferLost'
  BY DEF NoBufferLost

LEMMA BuffersStep ==
  ASSUME TypeOK, TypeOK', OwnedInv, OwnedInv', NoBufferLost, [Next]_vars
  PROVE  NoBufferLost'
<1> USE DEF uiVars, codecVars
<1>0. /\ freeInputBuffers \in Seq(InputBuffer) /\ callback \in [Starts -> CallbackType]
      /\ receiver \in ReceiverType
  BY DEF TypeOK
<1>1. CASE UNCHANGED vars
  BY <1>1 DEF vars, NoBufferLost, Held
<1>2. CASE UiThread
  <2>1. CASE StartCodec \/ FailToStart \/ ReleaseCodec
    BY <2>1 DEF StartCodec, FailToStart, ReleaseCodec, NoBufferLost
  <2>2. CASE ClearQueues
    <3>1. owned' = {}
      BY <2>2 DEF ClearQueues, TypeOK, OwnedInv
    <3> QED
      BY <3>1 DEF NoBufferLost
  <2>3. CASE SetConfigured \/ ResetKeyframe \/ SurfaceCreated \/ SurfaceDestroyed
               \/ ClearConfigured
    BY <2>3 DEF SetConfigured, ResetKeyframe, SurfaceCreated, SurfaceDestroyed,
      ClearConfigured, NoBufferLost, Held
  <2> QED
    BY <1>2, <2>1, <2>2, <2>3 DEF UiThread
<1>3. CASE ReceiverThread
  <2>1. ASSUME NEW keyframe \in BOOLEAN, OnFrame(keyframe)
        PROVE  NoBufferLost'
    <3>1. receiver.at # "submitting" /\ UNCHANGED <<freeInputBuffers, callback>>
      BY <2>1, ThreadStates DEF OnFrame
    <3>2. Held \subseteq Held'
      BY <3>1 DEF Held
    <3> QED
      BY <2>1, <3>2, BuffersKept DEF OnFrame
  <2>2. CASE DecodeCheck
    <3>1. receiver.at # "submitting" /\ UNCHANGED <<freeInputBuffers, callback>>
      BY <2>2 DEF DecodeCheck
    <3>2. Held \subseteq Held'
      BY <3>1 DEF Held
    <3> QED
      BY <2>2, <3>2, BuffersKept DEF DecodeCheck
  <2>3. CASE DecodeTakeBuffer
    <3>1. receiver.at # "submitting" /\ UNCHANGED callback
      BY <2>3 DEF DecodeTakeBuffer
    <3>2. CASE freeInputBuffers # <<>>
      <4>1. receiver'.at = "submitting" /\ receiver'.buffer = Head(freeInputBuffers)
        BY <2>3, <3>2, ThreadStates DEF DecodeTakeBuffer
      <4>2. \A b \in ToSet(freeInputBuffers) :
              b \in ToSet(freeInputBuffers') \/ b = Head(freeInputBuffers)
        BY <1>0, <2>3, <3>2, ToSetHeadTail DEF DecodeTakeBuffer
      <4>3. Held \subseteq Held'
        BY <3>1, <4>1, <4>2 DEF Held
      <4> QED
        BY <2>3, <4>3, BuffersKept DEF DecodeTakeBuffer
    <3>3. CASE freeInputBuffers = <<>>
      <4>1. Held \subseteq Held'
        BY <2>3, <3>1, <3>3 DEF DecodeTakeBuffer, Held
      <4> QED
        BY <2>3, <4>1, BuffersKept DEF DecodeTakeBuffer
    <3> QED
      BY <3>2, <3>3
  <2>4. CASE DecodeSubmit
    <3>1. \A x \in Held : x = receiver.buffer \/ x \in Held'
      BY <2>4 DEF DecodeSubmit, Held
    <3> QED
      BY <2>4, <3>1, BuffersSubmit DEF DecodeSubmit
  <2> QED
    BY <1>3, <2>1, <2>2, <2>3, <2>4 DEF ReceiverThread
<1>4. CASE CodecThread
  <2>1. ASSUME NEW index \in Buffers, OnInputBufferAvailable(index)
        PROVE  NoBufferLost'
    <3> DEFINE b == [index |-> index, from |-> codec]
    <3>1. codec \in Starts
      BY <2>1, BoundsAssumption DEF OnInputBufferAvailable, TypeOK, Starts
    <3>2. callback'[codec] = Announced(b) /\ callback[codec] = Idle
      BY <1>0, <2>1, <3>1 DEF OnInputBufferAvailable
    <3>3. \A s \in Starts : callback[s] # Idle => callback'[s] = callback[s]
      BY <1>0, <2>1, <3>2 DEF OnInputBufferAvailable
    <3>4. Held \subseteq Held'
      BY <2>1, <3>3 DEF OnInputBufferAvailable, Held
    <3>5. callback'[codec].buffer = b /\ callback'[codec] # Idle
      BY <3>2, ThreadStates
    <3>6. b \in Held'
      BY <3>1, <3>5 DEF Held
    <3> QED
      BY <2>1, <3>4, <3>6 DEF OnInputBufferAvailable, NoBufferLost
  <2>2. ASSUME NEW s \in Starts, HandleInputBuffer(s)
        PROVE  NoBufferLost'
    <3>1. callback[s].buffer \in InputBuffer /\ UNCHANGED receiver
      BY <1>0, <2>2, CallbackHolds DEF HandleInputBuffer
    <3>2. CASE pendingFrames # <<>>
      <4>1. callback'[s].buffer = callback[s].buffer /\ callback'[s] # Idle
        BY <1>0, <2>2, <3>2, ThreadStates DEF HandleInputBuffer
      <4>2. \A x \in Starts : x # s => callback'[x] = callback[x]
        BY <1>0, <2>2, <3>2 DEF HandleInputBuffer
      <4>3. UNCHANGED freeInputBuffers
        BY <2>2, <3>2 DEF HandleInputBuffer
      <4>4. Held \subseteq Held'
        BY <3>1, <4>1, <4>2, <4>3 DEF Held
      <4> QED
        BY <2>2, <4>4, BuffersKept DEF HandleInputBuffer
    <3>3. CASE pendingFrames = <<>>
      <4>1. ToSet(freeInputBuffers') = ToSet(freeInputBuffers) \cup {callback[s].buffer}
        <5>1. freeInputBuffers' = Append(freeInputBuffers, callback[s].buffer)
          BY <2>2, <3>3 DEF HandleInputBuffer
        <5>2. ToSet(Append(freeInputBuffers, callback[s].buffer))
                = ToSet(freeInputBuffers) \cup {callback[s].buffer}
          BY <1>0, <3>1, ToSetAppend
        <5> QED
          BY <5>1, <5>2
      <4>2. \A x \in Starts : x # s => callback'[x] = callback[x]
        BY <1>0, <2>2, <3>3 DEF HandleInputBuffer
      <4>3. Held \subseteq Held'
        BY <3>1, <4>1, <4>2 DEF Held
      <4> QED
        BY <2>2, <4>3, BuffersKept DEF HandleInputBuffer
    <3> QED
      BY <3>2, <3>3
  <2>3. ASSUME NEW s \in Starts, CallbackSubmit(s)
        PROVE  NoBufferLost'
    <3>1. \A x \in Starts : x # s => callback'[x] = callback[x]
      BY <1>0, <2>3 DEF CallbackSubmit
    <3>2. \A x \in Held : x = callback[s].buffer \/ x \in Held'
      BY <2>3, <3>1 DEF CallbackSubmit, Held
    <3> QED
      BY <2>3, <3>2, BuffersSubmit DEF CallbackSubmit
  <2>4. CASE OnError
    <3>1. Held \subseteq Held'
      BY <2>4 DEF OnError, Held
    <3>2. UNCHANGED <<codec, owned>> /\ ~faulted
      BY <2>4 DEF OnError
    <3> QED
      BY <3>1, <3>2, BuffersKept
  <2> QED
    BY <1>4, <2>1, <2>2, <2>3, <2>4 DEF CodecThread
<1> QED
  BY <1>1, <1>2, <1>3, <1>4 DEF Next

-----------------------------------------------------------------------------
(* The order in which a codec is fed.                                      *)

\* What a thread submits joins the queue at its end, or not at all.
LEMMA QueuedThen ==
  ASSUME TypeOK, OwnedInv, NEW by, NEW f, NEW b, SubmitToCodec(by, f, b)
  PROVE  /\ owned' \subseteq owned
         /\ \/ UNCHANGED <<owned, queued>>
            \/ /\ Accepts(b) /\ b.index \notin owned' /\ codec \in Starts
               /\ Len(queued) \in Nat /\ DOMAIN queued = 1 .. Len(queued)
               /\ DOMAIN queued' = 1 .. Len(queued) + 1
               /\ \A k \in DOMAIN queued : queued'[k] = queued[k]
               /\ queued'[Len(queued) + 1] = [frame |-> f, codec |-> codec, by |-> by]
<1> DEFINE Q == [frame : Frame, codec : Starts, by : 0 .. MaxStarts]
           q == [frame |-> f, codec |-> codec, by |-> by]
<1>1. queued \in Seq(Q)
  BY DEF TypeOK
<1>2. CASE Accepts(b) /\ owned' = owned \ {b.index} /\ queued' = Append(queued, q)
  <2>1. codec \in Starts
    BY <1>2, AcceptsMeansCodec
  <2> HIDE DEF Q, q
  <2>2. /\ Len(queued) \in Nat /\ DOMAIN queued = 1 .. Len(queued)
        /\ DOMAIN queued' = 1 .. Len(queued) + 1
        /\ \A k \in DOMAIN queued : queued'[k] = queued[k]
        /\ queued'[Len(queued) + 1] = q
    BY <1>1, <1>2
  <2> QED
    BY <1>2, <2>1, <2>2 DEF q
<1>3. CASE UNCHANGED <<owned, queued>>
  BY <1>3
<1> QED
  BY <1>2, <1>3 DEF SubmitToCodec

\* Which of the queued frames were fed to this codec in time.
LEMMA QueuedTypes ==
  ASSUME TypeOK
  PROVE  /\ \A k \in DOMAIN queued :
              queued[k].codec \in Starts /\ queued[k].frame.number \in Nat
         /\ Starts \subseteq Nat \ {0} /\ starts \in Nat
         /\ codec # 0 => codec \in Starts /\ codec = starts
<1>1. \A k \in DOMAIN queued : queued[k].codec \in Starts
  <2> DEFINE Q == [frame : Frame, codec : Starts, by : 0 .. MaxStarts]
  <2>1. queued \in Seq(Q)
    BY DEF TypeOK
  <2>2. \A q \in Q : q.codec \in Starts
    OBVIOUS
  <2> HIDE DEF Q
  <2> QED
    BY <2>1, <2>2
<1>2. Starts \subseteq Nat \ {0} /\ starts \in Nat
  BY BoundsAssumption DEF TypeOK, Starts
<1>3. codec # 0 => codec \in Starts /\ codec = starts
  BY BoundsAssumption DEF TypeOK, Starts
<1> QED
  BY <1>1, <1>2, <1>3, NumberTypes

\* Appending a frame that is newer than those its codec was fed in time, or that is out
\* of its time itself, keeps them in order.
LEMMA OrderSubmit ==
  ASSUME TypeOK, OwnedInv, OrderInv, NEW by, NEW f, NEW b, SubmitToCodec(by, f, b),
         UNCHANGED starts,
         Accepts(b) /\ by \in {0, codec} =>
           \A k \in DOMAIN queued :
             queued[k].codec = codec /\ OfThisCodec(queued[k])
               => queued[k].frame.number < f.number
  PROVE  InArrivalOrder' /\ \A k \in DOMAIN queued' : queued'[k].codec <= starts'
<1>1. CASE UNCHANGED <<owned, queued>>
  BY <1>1 DEF OrderInv, InArrivalOrder, OfThisCodec
<1>2. CASE Accepts(b) /\ ~ UNCHANGED <<owned, queued>>
  <2> DEFINE n == Len(queued) + 1
             q == [frame |-> f, codec |-> codec, by |-> by]
  <2>1. /\ codec \in Starts /\ Len(queued) \in Nat /\ DOMAIN queued = 1 .. Len(queued)
        /\ DOMAIN queued' = 1 .. n
        /\ \A k \in DOMAIN queued : queued'[k] = queued[k]
        /\ queued'[n] = q
    BY <1>2, QueuedThen
  <2>2. q.codec = codec /\ q.by = by /\ q.frame = f
    OBVIOUS
  <2> HIDE DEF q
  <2>3. \A k \in DOMAIN queued' : k = n \/ k \in DOMAIN queued
    BY <2>1
  <2>4. codec <= starts
    BY <2>1, QueuedTypes
  <2>5. ASSUME NEW k \in DOMAIN queued'
        PROVE  queued'[k].codec <= starts'
    <3>1. CASE k = n
      BY <2>1, <2>2, <2>4, <3>1
    <3>2. CASE k \in DOMAIN queued
      BY <2>1, <3>2 DEF OrderInv
    <3> QED
      BY <2>3, <3>1, <3>2
  <2>6. ASSUME NEW j \in DOMAIN queued', NEW k \in DOMAIN queued', j < k,
               queued'[j].codec = queued'[k].codec,
               OfThisCodec(queued'[j]), OfThisCodec(queued'[k])
        PROVE  queued'[j].frame.number < queued'[k].frame.number
    <3>1. j \in DOMAIN queued /\ queued'[j] = queued[j]
      BY <2>1, <2>6
    <3>2. CASE k \in DOMAIN queued
      BY <2>1, <2>6, <3>1, <3>2 DEF OrderInv, InArrivalOrder
    <3>3. CASE k = n
      <4>1. by \in {0, codec}
        BY <2>1, <2>2, <2>6, <3>3 DEF OfThisCodec
      <4>2. queued[j].codec = codec /\ OfThisCodec(queued[j])
        BY <2>1, <2>2, <2>6, <3>1, <3>3
      <4> QED
        BY <1>2, <2>1, <2>2, <3>1, <3>3, <4>1, <4>2
    <3> QED
      BY <2>3, <3>2, <3>3
  <2> QED
    BY <2>5, <2>6 DEF InArrivalOrder, OfThisCodec
<1> QED
  BY <1>1, <1>2, QueuedThen

\* A step that leaves alone what the order is about.
LEMMA OrderLeftAlone ==
  ASSUME OrderInv, ReceiverIsNewest', UNCHANGED <<starts, codec, owned, callback, queued>>,
         faulted => faulted'
  PROVE  OrderInv'
<1>1. OwnThread' /\ OnlyBuffer' /\ OwnFrameIsNext'
  BY DEF OrderInv, OwnThread, OnlyBuffer, OwnFrameIsNext, Submits, OfThisCodec
<1> QED
  BY <1>1 DEF OrderInv, InArrivalOrder, OfThisCodec

LEMMA OrderUi ==
  ASSUME TypeOK, TypeOK', OrderInv, UiThread
  PROVE  OrderInv'
<1> USE DEF uiVars, codecVars
<1>1. UNCHANGED <<receiver, callback, arrived, queued>> /\ starts <= starts'
  <2>1. starts \in Nat
    BY QueuedTypes
  <2> QED
    BY <2>1 DEF UiThread, StartCodec, FailToStart, SetConfigured, ResetKeyframe,
      SurfaceCreated, SurfaceDestroyed, ClearConfigured, ReleaseCodec, ClearQueues
<1>2. ReceiverIsNewest'
  <2>1. pendingFrames' = pendingFrames \/ pendingFrames' = <<>>
    BY DEF UiThread, StartCodec, FailToStart, SetConfigured, ResetKeyframe,
      SurfaceCreated, SurfaceDestroyed, ClearConfigured, ReleaseCodec, ClearQueues
  <2> QED
    BY <1>1, <2>1 DEF OrderInv, ReceiverIsNewest
<1>3. CASE StartCodec \/ FailToStart \/ ReleaseCodec
  <2>1. starts \in Nat /\ starts' \in Nat /\ Starts \subseteq Nat /\ starts <= starts'
    BY <1>3, QueuedTypes, BoundsAssumption DEF TypeOK, StartCodec, FailToStart, ReleaseCodec
  <2>2. OwnThread'
    BY <1>1, <2>1 DEF OrderInv, OwnThread
  <2>3. ~Submits'
    <3>1. CASE ReleaseCodec
      BY <3>1 DEF ReleaseCodec, Submits
    <3>2. CASE FailToStart
      BY <3>2 DEF FailToStart, Submits
    <3>3. CASE StartCodec
      <4>1. codec' = starts + 1 /\ codec' \in Starts
        BY <2>1, <3>3, BoundsAssumption DEF StartCodec, Starts
      <4>2. callback[codec'] = Idle
        BY <2>1, <4>1 DEF OrderInv, OwnThread
      <4> QED
        BY <1>1, <4>2, ThreadStates DEF Submits
    <3> QED
      BY <1>3, <3>1, <3>2, <3>3
  <2>4. OnlyBuffer' /\ OwnFrameIsNext'
    BY <2>3 DEF OnlyBuffer, OwnFrameIsNext
  <2>5. \A k \in DOMAIN queued' : queued'[k].codec <= starts'
    <3>1. ASSUME NEW k \in DOMAIN queued PROVE queued[k].codec <= starts'
      <4>1. queued[k].codec \in Nat /\ queued[k].codec <= starts
        BY QueuedTypes DEF OrderInv
      <4> QED
        BY <1>1, <2>1, <4>1
    <3> QED
      BY <1>1, <3>1
  <2>6. InArrivalOrder'
    BY <1>1 DEF OrderInv, InArrivalOrder, OfThisCodec
  <2> QED
    BY <1>2, <2>2, <2>4, <2>5, <2>6 DEF OrderInv
<1>4. CASE \/ SetConfigured \/ ResetKeyframe \/ SurfaceCreated \/ SurfaceDestroyed
           \/ ClearConfigured \/ ClearQueues
  BY <1>2, <1>4, OrderLeftAlone DEF SetConfigured, ResetKeyframe, SurfaceCreated,
    SurfaceDestroyed, ClearConfigured, ClearQueues
<1> QED
  BY <1>3, <1>4 DEF UiThread

LEMMA OrderReceiver ==
  ASSUME TypeOK, TypeOK', OwnedInv, FramesInv, OrderInv, ReceiverThread
  PROVE  OrderInv'
<1> USE DEF uiVars, codecVars
<1>1. ASSUME NEW keyframe \in BOOLEAN, OnFrame(keyframe) PROVE OrderInv'
  <2>1. ReceiverIsNewest'
    BY <1>1, ThreadStates DEF OnFrame, ReceiverIsNewest
  <2> QED
    BY <1>1, <2>1, OrderLeftAlone DEF OnFrame
<1>2. CASE DecodeCheck
  <2>1. ReceiverIsNewest'
    BY <1>2, ThreadStates DEF DecodeCheck, ReceiverIsNewest
  <2> QED
    BY <1>2, <2>1, OrderLeftAlone DEF DecodeCheck
<1>3. CASE DecodeTakeBuffer
  <2>1. receiver.at = "checked" /\ UNCHANGED <<arrived, queued, callback>>
    BY <1>3 DEF DecodeTakeBuffer
  <2>2. ReceiverIsNewest'
    <3>1. CASE freeInputBuffers = <<>>
      BY <1>3, <3>1, ThreadStates DEF DecodeTakeBuffer, ReceiverIsNewest
    <3>2. CASE freeInputBuffers # <<>>
      <4>1. receiver'.frame = receiver.frame /\ pendingFrames' = <<>>
        BY <1>3, <3>2, ThreadStates DEF DecodeTakeBuffer, FramesInv, OneQueueEmpty
      <4>2. \A s \in Starts : callback[s].at = "submitting" => callback[s].frame \in InHand
        BY DEF InHand
      <4> QED
        BY <2>1, <4>1, <4>2 DEF FramesInv, PlacingIsNewest, ReceiverIsNewest
    <3> QED
      BY <3>1, <3>2
  <2> QED
    BY <1>3, <2>2, OrderLeftAlone DEF DecodeTakeBuffer
<1>4. CASE DecodeSubmit
  <2> DEFINE f == receiver.frame
             b == receiver.buffer
  <2>1. /\ receiver.at = "submitting" /\ SubmitToCodec(0, f, b) /\ receiver' = Idle
        /\ UNCHANGED <<starts, codec, faulted, callback>>
    BY <1>4 DEF DecodeSubmit
  <2>2. \A k \in DOMAIN queued : queued[k].frame.number < f.number
    BY <2>1 DEF OrderInv, ReceiverIsNewest
  <2>3. InArrivalOrder' /\ \A k \in DOMAIN queued' : queued'[k].codec <= starts'
    BY <2>1, <2>2, OrderSubmit
  <2>4. ReceiverIsNewest'
    BY <2>1, ThreadStates DEF ReceiverIsNewest
  <2>5. OwnThread'
    BY <2>1 DEF OrderInv, OwnThread
  <2>6. Submits' <=> Submits
    BY <2>1 DEF Submits
  <2>7. OnlyBuffer'
    BY <2>1, <2>6, QueuedThen DEF OrderInv, OnlyBuffer
  <2>8. OwnFrameIsNext'
    <3>1. CASE UNCHANGED <<owned, queued>>
      BY <2>1, <2>6, <3>1 DEF OrderInv, OwnFrameIsNext, OfThisCodec
    <3>2. CASE Accepts(b) /\ b.index \notin owned' /\ owned' \subseteq owned
      BY <2>1, <2>6, <3>2 DEF OrderInv, OnlyBuffer, OwnFrameIsNext, Accepts
    <3> QED
      BY <2>1, <3>1, <3>2, QueuedThen
  <2> QED
    BY <2>3, <2>4, <2>5, <2>7, <2>8 DEF OrderInv
<1> QED
  BY <1>1, <1>2, <1>3, <1>4 DEF ReceiverThread

\* A codec thread that takes the frame that waits holds the codec's only buffer, since no
\* other buffer waits and no other thread has one of this codec.
LEMMA TakesOnlyBuffer ==
  ASSUME FramesInv, OrderInv, NoBufferLost, ~faulted, pendingFrames # <<>>,
         NEW s \in Starts, s = codec, NEW index \in owned
  PROVE  index = callback[s].buffer.index
<1> DEFINE x == [index |-> index, from |-> codec]
<1>1. x \in Held /\ x.from = codec /\ x.index = index
  BY DEF NoBufferLost
<1>2. freeInputBuffers = <<>>
  BY DEF FramesInv, OneQueueEmpty
<1>3. x \notin ToSet(freeInputBuffers)
  BY <1>2 DEF ToSet
<1>4. receiver.at # "submitting"
  BY DEF OrderInv, ReceiverIsNewest
<1> HIDE DEF x
<1>5. PICK t \in Starts : callback[t] # Idle /\ x = callback[t].buffer
  BY <1>1, <1>3, <1>4, HeldMembers
<1>6. t = s
  BY <1>1, <1>5 DEF OrderInv, OwnThread
<1> QED
  BY <1>1, <1>5, <1>6

LEMMA OrderCodec ==
  ASSUME TypeOK, TypeOK', OwnedInv, FramesInv, NoBufferLost, OrderInv, CodecThread
  PROVE  OrderInv'
<1> USE DEF uiVars, codecVars
<1>0. callback \in [Starts -> CallbackType] /\ (codec # 0 => codec \in Starts)
  BY QueuedTypes DEF TypeOK
<1>1. ASSUME NEW index \in Buffers, OnInputBufferAvailable(index) PROVE OrderInv'
  <2> DEFINE b == [index |-> index, from |-> codec]
  <2>1. /\ codec \in Starts /\ codec <= starts /\ callback[codec] = Idle
        /\ callback' = [callback EXCEPT ![codec] = Announced(b)]
        /\ UNCHANGED <<starts, codec, faulted, receiver, arrived, pendingFrames, queued>>
    BY <1>0, <1>1, QueuedTypes DEF OnInputBufferAvailable
  <2>2. Announced(b).at = "announced" /\ Announced(b).buffer.from = codec
    BY ThreadStates
  <2>3. ReceiverIsNewest'
    BY <1>0, <2>1, <2>2 DEF OrderInv, ReceiverIsNewest
  <2>4. OwnThread'
    BY <1>0, <2>1, <2>2 DEF OrderInv, OwnThread
  <2>5. ~Submits'
    BY <1>0, <2>1, <2>2 DEF Submits
  <2>6. InArrivalOrder' /\ \A k \in DOMAIN queued' : queued'[k].codec <= starts'
    BY <2>1 DEF OrderInv, InArrivalOrder, OfThisCodec
  <2> QED
    BY <2>3, <2>4, <2>5, <2>6 DEF OrderInv, OnlyBuffer, OwnFrameIsNext
<1>2. ASSUME NEW s \in Starts, HandleInputBuffer(s) PROVE OrderInv'
  <2>1. /\ UNCHANGED <<starts, codec, owned, faulted, receiver, arrived, queued>>
        /\ callback[s].at = "announced" /\ callback[s] # Idle
    BY <1>2, ThreadStates DEF HandleInputBuffer
  <2>2. InArrivalOrder' /\ \A k \in DOMAIN queued' : queued'[k].codec <= starts'
    BY <2>1 DEF OrderInv, InArrivalOrder, OfThisCodec
  <2>3. CASE pendingFrames # <<>>
    <3> DEFINE f == Head(pendingFrames)
               c == Submitting(f, callback[s].buffer)
    <3>1. callback' = [callback EXCEPT ![s] = c]
      BY <1>2, <2>3 DEF HandleInputBuffer
    <3>2. c.at = "submitting" /\ c.frame = f /\ c.buffer = callback[s].buffer /\ c # Idle
      BY ThreadStates
    <3> HIDE DEF c
    <3>3. ReceiverIsNewest'
      BY <2>1, <2>3 DEF OrderInv, ReceiverIsNewest
    <3>4. OwnThread'
      BY <1>0, <2>1, <3>1, <3>2 DEF OrderInv, OwnThread
    <3>5. CASE codec = s
      <4>1. callback'[codec'] = c
        BY <1>0, <2>1, <3>1, <3>5
      <4>2. OnlyBuffer'
        BY <2>1, <2>3, <3>2, <3>5, <4>1, TakesOnlyBuffer DEF OnlyBuffer, Submits
      <4>3. OwnFrameIsNext'
        BY <2>1, <2>3, <3>2, <4>1 DEF FramesInv, WaitingIsNewest, OwnFrameIsNext
      <4> QED
        BY <2>2, <3>3, <3>4, <4>2, <4>3 DEF OrderInv
    <3>6. CASE codec # s
      <4>1. codec # 0 => callback'[codec'] = callback[codec]
        BY <1>0, <2>1, <3>1, <3>6
      <4>2. OnlyBuffer' /\ OwnFrameIsNext'
        BY <2>1, <4>1 DEF OrderInv, OnlyBuffer, OwnFrameIsNext, Submits, OfThisCodec
      <4> QED
        BY <2>2, <3>3, <3>4, <4>2 DEF OrderInv
    <3> QED
      BY <3>5, <3>6
  <2>4. CASE pendingFrames = <<>>
    <3>1. callback' = [callback EXCEPT ![s] = Idle] /\ UNCHANGED pendingFrames
      BY <1>2, <2>4 DEF HandleInputBuffer
    <3>2. \A x \in Starts : callback'[x] = callback[x] \/ callback'[x] = Idle
      BY <1>0, <3>1
    <3>3. Idle.at = "idle"
      BY ThreadStates
    <3>4. ReceiverIsNewest' /\ OwnThread'
      BY <2>1, <3>1, <3>2, <3>3 DEF OrderInv, ReceiverIsNewest, OwnThread
    <3>5. Submits' => Submits /\ callback'[codec'] = callback[codec]
      BY <1>0, <2>1, <3>2, <3>3 DEF Submits
    <3>6. OnlyBuffer' /\ OwnFrameIsNext'
      BY <2>1, <3>5 DEF OrderInv, OnlyBuffer, OwnFrameIsNext, OfThisCodec
    <3> QED
      BY <2>2, <3>4, <3>6 DEF OrderInv
  <2> QED
    BY <2>3, <2>4
<1>3. ASSUME NEW s \in Starts, CallbackSubmit(s) PROVE OrderInv'
  <2> DEFINE f == callback[s].frame
             b == callback[s].buffer
  <2>1. /\ callback[s].at = "submitting" /\ SubmitToCodec(s, f, b)
        /\ callback' = [callback EXCEPT ![s] = Idle]
        /\ UNCHANGED <<starts, codec, faulted, receiver, arrived, pendingFrames>>
    BY <1>3 DEF CallbackSubmit
  <2>2. s # 0
    BY QueuedTypes
  <2>3. Accepts(b) /\ s \in {0, codec} =>
          \A k \in DOMAIN queued :
            queued[k].codec = codec /\ OfThisCodec(queued[k])
              => queued[k].frame.number < f.number
    BY <2>1, <2>2 DEF Accepts, OrderInv, OwnFrameIsNext, Submits
  <2>4. InArrivalOrder' /\ \A k \in DOMAIN queued' : queued'[k].codec <= starts'
    BY <2>1, <2>3, OrderSubmit
  <2>5. \A x \in Starts : callback'[x] = callback[x] \/ callback'[x] = Idle
    BY <1>0, <2>1
  <2>6. callback'[s] = Idle /\ Idle.at = "idle"
    BY <1>0, <2>1, ThreadStates
  <2>7. OwnThread'
    BY <2>1, <2>5 DEF OrderInv, OwnThread
  <2>8. \A k \in DOMAIN queued' : queued'[k].frame = f
                                    \/ (k \in DOMAIN queued /\ queued'[k] = queued[k])
    <3>1. CASE UNCHANGED <<owned, queued>>
      BY <3>1
    <3>2. CASE ~ UNCHANGED <<owned, queued>>
      <4> DEFINE n == Len(queued) + 1
                 q == [frame |-> f, codec |-> codec, by |-> s]
      <4>1. /\ Len(queued) \in Nat /\ DOMAIN queued = 1 .. Len(queued)
            /\ DOMAIN queued' = 1 .. n
            /\ \A k \in DOMAIN queued : queued'[k] = queued[k]
            /\ queued'[n] = q
        BY <2>1, <3>2, QueuedThen
      <4>2. \A k \in DOMAIN queued' : k = n \/ k \in DOMAIN queued
        BY <4>1
      <4>3. q.frame = f
        OBVIOUS
      <4> HIDE DEF q, n, f
      <4> QED
        BY <4>1, <4>2, <4>3
    <3> QED
      BY <3>1, <3>2
  <2>9. ReceiverIsNewest'
    BY <2>1, <2>5, <2>6, <2>8 DEF OrderInv, ReceiverIsNewest
  <2>10. Submits' => Submits /\ callback'[codec'] = callback[codec] /\ codec # s
    BY <1>0, <2>1, <2>5, <2>6 DEF Submits
  <2>11. OnlyBuffer'
    BY <2>1, <2>10, QueuedThen DEF OrderInv, OnlyBuffer
  <2>12. OwnFrameIsNext'
    <3>1. CASE UNCHANGED <<owned, queued>>
      BY <2>1, <2>10, <3>1 DEF OrderInv, OwnFrameIsNext, OfThisCodec
    <3>2. CASE Accepts(b) /\ b.index \notin owned' /\ owned' \subseteq owned
      BY <2>1, <2>10, <3>2 DEF OrderInv, OnlyBuffer, OwnFrameIsNext, Accepts
    <3> QED
      BY <2>1, <3>1, <3>2, QueuedThen
  <2> QED
    BY <2>4, <2>7, <2>9, <2>11, <2>12 DEF OrderInv
<1>4. CASE OnError
  <2>1. ReceiverIsNewest'
    BY <1>4 DEF OnError, OrderInv, ReceiverIsNewest
  <2> QED
    BY <1>4, <2>1, OrderLeftAlone DEF OnError
<1> QED
  BY <1>1, <1>2, <1>3, <1>4 DEF CodecThread

LEMMA OrderStep ==
  ASSUME TypeOK, TypeOK', OwnedInv, FramesInv, NoBufferLost, OrderInv, [Next]_vars
  PROVE  OrderInv'
<1>1. CASE UNCHANGED vars
  <2>1. ReceiverIsNewest'
    BY <1>1 DEF vars, OrderInv, ReceiverIsNewest
  <2> QED
    BY <1>1, <2>1, OrderLeftAlone DEF vars
<1> QED
  BY <1>1, OrderUi, OrderReceiver, OrderCodec DEF Next

-----------------------------------------------------------------------------
(* A frame is in one place, and a thread is late once.                     *)

\* What a sequence of queued frames holds.
LEMMA QueuedMembers ==
  ASSUME NEW qs \in Seq([frame : Frame, codec : Starts, by : 0 .. MaxStarts]),
         NEW k \in DOMAIN qs
  PROVE  /\ qs[k].frame \in Frame /\ qs[k].codec \in Starts
         /\ ~OfThisCodec(qs[k]) => qs[k].by \in Starts
<1> DEFINE Q == [frame : Frame, codec : Starts, by : 0 .. MaxStarts]
<1>1. \A q \in Q : q.frame \in Frame /\ q.codec \in Starts /\ q.by \in 0 .. MaxStarts
  OBVIOUS
<1> HIDE DEF Q
<1>2. qs \in Seq(Q)
  BY DEF Q
<1>3. qs[k] \in Q
  BY <1>2
<1>4. ~OfThisCodec(qs[k]) => qs[k].by # 0
  BY DEF OfThisCodec
<1> QED
  BY <1>1, <1>3, <1>4, BoundsAssumption DEF Starts

\* What of a queued frame tells its thread.
LEMMA LateIsAThread ==
  ASSUME TypeOK, NEW k \in DOMAIN queued, ~OfThisCodec(queued[k])
  PROVE  queued[k].by \in Starts
<1>1. queued \in Seq([frame : Frame, codec : Starts, by : 0 .. MaxStarts])
  BY DEF TypeOK
<1> QED
  BY <1>1, QueuedMembers

\* A step that submits nothing, after which no thread submits that did not before.
LEMMA FeedLeftAlone ==
  ASSUME TypeOK, OrderInv, FeedInv, UNCHANGED queued,
         \A s \in Starts : callback'[s] = callback[s] \/ callback'[s].at # "submitting",
         \A s \in Starts : s < starts /\ callback[s] = Idle => callback'[s] = Idle
  PROVE  FeedInv'
<1>1. OnePlace'
  <2>1. \A s \in Starts : callback'[s].at = "submitting" => callback'[s] = callback[s]
    OBVIOUS
  <2> QED
    BY <2>1 DEF FeedInv, OnePlace
<1>2. LateOnce'
  <2>1. ASSUME NEW k \in DOMAIN queued, ~OfThisCodec(queued[k])
        PROVE  queued[k].by < queued[k].codec /\ callback'[queued[k].by] = Idle
    <3>1. queued[k].by \in Starts /\ queued[k].by < queued[k].codec
          /\ callback[queued[k].by] = Idle
      BY <2>1, LateIsAThread DEF FeedInv, LateOnce
    <3>2. queued[k].codec <= starts /\ queued[k].codec \in Nat /\ queued[k].by \in Nat
          /\ starts \in Nat
      BY <3>1, QueuedTypes DEF OrderInv
    <3>3. queued[k].by < starts
      BY <3>1, <3>2
    <3> QED
      BY <3>1, <3>3
  <2> QED
    BY <2>1 DEF FeedInv, LateOnce, OfThisCodec
<1> QED
  BY <1>1, <1>2 DEF FeedInv

\* Submitting a frame that nothing else has; a thread that is late becomes idle by it.
LEMMA FeedSubmit ==
  ASSUME TypeOK, OwnedInv, OrderInv, FeedInv,
         NEW by \in 0 .. MaxStarts, NEW f \in Frame, NEW b, SubmitToCodec(by, f, b),
         \A k \in DOMAIN queued : queued[k].frame.number # f.number,
         \A s \in Starts : callback'[s] = callback[s] \/ callback'[s] = Idle,
         \A s \in Starts : callback'[s].at = "submitting" => callback'[s].frame.number # f.number,
         by \in Starts => by <= starts /\ callback[by] # Idle /\ callback'[by] = Idle
  PROVE  FeedInv'
<1>0. Idle.at # "submitting"
  BY ThreadStates
<1>1. CASE UNCHANGED <<owned, queued>>
  <2>1. \A s \in Starts : callback'[s] = callback[s] \/ callback'[s].at # "submitting"
    BY <1>0
  <2>2. \A s \in Starts : callback[s] = Idle => callback'[s] = Idle
    OBVIOUS
  <2> QED
    BY <1>1, <2>1, <2>2, FeedLeftAlone
<1>2. CASE Accepts(b) /\ ~ UNCHANGED <<owned, queued>>
  <2> DEFINE n == Len(queued) + 1
             q == [frame |-> f, codec |-> codec, by |-> by]
  <2>1. /\ codec \in Starts /\ Len(queued) \in Nat /\ DOMAIN queued = 1 .. Len(queued)
        /\ DOMAIN queued' = 1 .. n
        /\ \A k \in DOMAIN queued : queued'[k] = queued[k]
        /\ queued'[n] = q
    BY <1>2, QueuedThen
  <2>2. q.codec = codec /\ q.by = by /\ q.frame = f
    OBVIOUS
  <2> HIDE DEF q
  <2>3. \A k \in DOMAIN queued' : k = n \/ k \in DOMAIN queued
    BY <2>1
  <2>4. n \notin DOMAIN queued
    BY <2>1
  <2> HIDE DEF n
  <2>5. OnePlace'
    <3>1. \A j, k \in DOMAIN queued' : j # k => queued'[j].frame.number # queued'[k].frame.number
      BY <2>1, <2>2, <2>3 DEF FeedInv, OnePlace
    <3>2. \A s \in Starts : callback'[s].at = "submitting" => callback'[s] = callback[s]
      BY <1>0
    <3>3. \A s \in Starts : callback'[s].at = "submitting" =>
            \A k \in DOMAIN queued' : queued'[k].frame.number # callback'[s].frame.number
      BY <2>1, <2>2, <2>3, <3>2 DEF FeedInv, OnePlace
    <3>4. \A s \in Starts : callback'[s].at = "submitting" =>
            \A x \in Starts \ {s} : callback'[x].at = "submitting" =>
              callback'[x].frame.number # callback'[s].frame.number
      BY <3>2 DEF FeedInv, OnePlace
    <3> QED
      BY <3>1, <3>3, <3>4 DEF OnePlace
  <2>6. ~OfThisCodec(q) => by \in Starts /\ by < codec /\ callback'[by] = Idle
    <3>1. ASSUME ~OfThisCodec(q) PROVE by \in Starts
      BY <2>2, <3>1, BoundsAssumption DEF OfThisCodec, Starts
    <3>2. codec = starts /\ starts \in Nat /\ by \in Nat
      BY <2>1, QueuedTypes, BoundsAssumption
    <3> QED
      BY <2>2, <3>1, <3>2 DEF OfThisCodec
  <2>7. ASSUME NEW k \in DOMAIN queued, ~OfThisCodec(queued[k])
        PROVE  /\ queued[k].by < queued[k].codec /\ callback[queued[k].by] = Idle
               /\ queued[k].by \in Starts /\ callback'[queued[k].by] = Idle
    BY <2>7, LateIsAThread DEF FeedInv, LateOnce
  <2>8. LateOnce'
    <3>1. \A k \in DOMAIN queued' : ~OfThisCodec(queued'[k]) =>
            queued'[k].by < queued'[k].codec /\ callback'[queued'[k].by] = Idle
      BY <2>1, <2>2, <2>3, <2>6, <2>7
    <3>2. ASSUME NEW k \in DOMAIN queued, ~OfThisCodec(queued[k]), ~OfThisCodec(q)
          PROVE  queued[k].by # by
      BY <2>6, <2>7, <3>2
    <3>3. \A j, k \in DOMAIN queued' :
            j # k /\ ~OfThisCodec(queued'[j]) /\ ~OfThisCodec(queued'[k]) =>
              queued'[j].by # queued'[k].by
      BY <2>1, <2>2, <2>3, <3>2 DEF FeedInv, LateOnce
    <3> QED
      BY <3>1, <3>3 DEF LateOnce, OfThisCodec
  <2> QED
    BY <2>5, <2>8 DEF FeedInv
<1> QED
  BY <1>1, <1>2, QueuedThen

LEMMA FeedStep ==
  ASSUME TypeOK, TypeOK', OwnedInv, FramesInv, OrderInv, FeedInv, [Next]_vars
  PROVE  FeedInv'
<1> USE DEF uiVars, codecVars
<1>0. callback \in [Starts -> CallbackType] /\ Idle.at = "idle"
  BY ThreadStates DEF TypeOK
<1>1. CASE UNCHANGED <<queued, callback>>
  BY <1>1, FeedLeftAlone
<1>2. CASE DecodeSubmit
  <2>1. /\ receiver.at = "submitting" /\ SubmitToCodec(0, receiver.frame, receiver.buffer)
        /\ UNCHANGED callback
    BY <1>2 DEF DecodeSubmit
  <2>2. receiver.frame \in Frame /\ 0 \in 0 .. MaxStarts /\ 0 \notin Starts
    BY <2>1, ReceiverHolds, BoundsAssumption DEF TypeOK, Starts
  <2>3. /\ receiver.frame.number = arrived /\ arrived \in Int
        /\ \A k \in DOMAIN queued : queued[k].frame.number < arrived
        /\ \A s \in Starts : callback[s].at = "submitting" => callback[s].frame.number < arrived
    BY <2>1 DEF OrderInv, ReceiverIsNewest, TypeOK
  <2>4. \A k \in DOMAIN queued : queued[k].frame.number # receiver.frame.number
    BY <2>3
  <2>5. \A s \in Starts : callback'[s].at = "submitting" =>
          callback'[s].frame.number # receiver.frame.number
    BY <2>1, <2>3
  <2> QED
    BY <2>1, <2>2, <2>4, <2>5, FeedSubmit
<1>3. ASSUME NEW index \in Buffers, OnInputBufferAvailable(index) PROVE FeedInv'
  <2> DEFINE b == [index |-> index, from |-> codec]
  <2>1. /\ codec \in Starts /\ codec = starts /\ starts \in Nat /\ UNCHANGED queued
        /\ callback' = [callback EXCEPT ![codec] = Announced(b)]
    BY <1>3, QueuedTypes DEF OnInputBufferAvailable
  <2>2. Announced(b).at = "announced"
    BY ThreadStates
  <2>3. \A s \in Starts : callback'[s] = callback[s] \/ callback'[s].at # "submitting"
    BY <1>0, <2>1, <2>2
  <2>4. \A s \in Starts : s < starts => callback'[s] = callback[s]
    <3>1. \A s \in Starts : s < starts => s # codec
      BY <2>1, QueuedTypes
    <3> QED
      BY <1>0, <2>1, <3>1
  <2> QED
    BY <2>1, <2>3, <2>4, FeedLeftAlone
<1>4. ASSUME NEW s \in Starts, HandleInputBuffer(s) PROVE FeedInv'
  <2>1. /\ UNCHANGED queued
        /\ callback[s].at = "announced" /\ callback[s] # Idle
    BY <1>4, <1>0 DEF HandleInputBuffer
  <2>2. CASE pendingFrames = <<>>
    <3>1. callback' = [callback EXCEPT ![s] = Idle]
      BY <1>4, <2>2 DEF HandleInputBuffer
    <3>2. \A x \in Starts : callback'[x] = callback[x] \/ callback'[x] = Idle
      BY <1>0, <3>1
    <3>3. \A x \in Starts : callback'[x] = callback[x] \/ callback'[x].at # "submitting"
      BY <1>0, <3>2
    <3>4. \A x \in Starts : callback[x] = Idle => callback'[x] = Idle
      BY <3>2
    <3> QED
      BY <2>1, <3>3, <3>4, FeedLeftAlone
  <2>3. CASE pendingFrames # <<>>
    <3> DEFINE f == Head(pendingFrames)
               c == Submitting(f, callback[s].buffer)
    <3>1. callback' = [callback EXCEPT ![s] = c]
      BY <1>4, <2>3 DEF HandleInputBuffer
    <3>2. c.at = "submitting" /\ c.frame = f /\ c # Idle
      BY ThreadStates
    <3> HIDE DEF c
    <3>3. /\ callback'[s] = c
          /\ \A x \in Starts \ {s} : callback'[x] = callback[x]
      BY <1>0, <3>1
    <3>4. \A k \in DOMAIN queued : queued[k].frame.number # f.number
      <4>1. \A k \in DOMAIN queued : queued[k].frame.number < f.number
        BY <2>3 DEF FramesInv, WaitingIsNewest
      <4>2. \A k \in DOMAIN queued : queued[k].frame.number \in Nat
        BY QueuedTypes
      <4> QED
        BY <4>1, <4>2
    <3>5. \A x \in Starts : callback[x].at = "submitting" => callback[x].frame.number # f.number
      <4>1. \A x \in Starts : callback[x].at = "submitting" =>
              callback[x].frame \in InHand /\ callback[x].frame \in Frame
        BY <1>0, CallbackHolds DEF InHand
      <4>2. \A g \in InHand : g.number < f.number
        BY <2>3 DEF FramesInv, WaitingIsNewest
      <4> QED
        BY <4>1, <4>2, FrameFacts
    <3> HIDE DEF f
    <3>6. OnePlace'
      BY <2>1, <3>2, <3>3, <3>4, <3>5 DEF FeedInv, OnePlace
    <3>7. LateOnce'
      <4>1. \A k \in DOMAIN queued : ~OfThisCodec(queued[k]) =>
              queued[k].by \in Starts \ {s} /\ callback[queued[k].by] = Idle
        BY <2>1, LateIsAThread DEF FeedInv, LateOnce
      <4>2. \A k \in DOMAIN queued : ~OfThisCodec(queued[k]) => callback'[queued[k].by] = Idle
        BY <3>3, <4>1
      <4> QED
        BY <2>1, <4>2 DEF FeedInv, LateOnce, OfThisCodec
    <3> QED
      BY <3>6, <3>7 DEF FeedInv
  <2> QED
    BY <2>2, <2>3
<1>5. ASSUME NEW s \in Starts, CallbackSubmit(s) PROVE FeedInv'
  <2> DEFINE f == callback[s].frame
             b == callback[s].buffer
  <2>1. /\ callback[s].at = "submitting" /\ SubmitToCodec(s, f, b)
        /\ callback' = [callback EXCEPT ![s] = Idle]
    BY <1>5 DEF CallbackSubmit
  <2>2. f \in Frame /\ s \in 0 .. MaxStarts /\ callback[s] # Idle
    BY <1>0, <2>1, CallbackHolds, BoundsAssumption DEF Starts
  <2>3. \A k \in DOMAIN queued : queued[k].frame.number # f.number
    BY <2>1 DEF FeedInv, OnePlace
  <2>4. /\ callback'[s] = Idle
        /\ \A x \in Starts \ {s} : callback'[x] = callback[x]
    BY <1>0, <2>1
  <2>5. \A x \in Starts : callback'[x].at = "submitting" => callback'[x].frame.number # f.number
    BY <1>0, <2>1, <2>4 DEF FeedInv, OnePlace
  <2>6. s <= starts
    BY <2>2 DEF OrderInv, OwnThread
  <2> HIDE DEF f, b
  <2> QED
    BY <2>1, <2>2, <2>3, <2>4, <2>5, <2>6, FeedSubmit
<1>6. CASE UNCHANGED vars
  BY <1>1, <1>6 DEF vars
<1>7. CASE UiThread
  <2>1. UNCHANGED <<queued, callback>>
    BY <1>7 DEF UiThread, StartCodec, FailToStart, SetConfigured, ResetKeyframe, SurfaceCreated,
      SurfaceDestroyed, ClearConfigured, ReleaseCodec, ClearQueues
  <2> QED
    BY <1>1, <2>1
<1>8. CASE ReceiverThread
  <2>1. (\E keyframe \in BOOLEAN : OnFrame(keyframe)) \/ DecodeCheck \/ DecodeTakeBuffer
          => UNCHANGED <<queued, callback>>
    BY DEF OnFrame, DecodeCheck, DecodeTakeBuffer
  <2> QED
    BY <1>1, <1>2, <1>8, <2>1 DEF ReceiverThread
<1>9. CASE CodecThread
  <2>1. OnError => UNCHANGED <<queued, callback>>
    BY DEF OnError
  <2> QED
    BY <1>1, <1>3, <1>4, <1>5, <1>9, <2>1 DEF CodecThread
<1> QED
  BY <1>6, <1>7, <1>8, <1>9 DEF Next

-----------------------------------------------------------------------------
(* The theorems.                                                           *)

LEMMA InvInit == Init => IInv
<1> SUFFICES ASSUME Init PROVE IInv
  OBVIOUS
<1>1. TypeOK /\ OwnedInv
  BY TypeInit
<1>2. InHand = {} /\ receiver.at = "idle"
  BY ThreadStates DEF Init, InHand
<1>3. DOMAIN queued = {} /\ DOMAIN pendingFrames = {} /\ Len(pendingFrames) = 0
  BY DEF Init
<1>4. OneQueueEmpty /\ NumbersInv /\ PlacingIsNewest /\ WaitingIsNewest
  BY <1>2, <1>3 DEF Init, OneQueueEmpty, NumbersInv, PlacingIsNewest, WaitingIsNewest
<1>5. NoBufferLost
  BY DEF Init, NoBufferLost
<1>6. OrderInv
  <2>1. \A s \in Starts : callback[s] = Idle /\ callback[s].at = "idle"
    BY ThreadStates DEF Init
  <2> QED
    BY <1>2, <1>3, <2>1 DEF Init, OrderInv, ReceiverIsNewest, OwnThread, OnlyBuffer,
      OwnFrameIsNext, Submits, InArrivalOrder
<1>7. FeedInv
  <2>1. \A s \in Starts : callback[s].at # "submitting"
    BY ThreadStates DEF Init
  <2> QED
    BY <1>3, <2>1 DEF FeedInv, OnePlace, LateOnce
<1> QED
  BY <1>1, <1>4, <1>5, <1>6, <1>7 DEF IInv

LEMMA InvStep == IInv /\ [Next]_vars => IInv'
<1> SUFFICES ASSUME IInv, [Next]_vars PROVE IInv'
  OBVIOUS
<1>1. TypeOK /\ OwnedInv /\ NoBufferLost /\ FramesInv /\ OrderInv /\ FeedInv
  BY DEF IInv, FramesInv
<1>2. TypeOK' /\ OwnedInv'
  BY <1>1, TypeStep
<1>3. FramesInv'
  BY <1>1, <1>2, FramesStep
<1>4. NoBufferLost'
  BY <1>1, <1>2, BuffersStep
<1>5. OrderInv'
  BY <1>1, <1>2, OrderStep
<1>6. FeedInv'
  BY <1>1, <1>2, FeedStep
<1> QED
  BY <1>2, <1>3, <1>4, <1>5, <1>6 DEF IInv, FramesInv

\* The inductive invariant holds throughout.
THEOREM Invariance == Spec => []IInv
  BY InvInit, InvStep, PTL DEF Spec

\* Whatever the interleaving of the UI, receiver and codec threads, the decoder's
\* fields keep their types, and the codec field is set exactly while one runs.
THEOREM TypeCorrect == Spec => []TypeOK
<1>1. IInv => TypeOK
  BY DEF IInv
<1> QED
  BY <1>1, Invariance, PTL

\* VideoDecoder.java: only one of pendingFrames and freeInputBuffers is ever
\* non-empty, and no backlog builds up.
THEOREM OneQueueOnly == Spec => []OneQueueEmpty
<1>1. IInv => OneQueueEmpty
  BY DEF IInv
<1> QED
  BY <1>1, Invariance, PTL

\* Frames reach a codec in the order they arrived, although the receiver and the codec
\* thread take them under the lock and submit them after releasing it.
THEOREM FedInOrder == Spec => []InArrivalOrder
<1>1. IInv => InArrivalOrder
  BY DEF IInv, OrderInv
<1> QED
  BY <1>1, Invariance, PTL

\* Of the frames of which the decoder must give one up, it keeps the newest.
THEOREM NewestWaits == Spec => []WaitingIsNewest
<1>1. IInv => WaitingIsNewest
  BY DEF IInv
<1> QED
  BY <1>1, Invariance, PTL

\* No input buffer is forgotten, whatever stop interrupts.
THEOREM BuffersAccountedFor == Spec => []NoBufferLost
<1>1. IInv => NoBufferLost
  BY DEF IInv
<1> QED
  BY <1>1, Invariance, PTL

-----------------------------------------------------------------------------
(* The decoder implements DecoderFeed.                                     *)

\* What DecoderFeed sees of one frame that was queued.
Fed(q) == [number |-> q.frame.number, start |-> q.codec,
           by |-> IF OfThisCodec(q) THEN 0 ELSE q.by]

QueuedType == [frame : Frame, codec : Starts, by : 0 .. MaxStarts]

FedType == {Fed(q) : q \in QueuedType}

\* A sequence that is another with one element more.
LEMMA AppendIs ==
  ASSUME NEW S, NEW s \in Seq(S), NEW t \in Seq(S), NEW x \in S,
         Len(t) = Len(s) + 1, t[Len(s) + 1] = x,
         \A k \in 1 .. Len(s) : t[k] = s[k]
  PROVE  t = Append(s, x)
<1>1. Len(s) \in Nat
  OBVIOUS
<1>2. /\ Append(s, x) \in Seq(S) /\ Len(Append(s, x)) = Len(s) + 1
      /\ \A k \in 1 .. Len(s) : Append(s, x)[k] = s[k]
      /\ Append(s, x)[Len(s) + 1] = x
  BY AppendProperties
<1>3. \A k \in 1 .. Len(s) + 1 : Append(s, x)[k] = t[k]
  BY <1>1, <1>2
<1> QED
  BY <1>2, <1>3, SeqEqual

\* The frames fed are the frames queued, as DecoderFeed sees them.
LEMMA FedIsASeq ==
  ASSUME NEW qs \in Seq(QueuedType)
  PROVE  /\ Len(qs) \in Nat /\ DOMAIN qs = 1 .. Len(qs)
         /\ [k \in DOMAIN qs |-> Fed(qs[k])] \in Seq(FedType)
         /\ Len([k \in DOMAIN qs |-> Fed(qs[k])]) = Len(qs)
<1>1. Len(qs) \in Nat /\ DOMAIN qs = 1 .. Len(qs) /\ \A k \in DOMAIN qs : qs[k] \in QueuedType
  OBVIOUS
<1>2. \A k \in 1 .. Len(qs) : Fed(qs[k]) \in FedType
  BY <1>1 DEF FedType
<1> QED
  BY <1>1, <1>2

\* What the codec takes is fed, in turn or by a thread that is late for the first time.
LEMMA SubmitIsFeed ==
  ASSUME IInv, IInv', NEW by, NEW f, NEW b, SubmitToCodec(by, f, b),
         UNCHANGED <<starts, arrived>>
  PROVE  Feed!Next \/ UNCHANGED FedFrames
<1>0. TypeOK /\ TypeOK' /\ OwnedInv
  BY DEF IInv
<1>1. CASE UNCHANGED queued
  BY <1>1 DEF FedFrames, OfThisCodec
<1>2. CASE ~UNCHANGED queued
  <2> DEFINE n == Len(queued)
             q == [frame |-> f, codec |-> codec, by |-> by]
  <2>1. /\ codec \in Starts /\ n \in Nat /\ DOMAIN queued = 1 .. n
        /\ DOMAIN queued' = 1 .. n + 1
        /\ \A k \in DOMAIN queued : queued'[k] = queued[k]
        /\ queued'[n + 1] = q
    BY <1>0, <1>2, QueuedThen
  <2>2. q.codec = codec /\ q.by = by /\ q.frame = f /\ codec = starts /\ starts \in Nat /\ starts > 0
    BY <1>0, <2>1, QueuedTypes
  <2> HIDE DEF q
  <2>3. /\ Len(FedFrames) = n /\ DOMAIN FedFrames = 1 .. n /\ FedFrames \in Seq(FedType)
        /\ \A k \in 1 .. n : FedFrames[k] = Fed(queued[k])
    <3>1. queued \in Seq(QueuedType)
      BY <1>0 DEF TypeOK, QueuedType
    <3>2. FedFrames = [k \in DOMAIN queued |-> Fed(queued[k])]
      BY DEF FedFrames, Fed
    <3> QED
      BY <2>1, <3>1, <3>2, FedIsASeq
  <2>4. FedFrames' = Append(FedFrames, Fed(q))
    <3>1. queued' \in Seq(QueuedType) /\ Len(queued') = n + 1
      <4>1. queued' \in Seq(QueuedType)
        BY <1>0 DEF TypeOK, QueuedType
      <4> HIDE DEF n
      <4>2. Len(queued') \in Nat /\ DOMAIN queued' = 1 .. Len(queued')
        BY <4>1, FedIsASeq
      <4>3. 1 .. Len(queued') = 1 .. n + 1
        BY <2>1, <4>2
      <4>4. Len(queued') = n + 1
        BY <2>1, <4>2, <4>3
      <4> QED
        BY <4>1, <4>4
    <3>2. FedFrames' = [k \in DOMAIN queued' |-> Fed(queued'[k])]
      BY DEF FedFrames, Fed, OfThisCodec
    <3>3. FedFrames' \in Seq(FedType) /\ Len(FedFrames') = n + 1
      BY <3>1, <3>2, FedIsASeq
    <3>4. FedFrames'[n + 1] = Fed(q) /\ \A k \in 1 .. n : FedFrames'[k] = FedFrames[k]
      BY <2>1, <2>3, <3>2
    <3>5. Fed(q) \in FedType
      <4>1. queued'[n + 1] \in QueuedType
        BY <2>1, <3>1, ElementOfSeq
      <4> QED
        BY <2>1, <4>1 DEF FedType
    <3> HIDE DEF n
    <3> QED
      BY <2>3, <3>3, <3>4, <3>5, AppendIs
  <2>5. n + 1 \in DOMAIN queued' /\ \A k \in 1 .. n : k \in DOMAIN queued' /\ k < n + 1
    BY <2>1
  <2>6. /\ Fed(q).number = f.number /\ Fed(q).start = starts
        /\ Fed(q).by = IF OfThisCodec(q) THEN 0 ELSE by
    BY <2>2 DEF Fed
  <2>7. \A k \in 1 .. n :
          /\ FedFrames[k].number = queued'[k].frame.number
          /\ FedFrames[k].start = queued'[k].codec
          /\ FedFrames[k].by = IF OfThisCodec(queued'[k]) THEN 0 ELSE queued'[k].by
    BY <2>1, <2>3 DEF Fed
  <2>8. f.number \in 1 .. arrived
    <3>1. queued'[n + 1].frame.number <= arrived
      BY <2>5 DEF IInv, NumbersInv
    <3>3. queued'[n + 1].frame.number \in 1 .. MaxFrames
      <4>1. queued' \in Seq([frame : Frame, codec : Starts, by : 0 .. MaxStarts])
        BY <1>0 DEF TypeOK
      <4>2. queued'[n + 1].frame \in Frame
        BY <2>5, <4>1, QueuedMembers
      <4> QED
        BY <4>2, FrameFacts
    <3>2. arrived \in Int
      BY <1>0 DEF TypeOK
    <3> QED
      BY <2>1, <2>2, <3>1, <3>2, <3>3, BoundsAssumption
  <2>9. \A k \in DOMAIN FedFrames : FedFrames[k].number # f.number
    <3>1. \A j, k \in DOMAIN queued' :
            j # k => queued'[j].frame.number # queued'[k].frame.number
      BY DEF IInv, FeedInv, OnePlace
    <3>2. \A k \in 1 .. n : k # n + 1
      BY <2>1
    <3>3. \A k \in 1 .. n : queued'[k].frame.number # f.number
      BY <2>1, <2>2, <2>5, <3>1, <3>2
    <3> QED
      BY <2>3, <2>7, <3>3
  <2>10. CASE OfThisCodec(q)
    <3>1. Feed!Give(f.number, 0)
      BY <2>4, <2>6, <2>9, <2>10 DEF Feed!Give, Fed
    <3>2. \A k \in 1 .. n : FedFrames[k].by = 0 => OfThisCodec(queued'[k])
      BY <2>7 DEF OfThisCodec
    <3>3. \A k \in 1 .. n : FedFrames[k].start = starts /\ FedFrames[k].by = 0 =>
            FedFrames[k].number < f.number
      <4>1. ASSUME NEW k \in 1 .. n, FedFrames[k].start = starts, FedFrames[k].by = 0
            PROVE  queued'[k].frame.number < queued'[n + 1].frame.number
        <5>1. queued'[k].codec = queued'[n + 1].codec /\ OfThisCodec(queued'[k])
              /\ OfThisCodec(queued'[n + 1])
          BY <2>1, <2>2, <2>7, <2>10, <3>2, <4>1
        <5>2. InArrivalOrder'
          BY DEF IInv, OrderInv
        <5> QED
          BY <2>5, <5>1, <5>2 DEF InArrivalOrder, OfThisCodec
      <4> QED
        BY <2>1, <2>2, <2>7, <4>1
    <3>4. Feed!FeedInTurn(f.number)
      BY <2>3, <3>1, <3>3 DEF Feed!FeedInTurn, Feed!InTurn
    <3> QED
      BY <2>2, <2>8, <3>4 DEF Feed!Next
  <2>11. CASE ~OfThisCodec(q)
    <3>1. Feed!Give(f.number, by)
      BY <2>4, <2>6, <2>9, <2>11 DEF Feed!Give, Fed
    <3>2. LateOnce'
      BY DEF IInv, FeedInv
    <3>3. by \in Starts /\ by < codec
      <4>1. queued'[n + 1].by \in Starts
        <5>1. queued' \in Seq([frame : Frame, codec : Starts, by : 0 .. MaxStarts])
          BY <1>0 DEF TypeOK
        <5> QED
          BY <2>1, <2>5, <2>11, <5>1, QueuedMembers
      <4>2. queued'[n + 1].by < queued'[n + 1].codec
        BY <2>1, <2>5, <2>11, <3>2 DEF LateOnce, OfThisCodec
      <4> QED
        BY <2>1, <2>2, <4>1, <4>2
    <3>4. \A k \in 1 .. n : FedFrames[k].by # by
      <4>1. ASSUME NEW k \in 1 .. n, FedFrames[k].by = by PROVE FALSE
        <5>1. by # 0
          BY <2>2, <2>11 DEF OfThisCodec
        <5>2. ~OfThisCodec(queued'[k]) /\ queued'[k].by = by
          BY <2>7, <4>1, <5>1
        <5>3. k # n + 1 /\ ~OfThisCodec(queued'[n + 1]) /\ queued'[n + 1].by = by
          BY <2>1, <2>2, <2>11
        <5> QED
          BY <2>5, <3>2, <5>2, <5>3 DEF LateOnce, OfThisCodec
      <4> QED
        BY <4>1
    <3>5. Feed!FeedLate(f.number, by)
      BY <2>3, <3>1, <3>4 DEF Feed!FeedLate
    <3>6. by \in 1 .. starts - 1
      BY <2>2, <3>3 DEF Starts
    <3> QED
      BY <2>8, <3>5, <3>6 DEF Feed!Next
  <2> QED
    BY <2>10, <2>11
<1> QED
  BY <1>1, <1>2

LEMMA FeedRefinementStep ==
  IInv /\ IInv' /\ [Next]_vars => [Feed!Next]_(Feed!feedVars)
<1> SUFFICES ASSUME IInv, IInv', [Next]_vars
             PROVE  Feed!Next \/ UNCHANGED <<starts, arrived, FedFrames>>
  BY DEF Feed!feedVars
<1> USE DEF uiVars, codecVars
<1>1. ASSUME UNCHANGED queued PROVE UNCHANGED FedFrames
  BY <1>1 DEF FedFrames, OfThisCodec
<1>2. CASE UNCHANGED vars
  BY <1>1, <1>2 DEF vars
<1>3. CASE UiThread
  <2>1. UNCHANGED <<arrived, queued>> /\ (starts' = starts + 1 \/ UNCHANGED starts)
    BY <1>3 DEF UiThread, StartCodec, FailToStart, SetConfigured, ResetKeyframe, SurfaceCreated,
      SurfaceDestroyed, ClearConfigured, ReleaseCodec, ClearQueues
  <2> QED
    BY <1>1, <2>1 DEF Feed!Next, Feed!Start
<1>4. CASE ReceiverThread
  <2>1. CASE \E keyframe \in BOOLEAN : OnFrame(keyframe)
    <3>1. arrived' = arrived + 1 /\ UNCHANGED <<starts, queued>>
      BY <2>1 DEF OnFrame
    <3> QED
      BY <1>1, <3>1 DEF Feed!Next, Feed!Arrive
  <2>2. CASE DecodeCheck \/ DecodeTakeBuffer
    BY <1>1, <2>2 DEF DecodeCheck, DecodeTakeBuffer
  <2>3. CASE DecodeSubmit
    <3>1. SubmitToCodec(0, receiver.frame, receiver.buffer) /\ UNCHANGED <<starts, arrived>>
      BY <2>3 DEF DecodeSubmit
    <3> QED
      BY <3>1, SubmitIsFeed
  <2> QED
    BY <1>4, <2>1, <2>2, <2>3 DEF ReceiverThread
<1>5. CASE CodecThread
  <2>1. ASSUME NEW s \in Starts, CallbackSubmit(s)
        PROVE  Feed!Next \/ UNCHANGED <<starts, arrived, FedFrames>>
    <3>1. SubmitToCodec(s, callback[s].frame, callback[s].buffer) /\ UNCHANGED <<starts, arrived>>
      BY <2>1 DEF CallbackSubmit
    <3> QED
      BY <3>1, SubmitIsFeed
  <2>2. ASSUME NEW s \in Starts, HandleInputBuffer(s)
        PROVE  UNCHANGED <<starts, arrived, FedFrames>>
    BY <1>1, <2>2 DEF HandleInputBuffer
  <2>3. ASSUME NEW index \in Buffers, OnInputBufferAvailable(index)
        PROVE  UNCHANGED <<starts, arrived, FedFrames>>
    BY <1>1, <2>3 DEF OnInputBufferAvailable
  <2>4. CASE OnError
    BY <1>1, <2>4 DEF OnError
  <2> QED
    BY <1>5, <2>1, <2>2, <2>3, <2>4 DEF CodecThread
<1> QED
  BY <1>2, <1>3, <1>4, <1>5 DEF Next

\* Three threads that hand frames and buffers to one another under a lock, and submit
\* them after releasing it, feed every codec in order and each frame at most once; the
\* threads that stop does not wait for put in at most one frame each out of turn.
THEOREM DecoderImplementsFeed == Spec => ImplementsFeed
<1>1. Init => Feed!Init
  <2> SUFFICES ASSUME Init PROVE Feed!Init
    OBVIOUS
  <2>1. FedFrames = <<>>
    BY DEF Init, FedFrames
  <2> QED
    BY <2>1 DEF Init, Feed!Init
<1> QED
  BY <1>1, FeedRefinementStep, Invariance, PTL DEF Spec, ImplementsFeed, Feed!Spec
-----------------------------------------------------------------------------
(* The path from the host to the codec.                                    *)

\* A frame shown has an index.
LEMMA ShownIndex ==
  ASSUME NEW s \in Seq(ShownFrame), NEW k \in DOMAIN s
  PROVE  s[k].index \in Nat
<1>1. \A x \in ShownFrame : x.index \in Nat
  BY DEF ShownFrame
<1>2. s[k] \in ShownFrame
  OBVIOUS
<1> QED
  BY <1>1, <1>2

\* The frames shown, and one more behind them.
LEMMA AppendShown ==
  ASSUME NEW s \in Seq(ShownFrame), NEW x \in ShownFrame, NEW P,
         \A j, k \in DOMAIN s : j < k => s[j].index < s[k].index,
         s = <<>> \/ s[Len(s)].index < x.index
  PROVE  /\ Append(s, x) \in Seq(ShownFrame) /\ Len(Append(s, x)) = Len(s) + 1
         /\ \A j, k \in DOMAIN Append(s, x) :
              j < k => Append(s, x)[j].index < Append(s, x)[k].index
         /\ (\A k \in DOMAIN s : s[k].frame \in P) /\ x.frame \in P =>
              \A k \in DOMAIN Append(s, x) : Append(s, x)[k].frame \in P
<1> DEFINE t == Append(s, x)
<1>1. /\ t \in Seq(ShownFrame) /\ Len(t) = Len(s) + 1 /\ Len(s) \in Nat
      /\ \A k \in 1 .. Len(s) : t[k] = s[k]
      /\ t[Len(s) + 1] = x
  BY AppendProperties
<1>2. DOMAIN s = 1 .. Len(s) /\ DOMAIN t = 1 .. Len(s) + 1
  BY <1>1
<1>3. \A k \in DOMAIN s : s[k].index \in Nat
  BY ShownIndex
<1>4. x.index \in Nat
  BY DEF ShownFrame
<1> HIDE DEF t
<1>5. ASSUME NEW j \in DOMAIN t, NEW k \in DOMAIN t, j < k
      PROVE  t[j].index < t[k].index
  <2>1. CASE k = Len(s) + 1
    <3>1. j \in 1 .. Len(s) /\ Len(s) \in 1 .. Len(s)
      BY <1>1, <1>2, <1>5, <2>1
    <3>2. s # <<>>
      BY <3>1
    <3>3. j = Len(s) \/ s[j].index < s[Len(s)].index
      BY <1>1, <1>2, <3>1
    <3>4. s[Len(s)].index < x.index /\ s[j].index \in Nat /\ s[Len(s)].index \in Nat
      BY <1>2, <1>3, <3>1, <3>2
    <3>5. s[j].index < x.index
      BY <1>4, <3>3, <3>4
    <3> QED
      BY <1>1, <2>1, <3>1, <3>5
  <2>2. CASE k # Len(s) + 1
    <3>1. j \in 1 .. Len(s) /\ k \in 1 .. Len(s)
      BY <1>1, <1>2, <1>5, <2>2
    <3>2. t[j] = s[j] /\ t[k] = s[k] /\ s[j].index < s[k].index
      BY <1>1, <1>2, <1>5, <3>1
    <3> QED
      BY <3>2
  <2> QED
    BY <2>1, <2>2
<1>6. ASSUME \A k \in DOMAIN s : s[k].frame \in P, x.frame \in P, NEW k \in DOMAIN t
      PROVE  t[k].frame \in P
  <2>1. CASE k = Len(s) + 1
    BY <1>1, <1>6, <2>1
  <2>2. CASE k # Len(s) + 1
    <3>1. k \in 1 .. Len(s)
      BY <1>1, <1>2, <2>2
    <3> QED
      BY <1>1, <1>2, <1>6, <3>1
  <2> QED
    BY <2>1, <2>2
<1> QED
  BY <1>1, <1>5, <1>6 DEF t

\* Showing a frame, of the host or spliced.
LEMMA ShowStep ==
  ASSUME ShownInv, NEW i \in Nat, NEW f \in HostFrames \cup {Spliced}, Delivery!Show(Eye, i, f),
         run = 1 => f \in produced[Eye]
  PROVE  ShownInv' /\ Len(shown'[Eye]) = Len(shown[Eye]) + 1
<1> DEFINE s == shown[Eye]
           x == [index |-> i, frame |-> f]
<1>1. s \in Seq(ShownFrame) /\ x \in ShownFrame
  BY DEF ShownInv, ShownFrame
<1>2. s = <<>> \/ s[Len(s)].index < x.index
  <2>1. i > (IF shown[Eye] = <<>> THEN -1 ELSE shown[Eye][Len(shown[Eye])].index)
    BY DEF Delivery!Show, Delivery!LastShown
  <2> QED
    BY <2>1
<1>3. shown' = [shown EXCEPT ![Eye] = Append(s, x)] /\ UNCHANGED <<run, produced>>
  BY DEF Delivery!Show
<1>4. shown'[Eye] = Append(s, x)
  BY <1>3 DEF ShownInv
<1>5. \A j, k \in DOMAIN s : j < k => s[j].index < s[k].index
  BY DEF ShownInv
<1>6. run = 1 => (\A k \in DOMAIN s : s[k].frame \in produced[Eye]) /\ x.frame \in produced[Eye]
  BY DEF ShownInv
<1> HIDE DEF s, x
<1>7. /\ Append(s, x) \in Seq(ShownFrame) /\ Len(Append(s, x)) = Len(s) + 1
      /\ \A j, k \in DOMAIN Append(s, x) :
           j < k => Append(s, x)[j].index < Append(s, x)[k].index
      /\ run = 1 => \A k \in DOMAIN Append(s, x) : Append(s, x)[k].frame \in produced[Eye]
  BY <1>1, <1>2, <1>5, <1>6, AppendShown
<1>8. shown' \in [{Eye} -> Seq(ShownFrame)]
  BY <1>3, <1>7 DEF ShownInv
<1>9. Len(shown'[Eye]) = Len(shown[Eye]) + 1
  BY <1>4, <1>7 DEF s
<1> QED
  BY <1>3, <1>4, <1>7, <1>8, <1>9 DEF ShownInv

\* A step of the delivery shows nothing or one frame.
LEMMA ShownStep ==
  ASSUME HostCounts, ShownInv, Delivery!Next
  PROVE  /\ ShownInv'
         /\ shown' # shown => Len(shown'[Eye]) = Len(shown[Eye]) + 1
<1>1. ASSUME NEW e \in {Eye}, NEW f \in HostFrames, Delivery!Produce(e, f)
      PROVE  ShownInv' /\ shown' = shown
  <2>1. produced' = [produced EXCEPT ![Eye] = @ \cup {f}] /\ UNCHANGED <<run, shown>>
    BY <1>1 DEF Delivery!Produce
  <2>2. produced' \in [{Eye} -> SUBSET HostFrames] /\ produced[Eye] \subseteq produced'[Eye]
    BY <2>1 DEF ShownInv
  <2> QED
    BY <2>1, <2>2 DEF ShownInv
<1>2. ASSUME NEW e \in {Eye}, NEW f \in produced[e],
             Delivery!Show(e, f.index, f) \/ (run > 1 /\ Delivery!Show(e, f.index, Spliced))
      PROVE  ShownInv' /\ Len(shown'[Eye]) = Len(shown[Eye]) + 1
  <2>1. e = Eye /\ f \in HostFrames /\ f.index \in Nat
    BY DEF ShownInv, HostCounts
  <2>2. CASE Delivery!Show(e, f.index, f)
    BY <2>1, <2>2, ShowStep
  <2>3. CASE run > 1 /\ Delivery!Show(e, f.index, Spliced)
    BY <2>1, <2>3, ShowStep DEF ShownInv
  <2> QED
    BY <1>2, <2>2, <2>3
<1>3. CASE Delivery!Restart
  <2>1. run' = run + 1 /\ UNCHANGED <<produced, shown>>
    BY <1>3 DEF Delivery!Restart
  <2> QED
    BY <2>1 DEF ShownInv
<1> QED
  BY <1>1, <1>2, <1>3 DEF Delivery!Next

\* The decoder counts the frames as the assembler shows them.
LEMMA PathStep ==
  ASSUME HostCounts, ShownInv, ArrivedInv, [PathNext]_pathVars
  PROVE  [Next]_vars /\ ShownInv' /\ ArrivedInv'
<1>1. CASE CompleteFrame
  <2>1. arrived' = arrived + 1 /\ Next
    BY <1>1 DEF CompleteFrame, OnFrame, Next, ReceiverThread
  <2> QED
    BY <1>1, <2>1, ShownStep DEF CompleteFrame, ArrivedInv
<1>2. CASE HostGoesOn
  BY <1>2, ShownStep DEF HostGoesOn, ArrivedInv, vars
<1>3. CASE DecoderGoesOn
  <2>1. UNCHANGED arrived
    BY <1>3 DEF DecoderGoesOn, UiThread, StartCodec, FailToStart, SetConfigured, ResetKeyframe,
      SurfaceCreated, SurfaceDestroyed, ClearConfigured, ReleaseCodec, ClearQueues, DecodeCheck,
      DecodeTakeBuffer, DecodeSubmit, CodecThread, OnInputBufferAvailable, HandleInputBuffer,
      CallbackSubmit, OnError
  <2>2. Next
    BY <1>3 DEF DecoderGoesOn, Next, ReceiverThread
  <2> QED
    BY <1>3, <2>1, <2>2 DEF DecoderGoesOn, deliveryVars, ShownInv, ArrivedInv
<1>4. CASE UNCHANGED pathVars
  BY <1>4 DEF pathVars, deliveryVars, vars, ShownInv, ArrivedInv
<1> QED
  BY <1>1, <1>2, <1>3, <1>4 DEF PathNext

\* What the decoder knows of its frames by their numbers holds of the host's by their indices.
LEMMA NumbersAreIndices ==
  ASSUME IInv, ShownInv, ArrivedInv
  PROVE  PathDelivers
<1>1. \A k \in DOMAIN queued : queued[k].frame.number \in DOMAIN shown[Eye]
  <2> TAKE k \in DOMAIN queued
  <2>1. queued \in Seq([frame : Frame, codec : Starts, by : 0 .. MaxStarts])
    BY DEF IInv, TypeOK
  <2>2. queued[k].frame \in Frame
    BY <2>1, QueuedMembers
  <2>3. queued[k].frame.number \in Nat /\ queued[k].frame.number >= 1
    BY <2>2, BoundsAssumption DEF Frame
  <2>4. queued[k].frame.number <= arrived
    BY DEF IInv, NumbersInv
  <2>5. shown[Eye] \in Seq(ShownFrame)
    BY DEF ShownInv
  <2> QED
    BY <2>3, <2>4, <2>5 DEF ArrivedInv
<1>2. \A m, n \in DOMAIN shown[Eye] : m < n => shown[Eye][m].index < shown[Eye][n].index
  BY DEF ShownInv
<1>3. HostOrder
  BY <1>1, <1>2 DEF HostOrder, FedShown, IInv, OrderInv, InArrivalOrder
<1>4. IndexFedOnce
  <2> SUFFICES ASSUME NEW j \in DOMAIN queued, NEW k \in DOMAIN queued, j # k
               PROVE  FedShown(j).index # FedShown(k).index
    BY DEF IndexFedOnce
  <2> DEFINE m == queued[j].frame.number
             n == queued[k].frame.number
  <2>1. m \in DOMAIN shown[Eye] /\ n \in DOMAIN shown[Eye]
    BY <1>1
  <2>2. m # n
    BY DEF IInv, FeedInv, OnePlace
  <2>3. shown[Eye] \in Seq(ShownFrame)
    BY DEF ShownInv
  <2> HIDE DEF m, n
  <2>4. m < n \/ n < m
    BY <2>1, <2>2, <2>3
  <2>5. shown[Eye][m].index \in Nat /\ shown[Eye][n].index \in Nat
    BY <2>1, <2>3, ShownIndex
  <2>6. shown[Eye][m].index # shown[Eye][n].index
    BY <1>2, <2>1, <2>4, <2>5
  <2> QED
    BY <2>6 DEF FedShown, m, n
<1>5. FedIsProduced
  BY <1>1 DEF FedIsProduced, FedShown, ShownInv
<1> QED
  BY <1>3, <1>4, <1>5 DEF PathDelivers

\* From the host to the codec: over a link that loses, repeats and reorders, a host that
\* is started again and three threads around a codec that is started again, the codec gets
\* frames of the host, in the host's order but for late threads, and no index twice.
THEOREM HostFramesReachTheCodec ==
  ASSUME HostCounts
  PROVE  PathSpec => []PathDelivers
<1>1. PathInit => IInv /\ ShownInv /\ ArrivedInv
  <2> SUFFICES ASSUME PathInit PROVE IInv /\ ShownInv /\ ArrivedInv
    OBVIOUS
  <2>1. shown[Eye] = <<>> /\ shown \in [{Eye} -> Seq(ShownFrame)] /\ run = 1
        /\ produced \in [{Eye} -> SUBSET HostFrames]
    BY DEF PathInit, Delivery!Init
  <2>2. IInv /\ arrived = 0
    BY InvInit DEF PathInit, Init
  <2>3. ShownInv
    BY <2>1 DEF ShownInv
  <2> QED
    BY <2>1, <2>2, <2>3 DEF ArrivedInv
<1>2. IInv /\ ShownInv /\ ArrivedInv /\ [PathNext]_pathVars => (IInv /\ ShownInv /\ ArrivedInv)'
  BY PathStep, InvStep
<1>3. IInv /\ ShownInv /\ ArrivedInv => PathDelivers
  BY NumbersAreIndices
<1> QED
  BY <1>1, <1>2, <1>3, PTL DEF PathSpec
=============================================================================
