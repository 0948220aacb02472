--------------------------- MODULE StreamReceiver ---------------------------
(***************************************************************************)
(* The video path from the host's sink to the client's decoders.           *)
(*                                                                         *)
(* Host: UdpFrameSink::OnEncodedFrame cuts an encoded frame into fragments *)
(* and hands each to sendto once (framework/src/UdpFrameSink.cpp).         *)
(* Link: UDP.  A fragment may be lost, repeated, or overtaken by any other;*)
(* `sent' never shrinks and any fragment of a sent frame may arrive at any *)
(* time, any number of times, or never.                                    *)
(* Client: StreamReceiver.handleFragment reassembles one frame per eye at  *)
(* a time and calls onFrame (client/android/shared/.../StreamReceiver.java)*)
(*                                                                         *)
(* `delivered', `newest' and `heard' are history variables: what onFrame   *)
(* was given, and the newest frame any fragment of which has arrived.      *)
(***************************************************************************)
EXTENDS Integers, Sequences, FiniteSets

CONSTANTS
  Eyes,           \* the eyes, one assembler each
  Sizes,          \* bytes an encoded frame may have, 0 and oversize included
  PayloadBytes,   \* net::kFragmentPayloadBytes
  MaxFrameBytes,  \* kMaxFrameBytes
  MaxIndex,       \* bound: a run of the host produces frames 0..MaxIndex
  MaxRuns,        \* bound: how often the host is started
  NoFrame,        \* an unwritten slot of a buffer; no frame yet
  Spliced         \* a delivery that is no frame of the host

ASSUME SizesAssumption == Sizes \subseteq Nat
ASSUME PayloadAssumption == PayloadBytes \in Nat \ {0}
\* The cast of the fragment count to uint16_t loses nothing: 4 MiB in 1200-byte
\* fragments are 3496.
ASSUME FrameBytesAssumption ==
  MaxFrameBytes \in Nat /\ MaxFrameBytes <= 65535 * PayloadBytes
ASSUME BoundsAssumption == MaxIndex \in Nat /\ MaxRuns \in Nat \ {0}

VARIABLES
  run,          \* which start of the host is running
  nextIndex,    \* for each eye, the frame index the encoder counts next
  sent,         \* for each eye, the frames the sink has sent
  asm,          \* for each eye, the client's Assembler
  canRequest,   \* KEYFRAME_REQUEST_INTERVAL_MS has passed since the last request
  framesMissing, \* stats.framesMissing
  delivered, newest, heard

hostVars == <<run, nextIndex, sent>>
historyVars == <<delivered, newest, heard>>
vars == <<run, nextIndex, sent, asm, canRequest, framesMissing, delivered, newest, heard>>

-----------------------------------------------------------------------------
(* The frames and their fragments.                                         *)

\* The uint16_t fragment count of a frame of `size' bytes.
FragmentCount(size) == ((size + PayloadBytes - 1) \div PayloadBytes) % 65536

Sendable == {s \in Sizes : s # 0 /\ s <= MaxFrameBytes}

Frame == [run : 1 .. MaxRuns, index : 0 .. MaxIndex, size : Sendable]

Fragments(f) == 0 .. FragmentCount(f.size) - 1

IsFinalFragment(f, i) == i + 1 = FragmentCount(f.size)

\* Where fragment i goes in the frame, and how many bytes it carries.
Offset(i) == i * PayloadBytes

PayloadOf(f, i) ==
  IF f.size - Offset(i) < PayloadBytes THEN f.size - Offset(i) ELSE PayloadBytes

\* The places of the buffer.  The code grows the array to the longest frame seen;
\* what growing throws away is never part of a delivery.
Slots == UNION {0 .. FragmentCount(s) - 1 : s \in Sendable}

ASSUME NoFrameAssumption == NoFrame \notin Frame /\ Spliced \notin Frame

-----------------------------------------------------------------------------
(* The host.                                                               *)

\* Fault: the sink accepts a frame of any size.
OnEncodedFrameUnbounded(e, size) ==
  /\ nextIndex[e] <= MaxIndex
  /\ nextIndex' = [nextIndex EXCEPT ![e] = @ + 1]
  /\ sent' = [sent EXCEPT ![e] =
                @ \cup {[run |-> run, index |-> nextIndex[e], size |-> size]}]
  /\ UNCHANGED <<run, asm, canRequest, framesMissing, historyVars>>

\* One frame out of the encoder of one eye.  The sink sends every fragment, or
\* nothing when the frame is empty or absurdly large; a failed sendto is not
\* retried, which is a fragment that never arrives.
OnEncodedFrame(e, size) ==
  /\ nextIndex[e] <= MaxIndex
  /\ nextIndex' = [nextIndex EXCEPT ![e] = @ + 1]
  /\ sent' = IF size \in Sendable
             THEN [sent EXCEPT ![e] =
                     @ \cup {[run |-> run, index |-> nextIndex[e], size |-> size]}]
             ELSE sent
  /\ UNCHANGED <<run, asm, canRequest, framesMissing, historyVars>>

\* The host program is started again and counts frames from zero.
RestartHost ==
  /\ run < MaxRuns
  /\ run' = run + 1
  /\ nextIndex' = [e \in Eyes |-> 0]
  /\ UNCHANGED <<sent, asm, canRequest, framesMissing, historyVars>>

-----------------------------------------------------------------------------
(* The client's assembler.                                                 *)

EmptyAssembler ==
  [currentFrame |-> -1, lastDelivered |-> -1,
   buffer |-> [s \in Slots |-> NoFrame], received |-> {},
   fragmentCount |-> 0, haveCount |-> 0, finalSize |-> 0, header |-> NoFrame]

\* Fault: only a change of index starts a frame.
StartsFrameByIndex(a, f) == f.index # a.currentFrame

\* The fragment does not continue the frame being assembled.
StartsFrame(a, f) == f.index # a.currentFrame \/ a.fragmentCount = 0

\* Fault: a frame short of one fragment is taken for complete.
AbandonsOffByOne(a, f) ==
  StartsFrame(a, f) /\ a.fragmentCount > 0 /\ a.haveCount + 1 < a.fragmentCount

\* A frame is being assembled and will never complete.
Abandons(a, f) ==
  StartsFrame(a, f) /\ a.fragmentCount > 0 /\ a.haveCount < a.fragmentCount

\* The assembler once it is set to the frame of the arriving fragment.  `header'
\* stands for keyframe, captureTimeUs and renderPoseSequence, which are the
\* first fragment's.  The bytes of earlier frames stay in the buffer.
Begin(a, f) ==
  IF StartsFrame(a, f)
  THEN [a EXCEPT !.currentFrame = f.index,
                 !.fragmentCount = FragmentCount(f.size),
                 !.haveCount = 0, !.finalSize = 0, !.received = {}, !.header = f]
  ELSE a

\* The fragment copied to its place.
Store(a, f, i) ==
  [a EXCEPT !.buffer[i] = f,
            !.received = @ \cup {i},
            !.haveCount = @ + 1,
            !.finalSize = IF IsFinalFragment(f, i) THEN Offset(i) + PayloadOf(f, i) ELSE @]

\* Fault: a frame is complete as soon as its length is known.
IsCompleteAtFinal(a) == a.finalSize > 0

IsComplete(a) == a.haveCount = a.fragmentCount /\ a.finalSize > 0

\* The assembler after onFrame returned.
Finish(a, f) ==
  [a EXCEPT !.lastDelivered = f.index, !.currentFrame = f.index + 1,
            !.fragmentCount = 0, !.haveCount = 0, !.finalSize = 0]

\* What onFrame is given: the first finalSize bytes of the buffer, as the frame
\* each slot came from, under the metadata of the assembler.
OnFrame(a, f) ==
  [index |-> f.index, header |-> a.header, size |-> a.finalSize,
   data |-> [s \in 0 .. FragmentCount(a.finalSize) - 1 |-> a.buffer[s]]]

\* Fault: the frame just delivered is counted as missing.
GapOffByOne(a, f) ==
  IF a.lastDelivered >= 0 /\ f.index > a.lastDelivered + 1
  THEN f.index - a.lastDelivered
  ELSE 0

\* The frames between the last one delivered and this one.
Gap(a, f) ==
  IF a.lastDelivered >= 0 /\ f.index > a.lastDelivered + 1
  THEN f.index - a.lastDelivered - 1
  ELSE 0

\* requestKeyframe: a request goes out (whether or not it arrives) unless one of
\* either eye went out within the interval.  The host is known, since this is one
\* of its packets.
RequestKeyframe(asked) == canRequest' = (canRequest /\ ~asked)

\* The newest frame heard of, and which of its fragments have arrived since it
\* became the newest.
Newer(f, g) == g = NoFrame \/ f.run > g.run \/ (f.run = g.run /\ f.index > g.index)

Hear(e, f, i) ==
  /\ newest' = [newest EXCEPT ![e] = IF Newer(f, @) THEN f ELSE @]
  /\ heard' = [heard EXCEPT ![e] =
                 IF Newer(f, newest[e]) THEN {i}
                 ELSE IF f = newest[e] THEN @ \cup {i} ELSE @]

\* Late: the frame was finished or abandoned, its moment has passed.
IgnoreLate(e, f, i) ==
  /\ f.index < asm[e].currentFrame
  /\ Hear(e, f, i)
  /\ UNCHANGED <<hostVars, asm, canRequest, framesMissing, delivered>>

\* A fragment beyond the frame's count, or one that is already here.
IgnoreRepeated(e, f, i) ==
  LET b == Begin(asm[e], f) IN
  /\ f.index >= asm[e].currentFrame
  /\ i >= b.fragmentCount \/ i \in b.received
  /\ asm' = [asm EXCEPT ![e] = b]
  /\ RequestKeyframe(Abandons(asm[e], f))
  /\ Hear(e, f, i)
  /\ UNCHANGED <<hostVars, framesMissing, delivered>>

\* A fragment the frame needs, when others are still missing.
StoreFragment(e, f, i) ==
  LET b == Begin(asm[e], f)
      c == Store(b, f, i) IN
  /\ f.index >= asm[e].currentFrame
  /\ i < b.fragmentCount /\ i \notin b.received
  /\ ~IsComplete(c)
  /\ asm' = [asm EXCEPT ![e] = c]
  /\ RequestKeyframe(Abandons(asm[e], f))
  /\ Hear(e, f, i)
  /\ UNCHANGED <<hostVars, framesMissing, delivered>>

\* The last fragment missing: the frame goes to the decoder.
CompleteFrame(e, f, i) ==
  LET b == Begin(asm[e], f)
      c == Store(b, f, i) IN
  /\ f.index >= asm[e].currentFrame
  /\ i < b.fragmentCount /\ i \notin b.received
  /\ IsComplete(c)
  /\ asm' = [asm EXCEPT ![e] = Finish(c, f)]
  /\ framesMissing' = framesMissing + Gap(c, f)
  /\ delivered' = [delivered EXCEPT ![e] = Append(@, OnFrame(c, f))]
  /\ RequestKeyframe(Abandons(asm[e], f))
  /\ Hear(e, f, i)
  /\ UNCHANGED hostVars

HandleFragment(e, f, i) ==
  \/ IgnoreLate(e, f, i)
  \/ IgnoreRepeated(e, f, i)
  \/ StoreFragment(e, f, i)
  \/ CompleteFrame(e, f, i)

\* 150 ms pass without a request.
RequestIntervalElapses ==
  /\ ~canRequest
  /\ canRequest' = TRUE
  /\ UNCHANGED <<hostVars, asm, framesMissing, historyVars>>

-----------------------------------------------------------------------------
Init ==
  /\ run = 1
  /\ nextIndex = [e \in Eyes |-> 0]
  /\ sent = [e \in Eyes |-> {}]
  /\ asm = [e \in Eyes |-> EmptyAssembler]
  /\ canRequest = TRUE
  /\ framesMissing = 0
  /\ delivered = [e \in Eyes |-> <<>>]
  /\ newest = [e \in Eyes |-> NoFrame]
  /\ heard = [e \in Eyes |-> {}]

Next ==
  \/ \E e \in Eyes, size \in Sizes : OnEncodedFrame(e, size)
  \/ RestartHost
  \/ \E e \in Eyes : \E f \in sent[e] : \E i \in Fragments(f) : HandleFragment(e, f, i)
  \/ RequestIntervalElapses

Spec == Init /\ [][Next]_vars

-----------------------------------------------------------------------------
(* Properties.                                                             *)

Source == Frame \cup {NoFrame}

AssemblerType ==
  [currentFrame : Int, lastDelivered : Int, buffer : [Slots -> Source],
   received : SUBSET Slots, fragmentCount : Nat, haveCount : Nat,
   finalSize : Sendable \cup {0}, header : Source]

DeliveryType ==
  [index : 0 .. MaxIndex, header : Source, size : Sendable,
   data : UNION {[0 .. FragmentCount(s) - 1 -> Source] : s \in Sendable}]

\* Every variable keeps its type; handleFragment never indexes outside the
\* arrays it allocated for the frame.
TypeOK ==
  /\ run \in 1 .. MaxRuns
  /\ nextIndex \in [Eyes -> 0 .. MaxIndex + 1]
  /\ sent \in [Eyes -> SUBSET Frame]
  /\ asm \in [Eyes -> AssemblerType]
  /\ canRequest \in BOOLEAN
  /\ framesMissing \in Nat
  /\ delivered \in [Eyes -> Seq(DeliveryType)]
  /\ newest \in [Eyes -> Source]
  /\ heard \in [Eyes -> SUBSET Slots]

\* A delivery is one frame of the host: its size, and all its bytes.
Whole(d) ==
  /\ d.header \in Frame
  /\ d.index = d.header.index
  /\ d.size = d.header.size
  /\ d.data = [s \in Fragments(d.header) |-> d.header]

\* As long as the host has not been restarted, whatever was lost, repeated or
\* reordered, every frame handed to onFrame is a frame the sink sent, whole:
\* no byte of another frame or of the buffer's past is in it.
FramesWhole(e) ==
  \A k \in DOMAIN delivered[e] :
    Whole(delivered[e][k]) /\ delivered[e][k].header \in sent[e]

WholeFrames == run = 1 => \A e \in Eyes : FramesWhole(e)

\* Each eye's decoder gets frames in strictly increasing index order, so none
\* twice, restarts of the host included.
InOrder ==
  \A e \in Eyes : \A j, k \in DOMAIN delivered[e] :
    j < k => delivered[e][j].index < delivered[e][k].index

\* The frame was handed to onFrame.
IsDelivered(e, f) == \E k \in DOMAIN delivered[e] : delivered[e][k].header = f

\* A frame whose fragments all arrive while no newer frame has begun is
\* delivered: the reset after a completed frame (the `fragmentCount == 0' half of
\* the condition) does not discard every other frame.
HeardFramesDelivered(e) ==
  newest[e] # NoFrame /\ heard[e] = Fragments(newest[e]) => IsDelivered(e, newest[e])

NothingDiscarded == run = 1 => \A e \in Eyes : HeardFramesDelivered(e)

\* The same with restarts: a client that finds the host again shows its frames.
\* The discovery code takes care to survive a restart of the host.
RestartedHostIsShown == \A e \in Eyes : HeardFramesDelivered(e)

\* Frame i of eye e was skipped: an older and a newer one were delivered.
IsMissing(e, i) ==
  /\ \E j, k \in DOMAIN delivered[e] : delivered[e][j].index < i /\ i < delivered[e][k].index
  /\ \A k \in DOMAIN delivered[e] : delivered[e][k].index # i

MissingFrames == {x \in Eyes \X (0 .. MaxIndex) : IsMissing(x[1], x[2])}

\* stats.framesMissing counts exactly the gaps in what was delivered, both eyes
\* together; it is the counter that shows a receiver dropping whole frames.
MissingCounted == framesMissing = Cardinality(MissingFrames)

\* When an assembler gives up a frame it had begun, a keyframe request went out
\* less than KEYFRAME_REQUEST_INTERVAL_MS ago.
GivesUp(e) ==
  /\ asm[e].haveCount \in 1 .. asm[e].fragmentCount - 1
  /\ asm[e].currentFrame # asm[e]'.currentFrame
  /\ asm[e].currentFrame # asm[e]'.lastDelivered

AbandonedIsAskedFor == [][\A e \in Eyes : GivesUp(e) => ~canRequest']_vars

\* What the decoders are shown, for FrameDelivery.
ShownFrames ==
  [e \in Eyes |-> [k \in DOMAIN delivered[e] |->
    [index |-> delivered[e][k].index,
     frame |-> IF Whole(delivered[e][k]) THEN delivered[e][k].header ELSE Spliced]]]

Delivery == INSTANCE FrameDelivery
              WITH Frames <- Frame, produced <- sent, shown <- ShownFrames

\* Fragmenting, the link and the assembler together implement whole frames
\* delivered in order, at most once.
ImplementsDelivery == Delivery!Spec

\* The same of one eye alone, which is the link that VideoPath puts before a decoder.
OneEye(e) == INSTANCE FrameDelivery
               WITH Eyes <- {e}, Frames <- Frame, produced <- [x \in {e} |-> sent[x]],
                    shown <- [x \in {e} |-> ShownFrames[x]]

EachEyeImplementsDelivery == \A e \in Eyes : OneEye(e)!Spec

-----------------------------------------------------------------------------
(* The inductive invariant behind WholeFrames, InOrder and NothingDiscarded. *)

\* A run's frames carry different indices, all below the next one.
SentInv ==
  \A e \in Eyes :
    /\ \A f \in sent[e] : f.run <= run /\ (f.run = run => f.index < nextIndex[e])
    /\ \A f, g \in sent[e] : f.run = g.run /\ f.index = g.index => f = g

\* haveCount counts the fragments marked received, and the frame in progress is
\* newer than anything delivered.
CountInv(a) ==
  /\ a.lastDelivered >= -1
  /\ a.lastDelivered < a.currentFrame \/ a.currentFrame = -1
  /\ a.currentFrame = -1 => a.fragmentCount = 0 /\ a.lastDelivered = -1
  /\ a.fragmentCount > 0 =>
       /\ a.received \subseteq 0 .. a.fragmentCount - 1
       /\ a.haveCount = Cardinality(a.received)

\* What was delivered is in order and not newer than lastDelivered.
OrderInv(e) ==
  /\ \A k \in DOMAIN delivered[e] : delivered[e][k].index <= asm[e].lastDelivered
  /\ \A j, k \in DOMAIN delivered[e] :
       j < k => delivered[e][j].index < delivered[e][k].index

\* In the host's first run, the frame in progress is one that was sent, the
\* slots marked received hold its fragments, and it is not yet complete.
PartialInv(e) ==
  LET a == asm[e] IN
  a.fragmentCount > 0 =>
    /\ a.header \in sent[e]
    /\ a.header.index = a.currentFrame
    /\ a.fragmentCount = FragmentCount(a.header.size)
    /\ \A s \in a.received : a.buffer[s] = a.header
    /\ a.finalSize = IF a.fragmentCount - 1 \in a.received THEN a.header.size ELSE 0
    /\ a.received # Fragments(a.header)

\* In the host's first run, the newest frame heard of is the one in progress,
\* and then every fragment heard is stored, or has just been delivered.
HeardInv(e) ==
  /\ newest[e] = NoFrame => asm[e].currentFrame = -1
  /\ newest[e] # NoFrame =>
       /\ newest[e] \in sent[e]
       /\ \/ /\ asm[e].fragmentCount > 0
             /\ asm[e].header = newest[e]
             /\ heard[e] \subseteq asm[e].received
          \/ /\ asm[e].fragmentCount = 0
             /\ asm[e].currentFrame = newest[e].index + 1
             /\ IsDelivered(e, newest[e])

IInv ==
  /\ TypeOK
  /\ SentInv
  /\ \A e \in Eyes : CountInv(asm[e]) /\ OrderInv(e)
  /\ run = 1 => \A e \in Eyes : PartialInv(e) /\ HeardInv(e) /\ FramesWhole(e)

\* The assembler remembers the last delivery, or that there was none, and so finds
\* the whole gap before the next one: it is counted once, and no part of it again.
LastInv(e) ==
  IF delivered[e] = <<>> THEN asm[e].lastDelivered = -1
  ELSE asm[e].lastDelivered = delivered[e][Len(delivered[e])].index

CountedInv ==
  /\ \A e \in Eyes : LastInv(e)
  /\ IsFiniteSet(MissingFrames) /\ MissingCounted

\* The metadata of a frame in progress is that of a frame that was sent, restarts
\* of the host included.
HeaderSent == \A e \in Eyes : asm[e].fragmentCount > 0 => asm[e].header \in sent[e]
=============================================================================
