----------------------------- MODULE VideoPath -----------------------------
(***************************************************************************)
(* The video of one eye from the host to its codecs: FrameDelivery, which  *)
(* sink, link and assembler implement (StreamReceiver), and VideoDecoder   *)
(* meet in onFrame.  The decoder knows a frame by the number of its        *)
(* arrival, so it is the frame at that place of what was shown.            *)
(***************************************************************************)
EXTENDS VideoDecoder

CONSTANTS
  Eye,         \* the eye
  HostFrames,  \* what the host can produce: records with the fields run and index
  Spliced      \* stands for a frame that is no frame of the host

VARIABLES run, produced, shown  \* of the delivery

Delivery == INSTANCE FrameDelivery WITH Eyes <- {Eye}, Frames <- HostFrames

deliveryVars == <<run, produced, shown>>
pathVars == <<vars, deliveryVars>>

\* The assembler has completed a frame, and calls onFrame with it.
CompleteFrame ==
  /\ Delivery!Next /\ shown' # shown
  /\ \E keyframe \in BOOLEAN : OnFrame(keyframe)

\* The host produces a frame, or starts again.
HostGoesOn ==
  /\ Delivery!Next /\ shown' = shown
  /\ UNCHANGED vars

\* The threads around the codec go on.
DecoderGoesOn ==
  /\ UiThread \/ DecodeCheck \/ DecodeTakeBuffer \/ DecodeSubmit \/ CodecThread
  /\ UNCHANGED deliveryVars

PathInit == Init /\ Delivery!Init

PathNext == CompleteFrame \/ HostGoesOn \/ DecoderGoesOn

PathSpec == PathInit /\ [][PathNext]_pathVars

-----------------------------------------------------------------------------
(* Properties.                                                             *)

\* What was shown as the k-th frame that a codec took.
FedShown(k) == shown[Eye][queued[k].frame.number]

\* The frames a codec gets from its own threads keep the order of the host's indices.
HostOrder ==
  \A j, k \in DOMAIN queued :
    /\ j < k /\ queued[j].codec = queued[k].codec
    /\ OfThisCodec(queued[j]) /\ OfThisCodec(queued[k])
    => FedShown(j).index < FedShown(k).index

\* No index is fed twice, to the same codec or to another, by whatever thread.
IndexFedOnce ==
  \A j, k \in DOMAIN queued : j # k => FedShown(j).index # FedShown(k).index

\* Until the host is started again, what is fed is a frame it produced.
FedIsProduced ==
  run = 1 => \A k \in DOMAIN queued : FedShown(k).frame \in produced[Eye]

\* From the host's encoder to the codec, over a link that loses, repeats and reorders
\* packets and through three threads: no frame twice, none but the host's, in the host's
\* order but for a thread that outlives its codec.
PathDelivers == HostOrder /\ IndexFedOnce /\ FedIsProduced

-----------------------------------------------------------------------------
(* The inductive invariant behind them.                                    *)

\* Runs of the host and indices are counted.
HostCounts == HostFrames \subseteq [run : Nat, index : Nat]

ShownFrame == [index : Nat, frame : HostFrames \cup {Spliced}]

\* What is shown is in order, and the host's until it is started again.
ShownInv ==
  /\ run \in Nat \ {0}
  /\ produced \in [{Eye} -> SUBSET HostFrames]
  /\ shown \in [{Eye} -> Seq(ShownFrame)]
  /\ \A j, k \in DOMAIN shown[Eye] : j < k => shown[Eye][j].index < shown[Eye][k].index
  /\ run = 1 => \A k \in DOMAIN shown[Eye] : shown[Eye][k].frame \in produced[Eye]

\* The decoder counts what the assembler shows.
ArrivedInv == arrived = Len(shown[Eye])
=============================================================================
