--------------------------- MODULE FrameDelivery ---------------------------
(***************************************************************************)
(* What the video path promises the decoders, with no fragments, buffers   *)
(* or packets: for each eye the frames shown are frames the host produced, *)
(* whole, each at most once and in increasing index order; frames may be   *)
(* skipped.  A host that restarts counts frames from zero again, and from  *)
(* then on only the order of the indices is promised: a frame may be a     *)
(* splice of two frames that carry the same index.                         *)
(***************************************************************************)
EXTENDS Integers, Sequences

CONSTANTS
  Eyes,     \* the eyes, one stream each
  Frames,   \* what can be produced: records with the fields run and index
  Spliced   \* stands for a frame that is no frame of the host

VARIABLES
  run,       \* which start of the host is producing
  produced,  \* for each eye, the frames produced so far
  shown      \* for each eye, what the decoder was given, oldest first

deliveryVars == <<run, produced, shown>>

\* The index of the last frame shown, or -1 before the first one.
LastShown(e) ==
  IF shown[e] = <<>> THEN -1 ELSE shown[e][Len(shown[e])].index

Show(e, index, frame) ==
  /\ index > LastShown(e)
  /\ shown' = [shown EXCEPT ![e] = Append(@, [index |-> index, frame |-> frame])]
  /\ UNCHANGED <<run, produced>>

Produce(e, f) ==
  /\ f.run = run
  /\ \A g \in produced[e] : g.run = run => g.index < f.index
  /\ produced' = [produced EXCEPT ![e] = @ \cup {f}]
  /\ UNCHANGED <<run, shown>>

Restart ==
  /\ run' = run + 1
  /\ UNCHANGED <<produced, shown>>

Init ==
  /\ run = 1
  /\ produced = [e \in Eyes |-> {}]
  /\ shown = [e \in Eyes |-> <<>>]

Next ==
  \/ \E e \in Eyes, f \in Frames : Produce(e, f)
  \/ \E e \in Eyes : \E f \in produced[e] : Show(e, f.index, f)
  \/ \E e \in Eyes : \E f \in produced[e] : run > 1 /\ Show(e, f.index, Spliced)
  \/ Restart

Spec == Init /\ [][Next]_deliveryVars
=============================================================================
