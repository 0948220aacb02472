-------------------------- MODULE MCStreamReceiver --------------------------
(* StreamReceiver on a small link.  With two payload bytes to a fragment and at  *)
(* most five to a frame, a frame of 3 bytes has two fragments, the last one      *)
(* short, a frame of 5 has three, and a frame of 7 is refused by the sink.       *)
EXTENDS StreamReceiver

MixedSizes == {3, 5, 7}
OddSizes == {3, 7}
OneFragment == {2, 7}
=============================================================================
