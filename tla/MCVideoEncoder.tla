--------------------------- MODULE MCVideoEncoder ---------------------------
(* VideoEncoder with a second of two time units and at most two frames a second: *)
(* frame n has time n, or 2n at one frame a second.                               *)
EXTENDS VideoEncoder

TwoBitrates == {1, 2}
=============================================================================
