--------------------------- MODULE MCVideoDecoder ---------------------------
(* VideoDecoder with its buffers interchangeable.  The order in which the codec  *)
(* hands them out does not matter to the client.                                 *)
EXTENDS VideoDecoder, TLC

BufferSymmetry == Permutations(Buffers)
=============================================================================
