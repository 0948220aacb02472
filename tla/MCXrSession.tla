----------------------------- MODULE MCXrSession -----------------------------
(* XrSession with a stall reported after one tick and fatal after two.           *)
EXTENDS XrSession

Report == 1
Fatal == 2
=============================================================================
