-------------------------- MODULE MCXrApplication --------------------------
(* XrApplication with bitrates in units of 100 kbit/s.                     *)
EXTENDS XrApplication

Config == 120
Least == 40
Most == 250
=============================================================================
