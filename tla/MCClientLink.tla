---------------------------- MODULE MCClientLink ----------------------------
(* ClientLink with four or six sequence numbers, a client that restarts once, and *)
(* two packets on their way.                                                      *)
EXTENDS ClientLink

OneRate == {3}
=============================================================================
