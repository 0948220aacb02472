----------------------------- MODULE MCVrClient -----------------------------
(* Small instances of VrClient. *)
EXTENDS VrClient

OneEye == {0}
=============================================================================
