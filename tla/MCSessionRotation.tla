------------------------- MODULE MCSessionRotation -------------------------
(* Instances of SessionRotation for TLC.                                     *)
EXTENDS SessionRotation
=============================================================================
