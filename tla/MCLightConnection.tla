------------------------- MODULE MCLightConnection -------------------------
(* LightConnection on a small instance. *)
EXTENDS LightConnection
=============================================================================
