------------------------- MODULE MCGradientRegistry -------------------------
(* Finite instances of GradientRegistry. *)
EXTENDS GradientRegistry

MCNames    == {"forwarded", "modified"}
MCBuilders == {"forwarder", "other"}
=============================================================================
