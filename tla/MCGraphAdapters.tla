-------------------------- MODULE MCGraphAdapters --------------------------
(* Bounds of GraphAdapters for TLC: the Facebook adapter, alone. *)
EXTENDS GraphAdapters

OnlyFacebook == {"facebook"}
=============================================================================
