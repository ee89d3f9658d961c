--------------------------- MODULE MCHostControl ---------------------------
(* HostControl for TLC: what it starts from is in HostControl.cfg. *)
EXTENDS HostControl
=============================================================================
