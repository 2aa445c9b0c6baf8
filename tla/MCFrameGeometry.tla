---------------------------- MODULE MCFrameGeometry ----------------------------
(* An engine of 3 by 2 pixels and frames of up to 6 by 6: narrower, lower,   *)
(* equal, one and several pixels larger in either direction.                 *)
EXTENDS FrameGeometry
==============================================================================
