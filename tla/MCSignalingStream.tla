------------------------- MODULE MCSignalingStream -------------------------
(* TLC instance of SignalingStream. *)
EXTENDS SignalingStream, TLC
=============================================================================
