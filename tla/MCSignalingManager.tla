------------------------- MODULE MCSignalingManager -------------------------
(* TLC instance of SignalingManager: two streams and a request for the port. *)
EXTENDS SignalingManager, TLC
=============================================================================
