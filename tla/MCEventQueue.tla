---------------------------- MODULE MCEventQueue ----------------------------
(* TLC instance of EventQueue: two owners of work and three events. *)
EXTENDS EventQueue, TLC
=============================================================================
