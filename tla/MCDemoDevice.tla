---------------------------- MODULE MCDemoDevice ----------------------------
(* TLC instance of DemoDevice: the users are model values. *)
EXTENDS DemoDevice, TLC
=============================================================================
