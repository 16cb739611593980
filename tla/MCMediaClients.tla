--------------------------- MODULE MCMediaClients ---------------------------
(* TLC instance of MediaClients: the connections are model values. *)
EXTENDS MediaClients, TLC
=============================================================================
