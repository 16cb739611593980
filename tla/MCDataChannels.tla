--------------------------- MODULE MCDataChannels ---------------------------
(* TLC instance of DataChannels: two channels of a stream, two requests. *)
EXTENDS DataChannels, TLC
=============================================================================
