--------------------------- MODULE MCMediaTracks ----------------------------
(* TLC instance of MediaTracks: what a browser and a plainer client offer. *)
EXTENDS MediaTracks, TLC

Codec(pt, name, perfect) == [pt |-> pt, name |-> name, perfect |-> perfect]

MCOthers == {[source |-> "rtp", codec |-> [video |-> "vp8", audio |-> "opus"]]}

MCOffers ==
    {<<Codec(98, "vp8", FALSE), Codec(102, "H264", FALSE), Codec(104, "H264", TRUE)>>,
     <<Codec(111, "opus", FALSE), Codec(112, "OPUS", FALSE), Codec(0, "PCMU", FALSE)>>,
     <<Codec(97, "pcmu", FALSE), Codec(113, "opus", FALSE)>>}
=============================================================================
