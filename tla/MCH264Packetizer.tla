-------------------------- MODULE MCH264Packetizer --------------------------
(* TLC instance of H264Packetizer: streams of two access units and the start of a     *)
(* third.  The units' sizes are below, at and above MTU, at a multiple of it and      *)
(* above; a payload may hold zeros, and a header is the byte 1 of a separator.        *)
EXTENDS H264Packetizer

AUD == <<9, 2>>
SPS == <<7, 2>>
PPS == <<8, 2, 2, 2, 2>>
AccessUnits ==
    {<< <<1, 0, 2>> >>, << <<1, 0, 0, 3, 2>> >>,
     <<AUD, <<1, 2>> >>,
     <<SPS, PPS, <<5, 2, 2, 2>> >>,
     <<AUD, SPS, PPS, <<5, 2>> >>,
     << <<5, 2, 2, 2>>, <<1>>, <<1, 2>> >>}
AccessUnit(nals) == [i \in DOMAIN nals |-> [first |-> i = 1, nal |-> nals[i]]]
MCStreams ==
    {AccessUnit(a) \o AccessUnit(b) \o AccessUnit(<< <<5, 2>>, <<1, 2>> >>) : a, b \in AccessUnits}
=============================================================================
