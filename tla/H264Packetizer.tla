--------------------------- MODULE H264Packetizer ---------------------------
(***************************************************************************)
(* H264Packetizer and NalUnit (src/modules/rtp-packetizer): an H.264 byte  *)
(* stream, read in chunks that know nothing of its units, becomes RTP      *)
(* packets.  The buffer is cut where the separator of the next unit is     *)
(* found; a unit is kept until the one behind it shows whether it was the  *)
(* last of its access unit, which sets the marker of its last packet and   *)
(* lets the RTP timestamp go on.                                           *)
(*                                                                         *)
(* A byte is its value; the header of a unit is its type alone.  External: *)
(* the encoder's stream, made of access units as the comment at            *)
(* h264_packetizer.cpp:120 has them, which starts with a separator; and    *)
(* rtc::RtpPacketizer, which numbers and stamps what it is given.  A       *)
(* search that starts behind the end of a short buffer finds nothing, as   *)
(* libstdc++ has it.                                                       *)
(***************************************************************************)
EXTENDS Sequences, FiniteSetsExt

CONSTANTS
    Streams,        \* what the encoder may send: sequences of NAL units, each with
                    \* its bytes and whether it is the first of an access unit
    MTU,            \* size from which a unit is sent in fragments
    MaxPadding,     \* bound on the zeros behind a unit
    MaxChunk,       \* bound on the bytes given to incoming() at once
    MaxTime         \* bound on clock

NAL_SPS == 7
NAL_PPS == 8
NAL_AUD == 9
ShortSep == <<0, 0, 1>>
LongSep == <<0, 0, 0, 1>>

\* Annex B: no separator inside a unit, and no zero behind it.
WellFormed(nal) ==
    /\ nal # <<>> /\ nal[1] # 0 /\ nal[Len(nal)] # 0
    /\ \A i \in 1..(Len(nal) - 2) : SubSeq(nal, i, i + 2) # ShortSep

\* "Since parameter sets must come before the encoded video frame, they will start a
\* new AU unless a new AU was just started"; an access unit ends with its frame.
BeforeFrame == {NAL_SPS, NAL_PPS, NAL_AUD}
InOrder(s) ==
    /\ s # <<>> /\ s[1].first
    /\ \A k \in 2..Len(s) :
        IF s[k].first THEN s[k - 1].nal[1] \notin BeforeFrame
        ELSE s[k].nal[1] \in {NAL_SPS, NAL_PPS} => s[k - 1].nal[1] \in BeforeFrame

ASSUME StreamsAssumption ==
    /\ Streams \subseteq Seq([first : BOOLEAN, nal : Seq(0..255)])
    /\ \A s \in Streams : InOrder(s) /\ \A k \in 1..Len(s) : WellFormed(s[k].nal)
ASSUME PacketizerBounds ==
    /\ MTU \in Nat \ {0, 1}
    /\ MaxPadding \in Nat /\ MaxChunk \in Nat /\ MaxTime \in Nat

VARIABLES
    stream,     \* the units of this stream
    padding,    \* the zeros behind a unit that a long separator follows
    read,       \* how many bytes were given to incoming()
    buffer,     \* buffer_
    lastNal,    \* lastNal_
    rtp,        \* the sequence number and timestamp of rtpConf_
    returned,   \* the packets that incoming() has returned
    clock       \* system_clock

packetizerVars == <<stream, padding, read, buffer, lastNal, rtp, returned, clock>>
-----------------------------------------------------------------------------
\* The byte stream of the units of s.  "Long separators are used for NAL units when:
\* NAL unit type is SPS or PPS; the NAL unit is the first in an Access Unit".
Long(s, k) == s[k].first \/ s[k].nal[1] \in {NAL_SPS, NAL_PPS}
Sep(s, zeros, k) ==
    IF ~Long(s, k) THEN ShortSep
    ELSE IF k = 1 THEN LongSep
    ELSE [i \in 1..zeros |-> 0] \o LongSep

\* Of each k, the first k units with their separators.
UnitsTo(s, zeros) ==
    LET upTo[k \in 0..Len(s)] ==
            IF k = 0 THEN <<>> ELSE upTo[k - 1] \o Sep(s, zeros, k) \o s[k].nal
    IN  upTo

\* Where the separator of unit k ends.
SepEnd(s, zeros, k) == Len(UnitsTo(s, zeros)[k - 1]) + Len(Sep(s, zeros, k))

Bytes == UnitsTo(stream, padding)[Len(stream)]
-----------------------------------------------------------------------------
\* NalUnit.
NoUnit == [data |-> <<>>, header |-> 0, shouldMark |-> FALSE]
NalUnit(bytes) == [data |-> bytes, header |-> bytes[1], shouldMark |-> FALSE]
IsNalType(nal, type) == nal.header = type
IsPs(nal) == nal.header \in {NAL_SPS, NAL_PPS}
IsPsOrAUD(nal) == \E type \in {NAL_SPS, NAL_PPS, NAL_AUD} : IsNalType(nal, type)

Whole(bytes) == [fu |-> FALSE, start |-> FALSE, end |-> FALSE, type |-> bytes[1], data |-> bytes]

\* The end marker is set when a fragment is shorter than MTU.
Fragments(bytes) ==
    LET body == Tail(bytes)
        length(j) == Min({MTU, Len(body) - (j - 1) * MTU})
    IN  [j \in 1..((Len(body) + MTU - 1) \div MTU) |->
            [fu |-> TRUE, start |-> j = 1, end |-> length(j) # MTU, type |-> bytes[1],
             data |-> SubSeq(body, (j - 1) * MTU + 1, (j - 1) * MTU + length(j))]]

\* rtc::RtpPacketizer::outgoing numbers the packets; the marker goes to the last.
Packetize(nal, header) ==
    LET vec == IF nal.data = <<>> THEN <<>>
               ELSE IF Len(nal.data) < MTU THEN <<Whole(nal.data)>>
               ELSE Fragments(nal.data)
    IN  [j \in DOMAIN vec |->
            [seq |-> header.seq + j, timestamp |-> header.timestamp,
             mark |-> nal.shouldMark /\ j = Len(vec), payload |-> vec[j]]]
-----------------------------------------------------------------------------
\* incoming().

\* Mutant of StartsShort: the unit is taken to start with the long separator.
LongAssumed(bytes) == FALSE

StartsShort(bytes) == Len(bytes) > 3 /\ bytes[3] = 1

TrimZeros(bytes) == SubSeq(bytes, 1, Max({i \in DOMAIN bytes : bytes[i] # 0}))

\* Where a second separator starts; the search leaves out the first four bytes.
Separators(bytes) == {i \in 5..(Len(bytes) - 2) : SubSeq(bytes, i, i + 2) = ShortSep}

\* One round of the loop.  The access unit delimiter that the code makes where the
\* stream has none is assigned to lastNal_, and lastNal_ to nal behind it; the
\* packets of the unit before it are inserted twice there.
CutUnit(s) ==
    LET found == Min(Separators(s.buffer))
        nextShort == s.buffer[found - 1] # 0
        it == IF nextShort THEN found ELSE found - 1
        nal == NalUnit(TrimZeros(SubSeq(s.buffer, IF s.isShort THEN 4 ELSE 5, it - 1)))
        newAU == ~s.isShort /\ ~IsPsOrAUD(s.lastNal)
        packets == Packetize([s.lastNal EXCEPT !.shouldMark = newAU], s.rtp)
        added == IF newAU /\ ~IsNalType(nal, NAL_AUD) THEN packets ELSE <<>>
    IN  [buffer |-> SubSeq(s.buffer, it, Len(s.buffer)),
         isShort |-> nextShort,
         lastNal |-> nal,
         rtp |-> [seq |-> s.rtp.seq + Len(packets),
                  timestamp |-> IF newAU THEN clock ELSE s.rtp.timestamp],
         ret |-> s.ret \o added \o packets]

AtStart(bytes) ==
    [buffer |-> bytes, isShort |-> StartsShort(bytes), lastNal |-> lastNal, rtp |-> rtp,
     ret |-> <<>>]

\* The loop ends when no separator is found; a unit and its separator have four bytes.
Round(s) == IF Separators(s.buffer) = {} THEN s ELSE CutUnit(s)
Rounds(bytes) ==
    LET after[i \in 0..(Len(bytes) \div 4)] ==
            IF i = 0 THEN AtStart(bytes) ELSE Round(after[i - 1])
    IN  after

CutUnits(bytes) == Rounds(bytes)[Len(bytes) \div 4]

Incoming(n) ==
    LET s == CutUnits(buffer \o SubSeq(Bytes, read + 1, read + n))
    IN  /\ read + n <= Len(Bytes)
        /\ read' = read + n
        /\ buffer' = s.buffer /\ lastNal' = s.lastNal /\ rtp' = s.rtp
        /\ returned' = returned \o s.ret
        /\ UNCHANGED <<stream, padding, clock>>

Elapse ==
    /\ clock < MaxTime
    /\ clock' = clock + 1
    /\ UNCHANGED <<stream, padding, read, buffer, lastNal, rtp, returned>>
-----------------------------------------------------------------------------
PacketizerInit ==
    /\ stream \in Streams /\ padding \in 0..MaxPadding
    /\ read = 0 /\ buffer = <<>> /\ lastNal = NoUnit
    /\ rtp = [seq |-> 0, timestamp |-> 0]
    /\ returned = <<>> /\ clock = 0

PacketizerNext == (\E n \in 1..MaxChunk : Incoming(n)) \/ Elapse

PacketizerSpec == PacketizerInit /\ [][PacketizerNext]_packetizerVars
-----------------------------------------------------------------------------
\* The unit that is kept is one of the stream's, without the zeros behind it; the
\* buffer never holds more than the unit that is being read and its separators.
PacketizerTypes ==
    /\ stream \in Streams /\ padding \in 0..MaxPadding
    /\ read \in 0..Len(Bytes) /\ clock \in 0..MaxTime
    /\ lastNal = NoUnit \/ \E k \in DOMAIN stream : lastNal = NalUnit(stream[k].nal)
    /\ Separators(buffer) = {}
    /\ rtp.seq \in Nat /\ rtp.timestamp \in 0..clock
    /\ \A i \in DOMAIN returned : returned[i].seq \in 1..rtp.seq

\* A receiver's view: a packet with a number that was there already is dropped.
Take(s, p) == IF \E i \in DOMAIN s : s[i].seq = p.seq THEN s ELSE Append(s, p)
TakenUpTo(ps) ==
    LET upTo[i \in 0..Len(ps)] == IF i = 0 THEN <<>> ELSE Take(upTo[i - 1], ps[i])
    IN  upTo

Packets == TakenUpTo(returned)[Len(returned)]

\* The units a receiver puts together again.
Begins(p) == p.payload.fu => p.payload.start
Join(s, p) ==
    IF Begins(p)
    THEN Append(s, IF p.payload.fu THEN <<p.payload.type>> \o p.payload.data ELSE p.payload.data)
    ELSE [s EXCEPT ![Len(s)] = @ \o p.payload.data]
JoinedUpTo(ps) ==
    LET upTo[i \in 0..Len(ps)] == IF i = 0 THEN <<>> ELSE Join(upTo[i - 1], ps[i])
    IN  upTo

Received == JoinedUpTo(Packets)[Len(Packets)]

\* The units of which the separator of the next has been read completely.
Complete == Cardinality({k \in 2..Len(stream) : SepEnd(stream, padding, k) <= read})

\* However the stream was cut into chunks, every complete unit except the last is
\* sent, byte for byte and in order, with consecutive sequence numbers: none is lost,
\* split at a chunk's end or shortened by a wrong guess at its separator.  The variables
\* keep their types.
NalUnitsAreSent ==
    /\ PacketizerTypes
    /\ Received = [k \in 1..(Max({Complete, 1}) - 1) |-> stream[k].nal]
    /\ LET packets == Packets IN \A i \in DOMAIN packets : packets[i].seq = i

\* Of each packet, which unit of those that packets hold it belongs to.
UnitOf(packets) == [i \in DOMAIN packets |-> Cardinality({j \in 1..i : Begins(packets[j])})]

EndsAccessUnit(s, k) == k = Len(s) \/ s[k + 1].first
Delimited(s, packets) ==
    LET unitOf == UnitOf(packets)
        endsUnit(i) == i = Len(packets) \/ Begins(packets[i + 1])
    IN  \A i \in DOMAIN packets :
            /\ packets[i].mark <=> endsUnit(i) /\ EndsAccessUnit(s, unitOf[i])
            /\ i > 1 =>
                IF Begins(packets[i]) /\ s[unitOf[i]].first
                THEN packets[i - 1].timestamp <= packets[i].timestamp
                ELSE packets[i - 1].timestamp = packets[i].timestamp

\* The marker is set on the last packet of each access unit and on no other; all packets
\* of an access unit have one timestamp, and the timestamps do not go back.
FramesAreDelimited == Delimited(stream, Packets)

\* "We start new AU, but stream is not using AUD so we add AUD manually": of the access
\* units that were begun, each has a delimiter.
DelimitersAreAdded ==
    LET begun == {k \in DOMAIN Received : stream[k].first}
        delimiters == {k \in DOMAIN Received : Received[k][1] = NAL_AUD}
    IN  Cardinality(begun) <= Cardinality(delimiters)

\* "Set FU Header start/end markers": of a unit in fragments the first has the start
\* marker and the last, another one, the end marker.
FragmentsHaveEnds ==
    \A i \in DOMAIN Packets :
        LET f == Packets[i].payload
            last == i = Len(Packets) \/ Begins(Packets[i + 1])
        IN  f.fu => (f.end <=> last) /\ ~(f.start /\ f.end)
=============================================================================
