---------------------------- MODULE MediaTracks -----------------------------
(***************************************************************************)
(* The media tracks of one WebRTC connection: how an offer's tracks are    *)
(* matched with the feeds of the demo (src/examples/webrtc-demo/main.cpp), *)
(* what the negotiators of src/modules/track-negotiators leave of their    *)
(* codecs, what the metadata tells the client of each track, how the CoAP  *)
(* requests of the demo add tracks of the device, and how the tracks let   *)
(* go of the feeds when the connection closes.                             *)
(*                                                                         *)
(* How a feed is read is in MediaClients and RtspStream.  The mid of a     *)
(* track is its place in mediaTracks_.  A codec is [pt, name, perfect]: a  *)
(* payload type, a format with its clock rate, and whether the first fmtp  *)
(* line is the one H264Negotiator asks for.  Left out: feedback lines,     *)
(* SSRCs, retransmission maps, and metadata whose "tracks" is a list with  *)
(* broken entries.  Offers that collide are those of Negotiation, tracks   *)
(* added after the connection closed those of SignalingStream, and a       *)
(* socket that cannot be bound is that of RtpClient.  With RTSP nothing    *)
(* takes what a client says, as over TCP; over UDP the RtpClients of the   *)
(* session do, once it has started.                                        *)
(***************************************************************************)
EXTENDS Naturals, Sequences, SequencesExt

CONSTANTS
    Others,         \* configurations of other applications than the demo
    Offers,         \* codec lists a client may offer for a track
    MaxTracks,      \* bound on the tracks of a connection
    MaxQueue        \* bound on the callbacks posted to the event queue

ASSUME TracksAssumption == MaxTracks \in Nat /\ MaxQueue \in Nat

Feeds == {"video", "audio"} \* the track ids
Unknown == "unknown"        \* the id of a track that no feed has
NoId == ""                  \* a track the client's metadata does not list
NoCodec == [pt |-> 0, name |-> "none", perfect |-> FALSE]

Sources == {"rtsp", "fifo", "rtp"}
Negotiators == {"H264", "opus", "pcmu", "vp8"}

\* A description has each payload type once.
PtsDiffer(codecs) == \A j, k \in 1..Len(codecs) : codecs[j].pt = codecs[k].pt => j = k
Formats == {"H264", "opus", "OPUS", "pcmu", "PCMU", "vp8", "VP8", "another"}
Codecs == [pt : Nat, name : Formats, perfect : BOOLEAN]

ASSUME OffersAssumption ==
    \A codecs \in Offers : codecs \in Seq(Codecs) /\ PtsDiffer(codecs)
ASSUME OthersAssumption ==
    \A app \in Others :
        app.source \in Sources /\ app.codec \in [Feeds -> Negotiators \cup {"none"}]

VARIABLES
    source,     \* what the feeds are: "rtsp", "fifo" or "rtp"
    codec,      \* by feed, the codec of its negotiator, or "none" without one
    pc,         \* pc_: "none", "open" or "closed"
    sig,        \* its signaling state: "stable", or "local" with an offer out
    meta,       \* metadata_: [listed, tracks, status], listed when "tracks" is there
    tracks,     \* mediaTracks_
    feeds,      \* by feed, the track it has for the connection, or 0
    stray,      \* feeds that a request of another connection left connected
    posted,     \* what was posted to the event queue
    told,       \* history: the metadata that was last sent
    talk        \* history: the last media of the client that was handled

tracksVars == <<source, codec, pc, sig, meta, tracks, feeds, stray, posted, told, talk>>

Entry(mid, id, error) == [mid |-> mid, id |-> id, error |-> error]
Unsent == [listed |-> FALSE, tracks |-> <<>>, status |-> "none", of |-> 0, named |-> {}]
Describe == [kind |-> "describe", track |-> 0, pt |-> 0]
Candidate == [kind |-> "candidate", track |-> 0, pt |-> 0]
Talk(i, pt) == [kind |-> "talk", track |-> i, pt |-> pt]

Errors == {"OK", "ACCESS_DENIED", "UNKNOWN_TRACK_ID", "INVALID_CODECS"}
TrackStates == [
    id : Feeds \cup {Unknown, NoId}, error : Errors,
    rtc : BOOLEAN,              \* it has its rtc track
    codecs : Seq(Codecs),       \* of its description
    dst : Nat,                  \* the payload type a feed sends with
    recv : BOOLEAN, close : BOOLEAN,    \* its callbacks
    listens : BOOLEAN]          \* the rtc track has onMessage
Callbacks == [kind : {"describe", "candidate", "talk"}, track : Nat, pt : Nat]
Entries == [mid : 1..MaxTracks, id : Feeds \cup {Unknown, NoId}, error : Errors \cup {"none"}]

TracksTypeOK ==
    /\ pc \in {"none", "open", "closed"} /\ sig \in {"stable", "local"}
    /\ feeds \in [Feeds -> 0..MaxTracks] /\ stray \subseteq Feeds
    /\ tracks \in Seq(TrackStates) /\ posted \in Seq(Callbacks)
    /\ meta \in [listed : BOOLEAN, tracks : Seq(Entries), status : {"none", "OK", "FAILED"},
                 named : SUBSET (1..MaxTracks)]

\* What main makes of its options.  It replaces the negotiator of the audio before it
\* looks for the path of a FIFO, so that RTP gets the one of FIFOs as well.
WithAudio(name) == [f \in Feeds |-> IF f = "video" THEN "H264" ELSE name]
DemoFeeds == {
    [source |-> "rtsp", codec |-> WithAudio("opus")],
    [source |-> "fifo", codec |-> WithAudio("pcmu")],
    [source |-> "fifo", codec |-> WithAudio("none")],
    [source |-> "rtp", codec |-> WithAudio("pcmu")]}

Known(f) == f \in Feeds /\ codec[f] # "none"

TracksInit ==
    /\ \E app \in DemoFeeds \cup Others : source = app.source /\ codec = app.codec
    /\ pc = "none" /\ sig = "stable"
    /\ meta = [listed |-> FALSE, tracks |-> <<>>, status |-> "none", named |-> {}]
    /\ tracks = <<>> /\ feeds = [f \in Feeds |-> 0] /\ stray = {}
    /\ posted = <<>> /\ told = Unsent
    /\ talk = [taken |-> FALSE, connected |-> FALSE, lost |-> FALSE]
-----------------------------------------------------------------------------
\* The negotiators.  match() goes through the payload types of a description and
\* removes those it does not want; what it returns is the payload type of chosen.

\* The elements of a sequence that are in keep, in their order.
KeptUpTo(seq, keep) ==
    LET kept[k \in 0..Len(seq)] ==
            IF k = 0 THEN <<>>
            ELSE IF seq[k] \in keep THEN Append(kept[k - 1], seq[k]) ELSE kept[k - 1]
    IN  kept
Kept(seq, keep) == KeptUpTo(seq, keep)[Len(seq)]

Without(codecs, c) == Kept(codecs, {d \in ToSet(codecs) : d.pt # c.pt})

\* Mutant of H264Looks: a better codec does not remove the one chosen before.
H264KeepsBoth(s, c) ==
    IF c.name = "H264" /\ (s.chosen = NoCodec \/ c.perfect) THEN [s EXCEPT !.chosen = c]
    ELSE [s EXCEPT !.left = Without(@, c)]

\* The first H264 is taken, and gives way to a later one that fits exactly.
H264Looks(s, c) ==
    IF c.name = "H264" /\ s.chosen = NoCodec THEN [s EXCEPT !.chosen = c]
    ELSE IF c.name = "H264" /\ c.perfect
    THEN [left |-> Without(s.left, s.chosen), chosen |-> c]
    ELSE [s EXCEPT !.left = Without(@, c)]

H264Loop(codecs) ==
    LET loop[k \in 0..Len(codecs)] ==
            IF k = 0 THEN [left |-> codecs, chosen |-> NoCodec]
            ELSE H264Looks(loop[k - 1], codecs[k])
    IN  loop
H264Match(codecs) == H264Loop(codecs)[Len(codecs)]

\* The other three leave every codec of their format, and choose the last.
LastOf(names, codecs) ==
    LET left == Kept(codecs, {c \in ToSet(codecs) : c.name \in names})
    IN  [left |-> left, chosen |-> IF left = <<>> THEN NoCodec ELSE Last(left)]

OpusMatch(codecs) == LastOf({"opus", "OPUS"}, codecs)
PcmuMatch(codecs) == LastOf({"pcmu"}, codecs)
Vp8Match(codecs) == LastOf({"vp8"}, codecs)

Match(name, codecs) ==
    CASE name = "H264" -> H264Match(codecs)
      [] name = "opus" -> OpusMatch(codecs)
      [] name = "pcmu" -> PcmuMatch(codecs)
      [] name = "vp8"  -> Vp8Match(codecs)

\* createMedia(): one payload type, that of the source.
H264Media == <<[pt |-> 96, name |-> "H264", perfect |-> TRUE]>>
OpusMedia == <<[pt |-> 111, name |-> "opus", perfect |-> FALSE]>>
PcmuMedia == <<[pt |-> 0, name |-> "PCMU", perfect |-> FALSE]>>
Vp8Media == <<[pt |-> 127, name |-> "VP8", perfect |-> FALSE]>>

CreateMedia(name) ==
    CASE name = "H264" -> H264Media
      [] name = "opus" -> OpusMedia
      [] name = "pcmu" -> PcmuMedia
      [] name = "vp8"  -> Vp8Media
-----------------------------------------------------------------------------
\* The feeds and the tracks.

\* addConnection of a client, which takes the first payload type there is.
AddConnection(t) == [t EXCEPT !.dst = t.codecs[1].pt, !.recv = source # "rtsp"]

\* Tracks are added; a feed has the last one that it was connected to.
GivenTo(f, new) == {k \in 1..Len(new) : new[k].id = f /\ new[k].close}
Adds(new) ==
    /\ tracks' = tracks \o new
    /\ feeds' = [f \in Feeds |-> IF GivenTo(f, new) = {} THEN feeds[f]
                                 ELSE Len(tracks) + Max(GivenTo(f, new))]

Failed(t, error) == [t EXCEPT !.error = error]

\* matchMedia(): a match that returns the payload type 0 is none, whatever it removed.
MatchMedia(t) ==
    LET found == Match(codec[t.id], t.codecs)
    IN  [ok |-> found.chosen.pt # 0,
         t  |-> IF found.chosen = NoCodec THEN t ELSE [t EXCEPT !.codecs = found.left]]

\* The callback of the demo.
TrackEvent(t, access) ==
    IF ~access THEN Failed(t, "ACCESS_DENIED")
    ELSE IF ~Known(t.id) THEN Failed(t, "UNKNOWN_TRACK_ID")
    ELSE IF MatchMedia(t).ok
    THEN [AddConnection(MatchMedia(t).t) EXCEPT !.close = TRUE]
    ELSE Failed(MatchMedia(t).t, "INVALID_CODECS")

\* createMediaTrack: a track the metadata does not list has no id and no rtc track.
CreateMediaTrack(offered, listed) ==
    LET id == IF listed THEN offered.id ELSE NoId
    IN  [id |-> id, error |-> "OK", rtc |-> id # NoId, codecs |-> offered.codecs,
         dst |-> 0, recv |-> FALSE, close |-> FALSE, listens |-> FALSE]

\* acceptTrack: a track that was not refused listens for messages.
AcceptTrack(t, access) ==
    LET event == TrackEvent(t, access)
    IN  [event EXCEPT !.listens = event.error = "OK"]

\* handleTrackEvent, which libdatachannel calls within setRemoteDescription.
HandleTrackEvent(offered, listed, access) ==
    AcceptTrack(CreateMediaTrack(offered, listed), access)
-----------------------------------------------------------------------------
\* Descriptions.

Post(callback) == Len(posted) < MaxQueue /\ posted' = Append(posted, callback)

\* The metadata of an offer: an entry for each of its tracks that the client lists.
Metadata(offered, listed) ==
    LET n == Len(tracks)
        all == [k \in 1..Len(offered) |-> Entry(n + k, offered[k].id, "none")]
        entries == IF listed THEN Kept(all, {e \in ToSet(all) : e.id # NoId}) ELSE <<>>
    IN  [listed |-> listed, tracks |-> entries, status |-> "none",
         named |-> {entries[k].mid : k \in 1..Len(entries)}]

\* handleSignalingMessage of an offer of the client, with its new tracks; what the
\* user of the connection may do is looked up for each track.
OffersTracks(offered, listed) ==
    /\ pc # "closed" /\ sig = "stable"
    /\ Len(tracks) + Len(offered) <= MaxTracks
    /\ \E access \in BOOLEAN :
        Adds([k \in 1..Len(offered) |-> HandleTrackEvent(offered[k], listed, access)])
    /\ meta' = Metadata(offered, listed)
    /\ pc' = "open"
    /\ Post(Describe)
    /\ UNCHANGED <<source, codec, sig, stray, told, talk>>

\* An answer of the client replaces the metadata as well.
AnswersTracks(listed) ==
    /\ pc = "open" /\ sig = "local"
    /\ Describe \notin ToSet(posted)
    /\ sig' = "stable"
    /\ meta' = [listed |-> listed, tracks |-> <<>>, status |-> "none", named |-> {}]
    /\ UNCHANGED <<source, codec, pc, tracks, feeds, stray, posted, told, talk>>

TrackErrorToString(error) == IF error = "OK" THEN "none" ELSE error

\* Mutant of UpdateMetaTracks: it stops at the first entry it finds.
FirstFoundOnly(m) ==
    IF ~m.listed THEN [m EXCEPT !.status = "OK"]
    ELSE LET refused == {i \in 1..Len(tracks) : tracks[i].error # "OK"}
         IN  [m EXCEPT !.status = IF refused # {} THEN "FAILED" ELSE "OK"]

\* updateMetaTracks: entries get the error of their track, tracks without an entry get
\* one, and only an entry that was found makes it a failure.
UpdateMetaTracks(m) ==
    IF ~m.listed THEN [m EXCEPT !.status = "OK"]
    ELSE LET Refused(i) == tracks[i].error # "OK"
             found == {m.tracks[k].mid : k \in 1..Len(m.tracks)}
             updated == [k \in 1..Len(m.tracks) |->
                          IF Refused(m.tracks[k].mid)
                          THEN [m.tracks[k] EXCEPT !.error =
                                  TrackErrorToString(tracks[m.tracks[k].mid].error)]
                          ELSE m.tracks[k]]
             rest == Kept([i \in 1..Len(tracks) |-> i], 1..Len(tracks) \ found)
             added == [k \in 1..Len(rest) |->
                          Entry(rest[k], tracks[rest[k]].id,
                                TrackErrorToString(tracks[rest[k]].error))]
         IN  [m EXCEPT !.tracks = updated \o added,
                       !.status = IF \E i \in found : Refused(i) THEN "FAILED" ELSE "OK"]

Sends ==
    /\ meta' = UpdateMetaTracks(meta)
    /\ told' = [listed |-> meta'.listed, tracks |-> meta'.tracks, status |-> meta'.status,
                of |-> Len(tracks), named |-> meta.named]

\* sendDescription, from the change of the signaling state or, without trickling, from
\* the one of the gathering.  After the close it would find no peer connection.
SendDescription ==
    /\ posted # <<>> /\ Head(posted) = Describe
    /\ posted' = Tail(posted)
    /\ IF pc = "open" THEN Sends ELSE UNCHANGED <<meta, told>>
    /\ UNCHANGED <<source, codec, pc, sig, tracks, feeds, stray, talk>>

LocalCandidate ==
    /\ pc = "open" /\ Candidate \notin ToSet(posted)
    /\ Post(Candidate)
    /\ UNCHANGED <<source, codec, pc, sig, meta, tracks, feeds, stray, told, talk>>

SendCandidate ==
    /\ posted # <<>> /\ Head(posted) = Candidate
    /\ posted' = Tail(posted)
    /\ Sends
    /\ UNCHANGED <<source, codec, pc, sig, tracks, feeds, stray, talk>>
-----------------------------------------------------------------------------
\* The CoAP requests of the demo.

\* setRtcTrack gives the media its description.
NewMedia(f) ==
    [id |-> f, error |-> "OK", rtc |-> TRUE, codecs |-> CreateMedia(codec[f]),
     dst |-> 0, recv |-> FALSE, close |-> TRUE, listens |-> TRUE]

\* createTracks: an entry and an rtc track for each; with none there is nothing to offer.
CreateTracks(list) ==
    LET n == Len(tracks)
    IN  /\ meta' = [meta EXCEPT
                     !.listed = TRUE,
                     !.tracks = @ \o [k \in 1..Len(list) |-> Entry(n + k, list[k], "none")]]
        /\ Adds([k \in 1..Len(list) |-> AddConnection(NewMedia(list[k]))])
        /\ pc' = "open" /\ sig' = "local"
        /\ Post(Describe)

\* POST /webrtc/tracks, of a connection that is ours; feeds that are not known are
\* passed over, and with none that is nothing changes.
CoapTracks(list) ==
    /\ pc # "closed" /\ sig = "stable"
    /\ list # <<>> /\ \A k \in 1..Len(list) : Known(list[k])
    /\ Len(tracks) + Len(list) <= MaxTracks
    /\ CreateTracks(list)
    /\ UNCHANGED <<source, codec, stray, told, talk>>

\* GET /webrtc/video/frontdoor makes one track for each client, in the order of main;
\* that of RTSP has both feeds.
CoapVideo ==
    CoapTracks(IF source = "rtsp" \/ ~Known("audio") THEN <<"video">>
               ELSE IF source = "fifo" THEN <<"audio", "video">> ELSE <<"video", "audio">>)

\* The request of a connection without a WebRTC connection gets an error once it has
\* connected the feeds, whose tracks are never closed.
CoapElsewhere(f) ==
    /\ Known(f)
    /\ stray' = stray \cup {f}
    /\ UNCHANGED <<source, codec, pc, sig, meta, tracks, feeds, posted, told, talk>>
-----------------------------------------------------------------------------
\* Media of the client.

\* onMessage posts what comes on an open track, with a payload type of the description.
ClientTalks(i) ==
    /\ pc = "open" /\ i \in 1..Len(tracks) /\ tracks[i].listens
    /\ \A k \in 1..Len(posted) : posted[k].kind # "talk"
    /\ \E k \in 1..Len(tracks[i].codecs) : Post(Talk(i, tracks[i].codecs[k].pt))
    /\ UNCHANGED <<source, codec, pc, sig, meta, tracks, feeds, stray, told, talk>>

\* The receive callback drops other payload types than the track's, or with a FIFO than
\* that of the negotiator.
Accepts(t, pt) ==
    t.recv /\ pt = IF source = "fifo" THEN CreateMedia(codec[t.id])[1].pt ELSE t.dst

HandleTrackMessage ==
    /\ posted # <<>> /\ Head(posted).kind = "talk"
    /\ LET t == tracks[Head(posted).track]
           taken == Accepts(t, Head(posted).pt)
       IN  talk' = [taken |-> taken, connected |-> feeds[t.id] # 0,
                    lost |-> t.recv /\ ~taken]
    /\ posted' = Tail(posted)
    /\ UNCHANGED <<source, codec, pc, sig, meta, tracks, feeds, stray, told>>
-----------------------------------------------------------------------------
\* Mutant of ConnectionClosed: the receive callback stays.
StillReceives(t) == [t EXCEPT !.close = FALSE]

\* connectionClosed of a track: both its callbacks go.
ConnectionClosed(t) == [t EXCEPT !.close = FALSE, !.recv = FALSE]

\* The Closed handler: the close callback of a track removes the connection from the
\* feed.
Closed ==
    /\ pc = "open"
    /\ pc' = "closed"
    /\ feeds' = [f \in Feeds |->
                  IF \E i \in 1..Len(tracks) : tracks[i].close /\ tracks[i].id = f
                  THEN 0 ELSE feeds[f]]
    /\ tracks' = [i \in 1..Len(tracks) |-> ConnectionClosed(tracks[i])]
    /\ UNCHANGED <<source, codec, sig, meta, stray, posted, told, talk>>
-----------------------------------------------------------------------------
OfferedTracks == [id : Feeds \cup {Unknown, NoId}, codecs : Offers]

TracksNext ==
    \/ \E listed \in BOOLEAN :
        \/ \E offered \in UNION {[1..n -> OfferedTracks] : n \in 1..2} :
            OffersTracks(offered, listed)
        \/ AnswersTracks(listed)
    \/ SendDescription \/ LocalCandidate \/ SendCandidate
    \/ \E list \in SeqOf(Feeds, 2) : CoapTracks(list)
    \/ CoapVideo
    \/ \E f \in Feeds : CoapElsewhere(f)
    \/ \E i \in 1..MaxTracks : ClientTalks(i)
    \/ HandleTrackMessage
    \/ Closed

TracksSpec == TracksInit /\ [][TracksNext]_tracksVars
-----------------------------------------------------------------------------
\* A track that was not refused has a feed, which sends on it or on a later track of
\* the same feed; a refused one has none; and no feed has a connection that closed.
\* What the client says reaches a feed only while the connection has it, though it was
\* posted before the connection closed (webrtc_connection.cpp:264).  The variables keep
\* their types.
FeedsFollowTracks ==
    /\ TracksTypeOK
    /\ \A f \in Feeds : feeds[f] # 0 =>
        pc = "open" /\ tracks[feeds[f]].id = f /\ tracks[feeds[f]].error = "OK"
    /\ pc = "open" => \A i \in 1..Len(tracks) :
        tracks[i].error = "OK" => tracks[i].rtc /\ feeds[tracks[i].id] >= i
    /\ talk.taken => talk.connected

\* A client whose metadata lists its tracks is told the fate of every track there is,
\* once, with the error if it was refused, and that it failed if it was one it listed,
\* and never when none was refused; whatever was sent, added or answered in between.
FatesAreTold ==
    told.listed =>
        /\ \A i \in 1..told.of :
            \E k \in 1..Len(told.tracks) :
                /\ told.tracks[k].mid = i
                /\ told.tracks[k].error = TrackErrorToString(tracks[i].error)
                /\ \A j \in 1..Len(told.tracks) : told.tracks[j].mid = i => j = k
        /\ (\E i \in told.named : tracks[i].error # "OK") => told.status = "FAILED"
        /\ told.status = "FAILED" => \E i \in 1..told.of : tracks[i].error # "OK"

\* A feed sends with a payload type the description of its track has, and only those of
\* its own codec are left there; the one of H264 is left alone with the best.
PayloadTypeIsAgreed ==
    \A f \in Feeds : feeds[f] # 0 =>
        LET t == tracks[feeds[f]]
        IN  /\ \E k \in 1..Len(t.codecs) : t.codecs[k].pt = t.dst
            /\ Match(codec[f], t.codecs).left = t.codecs \/ t.codecs = CreateMedia(codec[f])
            /\ codec[f] = "H264" => Len(t.codecs) = 1

-----------------------------------------------------------------------------
\* What comments say of the code, and the code does not do: see the README.

\* rtp_client.cpp:67: exactly one payload type should exist.
OnePayloadType == \A f \in Feeds : feeds[f] # 0 => Len(tracks[feeds[f]].codecs) = 1

\* README.md:386: the demo supports a two-way PCMU audio feed of a FIFO.
PcmuIsAccepted ==
    codec["audio"] = "pcmu" => \A i \in 1..Len(tracks) :
        (\E k \in 1..Len(tracks[i].codecs) : tracks[i].codecs[k].pt = 0)
            => tracks[i].error # "INVALID_CODECS"

\* webrtc_connection.cpp:380: a track that was not in the metadata is added, to return
\* the error.
UnlistedIsTold ==
    told.of > 0 => \A i \in 1..told.of :
        tracks[i].error # "OK" =>
            \E k \in 1..Len(told.tracks) :
                told.tracks[k].mid = i /\ told.tracks[k].error # "none"

\* track_negotiator.hpp:66: the RTP client translates between the
\* payload types of the source and of the connection, whatever was negotiated.
TalkIsHeard == ~talk.lost

\* What a refused track makes of the status, wherever it is listed.
StatusIsTold ==
    (\E k \in 1..Len(told.tracks) : told.tracks[k].error # "none")
        => told.status = "FAILED"
=============================================================================
