----------------------------- MODULE RtpClient ------------------------------
(***************************************************************************)
(* RtpClient (src/modules/rtp-client): a feed that arrives as RTP packets  *)
(* on a UDP socket.  The first connection of the feed binds the socket and *)
(* starts a thread that receives, the removal of the last one closes the   *)
(* socket and joins the thread, on the event queue.  Each connection has a *)
(* repacketizer of its own (src/modules/rtp-repacketizer): the plain one   *)
(* forwards every packet, the one of H264 collects the packets of a frame  *)
(* and cuts the frame anew.                                                *)
(*                                                                         *)
(* A packet is its number; two make a frame, and Report stands for a sender*)
(* report among them.  The SSRC and the payload type, which are written    *)
(* into every packet, and a datagram below the size of a header, which is  *)
(* dropped, are left out.                                                  *)
(*                                                                         *)
(* External: the source; UDP sockets, where closing one wakes a recvfrom() *)
(* that waits on it with nothing, and fails a later one; the depacketizer  *)
(* of libdatachannel, which has a frame once a packet of the next one      *)
(* comes.  That the number of a closed socket may be given to another file *)
(* at once is not modelled.                                                *)
(***************************************************************************)
EXTENDS Naturals, Sequences

CONSTANTS
    Connections,    \* Nabto connections with a track of the feed
    MaxPackets      \* bound on the packets the source sends

VARIABLES
    tracks,     \* the keys of mediaTracks_
    stopped,    \* stopped_
    thread,     \* where videoThread_ is in rtpVideoRunner
    main,       \* the event queue: "idle", "joining" in stop(), or "ended"
    sock,       \* videoRtpSock_: "none", "bound", "unbound" after a failed bind
    inbox,      \* packets in the socket
    next,       \* the last packet the source sent
    held,       \* the packet in the thread's buffer
    repackH264, \* the feed was configured with the repacketizer of H264
    lost,       \* connections without the close callback: their addConnection threw
    repack,     \* by connection, the packets in its depacketizer
    sent,       \* by connection, what its track was given
    got         \* history: by connection, the packets that arrived while it was there
                \* and that its repacketizer is to send on

client == <<tracks, stopped, main, sock, repackH264, lost>>
media == <<repack, sent, got>>
vars == <<tracks, stopped, thread, main, sock, inbox, next, held, repackH264,
          lost, repack, sent, got>>

Report == 0
Packets == 1..MaxPackets
FrameOf(p) == (p + 1) \div 2
Frames == [stamp : 0..MaxPackets, parts : Seq(Packets \cup {Report})]

TypeOK ==
    /\ tracks \subseteq Connections /\ lost \subseteq Connections
    /\ stopped \in BOOLEAN /\ repackH264 \in BOOLEAN
    /\ thread \in {"none", "checking", "receiving", "sending", "ended"}
    /\ main \in {"idle", "joining", "ended"}
    /\ sock \in {"none", "bound", "unbound"}
    /\ inbox \in Seq(Packets \cup {Report})
    /\ next \in 0..MaxPackets /\ held \in Packets \cup {Report}
    /\ repack \in [Connections -> Seq(Packets)]
    /\ sent \in [Connections -> Seq(Frames)]
    /\ got \in [Connections -> Seq(Packets \cup {Report})]

Init ==
    /\ tracks = {} /\ stopped = TRUE /\ lost = {}
    /\ thread = "none" /\ main = "idle" /\ sock = "none"
    /\ inbox = <<>> /\ next = 0 /\ held = Report
    /\ repackH264 \in BOOLEAN
    /\ repack = [c \in Connections |-> <<>>]
    /\ sent = [c \in Connections |-> <<>>]
    /\ got = [c \in Connections |-> <<>>]
-----------------------------------------------------------------------------
\* The event queue.

\* What becomes of the exception of a failed bind.  For a track of an offer the
\* connection catches it, and the callback of main has not set the close callback yet;
\* for a track that a CoAP request asks for nobody does, on the event queue.
BindFails(c) ==
    \/ lost' = lost \cup {c} /\ UNCHANGED main
    \/ main' = "ended" /\ UNCHANGED lost

\* start(): when the bind fails there is no thread, but stopped_ is reset.
Start(c) ==
    /\ stopped' = FALSE
    /\ \/ sock' = "bound" /\ thread' = "checking" /\ UNCHANGED <<main, lost>>
       \/ sock' = "unbound" /\ BindFails(c) /\ UNCHANGED thread

\* Mutant of NewRepacketizer: a connection that comes back has its old one.
OldRepacketizer(c) == UNCHANGED repack

\* createPacketizer, for each connection anew.
NewRepacketizer(c) == repack' = [repack EXCEPT ![c] = <<>>]

\* The mutex makes an addition one step.
AddConnection(c) ==
    /\ main = "idle"
    /\ tracks' = tracks \cup {c}
    /\ NewRepacketizer(c)
    /\ sent' = [sent EXCEPT ![c] = <<>>] /\ got' = [got EXCEPT ![c] = <<>>]
    /\ IF stopped
       THEN Start(c)
       ELSE lost' = lost \ {c} /\ UNCHANGED <<stopped, sock, thread, main>>
    /\ UNCHANGED <<inbox, next, held, repackH264>>

\* Mutant of CloseSocket: the socket stays open, and the thread waits for a packet.
SocketLeft == UNCHANGED <<sock, inbox>>

CloseSocket == sock' = "none" /\ inbox' = <<>>

\* stop(), as far as the join; it is called again for a feed that has stopped.
Stop ==
    IF stopped
    THEN UNCHANGED <<stopped, sock, inbox, main>>
    ELSE /\ stopped' = TRUE
         /\ CloseSocket
         /\ main' = IF thread = "none" THEN "idle" ELSE "joining"

\* The close callback of a track; each of several tracks of a connection has it, and
\* all but the first find it removed.
RemoveConnection(c) ==
    /\ main = "idle" /\ c \notin lost
    /\ tracks' = tracks \ {c}
    /\ IF tracks' = {} THEN Stop ELSE UNCHANGED <<stopped, sock, inbox, main>>
    /\ UNCHANGED <<thread, next, held, repackH264, lost, media>>

\* The join returns, and stop() clears mediaTracks_.
Joined ==
    /\ main = "joining" /\ thread = "ended"
    /\ main' = "idle" /\ thread' = "none"
    /\ tracks' = {}
    /\ UNCHANGED <<stopped, sock, inbox, next, held, repackH264, lost, media>>
-----------------------------------------------------------------------------
\* The thread.

Checks ==
    /\ thread = "checking"
    /\ thread' = IF stopped THEN "ended" ELSE "receiving"
    /\ UNCHANGED <<client, inbox, next, held, media>>

Receives ==
    /\ thread = "receiving" /\ inbox # <<>>
    /\ held' = Head(inbox) /\ inbox' = Tail(inbox)
    /\ thread' = "sending"
    /\ UNCHANGED <<client, next, media>>

\* shutdown() wakes the thread with an empty datagram; one that was not waiting yet
\* finds the descriptor closed.
SocketClosed ==
    /\ thread = "receiving" /\ sock # "bound"
    /\ thread' \in {"checking", "ended"}
    /\ UNCHANGED <<client, inbox, next, held, media>>

\* H264RtpDepacketizer: the packets of a frame wait for one of another frame.
FrameIsOver(buffer, p) == buffer # <<>> /\ FrameOf(buffer[1]) # FrameOf(p)

\* H264Repacketizer::handlePacket: what is sent when p comes.
Repacketized(buffer, p) ==
    IF p # Report /\ FrameIsOver(buffer, p)
    THEN <<[stamp |-> FrameOf(buffer[1]), parts |-> buffer]>>
    ELSE <<>>

\* What the depacketizer holds when p has come.
Collected(buffer, p) ==
    IF p = Report THEN buffer
    ELSE IF FrameIsOver(buffer, p) THEN <<p>> ELSE Append(buffer, p)

\* RtpRepacketizer::handlePacket.
Forwarded(p) == <<[stamp |-> FrameOf(p), parts |-> <<p>>]>>

\* To every track, under the mutex.
Sends ==
    /\ thread = "sending"
    /\ sent' = [c \in Connections |->
                 IF c \notin tracks THEN sent[c]
                 ELSE sent[c] \o IF repackH264 THEN Repacketized(repack[c], held)
                                 ELSE Forwarded(held)]
    /\ repack' = [c \in Connections |->
                   IF c \in tracks /\ repackH264 THEN Collected(repack[c], held)
                   ELSE repack[c]]
    /\ got' = [c \in Connections |->
                IF c \in tracks /\ ~(repackH264 /\ held = Report)
                THEN Append(got[c], held) ELSE got[c]]
    /\ thread' = "checking"
    /\ UNCHANGED <<client, inbox, next, held>>

Thread == Checks \/ Receives \/ SocketClosed \/ Sends
-----------------------------------------------------------------------------
\* The source sends whether there is a socket or not, and UDP may lose what it sends.
SourceSends ==
    /\ next < MaxPackets
    /\ next' = next + 1
    /\ inbox' \in {inbox} \cup IF sock = "bound" THEN {Append(inbox, next')} ELSE {}
    /\ UNCHANGED <<client, thread, held, media>>

SourceReports ==
    /\ sock = "bound" /\ inbox = <<>>
    /\ inbox' = <<Report>>
    /\ \A c \in tracks : Len(got[c]) < MaxPackets
    /\ UNCHANGED <<client, thread, next, held, media>>
-----------------------------------------------------------------------------
Next ==
    \/ \E c \in Connections : AddConnection(c) \/ RemoveConnection(c)
    \/ Joined \/ Thread
    \/ SourceSends \/ SourceReports

\* The threads run.
Fairness == WF_vars(Joined) /\ WF_vars(Thread)

Spec == Init /\ [][Next]_vars /\ Fairness
-----------------------------------------------------------------------------
\* While the feed has connections its socket is bound and its thread runs, whatever
\* came and went before, unless the port was taken when the first one came: a feed of
\* which the offer asked for is then dead until that connection comes and goes once more.
Served ==
    main = "idle" /\ tracks # {} =>
        /\ ~stopped
        /\ IF sock = "bound"
           THEN thread \notin {"none", "ended"}
           ELSE thread = "none" /\ sock = "unbound"

\* A packet that arrives is sent on, or everybody has gone.
FeedFlows == inbox # <<>> ~> inbox = <<>> \/ tracks = {}

\* The removal of the last connection ends, and leaves no thread and no socket.
StopsReading ==
    tracks = {} ~>
        \/ tracks # {}
        \/ main = "idle" /\ thread = "none" /\ sock = "none"

\* A connection is sent what arrives while it is there: each packet once and in order,
\* with the timestamp of its own frame, and a frame is never mixed with what another
\* connection has of it, or had before it came back.
PartsUpTo(frames) ==
    LET Parts[n \in 0..Len(frames)] ==
            IF n = 0 THEN <<>> ELSE Parts[n - 1] \o frames[n].parts
    IN  Parts
Flattened(frames) == PartsUpTo(frames)[Len(frames)]

FramesAreWhole ==
    \A c \in Connections :
        /\ Flattened(sent[c]) \o repack[c] = got[c]
        /\ \A i \in 1..Len(sent[c]) :
            \A j \in 1..Len(sent[c][i].parts) :
                FrameOf(sent[c][i].parts[j]) = sent[c][i].stamp
=============================================================================
