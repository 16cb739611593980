---------------------------- MODULE MediaProofs ----------------------------
(***************************************************************************)
(* Proofs about the media sources, first about MediaClients, for any       *)
(* connections, read ends and packets: while a feed has connections its    *)
(* thread reads it, and what comes as RTP is sent on in whole frames.      *)
(* Then about H264Packetizer, for any streams, chunks and paddings: each   *)
(* unit is sent byte for byte, and the markers fit the access units.       *)
(*                                                                         *)
(* The two kinds of feeds change apart, so that each has an invariant of   *)
(* its own.  Both say what stopped_ stands for: there are connections      *)
(* exactly when it is FALSE, and then the thread runs; when it is TRUE the *)
(* thread is gone or the event queue waits for its end.                    *)
(*                                                                         *)
(* What the packetizer keeps true, PacketizerInv, is that buffer_ holds    *)
(* what was read from the separator of some unit on, that lastNal_ is the  *)
(* unit before it, and that a receiver has taken the units before that.    *)
(* One search of the loop takes the invariant from a unit to the next.     *)
(***************************************************************************)
EXTENDS MediaClients, H264Packetizer, SequenceTheorems, FiniteSetTheorems,
        WellFoundedInduction, TLAPS

\* The pipe: a descriptor that is open is one of the ends, and the thread that is to
\* open it finds room for one more.
FifoIInv ==
    /\ TypeOK
    /\ fd = "open" => ends > 0
    /\ thread = "opening" => ends < MaxEnds
    /\ IF stopped
       THEN tracks = {} /\ (main = "joining" <=> thread # "none")
       ELSE /\ main = "idle" /\ tracks # {} /\ recv
            /\ thread \notin {"none", "ended"}
            /\ thread # "opening" => fd = "open"

\* The socket.
RtpIInv ==
    /\ Rtp!TypeOK
    /\ IF stopped
       THEN tracks = {} /\ (main = "joining" <=> thread # "none")
       ELSE /\ main \in {"idle", "ended"} /\ tracks # {}
            /\ IF sock = "bound"
               THEN thread \notin {"none", "ended"}
               ELSE sock = "unbound" /\ thread = "none"

ServedIInv ==
    /\ source \in {"fifo", "rtp"}
    /\ IF source = "fifo" THEN FifoIInv ELSE RtpIInv

MediaSafe == MediaInit /\ [][MediaNext]_mediaVars
-----------------------------------------------------------------------------
\* A pipe.

LEMMA FifoInit == Init => FifoIInv
<1> SUFFICES ASSUME Init PROVE FifoIInv
  OBVIOUS
<1>1. ends \in 0..MaxEnds
  BY BoundsAssumption DEF Init
<1>2. /\ stopped \in BOOLEAN /\ recv \in BOOLEAN /\ data \in BOOLEAN
      /\ inSet \in BOOLEAN /\ paused \in BOOLEAN
  BY DEF Init
<1>3. tracks = {} /\ stopped /\ fd = "none" /\ thread = "none" /\ main = "idle" /\ streamer = "off"
  BY DEF Init
<1> QED
  BY <1>1, <1>2, <1>3 DEF FifoIInv, TypeOK

\* The event queue adds and removes connections and joins the thread.
LEMMA FifoQueueKeeps ==
    ASSUME FifoIInv, (\E c \in Connections : AddConnection(c) \/ RemoveConnection(c)) \/ Joined
    PROVE  FifoIInv'
<1>0. TypeOK /\ MaxEnds \in Nat \ {0} /\ ends \in 0..MaxEnds
  BY BoundsAssumption DEF FifoIInv, TypeOK
<1>1. ASSUME NEW c \in Connections, AddConnection(c) PROVE FifoIInv'
  <2>1. CASE stopped
    <3>1. /\ stopped' = FALSE /\ thread' = "opening" /\ ends < MaxEnds /\ paused' = FALSE
          /\ tracks' = tracks \cup {c} /\ UNCHANGED <<fd, ends, inSet, main, streamer, data>>
          /\ recv' = TRUE /\ main = "idle"
      BY <1>1, <2>1 DEF AddConnection, Start
    <3> QED
      BY <1>0, <3>1 DEF FifoIInv, TypeOK
  <2>2. CASE ~stopped
    <3>1. /\ tracks' = tracks \cup {c} /\ recv' = TRUE
          /\ UNCHANGED <<stopped, thread, fd, ends, inSet, paused, main, streamer, data>>
      BY <1>1, <2>2 DEF AddConnection
    <3> QED
      BY <1>0, <2>2, <3>1 DEF FifoIInv, TypeOK
  <2> QED
    BY <2>1, <2>2
<1>2. ASSUME NEW c \in Connections, RemoveConnection(c) PROVE FifoIInv'
  <2>1. ~stopped /\ tracks' = tracks \ {c} /\ UNCHANGED <<thread, inSet, paused, streamer>>
    BY <1>2 DEF RemoveConnection, watch, FifoIInv
  <2>2. CASE tracks' = {}
    <3>1. /\ stopped' = TRUE /\ recv' = FALSE /\ fd' = "none" /\ main' = "joining"
          /\ ends' = (IF fd = "open" THEN ends - 1 ELSE ends)
          /\ data' = (data /\ (streamer = "on" \/ ends' > 0))
      BY <1>2, <2>1, <2>2 DEF RemoveConnection, Stop, CloseFd
    <3>2. ends' \in 0..MaxEnds /\ (thread = "opening" => ends' < MaxEnds)
      BY <1>0, <3>1 DEF FifoIInv
    <3>3. data' \in BOOLEAN
      BY <3>1
    <3> QED
      BY <1>0, <2>1, <2>2, <3>1, <3>2, <3>3 DEF FifoIInv, TypeOK
  <2>3. CASE tracks' # {}
    <3>1. UNCHANGED <<stopped, fd, ends, recv, main, data>>
      BY <1>2, <2>3 DEF RemoveConnection
    <3> QED
      BY <1>0, <2>1, <2>3, <3>1 DEF FifoIInv, TypeOK
  <2> QED
    BY <2>2, <2>3
<1>3. CASE Joined
  BY <1>0, <1>3 DEF Joined, watch, FifoIInv, TypeOK
<1> QED
  BY <1>1, <1>2, <1>3

\* The thread ends only once the feed was stopped: until then it finds the pipe open.
LEMMA FifoThreadKeeps ==
    ASSUME FifoIInv, Thread
    PROVE  FifoIInv'
<1>0. TypeOK /\ MaxEnds \in Nat \ {0} /\ ends \in 0..MaxEnds
  BY BoundsAssumption DEF FifoIInv, TypeOK
<1>1. CASE Opens
  <2>1. /\ fd' = "open" /\ ends' = ends + 1 /\ streamer' = "on" /\ inSet' = TRUE
        /\ thread = "opening" /\ thread' = "select" /\ UNCHANGED <<tracks, stopped, recv, paused, main, data>>
    BY <1>1 DEF Opens
  <2>2. ends' \in 0..MaxEnds /\ ends' > 0
    BY <1>0, <2>1 DEF FifoIInv
  <2> QED
    BY <1>0, <2>1, <2>2 DEF FifoIInv, TypeOK
<1>2. CASE SelectReady
  BY <1>0, <1>2 DEF SelectReady, Checked, client, watch, FifoIInv, TypeOK
<1>3. CASE SelectTimeout
  BY <1>0, <1>3 DEF SelectTimeout, client, watch, FifoIInv, TypeOK
<1>4. CASE SelectClosed
  BY <1>0, <1>4 DEF SelectClosed, client, watch, FifoIInv, TypeOK
<1>5. CASE Reads
  <2>1. /\ thread = "reading" /\ thread' \in {"blocked", "select"}
        /\ UNCHANGED <<client, inSet, paused, main, streamer>>
    BY <1>5 DEF Reads, watch
  <2>2. data' \in BOOLEAN
    BY <1>0, <1>5 DEF Reads, TypeOK
  <2> QED
    BY <1>0, <2>1, <2>2 DEF client, FifoIInv, TypeOK
<1>6. CASE BlockedReads
  BY <1>0, <1>6 DEF BlockedReads, client, watch, FifoIInv, TypeOK
<1> QED
  BY <1>1, <1>2, <1>3, <1>4, <1>5, <1>6 DEF Thread

LEMMA FifoNext ==
    ASSUME FifoIInv, [Next]_vars
    PROVE  FifoIInv'
<1>1. CASE StreamerStarts \/ StreamerWrites \/ StreamerStops
  <2>1. UNCHANGED <<client, thread, inSet, paused, main>>
    BY <1>1 DEF StreamerStarts, StreamerWrites, StreamerStops, watch
  <2>2. data' \in BOOLEAN /\ streamer' \in {"off", "waiting", "on"}
    BY <1>1 DEF StreamerStarts, StreamerWrites, StreamerStops, FifoIInv, TypeOK
  <2> QED
    BY <2>1, <2>2 DEF client, FifoIInv, TypeOK
<1>2. CASE UNCHANGED vars
  BY <1>2 DEF vars, FifoIInv, TypeOK
<1> QED
  BY <1>1, <1>2, FifoQueueKeeps, FifoThreadKeeps DEF Next
-----------------------------------------------------------------------------
\* A socket.

LEMMA RtpInit == Rtp!Init => RtpIInv
<1> SUFFICES ASSUME Rtp!Init PROVE RtpIInv
  OBVIOUS
<1>1. Rtp!TypeOK
  BY RtpAssumption DEF Rtp!Init, Rtp!TypeOK, Rtp!Report
<1> QED
  BY <1>1 DEF Rtp!Init, RtpIInv

LEMMA RtpQueueKeeps ==
    ASSUME RtpIInv,
           (\E c \in RtpConnections : Rtp!AddConnection(c) \/ Rtp!RemoveConnection(c)) \/ Rtp!Joined
    PROVE  RtpIInv'
<1>0. Rtp!TypeOK
  BY DEF RtpIInv
<1>1. ASSUME NEW c \in RtpConnections, Rtp!AddConnection(c) PROVE RtpIInv'
  <2>1. /\ main = "idle" /\ tracks' = tracks \cup {c}
        /\ repack' = [repack EXCEPT ![c] = <<>>] /\ sent' = [sent EXCEPT ![c] = <<>>]
        /\ got' = [got EXCEPT ![c] = <<>>]
        /\ UNCHANGED <<inbox, next, held, repackH264>>
    BY <1>1 DEF Rtp!AddConnection, Rtp!NewRepacketizer
  <2>2. /\ repack' \in [RtpConnections -> Seq(Rtp!Packets)]
        /\ sent' \in [RtpConnections -> Seq(Rtp!Frames)]
        /\ got' \in [RtpConnections -> Seq(Rtp!Packets \cup {Rtp!Report})]
    BY <1>0, <2>1 DEF Rtp!TypeOK
  <2>3. CASE stopped
    <3>1. /\ stopped' = FALSE /\ main' \in {"idle", "ended"}
          /\ \/ sock' = "bound" /\ thread' = "checking"
             \/ sock' = "unbound" /\ thread' = thread
      BY <1>1, <2>1, <2>3 DEF Rtp!AddConnection, Rtp!Start, Rtp!BindFails
    <3>2. lost' \subseteq RtpConnections
      BY <1>0, <1>1, <2>3 DEF Rtp!AddConnection, Rtp!Start, Rtp!BindFails, Rtp!TypeOK
    <3> QED
      BY <1>0, <2>1, <2>2, <2>3, <3>1, <3>2 DEF Rtp!TypeOK, RtpIInv
  <2>4. CASE ~stopped
    <3>1. lost' = lost \ {c} /\ UNCHANGED <<stopped, sock, thread, main>>
      BY <1>1, <2>4 DEF Rtp!AddConnection
    <3> QED
      BY <1>0, <2>1, <2>2, <2>4, <3>1 DEF Rtp!TypeOK, RtpIInv
  <2> QED
    BY <2>3, <2>4
<1>2. ASSUME NEW c \in RtpConnections, Rtp!RemoveConnection(c) PROVE RtpIInv'
  <2>1. /\ main = "idle" /\ tracks' = tracks \ {c}
        /\ UNCHANGED <<thread, next, held, repackH264, lost, repack, sent, got>>
    BY <1>2 DEF Rtp!RemoveConnection, Rtp!media
  <2>2. CASE tracks' = {} /\ ~stopped
    <3>1. /\ stopped' = TRUE /\ sock' = "none" /\ inbox' = <<>>
          /\ main' = IF thread = "none" THEN "idle" ELSE "joining"
      BY <1>2, <2>2 DEF Rtp!RemoveConnection, Rtp!Stop, Rtp!CloseSocket
    <3> QED
      BY <1>0, <2>1, <2>2, <3>1 DEF Rtp!TypeOK, RtpIInv
  <2>3. CASE tracks' # {} \/ stopped
    <3>1. UNCHANGED <<stopped, sock, inbox, main>>
      BY <1>2, <2>3 DEF Rtp!RemoveConnection, Rtp!Stop
    <3> QED
      BY <1>0, <2>1, <2>3, <3>1 DEF Rtp!TypeOK, RtpIInv
  <2> QED
    BY <2>2, <2>3
<1>3. CASE Rtp!Joined
  BY <1>0, <1>3 DEF Rtp!Joined, Rtp!TypeOK, Rtp!media, RtpIInv
<1> QED
  BY <1>1, <1>2, <1>3

\* What a repacketizer makes of a packet is of its type.
LEMMA RepacketizerTypes ==
    ASSUME NEW kept \in Seq(Rtp!Packets), NEW p \in Rtp!Packets \cup {Rtp!Report}
    PROVE  /\ Rtp!Repacketized(kept, p) \in Seq(Rtp!Frames)
           /\ Rtp!Collected(kept, p) \in Seq(Rtp!Packets)
           /\ Rtp!Forwarded(p) \in Seq(Rtp!Frames)
<1>1. \A q \in Rtp!Packets \cup {Rtp!Report} : Rtp!FrameOf(q) \in 0..MaxPackets
  BY RtpAssumption DEF Rtp!Packets, Rtp!Report, Rtp!FrameOf
<1>2. \A s \in Seq(Rtp!Packets \cup {Rtp!Report}), q \in Rtp!Packets \cup {Rtp!Report} :
        <<[stamp |-> Rtp!FrameOf(q), parts |-> s]>> \in Seq(Rtp!Frames)
  BY <1>1 DEF Rtp!Frames
<1>3. kept # <<>> => kept[1] \in Rtp!Packets
  OBVIOUS
<1>4. kept \in Seq(Rtp!Packets \cup {Rtp!Report})
  OBVIOUS
<1>5. Rtp!Repacketized(kept, p) \in Seq(Rtp!Frames)
  BY <1>2, <1>3, <1>4 DEF Rtp!Repacketized, Rtp!FrameIsOver
<1>6. Rtp!Forwarded(p) \in Seq(Rtp!Frames)
  <2>1. <<p>> \in Seq(Rtp!Packets \cup {Rtp!Report})
    OBVIOUS
  <2> QED
    BY <1>2, <2>1 DEF Rtp!Forwarded
<1>7. Rtp!Collected(kept, p) \in Seq(Rtp!Packets)
  BY DEF Rtp!Collected
<1> QED
  BY <1>5, <1>6, <1>7

LEMMA RtpThreadKeeps ==
    ASSUME RtpIInv, Rtp!Thread
    PROVE  RtpIInv'
<1>0. Rtp!TypeOK
  BY DEF RtpIInv
<1>1. CASE Rtp!Checks
  BY <1>0, <1>1 DEF Rtp!Checks, Rtp!client, Rtp!media, Rtp!TypeOK, RtpIInv
<1>2. CASE Rtp!Receives
  BY <1>0, <1>2 DEF Rtp!Receives, Rtp!client, Rtp!media, Rtp!TypeOK, RtpIInv
<1>3. CASE Rtp!SocketClosed
  BY <1>0, <1>3 DEF Rtp!SocketClosed, Rtp!client, Rtp!media, Rtp!TypeOK, RtpIInv
<1>4. CASE Rtp!Sends
  <2>1. /\ thread = "sending" /\ thread' = "checking"
        /\ UNCHANGED <<tracks, stopped, main, sock, repackH264, lost, inbox, next, held>>
    BY <1>4 DEF Rtp!Sends, Rtp!client
  <2>2. /\ held \in Rtp!Packets \cup {Rtp!Report}
        /\ repack \in [RtpConnections -> Seq(Rtp!Packets)]
        /\ sent \in [RtpConnections -> Seq(Rtp!Frames)]
        /\ got \in [RtpConnections -> Seq(Rtp!Packets \cup {Rtp!Report})]
    BY <1>0 DEF Rtp!TypeOK
  <2>3. repack' \in [RtpConnections -> Seq(Rtp!Packets)]
    BY <1>4, <2>2, RepacketizerTypes DEF Rtp!Sends
  <2>4. sent' \in [RtpConnections -> Seq(Rtp!Frames)]
    <3>1. ASSUME NEW c \in RtpConnections
          PROVE  /\ sent[c] \in Seq(Rtp!Frames)
                 /\ sent[c] \o Rtp!Repacketized(repack[c], held) \in Seq(Rtp!Frames)
                 /\ sent[c] \o Rtp!Forwarded(held) \in Seq(Rtp!Frames)
      <4>1. /\ Rtp!Repacketized(repack[c], held) \in Seq(Rtp!Frames)
            /\ Rtp!Forwarded(held) \in Seq(Rtp!Frames)
        BY <2>2, RepacketizerTypes
      <4> QED
        BY <2>2, <4>1
    <3> QED
      BY <1>4, <3>1 DEF Rtp!Sends
  <2>5. got' \in [RtpConnections -> Seq(Rtp!Packets \cup {Rtp!Report})]
    BY <1>4, <2>2 DEF Rtp!Sends
  <2> QED
    BY <1>0, <2>1, <2>3, <2>4, <2>5 DEF Rtp!TypeOK, RtpIInv
<1> QED
  BY <1>1, <1>2, <1>3, <1>4 DEF Rtp!Thread

LEMMA RtpNext ==
    ASSUME RtpIInv, [Rtp!Next]_(Rtp!vars)
    PROVE  RtpIInv'
<1>0. Rtp!TypeOK /\ MaxPackets \in Nat
  BY RtpAssumption DEF RtpIInv
<1>1. CASE Rtp!SourceSends
  <2>1. /\ next < MaxPackets /\ next' = next + 1
        /\ UNCHANGED <<tracks, stopped, main, sock, repackH264, lost, thread, held, repack, sent, got>>
        /\ inbox' = inbox \/ inbox' = Append(inbox, next')
    BY <1>1 DEF Rtp!SourceSends, Rtp!client, Rtp!media
  <2>2. next' \in 0..MaxPackets /\ next' \in Rtp!Packets
    BY <1>0, <2>1 DEF Rtp!TypeOK, Rtp!Packets
  <2>3. inbox' \in Seq(Rtp!Packets \cup {Rtp!Report})
    <3>1. inbox \in Seq(Rtp!Packets \cup {Rtp!Report})
      BY <1>0 DEF Rtp!TypeOK
    <3>2. Append(inbox, next') \in Seq(Rtp!Packets \cup {Rtp!Report})
      BY <2>2, <3>1
    <3> QED
      BY <2>1, <3>1, <3>2, Zenon
  <2> QED
    BY <1>0, <2>1, <2>2, <2>3 DEF Rtp!TypeOK, RtpIInv
<1>2. CASE Rtp!SourceReports
  BY <1>0, <1>2 DEF Rtp!SourceReports, Rtp!client, Rtp!media, Rtp!TypeOK, RtpIInv
<1>3. CASE UNCHANGED Rtp!vars
  BY <1>0, <1>3 DEF Rtp!vars, Rtp!TypeOK, RtpIInv
<1> QED
  BY <1>1, <1>2, <1>3, RtpQueueKeeps, RtpThreadKeeps DEF Rtp!Next
-----------------------------------------------------------------------------
LEMMA MediaInitServed == MediaInit => ServedIInv
BY FifoInit, RtpInit DEF MediaInit, ServedIInv

LEMMA MediaNextServed == ServedIInv /\ [MediaNext]_mediaVars => ServedIInv'
<1> SUFFICES ASSUME ServedIInv, [MediaNext]_mediaVars PROVE ServedIInv'
  OBVIOUS
<1>1. CASE Next /\ OfFifo
  <2>1. source = "fifo" /\ source' = source /\ FifoIInv
    BY <1>1 DEF OfFifo, ServedIInv
  <2> QED
    BY <1>1, <2>1, FifoNext DEF ServedIInv
<1>2. CASE Rtp!Next /\ OfRtp
  <2>1. source = "rtp" /\ source' = source /\ RtpIInv
    BY <1>2 DEF OfRtp, ServedIInv
  <2> QED
    BY <1>2, <2>1, RtpNext DEF ServedIInv
<1>3. CASE UNCHANGED mediaVars
  <2>1. UNCHANGED vars /\ UNCHANGED Rtp!vars /\ source' = source
    BY <1>3 DEF mediaVars, rtpOnly, vars, Rtp!vars
  <2> QED
    BY <2>1, FifoNext, RtpNext DEF ServedIInv
<1> QED
  BY <1>1, <1>2, <1>3 DEF MediaNext

LEMMA MediaSafeServed == MediaSafe => []ServedIInv
BY MediaInitServed, MediaNextServed, PTL DEF MediaSafe

\* While a feed has connections its thread runs and reads it, whatever connections came
\* and went before, and however often the pipe or the port was opened and closed; the
\* variables keep their types.
THEOREM FeedsAreServed == MediaSafe => []FeedIsServed
<1>1. ServedIInv => FeedIsServed
  BY DEF ServedIInv, FifoIInv, RtpIInv, FeedIsServed, TypesOK, Served, Rtp!Served
<1> QED
  BY <1>1, MediaSafeServed, PTL
-----------------------------------------------------------------------------
\* What the frames of a sequence hold: PartsUpTo is the function that its recursive
\* definition means, by induction over sets of numbers.

LEMMA NatSetInduction ==
    ASSUME NEW S \in SUBSET Nat, 0 \in S, \A n \in S : n + 1 \in S
    PROVE  S = Nat
<1> DEFINE T == Nat \ S
<1>1. SUFFICES ASSUME T # {} PROVE FALSE
  OBVIOUS
<1>2. T \in SUBSET Nat
  OBVIOUS
<1>3. \E x \in T : \A y \in T : ~(<<y, x>> \in OpToRel(<, Nat))
  <2> HIDE DEF T
  <2> QED
    BY <1>1, <1>2, NatLessThanWellFounded, WFMin, Zenon
<1>4. PICK x \in T : \A y \in T : ~(<<y, x>> \in OpToRel(<, Nat))
  BY <1>3, Zenon
<1>5. x \in Nat /\ x # 0 /\ x - 1 \in Nat /\ x - 1 < x
  OBVIOUS
<1>6. x - 1 \notin T
  BY <1>4, <1>5 DEF OpToRel
<1>7. x - 1 \in S
  BY <1>5, <1>6
<1>8. (x - 1) + 1 \in S
  BY <1>7
<1> QED
  BY <1>5, <1>8

Upto(g, s, n) ==
    g = [k \in 0..n |-> IF k = 0 THEN <<>> ELSE g[k - 1] \o s[k].parts]

LEMMA PartsExist ==
    ASSUME NEW s, Len(s) \in Nat
    PROVE  \E g : Upto(g, s, Len(s))
<1> DEFINE S == {n \in Nat : \E g : Upto(g, s, n)}
<1>1. 0 \in S
  <2> DEFINE g == [k \in 0..0 |-> <<>>]
  <2>1. \A k \in 0..0 : k = 0
    OBVIOUS
  <2>2. Upto(g, s, 0)
    BY <2>1 DEF Upto
  <2> QED
    BY <2>2
<1>2. ASSUME NEW n \in S PROVE n + 1 \in S
  <2>1. PICK g : Upto(g, s, n)
    OBVIOUS
  <2> DEFINE h == [k \in 0..n + 1 |-> IF k = n + 1 THEN g[n] \o s[n + 1].parts ELSE g[k]]
  <2>2. \A k \in 0..n : g[k] = IF k = 0 THEN <<>> ELSE g[k - 1] \o s[k].parts
    BY <2>1 DEF Upto
  <2>3. ASSUME NEW k \in 0..n + 1
        PROVE  h[k] = IF k = 0 THEN <<>> ELSE h[k - 1] \o s[k].parts
    <3>1. CASE k = n + 1
      <4>1. n \in Nat /\ n \in 0..n + 1 /\ n # n + 1 /\ k # 0 /\ k - 1 = n
        BY <3>1
      <4>2. h[n] = g[n] /\ h[k] = g[n] \o s[n + 1].parts
        BY <3>1, <4>1
      <4> QED
        BY <4>1, <4>2
    <3>2. CASE k = 0
      BY <2>2, <3>2
    <3>3. CASE k # n + 1 /\ k # 0
      <4>1. k \in 0..n /\ k - 1 \in 0..n /\ h[k] = g[k] /\ h[k - 1] = g[k - 1]
        BY <3>3
      <4> QED
        BY <2>2, <3>3, <4>1
    <3> QED
      BY <3>1, <3>2, <3>3
  <2>4. Upto(h, s, n + 1)
    <3>1. h = [k \in 0..n + 1 |-> h[k]]
      OBVIOUS
    <3> HIDE DEF h
    <3>2. [k \in 0..n + 1 |-> h[k]]
            = [k \in 0..n + 1 |-> IF k = 0 THEN <<>> ELSE h[k - 1] \o s[k].parts]
      BY <2>3
    <3> QED
      BY <3>1, <3>2 DEF Upto
  <2> QED
    BY <2>4
<1>3. S = Nat
  <2> HIDE DEF S
  <2> S \in SUBSET Nat
    BY DEF S
  <2> QED
    BY <1>1, <1>2, NatSetInduction
<1> QED
  BY <1>3

LEMMA PartsDef ==
    ASSUME NEW s, Len(s) \in Nat
    PROVE  Upto(Rtp!PartsUpTo(s), s, Len(s))
BY PartsExist DEF Rtp!PartsUpTo, Upto

LEMMA PartsOfEach ==
    ASSUME NEW s, Len(s) \in Nat
    PROVE  /\ Rtp!PartsUpTo(s)[0] = <<>>
           /\ \A k \in 1..Len(s) :
                Rtp!PartsUpTo(s)[k] = Rtp!PartsUpTo(s)[k - 1] \o s[k].parts
<1> DEFINE g == Rtp!PartsUpTo(s)
<1>1. g = [k \in 0..Len(s) |-> IF k = 0 THEN <<>> ELSE g[k - 1] \o s[k].parts]
  BY PartsDef DEF Upto
<1> HIDE DEF g
<1>2. \A k \in 0..Len(s) : g[k] = IF k = 0 THEN <<>> ELSE g[k - 1] \o s[k].parts
  BY <1>1
<1>3. 0 \in 0..Len(s) /\ \A k \in 1..Len(s) : k \in 0..Len(s) /\ k # 0
  OBVIOUS
<1>4. g[0] = <<>>
  BY <1>2, <1>3
<1>5. ASSUME NEW k \in 1..Len(s) PROVE g[k] = g[k - 1] \o s[k].parts
  <2>1. k \in 0..Len(s) /\ k # 0
    BY <1>3
  <2> QED
    BY <1>2, <2>1
<1> QED
  BY <1>4, <1>5 DEF g

Flow == Seq(Rtp!Packets \cup {Rtp!Report})

\* What some frames hold are packets, and a further frame adds its own to them.
LEMMA FlattenedType ==
    ASSUME NEW s \in Seq(Rtp!Frames)
    PROVE  Rtp!Flattened(s) \in Flow
<1> DEFINE g == Rtp!PartsUpTo(s)
<1>1. g[0] = <<>> /\ \A k \in 1..Len(s) : g[k] = g[k - 1] \o s[k].parts
  <2>1. Len(s) \in Nat
    OBVIOUS
  <2> QED
    BY <2>1, PartsOfEach
<1>2. \A k \in 1..Len(s) : s[k].parts \in Flow
  <2>1. \A f \in Rtp!Frames : f.parts \in Flow
    BY DEF Rtp!Frames, Flow
  <2> QED
    BY <2>1
<1> HIDE DEF g
<1> DEFINE S == {n \in Nat : n <= Len(s) => g[n] \in Flow}
<1>3. 0 \in S
  <2>1. <<>> \in Flow
    BY DEF Flow
  <2> QED
    BY <1>1, <2>1
<1>4. ASSUME NEW n \in S PROVE n + 1 \in S
  <2>1. SUFFICES ASSUME n + 1 <= Len(s) PROVE g[n + 1] \in Flow
    OBVIOUS
  <2>2. n + 1 \in 1..Len(s) /\ (n + 1) - 1 = n /\ g[n] \in Flow
    BY <2>1
  <2>3. g[n + 1] = g[n] \o s[n + 1].parts /\ s[n + 1].parts \in Flow
    BY <1>1, <1>2, <2>2
  <2> QED
    BY <2>2, <2>3 DEF Flow
<1>5. S = Nat
  <2> HIDE DEF S
  <2> S \in SUBSET Nat
    BY DEF S
  <2> QED
    BY <1>3, <1>4, NatSetInduction
<1>6. Len(s) \in S /\ Len(s) <= Len(s)
  BY <1>5
<1> QED
  BY <1>6 DEF g, Rtp!Flattened

LEMMA FlattenedEmpty == Rtp!Flattened(<<>>) = <<>>
<1>1. Len(<<>>) = 0
  OBVIOUS
<1> QED
  BY <1>1, PartsOfEach DEF Rtp!Flattened

LEMMA FlattenedAppend ==
    ASSUME NEW s \in Seq(Rtp!Frames), NEW f \in Rtp!Frames
    PROVE  Rtp!Flattened(s \o <<f>>) = Rtp!Flattened(s) \o f.parts
<1> DEFINE t == s \o <<f>>
<1> DEFINE g == Rtp!PartsUpTo(s)
<1> DEFINE h == Rtp!PartsUpTo(t)
<1>1. g[0] = <<>> /\ \A k \in 1..Len(s) : g[k] = g[k - 1] \o s[k].parts
  <2>1. Len(s) \in Nat
    OBVIOUS
  <2> QED
    BY <2>1, PartsOfEach
<1>2. /\ Len(t) \in Nat /\ Len(t) = Len(s) + 1 /\ t[Len(s) + 1] = f
      /\ \A k \in 1..Len(s) : t[k] = s[k] /\ k \in 1..Len(t)
  OBVIOUS
<1>3. h[0] = <<>> /\ \A k \in 1..Len(t) : h[k] = h[k - 1] \o t[k].parts
  <2> HIDE DEF t
  <2> QED
    BY <1>2, PartsOfEach
<1> HIDE DEF g, h, t
<1> DEFINE S == {n \in Nat : n <= Len(s) => h[n] = g[n]}
<1>4. 0 \in S
  BY <1>1, <1>3
<1>5. ASSUME NEW n \in S PROVE n + 1 \in S
  <2>1. SUFFICES ASSUME n + 1 <= Len(s) PROVE h[n + 1] = g[n + 1]
    OBVIOUS
  <2>2. n + 1 \in 1..Len(s) /\ (n + 1) - 1 = n /\ h[n] = g[n]
    BY <2>1
  <2>3. g[n + 1] = g[n] \o s[n + 1].parts
    BY <1>1, <2>2
  <2>4. h[n + 1] = h[n] \o t[n + 1].parts /\ t[n + 1] = s[n + 1]
    BY <1>2, <1>3, <2>2
  <2> QED
    BY <2>2, <2>3, <2>4
<1>6. S = Nat
  <2> HIDE DEF S
  <2> S \in SUBSET Nat
    BY DEF S
  <2> QED
    BY <1>4, <1>5, NatSetInduction
<1>7. h[Len(s)] = g[Len(s)]
  <2>1. Len(s) \in S /\ Len(s) <= Len(s)
    BY <1>6
  <2> QED
    BY <2>1
<1>8. h[Len(t)] = h[Len(s)] \o f.parts
  <2>1. Len(s) + 1 \in 1..Len(t) /\ (Len(s) + 1) - 1 = Len(s)
    BY <1>2
  <2> QED
    BY <1>2, <1>3, <2>1
<1> QED
  BY <1>7, <1>8 DEF g, h, t, Rtp!Flattened
-----------------------------------------------------------------------------
\* What a connection was sent, what its repacketizer holds and what arrived: the packets
\* held are of one frame.
OneFrame(kept) == \A i \in 1..Len(kept) : Rtp!FrameOf(kept[i]) = Rtp!FrameOf(kept[1])
OfItsFrame(f) == \A j \in 1..Len(f.parts) : Rtp!FrameOf(f.parts[j]) = f.stamp

IsWhole(s, b, g) ==
    /\ OneFrame(b)
    /\ Rtp!Flattened(s) \o b = g
    /\ \A i \in 1..Len(s) : OfItsFrame(s[i])

\* The plain repacketizer holds nothing.
WholeIInv ==
    \A c \in RtpConnections :
        /\ IsWhole(sent[c], repack[c], got[c])
        /\ ~repackH264 => repack[c] = <<>>

LEMMA AppendOfConcat ==
    ASSUME NEW S, NEW a \in Seq(S), NEW b \in Seq(S), NEW x \in S
    PROVE  a \o Append(b, x) = Append(a \o b, x)
<1> DEFINE l == a \o Append(b, x)
<1> DEFINE r == Append(a \o b, x)
<1>1. l \in Seq(S) /\ r \in Seq(S) /\ Len(l) = Len(a) + Len(b) + 1 /\ Len(r) = Len(l)
  OBVIOUS
<1>2. ASSUME NEW k \in 1..Len(l) PROVE l[k] = r[k]
  <2>1. CASE k \in 1..Len(a)
    <3>1. l[k] = a[k] /\ (a \o b)[k] = a[k] /\ k \in 1..Len(a \o b)
      BY <2>1
    <3> QED
      BY <3>1
  <2>2. CASE k > Len(a) /\ k <= Len(a) + Len(b)
    <3>1. k - Len(a) \in 1..Len(b) /\ k \in 1..Len(a \o b)
      BY <2>2
    <3>2. l[k] = Append(b, x)[k - Len(a)] /\ Append(b, x)[k - Len(a)] = b[k - Len(a)]
      BY <2>2, <3>1
    <3>3. (a \o b)[k] = b[k - Len(a)]
      BY <2>2, <3>1
    <3> QED
      BY <3>1, <3>2, <3>3
  <2>3. CASE k = Len(a) + Len(b) + 1
    <3>1. k - Len(a) = Len(b) + 1 /\ Len(a \o b) = Len(a) + Len(b)
      BY <2>3
    <3>2. l[k] = Append(b, x)[Len(b) + 1]
      BY <2>3, <3>1
    <3> QED
      BY <2>3, <3>1, <3>2
  <2> QED
    BY <1>1, <2>1, <2>2, <2>3
<1> HIDE DEF l, r
<1>3. l = r
  BY <1>1, <1>2
<1> QED
  BY <1>3 DEF l, r

LEMMA FramesOfAppend ==
    ASSUME NEW s \in Seq(Rtp!Frames), NEW f \in Rtp!Frames, OfItsFrame(f),
           \A i \in 1..Len(s) : OfItsFrame(s[i])
    PROVE  \A i \in 1..Len(s \o <<f>>) : OfItsFrame((s \o <<f>>)[i])
<1> DEFINE t == s \o <<f>>
<1>1. \A i \in 1..Len(t) : t[i] = f \/ (i \in 1..Len(s) /\ t[i] = s[i])
  OBVIOUS
<1> HIDE DEF t
<1>2. \A i \in 1..Len(t) : OfItsFrame(t[i])
  BY <1>1
<1> QED
  BY <1>2 DEF t

\* What a connection that was sent s and got g has when p came, with what is held.
LEMMA OneMorePacket ==
    ASSUME NEW s \in Seq(Rtp!Frames), NEW b \in Seq(Rtp!Packets), NEW g \in Flow,
           NEW p \in Rtp!Packets, IsWhole(s, b, g)
    PROVE  IsWhole(s \o Rtp!Repacketized(b, p), Rtp!Collected(b, p), Append(g, p))
<1>0. /\ OneFrame(b) /\ Rtp!Flattened(s) \o b = g
      /\ \A i \in 1..Len(s) : OfItsFrame(s[i])
  BY DEF IsWhole
<1>1. /\ p # Rtp!Report /\ p \in Rtp!Packets \cup {Rtp!Report}
      /\ b \in Flow /\ Rtp!Flattened(s) \in Flow
  <2>1. p # Rtp!Report
    BY RtpAssumption DEF Rtp!Packets, Rtp!Report
  <2>2. b \in Flow
    BY DEF Flow
  <2> QED
    BY <2>1, <2>2, FlattenedType
<1>2. CASE Rtp!FrameIsOver(b, p)
  <2> DEFINE f == [stamp |-> Rtp!FrameOf(b[1]), parts |-> b]
  <2>1. Rtp!Repacketized(b, p) = <<f>> /\ Rtp!Collected(b, p) = <<p>>
    BY <1>1, <1>2 DEF Rtp!Repacketized, Rtp!Collected
  <2>2. Rtp!Repacketized(b, p) \in Seq(Rtp!Frames)
    BY RepacketizerTypes
  <2>3. f \in Rtp!Frames
    <3>1. <<f>> \in Seq(Rtp!Frames) /\ <<f>>[1] = f /\ 1 \in 1..Len(<<f>>)
      BY <2>1, <2>2
    <3> HIDE DEF f
    <3> QED
      BY <3>1
  <2>4. Rtp!Flattened(s \o <<f>>) = Rtp!Flattened(s) \o b
    <3>1. f.parts = b
      OBVIOUS
    <3> HIDE DEF f
    <3> QED
      BY <2>3, <3>1, FlattenedAppend
  <2>5. g \o <<p>> = Append(g, p)
    BY <1>1 DEF Flow
  <2>6. OneFrame(<<p>>)
    BY DEF OneFrame
  <2>7. OfItsFrame(f)
    BY <1>0 DEF OfItsFrame, OneFrame
  <2> HIDE DEF f
  <2>8. \A i \in 1..Len(s \o <<f>>) : OfItsFrame((s \o <<f>>)[i])
    BY <1>0, <2>3, <2>7, FramesOfAppend
  <2> QED
    BY <1>0, <2>1, <2>4, <2>5, <2>6, <2>8 DEF IsWhole
<1>3. CASE ~Rtp!FrameIsOver(b, p)
  <2>1. Rtp!Repacketized(b, p) = <<>> /\ Rtp!Collected(b, p) = Append(b, p)
    BY <1>1, <1>3 DEF Rtp!Repacketized, Rtp!Collected
  <2>2. s \o <<>> = s
    OBVIOUS
  <2>3. Rtp!Flattened(s) \o Append(b, p) = Append(Rtp!Flattened(s) \o b, p)
    BY <1>1, AppendOfConcat DEF Flow
  <2>4. OneFrame(Append(b, p))
    <3>1. CASE b = <<>>
      BY <3>1 DEF OneFrame
    <3>2. CASE b # <<>>
      <4>1. Rtp!FrameOf(b[1]) = Rtp!FrameOf(p)
        BY <1>3, <3>2 DEF Rtp!FrameIsOver
      <4>2. /\ Append(b, p)[1] = b[1]
            /\ \A i \in 1..Len(Append(b, p)) :
                \/ Append(b, p)[i] = p
                \/ i \in 1..Len(b) /\ Append(b, p)[i] = b[i]
        BY <3>2
      <4> QED
        BY <1>0, <4>1, <4>2 DEF OneFrame
    <3> QED
      BY <3>1, <3>2
  <2> QED
    BY <1>0, <2>1, <2>2, <2>3, <2>4 DEF IsWhole
<1> QED
  BY <1>2, <1>3

LEMMA NothingIsWhole == IsWhole(<<>>, <<>>, <<>>)
BY FlattenedEmpty DEF IsWhole, OneFrame

\* The plain repacketizer.
LEMMA OneMoreForwarded ==
    ASSUME NEW s \in Seq(Rtp!Frames), NEW g \in Flow, NEW p \in Rtp!Packets \cup {Rtp!Report},
           IsWhole(s, <<>>, g)
    PROVE  IsWhole(s \o Rtp!Forwarded(p), <<>>, Append(g, p))
<1> DEFINE f == [stamp |-> Rtp!FrameOf(p), parts |-> <<p>>]
<1>0. Rtp!Flattened(s) \in Flow /\ Rtp!Flattened(s) \o <<>> = g /\ OneFrame(<<>>)
      /\ \A i \in 1..Len(s) : OfItsFrame(s[i])
  BY FlattenedType DEF IsWhole
<1>1. Rtp!Forwarded(p) = <<f>> /\ Rtp!Forwarded(p) \in Seq(Rtp!Frames)
  <2>1. <<>> \in Seq(Rtp!Packets)
    OBVIOUS
  <2>2. Rtp!Forwarded(p) \in Seq(Rtp!Frames)
    BY <2>1, RepacketizerTypes
  <2> QED
    BY <2>2 DEF Rtp!Forwarded
<1>2. f.parts = <<p>> /\ OfItsFrame(f)
  BY DEF OfItsFrame
<1> HIDE DEF f
<1>3. f \in Rtp!Frames
  <2>1. <<f>>[1] = f /\ 1 \in 1..Len(<<f>>) /\ <<f>> \in Seq(Rtp!Frames)
    BY <1>1
  <2> QED
    BY <2>1
<1>4. Rtp!Flattened(s \o <<f>>) = Rtp!Flattened(s) \o <<p>>
  BY <1>2, <1>3, FlattenedAppend
<1>5. (Rtp!Flattened(s) \o <<p>>) \o <<>> = Append(g, p)
  <2>1. Rtp!Flattened(s) = g
    BY <1>0 DEF Flow
  <2> QED
    BY <2>1 DEF Flow
<1>6. \A i \in 1..Len(s \o <<f>>) : OfItsFrame((s \o <<f>>)[i])
  BY <1>0, <1>2, <1>3, FramesOfAppend
<1> QED
  BY <1>0, <1>1, <1>4, <1>5, <1>6 DEF IsWhole

LEMMA SendsWhole ==
    ASSUME Rtp!TypeOK, WholeIInv, Rtp!Sends, NEW c \in RtpConnections
    PROVE  /\ IsWhole(sent'[c], repack'[c], got'[c])
           /\ ~repackH264 => repack'[c] = <<>>
<1>1. /\ held \in Rtp!Packets \cup {Rtp!Report} /\ repack[c] \in Seq(Rtp!Packets)
      /\ sent[c] \in Seq(Rtp!Frames) /\ got[c] \in Flow
  BY DEF Rtp!TypeOK, Flow
<1>2. IsWhole(sent[c], repack[c], got[c]) /\ (~repackH264 => repack[c] = <<>>)
  BY DEF WholeIInv
<1>3. /\ sent'[c] = IF c \notin tracks THEN sent[c]
                    ELSE sent[c] \o IF repackH264 THEN Rtp!Repacketized(repack[c], held)
                                    ELSE Rtp!Forwarded(held)
      /\ repack'[c] = IF c \in tracks /\ repackH264 THEN Rtp!Collected(repack[c], held)
                      ELSE repack[c]
      /\ got'[c] = IF c \in tracks /\ ~(repackH264 /\ held = Rtp!Report)
                   THEN Append(got[c], held) ELSE got[c]
  BY DEF Rtp!Sends
<1>4. CASE c \notin tracks
  BY <1>2, <1>3, <1>4
<1>5. CASE c \in tracks /\ ~repackH264
  <2>1. /\ sent'[c] = sent[c] \o Rtp!Forwarded(held) /\ repack'[c] = <<>>
        /\ got'[c] = Append(got[c], held) /\ IsWhole(sent[c], <<>>, got[c])
    BY <1>2, <1>3, <1>5
  <2> QED
    BY <1>1, <2>1, OneMoreForwarded
<1>6. CASE c \in tracks /\ repackH264 /\ held = Rtp!Report
  <2>1. Rtp!Repacketized(repack[c], held) = <<>> /\ Rtp!Collected(repack[c], held) = repack[c]
    BY <1>6 DEF Rtp!Repacketized, Rtp!Collected
  <2>2. sent[c] \o <<>> = sent[c]
    BY <1>1
  <2> QED
    BY <1>2, <1>3, <1>6, <2>1, <2>2
<1>7. CASE c \in tracks /\ repackH264 /\ held # Rtp!Report
  <2>1. /\ sent'[c] = sent[c] \o Rtp!Repacketized(repack[c], held)
        /\ repack'[c] = Rtp!Collected(repack[c], held) /\ got'[c] = Append(got[c], held)
        /\ held \in Rtp!Packets
    BY <1>1, <1>3, <1>7
  <2> QED
    BY <1>1, <1>2, <1>7, <2>1, OneMorePacket
<1> QED
  BY <1>4, <1>5, <1>6, <1>7

LEMMA RtpNextWhole ==
    ASSUME Rtp!TypeOK, WholeIInv, [Rtp!Next]_(Rtp!vars)
    PROVE  WholeIInv'
<1>1. ASSUME NEW d \in RtpConnections, Rtp!AddConnection(d) PROVE WholeIInv'
  <2>1. /\ repack' = [repack EXCEPT ![d] = <<>>] /\ sent' = [sent EXCEPT ![d] = <<>>]
        /\ got' = [got EXCEPT ![d] = <<>>] /\ repackH264' = repackH264
    BY <1>1 DEF Rtp!AddConnection, Rtp!NewRepacketizer
  <2>2. ASSUME NEW c \in RtpConnections
        PROVE  /\ IsWhole(sent'[c], repack'[c], got'[c])
               /\ ~repackH264 => repack'[c] = <<>>
    <3>1. CASE c = d
      <4>1. sent'[c] = <<>> /\ repack'[c] = <<>> /\ got'[c] = <<>>
        BY <2>1, <3>1 DEF Rtp!TypeOK
      <4> QED
        BY <4>1, NothingIsWhole
    <3>2. CASE c # d
      <4>1. sent'[c] = sent[c] /\ repack'[c] = repack[c] /\ got'[c] = got[c]
        BY <2>1, <3>2 DEF Rtp!TypeOK
      <4> QED
        BY <4>1 DEF WholeIInv
    <3> QED
      BY <3>1, <3>2
  <2> QED
    BY <2>1, <2>2 DEF WholeIInv
<1>2. CASE Rtp!Sends
  BY <1>2, SendsWhole DEF WholeIInv, Rtp!Sends, Rtp!client
<1>3. ASSUME UNCHANGED <<repack, sent, got, repackH264>> PROVE WholeIInv'
  BY <1>3 DEF WholeIInv
<1>4. ASSUME NEW d \in RtpConnections, Rtp!RemoveConnection(d) PROVE WholeIInv'
  BY <1>3, <1>4 DEF Rtp!RemoveConnection, Rtp!media
<1>5. CASE \/ Rtp!Joined \/ Rtp!Checks \/ Rtp!Receives \/ Rtp!SocketClosed
           \/ Rtp!SourceSends \/ Rtp!SourceReports \/ UNCHANGED Rtp!vars
  <2>1. UNCHANGED <<repack, sent, got, repackH264>>
    BY <1>5 DEF Rtp!Joined, Rtp!Checks, Rtp!Receives, Rtp!SocketClosed, Rtp!SourceSends,
                Rtp!SourceReports, Rtp!client, Rtp!media, Rtp!vars
  <2> QED
    BY <1>3, <2>1
<1> QED
  BY <1>1, <1>2, <1>4, <1>5 DEF Rtp!Next, Rtp!Thread

LEMMA MediaSafeWhole == MediaSafe => []WholeIInv
<1>1. MediaInit => WholeIInv
  BY NothingIsWhole DEF MediaInit, Rtp!Init, WholeIInv
<1>2. ServedIInv /\ WholeIInv /\ [MediaNext]_mediaVars => WholeIInv'
  <2> SUFFICES ASSUME ServedIInv, WholeIInv, [MediaNext]_mediaVars PROVE WholeIInv'
    OBVIOUS
  <2>1. CASE Rtp!Next /\ OfRtp
    <3>1. Rtp!TypeOK
      BY <2>1 DEF OfRtp, ServedIInv, RtpIInv
    <3> QED
      BY <2>1, <3>1, RtpNextWhole
  <2>2. CASE UNCHANGED rtpOnly
    BY <2>2 DEF rtpOnly, WholeIInv
  <2> QED
    BY <2>1, <2>2 DEF MediaNext, OfFifo, mediaVars
<1> QED
  BY <1>1, <1>2, MediaSafeServed, PTL DEF MediaSafe

\* A connection to a feed of RTP is sent what arrives while it is there, each packet once
\* and in order, and with H264 in whole frames that have their own timestamp, whatever
\* connections and packets came and went, and whatever was lost.
THEOREM FramesAreSentWhole == MediaSafe => []FramesAreWhole
<1>1. WholeIInv => FramesAreWhole
  BY DEF WholeIInv, IsWhole, OfItsFrame, FramesAreWhole, Rtp!FramesAreWhole
<1> QED
  BY <1>1, MediaSafeWhole, PTL
-----------------------------------------------------------------------------
(* The packetizer: what an encoder may send. *)

Byte == 0..255
Unit == [first : BOOLEAN, nal : Seq(Byte)]

LEMMA StreamTypes ==
    ASSUME NEW s \in Streams
    PROVE  /\ s \in Seq(Unit) /\ Len(s) \in Nat \ {0} /\ DOMAIN s = 1..Len(s)
           /\ s[1].first
           /\ \A k \in 1..Len(s) :
                /\ s[k].first \in BOOLEAN /\ s[k].nal \in Seq(Byte)
                /\ WellFormed(s[k].nal)
                /\ Len(s[k].nal) \in Nat \ {0} /\ DOMAIN s[k].nal = 1..Len(s[k].nal)
           /\ \A k \in 2..Len(s) :
                IF s[k].first THEN s[k - 1].nal[1] \notin BeforeFrame
                ELSE s[k].nal[1] \in {NAL_SPS, NAL_PPS} => s[k - 1].nal[1] \in BeforeFrame
<1>1. s \in Seq(Unit)
  BY StreamsAssumption DEF Unit, Byte
<1>2. InOrder(s) /\ \A k \in 1..Len(s) : WellFormed(s[k].nal)
  BY StreamsAssumption
<1>3. Len(s) \in Nat \ {0} /\ DOMAIN s = 1..Len(s)
  BY <1>1, <1>2, EmptySeq, LenProperties DEF InOrder
<1>4. ASSUME NEW k \in 1..Len(s)
      PROVE  /\ s[k].first \in BOOLEAN /\ s[k].nal \in Seq(Byte)
             /\ Len(s[k].nal) \in Nat \ {0} /\ DOMAIN s[k].nal = 1..Len(s[k].nal)
  <2>1. s[k] \in Unit
    BY <1>1, ElementOfSeq
  <2>2. s[k].nal \in Seq(Byte) /\ s[k].nal # <<>>
    BY <1>2, <2>1 DEF Unit, WellFormed
  <2> QED
    BY <2>1, <2>2, EmptySeq, LenProperties DEF Unit
<1> QED
  BY <1>1, <1>2, <1>3, <1>4 DEF InOrder

LEMMA Constants == MTU \in Nat /\ MTU > 1 /\ ShortSep \in Seq(Byte) /\ LongSep \in Seq(Byte)
<1>1. MTU \in Nat /\ MTU > 1
  BY PacketizerBounds
<1>2. \A i \in {0, 1} : i \in Byte
  BY DEF Byte
<1> QED
  BY <1>1, <1>2 DEF ShortSep, LongSep

\* A separator: some zeros and a one.
LEMMA SepType ==
    ASSUME NEW s \in Streams, NEW zeros \in Nat, NEW k \in 1..Len(s)
    PROVE  LET sep == Sep(s, zeros, k)
           IN  /\ sep \in Seq(Byte) /\ Len(sep) \in Nat
               /\ IF Long(s, k) THEN Len(sep) >= 4 /\ (k = 1 => Len(sep) = 4) ELSE Len(sep) = 3
               /\ sep[Len(sep)] = 1
               /\ \A i \in 1..Len(sep) - 1 : sep[i] = 0
<1>1. CASE ~Long(s, k)
  BY <1>1, Constants DEF Sep, ShortSep
<1>2. CASE Long(s, k) /\ k = 1
  BY <1>2, Constants DEF Sep, LongSep
<1>3. CASE Long(s, k) /\ k # 1
  <2> DEFINE pad == [i \in 1..zeros |-> 0]
  <2>1. pad \in Seq(Byte) /\ Len(pad) = zeros /\ \A i \in 1..zeros : pad[i] = 0
    BY DEF Byte
  <2>2. /\ LongSep \in Seq(Byte) /\ Len(LongSep) = 4 /\ LongSep[4] = 1
        /\ \A i \in 1..3 : LongSep[i] = 0
    BY Constants DEF LongSep
  <2>3. Sep(s, zeros, k) = pad \o LongSep
    BY <1>3 DEF Sep
  <2> HIDE DEF pad
  <2>4. /\ pad \o LongSep \in Seq(Byte)
        /\ Len(pad \o LongSep) = Len(pad) + Len(LongSep)
        /\ \A i \in 1..Len(pad) + Len(LongSep) :
             (pad \o LongSep)[i] = IF i <= Len(pad) THEN pad[i] ELSE LongSep[i - Len(pad)]
    <3> pad \in Seq(Byte) /\ LongSep \in Seq(Byte)
      BY <2>1, <2>2
    <3> QED
      BY ConcatProperties
  <2> QED
    BY <1>3, <2>1, <2>2, <2>3, <2>4
<1> QED
  BY <1>1, <1>2, <1>3


-----------------------------------------------------------------------------
(* The recursive functions are the functions that their definitions mean, by induction
   over their domains. *)

\* The first units of a stream: the function that the recursive definition means.
UnitsIn(g, s, zeros, n) ==
    g = [k \in 0..n |-> IF k = 0 THEN <<>> ELSE g[k - 1] \o Sep(s, zeros, k) \o s[k].nal]

LEMMA UnitsExist ==
    ASSUME NEW s, NEW zeros, NEW m \in Nat
    PROVE  \E g : UnitsIn(g, s, zeros, m)
<1> DEFINE S == {n \in Nat : \E g : UnitsIn(g, s, zeros, n)}
<1>1. 0 \in S
  <2> DEFINE g == [k \in 0..0 |-> <<>>]
  <2>1. \A k \in 0..0 : k = 0
    OBVIOUS
  <2>2. UnitsIn(g, s, zeros, 0)
    BY <2>1 DEF UnitsIn
  <2> QED
    BY <2>2
<1>2. ASSUME NEW n \in S PROVE n + 1 \in S
  <2>1. PICK g : UnitsIn(g, s, zeros, n)
    OBVIOUS
  <2> DEFINE new == g[n] \o Sep(s, zeros, n + 1) \o s[n + 1].nal
  <2> DEFINE h == [k \in 0..n + 1 |-> IF k = n + 1 THEN new ELSE g[k]]
  <2>2. \A k \in 0..n : g[k] = IF k = 0 THEN <<>> ELSE g[k - 1] \o Sep(s, zeros, k) \o s[k].nal
    BY <2>1 DEF UnitsIn
  <2>3. ASSUME NEW k \in 0..n + 1
        PROVE  h[k] = IF k = 0 THEN <<>> ELSE h[k - 1] \o Sep(s, zeros, k) \o s[k].nal
    <3>1. CASE k = n + 1
      <4>1. n \in Nat /\ n \in 0..n + 1 /\ n # n + 1 /\ k # 0 /\ k - 1 = n
        BY <3>1
      <4>2. h[n] = g[n] /\ h[k] = new
        BY <3>1, <4>1
      <4> QED
        BY <3>1, <4>1, <4>2
    <3>2. CASE k = 0
      BY <2>2, <3>2
    <3>3. CASE k # n + 1 /\ k # 0
      <4>1. k \in 0..n /\ k - 1 \in 0..n /\ h[k] = g[k] /\ h[k - 1] = g[k - 1]
        BY <3>3
      <4> QED
        BY <2>2, <3>3, <4>1
    <3> QED
      BY <3>1, <3>2, <3>3
  <2>4. UnitsIn(h, s, zeros, n + 1)
    <3>1. h = [k \in 0..n + 1 |-> h[k]]
      OBVIOUS
    <3> HIDE DEF h
    <3> QED
      BY <2>3, <3>1 DEF UnitsIn
  <2> QED
    BY <2>4
<1>3. S = Nat
  <2> HIDE DEF S
  <2> S \in SUBSET Nat
    BY DEF S
  <2> QED
    BY <1>1, <1>2, NatSetInduction
<1> QED
  BY <1>3

LEMMA UnitsDef ==
    ASSUME NEW s, NEW zeros, Len(s) \in Nat
    PROVE  LET g == UnitsTo(s, zeros)
           IN  /\ g[0] = <<>>
               /\ \A k \in 1..Len(s) : g[k] = g[k - 1] \o Sep(s, zeros, k) \o s[k].nal
<1> DEFINE g == UnitsTo(s, zeros)
<1> DEFINE m == Len(s)
<1>1. g = CHOOSE f : UnitsIn(f, s, zeros, m)
  BY Zenon DEF UnitsTo, UnitsIn
<1>2. \E f : UnitsIn(f, s, zeros, m)
  BY UnitsExist
<1>3. UnitsIn(g, s, zeros, m)
  BY <1>1, <1>2, Zenon
<1> HIDE DEF g, m
<1>4. \A k \in 0..m : g[k] = IF k = 0 THEN <<>> ELSE g[k - 1] \o Sep(s, zeros, k) \o s[k].nal
  BY <1>3 DEF UnitsIn
<1>5. 0 \in 0..m /\ \A k \in 1..m : k \in 0..m /\ k # 0
  BY DEF m
<1> QED
  BY <1>4, <1>5 DEF g, m


\* What a receiver takes of some packets.
TakenIn(g, ps, n) ==
    g = [k \in 0..n |-> IF k = 0 THEN <<>> ELSE Take(g[k - 1], ps[k])]

LEMMA TakenExist ==
    ASSUME NEW ps, NEW m \in Nat
    PROVE  \E g : TakenIn(g, ps, m)
<1> DEFINE S == {n \in Nat : \E g : TakenIn(g, ps, n)}
<1>1. 0 \in S
  <2> DEFINE g == [k \in 0..0 |-> <<>>]
  <2>1. \A k \in 0..0 : k = 0
    OBVIOUS
  <2>2. TakenIn(g, ps, 0)
    BY <2>1 DEF TakenIn
  <2> QED
    BY <2>2
<1>2. ASSUME NEW n \in S PROVE n + 1 \in S
  <2>1. PICK g : TakenIn(g, ps, n)
    OBVIOUS
  <2> DEFINE new == Take(g[n], ps[n + 1])
  <2> DEFINE h == [k \in 0..n + 1 |-> IF k = n + 1 THEN new ELSE g[k]]
  <2>2. \A k \in 0..n : g[k] = IF k = 0 THEN <<>> ELSE Take(g[k - 1], ps[k])
    BY <2>1 DEF TakenIn
  <2>3. ASSUME NEW k \in 0..n + 1
        PROVE  h[k] = IF k = 0 THEN <<>> ELSE Take(h[k - 1], ps[k])
    <3>1. CASE k = n + 1
      <4>1. n \in Nat /\ n \in 0..n + 1 /\ n # n + 1 /\ k # 0 /\ k - 1 = n
        BY <3>1
      <4>2. h[n] = g[n] /\ h[k] = new
        BY <3>1, <4>1
      <4> QED
        BY <3>1, <4>1, <4>2
    <3>2. CASE k = 0
      BY <2>2, <3>2
    <3>3. CASE k # n + 1 /\ k # 0
      <4>1. k \in 0..n /\ k - 1 \in 0..n /\ h[k] = g[k] /\ h[k - 1] = g[k - 1]
        BY <3>3
      <4> QED
        BY <2>2, <3>3, <4>1
    <3> QED
      BY <3>1, <3>2, <3>3
  <2>4. TakenIn(h, ps, n + 1)
    <3>1. h = [k \in 0..n + 1 |-> h[k]]
      OBVIOUS
    <3> HIDE DEF h
    <3> QED
      BY <2>3, <3>1 DEF TakenIn
  <2> QED
    BY <2>4
<1>3. S = Nat
  <2> HIDE DEF S
  <2> S \in SUBSET Nat
    BY DEF S
  <2> QED
    BY <1>1, <1>2, NatSetInduction
<1> QED
  BY <1>3

LEMMA TakenDef ==
    ASSUME NEW ps, Len(ps) \in Nat
    PROVE  LET g == TakenUpTo(ps)
           IN  /\ g[0] = <<>>
               /\ \A k \in 1..Len(ps) : g[k] = Take(g[k - 1], ps[k])
<1> DEFINE g == TakenUpTo(ps)
<1> DEFINE m == Len(ps)
<1>1. g = CHOOSE f : TakenIn(f, ps, m)
  BY Zenon DEF TakenUpTo, TakenIn
<1>2. \E f : TakenIn(f, ps, m)
  BY TakenExist
<1>3. TakenIn(g, ps, m)
  BY <1>1, <1>2, Zenon
<1> HIDE DEF g, m
<1>4. \A k \in 0..m : g[k] = IF k = 0 THEN <<>> ELSE Take(g[k - 1], ps[k])
  BY <1>3 DEF TakenIn
<1>5. 0 \in 0..m /\ \A k \in 1..m : k \in 0..m /\ k # 0
  BY DEF m
<1> QED
  BY <1>4, <1>5 DEF g, m


\* What a receiver puts together of some packets.
JoinedIn(g, ps, n) ==
    g = [k \in 0..n |-> IF k = 0 THEN <<>> ELSE Join(g[k - 1], ps[k])]

LEMMA JoinedExist ==
    ASSUME NEW ps, NEW m \in Nat
    PROVE  \E g : JoinedIn(g, ps, m)
<1> DEFINE S == {n \in Nat : \E g : JoinedIn(g, ps, n)}
<1>1. 0 \in S
  <2> DEFINE g == [k \in 0..0 |-> <<>>]
  <2>1. \A k \in 0..0 : k = 0
    OBVIOUS
  <2>2. JoinedIn(g, ps, 0)
    BY <2>1 DEF JoinedIn
  <2> QED
    BY <2>2
<1>2. ASSUME NEW n \in S PROVE n + 1 \in S
  <2>1. PICK g : JoinedIn(g, ps, n)
    OBVIOUS
  <2> DEFINE new == Join(g[n], ps[n + 1])
  <2> DEFINE h == [k \in 0..n + 1 |-> IF k = n + 1 THEN new ELSE g[k]]
  <2>2. \A k \in 0..n : g[k] = IF k = 0 THEN <<>> ELSE Join(g[k - 1], ps[k])
    BY <2>1 DEF JoinedIn
  <2>3. ASSUME NEW k \in 0..n + 1
        PROVE  h[k] = IF k = 0 THEN <<>> ELSE Join(h[k - 1], ps[k])
    <3>1. CASE k = n + 1
      <4>1. n \in Nat /\ n \in 0..n + 1 /\ n # n + 1 /\ k # 0 /\ k - 1 = n
        BY <3>1
      <4>2. h[n] = g[n] /\ h[k] = new
        BY <3>1, <4>1
      <4> QED
        BY <3>1, <4>1, <4>2
    <3>2. CASE k = 0
      BY <2>2, <3>2
    <3>3. CASE k # n + 1 /\ k # 0
      <4>1. k \in 0..n /\ k - 1 \in 0..n /\ h[k] = g[k] /\ h[k - 1] = g[k - 1]
        BY <3>3
      <4> QED
        BY <2>2, <3>3, <4>1
    <3> QED
      BY <3>1, <3>2, <3>3
  <2>4. JoinedIn(h, ps, n + 1)
    <3>1. h = [k \in 0..n + 1 |-> h[k]]
      OBVIOUS
    <3> HIDE DEF h
    <3> QED
      BY <2>3, <3>1 DEF JoinedIn
  <2> QED
    BY <2>4
<1>3. S = Nat
  <2> HIDE DEF S
  <2> S \in SUBSET Nat
    BY DEF S
  <2> QED
    BY <1>1, <1>2, NatSetInduction
<1> QED
  BY <1>3

LEMMA JoinedDef ==
    ASSUME NEW ps, Len(ps) \in Nat
    PROVE  LET g == JoinedUpTo(ps)
           IN  /\ g[0] = <<>>
               /\ \A k \in 1..Len(ps) : g[k] = Join(g[k - 1], ps[k])
<1> DEFINE g == JoinedUpTo(ps)
<1> DEFINE m == Len(ps)
<1>1. g = CHOOSE f : JoinedIn(f, ps, m)
  BY Zenon DEF JoinedUpTo, JoinedIn
<1>2. \E f : JoinedIn(f, ps, m)
  BY JoinedExist
<1>3. JoinedIn(g, ps, m)
  BY <1>1, <1>2, Zenon
<1> HIDE DEF g, m
<1>4. \A k \in 0..m : g[k] = IF k = 0 THEN <<>> ELSE Join(g[k - 1], ps[k])
  BY <1>3 DEF JoinedIn
<1>5. 0 \in 0..m /\ \A k \in 1..m : k \in 0..m /\ k # 0
  BY DEF m
<1> QED
  BY <1>4, <1>5 DEF g, m


\* The rounds of the loop.
RoundsIn(g, bytes, n) ==
    g = [k \in 0..n |-> IF k = 0 THEN AtStart(bytes) ELSE Round(g[k - 1])]

LEMMA RoundsExist ==
    ASSUME NEW bytes, NEW m \in Nat
    PROVE  \E g : RoundsIn(g, bytes, m)
<1> DEFINE S == {n \in Nat : \E g : RoundsIn(g, bytes, n)}
<1>1. 0 \in S
  <2> DEFINE g == [k \in 0..0 |-> AtStart(bytes)]
  <2>1. \A k \in 0..0 : k = 0
    OBVIOUS
  <2>2. RoundsIn(g, bytes, 0)
    BY <2>1 DEF RoundsIn
  <2> QED
    BY <2>2
<1>2. ASSUME NEW n \in S PROVE n + 1 \in S
  <2>1. PICK g : RoundsIn(g, bytes, n)
    OBVIOUS
  <2> DEFINE new == Round(g[n])
  <2> DEFINE h == [k \in 0..n + 1 |-> IF k = n + 1 THEN new ELSE g[k]]
  <2>2. \A k \in 0..n : g[k] = IF k = 0 THEN AtStart(bytes) ELSE Round(g[k - 1])
    BY <2>1 DEF RoundsIn
  <2>3. ASSUME NEW k \in 0..n + 1
        PROVE  h[k] = IF k = 0 THEN AtStart(bytes) ELSE Round(h[k - 1])
    <3>1. CASE k = n + 1
      <4>1. n \in Nat /\ n \in 0..n + 1 /\ n # n + 1 /\ k # 0 /\ k - 1 = n
        BY <3>1
      <4>2. h[n] = g[n] /\ h[k] = new
        BY <3>1, <4>1
      <4> QED
        BY <3>1, <4>1, <4>2
    <3>2. CASE k = 0
      BY <2>2, <3>2
    <3>3. CASE k # n + 1 /\ k # 0
      <4>1. k \in 0..n /\ k - 1 \in 0..n /\ h[k] = g[k] /\ h[k - 1] = g[k - 1]
        BY <3>3
      <4> QED
        BY <2>2, <3>3, <4>1
    <3> QED
      BY <3>1, <3>2, <3>3
  <2>4. RoundsIn(h, bytes, n + 1)
    <3>1. h = [k \in 0..n + 1 |-> h[k]]
      OBVIOUS
    <3> HIDE DEF h
    <3> QED
      BY <2>3, <3>1 DEF RoundsIn
  <2> QED
    BY <2>4
<1>3. S = Nat
  <2> HIDE DEF S
  <2> S \in SUBSET Nat
    BY DEF S
  <2> QED
    BY <1>1, <1>2, NatSetInduction
<1> QED
  BY <1>3

LEMMA RoundsDef ==
    ASSUME NEW bytes, (Len(bytes) \div 4) \in Nat
    PROVE  LET g == Rounds(bytes)
           IN  /\ g[0] = AtStart(bytes)
               /\ \A k \in 1..(Len(bytes) \div 4) : g[k] = Round(g[k - 1])
<1> DEFINE g == Rounds(bytes)
<1> DEFINE m == (Len(bytes) \div 4)
<1>1. g = CHOOSE f : RoundsIn(f, bytes, m)
  BY Zenon DEF Rounds, RoundsIn
<1>2. \E f : RoundsIn(f, bytes, m)
  BY RoundsExist
<1>3. RoundsIn(g, bytes, m)
  BY <1>1, <1>2, Zenon
<1> HIDE DEF g, m
<1>4. \A k \in 0..m : g[k] = IF k = 0 THEN AtStart(bytes) ELSE Round(g[k - 1])
  BY <1>3 DEF RoundsIn
<1>5. 0 \in 0..m /\ \A k \in 1..m : k \in 0..m /\ k # 0
  BY DEF m
<1> QED
  BY <1>4, <1>5 DEF g, m


-----------------------------------------------------------------------------
(* Where the units are in the bytes of the stream, and the separators between them. *)

\* The bytes of the first k units, and of all.
UnitsOf(s, zeros, k) == UnitsTo(s, zeros)[k]
BytesOf(s, zeros) == UnitsOf(s, zeros, Len(s))

LEMMA UnitsStep ==
    ASSUME NEW s \in Streams, NEW zeros \in Nat
    PROVE  /\ UnitsOf(s, zeros, 0) = <<>>
           /\ \A k \in 1..Len(s) :
                UnitsOf(s, zeros, k) = UnitsOf(s, zeros, k - 1) \o Sep(s, zeros, k) \o s[k].nal
<1>1. Len(s) \in Nat
  BY StreamTypes
<1> QED
  BY <1>1, UnitsDef DEF UnitsOf

LEMMA UnitsType ==
    ASSUME NEW s \in Streams, NEW zeros \in Nat, NEW k \in 0..Len(s)
    PROVE  UnitsOf(s, zeros, k) \in Seq(Byte) /\ Len(UnitsOf(s, zeros, k)) \in Nat
<1> DEFINE S == {n \in Nat : n <= Len(s) => UnitsOf(s, zeros, n) \in Seq(Byte)}
<1>1. Len(s) \in Nat
  BY StreamTypes
<1>2. 0 \in S
  BY UnitsStep, EmptySeq
<1>3. ASSUME NEW n \in S PROVE n + 1 \in S
  <2>1. SUFFICES ASSUME n + 1 <= Len(s) PROVE UnitsOf(s, zeros, n + 1) \in Seq(Byte)
    OBVIOUS
  <2>2. n + 1 \in 1..Len(s) /\ (n + 1) - 1 = n /\ UnitsOf(s, zeros, n) \in Seq(Byte)
    BY <1>1, <2>1
  <2>3. Sep(s, zeros, n + 1) \in Seq(Byte) /\ s[n + 1].nal \in Seq(Byte)
    BY <2>2, SepType, StreamTypes
  <2>4. UnitsOf(s, zeros, n + 1)
          = UnitsOf(s, zeros, n) \o Sep(s, zeros, n + 1) \o s[n + 1].nal
    BY <2>2, UnitsStep
  <2>5. UnitsOf(s, zeros, n) \o Sep(s, zeros, n + 1) \in Seq(Byte)
    BY <2>2, <2>3, ConcatProperties
  <2> QED
    BY <2>3, <2>4, <2>5, ConcatProperties
<1>4. S = Nat
  <2> HIDE DEF S
  <2> S \in SUBSET Nat
    BY DEF S
  <2> QED
    BY <1>2, <1>3, NatSetInduction
<1>5. k \in S /\ k <= Len(s)
  BY <1>1, <1>4
<1> QED
  BY <1>5, LenProperties

\* Unit k and its separator, behind the units before it.
LEMMA UnitsAdd ==
    ASSUME NEW s \in Streams, NEW zeros \in Nat, NEW k \in 1..Len(s)
    PROVE  LET before == UnitsOf(s, zeros, k - 1)
               sep == Sep(s, zeros, k)
               nal == s[k].nal
               upTo == UnitsOf(s, zeros, k)
           IN  /\ Len(before) \in Nat /\ k - 1 \in 0..Len(s) /\ k \in 0..Len(s)
               /\ SepEnd(s, zeros, k) = Len(before) + Len(sep)
               /\ Len(upTo) = Len(before) + Len(sep) + Len(nal)
               /\ \A p \in 1..Len(before) : upTo[p] = before[p]
               /\ \A j \in 1..Len(sep) : upTo[Len(before) + j] = sep[j]
               /\ \A j \in 1..Len(nal) : upTo[Len(before) + Len(sep) + j] = nal[j]
<1> DEFINE before == UnitsOf(s, zeros, k - 1)
<1> DEFINE sep == Sep(s, zeros, k)
<1> DEFINE nal == s[k].nal
<1> DEFINE upTo == UnitsOf(s, zeros, k)
<1>0. Len(s) \in Nat /\ k - 1 \in 0..Len(s) /\ k \in 0..Len(s)
  BY StreamTypes
<1>1. before \in Seq(Byte) /\ sep \in Seq(Byte) /\ nal \in Seq(Byte)
  BY <1>0, UnitsType, SepType, StreamTypes
<1>2. upTo = (before \o sep) \o nal
  BY UnitsStep
<1>3. SepEnd(s, zeros, k) = Len(before) + Len(sep)
  BY DEF SepEnd, UnitsOf
<1> HIDE DEF before, sep, nal, upTo
<1>4. Len(before) \in Nat /\ Len(sep) \in Nat /\ Len(nal) \in Nat
  BY <1>1, LenProperties
<1>5. /\ before \o sep \in Seq(Byte) /\ Len(before \o sep) = Len(before) + Len(sep)
      /\ \A i \in 1..Len(before) + Len(sep) :
           (before \o sep)[i] = IF i <= Len(before) THEN before[i] ELSE sep[i - Len(before)]
  BY <1>1, ConcatProperties
<1>6. /\ Len(upTo) = Len(before \o sep) + Len(nal)
      /\ \A i \in 1..Len(before \o sep) + Len(nal) :
           upTo[i] = IF i <= Len(before \o sep) THEN (before \o sep)[i]
                     ELSE nal[i - Len(before \o sep)]
  BY <1>1, <1>2, <1>5, ConcatProperties
<1>7. Len(upTo) = Len(before) + Len(sep) + Len(nal)
  BY <1>4, <1>5, <1>6
<1>8. ASSUME NEW p \in 1..Len(before) PROVE upTo[p] = before[p]
  BY <1>4, <1>5, <1>6
<1>9. ASSUME NEW j \in 1..Len(sep) PROVE upTo[Len(before) + j] = sep[j]
  <2>1. /\ Len(before) + j \in 1..Len(before) + Len(sep) /\ ~(Len(before) + j <= Len(before))
        /\ (Len(before) + j) - Len(before) = j
    BY <1>4
  <2>2. (before \o sep)[Len(before) + j] = sep[j]
    BY <1>5, <2>1
  <2>3. upTo[Len(before) + j] = (before \o sep)[Len(before) + j]
    BY <1>4, <1>5, <1>6, <2>1
  <2> QED
    BY <2>2, <2>3
<1>10. ASSUME NEW j \in 1..Len(nal) PROVE upTo[Len(before) + Len(sep) + j] = nal[j]
  <2> DEFINE i == Len(before) + Len(sep) + j
  <2>1. /\ i \in 1..Len(before \o sep) + Len(nal) /\ ~(i <= Len(before \o sep))
        /\ i - Len(before \o sep) = j
    BY <1>4, <1>5
  <2> HIDE DEF i
  <2>2. upTo[i] = nal[j]
    BY <1>6, <2>1
  <2> QED
    BY <2>2 DEF i
<1> QED
  BY <1>0, <1>3, <1>4, <1>7, <1>8, <1>9, <1>10 DEF before, sep, nal, upTo

\* What follows some units changes nothing of them.
LEMMA UnitsPrefix ==
    ASSUME NEW s \in Streams, NEW zeros \in Nat, NEW k \in 0..Len(s)
    PROVE  LET some == UnitsOf(s, zeros, k)
           IN  /\ Len(some) <= Len(BytesOf(s, zeros))
               /\ \A p \in 1..Len(some) : BytesOf(s, zeros)[p] = some[p]
<1> DEFINE some == UnitsOf(s, zeros, k)
<1> DEFINE Begin(m) == /\ Len(some) <= Len(UnitsOf(s, zeros, m))
                       /\ \A p \in 1..Len(some) : UnitsOf(s, zeros, m)[p] = some[p]
<1> DEFINE S == {n \in Nat : k + n <= Len(s) => Begin(k + n)}
<1>1. Len(s) \in Nat /\ Len(some) \in Nat /\ k \in Nat
  BY StreamTypes, UnitsType
<1>2. 0 \in S
  <2>1. k + 0 = k /\ Len(some) <= Len(some)
    BY <1>1
  <2> QED
    BY <2>1
<1>3. ASSUME NEW n \in S PROVE n + 1 \in S
  <2> DEFINE m == k + n + 1
  <2>1. SUFFICES ASSUME m <= Len(s) PROVE Begin(m)
    BY <1>1
  <2>2. m \in 1..Len(s) /\ m - 1 = k + n /\ m - 1 <= Len(s) /\ m - 1 \in 0..Len(s)
    BY <1>1, <2>1
  <2>3. Begin(m - 1)
    BY <2>2
  <2> HIDE DEF m
  <2>4. Sep(s, zeros, m) \in Seq(Byte) /\ Len(Sep(s, zeros, m)) \in Nat /\ Len(s[m].nal) \in Nat
    BY <2>2, SepType, StreamTypes
  <2>5. /\ Len(UnitsOf(s, zeros, m - 1)) \in Nat
        /\ Len(UnitsOf(s, zeros, m))
             = Len(UnitsOf(s, zeros, m - 1)) + Len(Sep(s, zeros, m)) + Len(s[m].nal)
        /\ \A p \in 1..Len(UnitsOf(s, zeros, m - 1)) :
             UnitsOf(s, zeros, m)[p] = UnitsOf(s, zeros, m - 1)[p]
    BY <2>2, UnitsAdd
  <2> HIDE DEF some
  <2>6. Len(some) <= Len(UnitsOf(s, zeros, m))
    <3> DEFINE a == Len(some)
    <3> DEFINE b == Len(UnitsOf(s, zeros, m - 1))
    <3> DEFINE c == Len(Sep(s, zeros, m))
    <3> DEFINE d == Len(s[m].nal)
    <3> DEFINE e == Len(UnitsOf(s, zeros, m))
    <3>1. a \in Nat /\ b \in Nat /\ c \in Nat /\ d \in Nat
      BY <1>1, <2>4, <2>5
    <3>2. a <= b /\ e = b + c + d
      BY <2>3, <2>5
    <3> HIDE DEF a, b, c, d, e
    <3>3. a <= e
      BY <3>1, <3>2
    <3> QED
      BY <3>3 DEF a, e
  <2>7. ASSUME NEW p \in 1..Len(some) PROVE UnitsOf(s, zeros, m)[p] = some[p]
    <3>1. p \in 1..Len(UnitsOf(s, zeros, m - 1))
      BY <1>1, <2>3, <2>5
    <3> QED
      BY <2>3, <2>5, <3>1
  <2> QED
    BY <2>6, <2>7
<1>4. S = Nat
  <2> HIDE DEF S
  <2> S \in SUBSET Nat
    BY DEF S
  <2> QED
    BY <1>2, <1>3, NatSetInduction
<1>5. Len(s) - k \in S /\ k + (Len(s) - k) = Len(s) /\ Len(s) <= Len(s)
  <2>1. k <= Len(s)
    BY <1>1
  <2> HIDE DEF S
  <2> QED
    BY <1>1, <1>4, <2>1
<1>6. Begin(Len(s))
  BY <1>5
<1> QED
  BY <1>6 DEF BytesOf


\* Where unit k ends, and where the separator of unit k begins that the packetizer sees
\* behind the zeros of the unit before it.
UnitEnd(s, zeros, k) == Len(UnitsOf(s, zeros, k))
SepSize(s, k) == IF Long(s, k) THEN 4 ELSE 3
Front(s, zeros, k) == SepEnd(s, zeros, k) - SepSize(s, k)

\* The bytes from the end of one unit to the end of the next.
LEMMA Layout ==
    ASSUME NEW s \in Streams, NEW zeros \in Nat, NEW k \in 1..Len(s)
    PROVE  LET bytes == BytesOf(s, zeros)
               z == UnitEnd(s, zeros, k - 1)
               e == SepEnd(s, zeros, k)
               u == UnitEnd(s, zeros, k)
               f == Front(s, zeros, k)
           IN  /\ z \in Nat /\ e \in Nat /\ u \in Nat /\ f \in Nat
               /\ u = e + Len(s[k].nal) /\ u <= Len(bytes)
               /\ z <= f /\ f = e - SepSize(s, k)
               /\ (~Long(s, k) => z = f) /\ (k = 1 => z = 0 /\ f = 0)
               /\ \A p \in z + 1..e - 1 : bytes[p] = 0
               /\ bytes[e] = 1
               /\ \A j \in 1..Len(s[k].nal) : bytes[e + j] = s[k].nal[j]
<1> DEFINE before == UnitsOf(s, zeros, k - 1)
<1> DEFINE sep == Sep(s, zeros, k)
<1> DEFINE nal == s[k].nal
<1> DEFINE upTo == UnitsOf(s, zeros, k)
<1> DEFINE bytes == BytesOf(s, zeros)
<1> DEFINE z == UnitEnd(s, zeros, k - 1)
<1> DEFINE e == SepEnd(s, zeros, k)
<1> DEFINE u == UnitEnd(s, zeros, k)
<1> DEFINE f == Front(s, zeros, k)
<1> DEFINE c == Len(sep)
<1> DEFINE d == Len(nal)
<1>1. /\ z \in Nat /\ e = z + c /\ u = z + c + d
      /\ \A j \in 1..c : upTo[z + j] = sep[j]
      /\ \A j \in 1..d : upTo[z + c + j] = nal[j]
  BY UnitsAdd DEF UnitEnd
<1>2. /\ c \in Nat
      /\ IF Long(s, k) THEN c >= 4 /\ (k = 1 => c = 4) ELSE c = 3
      /\ sep[c] = 1
      /\ \A i \in 1..c - 1 : sep[i] = 0
  BY SepType
<1>3. d \in Nat \ {0}
  BY StreamTypes
<1>4. u <= Len(bytes) /\ \A p \in 1..u : bytes[p] = upTo[p]
  <2>1. k \in 0..Len(s)
    BY UnitsAdd
  <2> QED
    BY <2>1, UnitsPrefix DEF UnitEnd
<1>5. k = 1 => z = 0
  <2>1. Len(UnitsOf(s, zeros, 0)) = 0
    BY UnitsStep, EmptySeq
  <2> QED
    BY <2>1 DEF UnitEnd
<1>6. f = e - SepSize(s, k)
  BY DEF Front
<1> HIDE DEF before, sep, nal, upTo, bytes, z, e, u, f, c, d
<1>7. e \in Nat /\ u \in Nat /\ u = e + d
  BY <1>1, <1>2, <1>3
<1>8. f \in Nat /\ z <= f /\ (~Long(s, k) => z = f) /\ (k = 1 => f = 0)
  BY <1>1, <1>2, <1>5, <1>6 DEF SepSize
<1>9. ASSUME NEW p \in z + 1..e - 1 PROVE bytes[p] = 0
  <2>1. p - z \in 1..c - 1 /\ p - z \in 1..c /\ z + (p - z) = p /\ p \in 1..u
    BY <1>1, <1>2, <1>3
  <2> QED
    BY <1>1, <1>2, <1>4, <2>1
<1>10. bytes[e] = 1
  <2>1. c \in 1..c /\ z + c \in 1..u /\ z + c = e
    BY <1>1, <1>2, <1>3
  <2> QED
    BY <1>1, <1>2, <1>4, <2>1
<1>11. ASSUME NEW j \in 1..d PROVE bytes[e + j] = nal[j]
  <2>1. z + c + j \in 1..u /\ e + j = z + c + j
    BY <1>1, <1>2, <1>3
  <2> QED
    BY <1>1, <1>4, <2>1
<1> QED
  BY <1>1, <1>4, <1>5, <1>6, <1>7, <1>8, <1>9, <1>10, <1>11
     DEF bytes, z, e, u, f, c, d, nal

\* The separators are where the encoder has put them, and nowhere else: behind the
\* separator of unit k and to the end of that of the next one, there is that one.
SepAt(bytes, i) == bytes[i] = 0 /\ bytes[i + 1] = 0 /\ bytes[i + 2] = 1

LEMMA ThreeBytes ==
    ASSUME NEW t \in Seq(Byte), NEW j \in 1..Len(t) - 2
    PROVE  SubSeq(t, j, j + 2) = ShortSep <=> SepAt(t, j)
<1> DEFINE r == SubSeq(t, j, j + 2)
<1>1. j \in Nat /\ j + 2 \in Int /\ (j + 2) - j + 1 = 3 /\ j <= j + 2
  OBVIOUS
<1>2. \A n \in j..j + 2 : t[n] \in Byte
  BY ElementOfSeq
<1>3. /\ r \in Seq(Byte) /\ Len(r) = (j + 2) - j + 1
      /\ \A n \in 1..(j + 2) - j + 1 : r[n] = t[j + n - 1]
  BY <1>1, <1>2, SubSeqProperties
<1> HIDE DEF r
<1>4. Len(r) = 3 /\ r[1] = t[j] /\ r[2] = t[j + 1] /\ r[3] = t[j + 2]
  BY <1>1, <1>3
<1>5. /\ ShortSep \in Seq(Byte) /\ Len(ShortSep) = 3
      /\ ShortSep[1] = 0 /\ ShortSep[2] = 0 /\ ShortSep[3] = 1
  BY Constants DEF ShortSep
<1>6. ASSUME SepAt(t, j) PROVE r = ShortSep
  <2>1. \A n \in 1..3 : n = 1 \/ n = 2 \/ n = 3
    OBVIOUS
  <2>2. \A n \in 1..3 : r[n] = ShortSep[n]
    BY <1>4, <1>5, <1>6, <2>1 DEF SepAt
  <2>3. Len(r) = Len(ShortSep) /\ \A n \in 1..Len(r) : r[n] = ShortSep[n]
    BY <1>4, <1>5, <2>2
  <2> QED
    BY <1>3, <1>5, <2>3, SeqEqual
<1>7. ASSUME r = ShortSep PROVE SepAt(t, j)
  BY <1>4, <1>5, <1>7 DEF SepAt
<1> QED
  BY <1>6, <1>7 DEF r

LEMMA NoneInside ==
    ASSUME NEW s \in Streams, NEW zeros \in Nat, NEW k \in 1..Len(s), NEW i \in Nat,
           i + 2 > SepEnd(s, zeros, k), i + 2 <= UnitEnd(s, zeros, k), i > 0
    PROVE  ~SepAt(BytesOf(s, zeros), i)
<1> DEFINE bytes == BytesOf(s, zeros)
<1> DEFINE nal == s[k].nal
<1> DEFINE e == SepEnd(s, zeros, k)
<1> DEFINE u == UnitEnd(s, zeros, k)
<1> DEFINE d == Len(nal)
<1>1. e \in Nat /\ u = e + d /\ bytes[e] = 1 /\ \A j \in 1..d : bytes[e + j] = nal[j]
  BY Layout
<1>2. nal \in Seq(Byte) /\ WellFormed(nal) /\ d \in Nat \ {0}
  BY StreamTypes
<1>3. i + 2 > e /\ i + 2 <= u
  OBVIOUS
<1> HIDE DEF bytes, nal, e, u, d
<1>4. CASE i + 2 = e + 1
  <2>1. i + 1 = e
    BY <1>1, <1>4
  <2> QED
    BY <1>1, <2>1 DEF SepAt, bytes
<1>5. CASE i + 2 = e + 2
  <2>1. i + 1 = e + 1 /\ 1 \in 1..d
    BY <1>1, <1>2, <1>5
  <2>2. nal[1] # 0
    BY <1>2 DEF WellFormed
  <2> QED
    BY <1>1, <2>1, <2>2 DEF SepAt, bytes
<1>6. CASE i + 2 > e + 2
  <2> DEFINE j == i - e
  <2>1. /\ j \in 1..d - 2 /\ j \in 1..d /\ j + 1 \in 1..d /\ j + 2 \in 1..d
        /\ i = e + j /\ i + 1 = e + (j + 1) /\ i + 2 = e + (j + 2)
    BY <1>1, <1>2, <1>3, <1>6
  <2> HIDE DEF j
  <2>2. bytes[i] = nal[j] /\ bytes[i + 1] = nal[j + 1] /\ bytes[i + 2] = nal[j + 2]
    BY <1>1, <2>1
  <2>3. SubSeq(nal, j, j + 2) # ShortSep
    BY <1>2, <2>1 DEF WellFormed, d
  <2>4. ~SepAt(nal, j)
    BY <1>2, <2>1, <2>3, ThreeBytes DEF d
  <2> QED
    BY <2>2, <2>4 DEF SepAt, bytes
<1> QED
  BY <1>1, <1>3, <1>4, <1>5, <1>6

LEMMA OneBetween ==
    ASSUME NEW s \in Streams, NEW zeros \in Nat, NEW k \in 1..Len(s), k < Len(s), NEW i \in Nat,
           i + 2 > SepEnd(s, zeros, k), i + 2 <= SepEnd(s, zeros, k + 1), i > 0
    PROVE  SepAt(BytesOf(s, zeros), i) <=> i + 2 = SepEnd(s, zeros, k + 1)
<1> DEFINE bytes == BytesOf(s, zeros)
<1> DEFINE z == UnitEnd(s, zeros, k)
<1> DEFINE e == SepEnd(s, zeros, k + 1)
<1>0. k + 1 \in 1..Len(s) /\ (k + 1) - 1 = k
  BY StreamTypes
<1>1. /\ z \in Nat /\ e \in Nat /\ e >= z + 3 /\ bytes[e] = 1
      /\ \A p \in z + 1..e - 1 : bytes[p] = 0
  <2> DEFINE m == k + 1
  <2> DEFINE f == Front(s, zeros, m)
  <2>1. m \in 1..Len(s) /\ m - 1 = k
    BY <1>0
  <2> HIDE DEF m
  <2>2. /\ UnitEnd(s, zeros, m - 1) \in Nat /\ SepEnd(s, zeros, m) \in Nat /\ f \in Nat
        /\ UnitEnd(s, zeros, m - 1) <= f /\ f = SepEnd(s, zeros, m) - SepSize(s, m)
        /\ \A p \in UnitEnd(s, zeros, m - 1) + 1..SepEnd(s, zeros, m) - 1 : bytes[p] = 0
        /\ bytes[SepEnd(s, zeros, m)] = 1
    BY <2>1, Layout
  <2>3. z = UnitEnd(s, zeros, m - 1) /\ e = SepEnd(s, zeros, m)
    BY <2>1 DEF m
  <2>4. SepSize(s, m) \in {3, 4}
    BY DEF SepSize
  <2> HIDE DEF z, e, f, bytes
  <2> QED
    BY <2>2, <2>3, <2>4
<1>2. CASE i + 2 <= z
  BY <1>1, <1>2, NoneInside
<1>3. CASE i + 2 > z /\ i + 2 < e
  BY <1>1, <1>3 DEF SepAt
<1>4. CASE i + 2 = e
  <2>1. i \in z + 1..e - 1 /\ i + 1 \in z + 1..e - 1
    BY <1>1, <1>4
  <2> HIDE DEF bytes, z, e
  <2>2. bytes[i] = 0 /\ bytes[i + 1] = 0 /\ bytes[i + 2] = 1
    BY <1>1, <1>4, <2>1
  <2> QED
    BY <1>4, <2>2 DEF SepAt, bytes, e
<1>5. i + 2 <= e
  OBVIOUS
<1> HIDE DEF bytes, z, e
<1> QED
  BY <1>1, <1>2, <1>3, <1>4, <1>5


-----------------------------------------------------------------------------
(* Which separators are found in the buffer. *)

LEMMA LeastIs ==
    ASSUME NEW S \in SUBSET Int, NEW i \in S, \A j \in S : i <= j
    PROVE  Min(S) = i
<1>1. \A j \in S : (\A x \in S : j <= x) => j = i
  OBVIOUS
<1> QED
  BY <1>1 DEF Min

LEMMA GreatestIs ==
    ASSUME NEW S \in SUBSET Int, NEW i \in S, \A j \in S : i >= j
    PROVE  Max(S) = i
<1>1. \A j \in S : (\A x \in S : j >= x) => j = i
  OBVIOUS
<1> QED
  BY <1>1 DEF Max

\* The buffer when it starts with the separator of unit k and e bytes were read.
Held(s, zeros, k, e) == SubSeq(BytesOf(s, zeros), Front(s, zeros, k) + 1, e)
Holds(s, zeros, k, e) ==
    k \in 1..Len(s) /\ e \in Front(s, zeros, k)..Len(BytesOf(s, zeros))

LEMMA HeldIs ==
    ASSUME NEW s \in Streams, NEW zeros \in Nat, NEW k, NEW e, Holds(s, zeros, k, e)
    PROVE  LET b == Held(s, zeros, k, e)
               f == Front(s, zeros, k)
           IN  /\ BytesOf(s, zeros) \in Seq(Byte) /\ Len(BytesOf(s, zeros)) \in Nat
               /\ f \in Nat /\ e \in Nat /\ f <= e /\ e <= Len(BytesOf(s, zeros))
               /\ b \in Seq(Byte) /\ Len(b) = e - f /\ DOMAIN b = 1..e - f
               /\ \A i \in 1..e - f : b[i] = BytesOf(s, zeros)[f + i]
<1> DEFINE bytes == BytesOf(s, zeros)
<1> DEFINE b == Held(s, zeros, k, e)
<1> DEFINE f == Front(s, zeros, k)
<1>1. bytes \in Seq(Byte) /\ Len(bytes) \in Nat
  <2>1. Len(s) \in 0..Len(s)
    BY StreamTypes
  <2> QED
    BY <2>1, UnitsType DEF BytesOf
<1>2. f \in Nat /\ e \in f..Len(bytes)
  BY Layout DEF Holds
<1>3. b = SubSeq(bytes, f + 1, e)
  BY DEF Held
<1> HIDE DEF bytes, b, f
<1>4. e \in Nat /\ f <= e /\ e <= Len(bytes) /\ e - (f + 1) + 1 = e - f
  BY <1>1, <1>2
<1>5. /\ b \in Seq(Byte) /\ Len(b) = IF f + 1 <= e THEN e - (f + 1) + 1 ELSE 0
      /\ \A i \in 1..e - (f + 1) + 1 : b[i] = bytes[(f + 1) + i - 1]
  <2>1. \A i \in f + 1..e : bytes[i] \in Byte
    <3>1. \A i \in f + 1..e : i \in 1..Len(bytes)
      BY <1>1, <1>2, <1>4
    <3> QED
      BY <1>1, <3>1, ElementOfSeq
  <2>2. f + 1 \in Int /\ e \in Int
    BY <1>2, <1>4
  <2> QED
    BY <1>3, <2>1, <2>2, SubSeqProperties
<1>6. Len(b) = e - f
  BY <1>2, <1>4, <1>5
<1>7. ASSUME NEW i \in 1..e - f PROVE b[i] = bytes[f + i]
  <2>1. (f + 1) + i - 1 = f + i
    BY <1>2
  <2> QED
    BY <1>4, <1>5, <2>1
<1>8. DOMAIN b = 1..e - f
  BY <1>5, <1>6, LenProperties
<1> QED
  BY <1>1, <1>2, <1>4, <1>5, <1>6, <1>7, <1>8 DEF bytes, b, f

LEMMA SeparatorsAre ==
    ASSUME NEW s \in Streams, NEW zeros \in Nat, NEW k, NEW e, Holds(s, zeros, k, e), NEW i
    PROVE  i \in Separators(Held(s, zeros, k, e))
             <=> /\ i \in 5..e - Front(s, zeros, k) - 2
                 /\ SepAt(BytesOf(s, zeros), Front(s, zeros, k) + i)
<1> DEFINE bytes == BytesOf(s, zeros)
<1> DEFINE b == Held(s, zeros, k, e)
<1> DEFINE f == Front(s, zeros, k)
<1>1. /\ f \in Nat /\ e \in Nat /\ b \in Seq(Byte) /\ Len(b) = e - f
      /\ \A j \in 1..e - f : b[j] = bytes[f + j]
  <2>1. f \in Nat /\ e \in Nat
    BY HeldIs
  <2>2. b \in Seq(Byte)
    BY HeldIs
  <2>3. Len(b) = e - f
    BY HeldIs
  <2>4. \A j \in 1..e - f : b[j] = bytes[f + j]
    BY HeldIs
  <2> QED
    BY <2>1, <2>2, <2>3, <2>4
<1> HIDE DEF bytes, b, f
<1>2. i \in Separators(b) <=> i \in 5..e - f - 2 /\ SubSeq(b, i, i + 2) = ShortSep
  BY <1>1 DEF Separators
<1>3. ASSUME i \in 5..e - f - 2 PROVE SubSeq(b, i, i + 2) = ShortSep <=> SepAt(bytes, f + i)
  <2>1. i \in 1..Len(b) - 2
    BY <1>1, <1>3
  <2>2. SubSeq(b, i, i + 2) = ShortSep <=> SepAt(b, i)
    BY <1>1, <2>1, ThreeBytes
  <2>3. b[i] = bytes[f + i] /\ b[i + 1] = bytes[f + i + 1] /\ b[i + 2] = bytes[f + i + 2]
    <3>1. /\ i \in 1..e - f /\ i + 1 \in 1..e - f /\ i + 2 \in 1..e - f
          /\ f + (i + 1) = f + i + 1 /\ f + (i + 2) = f + i + 2
      BY <1>1, <1>3
    <3> QED
      BY <1>1, <3>1
  <2> QED
    BY <2>2, <2>3 DEF SepAt
<1> QED
  BY <1>2, <1>3 DEF bytes, b, f

\* No separator but its own while that of the next unit has not come.
LEMMA NoSeparator ==
    ASSUME NEW s \in Streams, NEW zeros \in Nat, NEW k, NEW e, Holds(s, zeros, k, e),
           k < Len(s) => SepEnd(s, zeros, k + 1) > e
    PROVE  Separators(Held(s, zeros, k, e)) = {}
<1> DEFINE f == Front(s, zeros, k)
<1> SUFFICES ASSUME NEW i \in Separators(Held(s, zeros, k, e)) PROVE FALSE
  OBVIOUS
<1>1. i \in 5..e - f - 2 /\ SepAt(BytesOf(s, zeros), f + i)
  BY SeparatorsAre
<1>2. /\ f \in Nat /\ e \in Nat /\ e <= Len(BytesOf(s, zeros)) /\ k \in 1..Len(s)
      /\ Len(s) \in Nat
  BY HeldIs, StreamTypes DEF Holds
<1>3. SepEnd(s, zeros, k) \in Nat /\ f = SepEnd(s, zeros, k) - SepSize(s, k)
  BY <1>2, Layout
<1>4. SepSize(s, k) \in {3, 4}
  BY DEF SepSize
<1> HIDE DEF f
<1>5. f + i \in Nat /\ f + i > 0 /\ f + i + 2 > SepEnd(s, zeros, k) /\ f + i + 2 <= e
  <2> DEFINE c == SepEnd(s, zeros, k)
  <2> DEFINE d == SepSize(s, k)
  <2>1. c \in Nat /\ d \in {3, 4} /\ f = c - d
    BY <1>3, <1>4
  <2>2. i \in 5..e - f - 2 /\ f \in Nat /\ e \in Nat
    BY <1>1, <1>2
  <2> HIDE DEF c, d
  <2>3. f + i \in Nat /\ f + i > 0 /\ f + i + 2 > c /\ f + i + 2 <= e
    BY <2>1, <2>2
  <2> QED
    BY <2>3 DEF c
<1>6. CASE k < Len(s)
  <2>1. SepEnd(s, zeros, k + 1) \in Nat
    <3>1. k + 1 \in 1..Len(s)
      BY <1>2, <1>6
    <3> QED
      BY <3>1, Layout
  <2>2. f + i + 2 < SepEnd(s, zeros, k + 1)
    BY <1>2, <1>5, <1>6, <2>1
  <2> QED
    BY <1>1, <1>2, <1>5, <1>6, <2>1, <2>2, OneBetween
<1>7. CASE k = Len(s)
  <2>1. UnitEnd(s, zeros, k) = Len(BytesOf(s, zeros))
    BY <1>7 DEF UnitEnd, BytesOf
  <2>2. f + i + 2 <= UnitEnd(s, zeros, k)
    BY <1>2, <1>5, <2>1, HeldIs
  <2> QED
    BY <1>1, <1>2, <1>5, <2>2, NoneInside
<1> QED
  BY <1>2, <1>6, <1>7


\* The separator of the next unit, once it has come, is the first that is found.
LEMMA FirstSeparator ==
    ASSUME NEW s \in Streams, NEW zeros \in Nat, NEW k, NEW e, Holds(s, zeros, k, e),
           k < Len(s), SepEnd(s, zeros, k + 1) <= e
    PROVE  LET b == Held(s, zeros, k, e)
               i == SepEnd(s, zeros, k + 1) - 2 - Front(s, zeros, k)
           IN  /\ i \in Separators(b) /\ Min(Separators(b)) = i
               /\ UnitEnd(s, zeros, k) <= Front(s, zeros, k + 1)
               /\ i \in Nat /\ i >= 5
<1> DEFINE b == Held(s, zeros, k, e)
<1> DEFINE f == Front(s, zeros, k)
<1> DEFINE c == SepEnd(s, zeros, k)
<1> DEFINE d == SepSize(s, k)
<1> DEFINE u == UnitEnd(s, zeros, k)
<1> DEFINE m == k + 1
<1> DEFINE c2 == SepEnd(s, zeros, m)
<1> DEFINE d2 == SepSize(s, m)
<1> DEFINE f2 == Front(s, zeros, m)
<1> DEFINE i == c2 - 2 - f
<1>1. /\ k \in 1..Len(s) /\ m \in 1..Len(s) /\ m - 1 = k /\ f \in Nat /\ e \in Nat
  BY HeldIs, StreamTypes DEF Holds
<1>2. c \in Nat /\ u \in Nat /\ u > c /\ f = c - d
  <2>1. Len(s[k].nal) \in Nat \ {0}
    BY <1>1, StreamTypes
  <2>2. c \in Nat /\ u \in Nat /\ u = c + Len(s[k].nal) /\ f = c - d
    BY <1>1, Layout
  <2> DEFINE n == Len(s[k].nal)
  <2> HIDE DEF c, u, f, d, n
  <2>3. n \in Nat \ {0} /\ u = c + n
    BY <2>1, <2>2 DEF n
  <2> QED
    BY <2>2, <2>3
<1>3. c2 \in Nat /\ f2 \in Nat /\ u <= f2 /\ f2 = c2 - d2
  <2> HIDE DEF m
  <2>1. UnitEnd(s, zeros, m - 1) <= f2 /\ c2 \in Nat /\ f2 \in Nat /\ f2 = c2 - d2
    BY <1>1, Layout
  <2> QED
    BY <1>1, <2>1
<1>4. d \in {3, 4} /\ d2 \in {3, 4}
  BY DEF SepSize
<1>5. c2 <= e
  OBVIOUS
<1> HIDE DEF b, f, c, d, u, c2, d2, f2
<1>6. /\ i \in 5..e - f - 2 /\ i \in Nat /\ i >= 5 /\ f + i = c2 - 2
      /\ f + i \in Nat /\ f + i > 0 /\ f + i + 2 = c2 /\ f + i + 2 > c
  BY <1>1, <1>2, <1>3, <1>4, <1>5
<1>7. SepAt(BytesOf(s, zeros), f + i)
  <2>1. f + i + 2 > SepEnd(s, zeros, k) /\ f + i + 2 = SepEnd(s, zeros, k + 1)
    BY <1>6 DEF c, c2, m
  <2> HIDE DEF i, m
  <2>2. f + i + 2 <= SepEnd(s, zeros, k + 1)
    BY <1>3, <2>1 DEF c2, m
  <2> QED
    BY <1>1, <1>6, <2>1, <2>2, OneBetween
<1>8. i \in Separators(b)
  BY <1>6, <1>7, SeparatorsAre DEF b, f
<1>9. ASSUME NEW j \in Separators(b) PROVE i <= j
  <2>1. j \in 5..e - f - 2 /\ SepAt(BytesOf(s, zeros), f + j)
    BY SeparatorsAre DEF b, f
  <2>2. SUFFICES ASSUME j < i PROVE FALSE
    BY <1>6, <2>1
  <2>3. /\ f + j \in Nat /\ f + j > 0 /\ f + j + 2 > c /\ f + j + 2 < c2
    BY <1>1, <1>2, <1>3, <1>4, <1>6, <2>1, <2>2
  <2>4. /\ f + j + 2 > SepEnd(s, zeros, k) /\ f + j + 2 <= SepEnd(s, zeros, k + 1)
        /\ f + j + 2 # SepEnd(s, zeros, k + 1)
    BY <1>3, <2>3 DEF c, c2, m
  <2> QED
    BY <1>1, <2>1, <2>3, <2>4, OneBetween
<1>10. Min(Separators(b)) = i
  <2>1. Separators(b) \in SUBSET Int
    BY DEF Separators
  <2> HIDE DEF i
  <2> QED
    BY <1>8, <1>9, <2>1, LeastIs
<1> QED
  BY <1>3, <1>6, <1>8, <1>10 DEF b, f, u, c2, f2, m

\* What is left of a unit without the zeros behind it is the unit.
LEMMA TrimmedIs ==
    ASSUME NEW t \in Seq(Byte), NEW d \in 1..Len(t), t[d] # 0,
           \A j \in d + 1..Len(t) : t[j] = 0, NEW nal \in Seq(Byte), Len(nal) = d,
           \A j \in 1..d : t[j] = nal[j]
    PROVE  TrimZeros(t) = nal
<1> DEFINE S == {i \in DOMAIN t : t[i] # 0}
<1>0. Len(t) \in Nat /\ DOMAIN t = 1..Len(t)
  BY LenProperties
<1>1. d \in S /\ S \in SUBSET Int
  BY <1>0
<1>2. ASSUME NEW j \in S PROVE d >= j
  <2>1. j \in 1..Len(t) /\ t[j] # 0
    BY <1>0
  <2> QED
    BY <1>0, <2>1
<1>3. Max(S) = d
  <2> HIDE DEF S
  <2> QED
    BY <1>1, <1>2, GreatestIs
<1>4. TrimZeros(t) = SubSeq(t, 1, d)
  BY <1>3 DEF TrimZeros
<1> HIDE DEF S
<1> DEFINE r == SubSeq(t, 1, d)
<1>5. r \in Seq(Byte) /\ Len(r) = d /\ \A j \in 1..d : r[j] = t[j]
  <2>1. \A j \in 1..d : t[j] \in Byte
    BY <1>0, ElementOfSeq
  <2>2. 1 \in Int /\ d \in Int /\ 1 <= d /\ d - 1 + 1 = d
    BY <1>0
  <2>3. /\ r \in Seq(Byte) /\ Len(r) = d - 1 + 1
        /\ \A j \in 1..d - 1 + 1 : r[j] = t[1 + j - 1]
    BY <2>1, <2>2, SubSeqProperties
  <2>4. \A j \in 1..d : 1 + j - 1 = j
    OBVIOUS
  <2> QED
    BY <2>2, <2>3, <2>4
<1> HIDE DEF r
<1>6. Len(r) = Len(nal) /\ \A j \in 1..Len(r) : r[j] = nal[j]
  BY <1>5
<1>7. r = nal
  BY <1>5, <1>6, SeqEqual
<1> QED
  BY <1>4, <1>7 DEF r


\* What a round takes from the buffer is unit k, and what it leaves starts with the
\* separator of the next.
LEMMA CutIs ==
    ASSUME NEW s \in Streams, NEW zeros \in Nat, NEW k, NEW e, Holds(s, zeros, k, e),
           k < Len(s), SepEnd(s, zeros, k + 1) <= e
    PROVE  LET b == Held(s, zeros, k, e)
               found == Min(Separators(b))
               nextShort == b[found - 1] # 0
               it == IF nextShort THEN found ELSE found - 1
           IN  /\ nextShort <=> ~Long(s, k + 1)
               /\ SubSeq(b, it, Len(b)) = Held(s, zeros, k + 1, e)
               /\ TrimZeros(SubSeq(b, IF Long(s, k) THEN 5 ELSE 4, it - 1)) = s[k].nal
               /\ Holds(s, zeros, k + 1, e)
               /\ Len(Held(s, zeros, k + 1, e)) + 4 <= Len(b)
<1> DEFINE bytes == BytesOf(s, zeros)
<1> DEFINE b == Held(s, zeros, k, e)
<1> DEFINE f == Front(s, zeros, k)
<1> DEFINE c == SepEnd(s, zeros, k)
<1> DEFINE d == SepSize(s, k)
<1> DEFINE u == UnitEnd(s, zeros, k)
<1> DEFINE nal == s[k].nal
<1> DEFINE n == Len(nal)
<1> DEFINE m == k + 1
<1> DEFINE c2 == SepEnd(s, zeros, m)
<1> DEFINE d2 == SepSize(s, m)
<1> DEFINE f2 == Front(s, zeros, m)
<1> DEFINE i == c2 - 2 - f
<1> DEFINE found == Min(Separators(b))
<1> DEFINE nextShort == b[found - 1] # 0
<1> DEFINE it == IF nextShort THEN found ELSE found - 1
<1>1. /\ k \in 1..Len(s) /\ m \in 1..Len(s) /\ m - 1 = k
  BY StreamTypes DEF Holds
<1>2. /\ f \in Nat /\ e \in Nat /\ bytes \in Seq(Byte) /\ Len(bytes) \in Nat /\ e <= Len(bytes)
  BY HeldIs
<1>3. b \in Seq(Byte) /\ Len(b) = e - f
  BY HeldIs
<1>4. \A j \in 1..e - f : b[j] = bytes[f + j]
  BY HeldIs
<1>5. /\ nal \in Seq(Byte) /\ WellFormed(nal) /\ n \in Nat \ {0}
  BY <1>1, StreamTypes
<1>6. c \in Nat /\ u \in Nat /\ u = c + n /\ f = c - d
  BY <1>1, Layout
<1>7. \A j \in 1..n : bytes[c + j] = nal[j]
  BY <1>1, Layout
<1>8. c2 \in Nat /\ f2 \in Nat /\ u <= f2 /\ f2 = c2 - d2
  <2> HIDE DEF m
  <2>1. UnitEnd(s, zeros, m - 1) <= f2 /\ c2 \in Nat /\ f2 \in Nat /\ f2 = c2 - d2
    BY <1>1, Layout
  <2> QED
    BY <1>1, <2>1
<1>9. \A p \in u + 1..c2 - 1 : bytes[p] = 0
  <2> HIDE DEF m
  <2>1. \A p \in UnitEnd(s, zeros, m - 1) + 1..c2 - 1 : bytes[p] = 0
    BY <1>1, Layout
  <2> QED
    BY <1>1, <2>1
<1>10. ~Long(s, m) => u = f2
  <2> HIDE DEF m
  <2>1. ~Long(s, m) => UnitEnd(s, zeros, m - 1) = f2
    BY <1>1, Layout
  <2> QED
    BY <1>1, <2>1
<1>11. d = (IF Long(s, k) THEN 4 ELSE 3) /\ d2 = (IF Long(s, m) THEN 4 ELSE 3)
  BY DEF SepSize
<1>12. found = i /\ i \in Nat /\ i >= 5
  BY FirstSeparator
<1>13. c2 <= e
  OBVIOUS
<1> HIDE DEF bytes, b, f, c, d, u, nal, n, m, c2, d2, f2, found
<1>14. nextShort <=> ~Long(s, m)
  <2>1. found - 1 = c2 - 3 - f /\ found - 1 \in 1..e - f /\ f + (found - 1) = c2 - 3
    BY <1>2, <1>8, <1>12, <1>13
  <2>2. b[found - 1] = bytes[c2 - 3]
    BY <1>4, <2>1
  <2>3. CASE Long(s, m)
    <3>1. c2 - 3 \in u + 1..c2 - 1
      BY <1>6, <1>8, <1>11, <2>3
    <3> QED
      BY <1>9, <2>2, <2>3, <3>1
  <2>4. CASE ~Long(s, m)
    <3>1. c2 - 3 = c + n /\ n \in 1..n
      BY <1>5, <1>6, <1>8, <1>10, <1>11, <2>4
    <3>2. bytes[c2 - 3] = nal[n]
      BY <1>7, <3>1
    <3>3. nal[n] # 0
      BY <1>5 DEF WellFormed, n
    <3> QED
      BY <2>2, <2>4, <3>2, <3>3
  <2> QED
    BY <2>3, <2>4
<1>15. it = f2 - f + 1 /\ it \in 1..e - f /\ it - 1 = f2 - f
  <2> HIDE DEF nextShort
  <2>1. CASE Long(s, m)
    BY <1>2, <1>6, <1>8, <1>11, <1>12, <1>13, <1>14, <2>1
  <2>2. CASE ~Long(s, m)
    BY <1>2, <1>6, <1>8, <1>11, <1>12, <1>13, <1>14, <2>2
  <2> QED
    BY <2>1, <2>2
<1> HIDE DEF it
<1>16. SubSeq(b, it, Len(b)) = SubSeq(bytes, f2 + 1, e)
  <2>1. b = SubSeq(bytes, f + 1, e)
    BY DEF b, Held, bytes, f
  <2>2. /\ f + 1 \in 1..Len(bytes) /\ e \in 1..Len(bytes) /\ it \in 1..e - (f + 1) + 1
        /\ e - f \in 1..e - (f + 1) + 1 /\ (f + 1) + it - 1 = f2 + 1 /\ (f + 1) + (e - f) - 1 = e
    BY <1>2, <1>8, <1>13, <1>15
  <2>3. SubSeq(SubSeq(bytes, f + 1, e), it, e - f)
          = SubSeq(bytes, (f + 1) + it - 1, (f + 1) + (e - f) - 1)
    BY <1>2, <2>2, SubSeqOfSubSeq
  <2> QED
    BY <1>3, <2>1, <2>2, <2>3
<1>17. TrimZeros(SubSeq(b, d + 1, it - 1)) = nal
  <2> DEFINE t == SubSeq(b, d + 1, it - 1)
  <2>1. /\ d + 1 \in Int /\ it - 1 \in Int /\ d + 1 <= it - 1
        /\ (it - 1) - (d + 1) + 1 = f2 - c /\ f2 - c >= n /\ f2 - c \in Nat
        /\ \A j \in d + 1..it - 1 : j \in 1..e - f
    BY <1>2, <1>5, <1>6, <1>8, <1>11, <1>15
  <2>2. \A j \in d + 1..it - 1 : b[j] \in Byte
    BY <1>3, <2>1, ElementOfSeq
  <2>3. /\ t \in Seq(Byte) /\ Len(t) = (it - 1) - (d + 1) + 1
        /\ \A j \in 1..(it - 1) - (d + 1) + 1 : t[j] = b[(d + 1) + j - 1]
    BY <2>1, <2>2, SubSeqProperties
  <2> HIDE DEF t
  <2>4. Len(t) = f2 - c
    BY <2>1, <2>3
  <2>5. ASSUME NEW j \in 1..f2 - c PROVE t[j] = bytes[c + j]
    <3>1. /\ (d + 1) + j - 1 \in 1..e - f /\ f + ((d + 1) + j - 1) = c + j
      BY <1>2, <1>6, <1>8, <1>11, <1>13, <1>15
    <3>2. t[j] = b[(d + 1) + j - 1]
      BY <2>1, <2>3
    <3> QED
      BY <1>4, <3>1, <3>2
  <2>6. n \in 1..Len(t)
    BY <1>5, <2>1, <2>4
  <2>7. ASSUME NEW j \in 1..n PROVE t[j] = nal[j]
    <3>1. j \in 1..f2 - c
      BY <1>5, <2>1
    <3> QED
      BY <1>7, <2>5, <3>1
  <2>8. t[n] # 0
    <3>1. nal[n] # 0 /\ n \in 1..n
      BY <1>5 DEF WellFormed, n
    <3> QED
      BY <2>7, <3>1
  <2>9. ASSUME NEW j \in n + 1..Len(t) PROVE t[j] = 0
    <3>1. j \in 1..f2 - c /\ c + j \in u + 1..c2 - 1
      BY <1>5, <1>6, <1>8, <1>11, <2>4
    <3> QED
      BY <1>9, <2>5, <3>1
  <2>10. Len(nal) = n
    BY DEF n
  <2> QED
    BY <1>5, <2>3, <2>6, <2>7, <2>8, <2>9, <2>10, TrimmedIs DEF t
<1>18. d + 1 = (IF Long(s, k) THEN 5 ELSE 4)
  BY <1>11
<1>19. f2 \in Nat /\ e \in f2..Len(bytes)
  BY <1>2, <1>8, <1>11, <1>13
<1>20. Holds(s, zeros, m, e)
  BY <1>1, <1>19 DEF Holds, f2, bytes
<1>21. Len(Held(s, zeros, m, e)) + 4 <= Len(b)
  <2>1. Len(Held(s, zeros, m, e)) = e - f2
    BY <1>20, HeldIs DEF f2
  <2>2. f2 >= f + 4
    BY <1>2, <1>5, <1>6, <1>8, <1>11
  <2> QED
    BY <1>2, <1>3, <1>8, <1>19, <2>1, <2>2
<1>22. Held(s, zeros, m, e) = SubSeq(bytes, f2 + 1, e)
  BY DEF Held, bytes, f2
<1> QED
  BY <1>14, <1>16, <1>17, <1>18, <1>20, <1>21, <1>22 DEF b, nal, m, it, found

-----------------------------------------------------------------------------
(* The packets of a unit. *)

\* As many fragments as it takes.
LEMMA RoundedUp ==
    ASSUME NEW a \in Nat \ {0}, NEW b \in Nat \ {0}
    PROVE  LET n == (a + b - 1) \div b
           IN  n \in Nat \ {0} /\ (n - 1) * b < a /\ a <= n * b
<1> DEFINE c == a + b - 1
<1> DEFINE n == c \div b
<1>1. c \in Nat /\ c >= b /\ b > 0
  OBVIOUS
<1>2. n \in Nat /\ n * b <= c /\ c < (n + 1) * b
  BY <1>1
<1> HIDE DEF n
<1>3. (n + 1) * b = n * b + b /\ (n - 1) * b = n * b - b
  BY <1>2
<1>4. n # 0
  BY <1>1, <1>2, <1>3
<1> QED
  BY <1>1, <1>2, <1>3, <1>4 DEF n


\* What is sent: whole units and fragments.
Payloads == [fu : BOOLEAN, start : BOOLEAN, end : BOOLEAN, type : Byte, data : Seq(Byte)]
RtpPackets == [seq : Nat, timestamp : Nat, mark : BOOLEAN, payload : Payloads]

\* How many bytes behind the header are in the first j fragments, of a bytes.
PartEnd(a, j) == IF j * MTU <= a THEN j * MTU ELSE a

LEMMA PartEnds ==
    ASSUME NEW a \in Nat \ {0}
    PROVE  LET n == (a + MTU - 1) \div MTU
           IN  /\ n \in Nat \ {0} /\ PartEnd(a, 0) = 0 /\ PartEnd(a, n) = a
               /\ \A j \in 0..n : PartEnd(a, j) \in 0..a
               /\ \A j \in 1..n :
                    /\ PartEnd(a, j - 1) = (j - 1) * MTU /\ PartEnd(a, j - 1) <= PartEnd(a, j)
                    /\ a - (j - 1) * MTU \in Nat \ {0}
                    /\ PartEnd(a, j) = IF MTU <= a - (j - 1) * MTU THEN (j - 1) * MTU + MTU ELSE a
<1> DEFINE n == (a + MTU - 1) \div MTU
<1>1. n \in Nat \ {0} /\ (n - 1) * MTU < a /\ a <= n * MTU
  <2>1. MTU \in Nat \ {0}
    BY Constants
  <2> QED
    BY <2>1, RoundedUp
<1>2. MTU \in Nat /\ MTU > 1
  BY Constants
<1> HIDE DEF n
<1>3. \A x, y, z \in Nat : x <= y => x * z <= y * z
  <2> SUFFICES ASSUME NEW x \in Nat, NEW y \in Nat, NEW z \in Nat, x <= y PROVE x * z <= y * z
    OBVIOUS
  <2>1. (y - x) * z \in Nat /\ y - x \in Nat
    OBVIOUS
  <2>2. (y - x) * z = y * z - x * z
    OBVIOUS
  <2> QED
    BY <2>1, <2>2
<1>4. PartEnd(a, 0) = 0
  BY <1>2 DEF PartEnd
<1>5. PartEnd(a, n) = a
  BY <1>1, <1>2 DEF PartEnd
<1>6. ASSUME NEW j \in 0..n PROVE PartEnd(a, j) \in 0..a
  <2>1. j \in Nat /\ j * MTU \in Nat
    BY <1>1, <1>2
  <2> QED
    BY <2>1 DEF PartEnd
<1>7. ASSUME NEW j \in 1..n
      PROVE  /\ PartEnd(a, j - 1) = (j - 1) * MTU /\ PartEnd(a, j - 1) <= PartEnd(a, j)
             /\ a - (j - 1) * MTU \in Nat \ {0}
             /\ PartEnd(a, j) = IF MTU <= a - (j - 1) * MTU THEN (j - 1) * MTU + MTU ELSE a
  <2>1. j - 1 \in Nat /\ n - 1 \in Nat /\ j - 1 <= n - 1
    BY <1>1
  <2> DEFINE x == (j - 1) * MTU
  <2>2. x \in Nat /\ x < a
    <3>1. x <= (n - 1) * MTU
      BY <1>2, <1>3, <2>1
    <3>2. (n - 1) * MTU \in Nat /\ x \in Nat
      BY <1>2, <2>1
    <3> HIDE DEF x
    <3> QED
      BY <1>1, <3>1, <3>2
  <2>3. j * MTU = x + MTU
    BY <1>1, <1>2
  <2> HIDE DEF x
  <2>4. PartEnd(a, j - 1) = x
    BY <2>2 DEF PartEnd, x
  <2>5. PartEnd(a, j) = IF x + MTU <= a THEN x + MTU ELSE a
    BY <2>3 DEF PartEnd
  <2>6. /\ x <= PartEnd(a, j) /\ a - x \in Nat \ {0}
        /\ PartEnd(a, j) = IF MTU <= a - x THEN x + MTU ELSE a
    BY <1>2, <2>2, <2>5
  <2> QED
    BY <2>4, <2>6 DEF x
<1> QED
  BY <1>1, <1>4, <1>5, <1>6, <1>7 DEF n

LEMMA HeadAndRest ==
    ASSUME NEW nal \in Seq(Byte), nal # <<>>
    PROVE  /\ nal[1] \in Byte /\ Tail(nal) \in Seq(Byte) /\ Len(Tail(nal)) = Len(nal) - 1
           /\ nal = <<nal[1]>> \o Tail(nal)
<1>1. Len(nal) \in Nat \ {0}
  BY EmptySeq
<1>2. nal[1] \in Byte
  <2>1. 1 \in 1..Len(nal)
    BY <1>1
  <2> QED
    BY <2>1, ElementOfSeq
<1>3. /\ Tail(nal) \in Seq(Byte) /\ Len(Tail(nal)) = Len(nal) - 1
      /\ \A i \in 1..Len(Tail(nal)) : Tail(nal)[i] = nal[i + 1]
  BY HeadTailProperties
<1> DEFINE h == <<nal[1]>>
<1> DEFINE t == h \o Tail(nal)
<1>4. h \in Seq(Byte) /\ Len(h) = 1 /\ h[1] = nal[1]
  BY <1>2
<1> HIDE DEF h
<1>5. /\ t \in Seq(Byte) /\ Len(t) = Len(h) + Len(Tail(nal))
      /\ \A i \in 1..Len(h) + Len(Tail(nal)) :
           t[i] = IF i <= Len(h) THEN h[i] ELSE Tail(nal)[i - Len(h)]
  <2> h \in Seq(Byte) /\ Tail(nal) \in Seq(Byte)
    BY <1>3, <1>4
  <2> QED
    BY ConcatProperties
<1> HIDE DEF t
<1>6. Len(t) = Len(nal)
  BY <1>1, <1>3, <1>4, <1>5
<1>7. ASSUME NEW i \in 1..Len(t) PROVE t[i] = nal[i]
  <2>1. i \in 1..Len(h) + Len(Tail(nal))
    BY <1>5, <1>7
  <2>2. CASE i = 1
    BY <1>4, <1>5, <2>1, <2>2
  <2>3. CASE i # 1
    <3>1. ~(i <= Len(h)) /\ i - Len(h) = i - 1 /\ i - 1 \in 1..Len(Tail(nal)) /\ (i - 1) + 1 = i
      BY <1>1, <1>3, <1>4, <1>6, <1>7, <2>3
    <3> QED
      BY <1>3, <1>5, <2>1, <3>1
  <2> QED
    BY <2>2, <2>3
<1>8. t = nal
  BY <1>5, <1>6, <1>7, SeqEqual
<1> QED
  BY <1>2, <1>3, <1>8 DEF t, h

\* The fragments of a unit hold what is behind its header, in order.
LEMMA FragmentsAre ==
    ASSUME NEW nal \in Seq(Byte), Len(nal) >= MTU
    PROVE  LET t == Fragments(nal)
               body == Tail(nal)
               a == Len(body)
           IN  /\ a \in Nat \ {0}
               /\ t \in Seq(Payloads) /\ Len(t) = (a + MTU - 1) \div MTU
               /\ \A j \in 1..Len(t) :
                    /\ t[j].fu /\ (t[j].start <=> j = 1) /\ t[j].type = nal[1]
                    /\ t[j].data = SubSeq(body, PartEnd(a, j - 1) + 1, PartEnd(a, j))
<1> DEFINE t == Fragments(nal)
<1> DEFINE body == Tail(nal)
<1> DEFINE a == Len(body)
<1> DEFINE n == (a + MTU - 1) \div MTU
<1> DEFINE size(j) == Min({MTU, a - (j - 1) * MTU})
<1> DEFINE part(j) == [fu |-> TRUE, start |-> j = 1, end |-> size(j) # MTU, type |-> nal[1],
                       data |-> SubSeq(body, (j - 1) * MTU + 1, (j - 1) * MTU + size(j))]
<1>1. MTU \in Nat /\ MTU > 1
  BY Constants
<1>2. nal # <<>> /\ nal[1] \in Byte /\ body \in Seq(Byte) /\ a \in Nat \ {0}
  <2>1. Len(nal) \in Nat
    BY LenProperties
  <2>2. nal # <<>>
    BY <1>1, <2>1, EmptySeq
  <2>3. nal[1] \in Byte /\ body \in Seq(Byte) /\ a = Len(nal) - 1
    BY <2>2, HeadAndRest
  <2> HIDE DEF a, body
  <2> QED
    BY <1>1, <2>1, <2>2, <2>3
<1>3. t = [j \in 1..n |-> part(j)]
  BY DEF Fragments
<1> HIDE DEF t, body, a
<1>4. /\ n \in Nat \ {0}
      /\ \A j \in 0..n : PartEnd(a, j) \in 0..a
      /\ \A j \in 1..n :
            /\ PartEnd(a, j - 1) = (j - 1) * MTU /\ PartEnd(a, j - 1) <= PartEnd(a, j)
            /\ a - (j - 1) * MTU \in Nat \ {0}
            /\ PartEnd(a, j) = IF MTU <= a - (j - 1) * MTU THEN (j - 1) * MTU + MTU ELSE a
  BY <1>2, PartEnds
<1> HIDE DEF n
<1>5. ASSUME NEW j \in 1..n
      PROVE  /\ part(j).data = SubSeq(body, PartEnd(a, j - 1) + 1, PartEnd(a, j))
             /\ part(j) \in Payloads
  <2> DEFINE x == (j - 1) * MTU
  <2> DEFINE r == a - x
  <2>1. /\ PartEnd(a, j - 1) = x /\ r \in Nat \ {0} /\ x \in Nat
        /\ PartEnd(a, j) = IF MTU <= r THEN x + MTU ELSE a
        /\ PartEnd(a, j) \in 0..a
    <3>1. j \in 0..n /\ j - 1 \in Nat
      BY <1>4
    <3>2. x \in Nat
      BY <1>1, <3>1
    <3> QED
      BY <1>4, <3>1, <3>2
  <2>2. size(j) = IF MTU <= r THEN MTU ELSE r
    <3> DEFINE S == {MTU, r}
    <3> HIDE DEF r, x
    <3>1. CASE MTU <= r
      <4>1. S \in SUBSET Int /\ MTU \in S /\ \A y \in S : MTU <= y
        BY <1>1, <2>1, <3>1
      <4>2. Min(S) = MTU
        BY <4>1, LeastIs
      <4> QED
        BY <3>1, <4>2 DEF r, x
    <3>2. CASE ~(MTU <= r)
      <4>1. S \in SUBSET Int /\ r \in S /\ \A y \in S : r <= y
        BY <1>1, <2>1, <3>2
      <4>2. Min(S) = r
        BY <4>1, LeastIs
      <4> QED
        BY <3>2, <4>2 DEF r, x
    <3> QED
      BY <3>1, <3>2
  <2>3. x + size(j) = PartEnd(a, j) /\ size(j) \in Nat
    <3> DEFINE z == size(j)
    <3>1. z = IF MTU <= r THEN MTU ELSE r
      BY <2>2
    <3>2. x + r = a
      BY <1>2, <2>1
    <3> HIDE DEF z, x, r
    <3>3. x + z = PartEnd(a, j) /\ z \in Nat
      BY <1>1, <2>1, <3>1, <3>2
    <3> QED
      BY <3>3 DEF z, x
  <2>4. part(j).data = SubSeq(body, PartEnd(a, j - 1) + 1, PartEnd(a, j))
    <3>1. part(j).data = SubSeq(body, x + 1, x + size(j))
      OBVIOUS
    <3> HIDE DEF part
    <3> QED
      BY <2>1, <2>3, <3>1
  <2>5. part(j).data \in Seq(Byte)
    <3>1. PartEnd(a, j - 1) + 1 \in Int /\ PartEnd(a, j) \in Int
      BY <2>1
    <3>2. \A i \in PartEnd(a, j - 1) + 1..PartEnd(a, j) : body[i] \in Byte
      <4>1. \A i \in PartEnd(a, j - 1) + 1..PartEnd(a, j) : i \in 1..Len(body)
        BY <2>1 DEF a
      <4> QED
        BY <1>2, <4>1, ElementOfSeq
    <3> HIDE DEF part
    <3> QED
      BY <2>4, <3>1, <3>2, SubSeqProperties
  <2>6. (size(j) # MTU) \in BOOLEAN
    OBVIOUS
  <2> HIDE DEF size
  <2>7. part(j) \in Payloads
    BY <1>2, <2>5 DEF Payloads
  <2> QED
    BY <2>4, <2>7
<1>6. /\ \A j \in 1..n : t[j] = part(j) /\ t[j] \in Payloads
      /\ t \in [1..n -> Payloads]
  <2> HIDE DEF part
  <2> QED
    BY <1>3, <1>5
<1>7. t \in Seq(Payloads) /\ Len(t) = n
  BY <1>4, <1>6
<1>8. ASSUME NEW j \in 1..n
      PROVE  /\ t[j].fu /\ (t[j].start <=> j = 1) /\ t[j].type = nal[1]
             /\ t[j].data = SubSeq(body, PartEnd(a, j - 1) + 1, PartEnd(a, j))
  <2>1. part(j).fu /\ (part(j).start <=> j = 1) /\ part(j).type = nal[1]
    OBVIOUS
  <2> HIDE DEF part
  <2> QED
    BY <1>5, <1>6, <2>1
<1> QED
  BY <1>2, <1>7, <1>8 DEF t, body, a, n


\* The payloads t of the unit nal: itself, or its fragments.
IsWholeUnit(t, nal) == Len(t) = 1 /\ ~t[1].fu /\ t[1].data = nal
IsCut(t, nal) ==
    LET a == Len(Tail(nal))
    IN  /\ a \in Nat \ {0} /\ Len(t) = (a + MTU - 1) \div MTU
        /\ \A j \in 1..Len(t) :
             /\ t[j].fu /\ (t[j].start <=> j = 1) /\ t[j].type = nal[1]
             /\ t[j].data = SubSeq(Tail(nal), PartEnd(a, j - 1) + 1, PartEnd(a, j))

\* The payloads that packetize() makes.
VecOf(nal) == IF Len(nal) < MTU THEN <<Whole(nal)>> ELSE Fragments(nal)

LEMMA VecIs ==
    ASSUME NEW nal \in Seq(Byte), nal # <<>>
    PROVE  LET t == VecOf(nal)
           IN  /\ t \in Seq(Payloads) /\ Len(t) \in Nat \ {0}
               /\ IsWholeUnit(t, nal) \/ IsCut(t, nal)
<1> DEFINE t == VecOf(nal)
<1>0. Len(nal) \in Nat /\ MTU \in Nat
  BY Constants, LenProperties
<1>1. CASE Len(nal) < MTU
  <2>1. t = <<Whole(nal)>>
    BY <1>1 DEF VecOf
  <2>2. Whole(nal) \in Payloads
    BY HeadAndRest DEF Whole, Payloads
  <2>3. ~Whole(nal).fu /\ Whole(nal).data = nal
    BY DEF Whole
  <2> HIDE DEF t
  <2>4. t \in Seq(Payloads) /\ Len(t) = 1 /\ t[1] = Whole(nal)
    BY <2>1, <2>2
  <2> QED
    BY <2>3, <2>4 DEF IsWholeUnit, t
<1>2. CASE ~(Len(nal) < MTU)
  <2>1. t = Fragments(nal)
    BY <1>2 DEF VecOf
  <2>2. Len(nal) >= MTU
    BY <1>0, <1>2
  <2>3. /\ Len(Tail(nal)) \in Nat \ {0}
        /\ Fragments(nal) \in Seq(Payloads)
        /\ Len(Fragments(nal)) = (Len(Tail(nal)) + MTU - 1) \div MTU
    BY <2>2, FragmentsAre
  <2>4. \A j \in 1..Len(Fragments(nal)) :
          /\ Fragments(nal)[j].fu /\ (Fragments(nal)[j].start <=> j = 1)
          /\ Fragments(nal)[j].type = nal[1]
          /\ Fragments(nal)[j].data
               = SubSeq(Tail(nal), PartEnd(Len(Tail(nal)), j - 1) + 1, PartEnd(Len(Tail(nal)), j))
    BY <2>2, FragmentsAre
  <2>5. Len(Fragments(nal)) \in Nat \ {0}
    <3> DEFINE a == Len(Tail(nal))
    <3>1. (a + MTU - 1) \div MTU \in Nat \ {0}
      <4>1. a \in Nat \ {0}
        BY <2>3
      <4> HIDE DEF a
      <4> QED
        BY <4>1, PartEnds
    <3> QED
      BY <2>3, <3>1
  <2> HIDE DEF t
  <2> QED
    BY <2>1, <2>3, <2>4, <2>5 DEF IsCut, t
<1> QED
  BY <1>1, <1>2

\* What rtc::RtpPacketizer and the marker add.
Header == [seq : Nat, timestamp : Nat]
PacketsOf(nal, mark, header) == Packetize([NalUnit(nal) EXCEPT !.shouldMark = mark], header)

LEMMA PacketsAre ==
    ASSUME NEW nal \in Seq(Byte), nal # <<>>, NEW header \in Header, NEW mark \in BOOLEAN
    PROVE  LET t == PacketsOf(nal, mark, header)
           IN  /\ t \in Seq(RtpPackets) /\ Len(t) \in Nat \ {0} /\ Len(t) = Len(VecOf(nal))
               /\ \A j \in 1..Len(t) :
                    /\ t[j].seq = header.seq + j /\ t[j].timestamp = header.timestamp
                    /\ t[j].mark <=> mark /\ j = Len(t)
                    /\ t[j].payload = VecOf(nal)[j]
                    /\ Begins(t[j]) <=> j = 1
<1> DEFINE t == PacketsOf(nal, mark, header)
<1> DEFINE v == VecOf(nal)
<1> DEFINE n == Len(v)
<1>1. v \in Seq(Payloads) /\ n \in Nat \ {0} /\ (IsWholeUnit(v, nal) \/ IsCut(v, nal))
  BY VecIs
<1>2. DOMAIN v = 1..n /\ \A j \in 1..n : v[j] \in Payloads
  BY <1>1, LenProperties, ElementOfSeq
<1> DEFINE p(j) == [seq |-> header.seq + j, timestamp |-> header.timestamp,
                    mark |-> mark /\ j = n, payload |-> v[j]]
<1>3. t = [j \in DOMAIN v |-> p(j)]
  BY DEF PacketsOf, Packetize, NalUnit, VecOf
<1> HIDE DEF v, n, t
<1>4. ASSUME NEW j \in 1..n
      PROVE  /\ p(j).seq = header.seq + j /\ p(j).timestamp = header.timestamp
             /\ p(j).mark <=> mark /\ j = n
             /\ p(j).payload = v[j]
             /\ Begins(p(j)) <=> j = 1
             /\ p(j) \in RtpPackets
  <2>1. p(j) \in RtpPackets
    BY <1>1, <1>2 DEF Header, RtpPackets
  <2>3. Begins(p(j)) <=> j = 1
    <3>1. CASE IsWholeUnit(v, nal)
      <4>1. j = 1 /\ ~v[j].fu
        BY <3>1 DEF IsWholeUnit, n
      <4> QED
        BY <4>1 DEF Begins
    <3>2. CASE IsCut(v, nal)
      <4>1. v[j].fu /\ (v[j].start <=> j = 1)
        BY <3>2 DEF IsCut, n
      <4> QED
        BY <4>1 DEF Begins
    <3> QED
      BY <1>1, <3>1, <3>2
  <2> QED
    BY <2>1, <2>3
<1>5. \A j \in 1..n : t[j] = p(j) /\ t[j] \in RtpPackets
  <2> HIDE DEF p
  <2> QED
    BY <1>2, <1>3, <1>4
<1>6. t \in Seq(RtpPackets) /\ Len(t) = n
  <2> HIDE DEF p
  <2>1. t \in [1..n -> RtpPackets]
    BY <1>2, <1>3, <1>4
  <2> QED
    BY <1>1, <2>1
<1> HIDE DEF p
<1> QED
  BY <1>1, <1>4, <1>5, <1>6 DEF t, v, n

LEMMA NothingOfNoUnit ==
    ASSUME NEW header, NEW mark
    PROVE  Packetize([NoUnit EXCEPT !.shouldMark = mark], header) = <<>>
BY DEF Packetize, NoUnit

-----------------------------------------------------------------------------
(* What a receiver makes of the packets. *)

\* What a receiver takes of some packets, and puts together.
Taken(ps) == TakenUpTo(ps)[Len(ps)]
JoinedOf(ps) == JoinedUpTo(ps)[Len(ps)]

\* The sequence s followed by t, one element after the other.
LEMMA JoinTwo ==
    ASSUME NEW S, NEW s \in Seq(S), NEW t \in Seq(S)
    PROVE  /\ s \o t \in Seq(S) /\ Len(s) \in Nat /\ Len(t) \in Nat
           /\ Len(s \o t) = Len(s) + Len(t)
           /\ \A i \in 1..Len(s) : (s \o t)[i] = s[i]
           /\ \A j \in 1..Len(t) : (s \o t)[Len(s) + j] = t[j]
<1> DEFINE u == s \o t
<1> DEFINE a == Len(s)
<1> DEFINE b == Len(t)
<1>1. a \in Nat /\ b \in Nat
  BY LenProperties
<1>2. /\ u \in Seq(S) /\ Len(u) = a + b
      /\ \A i \in 1..a + b : u[i] = IF i <= a THEN s[i] ELSE t[i - a]
  BY ConcatProperties
<1> HIDE DEF u, a, b
<1>3. \A i \in 1..a : u[i] = s[i]
  BY <1>1, <1>2
<1>4. ASSUME NEW j \in 1..b PROVE u[a + j] = t[j]
  <2>1. a + j \in 1..a + b /\ ~(a + j <= a) /\ (a + j) - a = j
    BY <1>1
  <2> QED
    BY <1>2, <2>1
<1> QED
  BY <1>1, <1>2, <1>3, <1>4 DEF u, a, b

LEMMA TakenPrefix ==
    ASSUME NEW ps \in Seq(RtpPackets), NEW t \in Seq(RtpPackets)
    PROVE  TakenUpTo(ps \o t)[Len(ps)] = Taken(ps)
<1> DEFINE u == ps \o t
<1> DEFINE g == TakenUpTo(ps)
<1> DEFINE h == TakenUpTo(u)
<1>1. /\ u \in Seq(RtpPackets) /\ Len(ps) \in Nat /\ Len(t) \in Nat
      /\ Len(u) = Len(ps) + Len(t)
      /\ \A i \in 1..Len(ps) : u[i] = ps[i]
  BY JoinTwo
<1>2. g[0] = <<>> /\ \A k \in 1..Len(ps) : g[k] = Take(g[k - 1], ps[k])
  BY <1>1, TakenDef
<1> HIDE DEF u
<1>3. h[0] = <<>> /\ \A k \in 1..Len(u) : h[k] = Take(h[k - 1], u[k])
  <2>1. Len(u) \in Nat
    BY <1>1, LenProperties
  <2> QED
    BY <2>1, TakenDef
<1> HIDE DEF g, h
<1> DEFINE m == Len(ps)
<1> DEFINE S == {n \in Nat : n <= m => h[n] = g[n]}
<1>4. 0 \in S
  BY <1>2, <1>3
<1>5. ASSUME NEW n \in S PROVE n + 1 \in S
  <2>1. SUFFICES ASSUME n + 1 <= m PROVE h[n + 1] = g[n + 1]
    OBVIOUS
  <2>2. n + 1 \in 1..m /\ n + 1 \in 1..Len(u) /\ (n + 1) - 1 = n /\ h[n] = g[n]
    BY <1>1, <2>1
  <2> QED
    BY <1>1, <1>2, <1>3, <2>2
<1>6. S = Nat
  <2> HIDE DEF S
  <2> S \in SUBSET Nat
    BY DEF S
  <2> QED
    BY <1>4, <1>5, NatSetInduction
<1>7. h[m] = g[m]
  <2>1. m \in S /\ m <= m
    BY <1>1, <1>6
  <2> QED
    BY <2>1
<1> QED
  BY <1>7 DEF g, h, u, Taken

\* What the receiver has: a packet for each number.
Numbered(q) == q \in Seq(RtpPackets) /\ \A i \in 1..Len(q) : q[i].seq = i

\* Packets with new numbers are taken; those with old ones are not.
LEMMA TakeNew ==
    ASSUME NEW ps \in Seq(RtpPackets), Numbered(Taken(ps)), NEW t \in Seq(RtpPackets),
           \A j \in 1..Len(t) : t[j].seq = Len(Taken(ps)) + j
    PROVE  Taken(ps \o t) = Taken(ps) \o t
<1> DEFINE u == ps \o t
<1> DEFINE q == Taken(ps)
<1> DEFINE h == TakenUpTo(u)
<1> DEFINE m == Len(ps)
<1> DEFINE b == Len(t)
<1> DEFINE a == Len(q)
<1>1. /\ u \in Seq(RtpPackets) /\ m \in Nat /\ b \in Nat /\ Len(u) = m + b
      /\ \A j \in 1..b : u[m + j] = t[j]
  BY JoinTwo
<1>2. h[m] = q
  BY TakenPrefix
<1>3. q \in Seq(RtpPackets) /\ a \in Nat /\ \A i \in 1..a : q[i].seq = i
  <2> HIDE DEF q, a
  <2>1. Numbered(q)
    BY DEF q
  <2>2. q \in Seq(RtpPackets) /\ a \in Nat
    BY <2>1, LenProperties DEF Numbered, a
  <2> QED
    BY <2>1, <2>2 DEF Numbered, a
<1>4. \A j \in 1..b : t[j].seq = a + j /\ t[j] \in RtpPackets
  BY ElementOfSeq
<1> HIDE DEF u, q, m, b, a
<1>5. \A k \in 1..m + b : h[k] = Take(h[k - 1], u[k])
  <2>1. Len(u) \in Nat
    BY <1>1
  <2>2. \A k \in 1..Len(u) : h[k] = Take(h[k - 1], u[k])
    BY <2>1, TakenDef
  <2> QED
    BY <1>1, <2>2
<1> HIDE DEF h
<1> DEFINE Good(n) == /\ h[m + n] \in Seq(RtpPackets) /\ Len(h[m + n]) = a + n
                      /\ \A i \in 1..a : h[m + n][i] = q[i]
                      /\ \A j \in 1..n : h[m + n][a + j] = t[j]
<1> DEFINE S == {n \in Nat : n <= b => Good(n)}
<1>6. 0 \in S
  <2>1. m + 0 = m /\ a + 0 = a /\ Len(q) = a
    BY <1>1, <1>3 DEF a
  <2>2. Good(0)
    BY <1>2, <1>3, <2>1
  <2> QED
    BY <2>2
<1>7. ASSUME NEW n \in S PROVE n + 1 \in S
  <2>1. SUFFICES ASSUME n + 1 <= b PROVE Good(n + 1)
    OBVIOUS
  <2>2. /\ n \in Nat /\ Good(n) /\ n + 1 \in 1..b /\ m + (n + 1) \in 1..m + b
        /\ (m + (n + 1)) - 1 = m + n
    BY <1>1, <2>1
  <2> HIDE DEF S
  <2> DEFINE r == h[m + n]
  <2> DEFINE p == t[n + 1]
  <2>3. h[m + (n + 1)] = Take(r, p)
    BY <1>1, <1>5, <2>2
  <2>4. r \in Seq(RtpPackets) /\ Len(r) = a + n /\ p \in RtpPackets /\ p.seq = a + (n + 1)
    BY <1>4, <2>2
  <2>5. /\ \A i \in 1..a : r[i] = q[i]
        /\ \A j \in 1..n : r[a + j] = t[j]
    BY <2>2
  <2> HIDE DEF r, p, Good
  <2>6. \A i \in 1..a + n : r[i].seq # p.seq
    <3> SUFFICES ASSUME NEW i \in 1..a + n PROVE r[i].seq # p.seq
      OBVIOUS
    <3>1. CASE i <= a
      <4>1. i \in 1..a /\ i < a + (n + 1)
        BY <1>3, <2>2, <3>1
      <4> QED
        BY <1>3, <2>4, <2>5, <4>1
    <3>2. CASE ~(i <= a)
      <4>1. i - a \in 1..n /\ i - a \in 1..b /\ a + (i - a) = i /\ i < a + (n + 1)
        BY <1>1, <1>3, <2>2, <3>2
      <4>2. r[i] = t[i - a] /\ t[i - a].seq = i
        BY <1>4, <2>5, <4>1
      <4> QED
        BY <2>4, <4>1, <4>2
    <3> QED
      BY <3>1, <3>2
  <2>7. Take(r, p) = Append(r, p)
    <3>1. DOMAIN r = 1..a + n
      BY <2>4, LenProperties
    <3> QED
      BY <2>6, <3>1 DEF Take
  <2>8. /\ Append(r, p) \in Seq(RtpPackets) /\ Len(Append(r, p)) = (a + n) + 1
        /\ \A i \in 1..a + n : Append(r, p)[i] = r[i]
        /\ Append(r, p)[(a + n) + 1] = p
    BY <2>4, AppendProperties
  <2> DEFINE w == h[m + (n + 1)]
  <2>9. w = Append(r, p)
    BY <2>3, <2>7
  <2> HIDE DEF w
  <2>10. w \in Seq(RtpPackets) /\ Len(w) = a + (n + 1)
    BY <1>3, <2>2, <2>8, <2>9
  <2>11. ASSUME NEW i \in 1..a PROVE w[i] = q[i]
    <3>1. i \in 1..a + n
      BY <1>3, <2>2
    <3> QED
      BY <2>5, <2>8, <2>9, <3>1
  <2>12. ASSUME NEW j \in 1..n + 1 PROVE w[a + j] = t[j]
    <3>1. CASE j = n + 1
      <4>1. a + j = (a + n) + 1
        BY <1>3, <2>2, <3>1
      <4> QED
        BY <2>8, <2>9, <3>1, <4>1 DEF p
    <3>2. CASE j # n + 1
      <4>1. j \in 1..n /\ a + j \in 1..a + n
        BY <1>3, <2>2, <3>2
      <4> QED
        BY <2>5, <2>8, <2>9, <4>1
    <3> QED
      BY <3>1, <3>2
  <2> QED
    BY <2>10, <2>11, <2>12 DEF w, Good
<1>8. S = Nat
  <2> HIDE DEF S
  <2> S \in SUBSET Nat
    BY DEF S
  <2> QED
    BY <1>6, <1>7, NatSetInduction
<1>9. Good(b)
  <2> HIDE DEF S
  <2>1. b \in S /\ b <= b
    BY <1>1, <1>8
  <2> QED
    BY <2>1 DEF S
<1> HIDE DEF S
<1> DEFINE w == h[m + b]
<1> DEFINE v == q \o t
<1>10. w \in Seq(RtpPackets) /\ Len(w) = a + b
  BY <1>9
<1>11. /\ \A i \in 1..a : w[i] = q[i]
       /\ \A j \in 1..b : w[a + j] = t[j]
  BY <1>9
<1>12. /\ v \in Seq(RtpPackets) /\ Len(v) = a + b
       /\ \A i \in 1..a : v[i] = q[i]
       /\ \A j \in 1..b : v[a + j] = t[j]
  BY <1>3, JoinTwo DEF a, b
<1> HIDE DEF Good, w, v
<1>13. ASSUME NEW i \in 1..a + b PROVE w[i] = v[i]
  <2>1. CASE i <= a
    <3>1. i \in 1..a
      BY <1>1, <1>3, <2>1
    <3> QED
      BY <1>11, <1>12, <3>1
  <2>2. CASE ~(i <= a)
    <3>1. i - a \in 1..b /\ a + (i - a) = i
      BY <1>1, <1>3, <2>2
    <3> QED
      BY <1>11, <1>12, <3>1
  <2> QED
    BY <2>1, <2>2
<1>14. w = v
  BY <1>10, <1>12, <1>13, SeqEqual
<1>15. Taken(u) = w
  BY <1>1 DEF Taken, h, w
<1> QED
  BY <1>14, <1>15 DEF u, q, v

LEMMA TakeOld ==
    ASSUME NEW ps \in Seq(RtpPackets), Numbered(Taken(ps)), NEW t \in Seq(RtpPackets),
           \A j \in 1..Len(t) : t[j].seq \in 1..Len(Taken(ps))
    PROVE  Taken(ps \o t) = Taken(ps)
<1> DEFINE u == ps \o t
<1> DEFINE q == Taken(ps)
<1> DEFINE h == TakenUpTo(u)
<1> DEFINE m == Len(ps)
<1> DEFINE b == Len(t)
<1>1. /\ u \in Seq(RtpPackets) /\ m \in Nat /\ b \in Nat /\ Len(u) = m + b
      /\ \A j \in 1..b : u[m + j] = t[j]
  BY JoinTwo
<1>2. h[m] = q
  BY TakenPrefix
<1>3. \A p : p.seq \in 1..Len(q) => Take(q, p) = q
  <2> SUFFICES ASSUME NEW p, p.seq \in 1..Len(q) PROVE Take(q, p) = q
    OBVIOUS
  <2> HIDE DEF q
  <2>1. Numbered(q)
    BY DEF q
  <2>2. q[p.seq].seq = p.seq /\ p.seq \in DOMAIN q
    BY <2>1, LenProperties DEF Numbered
  <2> QED
    BY <2>2 DEF Take
<1>4. \A j \in 1..b : t[j].seq \in 1..Len(q)
  OBVIOUS
<1> HIDE DEF u, q, m, b
<1>5. \A k \in 1..m + b : h[k] = Take(h[k - 1], u[k])
  <2>1. Len(u) \in Nat
    BY <1>1
  <2>2. \A k \in 1..Len(u) : h[k] = Take(h[k - 1], u[k])
    BY <2>1, TakenDef
  <2> QED
    BY <1>1, <2>2
<1> HIDE DEF h
<1> DEFINE S == {n \in Nat : n <= b => h[m + n] = q}
<1>6. 0 \in S
  BY <1>1, <1>2
<1>7. ASSUME NEW n \in S PROVE n + 1 \in S
  <2>1. SUFFICES ASSUME n + 1 <= b PROVE h[m + (n + 1)] = q
    OBVIOUS
  <2>2. /\ n \in Nat /\ h[m + n] = q /\ n + 1 \in 1..b /\ m + (n + 1) \in 1..m + b
        /\ (m + (n + 1)) - 1 = m + n
    BY <1>1, <2>1
  <2>3. h[m + (n + 1)] = Take(q, t[n + 1])
    BY <1>1, <1>5, <2>2
  <2> QED
    BY <1>3, <1>4, <2>2, <2>3
<1>8. S = Nat
  <2> HIDE DEF S
  <2> S \in SUBSET Nat
    BY DEF S
  <2> QED
    BY <1>6, <1>7, NatSetInduction
<1>9. h[m + b] = q
  <2> HIDE DEF S
  <2>1. b \in S /\ b <= b
    BY <1>1, <1>8
  <2> QED
    BY <2>1 DEF S
<1> QED
  BY <1>1, <1>9 DEF u, q, h, Taken

LEMMA JoinedPrefix ==
    ASSUME NEW ps \in Seq(RtpPackets), NEW t \in Seq(RtpPackets)
    PROVE  JoinedUpTo(ps \o t)[Len(ps)] = JoinedOf(ps)
<1> DEFINE u == ps \o t
<1> DEFINE g == JoinedUpTo(ps)
<1> DEFINE h == JoinedUpTo(u)
<1>1. /\ u \in Seq(RtpPackets) /\ Len(ps) \in Nat /\ Len(t) \in Nat
      /\ Len(u) = Len(ps) + Len(t)
      /\ \A i \in 1..Len(ps) : u[i] = ps[i]
  BY JoinTwo
<1>2. g[0] = <<>> /\ \A k \in 1..Len(ps) : g[k] = Join(g[k - 1], ps[k])
  BY <1>1, JoinedDef
<1> HIDE DEF u
<1>3. h[0] = <<>> /\ \A k \in 1..Len(u) : h[k] = Join(h[k - 1], u[k])
  <2>1. Len(u) \in Nat
    BY <1>1, LenProperties
  <2> QED
    BY <2>1, JoinedDef
<1> HIDE DEF g, h
<1> DEFINE m == Len(ps)
<1> DEFINE S == {n \in Nat : n <= m => h[n] = g[n]}
<1>4. 0 \in S
  BY <1>2, <1>3
<1>5. ASSUME NEW n \in S PROVE n + 1 \in S
  <2>1. SUFFICES ASSUME n + 1 <= m PROVE h[n + 1] = g[n + 1]
    OBVIOUS
  <2>2. n + 1 \in 1..m /\ n + 1 \in 1..Len(u) /\ (n + 1) - 1 = n /\ h[n] = g[n]
    BY <1>1, <2>1
  <2> QED
    BY <1>1, <1>2, <1>3, <2>2
<1>6. S = Nat
  <2> HIDE DEF S
  <2> S \in SUBSET Nat
    BY DEF S
  <2> QED
    BY <1>4, <1>5, NatSetInduction
<1>7. h[m] = g[m]
  <2>1. m \in S /\ m <= m
    BY <1>1, <1>6
  <2> QED
    BY <2>1
<1> QED
  BY <1>7 DEF g, h, u, JoinedOf



LEMMA ThreeJoined ==
    ASSUME NEW x \in Seq(Byte), NEW y \in Seq(Byte), NEW z \in Seq(Byte)
    PROVE  (x \o y) \o z = x \o (y \o z)
BY ConcatAssociative

LEMMA ExtendLast ==
    ASSUME NEW S, NEW J \in Seq(Seq(S)), NEW x \in Seq(S), NEW y \in Seq(S)
    PROVE  LET A == Append(J, x)
           IN  [A EXCEPT ![Len(A)] = @ \o y] = Append(J, x \o y)
<1> DEFINE A == Append(J, x)
<1> DEFINE B == Append(J, x \o y)
<1> DEFINE n == Len(J)
<1> DEFINE C == [A EXCEPT ![Len(A)] = x \o y]
<1>1. x \o y \in Seq(S) /\ n \in Nat
  BY ConcatProperties, LenProperties
<1>2. /\ A \in Seq(Seq(S)) /\ Len(A) = n + 1
      /\ \A i \in 1..n : A[i] = J[i]
      /\ A[n + 1] = x
  BY AppendProperties
<1>3. /\ B \in Seq(Seq(S)) /\ Len(B) = n + 1
      /\ \A i \in 1..n : B[i] = J[i]
      /\ B[n + 1] = x \o y
  BY <1>1, AppendProperties
<1>4. [A EXCEPT ![Len(A)] = @ \o y] = C
  BY <1>2
<1> HIDE DEF A, B, n
<1>5. /\ C \in Seq(Seq(S)) /\ Len(C) = Len(A)
      /\ \A j \in 1..Len(A) : C[j] = IF j = Len(A) THEN x \o y ELSE A[j]
  <2>1. Len(A) \in 1..Len(A)
    BY <1>1, <1>2
  <2> QED
    BY <1>1, <1>2, <2>1, ExceptSeq
<1> HIDE DEF C
<1>6. ASSUME NEW i \in 1..n + 1 PROVE C[i] = B[i]
  <2>1. CASE i = n + 1
    BY <1>1, <1>2, <1>3, <1>5, <2>1
  <2>2. CASE i # n + 1
    <3>1. i \in 1..n
      BY <1>1, <2>2
    <3> QED
      BY <1>2, <1>3, <1>5, <2>2, <3>1
  <2> QED
    BY <2>1, <2>2
<1>7. C = B
  BY <1>2, <1>3, <1>5, <1>6, SeqEqual
<1> QED
  BY <1>4, <1>7 DEF A, B

\* The packets t of a unit, behind those of other units.
LEMMA JoinUnit ==
    ASSUME NEW q \in Seq(RtpPackets), NEW t \in Seq(RtpPackets), JoinedOf(q) \in Seq(Seq(Byte)),
           NEW nal \in Seq(Byte), nal # <<>>, Len(t) = Len(VecOf(nal)),
           \A j \in 1..Len(t) : t[j].payload = VecOf(nal)[j] /\ (Begins(t[j]) <=> j = 1)
    PROVE  JoinedOf(q \o t) = Append(JoinedOf(q), nal)
<1> DEFINE u == q \o t
<1> DEFINE J == JoinedOf(q)
<1> DEFINE h == JoinedUpTo(u)
<1> DEFINE m == Len(q)
<1> DEFINE b == Len(t)
<1> DEFINE v == VecOf(nal)
<1>1. /\ u \in Seq(RtpPackets) /\ m \in Nat /\ b \in Nat /\ Len(u) = m + b
      /\ \A j \in 1..b : u[m + j] = t[j]
  <2>1. /\ q \o t \in Seq(RtpPackets) /\ Len(q) \in Nat /\ Len(t) \in Nat
        /\ Len(q \o t) = Len(q) + Len(t)
    BY JoinTwo
  <2>2. \A j \in 1..Len(t) : (q \o t)[Len(q) + j] = t[j]
    BY JoinTwo
  <2> QED
    BY <2>1, <2>2
<1>2. h[m] = J
  BY JoinedPrefix
<1>3. v \in Seq(Payloads) /\ b \in Nat \ {0} /\ (IsWholeUnit(v, nal) \/ IsCut(v, nal)) /\ Len(v) = b
  BY VecIs
<1>4. \A j \in 1..b : t[j].payload = v[j] /\ (Begins(t[j]) <=> j = 1)
  OBVIOUS
<1>5. J \in Seq(Seq(Byte))
  OBVIOUS
<1> HIDE DEF u, J, m, b, v
<1>6. \A x, y \in Seq(Byte) :
         LET A == Append(J, x) IN [A EXCEPT ![Len(A)] = @ \o y] = Append(J, x \o y)
  BY <1>5, ExtendLast
<1>7. ASSUME NEW j \in 1..b PROVE h[m + j] = Join(h[m + (j - 1)], t[j])
  <2>1. Len(u) \in Nat
    BY <1>1
  <2>2. \A k \in 1..Len(u) : h[k] = Join(h[k - 1], u[k])
    BY <2>1, JoinedDef
  <2>3. m + j \in 1..Len(u) /\ (m + j) - 1 = m + (j - 1)
    BY <1>1
  <2> QED
    BY <1>1, <2>2, <2>3
<1>8. JoinedOf(u) = h[m + b]
  BY <1>1 DEF JoinedOf
<1> HIDE DEF h
<1>9. CASE IsWholeUnit(v, nal)
  <2>1. b = 1 /\ ~v[1].fu /\ v[1].data = nal
    BY <1>3, <1>9 DEF IsWholeUnit
  <2>2. t[1].payload = v[1] /\ Begins(t[1])
    BY <1>4, <2>1
  <2>3. h[m + 1] = Join(h[m + (1 - 1)], t[1]) /\ m + (1 - 1) = m
    BY <1>1, <1>7, <2>1
  <2>4. Join(J, t[1]) = Append(J, nal)
    BY <2>1, <2>2 DEF Join
  <2> QED
    BY <1>2, <1>8, <2>1, <2>3, <2>4 DEF u, J
<1>10. CASE IsCut(v, nal)
  <2> DEFINE body == Tail(nal)
  <2> DEFINE a == Len(body)
  <2> DEFINE head == <<nal[1]>>
  <2> DEFINE part(j) == head \o SubSeq(body, 1, PartEnd(a, j))
  <2>1. /\ a \in Nat \ {0} /\ b = (a + MTU - 1) \div MTU
        /\ \A j \in 1..b :
             /\ v[j].fu /\ (v[j].start <=> j = 1) /\ v[j].type = nal[1]
             /\ v[j].data = SubSeq(body, PartEnd(a, j - 1) + 1, PartEnd(a, j))
    BY <1>3, <1>10 DEF IsCut
  <2>2. nal[1] \in Byte /\ body \in Seq(Byte) /\ nal = head \o body
    BY HeadAndRest
  <2>3. head \in Seq(Byte)
    BY <2>2
  <2> HIDE DEF body, head
  <2>4. /\ PartEnd(a, 0) = 0 /\ PartEnd(a, b) = a
        /\ \A j \in 0..b : PartEnd(a, j) \in 0..a
        /\ \A j \in 1..b : PartEnd(a, j - 1) <= PartEnd(a, j)
    <3> HIDE DEF a
    <3> QED
      BY <2>1, PartEnds
  <2>5. ASSUME NEW j \in 0..b
        PROVE  SubSeq(body, 1, PartEnd(a, j)) \in Seq(Byte) /\ part(j) \in Seq(Byte)
    <3>1. PartEnd(a, j) \in 0..a
      BY <2>4
    <3>2. SubSeq(body, 1, PartEnd(a, j)) \in Seq(Byte)
      <4> DEFINE z == PartEnd(a, j)
      <4>1. z \in Int /\ \A i \in 1..z : i \in 1..a
        BY <2>1, <3>1
      <4>2. \A i \in 1..z : body[i] \in Byte
        BY <2>2, <4>1, ElementOfSeq
      <4> HIDE DEF z
      <4>3. SubSeq(body, 1, z) \in Seq(Byte)
        BY <4>1, <4>2, SubSeqProperties
      <4> QED
        BY <4>3 DEF z
    <3> QED
      BY <2>3, <3>2, ConcatProperties
  <2>6. ASSUME NEW j \in 1..b
        PROVE  part(j) = part(j - 1) \o SubSeq(body, PartEnd(a, j - 1) + 1, PartEnd(a, j))
    <3> DEFINE x == PartEnd(a, j - 1)
    <3> DEFINE z == PartEnd(a, j)
    <3>1. j - 1 \in 0..b /\ j \in 0..b
      BY <1>3
    <3>2. x \in 0..a /\ z \in 0..a /\ x <= z
      BY <2>4, <3>1
    <3>3. SubSeq(body, 1, x) \in Seq(Byte)
      BY <2>5, <3>1
    <3> HIDE DEF x, z
    <3>4. 1 \in 1..a + 1 /\ x \in 1 - 1..a /\ z \in x..a /\ x + 1 \in Int /\ z \in Int
      BY <2>1, <3>2
    <3>5. SubSeq(body, 1, x) \o SubSeq(body, x + 1, z) = SubSeq(body, 1, z)
      BY <2>2, <3>4, ConcatAdjacentSubSeq
    <3>6. SubSeq(body, x + 1, z) \in Seq(Byte)
      <4>1. \A i \in x + 1..z : i \in 1..a
        BY <2>1, <3>2
      <4>2. \A i \in x + 1..z : body[i] \in Byte
        BY <2>2, <4>1, ElementOfSeq
      <4> QED
        BY <3>4, <4>2, SubSeqProperties
    <3>7. (head \o SubSeq(body, 1, x)) \o SubSeq(body, x + 1, z)
            = head \o (SubSeq(body, 1, x) \o SubSeq(body, x + 1, z))
      BY <2>3, <3>3, <3>6, ThreeJoined
    <3> QED
      BY <3>5, <3>7 DEF x, z
  <2>7. part(b) = nal
    <3>1. SubSeq(body, 1, a) = body
      BY <2>2, SubSeqFull
    <3> HIDE DEF a
    <3> QED
      BY <2>2, <2>4, <3>1
  <2>8. part(0) = head
    <3>1. SubSeq(body, 1, PartEnd(a, 0)) = <<>>
      BY <2>4, SubSeqEmpty
    <3> QED
      BY <2>3, <3>1, ConcatEmptySeq
  <2> HIDE DEF part, a
  <2> DEFINE S == {n \in Nat : n \in 1..b => h[m + n] = Append(J, part(n))}
  <2>9. 0 \in S
    OBVIOUS
  <2>10. ASSUME NEW n \in S PROVE n + 1 \in S
    <3>1. SUFFICES ASSUME n + 1 \in 1..b PROVE h[m + (n + 1)] = Append(J, part(n + 1))
      OBVIOUS
    <3> DEFINE j == n + 1
    <3>2. j \in 1..b /\ j - 1 = n /\ n \in 0..b /\ j \in 0..b /\ n \in Nat
      BY <1>3, <3>1
    <3>3. n # 0 => h[m + n] = Append(J, part(n))
      BY <1>3, <3>2
    <3> HIDE DEF j, S
    <3>4. h[m + j] = Join(h[m + n], t[j])
      BY <1>7, <3>2
    <3>5. /\ t[j].payload.fu /\ t[j].payload.type = nal[1] /\ (Begins(t[j]) <=> j = 1)
          /\ part(j) = part(n) \o t[j].payload.data
      <4>1. t[j].payload = v[j] /\ (Begins(t[j]) <=> j = 1)
        BY <1>4, <3>2
      <4>2. v[j].fu /\ v[j].type = nal[1]
        BY <2>1, <3>2
      <4>3. v[j].data = SubSeq(body, PartEnd(a, j - 1) + 1, PartEnd(a, j))
        BY <2>1, <3>2
      <4>4. part(j) = part(j - 1) \o SubSeq(body, PartEnd(a, j - 1) + 1, PartEnd(a, j))
        BY <2>6, <3>2
      <4> QED
        BY <3>2, <4>1, <4>2, <4>3, <4>4
    <3>6. part(n) \in Seq(Byte) /\ t[j].payload.data \in Seq(Byte)
      <4>1. t[j].payload = v[j] /\ v[j] \in Payloads
        BY <1>3, <1>4, <3>2, ElementOfSeq
      <4> QED
        BY <2>5, <3>2, <4>1 DEF Payloads
    <3>7. CASE n = 0
      <4>1. Begins(t[j]) /\ m + n = m
        BY <1>1, <3>2, <3>5, <3>7
      <4>2. Join(J, t[j]) = Append(J, head \o t[j].payload.data)
        BY <3>5, <4>1 DEF Join, head
      <4>3. part(j) = head \o t[j].payload.data
        BY <2>8, <3>5, <3>7
      <4> QED
        BY <1>2, <3>4, <4>1, <4>2, <4>3 DEF j
    <3>8. CASE n # 0
      <4>1. ~Begins(t[j])
        BY <3>2, <3>5, <3>8
      <4> DEFINE A == Append(J, part(n))
      <4>2. Join(A, t[j]) = [A EXCEPT ![Len(A)] = @ \o t[j].payload.data]
        BY <4>1 DEF Join
      <4>3. [A EXCEPT ![Len(A)] = @ \o t[j].payload.data] = Append(J, part(n) \o t[j].payload.data)
        BY <1>6, <3>6
      <4> HIDE DEF A
      <4>4. h[m + n] = A
        BY <3>3, <3>8 DEF A
      <4> QED
        BY <3>4, <3>5, <4>2, <4>3, <4>4 DEF j
    <3> QED
      BY <3>7, <3>8
  <2>11. S = Nat
    <3> HIDE DEF S
    <3> S \in SUBSET Nat
      BY DEF S
    <3> QED
      BY <2>9, <2>10, NatSetInduction
  <2>12. h[m + b] = Append(J, part(b))
    <3>1. b \in 1..b
      BY <1>3
    <3>2. b \in S
      <4> HIDE DEF S
      <4> QED
        BY <1>3, <2>11
    <3> QED
      BY <3>1, <3>2
  <2> QED
    BY <1>8, <2>7, <2>12 DEF u, J
<1> QED
  BY <1>3, <1>9, <1>10

-----------------------------------------------------------------------------
(* Which unit a packet belongs to, and where the access units end. *)

\* How many units some packets belong to.
Begun(q) == Cardinality({j \in 1..Len(q) : Begins(q[j])})

\* The packets t of a unit are counted as one unit more than those before them.
LEMMA UnitsCounted ==
    ASSUME NEW q \in Seq(RtpPackets), NEW t \in Seq(RtpPackets), t # <<>>,
           \A j \in 1..Len(t) : Begins(t[j]) <=> j = 1
    PROVE  LET u == q \o t
           IN  /\ Begun(q) \in Nat /\ Begun(u) = Begun(q) + 1
               /\ \A i \in 1..Len(q) : UnitOf(u)[i] = UnitOf(q)[i]
               /\ \A j \in 1..Len(t) : UnitOf(u)[Len(q) + j] = Begun(q) + 1
<1> DEFINE u == q \o t
<1> DEFINE a == Len(q)
<1> DEFINE b == Len(t)
<1>1. /\ u \in Seq(RtpPackets) /\ a \in Nat /\ b \in Nat \ {0} /\ Len(u) = a + b
      /\ \A i \in 1..a : u[i] = q[i]
      /\ \A j \in 1..b : u[a + j] = t[j]
  BY JoinTwo, EmptySeq
<1>2. DOMAIN u = 1..a + b /\ DOMAIN q = 1..a
  BY <1>1, LenProperties
<1>3. \A j \in 1..b : Begins(t[j]) <=> j = 1
  OBVIOUS
<1>4. \A i \in DOMAIN u : UnitOf(u)[i] = Cardinality({j \in 1..i : Begins(u[j])})
  BY Zenon DEF UnitOf
<1>5. \A i \in DOMAIN q : UnitOf(q)[i] = Cardinality({j \in 1..i : Begins(q[j])})
  BY Zenon DEF UnitOf
<1> HIDE DEF u, a, b
<1>6. ASSUME NEW i \in 1..a PROVE UnitOf(u)[i] = UnitOf(q)[i]
  <2>1. \A j \in 1..i : j \in 1..a
    BY <1>1
  <2>2. {j \in 1..i : Begins(u[j])} = {j \in 1..i : Begins(q[j])}
    BY <1>1, <2>1
  <2>3. i \in DOMAIN u /\ i \in DOMAIN q
    BY <1>1, <1>2
  <2> QED
    BY <1>4, <1>5, <2>2, <2>3
<1> DEFINE old == {j \in 1..a : Begins(q[j])}
<1>7. IsFiniteSet(old) /\ Cardinality(old) \in Nat
  <2>1. IsFiniteSet(1..a)
    BY <1>1, FS_Interval
  <2>2. old \in SUBSET (1..a)
    OBVIOUS
  <2> HIDE DEF old
  <2>3. IsFiniteSet(old)
    BY <2>1, <2>2, FS_Subset
  <2> QED
    BY <2>3, FS_CardinalityType
<1>8. ASSUME NEW j \in 1..b
      PROVE  Cardinality({k \in 1..a + j : Begins(u[k])}) = Cardinality(old) + 1
  <2> DEFINE all == {k \in 1..a + j : Begins(u[k])}
  <2>1. a + 1 \notin old
    BY <1>1
  <2>2. \A k \in 1..a + j : Begins(u[k]) <=> k \in old \cup {a + 1}
    <3> SUFFICES ASSUME NEW k \in 1..a + j PROVE Begins(u[k]) <=> k \in old \cup {a + 1}
      OBVIOUS
    <3>1. CASE k <= a
      <4>1. k \in 1..a /\ k # a + 1 /\ u[k] = q[k]
        BY <1>1, <3>1
      <4> QED
        BY <4>1
    <3>2. CASE ~(k <= a)
      <4>1. k - a \in 1..b /\ a + (k - a) = k /\ (k - a = 1 <=> k = a + 1) /\ k \notin 1..a
        BY <1>1, <3>2
      <4>2. Begins(u[k]) <=> k = a + 1
        BY <1>1, <1>3, <4>1
      <4> QED
        BY <4>1, <4>2
    <3> QED
      BY <3>1, <3>2
  <2>3. \A k \in old \cup {a + 1} : k \in 1..a + j
    BY <1>1
  <2>4. all = old \cup {a + 1}
    <3> HIDE DEF old
    <3> QED
      BY <2>2, <2>3
  <2> HIDE DEF all, old
  <2>5. Cardinality(old \cup {a + 1}) = Cardinality(old) + 1
    BY <1>7, <2>1, FS_AddElement
  <2> QED
    BY <2>4, <2>5 DEF all
<1>9. Cardinality(old) = Begun(q)
  BY DEF Begun, a
<1> HIDE DEF old
<1>10. Begun(u) = Begun(q) + 1
  <2>1. b \in 1..b
    BY <1>1
  <2> QED
    BY <1>1, <1>8, <1>9, <2>1 DEF Begun
<1>11. ASSUME NEW j \in 1..b PROVE UnitOf(u)[a + j] = Begun(q) + 1
  <2>1. a + j \in DOMAIN u
    BY <1>1, <1>2
  <2> QED
    BY <1>4, <1>8, <1>9, <2>1
<1> QED
  BY <1>6, <1>7, <1>9, <1>10, <1>11 DEF u, a, b

\* What Delimited says of packet i.
Fits(s, q, i) ==
    /\ q[i].mark <=> (i = Len(q) \/ Begins(q[i + 1])) /\ EndsAccessUnit(s, UnitOf(q)[i])
    /\ i > 1 =>
        IF Begins(q[i]) /\ s[UnitOf(q)[i]].first
        THEN q[i - 1].timestamp <= q[i].timestamp
        ELSE q[i - 1].timestamp = q[i].timestamp

LEMMA AllFit ==
    ASSUME NEW s, NEW q \in Seq(RtpPackets)
    PROVE  Delimited(s, q) <=> \A i \in 1..Len(q) : Fits(s, q, i)
<1>1. DOMAIN q = 1..Len(q)
  BY LenProperties
<1> QED
  BY <1>1, Zenon DEF Delimited, Fits

\* The packets t of the next unit, with the marker where it ends its access unit and a
\* timestamp that fits the last one.
LEMMA DelimitedMore ==
    ASSUME NEW s, NEW q \in Seq(RtpPackets), Delimited(s, q),
           NEW t \in Seq(RtpPackets), t # <<>>,
           \A j \in 1..Len(t) :
             /\ Begins(t[j]) <=> j = 1
             /\ t[j].mark <=> t[Len(t)].mark /\ j = Len(t)
             /\ t[j].timestamp = t[1].timestamp,
           t[Len(t)].mark <=> EndsAccessUnit(s, Begun(q) + 1),
           q # <<>> => IF s[Begun(q) + 1].first THEN q[Len(q)].timestamp <= t[1].timestamp
                       ELSE q[Len(q)].timestamp = t[1].timestamp
    PROVE  Delimited(s, q \o t)
<1> DEFINE mark == t[Len(t)].mark
<1> DEFINE time == t[1].timestamp
<1> DEFINE u == q \o t
<1> DEFINE a == Len(q)
<1> DEFINE b == Len(t)
<1> DEFINE c == Begun(q) + 1
<1>1. /\ u \in Seq(RtpPackets) /\ a \in Nat /\ b \in Nat \ {0} /\ Len(u) = a + b
      /\ \A i \in 1..a : u[i] = q[i]
      /\ \A j \in 1..b : u[a + j] = t[j]
  BY JoinTwo, EmptySeq
<1>2. /\ \A j \in 1..b : Begins(t[j]) <=> j = 1
      /\ \A j \in 1..b : t[j].mark <=> mark /\ j = b
      /\ \A j \in 1..b : t[j].timestamp = time
  OBVIOUS
<1>3. /\ \A i \in 1..a : UnitOf(u)[i] = UnitOf(q)[i]
      /\ \A j \in 1..b : UnitOf(u)[a + j] = c
  BY <1>2, UnitsCounted
<1>4. mark <=> EndsAccessUnit(s, c)
  OBVIOUS
<1>5. a > 0 => IF s[c].first THEN q[a].timestamp <= time ELSE q[a].timestamp = time
  <2>1. a > 0 => q # <<>>
    BY EmptySeq
  <2> QED
    BY <2>1
<1>6. \A i \in 1..a : Fits(s, q, i)
  BY AllFit
<1> HIDE DEF u, a, b, c, mark, time
<1>7. ASSUME NEW i \in 1..a PROVE Fits(s, u, i)
  <2>1. u[i] = q[i] /\ UnitOf(u)[i] = UnitOf(q)[i] /\ Fits(s, q, i)
    BY <1>1, <1>3, <1>6
  <2>2. (i = Len(u) \/ Begins(u[i + 1])) <=> (i = a \/ Begins(q[i + 1]))
    <3>1. CASE i = a
      <4>1. u[i + 1] = t[1] /\ Begins(t[1])
        BY <1>1, <1>2, <3>1
      <4> QED
        BY <3>1, <4>1
    <3>2. CASE i # a
      <4>1. i + 1 \in 1..a /\ i # Len(u)
        BY <1>1, <3>2
      <4>2. u[i + 1] = q[i + 1]
        BY <1>1, <4>1
      <4> QED
        BY <3>2, <4>1, <4>2
    <3> QED
      BY <3>1, <3>2
  <2>3. i > 1 => u[i - 1] = q[i - 1]
    <3>1. i > 1 => i - 1 \in 1..a
      BY <1>1
    <3> QED
      BY <1>1, <3>1
  <2> QED
    BY <2>1, <2>2, <2>3 DEF Fits, a
<1>8. ASSUME NEW j \in 1..b PROVE Fits(s, u, a + j)
  <2> DEFINE i == a + j
  <2>1. u[i] = t[j] /\ UnitOf(u)[i] = c
    BY <1>1, <1>3
  <2>2. (i = Len(u) \/ Begins(u[i + 1])) <=> j = b
    <3>1. CASE j = b
      BY <1>1, <3>1
    <3>2. CASE j # b
      <4>0. a \in Nat /\ b \in Nat /\ Len(u) = a + b
        BY <1>1
      <4>1. j + 1 \in 1..b /\ a + (j + 1) = i + 1 /\ i # Len(u) /\ j + 1 # 1
        BY <3>2, <4>0
      <4>2. u[a + (j + 1)] = t[j + 1] /\ ~Begins(t[j + 1])
        BY <1>1, <1>2, <4>1
      <4>3. u[i + 1] = t[j + 1]
        BY <4>1, <4>2
      <4> HIDE DEF i
      <4> QED
        BY <3>2, <4>1, <4>2, <4>3
    <3> QED
      BY <3>1, <3>2
  <2>3. (Begins(u[i]) <=> j = 1) /\ u[i].timestamp = time /\ (u[i].mark <=> mark /\ j = b)
    BY <1>2, <2>1
  <2>4. u[i].mark <=> (i = Len(u) \/ Begins(u[i + 1])) /\ EndsAccessUnit(s, UnitOf(u)[i])
    <3> HIDE DEF i
    <3> QED
      BY <1>4, <2>1, <2>2, <2>3
  <2>5. CASE j = 1
    <3>1. i > 1 => a > 0 /\ i - 1 = a /\ a \in 1..a
      BY <1>1, <2>5
    <3>2. i > 1 => u[i - 1] = q[a]
      BY <1>1, <3>1
    <3>3. i > 1 => IF s[c].first THEN u[i - 1].timestamp <= u[i].timestamp
                   ELSE u[i - 1].timestamp = u[i].timestamp
      BY <1>5, <2>3, <3>1, <3>2
    <3> HIDE DEF i
    <3>4. Fits(s, u, i)
      BY <2>1, <2>3, <2>5, <2>4, <3>3 DEF Fits
    <3> QED
      BY <3>4 DEF i
  <2>6. CASE j # 1
    <3>1. j - 1 \in 1..b /\ a + (j - 1) = i - 1
      BY <1>1, <2>6
    <3>2. u[a + (j - 1)] = t[j - 1] /\ t[j - 1].timestamp = time
      BY <1>1, <1>2, <3>1
    <3>3. u[i - 1].timestamp = u[i].timestamp /\ ~Begins(u[i])
      BY <2>3, <2>6, <3>1, <3>2
    <3> HIDE DEF i
    <3>4. Fits(s, u, i)
      BY <2>4, <3>3 DEF Fits
    <3> QED
      BY <3>4 DEF i
  <2> QED
    BY <2>5, <2>6
<1>9. ASSUME NEW i \in 1..Len(u) PROVE Fits(s, u, i)
  <2>1. CASE i <= a
    <3>1. i \in 1..a
      BY <1>1, <2>1
    <3> QED
      BY <1>7, <3>1
  <2>2. CASE ~(i <= a)
    <3>1. i - a \in 1..b /\ a + (i - a) = i
      BY <1>1, <2>2
    <3>2. Fits(s, u, a + (i - a))
      BY <1>8, <3>1
    <3> QED
      BY <3>1, <3>2
  <2> QED
    BY <2>1, <2>2
<1>10. Delimited(s, u)
  BY <1>1, <1>9, AllFit
<1> QED
  BY <1>10 DEF u

-----------------------------------------------------------------------------
(* What has been sent when unit c is kept. *)

\* The units that were sent: those before the one that is kept.
SentUnits(c) == IF c = 0 THEN 0 ELSE c - 1

\* The packets q that a receiver takes are those of the units before unit c, delimited;
\* the next will have a later timestamp where unit c begins an access unit.
SentBefore(s, c, hdr, q) ==
    /\ Numbered(q) /\ Len(q) = hdr.seq /\ (c = 0 => q = <<>>)
    /\ JoinedOf(q) = [k \in 1..SentUnits(c) |-> s[k].nal]
    /\ Begun(q) = SentUnits(c)
    /\ Delimited(s, q)
    /\ q # <<>> => IF s[c].first THEN q[Len(q)].timestamp <= hdr.timestamp
                   ELSE q[Len(q)].timestamp = hdr.timestamp

\* Unit c is kept in nal, and the packets out have been returned by the time now.
Sound(s, now, c, nal, hdr, out) ==
    /\ hdr \in Header /\ hdr.timestamp <= now
    /\ out \in Seq(RtpPackets) /\ \A i \in 1..Len(out) : out[i].seq \in 1..hdr.seq
    /\ nal = IF c = 0 THEN NoUnit ELSE NalUnit(s[c].nal)
    /\ SentBefore(s, c, hdr, Taken(out))

LEMMA NalsOf ==
    ASSUME NEW s \in Streams, NEW n \in 0..Len(s) - 1
    PROVE  LET nals == [k \in 1..n |-> s[k].nal]
           IN  /\ nals \in Seq(Seq(Byte)) /\ s[n + 1].nal \in Seq(Byte)
               /\ Append(nals, s[n + 1].nal) = [k \in 1..n + 1 |-> s[k].nal]
<1> DEFINE nals == [k \in 1..n |-> s[k].nal]
<1> DEFINE more == [k \in 1..n + 1 |-> s[k].nal]
<1>1. Len(s) \in Nat /\ n \in Nat /\ n + 1 \in 1..Len(s) /\ \A k \in 1..n + 1 : k \in 1..Len(s)
  BY StreamTypes
<1>2. \A k \in 1..n + 1 : s[k].nal \in Seq(Byte)
  BY <1>1, StreamTypes
<1>3. nals \in Seq(Seq(Byte)) /\ Len(nals) = n /\ \A k \in 1..n : nals[k] = s[k].nal
  <2>1. \A k \in 1..n : s[k].nal \in Seq(Byte)
    BY <1>1, <1>2
  <2>2. nals \in [1..n -> Seq(Byte)]
    BY <2>1
  <2> QED
    BY <1>1, <2>2
<1>4. more \in Seq(Seq(Byte)) /\ Len(more) = n + 1 /\ \A k \in 1..n + 1 : more[k] = s[k].nal
  <2>1. more \in [1..n + 1 -> Seq(Byte)]
    BY <1>2
  <2> QED
    BY <1>1, <2>1
<1> DEFINE nal == s[n + 1].nal
<1>5. nal \in Seq(Byte)
  BY <1>1, <1>2
<1> HIDE DEF nals, more, nal
<1>6. /\ Append(nals, nal) \in Seq(Seq(Byte)) /\ Len(Append(nals, nal)) = n + 1
      /\ \A k \in 1..n : Append(nals, nal)[k] = nals[k]
      /\ Append(nals, nal)[n + 1] = nal
  BY <1>3, <1>5, AppendProperties
<1>7. ASSUME NEW k \in 1..n + 1 PROVE Append(nals, nal)[k] = more[k]
  <2>1. CASE k = n + 1
    BY <1>4, <1>6, <2>1 DEF nal
  <2>2. CASE k # n + 1
    <3>1. k \in 1..n
      BY <1>1, <2>2
    <3> QED
      BY <1>3, <1>4, <1>6, <3>1
  <2> QED
    BY <2>1, <2>2
<1>8. Append(nals, nal) = more
  BY <1>4, <1>6, <1>7, SeqEqual
<1> QED
  BY <1>3, <1>5, <1>8 DEF nals, more, nal

\* The packets of unit c, behind those of the units before it.
LEMMA UnitSent ==
    ASSUME NEW s \in Streams, NEW c \in 1..Len(s) - 1, NEW hdr \in Header, NEW q,
           SentBefore(s, c, hdr, q), NEW mark \in BOOLEAN, mark <=> s[c + 1].first,
           NEW now \in Nat, hdr.timestamp <= now
    PROVE  LET t == PacketsOf(s[c].nal, mark, hdr)
               after == [seq |-> hdr.seq + Len(t),
                         timestamp |-> IF mark THEN now ELSE hdr.timestamp]
           IN  SentBefore(s, c + 1, after, q \o t)
<1> DEFINE nal == s[c].nal
<1> DEFINE t == PacketsOf(nal, mark, hdr)
<1> DEFINE after == [seq |-> hdr.seq + Len(t), timestamp |-> IF mark THEN now ELSE hdr.timestamp]
<1> DEFINE u == q \o t
<1> DEFINE m == c + 1
<1> DEFINE a == Len(q)
<1> DEFINE b == Len(t)
<1>1. /\ c \in Nat \ {0} /\ Len(s) \in Nat /\ c \in 1..Len(s) /\ m \in 1..Len(s) /\ c # Len(s)
      /\ SentUnits(c) = c - 1 /\ SentUnits(m) = c /\ c - 1 \in 0..Len(s) - 1 /\ (c - 1) + 1 = c
      /\ m # 0
  BY StreamTypes DEF SentUnits
<1>2. nal \in Seq(Byte) /\ nal # <<>>
  BY <1>1, StreamTypes, EmptySeq
<1>3. q \in Seq(RtpPackets) /\ (\A i \in 1..a : q[i].seq = i) /\ a = hdr.seq
  BY DEF SentBefore, Numbered
<1>4. hdr.seq \in Nat /\ hdr.timestamp \in Nat
  BY DEF Header
<1>5. t \in Seq(RtpPackets) /\ Len(t) \in Nat \ {0} /\ Len(t) = Len(VecOf(nal))
  BY <1>2, PacketsAre
<1>6. \A j \in 1..Len(t) :
        /\ t[j].seq = hdr.seq + j /\ t[j].timestamp = hdr.timestamp
        /\ t[j].mark <=> mark /\ j = Len(t)
        /\ t[j].payload = VecOf(nal)[j]
        /\ Begins(t[j]) <=> j = 1
  BY <1>2, PacketsAre
<1>7. t # <<>>
  BY <1>5, EmptySeq
<1>8. /\ JoinedOf(q) = [k \in 1..c - 1 |-> s[k].nal] /\ Begun(q) + 1 = c /\ Delimited(s, q)
      /\ q # <<>> => IF s[c].first THEN q[Len(q)].timestamp <= hdr.timestamp
                     ELSE q[Len(q)].timestamp = hdr.timestamp
  BY <1>1 DEF SentBefore
<1>9. JoinedOf(u) = [k \in 1..c |-> s[k].nal]
  <2>1. /\ [k \in 1..c - 1 |-> s[k].nal] \in Seq(Seq(Byte))
        /\ Append([k \in 1..c - 1 |-> s[k].nal], nal) = [k \in 1..c |-> s[k].nal]
    <3> DEFINE n == c - 1
    <3>1. n \in 0..Len(s) - 1 /\ n + 1 = c
      BY <1>1
    <3> HIDE DEF n
    <3>2. /\ [k \in 1..n |-> s[k].nal] \in Seq(Seq(Byte))
          /\ Append([k \in 1..n |-> s[k].nal], s[n + 1].nal) = [k \in 1..n + 1 |-> s[k].nal]
      BY <3>1, NalsOf
    <3> QED
      BY <3>1, <3>2 DEF n
  <2>2. \A j \in 1..Len(t) : t[j].payload = VecOf(nal)[j] /\ (Begins(t[j]) <=> j = 1)
    BY <1>6
  <2> HIDE DEF t, nal
  <2>3. JoinedOf(q) \in Seq(Seq(Byte))
    BY <1>8, <2>1
  <2>4. JoinedOf(q \o t) = Append(JoinedOf(q), nal)
    BY <1>2, <1>3, <1>5, <2>2, <2>3, JoinUnit
  <2> QED
    BY <1>8, <2>1, <2>4
<1> HIDE DEF t, nal
<1>10. Begun(u) = c
  <2>1. \A j \in 1..Len(t) : Begins(t[j]) <=> j = 1
    BY <1>6
  <2> QED
    BY <1>3, <1>5, <1>7, <1>8, <2>1, UnitsCounted
<1>11. Delimited(s, u)
  <2>1. EndsAccessUnit(s, c) <=> mark
    BY <1>1 DEF EndsAccessUnit
  <2>2. 1 \in 1..Len(t) /\ Len(t) \in 1..Len(t)
    BY <1>5
  <2>3. (t[Len(t)].mark <=> mark) /\ t[1].timestamp = hdr.timestamp
    BY <1>6, <2>2
  <2>4. \A j \in 1..Len(t) :
          /\ Begins(t[j]) <=> j = 1
          /\ t[j].mark <=> t[Len(t)].mark /\ j = Len(t)
          /\ t[j].timestamp = t[1].timestamp
    BY <1>6, <2>3
  <2>5. t[Len(t)].mark <=> EndsAccessUnit(s, Begun(q) + 1)
    BY <1>8, <2>1, <2>3
  <2>6. q # <<>> => IF s[Begun(q) + 1].first THEN q[Len(q)].timestamp <= t[1].timestamp
                    ELSE q[Len(q)].timestamp = t[1].timestamp
    BY <1>8, <2>3
  <2>7. q \in Seq(RtpPackets) /\ t \in Seq(RtpPackets) /\ t # <<>> /\ Delimited(s, q)
    BY <1>3, <1>5, <1>7, <1>8
  <2> QED
    BY <2>4, <2>5, <2>6, <2>7, DelimitedMore
<1>12. /\ u \in Seq(RtpPackets) /\ a \in Nat /\ b \in Nat \ {0} /\ Len(u) = a + b
       /\ \A i \in 1..a : u[i] = q[i]
       /\ \A j \in 1..b : u[a + j] = t[j]
  <2> q \in Seq(RtpPackets) /\ t \in Seq(RtpPackets) /\ Len(t) \in Nat \ {0}
    BY <1>3, <1>5
  <2>1. u \in Seq(RtpPackets) /\ Len(u) = a + b /\ a \in Nat
    BY JoinTwo
  <2>2. \A i \in 1..a : u[i] = q[i]
    BY JoinTwo
  <2>3. \A j \in 1..b : u[a + j] = t[j]
    BY JoinTwo
  <2> QED
    BY <2>1, <2>2, <2>3
<1> HIDE DEF u, a, b, m
<1>13. \A i \in 1..Len(u) : u[i].seq = i
  <2> SUFFICES ASSUME NEW i \in 1..Len(u) PROVE u[i].seq = i
    OBVIOUS
  <2>1. CASE i <= a
    <3>1. i \in 1..a
      BY <1>12, <2>1
    <3> QED
      BY <1>3, <1>12, <3>1
  <2>2. CASE ~(i <= a)
    <3>1. i - a \in 1..b /\ a + (i - a) = i
      BY <1>12, <2>2
    <3>2. u[i] = t[i - a] /\ t[i - a].seq = hdr.seq + (i - a)
      BY <1>6, <1>12, <3>1 DEF b
    <3> QED
      BY <1>3, <3>1, <3>2
  <2> QED
    BY <2>1, <2>2
<1>14. after.seq = a + b /\ after.timestamp = IF mark THEN now ELSE hdr.timestamp
  BY <1>3 DEF b
<1>15. IF s[m].first THEN u[Len(u)].timestamp <= after.timestamp
       ELSE u[Len(u)].timestamp = after.timestamp
  <2>1. b \in 1..b /\ Len(u) = a + b
    BY <1>12
  <2>2. u[Len(u)] = t[b] /\ t[b].timestamp = hdr.timestamp
    BY <1>6, <1>12, <2>1 DEF b
  <2>3. s[m].first <=> mark
    BY DEF m
  <2> HIDE DEF after
  <2> QED
    BY <1>14, <2>2, <2>3
<1> HIDE DEF after
<1>16. SentBefore(s, m, after, u)
  BY <1>1, <1>9, <1>10, <1>11, <1>12, <1>13, <1>14, <1>15 DEF SentBefore, Numbered
<1> QED
  BY <1>16 DEF after, u, t, nal, m


\* The numbers of packets that are returned one behind the other.
LEMMA NumbersIn ==
    ASSUME NEW p \in Seq(RtpPackets), NEW t \in Seq(RtpPackets), NEW n \in Nat,
           \A i \in 1..Len(p) : p[i].seq \in 1..n, \A j \in 1..Len(t) : t[j].seq \in 1..n
    PROVE  \A i \in 1..Len(p \o t) : (p \o t)[i].seq \in 1..n
<1> DEFINE u == p \o t
<1> DEFINE a == Len(p)
<1> DEFINE b == Len(t)
<1>1. a \in Nat /\ b \in Nat /\ Len(u) = a + b
  BY JoinTwo
<1>2. \A i \in 1..a : u[i] = p[i]
  BY JoinTwo
<1>3. \A j \in 1..b : u[a + j] = t[j]
  BY JoinTwo
<1>4. (\A i \in 1..a : p[i].seq \in 1..n) /\ \A j \in 1..b : t[j].seq \in 1..n
  OBVIOUS
<1> HIDE DEF u, a, b
<1> SUFFICES ASSUME NEW i \in 1..Len(u) PROVE u[i].seq \in 1..n
  BY DEF u
<1>5. CASE i <= a
  <2>1. i \in 1..a
    BY <1>1, <1>5
  <2> QED
    BY <1>2, <1>4, <2>1
<1>6. CASE ~(i <= a)
  <2>1. i - a \in 1..b /\ a + (i - a) = i
    BY <1>1, <1>6
  <2> QED
    BY <1>3, <1>4, <2>1
<1> QED
  BY <1>1, <1>5, <1>6

\* A round of the loop sends unit c, perhaps twice, and keeps the next one.
LEMMA SoundCut ==
    ASSUME NEW s \in Streams, NEW now \in Nat, NEW c \in 0..Len(s) - 1, NEW nal, NEW hdr, NEW out,
           Sound(s, now, c, nal, hdr, out),
           NEW mark \in BOOLEAN, mark <=> s[c + 1].first, NEW again \in BOOLEAN
    PROVE  LET t == Packetize([nal EXCEPT !.shouldMark = mark], hdr)
               added == IF again THEN t ELSE <<>>
               after == [seq |-> hdr.seq + Len(t),
                         timestamp |-> IF mark THEN now ELSE hdr.timestamp]
           IN  /\ t \in Seq(RtpPackets) /\ added \in Seq(RtpPackets)
               /\ Sound(s, now, c + 1, NalUnit(s[c + 1].nal), after, (out \o added) \o t)
<1> DEFINE t == Packetize([nal EXCEPT !.shouldMark = mark], hdr)
<1> DEFINE added == IF again THEN t ELSE <<>>
<1> DEFINE after == [seq |-> hdr.seq + Len(t), timestamp |-> IF mark THEN now ELSE hdr.timestamp]
<1> DEFINE more == out \o added
<1> DEFINE all == more \o t
<1> DEFINE q == Taken(out)
<1>1. /\ hdr \in Header /\ hdr.timestamp <= now /\ out \in Seq(RtpPackets)
      /\ \A i \in 1..Len(out) : out[i].seq \in 1..hdr.seq
      /\ nal = (IF c = 0 THEN NoUnit ELSE NalUnit(s[c].nal))
      /\ SentBefore(s, c, hdr, q)
  BY DEF Sound
<1>2. hdr.seq \in Nat /\ hdr.timestamp \in Nat
  BY <1>1 DEF Header
<1>3. Numbered(q) /\ Len(q) = hdr.seq
  BY <1>1 DEF SentBefore
<1>4. <<>> \in Seq(RtpPackets) /\ Len(<<>>) = 0
  BY EmptySeq
<1>5. /\ t \in Seq(RtpPackets) /\ Len(t) \in Nat
      /\ \A j \in 1..Len(t) : t[j].seq = hdr.seq + j
      /\ SentBefore(s, c + 1, after, q \o t)
  <2>1. CASE c = 0
    <3>1. t = <<>>
      BY <1>1, <2>1, NothingOfNoUnit
    <3> HIDE DEF t
    <3>2. q \o t = q /\ after.seq = hdr.seq
      <4>1. q \in Seq(RtpPackets)
        BY <1>3 DEF Numbered
      <4>2. q \o <<>> = q
        BY <4>1, ConcatEmptySeq
      <4> QED
        BY <1>2, <1>4, <3>1, <4>2
    <3> HIDE DEF q, after
    <3>3. SentUnits(c) = 0 /\ SentUnits(c + 1) = 0 /\ c + 1 # 0
      BY <2>1 DEF SentUnits
    <3>4. SentBefore(s, c + 1, after, q)
      BY <1>1, <2>1, <3>2, <3>3 DEF SentBefore
    <3> QED
      BY <1>4, <3>1, <3>2, <3>4
  <2>2. CASE c # 0
    <3>1. c \in 1..Len(s) - 1 /\ c \in 1..Len(s)
      BY <2>2, StreamTypes
    <3>2. t = PacketsOf(s[c].nal, mark, hdr)
      BY <1>1, <2>2 DEF PacketsOf
    <3>3. s[c].nal \in Seq(Byte) /\ s[c].nal # <<>>
      BY <3>1, StreamTypes, EmptySeq
    <3> HIDE DEF t
    <3>4. /\ t \in Seq(RtpPackets) /\ Len(t) \in Nat
          /\ \A j \in 1..Len(t) : t[j].seq = hdr.seq + j
      <4> DEFINE u == s[c].nal
      <4>1. u \in Seq(Byte) /\ u # <<>> /\ t = PacketsOf(u, mark, hdr)
        BY <3>2, <3>3
      <4> HIDE DEF u
      <4>2. t \in Seq(RtpPackets) /\ Len(t) \in Nat \ {0}
        BY <1>1, <4>1, PacketsAre
      <4>3. \A j \in 1..Len(t) : t[j].seq = hdr.seq + j
        BY <1>1, <4>1, PacketsAre
      <4> QED
        BY <4>2, <4>3
    <3>5. SentBefore(s, c + 1, after, q \o t)
      <4> HIDE DEF q
      <4> QED
        BY <1>1, <3>1, <3>2, UnitSent
    <3> QED
      BY <3>4, <3>5
  <2> QED
    BY <2>1, <2>2
<1> HIDE DEF t
<1>6. added \in Seq(RtpPackets)
  BY <1>4, <1>5
<1>7. \A j \in 1..Len(added) : added[j].seq = hdr.seq + j
  BY <1>4, <1>5
<1> HIDE DEF q
<1>8. Taken(all) = q \o t /\ all \in Seq(RtpPackets) /\ more \in Seq(RtpPackets)
  <2>1. more \in Seq(RtpPackets)
    BY <1>1, <1>6, JoinTwo
  <2>2. all \in Seq(RtpPackets)
    <3> HIDE DEF more
    <3> QED
      BY <1>5, <2>1, JoinTwo
  <2>3. CASE again
    <3>1. added = t
      BY <2>3
    <3>2. Taken(more) = q \o t
      BY <1>1, <1>3, <1>5, <3>1, TakeNew DEF q
    <3> HIDE DEF added, more
    <3>3. Numbered(q \o t) /\ Len(q \o t) = hdr.seq + Len(t)
      <4>1. Numbered(q \o t)
        BY <1>5 DEF SentBefore
      <4>2. Len(q \o t) = after.seq
        BY <1>5 DEF SentBefore
      <4> QED
        BY <4>1, <4>2
    <3>4. \A j \in 1..Len(t) : t[j].seq \in 1..Len(q \o t)
      BY <1>2, <1>5, <3>3
    <3>5. Taken(more \o t) = Taken(more)
      BY <1>5, <2>1, <3>2, <3>3, <3>4, TakeOld
    <3> QED
      BY <2>1, <2>2, <3>2, <3>5
  <2>4. CASE ~again
    <3>1. more = out
      BY <1>1, <2>4, ConcatEmptySeq
    <3> HIDE DEF more
    <3>2. Taken(out \o t) = q \o t
      BY <1>1, <1>3, <1>5, TakeNew DEF q
    <3> QED
      BY <2>1, <2>2, <3>1, <3>2
  <2> QED
    BY <2>3, <2>4
<1>9. \A i \in 1..Len(all) : all[i].seq \in 1..hdr.seq + Len(t)
  <2> DEFINE n == hdr.seq + Len(t)
  <2>1. n \in Nat /\ \A i \in 1..hdr.seq : i \in 1..n
    BY <1>2, <1>5
  <2>2. \A i \in 1..Len(out) : out[i].seq \in 1..n
    BY <1>1, <2>1
  <2>3. \A j \in 1..Len(t) : t[j].seq \in 1..n
    BY <1>2, <1>5
  <2>4. \A j \in 1..Len(added) : added[j].seq \in 1..n
    BY <1>4, <2>3
  <2> HIDE DEF n, added
  <2>5. \A i \in 1..Len(more) : more[i].seq \in 1..n
    BY <1>1, <1>6, <2>1, <2>2, <2>4, NumbersIn
  <2> HIDE DEF more
  <2>6. \A i \in 1..Len(all) : all[i].seq \in 1..n
    BY <1>5, <1>8, <2>1, <2>3, <2>5, NumbersIn
  <2> QED
    BY <2>6 DEF n
<1>10. after \in Header /\ after.timestamp <= now /\ after.seq = hdr.seq + Len(t)
  BY <1>1, <1>2, <1>5 DEF Header
<1> HIDE DEF after, all, more, added
<1>11. c + 1 # 0
  OBVIOUS
<1>12. Sound(s, now, c + 1, NalUnit(s[c + 1].nal), after, all)
  BY <1>5, <1>8, <1>9, <1>10, <1>11 DEF Sound
<1> QED
  BY <1>5, <1>6, <1>12 DEF after, all, more, added, t

-----------------------------------------------------------------------------
(* The buffer and the loop of incoming(). *)

\* The stream starts with a separator.
LEMMA FirstFront ==
    ASSUME NEW s \in Streams, NEW zeros \in Nat
    PROVE  Front(s, zeros, 1) = 0
<1>1. 1 \in 1..Len(s) /\ s[1].first
  BY StreamTypes
<1>2. Long(s, 1)
  BY <1>1 DEF Long
<1>3. Len(Sep(s, zeros, 1)) = 4
  BY <1>2 DEF Sep, LongSep
<1>4. Len(UnitsTo(s, zeros)[0]) = 0
  BY UnitsStep, EmptySeq DEF UnitsOf
<1>5. SepEnd(s, zeros, 1) = 0 + 4
  <2> 1 - 1 = 0
    OBVIOUS
  <2> QED
    BY <1>3, <1>4 DEF SepEnd
<1> QED
  BY <1>2, <1>5 DEF Front, SepSize


\* The bytes behind the first d, up to e.
Chunk(s, zeros, d, e) == SubSeq(BytesOf(s, zeros), d + 1, e)

\* More bytes that are read.
LEMMA HeldMore ==
    ASSUME NEW s \in Streams, NEW zeros \in Nat, NEW k, NEW d, Holds(s, zeros, k, d),
           NEW e, d <= e, Holds(s, zeros, k, e)
    PROVE  Held(s, zeros, k, d) \o Chunk(s, zeros, d, e) = Held(s, zeros, k, e)
<1> DEFINE bytes == BytesOf(s, zeros)
<1> DEFINE f == Front(s, zeros, k)
<1>1. /\ bytes \in Seq(Byte) /\ Len(bytes) \in Nat /\ f \in Nat /\ d \in Nat /\ f <= d
      /\ d <= Len(bytes)
  BY HeldIs
<1>2. e \in Nat /\ d <= e /\ e <= Len(bytes)
  BY HeldIs
<1> HIDE DEF bytes, f
<1>3. f + 1 \in 1..Len(bytes) + 1 /\ d \in (f + 1) - 1..Len(bytes) /\ e \in d..Len(bytes)
  BY <1>1, <1>2
<1>4. SubSeq(bytes, f + 1, d) \o SubSeq(bytes, d + 1, e) = SubSeq(bytes, f + 1, e)
  BY <1>1, <1>3, ConcatAdjacentSubSeq
<1> QED
  BY <1>4 DEF Held, Chunk, bytes, f

\* The third byte tells the separators apart.
LEMMA StartIs ==
    ASSUME NEW s \in Streams, NEW zeros \in Nat, NEW k, NEW e, Holds(s, zeros, k, e),
           Len(Held(s, zeros, k, e)) > 3
    PROVE  StartsShort(Held(s, zeros, k, e)) <=> ~Long(s, k)
<1> DEFINE b == Held(s, zeros, k, e)
<1> DEFINE f == Front(s, zeros, k)
<1> DEFINE bytes == BytesOf(s, zeros)
<1> DEFINE z == UnitEnd(s, zeros, k - 1)
<1> DEFINE d == SepEnd(s, zeros, k)
<1>1. f \in Nat /\ e \in Nat /\ Len(b) = e - f
  BY HeldIs
<1>2. \A i \in 1..e - f : b[i] = bytes[f + i]
  BY HeldIs
<1>3. k \in 1..Len(s)
  BY DEF Holds
<1>4. z \in Nat /\ d \in Nat /\ z <= f /\ f = d - SepSize(s, k)
  BY <1>3, Layout
<1>5. (\A p \in z + 1..d - 1 : bytes[p] = 0) /\ bytes[d] = 1
  BY <1>3, Layout
<1>6. Len(b) > 3
  OBVIOUS
<1> HIDE DEF b, f, bytes, z, d
<1>7. b[3] = bytes[f + 3]
  BY <1>1, <1>2, <1>6
<1>8. CASE Long(s, k)
  <2>1. f = d - 4
    BY <1>4, <1>8 DEF SepSize
  <2>2. f + 3 \in z + 1..d - 1
    BY <1>1, <1>4, <2>1
  <2> QED
    BY <1>5, <1>7, <1>8, <2>2 DEF StartsShort, b
<1>9. CASE ~Long(s, k)
  <2>1. f = d - 3
    BY <1>4, <1>9 DEF SepSize
  <2>2. f + 3 = d
    BY <1>1, <1>4, <2>1
  <2> QED
    BY <1>5, <1>6, <1>7, <1>9, <2>2 DEF StartsShort, b
<1> QED
  BY <1>8, <1>9

\* What the code takes for the begin of an access unit is one.
LEMMA FirstIs ==
    ASSUME NEW s \in Streams, NEW k \in 1..Len(s), NEW nal,
           nal = IF k = 1 THEN NoUnit ELSE NalUnit(s[k - 1].nal)
    PROVE  (Long(s, k) /\ ~IsPsOrAUD(nal)) <=> s[k].first
<1>1. CASE k = 1
  <2>1. s[1].first
    BY StreamTypes
  <2>2. nal.header = 0
    BY <1>1 DEF NoUnit
  <2> QED
    BY <1>1, <2>1, <2>2 DEF Long, IsPsOrAUD, IsNalType, NAL_SPS, NAL_PPS, NAL_AUD
<1>2. CASE k # 1
  <2>1. k \in 2..Len(s)
    BY <1>2, StreamTypes
  <2>2. IF s[k].first THEN s[k - 1].nal[1] \notin BeforeFrame
        ELSE s[k].nal[1] \in {NAL_SPS, NAL_PPS} => s[k - 1].nal[1] \in BeforeFrame
    BY <2>1, StreamTypes
  <2>3. nal.header = s[k - 1].nal[1]
    BY <1>2 DEF NalUnit
  <2> QED
    BY <2>2, <2>3 DEF Long, IsPsOrAUD, IsNalType, BeforeFrame
<1> QED
  BY <1>1, <1>2

\* The state st of the loop when e bytes were read: the buffer starts with the separator of
\* unit k, and the units before it are sent or kept.
Reading(s, zeros, k, e, out, st) ==
    /\ Holds(s, zeros, k, e) /\ st.buffer = Held(s, zeros, k, e)
    /\ Len(st.buffer) > 3 => (st.isShort <=> ~Long(s, k))
    /\ k > 1 => SepEnd(s, zeros, k) <= e
    /\ st.ret \in Seq(RtpPackets)
    /\ Sound(s, clock, k - 1, st.lastNal, st.rtp, out \o st.ret)

LEMMA PacketsJoined ==
    ASSUME NEW a \in Seq(RtpPackets), NEW b \in Seq(RtpPackets), NEW c \in Seq(RtpPackets)
    PROVE  a \o b \in Seq(RtpPackets) /\ (a \o b) \o c = a \o (b \o c)
BY ConcatProperties, ConcatAssociative

\* A round cuts unit k off and sends the unit before it.
LEMMA CutKeeps ==
    ASSUME NEW s \in Streams, NEW zeros \in Nat, clock \in Nat, NEW k, NEW e,
           NEW out \in Seq(RtpPackets), NEW st, Reading(s, zeros, k, e, out, st),
           k < Len(s), SepEnd(s, zeros, k + 1) <= e
    PROVE  /\ Reading(s, zeros, k + 1, e, out, CutUnit(st))
           /\ Len(CutUnit(st).buffer) + 4 <= Len(st.buffer)
<1> DEFINE b == st.buffer
<1> DEFINE found == Min(Separators(b))
<1> DEFINE nextShort == b[found - 1] # 0
<1> DEFINE it == IF nextShort THEN found ELSE found - 1
<1> DEFINE nal == NalUnit(TrimZeros(SubSeq(b, IF st.isShort THEN 4 ELSE 5, it - 1)))
<1> DEFINE newAU == ~st.isShort /\ ~IsPsOrAUD(st.lastNal)
<1> DEFINE packets == Packetize([st.lastNal EXCEPT !.shouldMark = newAU], st.rtp)
<1> DEFINE again == newAU /\ ~IsNalType(nal, NAL_AUD)
<1> DEFINE added == IF again THEN packets ELSE <<>>
<1> DEFINE after == [seq |-> st.rtp.seq + Len(packets),
                    timestamp |-> IF newAU THEN clock ELSE st.rtp.timestamp]
<1> DEFINE r == CutUnit(st)
<1>1. /\ Holds(s, zeros, k, e) /\ b = Held(s, zeros, k, e)
      /\ Len(b) > 3 => (st.isShort <=> ~Long(s, k))
      /\ st.ret \in Seq(RtpPackets)
      /\ Sound(s, clock, k - 1, st.lastNal, st.rtp, out \o st.ret)
  BY DEF Reading
<1>2. k \in 1..Len(s) /\ k \in Nat /\ k + 1 \in 1..Len(s) /\ k - 1 \in 0..Len(s) - 1
      /\ (k - 1) + 1 = k /\ (k + 1) - 1 = k
  BY <1>1, StreamTypes DEF Holds
<1>3. r = [buffer |-> SubSeq(b, it, Len(b)), isShort |-> nextShort, lastNal |-> nal,
           rtp |-> after, ret |-> st.ret \o added \o packets]
  BY Zenon DEF CutUnit
<1>4. nextShort <=> ~Long(s, k + 1)
  BY <1>1, CutIs
<1>5. SubSeq(b, it, Len(b)) = Held(s, zeros, k + 1, e)
  BY <1>1, CutIs
<1>6. TrimZeros(SubSeq(b, IF Long(s, k) THEN 5 ELSE 4, it - 1)) = s[k].nal
  BY <1>1, CutIs
<1>7. Holds(s, zeros, k + 1, e)
  BY <1>1, CutIs
<1>8. Len(Held(s, zeros, k + 1, e)) + 4 <= Len(b)
  BY <1>1, CutIs
<1>9. Len(b) > 3
  <2>1. Len(Held(s, zeros, k + 1, e)) \in Nat
    <3> DEFINE m == k + 1
    <3>1. Holds(s, zeros, m, e)
      BY <1>7
    <3> HIDE DEF m
    <3>2. Held(s, zeros, m, e) \in Seq(Byte)
      BY <3>1, HeldIs
    <3> QED
      BY <3>2, LenProperties DEF m
  <2>2. Len(b) \in Nat
    <3>1. Held(s, zeros, k, e) \in Seq(Byte)
      BY <1>1, HeldIs
    <3> QED
      BY <1>1, <3>1, LenProperties
  <2> QED
    BY <1>8, <2>1, <2>2
<1>10. st.isShort <=> ~Long(s, k)
  BY <1>1, <1>9
<1>11. nal = NalUnit(s[k].nal)
  BY <1>6, <1>10
<1>12. newAU <=> s[k].first
  <2>1. st.lastNal = IF k = 1 THEN NoUnit ELSE NalUnit(s[k - 1].nal)
    BY <1>1, <1>2 DEF Sound
  <2>2. (Long(s, k) /\ ~IsPsOrAUD(st.lastNal)) <=> s[k].first
    BY <1>2, <2>1, FirstIs
  <2> QED
    BY <1>10, <2>2
<1>13. newAU \in BOOLEAN /\ again \in BOOLEAN
  OBVIOUS
<1> HIDE DEF b, found, nextShort, it, nal, newAU, again
<1>14. /\ packets \in Seq(RtpPackets) /\ added \in Seq(RtpPackets)
       /\ Sound(s, clock, k, NalUnit(s[k].nal), after, ((out \o st.ret) \o added) \o packets)
  <2> DEFINE c == k - 1
  <2>1. /\ c \in 0..Len(s) - 1 /\ c + 1 = k /\ (newAU <=> s[c + 1].first)
        /\ Sound(s, clock, c, st.lastNal, st.rtp, out \o st.ret)
    BY <1>1, <1>2, <1>12
  <2> HIDE DEF c
  <2>2. /\ packets \in Seq(RtpPackets) /\ added \in Seq(RtpPackets)
        /\ Sound(s, clock, c + 1, NalUnit(s[c + 1].nal), after,
                 ((out \o st.ret) \o added) \o packets)
    BY <1>13, <2>1, SoundCut
  <2> QED
    BY <2>1, <2>2
<1> HIDE DEF packets, added, after
<1>15. /\ st.ret \o added \o packets \in Seq(RtpPackets)
       /\ out \o (st.ret \o added \o packets) = ((out \o st.ret) \o added) \o packets
  <2> DEFINE ret == st.ret
  <2> DEFINE two == ret \o added
  <2> DEFINE before == out \o ret
  <2>1. /\ ret \in Seq(RtpPackets) /\ added \in Seq(RtpPackets) /\ packets \in Seq(RtpPackets)
        /\ out \in Seq(RtpPackets)
    BY <1>1, <1>14
  <2> HIDE DEF ret
  <2>2. two \in Seq(RtpPackets) /\ before \o added = out \o two
    BY <2>1, PacketsJoined
  <2> HIDE DEF two, before
  <2>3. two \in Seq(RtpPackets) /\ out \in Seq(RtpPackets) /\ packets \in Seq(RtpPackets)
    BY <2>1, <2>2
  <2>4. two \o packets \in Seq(RtpPackets)
    BY <2>3, PacketsJoined
  <2>5. (out \o two) \o packets = out \o (two \o packets)
    BY <2>3, PacketsJoined
  <2>6. out \o (two \o packets) = (before \o added) \o packets
    BY <2>2, <2>5
  <2> QED
    BY <2>4, <2>6 DEF ret, two, before
<1>16. /\ r.buffer = Held(s, zeros, k + 1, e) /\ (r.isShort <=> ~Long(s, k + 1))
       /\ r.lastNal = NalUnit(s[k].nal) /\ r.rtp = after /\ r.ret = st.ret \o added \o packets
  BY <1>3, <1>4, <1>5, <1>11
<1> HIDE DEF r
<1>17. Sound(s, clock, (k + 1) - 1, r.lastNal, r.rtp, out \o r.ret)
  BY <1>2, <1>14, <1>15, <1>16
<1>18. Reading(s, zeros, k + 1, e, out, r)
  BY <1>7, <1>15, <1>16, <1>17 DEF Reading
<1> QED
  BY <1>8, <1>16, <1>18 DEF r, b


\* A separator is found only where that of the next unit was read completely.
LEMMA FoundIs ==
    ASSUME NEW s \in Streams, NEW zeros \in Nat, NEW k, NEW e, Holds(s, zeros, k, e)
    PROVE  Separators(Held(s, zeros, k, e)) = {}
             <=> (k < Len(s) => SepEnd(s, zeros, k + 1) > e)
<1>1. k \in 1..Len(s) /\ Len(s) \in Nat /\ e \in Nat
  <2>1. e \in Nat
    BY HeldIs
  <2> QED
    BY <2>1, StreamTypes DEF Holds
<1>2. k < Len(s) => SepEnd(s, zeros, k + 1) \in Nat
  <2> DEFINE m == k + 1
  <2>1. k < Len(s) => m \in 1..Len(s)
    BY <1>1
  <2> HIDE DEF m
  <2>2. k < Len(s) => SepEnd(s, zeros, m) \in Nat
    BY <2>1, Layout
  <2> QED
    BY <2>2 DEF m
<1>3. CASE k < Len(s) => SepEnd(s, zeros, k + 1) > e
  BY <1>3, NoSeparator
<1>4. CASE ~(k < Len(s) => SepEnd(s, zeros, k + 1) > e)
  <2>1. k < Len(s) /\ SepEnd(s, zeros, k + 1) <= e
    BY <1>1, <1>2, <1>4
  <2>2. \E i : i \in Separators(Held(s, zeros, k, e))
    BY <2>1, FirstSeparator
  <2> QED
    BY <1>4, <2>2
<1> QED
  BY <1>3, <1>4

\* After i rounds.
LEMMA RoundsKeep ==
    ASSUME NEW s \in Streams, NEW zeros \in Nat, clock \in Nat, NEW e,
           NEW out \in Seq(RtpPackets), NEW bytes, NEW k,
           Reading(s, zeros, k, e, out, AtStart(bytes))
    PROVE  LET r == CutUnits(bytes)
           IN  \E m : Reading(s, zeros, m, e, out, r) /\ Separators(r.buffer) = {}
<1> DEFINE g == Rounds(bytes)
<1> DEFINE n == Len(bytes) \div 4
<1> DEFINE Good(st, i) ==
             /\ \E m : Reading(s, zeros, m, e, out, st)
             /\ Separators(st.buffer) = {} \/ Len(st.buffer) + 4 * i <= Len(bytes)
<1>1. \A st : (\E m : Reading(s, zeros, m, e, out, st)) => Len(st.buffer) \in Nat
  <2> SUFFICES ASSUME NEW st, NEW m, Reading(s, zeros, m, e, out, st) PROVE Len(st.buffer) \in Nat
    OBVIOUS
  <2>1. Holds(s, zeros, m, e) /\ st.buffer = Held(s, zeros, m, e)
    BY DEF Reading
  <2>2. Held(s, zeros, m, e) \in Seq(Byte)
    BY <2>1, HeldIs
  <2> QED
    BY <2>1, <2>2, LenProperties
<1>2. AtStart(bytes).buffer = bytes /\ Len(bytes) \in Nat
  <2>1. AtStart(bytes).buffer = bytes
    BY DEF AtStart
  <2> QED
    BY <1>1, <2>1
<1>3. n \in Nat /\ Len(bytes) < 4 * n + 4
  <2> DEFINE a == Len(bytes)
  <2>1. a \in Nat
    BY <1>2
  <2> HIDE DEF a
  <2>2. a \div 4 \in Nat /\ a < 4 * (a \div 4) + 4
    BY <2>1
  <2> QED
    BY <2>2 DEF a
<1>4. g[0] = AtStart(bytes) /\ \A i \in 1..n : g[i] = Round(g[i - 1])
  BY <1>3, RoundsDef
<1> HIDE DEF g, n
<1>5. Good(g[0], 0)
  <2>1. Len(bytes) + 4 * 0 <= Len(bytes)
    BY <1>2
  <2> QED
    BY <1>2, <1>4, <2>1
<1>6. ASSUME NEW i \in Nat, NEW st, Good(st, i) PROVE Good(Round(st), i + 1)
  <2>1. PICK m : Reading(s, zeros, m, e, out, st)
    BY <1>6
  <2>2. Holds(s, zeros, m, e) /\ st.buffer = Held(s, zeros, m, e)
    BY <2>1 DEF Reading
  <2>3. CASE Separators(st.buffer) = {}
    <3>1. Round(st) = st
      BY <2>3 DEF Round
    <3> QED
      BY <2>1, <2>3, <3>1
  <2>4. CASE Separators(st.buffer) # {}
    <3>1. m < Len(s) /\ ~(SepEnd(s, zeros, m + 1) > e)
      BY <2>2, <2>4, FoundIs
    <3>2. SepEnd(s, zeros, m + 1) <= e
      <4> DEFINE x == m + 1
      <4>1. x \in 1..Len(s)
        BY <2>2, <3>1, StreamTypes DEF Holds
      <4>2. ~(SepEnd(s, zeros, x) > e)
        BY <3>1
      <4>3. e \in Nat
        BY <2>2, HeldIs
      <4> HIDE DEF x
      <4>4. SepEnd(s, zeros, x) \in Nat
        BY <4>1, Layout
      <4>5. SepEnd(s, zeros, x) <= e
        BY <4>2, <4>3, <4>4
      <4> QED
        BY <4>5 DEF x
    <3> DEFINE r == CutUnit(st)
    <3>3. Reading(s, zeros, m + 1, e, out, r) /\ Len(r.buffer) + 4 <= Len(st.buffer)
      BY <2>1, <3>1, <3>2, CutKeeps
    <3>4. Round(st) = r
      BY <2>4 DEF Round
    <3> HIDE DEF r
    <3>5. \E x : Reading(s, zeros, x, e, out, r)
      BY <3>3
    <3>6. Len(r.buffer) \in Nat /\ Len(st.buffer) \in Nat
      BY <1>1, <2>1, <3>5
    <3>7. Len(st.buffer) + 4 * i <= Len(bytes)
      BY <1>6, <2>4
    <3>8. Len(r.buffer) + 4 * (i + 1) <= Len(bytes)
      <4> DEFINE a == Len(r.buffer)
      <4> DEFINE b == Len(st.buffer)
      <4> DEFINE c == Len(bytes)
      <4>1. a \in Nat /\ b \in Nat /\ c \in Nat /\ a + 4 <= b /\ b + 4 * i <= c
        BY <1>2, <3>3, <3>6, <3>7
      <4> HIDE DEF a, b, c
      <4>2. a + 4 * (i + 1) <= c
        BY <4>1
      <4> QED
        BY <4>2 DEF a, c
    <3> QED
      BY <3>4, <3>5, <3>8
  <2> QED
    BY <2>3, <2>4
<1> HIDE DEF Good
<1> DEFINE S == {i \in Nat : i <= n => Good(g[i], i)}
<1>7. 0 \in S
  BY <1>5
<1>8. ASSUME NEW i \in S PROVE i + 1 \in S
  <2>1. SUFFICES ASSUME i + 1 <= n PROVE Good(g[i + 1], i + 1)
    OBVIOUS
  <2>2. i \in Nat /\ i + 1 \in 1..n /\ (i + 1) - 1 = i /\ Good(g[i], i)
    BY <1>3, <2>1
  <2> HIDE DEF S
  <2>3. g[i + 1] = Round(g[i])
    BY <1>4, <2>2
  <2> QED
    BY <1>6, <2>2, <2>3
<1>9. S = Nat
  <2> HIDE DEF S
  <2> S \in SUBSET Nat
    BY DEF S
  <2> QED
    BY <1>7, <1>8, NatSetInduction
<1>10. Good(g[n], n)
  <2>1. n \in S
    <3> HIDE DEF S
    <3> QED
      BY <1>3, <1>9
  <2> QED
    BY <1>3, <2>1
<1> DEFINE r == g[n]
<1>11. r = CutUnits(bytes)
  BY DEF CutUnits, g, n
<1>12. Good(r, n)
  BY <1>10
<1> HIDE DEF S, r
<1>13. PICK m : Reading(s, zeros, m, e, out, r)
  BY <1>12 DEF Good
<1>14. Separators(r.buffer) = {}
  <2>1. SUFFICES ASSUME Len(r.buffer) + 4 * n <= Len(bytes) PROVE Separators(r.buffer) = {}
    BY <1>12 DEF Good
  <2>2. Len(r.buffer) \in Nat
    BY <1>1, <1>13
  <2>3. Len(r.buffer) < 4
    <3> DEFINE a == Len(r.buffer)
    <3> DEFINE c == Len(bytes)
    <3>1. a \in Nat /\ c \in Nat /\ n \in Nat /\ c < 4 * n + 4 /\ a + 4 * n <= c
      BY <1>2, <1>3, <2>1, <2>2
    <3> HIDE DEF a, c
    <3>2. a < 4
      BY <3>1
    <3> QED
      BY <3>2 DEF a
  <2>4. 5..Len(r.buffer) - 2 = {}
    BY <2>2, <2>3
  <2> QED
    BY <2>4 DEF Separators
<1> QED
  BY <1>11, <1>13, <1>14

-----------------------------------------------------------------------------
(* The inductive invariant. *)

\* Of the bytes e that were read, the buffer has those from the separator of unit k on; the
\* separator of the next unit has not been read completely.
Cut(s, zeros, k, e, buf) ==
    /\ Holds(s, zeros, k, e) /\ buf = Held(s, zeros, k, e)
    /\ k > 1 => SepEnd(s, zeros, k) <= e
    /\ k < Len(s) => SepEnd(s, zeros, k + 1) > e

PacketizerInv ==
    /\ stream \in Streams /\ padding \in 0..MaxPadding /\ clock \in 0..MaxTime
    /\ \E k \in 1..Len(stream) :
        /\ Cut(stream, padding, k, read, buffer)
        /\ Sound(stream, clock, k - 1, lastNal, rtp, returned)

LEMMA PacketizerStart == PacketizerInit => PacketizerInv
<1> SUFFICES ASSUME PacketizerInit PROVE PacketizerInv
  OBVIOUS
<1>1. /\ stream \in Streams /\ padding \in 0..MaxPadding /\ read = 0 /\ buffer = <<>>
      /\ lastNal = NoUnit /\ rtp = [seq |-> 0, timestamp |-> 0] /\ returned = <<>> /\ clock = 0
  BY DEF PacketizerInit
<1>2. MaxPadding \in Nat /\ MaxTime \in Nat /\ padding \in Nat
  BY <1>1, PacketizerBounds
<1>3. 1 \in 1..Len(stream) /\ Len(stream) \in Nat
  BY <1>1, StreamTypes
<1>4. Front(stream, padding, 1) = 0 /\ Len(Bytes) \in Nat
  <2>1. Front(stream, padding, 1) = 0
    BY <1>1, <1>2, FirstFront
  <2>2. Len(BytesOf(stream, padding)) \in Nat
    <3>1. Len(stream) \in 0..Len(stream)
      BY <1>3
    <3> QED
      BY <1>1, <1>2, <3>1, UnitsType DEF BytesOf
  <2> QED
    BY <2>1, <2>2 DEF Bytes, BytesOf, UnitsOf
<1>5. Cut(stream, padding, 1, read, buffer)
  <2>1. Holds(stream, padding, 1, 0)
    BY <1>3, <1>4 DEF Holds, Bytes, BytesOf, UnitsOf
  <2>2. Held(stream, padding, 1, 0) = <<>>
    BY <1>4, SubSeqEmpty DEF Held
  <2>3. 1 < Len(stream) => SepEnd(stream, padding, 2) > 0
    <3> SUFFICES ASSUME 1 < Len(stream) PROVE SepEnd(stream, padding, 2) > 0
      OBVIOUS
    <3>1. 2 \in 1..Len(stream)
      BY <1>3
    <3>2. /\ Front(stream, padding, 2) \in Nat /\ SepEnd(stream, padding, 2) \in Nat
          /\ Front(stream, padding, 2) = SepEnd(stream, padding, 2) - SepSize(stream, 2)
      <4>1. \A k \in 1..Len(stream) :
              /\ Front(stream, padding, k) \in Nat /\ SepEnd(stream, padding, k) \in Nat
              /\ Front(stream, padding, k) = SepEnd(stream, padding, k) - SepSize(stream, k)
        BY <1>1, <1>2, Layout
      <4> QED
        BY <3>1, <4>1
    <3> QED
      BY <3>2 DEF SepSize
  <2>4. 1 + 1 = 2 /\ ~(1 > 1)
    OBVIOUS
  <2> QED
    BY <1>1, <2>1, <2>2, <2>3, <2>4 DEF Cut
<1>6. Sound(stream, clock, 1 - 1, lastNal, rtp, returned)
  <2>1. <<>> \in Seq(RtpPackets) /\ Len(<<>>) = 0
    BY EmptySeq
  <2>2. Taken(<<>>) = <<>> /\ JoinedOf(<<>>) = <<>>
    BY <2>1, TakenDef, JoinedDef DEF Taken, JoinedOf
  <2>3. Begun(<<>>) = 0
    <3>1. {j \in 1..Len(<<>>) : Begins(<<>>[j])} = {}
      BY <2>1
    <3> QED
      BY <3>1, FS_EmptySet DEF Begun
  <2>4. Delimited(stream, <<>>)
    <3>1. \A i \in 1..Len(<<>>) : Fits(stream, <<>>, i)
      BY <2>1
    <3> QED
      BY <2>1, <3>1, AllFit
  <2>5. <<>> = [k \in 1..0 |-> stream[k].nal]
    OBVIOUS
  <2>6. SentBefore(stream, 0, rtp, <<>>)
    BY <1>1, <2>1, <2>2, <2>3, <2>4, <2>5 DEF SentBefore, Numbered, SentUnits
  <2>7. rtp \in Header /\ rtp.timestamp <= clock
    BY <1>1 DEF Header
  <2> QED
    BY <1>1, <2>1, <2>2, <2>6, <2>7 DEF Sound
<1>7. PacketizerInv
  <2>1. clock \in 0..MaxTime
    BY <1>1, <1>2
  <2> QED
    BY <1>1, <1>3, <1>5, <1>6, <2>1 DEF PacketizerInv
<1> QED
  BY <1>7

\* What incoming() is given is found in the units of the stream, whatever the chunks.
LEMMA IncomingKeeps ==
    ASSUME PacketizerInv, NEW n \in 1..MaxChunk, Incoming(n)
    PROVE  PacketizerInv'
<1>1. /\ stream \in Streams /\ padding \in 0..MaxPadding /\ clock \in 0..MaxTime
      /\ \E k \in 1..Len(stream) :
           /\ Cut(stream, padding, k, read, buffer)
           /\ Sound(stream, clock, k - 1, lastNal, rtp, returned)
  BY DEF PacketizerInv
<1>2. padding \in Nat /\ clock \in Nat /\ n \in Nat /\ MaxTime \in Nat
  BY <1>1, PacketizerBounds
<1>3. PICK k \in 1..Len(stream) :
           /\ Cut(stream, padding, k, read, buffer)
           /\ Sound(stream, clock, k - 1, lastNal, rtp, returned)
  BY <1>1
<1>4. Bytes = BytesOf(stream, padding)
  BY DEF Bytes, BytesOf, UnitsOf
<1> DEFINE e == read + n
<1> DEFINE bytes == buffer \o SubSeq(Bytes, read + 1, e)
<1> DEFINE r == CutUnits(bytes)
<1>5. /\ e <= Len(Bytes)
      /\ read' = e /\ buffer' = r.buffer /\ lastNal' = r.lastNal /\ rtp' = r.rtp
      /\ returned' = returned \o r.ret
      /\ stream' = stream /\ padding' = padding /\ clock' = clock
  BY DEF Incoming
<1>6. /\ Holds(stream, padding, k, read) /\ buffer = Held(stream, padding, k, read)
      /\ k > 1 => SepEnd(stream, padding, k) <= read
  BY <1>3 DEF Cut
<1>7. Holds(stream, padding, k, e) /\ bytes = Held(stream, padding, k, e)
  <2>1. bytes = buffer \o Chunk(stream, padding, read, e)
    BY <1>4 DEF Chunk
  <2>2. /\ stream \in Streams /\ padding \in Nat
        /\ Holds(stream, padding, k, read) /\ buffer = Held(stream, padding, k, read)
    BY <1>1, <1>2, <1>6
  <2>3. Front(stream, padding, k) \in Nat /\ read \in Nat /\ Front(stream, padding, k) <= read
    BY <2>2, HeldIs
  <2>4. Len(BytesOf(stream, padding)) \in Nat
    BY <2>2, HeldIs
  <2>5. e \in Front(stream, padding, k)..Len(BytesOf(stream, padding)) /\ read <= e
    BY <1>2, <1>4, <1>5, <2>3, <2>4
  <2> HIDE DEF bytes, e
  <2>6. Holds(stream, padding, k, e)
    BY <2>2, <2>5 DEF Holds
  <2>7. Held(stream, padding, k, read) \o Chunk(stream, padding, read, e)
          = Held(stream, padding, k, e)
    BY <2>2, <2>5, <2>6, HeldMore
  <2> QED
    BY <2>1, <2>2, <2>6, <2>7
<1>8. k > 1 => SepEnd(stream, padding, k) <= e
  <2>1. SepEnd(stream, padding, k) \in Nat
    BY <1>1, <1>2, Layout
  <2>2. read \in Nat
    BY <1>1, <1>2, <1>6, HeldIs
  <2> QED
    BY <1>2, <1>6, <2>1, <2>2
<1> HIDE DEF e, bytes, r
<1>9. Reading(stream, padding, k, e, returned, AtStart(bytes))
  <2> DEFINE st == AtStart(bytes)
  <2>1. /\ st.buffer = bytes /\ (st.isShort <=> StartsShort(bytes)) /\ st.ret = <<>>
        /\ st.lastNal = lastNal /\ st.rtp = rtp
    BY DEF AtStart
  <2> HIDE DEF st
  <2>2. returned \in Seq(RtpPackets)
    BY <1>3 DEF Sound
  <2>3. <<>> \in Seq(RtpPackets) /\ returned \o <<>> = returned
    BY <2>2, EmptySeq, ConcatEmptySeq
  <2>4. Len(bytes) > 3 => (st.isShort <=> ~Long(stream, k))
    BY <1>1, <1>2, <1>7, <2>1, StartIs
  <2>5. Reading(stream, padding, k, e, returned, st)
    BY <1>3, <1>7, <1>8, <2>1, <2>3, <2>4 DEF Reading
  <2> QED
    BY <2>5 DEF st
<1>10. returned \in Seq(RtpPackets)
  BY <1>3 DEF Sound
<1>11. PICK m : Reading(stream, padding, m, e, returned, r) /\ Separators(r.buffer) = {}
  BY <1>1, <1>2, <1>9, <1>10, RoundsKeep DEF r
<1>12. /\ Holds(stream, padding, m, e) /\ r.buffer = Held(stream, padding, m, e)
       /\ m > 1 => SepEnd(stream, padding, m) <= e
       /\ Sound(stream, clock, m - 1, r.lastNal, r.rtp, returned \o r.ret)
  BY <1>11 DEF Reading
<1>13. m < Len(stream) => SepEnd(stream, padding, m + 1) > e
  BY <1>1, <1>2, <1>11, <1>12, FoundIs
<1>14. m \in 1..Len(stream)
  BY <1>12 DEF Holds
<1>15. Cut(stream, padding, m, e, r.buffer)
  BY <1>12, <1>13 DEF Cut
<1>16. /\ Cut(stream', padding', m, read', buffer')
       /\ Sound(stream', clock', m - 1, lastNal', rtp', returned')
  BY <1>5, <1>12, <1>15
<1> QED
  BY <1>1, <1>5, <1>14, <1>16 DEF PacketizerInv

LEMMA ElapseKeeps ==
    ASSUME PacketizerInv, Elapse
    PROVE  PacketizerInv'
<1>1. /\ stream \in Streams /\ padding \in 0..MaxPadding /\ clock \in 0..MaxTime
      /\ \E k \in 1..Len(stream) :
           /\ Cut(stream, padding, k, read, buffer)
           /\ Sound(stream, clock, k - 1, lastNal, rtp, returned)
  BY DEF PacketizerInv
<1>2. /\ clock < MaxTime /\ clock' = clock + 1 /\ stream' = stream /\ padding' = padding
      /\ read' = read /\ buffer' = buffer /\ lastNal' = lastNal /\ rtp' = rtp
      /\ returned' = returned
  BY DEF Elapse
<1>3. PICK k \in 1..Len(stream) :
           /\ Cut(stream, padding, k, read, buffer)
           /\ Sound(stream, clock, k - 1, lastNal, rtp, returned)
  BY <1>1
<1>4. clock' \in 0..MaxTime
  BY <1>1, <1>2, PacketizerBounds
<1>5. Sound(stream, clock + 1, k - 1, lastNal, rtp, returned)
  <2>1. rtp.timestamp \in Nat /\ rtp.timestamp <= clock /\ clock \in Nat
    BY <1>1, <1>3 DEF Sound, Header
  <2>2. rtp.timestamp <= clock + 1
    BY <2>1
  <2> QED
    BY <1>3, <2>2 DEF Sound
<1>6. /\ Cut(stream', padding', k, read', buffer')
      /\ Sound(stream', clock', k - 1, lastNal', rtp', returned')
  BY <1>2, <1>3, <1>5
<1> QED
  BY <1>1, <1>2, <1>4, <1>6 DEF PacketizerInv

LEMMA PacketizerInvHolds == PacketizerSpec => []PacketizerInv
<1>1. PacketizerInv /\ [PacketizerNext]_packetizerVars => PacketizerInv'
  <2> SUFFICES ASSUME PacketizerInv, [PacketizerNext]_packetizerVars PROVE PacketizerInv'
    OBVIOUS
  <2>1. ASSUME NEW n \in 1..MaxChunk, Incoming(n) PROVE PacketizerInv'
    BY <2>1, IncomingKeeps
  <2>2. CASE Elapse
    BY <2>2, ElapseKeeps
  <2>3. CASE UNCHANGED packetizerVars
    BY <2>3 DEF PacketizerInv, packetizerVars
  <2> QED
    BY <2>1, <2>2, <2>3 DEF PacketizerNext
<1> QED
  BY <1>1, PacketizerStart, PTL DEF PacketizerSpec


-----------------------------------------------------------------------------
(* The units are sent, and the access units delimited. *)

\* The separator of a later unit ends later.
LEMMA SepEndsGrow ==
    ASSUME NEW s \in Streams, NEW zeros \in Nat, NEW j \in 1..Len(s), NEW k \in 1..Len(s), j <= k
    PROVE  SepEnd(s, zeros, j) <= SepEnd(s, zeros, k)
<1> DEFINE S == {n \in Nat : j + n <= Len(s) => SepEnd(s, zeros, j) <= SepEnd(s, zeros, j + n)}
<1>1. Len(s) \in Nat /\ j \in Nat /\ k \in Nat /\ k <= Len(s)
  BY StreamTypes
<1>2. \A m \in 1..Len(s) : SepEnd(s, zeros, m) \in Nat
  BY Layout
<1>3. 0 \in S
  <2>1. j + 0 = j /\ SepEnd(s, zeros, j) \in Nat
    BY <1>1, <1>2
  <2> QED
    BY <2>1
<1>4. ASSUME NEW n \in S PROVE n + 1 \in S
  <2> DEFINE m == j + n
  <2> DEFINE x == m + 1
  <2>1. SUFFICES ASSUME x <= Len(s) PROVE SepEnd(s, zeros, j) <= SepEnd(s, zeros, x)
    BY <1>1
  <2>2. /\ m \in 1..Len(s) /\ x \in 1..Len(s) /\ x - 1 = m
        /\ SepEnd(s, zeros, j) <= SepEnd(s, zeros, m)
    BY <1>1, <2>1
  <2> HIDE DEF S, m, x
  <2>3. UnitEnd(s, zeros, m) = SepEnd(s, zeros, m) + Len(s[m].nal)
    BY <2>2, Layout
  <2>4. /\ UnitEnd(s, zeros, x - 1) <= Front(s, zeros, x)
        /\ Front(s, zeros, x) = SepEnd(s, zeros, x) - SepSize(s, x)
    BY <2>2, Layout
  <2>5. Len(s[m].nal) \in Nat /\ SepSize(s, x) \in Nat
    BY <2>2, StreamTypes DEF SepSize
  <2> DEFINE a == SepEnd(s, zeros, j)
  <2> DEFINE b == SepEnd(s, zeros, m)
  <2> DEFINE c == SepEnd(s, zeros, x)
  <2> DEFINE u == UnitEnd(s, zeros, m)
  <2> DEFINE f == Front(s, zeros, x)
  <2> DEFINE l == Len(s[m].nal)
  <2> DEFINE d == SepSize(s, x)
  <2>6. /\ a \in Nat /\ b \in Nat /\ c \in Nat /\ l \in Nat /\ d \in Nat
        /\ a <= b /\ u = b + l /\ u <= f /\ f = c - d
    BY <1>2, <2>2, <2>3, <2>4, <2>5
  <2> HIDE DEF a, b, c, u, f, l, d
  <2>7. a <= c
    BY <2>6
  <2> QED
    BY <2>7 DEF a, c
<1>5. S = Nat
  <2> HIDE DEF S
  <2> S \in SUBSET Nat
    BY DEF S
  <2> QED
    BY <1>3, <1>4, NatSetInduction
<1>6. k - j \in S /\ j + (k - j) = k
  <2> HIDE DEF S
  <2> QED
    BY <1>1, <1>5
<1> QED
  BY <1>1, <1>6

\* The complete units are those before the one that the buffer starts with.
LEMMA CompleteIs ==
    ASSUME stream \in Streams, padding \in Nat, NEW k, Cut(stream, padding, k, read, buffer)
    PROVE  Complete = k - 1
<1> DEFINE end(j) == SepEnd(stream, padding, j)
<1>1. /\ k \in 1..Len(stream) /\ Len(stream) \in Nat /\ read \in Nat
      /\ (k > 1 => end(k) <= read) /\ (k < Len(stream) => end(k + 1) > read)
  <2>1. Holds(stream, padding, k, read)
    BY DEF Cut
  <2>2. read \in Nat
    BY <2>1, HeldIs
  <2> QED
    BY <2>1, <2>2, StreamTypes DEF Cut, Holds
<1>2. \A j, m \in 1..Len(stream) : end(j) \in Nat /\ (j <= m => end(j) <= end(m))
  BY SepEndsGrow, Layout
<1> HIDE DEF end
<1>3. ASSUME NEW j \in 2..Len(stream) PROVE end(j) <= read <=> j <= k
  <2>1. CASE j <= k
    <3>1. j \in 1..Len(stream) /\ k > 1
      BY <1>1, <2>1
    <3>2. end(j) <= end(k) /\ end(j) \in Nat /\ end(k) \in Nat /\ end(k) <= read
      BY <1>1, <1>2, <2>1, <3>1
    <3> QED
      BY <1>1, <2>1, <3>2
  <2>2. CASE ~(j <= k)
    <3> DEFINE m == k + 1
    <3>1. j \in 1..Len(stream) /\ m \in 1..Len(stream) /\ m <= j /\ k < Len(stream)
      BY <1>1, <2>2
    <3>2. end(m) > read
      BY <1>1, <3>1
    <3> HIDE DEF m
    <3>3. end(m) <= end(j) /\ end(j) \in Nat /\ end(m) \in Nat
      BY <1>2, <3>1
    <3>4. ~(end(j) <= read)
      BY <1>1, <3>2, <3>3
    <3> QED
      BY <2>2, <3>4
  <2> QED
    BY <2>1, <2>2
<1>4. {j \in 2..Len(stream) : end(j) <= read} = 2..k
  <2>1. \A j \in 2..k : j \in 2..Len(stream) /\ j <= k
    BY <1>1
  <2>2. \A j \in 2..Len(stream) : j <= k => j \in 2..k
    BY <1>1
  <2> QED
    BY <1>3, <2>1, <2>2
<1>5. Cardinality(2..k) = k - 1
  <2>1. Cardinality(2..k) = IF 2 > k THEN 0 ELSE k - 2 + 1
    BY <1>1, FS_Interval
  <2> QED
    BY <1>1, <2>1
<1> QED
  BY <1>4, <1>5 DEF Complete, end

LEMMA InvImpliesSent == PacketizerInv => NalUnitsAreSent
<1> SUFFICES ASSUME PacketizerInv PROVE NalUnitsAreSent
  OBVIOUS
<1>1. /\ stream \in Streams /\ padding \in 0..MaxPadding /\ clock \in 0..MaxTime
      /\ \E k \in 1..Len(stream) :
           /\ Cut(stream, padding, k, read, buffer)
           /\ Sound(stream, clock, k - 1, lastNal, rtp, returned)
  BY DEF PacketizerInv
<1>2. padding \in Nat /\ clock \in Nat
  BY <1>1, PacketizerBounds
<1>3. PICK k \in 1..Len(stream) :
           /\ Cut(stream, padding, k, read, buffer)
           /\ Sound(stream, clock, k - 1, lastNal, rtp, returned)
  BY <1>1
<1>4. Complete = k - 1
  BY <1>1, <1>2, <1>3, CompleteIs
<1>5. /\ rtp \in Header /\ rtp.timestamp <= clock
      /\ returned \in Seq(RtpPackets) /\ \A i \in 1..Len(returned) : returned[i].seq \in 1..rtp.seq
      /\ lastNal = (IF k - 1 = 0 THEN NoUnit ELSE NalUnit(stream[k - 1].nal))
      /\ SentBefore(stream, k - 1, rtp, Taken(returned))
  BY <1>3 DEF Sound
<1>6. PacketizerTypes
  <2>1. Holds(stream, padding, k, read) /\ buffer = Held(stream, padding, k, read)
    BY <1>3 DEF Cut
  <2>2. /\ read \in Nat /\ read <= Len(BytesOf(stream, padding))
        /\ Len(BytesOf(stream, padding)) \in Nat
    BY <1>1, <1>2, <2>1, HeldIs
  <2>3. read \in 0..Len(Bytes)
    BY <2>2 DEF Bytes, BytesOf, UnitsOf
  <2>4. Separators(buffer) = {}
    <3>1. k < Len(stream) => SepEnd(stream, padding, k + 1) > read
      BY <1>3 DEF Cut
    <3> QED
      BY <1>1, <1>2, <2>1, <3>1, FoundIs
  <2>5. lastNal = NoUnit \/ \E j \in DOMAIN stream : lastNal = NalUnit(stream[j].nal)
    <3>1. Len(stream) \in Nat /\ DOMAIN stream = 1..Len(stream)
      BY <1>1, StreamTypes
    <3>2. k - 1 # 0 => k - 1 \in DOMAIN stream
      BY <3>1
    <3> QED
      BY <1>5, <3>2
  <2>6. rtp.seq \in Nat /\ rtp.timestamp \in 0..clock
    BY <1>2, <1>5 DEF Header
  <2>7. DOMAIN returned = 1..Len(returned)
    BY <1>5, LenProperties
  <2> QED
    BY <1>1, <1>5, <2>3, <2>4, <2>5, <2>6, <2>7 DEF PacketizerTypes
<1>7. Packets = Taken(returned)
  BY DEF Packets, Taken
<1>8. /\ Numbered(Packets)
      /\ JoinedOf(Packets) = [j \in 1..SentUnits(k - 1) |-> stream[j].nal]
  BY <1>5, <1>7 DEF SentBefore
<1>9. Received = JoinedOf(Packets)
  BY DEF Received, JoinedOf
<1>10. SentUnits(k - 1) = Max({Complete, 1}) - 1
  <2> DEFINE S == {Complete, 1}
  <2>1. k \in Nat \ {0}
    BY <1>3
  <2>2. CASE k - 1 = 0
    <3>1. S \in SUBSET Int /\ 1 \in S /\ \A j \in S : 1 >= j
      BY <1>4, <2>2
    <3>2. Max(S) = 1
      BY <3>1, GreatestIs
    <3> QED
      BY <2>2, <3>2 DEF SentUnits
  <2>3. CASE k - 1 # 0
    <3> DEFINE c == k - 1
    <3>1. c \in Nat \ {0} /\ SentUnits(c) = c - 1 /\ S = {c, 1}
      BY <1>4, <2>1, <2>3 DEF SentUnits
    <3> HIDE DEF c, S
    <3>2. S \in SUBSET Int /\ c \in S /\ \A j \in S : c >= j
      BY <3>1
    <3>3. Max(S) = c
      BY <3>2, GreatestIs
    <3> QED
      BY <3>1, <3>3 DEF c, S
  <2> QED
    BY <2>2, <2>3
<1>11. Received = [j \in 1..(Max({Complete, 1}) - 1) |-> stream[j].nal]
  BY <1>8, <1>9, <1>10
<1>12. \A i \in DOMAIN Packets : Packets[i].seq = i
  <2>1. Packets \in Seq(RtpPackets) /\ \A i \in 1..Len(Packets) : Packets[i].seq = i
    BY <1>8 DEF Numbered
  <2>2. DOMAIN Packets = 1..Len(Packets)
    BY <2>1, LenProperties
  <2> QED
    BY <2>1, <2>2
<1> QED
  BY <1>6, <1>11, <1>12, Zenon DEF NalUnitsAreSent

LEMMA InvImpliesDelimited == PacketizerInv => FramesAreDelimited
<1> SUFFICES ASSUME PacketizerInv PROVE FramesAreDelimited
  OBVIOUS
<1>1. PICK k \in 1..Len(stream) : Sound(stream, clock, k - 1, lastNal, rtp, returned)
  BY DEF PacketizerInv
<1>2. Delimited(stream, Taken(returned))
  BY <1>1 DEF Sound, SentBefore
<1> QED
  BY <1>2 DEF FramesAreDelimited, Packets, Taken

\* Whatever the encoder sends, and however its stream is cut into the chunks that
\* incoming() is given, each unit of which the next one's separator has come is sent,
\* except the one that is kept: byte for byte, in order, in packets with consecutive
\* numbers.
THEOREM UnitsArriveWhole == PacketizerSpec => []NalUnitsAreSent
BY PacketizerInvHolds, InvImpliesSent, PTL

\* The marker is on the last packet of each access unit and on no other, the packets of an
\* access unit have one timestamp, and the timestamps do not go back.
THEOREM MarkersFitFrames == PacketizerSpec => []FramesAreDelimited
BY PacketizerInvHolds, InvImpliesDelimited, PTL

=============================================================================
