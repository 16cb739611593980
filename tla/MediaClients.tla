---------------------------- MODULE MediaClients ----------------------------
(***************************************************************************)
(* The media sources of the demo (src/examples/webrtc-demo/main.cpp): main *)
(* makes FIFO clients when a FIFO was given, and RTP clients when neither  *)
(* it nor RTSP was, never both.  They are what the callbacks know as a     *)
(* MediaStream, and promise the same: while it has connections a feed is   *)
(* read, and the removal of the last one leaves nothing behind.            *)
(***************************************************************************)
EXTENDS FifoClient, Sequences

CONSTANTS
    RtpConnections, \* the connections of a feed that comes as RTP
    MaxPackets      \* bound on its packets

ASSUME RtpAssumption == RtpConnections \subseteq Connections /\ MaxPackets \in Nat

VARIABLES source, sock, inbox, next, held, repackH264, lost, repack, sent, got

Rtp == INSTANCE RtpClient WITH Connections <- RtpConnections

fifoOnly == <<fd, ends, recv, watch, streamer, data>>
rtpOnly == <<sock, inbox, next, held, repackH264, lost, repack, sent, got>>
mediaVars == <<vars, source, rtpOnly>>

TypesOK ==
    /\ source \in {"fifo", "rtp"}
    /\ IF source = "fifo" THEN TypeOK ELSE Rtp!TypeOK

MediaInit == source \in {"fifo", "rtp"} /\ Init /\ Rtp!Init

OfFifo == source = "fifo" /\ UNCHANGED <<source, rtpOnly>>
OfRtp == source = "rtp" /\ UNCHANGED <<source, fifoOnly>>

MediaNext == (Next /\ OfFifo) \/ (Rtp!Next /\ OfRtp)

MediaFairness ==
    /\ WF_mediaVars(Joined /\ OfFifo) /\ SF_mediaVars(Thread /\ OfFifo)
    /\ WF_mediaVars(StreamerWrites /\ OfFifo) /\ WF_mediaVars(BrokenPipe /\ OfFifo)
    /\ WF_mediaVars(Rtp!Joined /\ OfRtp) /\ WF_mediaVars(Rtp!Thread /\ OfRtp)

MediaSpec == MediaInit /\ [][MediaNext]_mediaVars /\ MediaFairness
-----------------------------------------------------------------------------
\* While a feed has connections its thread reads it, whatever came and went before: the
\* first connection starts it and the last stops it, and stopped_ says so.  A port that
\* was taken is the exception of RtpClient.  The variables keep their types.
FeedIsServed == TypesOK /\ IF source = "fifo" THEN Served ELSE Rtp!Served

\* What a source gives is read, and sent on, while somebody is there: from a pipe whose
\* streamer comes back, and that connections leave and join, unless the streamer has
\* paused for five seconds; from a socket that was closed and bound anew.
FeedIsRead == FeedFlows /\ Rtp!FeedFlows

\* The removal of the last connection ends, which joins the thread on the event queue
\* (fifo_file_client.cpp:120, rtp_client.cpp:180), and leaves no thread and no file.
FeedIsReleased == StopsReading /\ Rtp!StopsReading

\* While a client is connected the feed is seen: "when the client connection is closed
\* ... the device stops reading the FIFO" (README.md:429), not when its streamer pauses:
\* after five seconds select() has emptied its set (fifo_file_client.cpp:195).
PausedFeedIsRead == FeedOutlastsPauses

\* A connection is sent the packets that arrive while it is there, once and in order,
\* and a frame of H264 with its own timestamp, unmixed with what another connection
\* has of it or had of it before (h264_repacketizer.hpp:29).
FramesAreWhole == Rtp!FramesAreWhole
=============================================================================
