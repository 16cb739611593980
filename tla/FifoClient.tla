----------------------------- MODULE FifoClient -----------------------------
(***************************************************************************)
(* FifoFileClient (src/modules/fifo-file-client): a feed that a streamer   *)
(* (GStreamer, FFmpeg) writes into a named pipe.  The first connection of  *)
(* the feed starts a thread that opens the pipe and sends what it reads on *)
(* the tracks of all connections; the removal of the last one closes the   *)
(* pipe and joins the thread, on the event queue.                          *)
(*                                                                         *)
(* External: named pipes as Linux has them.  Opening one end waits for the *)
(* other, because O_NONBLOCK is given where open() takes a file mode; a    *)
(* streamer that writes with nobody reading ends.  That a descriptor which *)
(* was closed may be given to another file at once is not modelled, nor    *)
(* what the uninitialized fd_ may name.  Every negotiator both sends and   *)
(* receives; of the pipe for what clients send only its fdRecv_ is kept,   *)
(* not the descriptors that a further connection overwrites.               *)
(***************************************************************************)
EXTENDS Naturals, FiniteSets

CONSTANTS
    Connections,    \* Nabto connections with a track of the feed
    Early,          \* the last connection may go before the pipe is open
    MaxEnds         \* bound on the read ends open at once

ASSUME BoundsAssumption == Early \in BOOLEAN /\ MaxEnds \in Nat \ {0}

VARIABLES
    tracks,     \* the keys of mediaTracks_
    stopped,    \* stopped_
    fd,         \* what fd_ names: "none", the pipe once "open"
    ends,       \* read ends of the pipe the process has open
    recv,       \* fdRecv_ names the pipe of the other direction
    thread,     \* where thread_ is in fifoRunner
    inSet,      \* rfdset holds fd_
    paused,     \* history: the streamer has left the thread without data for five seconds
    main,       \* the event queue: "idle", or "joining" in stop()
    streamer,   \* "off", "waiting" for a reader in its open(), "on"
    data        \* the pipe holds something nobody has read

client == <<tracks, stopped, fd, ends, recv>>
watch == <<inSet, paused>>
vars == <<tracks, stopped, fd, ends, recv, thread, inSet, paused, main, streamer, data>>

TypeOK ==
    /\ tracks \subseteq Connections
    /\ stopped \in BOOLEAN /\ recv \in BOOLEAN /\ data \in BOOLEAN
    /\ inSet \in BOOLEAN /\ paused \in BOOLEAN
    /\ fd \in {"none", "open"}
    /\ ends \in 0..MaxEnds
    /\ thread \in {"none", "opening", "select", "reading", "blocked", "ended"}
    /\ main \in {"idle", "joining"}
    /\ streamer \in {"off", "waiting", "on"}

Init ==
    /\ tracks = {} /\ stopped = TRUE
    /\ fd = "none" /\ ends = 0 /\ recv = FALSE
    /\ thread = "none" /\ inSet = FALSE /\ paused = FALSE
    /\ main = "idle"
    /\ streamer = "off" /\ data = FALSE

\* A read() under way holds the pipe open.
Readers == ends > 0 \/ thread = "blocked"
-----------------------------------------------------------------------------
\* The event queue.

\* Mutant of Start: stopped_ keeps its value.
StillStopped ==
    ends < MaxEnds /\ thread' = "opening" /\ paused' = FALSE /\ UNCHANGED stopped

Start == ends < MaxEnds /\ thread' = "opening" /\ paused' = FALSE /\ stopped' = FALSE

\* The mutex makes an addition one step.
AddConnection(c) ==
    /\ main = "idle"
    /\ tracks' = tracks \cup {c}
    /\ recv' = TRUE
    /\ IF stopped THEN Start ELSE UNCHANGED <<stopped, thread, paused>>
    /\ UNCHANGED <<fd, ends, inSet, main, streamer, data>>

CloseFd ==
    /\ fd' = "none"
    /\ ends' = IF fd = "open" THEN ends - 1 ELSE ends

\* stop(), as far as the join.  What is in a pipe that nobody holds is gone.
Stop ==
    /\ stopped' = TRUE /\ recv' = FALSE
    /\ CloseFd
    /\ data' = (data /\ (streamer = "on" \/ ends' > 0))
    /\ main' = "joining"

RemoveConnection(c) ==
    /\ main = "idle" /\ c \in tracks
    /\ Early \/ thread # "opening" \/ tracks # {c}
    /\ tracks' = tracks \ {c}
    /\ IF tracks' = {} /\ ~stopped
       THEN Stop
       ELSE UNCHANGED <<stopped, fd, ends, recv, main, data>>
    /\ UNCHANGED <<thread, watch, streamer>>

\* The join returns, and stop() clears mediaTracks_.
Joined ==
    /\ main = "joining" /\ thread = "ended"
    /\ main' = "idle" /\ thread' = "none"
    /\ tracks' = {}
    /\ UNCHANGED <<stopped, fd, ends, recv, watch, streamer, data>>
-----------------------------------------------------------------------------
\* The thread.

\* open() returns when there is a streamer, and lets a waiting one go on.
Opens ==
    /\ thread = "opening" /\ streamer # "off"
    /\ fd' = "open" /\ ends' = ends + 1
    /\ streamer' = "on"
    /\ inSet' = TRUE
    /\ thread' = "select"
    /\ UNCHANGED <<tracks, stopped, recv, paused, main, data>>

\* Mutant of Checked: the loop goes on without reading.
Skipped == IF stopped THEN "ended" ELSE "select"

\* After select() the thread looks at stopped_ under the mutex.
Checked == IF stopped THEN "ended" ELSE "reading"

\* The pipe has data, or its streamer has gone.
SelectReady ==
    /\ thread = "select" /\ inSet /\ fd = "open"
    /\ data \/ streamer = "off"
    /\ thread' = Checked
    /\ UNCHANGED <<client, watch, main, streamer, data>>

\* Nothing for five seconds: select() has emptied the set, and nobody fills it again.
SelectTimeout ==
    /\ thread = "select"
    /\ ~inSet \/ (fd = "open" /\ ~data /\ streamer = "on")
    /\ inSet' = FALSE /\ paused' = TRUE
    /\ thread' = IF stopped THEN "ended" ELSE "select"
    /\ UNCHANGED <<client, main, streamer, data>>

\* The descriptor was closed: select() fails, or times out if it was waiting.
SelectClosed ==
    /\ thread = "select" /\ inSet /\ fd = "none"
    /\ thread' = "ended"
    /\ UNCHANGED <<client, watch, main, streamer, data>>

\* What was read goes to every track, under the mutex.  A closed descriptor fails;
\* a streamer that has come since select() makes it wait.
Reads ==
    /\ thread = "reading"
    /\ IF fd = "open" /\ ~data /\ streamer = "on"
       THEN thread' = "blocked" /\ UNCHANGED data
       ELSE /\ thread' = "select"
            /\ data' = (data /\ fd # "open")
    /\ UNCHANGED <<client, watch, main, streamer>>

BlockedReads ==
    /\ thread = "blocked"
    /\ data \/ streamer = "off"
    /\ thread' = "select" /\ data' = FALSE
    /\ UNCHANGED <<client, watch, main, streamer>>

Thread == Opens \/ SelectReady \/ SelectTimeout \/ SelectClosed \/ Reads \/ BlockedReads
-----------------------------------------------------------------------------
\* The streamer.

StreamerStarts ==
    /\ streamer = "off"
    /\ streamer' = IF Readers THEN "on" ELSE "waiting"
    /\ UNCHANGED <<client, thread, watch, main, data>>

StreamerWrites ==
    /\ streamer = "on" /\ Readers
    /\ ~data /\ data' = TRUE
    /\ UNCHANGED <<client, thread, watch, main, streamer>>

\* By itself.
StreamerStops ==
    /\ streamer # "off"
    /\ streamer' = "off"
    /\ data' = (data /\ Readers)
    /\ UNCHANGED <<client, thread, watch, main>>

\* It writes with nobody reading.
BrokenPipe == ~Readers /\ streamer = "on" /\ StreamerStops
-----------------------------------------------------------------------------
Next ==
    \/ \E c \in Connections : AddConnection(c) \/ RemoveConnection(c)
    \/ Joined \/ Thread
    \/ StreamerStarts \/ StreamerWrites \/ StreamerStops

\* The threads run, and faster than a streamer is stopped and started again; one that
\* is on goes on writing, with pauses.
Fairness ==
    /\ WF_vars(Joined) /\ SF_vars(Thread)
    /\ WF_vars(StreamerWrites) /\ WF_vars(BrokenPipe)

Spec == Init /\ [][Next]_vars /\ Fairness
-----------------------------------------------------------------------------
\* While the feed has connections its thread runs, whatever came and went before, and
\* what the clients send has a pipe to go to.
Served ==
    main = "idle" /\ tracks # {} =>
        /\ ~stopped /\ thread \notin {"none", "ended"}
        /\ recv

\* "You can now connect to the device from a client and see the feed": what the
\* streamer has written is read while there is somebody to see it, as long as the
\* streamer has never paused since the pipe was opened.
FeedFlows == data /\ tracks # {} ~> ~data \/ tracks = {} \/ paused

\* The same of a streamer that pauses, which the code does not keep: after five seconds
\* without data nothing is read until all connections have gone.
FeedOutlastsPauses == data /\ tracks # {} ~> ~data \/ tracks = {}

\* "When the client connection is closed and the device stops reading the FIFO, the
\* Gstreamer/FFMPEG will exit": the removal of the last connection ends, and leaves no
\* thread and no streamer that believes it is read.
StopsReading ==
    tracks = {} ~>
        \/ tracks # {}
        \/ main = "idle" /\ thread = "none" /\ ~Readers
=============================================================================
