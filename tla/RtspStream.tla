----------------------------- MODULE RtspStream -----------------------------
(***************************************************************************)
(* RtspStream (src/modules/rtsp-client): an RTSP session for every         *)
(* connection that takes the stream's tracks.  Its RtspClient performs the *)
(* requests on the worker thread of a CurlAsync, one after the other, and  *)
(* resolves the start with a callback; over TCP the same thread then       *)
(* receives the media, over UDP an RtpClient and an RtcpClient for each    *)
(* feed have threads of their own.                                         *)
(*                                                                         *)
(* Connections are added and removed on the event queue.  RtspStream.mutex_*)
(* is held for the whole of an addition, of a start callback and of a      *)
(* removal; only the removal takes several steps, since it waits: for      *)
(* CurlAsync.mutex_, which the worker holds during its first request, and  *)
(* for the end of the worker.                                              *)
(*                                                                         *)
(* No request has a timeout: one to a server that answers nothing any more *)
(* (silent) keeps its thread for ever.  Calls of curl_easy_setopt and bind *)
(* are taken to succeed, and a description to be one libdatachannel parses.*)
(***************************************************************************)
EXTENDS Naturals

CONSTANTS
    Connections,    \* the connections the application adds
    AnyTime         \* tracks are added and connections removed at any time, and
                    \* not only added before the start is resolved and removed
                    \* when the session runs or is over

ASSUME AnyTimeAssumption == AnyTime \in BOOLEAN

VARIABLES
    preferTcp,  \* config_.preferTcp
    client,     \* the entry of connections_ and its RtspClient, by connection
    removal     \* the removal under way on the event queue

vars == <<preferTcp, client, removal>>

Kinds == {"video", "audio"}

\* What the worker does next.  In "options" it holds CurlAsync.mutex_, in "resolve"
\* it waits for RtspStream.mutex_.
Places == {"none", "started", "options", "describe", "setup", "play", "resolve",
           "resolved", "receiving", "ending", "ended"}

Clients == [
    listed : BOOLEAN,           \* in connections_
    tracks : SUBSET Kinds,      \* videoTrack and audioTrack of the entry
    place : Places,
    feeds : SUBSET Kinds,       \* feeds of the server's description to be set up
    streams : SUBSET Kinds,     \* feeds set up: tcpClient_ or videoStream_, audioStream_
    rtcp : SUBSET Kinds,        \* the RtcpClients running
    sending : SUBSET Kinds,     \* the tracks media is sent on
    startCb : BOOLEAN,          \* startCb_ is set
    playing : BOOLEAN,          \* the start was resolved without an error
    silent : BOOLEAN,           \* the server answers this session nothing any more
    tcpStopped : BOOLEAN,       \* TcpRtpClient.stopped_
    curlStopped : BOOLEAN]      \* CurlAsync.stopped_

NoClient == [
    listed |-> FALSE, tracks |-> {}, place |-> "none", feeds |-> {}, streams |-> {},
    rtcp |-> {}, sending |-> {}, startCb |-> FALSE,
    playing |-> FALSE, silent |-> FALSE, tcpStopped |-> TRUE,
    curlStopped |-> FALSE]

\* The steps of removeConnection: client.stop() up to the CurlAsync, the latter's
\* stopped_, and its join.
Steps == {"stopClients", "stopCurl", "join"}
Idle == [step |-> "idle"]

TypeOK ==
    /\ preferTcp \in BOOLEAN
    /\ client \in [Connections -> Clients]
    /\ removal \in [step : Steps, ref : Connections] \cup {Idle}
    /\ \A r \in Connections : client[r].feeds \cap client[r].streams = {}

Init ==
    /\ preferTcp \in BOOLEAN
    /\ client = [r \in Connections |-> NoClient]
    /\ removal = Idle

MutexFree == removal = Idle

Worker(r, place) == client[r].place = place

\* The client of r changes, and nothing else.
Becomes(r, c) ==
    /\ client' = [client EXCEPT ![r] = c]
    /\ UNCHANGED <<preferTcp, removal>>

\* The removal of r goes on, or is over.
Goes(r, step) ==
    /\ removal' = IF step = "idle" THEN Idle ELSE [step |-> step, ref |-> r]
    /\ UNCHANGED preferTcp
-----------------------------------------------------------------------------
\* The event queue.

Settled(r) == client[r].place \in {"none", "receiving", "ended"}

NewClient(kind) ==
    [NoClient EXCEPT !.listed = TRUE, !.tracks = {kind}, !.startCb = TRUE,
                     !.place = "started"]

\* The first track of a connection creates and starts its client.
AddConnection(r, kind) ==
    /\ MutexFree
    /\ IF client[r].listed
       THEN /\ kind \notin client[r].tracks
            /\ AnyTime \/ client[r].startCb
            /\ Becomes(r, [client[r] EXCEPT !.tracks = @ \cup {kind}])
       ELSE Becomes(r, NewClient(kind))

\* RtspClient::removeConnection stops the RtpClients there are; over TCP it does
\* nothing.
Removed(c) == IF preferTcp THEN c ELSE [c EXCEPT !.sending = @ \ c.streams]

RemoveConnection(r) ==
    /\ MutexFree
    /\ client[r].listed
    /\ AnyTime \/ Settled(r)
    /\ client' = [client EXCEPT ![r] = Removed(client[r])]
    /\ Goes(r, "stopClients")

Removing(r, step) == removal = [step |-> step, ref |-> r]

\* Mutant of Stopped: the TCP client is not told.
OnlyRtcpStopped(c) == [c EXCEPT !.rtcp = {}]

\* RtspClient::stop up to the CurlAsync, for the clients that exist by now.
Stopped(c) ==
    IF preferTcp
    THEN [c EXCEPT !.tcpStopped = @ \/ c.streams # {}]
    ELSE [c EXCEPT !.rtcp = {}]

StopClients(r) ==
    /\ Removing(r, "stopClients")
    /\ client' = [client EXCEPT ![r] = Stopped(client[r])]
    /\ Goes(r, "stopCurl")

StopCurl(r) ==
    /\ Removing(r, "stopCurl")
    /\ ~Worker(r, "options")
    /\ client' = [client EXCEPT ![r].curlStopped = TRUE]
    /\ Goes(r, "join")

\* Mutant of Joined: the worker is not waited for.
NotJoined(r) == TRUE

\* A worker that ended has detached itself, or can be joined at once.
Joined(r) == client[r].place \in {"none", "ended"}

\* Erased, the client goes with its tracks.
Join(r) ==
    /\ Removing(r, "join")
    /\ Joined(r)
    /\ client' = [client EXCEPT ![r].listed = FALSE, ![r].tracks = {},
                                ![r].sending = IF preferTcp THEN {} ELSE @]
    /\ Goes(r, "idle")

Removal(r) == StopClients(r) \/ StopCurl(r) \/ Join(r)
-----------------------------------------------------------------------------
\* The worker: CurlAsync::threadRunner, and RtspClient::setupRtsp in its callback.

\* resolveStart with an error: the callback logs it, and the worker's callback
\* returns.
Failed(c) == [c EXCEPT !.startCb = FALSE, !.place = "ending"]

\* In curl_easy_perform, for a request that comes back.
Answered(r, place) == Worker(r, place) /\ ~client[r].silent

Start(r) ==
    /\ Worker(r, "started")
    /\ Becomes(r, [client[r] EXCEPT
                    !.place = IF client[r].curlStopped THEN "ended" ELSE "options"])

Options(r) ==
    /\ Answered(r, "options")
    /\ \/ Becomes(r, [client[r] EXCEPT !.place = "describe"])
       \/ Becomes(r, Failed(client[r]))

\* A description without feeds is an error; so ends a request that failed.
Describe(r) ==
    /\ Answered(r, "describe")
    /\ \E feeds \in SUBSET Kinds :
        Becomes(r, IF feeds = {}
                   THEN Failed(client[r])
                   ELSE [client[r] EXCEPT !.place = "setup", !.feeds = feeds])

\* Video before audio.
NextFeed(c) == IF "video" \in c.feeds THEN "video" ELSE "audio"

\* Mutants of SetUp: a feed is set up again, and the second failure is not reported.
SetUpAgain(c, ok) ==
    IF ~ok THEN Failed(c) ELSE [c EXCEPT !.streams = @ \cup {NextFeed(c)}]
SetUpSilently(c, ok) ==
    IF ~ok /\ c.streams # {}
    THEN [c EXCEPT !.place = "ending"]
    ELSE IF ~ok
    THEN Failed(c)
    ELSE [c EXCEPT !.feeds = @ \ {NextFeed(c)}, !.streams = @ \cup {NextFeed(c)},
                   !.rtcp = IF preferTcp THEN @ ELSE @ \cup {NextFeed(c)}]

\* performSetupReq for a feed, and the clients that receive it.
SetUp(c, ok) ==
    IF ~ok
    THEN Failed(c)
    ELSE [c EXCEPT !.feeds = @ \ {NextFeed(c)}, !.streams = @ \cup {NextFeed(c)},
                   !.rtcp = IF preferTcp THEN @ ELSE @ \cup {NextFeed(c)}]

Setup(r) ==
    /\ client[r].feeds = {} \/ ~client[r].silent
    /\ Worker(r, "setup")
    /\ IF client[r].feeds = {}
       THEN Becomes(r, [client[r] EXCEPT !.place = "play"])
       ELSE \E ok \in BOOLEAN : Becomes(r, SetUp(client[r], ok))

Play(r) ==
    /\ Answered(r, "play")
    /\ \/ Becomes(r, [client[r] EXCEPT !.place = "resolve"])
       \/ Becomes(r, Failed(client[r]))

\* Mutant of Wired: only the video track is connected.
OnlyVideoWired(c) == {"video"} \cap c.tracks

\* RtspClient::addConnection: the tracks of the entry get the media.
Wired(c) == IF preferTcp THEN c.tracks ELSE c.tracks \cap c.streams

\* The callback of addConnection, for a connection that is still listed.
StartCallback(r) ==
    /\ Worker(r, "resolve")
    /\ MutexFree
    /\ Becomes(r, [client[r] EXCEPT
                    !.startCb = FALSE, !.playing = TRUE,
                    !.sending = IF client[r].listed THEN Wired(client[r]) ELSE @,
                    !.place = IF preferTcp THEN "resolved" ELSE "ending"])

\* TcpRtpClient::run clears stopped_, whoever has set it.
Run(r) ==
    /\ Worker(r, "resolved")
    /\ Becomes(r, [client[r] EXCEPT !.tcpStopped = FALSE, !.place = "receiving"])

\* stopped_ is looked at when a RECEIVE comes back.
ReceiveStopped(r) ==
    /\ Answered(r, "receiving")
    /\ client[r].tcpStopped
    /\ Becomes(r, [client[r] EXCEPT !.place = "ending"])

\* The server fails or ends the session.
ReceiveFails(r) ==
    /\ Answered(r, "receiving")
    /\ Becomes(r, [client[r] EXCEPT !.place = "ending"])

End(r) ==
    /\ Worker(r, "ending")
    /\ Becomes(r, [client[r] EXCEPT !.place = "ended"])

ThreadRunner(r) ==
    \/ Start(r) \/ Options(r)
    \/ Describe(r) \/ Setup(r) \/ Play(r) \/ StartCallback(r)
    \/ Run(r) \/ ReceiveStopped(r) \/ End(r)
-----------------------------------------------------------------------------
\* The server keeps the connection of a session and answers nothing on it.
GoesSilent(r) ==
    /\ client[r].place \in {"options", "describe", "setup", "play", "receiving"}
    /\ ~client[r].silent
    /\ Becomes(r, [client[r] EXCEPT !.silent = TRUE])

Next ==
    \E r \in Connections :
        \/ \E kind \in Kinds : AddConnection(r, kind)
        \/ RemoveConnection(r)
        \/ Removal(r)
        \/ ThreadRunner(r)
        \/ ReceiveFails(r)
        \/ GoesSilent(r)

\* Threads are scheduled.  While the server is not silent requests are answered or
\* fail, and a RECEIVE returns with media; nothing keeps it from going silent.  No
\* session ends by itself.  A worker gets a mutex that is free again and again.
Fairness ==
    \A r \in Connections :
        /\ WF_vars(Removal(r))
        /\ WF_vars(ThreadRunner(r)) /\ SF_vars(StartCallback(r))

Spec == Init /\ [][Next]_vars /\ Fairness
-----------------------------------------------------------------------------
\* A connection that was removed leaves nothing behind: no worker, no thread of an
\* RtpClient or RtcpClient, and no track media is sent on.
RemovedIsQuiet ==
    \A r \in Connections :
        ~client[r].listed =>
            /\ client[r].place \in {"none", "ended"}
            /\ client[r].rtcp = {} /\ client[r].sending = {}

\* A session that was started, over TCP or UDP, sends on every track of its connection
\* that it has a feed for, until its removal begins.
StartedIsWired ==
    \A r \in Connections :
        LET c == client[r]
        IN  c.playing /\ c.listed /\ (MutexFree \/ removal.ref # r)
                => c.tracks \cap c.streams \subseteq c.sending

\* The event queue is in the removal of a session whose server is silent.
HeldBySilence == removal # Idle /\ client[removal.ref].silent

\* Every start is resolved, with an error or not: nobody waits for a session that
\* has ended.  Only its own silent server, or that of a session being removed, whose
\* removal has the mutex, keeps it.
StartIsResolved ==
    \A r \in Connections :
        client[r].startCb
            ~> ~client[r].startCb \/ client[r].silent \/ HeldBySilence

\* A removal comes to its end, unless the server of its session has gone silent.  The
\* event queue waits in it, and with it every other connection of the device.
RemovalCompletes == removal # Idle ~> removal = Idle \/ HeldBySilence
-----------------------------------------------------------------------------
\* What the code does not keep.

\* A connection goes when it is closed, whatever its server does: no removal joins a
\* worker whose request may never come back.
SilenceHoldsNobody == ~HeldBySilence
=============================================================================
