-------------------------- MODULE SignalingStream --------------------------
(***************************************************************************)
(* SignalingStream (src/library/signaling-stream): one Nabto stream on     *)
(* which a client and the device exchange WebRTC signaling objects.        *)
(*                                                                         *)
(* All of the object's state is touched by lambdas on the event queue      *)
(* (EventQueueContract.tla), one at a time.  The SDK's callbacks run on    *)
(* other threads, hold a raw pointer to the object, and only post such a   *)
(* lambda; so do the peer connection's, which hold the WebrtcConnection.   *)
(* Each lambda is one action: it takes itself off the queue and runs the   *)
(* handler with every call the handler makes.  The methods are operators   *)
(* from the object before to the object after the call.                    *)
(*                                                                         *)
(* The object lives as long as self_ or the WebrtcConnection refers to it. *)
(* When both are gone the destructor frees the stream and its futures, and *)
(* the model stops: what a callback then does to it has no meaning.  It    *)
(* stops as well when a handler throws what nobody catches: eventRunner    *)
(* has no handler of its own, and the program ends.                        *)
(***************************************************************************)
EXTENDS Naturals, Sequences

CONSTANTS
    MaxReads,   \* bound on the read operations the SDK completes with data
    MaxSends,   \* bound on the objects the peer connection wants sent
    MaxAdds     \* bound on the application's connectionAddMediaTracks calls

ASSUME BoundsAssumption == MaxReads \in Nat /\ MaxSends \in Nat /\ MaxAdds \in Nat

VARIABLES
    ss,         \* the SignalingStream, its SDK operations and its peer connection
    queue,      \* names of the lambdas on the event queue, oldest first
    link,       \* the Nabto stream: "open", "eof" (the client closed) or "failed"
    reads,      \* reads completed with data so far
    sends,      \* objects the peer connection has asked to send so far
    adds,       \* connectionAddMediaTracks calls so far
    crashed     \* a handler threw on the event queue: the program has ended

vars == <<ss, queue, link, reads, sends, adds, crashed>>
env == <<link, reads, sends, adds, crashed>>

None == 0

\* The operation armed on future_, which accept and both reads share.  A "clash"
\* is the misuse of arming a future while an operation is pending on it.
FutureOps == {"idle", "accept", "readLength", "readObject", "clash"}
Reads == {"readLength", "readObject"}

\* pc_: "new" until the client's first description, "live" from then on,
\* "closing" after close() was called, "closed" when its Closed state change is
\* on the queue, "gone" once that was handled and pc_ reset.
PeerStates == {"none", "new", "live", "closing", "closed", "gone"}
Open == {"new", "live"}

\* Lambdas posted by SDK callbacks, which capture the raw object.
ReadLambdas ==
    {"lengthOk", "lengthBad", "objectShort", "objectDescription",
     "objectTurnRequest", "objectOther", "objectIllTyped", "readEof", "readFailed"}
RawLambdas ==
    {"accepted", "acceptFailed", "iceResolved", "written", "streamClosed"}
        \cup ReadLambdas
\* Lambdas that capture the WebrtcConnection.
PeerLambdas == {"sendObject", "peerClosed"}
Lambdas == RawLambdas \cup PeerLambdas \cup {"addTracks"}

Streams == [
    accepted : BOOLEAN,     \* accepted_
    closed : BOOLEAN,       \* closed_
    closing : BOOLEAN,      \* closing_
    reading : BOOLEAN,      \* reading_
    self : BOOLEAN,         \* self_ refers to the object
    conn : BOOLEAN,         \* webrtcConnection_ is set
    peer : PeerStates,      \* the connection's pc_
    deferred : BOOLEAN,     \* deferredTracks_ is not empty
    buffers : Seq(Nat),     \* writeBuffers_, objects numbered as submitted
    writeBuf : Nat,         \* writeBuf_, None for NULL
    wire : Seq(Nat),        \* the objects given to stream_write so far
    submitted : Nat,        \* the objects given to sendSignalligObject so far
    future : FutureOps,     \* the operation pending on future_
    writeOp : {"idle", "write"},            \* and on writeFuture_
    iceOp : BOOLEAN,        \* the ICE servers request is pending
    closeOp : BOOLEAN]      \* stream_close is pending

TypeOK ==
    /\ ss \in Streams
    /\ queue \in Seq(Lambdas)
    /\ link \in {"open", "eof", "failed"}
    /\ reads \in 0..MaxReads
    /\ sends \in 0..MaxSends
    /\ adds \in 0..MaxAdds
    /\ crashed \in BOOLEAN

\* The state start() leaves: the accept and the ICE servers request pending.
Started == [
    accepted |-> FALSE, closed |-> FALSE, closing |-> FALSE, reading |-> FALSE,
    self |-> TRUE, conn |-> FALSE, peer |-> "none", deferred |-> FALSE,
    buffers |-> <<>>, writeBuf |-> None, wire |-> <<>>, submitted |-> 0,
    future |-> "accept", writeOp |-> "idle", iceOp |-> TRUE, closeOp |-> FALSE]

Init ==
    /\ ss = Started
    /\ queue = <<>>
    /\ link = "open"
    /\ reads = 0 /\ sends = 0 /\ adds = 0
    /\ crashed = FALSE

Has(q, lambdas) == \E i \in 1..Len(q) : q[i] \in lambdas
Queued(lambdas) == Has(queue, lambdas)

\* Somebody owns the object: self_, or the WebrtcConnection, which webrtcConnection_
\* itself, the peer connection's callbacks and their lambdas keep.
Alive ==
    \/ ss.self
    \/ ss.conn
    \/ ss.peer \in Open \cup {"closing", "closed"}
    \/ Queued(PeerLambdas)

\* There is a program, and an object in it.
Live == ~crashed /\ Alive
-----------------------------------------------------------------------------
\* Methods of the object.

\* WebrtcConnection::stop
StopConnection(s) ==
    IF s.conn /\ s.peer \in Open THEN [s EXCEPT !.peer = "closing"] ELSE s

cleanup(s) ==
    [StopConnection(s) EXCEPT !.closed = TRUE, !.conn = FALSE, !.self = FALSE]

\* Mutant of Busy: a pending read is forgotten.
OnlyWriting(s) == s.writeBuf # None

Busy(s) == s.reading \/ s.writeBuf # None

closeStream(s) ==
    IF ~s.closed
    THEN [StopConnection(s) EXCEPT !.closed = TRUE, !.closing = TRUE,
                                   !.conn = FALSE, !.closeOp = TRUE]
    ELSE IF ~s.closing /\ ~Busy(s) THEN cleanup(s) ELSE s

\* readObjLength and readObject: cleanup when closed, else arm future_.
StartRead(s, op) ==
    IF s.closed
    THEN cleanup(s)
    ELSE [s EXCEPT !.reading = TRUE,
                   !.future = IF s.future = "idle" THEN op ELSE "clash"]

readObjLength(s) == StartRead(s, "readLength")
readObject(s) == StartRead(s, "readObject")

\* Mutants of tryWriteStream: a write is started while one is pending, and the
\* object written stays in the queue.
WriteWhileWriting(s) ==
    IF s.closed
    THEN closeStream(s)
    ELSE IF s.buffers = <<>>
    THEN s
    ELSE [s EXCEPT !.writeBuf = Head(s.buffers),
                   !.buffers = Tail(s.buffers),
                   !.wire = Append(s.wire, Head(s.buffers)),
                   !.writeOp = IF s.writeOp = "idle" THEN "write" ELSE "clash"]
WriteWithoutPop(s) ==
    IF s.closed
    THEN closeStream(s)
    ELSE IF s.writeBuf # None \/ s.buffers = <<>>
    THEN s
    ELSE [s EXCEPT !.writeBuf = Head(s.buffers),
                   !.wire = Append(s.wire, Head(s.buffers)),
                   !.writeOp = IF s.writeOp = "idle" THEN "write" ELSE "clash"]

tryWriteStream(s) ==
    IF s.closed
    THEN closeStream(s)
    ELSE IF s.writeBuf # None \/ s.buffers = <<>>
    THEN s
    ELSE [s EXCEPT !.writeBuf = Head(s.buffers),
                   !.buffers = Tail(s.buffers),
                   !.wire = Append(s.wire, Head(s.buffers)),
                   !.writeOp = IF s.writeOp = "idle" THEN "write" ELSE "clash"]

sendSignalligObject(s) ==
    tryWriteStream([s EXCEPT !.submitted = s.submitted + 1,
                             !.buffers = Append(s.buffers, s.submitted + 1)])

\* WebrtcConnection::createTracks creates pc_ if there is none yet, and so does
\* WebrtcConnection::handleOfferAnswer.
CreatePeer(s) == IF s.peer = "none" THEN [s EXCEPT !.peer = "new"] ELSE s

handleOfferAnswer(s) ==
    IF s.peer \in {"none", "new"} THEN [s EXCEPT !.peer = "live"] ELSE s

createTracks(s) ==
    IF s.conn THEN CreatePeer(s) ELSE [s EXCEPT !.deferred = TRUE]

\* Mutant of createWebrtcConnection: the deferred tracks are not added.
ConnectionWithoutTracks(s) == [s EXCEPT !.conn = TRUE]

createWebrtcConnection(s) ==
    LET c == [s EXCEPT !.conn = TRUE, !.deferred = FALSE]
    IN  IF s.deferred THEN createTracks(c) ELSE c
-----------------------------------------------------------------------------
\* The lambdas, run by the event queue.

Take(lambda) ==
    /\ Live
    /\ queue # <<>> /\ Head(queue) = lambda
    /\ queue' = Tail(queue)
    /\ UNCHANGED env

\* Mutant of Accepted: starts reading whether or not the ICE servers resolved.
AcceptedReads ==
    /\ Take("accepted")
    /\ ss' = readObjLength([ss EXCEPT !.accepted = TRUE])

Accepted ==
    /\ Take("accepted")
    /\ LET s == [ss EXCEPT !.accepted = TRUE]
       IN  ss' = IF s.conn THEN readObjLength(s) ELSE s

AcceptFailed ==
    /\ Take("acceptFailed")
    /\ ss' = StopConnection([ss EXCEPT !.self = FALSE])

\* Mutant of IceResolved: leaves starting the reads to streamAccepted.
IceResolvedNoRead ==
    /\ Take("iceResolved")
    /\ ss' = createWebrtcConnection(ss)

IceResolved ==
    /\ Take("iceResolved")
    /\ LET s == createWebrtcConnection(ss)
       IN  ss' = IF s.accepted THEN readObjLength(s) ELSE s

Written ==
    /\ Take("written")
    /\ ss' = tryWriteStream([ss EXCEPT !.writeBuf = None])

\* The object as every read lambda sees it, reading_ reset.
ReadDone == [ss EXCEPT !.reading = FALSE]

ReadEof == Take("readEof") /\ ss' = closeStream(ReadDone)

ReadFailed == Take("readFailed") /\ ss' = cleanup(ReadDone)

\* handleReadObjLen
LengthRead ==
    \/ Take("lengthBad") /\ ss' = readObjLength(ReadDone)
    \/ Take("lengthOk") /\ ss' = readObject(ReadDone)

\* handleReadObject, by what was read: an offer or answer, a TURN request,
\* anything else it reads on after (a candidate, an unknown type, no JSON), or
\* less than the announced length.  Without the connection nothing is looked at.
ObjectRead ==
    LET handled(lambda, s) ==
            Take(lambda) /\ ss' = readObjLength(IF ss.conn THEN s ELSE ReadDone)
    IN  \/ handled("objectShort", ReadDone)
        \/ handled("objectDescription", handleOfferAnswer(ReadDone))
        \/ handled("objectTurnRequest", sendSignalligObject(ReadDone))
        \/ handled("objectOther", ReadDone)
        \/ ~ss.conn /\ handled("objectIllTyped", ReadDone)

\* JSON without a type, or with a type or data of another kind: get<>() throws a
\* type_error, which the handler of parse_error does not catch.
ObjectThrows ==
    /\ Live
    /\ queue # <<>> /\ Head(queue) = "objectIllTyped"
    /\ ss.conn
    /\ queue' = Tail(queue)
    /\ ss' = ReadDone
    /\ crashed' = TRUE
    /\ UNCHANGED <<link, reads, sends, adds>>

\* The stream_close future resolved.
\* Mutant of StreamClosed: closing_ is not reset.
StreamStillClosing ==
    /\ Take("streamClosed")
    /\ ss' = IF Busy(ss) THEN ss ELSE cleanup(ss)

StreamClosed ==
    /\ Take("streamClosed")
    /\ LET s == [ss EXCEPT !.closing = FALSE]
       IN  ss' = IF Busy(s) THEN s ELSE cleanup(s)

\* A candidate or description of the peer connection is sent to the client.
SendObject == Take("sendObject") /\ ss' = sendSignalligObject(ss)

\* The Closed state change: the event handler closes the stream, pc_ is reset.
PeerClosed ==
    Take("peerClosed") /\ ss' = [closeStream(ss) EXCEPT !.peer = "gone"]

\* The application adds tracks to the connection this stream belongs to.
AddTracks == Take("addTracks") /\ ss' = createTracks(ss)

EventLoop ==
    \/ Accepted \/ AcceptFailed \/ IceResolved \/ Written
    \/ ReadEof \/ ReadFailed \/ LengthRead \/ ObjectRead \/ ObjectThrows
    \/ StreamClosed \/ SendObject \/ PeerClosed \/ AddTracks
-----------------------------------------------------------------------------
\* The SDK, the peer connection, the client and the application, on other
\* threads.  A callback posts its lambda and changes nothing else.

Post(lambda) == queue' = Append(queue, lambda)

\* streamAccepted
AcceptResolves ==
    /\ Live
    /\ ss.future = "accept"
    /\ ss' = [ss EXCEPT !.future = "idle"]
    /\ Post(IF link = "failed" THEN "acceptFailed" ELSE "accepted")
    /\ UNCHANGED env

\* iceServersResolved, with servers or with an error: both continue.
IceResolves ==
    /\ Live
    /\ ss.iceOp
    /\ ss' = [ss EXCEPT !.iceOp = FALSE]
    /\ Post("iceResolved")
    /\ UNCHANGED env

\* hasReadObjLen and hasReadObject with data.
DataOf(op) ==
    IF op = "readLength"
    THEN {"lengthOk", "lengthBad"}
    ELSE {"objectDescription", "objectTurnRequest", "objectOther", "objectIllTyped"}

ReadGetsData(lambda) ==
    /\ Live
    /\ ss.future \in Reads /\ lambda \in DataOf(ss.future)
    /\ link = "open" /\ reads < MaxReads
    /\ reads' = reads + 1
    /\ ss' = [ss EXCEPT !.future = "idle"]
    /\ Post(lambda)
    /\ UNCHANGED <<link, sends, adds, crashed>>

\* hasReadObjLen and hasReadObject once the client closed or the stream failed;
\* the end may also come in the middle of an object.
ReadEnds(lambda) ==
    /\ Live
    /\ \/ ss.future \in Reads /\ link = "eof" /\ lambda = "readEof"
       \/ ss.future \in Reads /\ link = "failed" /\ lambda = "readFailed"
       \/ ss.future = "readObject" /\ link # "open" /\ lambda = "objectShort"
    /\ ss' = [ss EXCEPT !.future = "idle"]
    /\ Post(lambda)
    /\ UNCHANGED env

\* streamWriteCallback, which does not look at the error code.
WriteResolves ==
    /\ Live
    /\ ss.writeOp = "write"
    /\ ss' = [ss EXCEPT !.writeOp = "idle"]
    /\ Post("written")
    /\ UNCHANGED env

\* streamClosed
CloseResolves ==
    /\ Live
    /\ ss.closeOp
    /\ ss' = [ss EXCEPT !.closeOp = FALSE]
    /\ Post("streamClosed")
    /\ UNCHANGED env

\* onLocalCandidate and onSignalingStateChange
PeerEmits ==
    /\ Live
    /\ ss.peer \in Open /\ sends < MaxSends
    /\ sends' = sends + 1
    /\ Post("sendObject")
    /\ UNCHANGED <<ss, link, reads, adds, crashed>>

\* onStateChange(Closed): after close(), or because the client closed it, which
\* it can only do when it has been connected.
PeerCloses ==
    /\ Live
    /\ ss.peer \in {"live", "closing"}
    /\ ss' = [ss EXCEPT !.peer = "closed"]
    /\ Post("peerClosed")
    /\ UNCHANGED env

ApplicationAddsTracks ==
    /\ Live
    /\ adds < MaxAdds
    /\ adds' = adds + 1
    /\ Post("addTracks")
    /\ UNCHANGED <<ss, link, reads, sends, crashed>>

ClientCloses ==
    /\ Live
    /\ link = "open"
    /\ link' = "eof"
    /\ UNCHANGED <<ss, queue, reads, sends, adds, crashed>>

StreamFails ==
    /\ Live
    /\ link # "failed"
    /\ link' = "failed"
    /\ UNCHANGED <<ss, queue, reads, sends, adds, crashed>>

Next ==
    \/ EventLoop
    \/ AcceptResolves \/ IceResolves \/ WriteResolves \/ CloseResolves
    \/ \E lambda \in ReadLambdas : ReadGetsData(lambda) \/ ReadEnds(lambda)
    \/ PeerEmits \/ PeerCloses
    \/ ApplicationAddsTracks \/ ClientCloses \/ StreamFails

SafeSpec == Init /\ [][Next]_vars

\* The event queue runs what is posted, SDK operations and close() of the peer
\* connection complete, and a client whose signaling stream is closed closes its
\* end (or the stream fails).  An open stream may stay silent for ever.
Fairness ==
    /\ WF_vars(EventLoop)
    /\ WF_vars(AcceptResolves) /\ WF_vars(IceResolves)
    /\ WF_vars(WriteResolves) /\ WF_vars(CloseResolves)
    /\ WF_vars(\E lambda \in ReadLambdas : ReadEnds(lambda))
    /\ WF_vars(ss.peer = "closing" /\ PeerCloses)
    /\ WF_vars(ss.closed /\ ClientCloses)

Spec == SafeSpec /\ Fairness
-----------------------------------------------------------------------------
\* future_ serves the accept and then one read at a time: whatever order the
\* accept, the ICE servers and the reads resolve in, no operation is started on
\* it while it is still pending.  (TypeOK says the same of writeFuture_.)
NoFutureClash == ss.future # "clash"

\* Once the stream is accepted and has its WebrtcConnection, and until it
\* closes, a read is always under way: whichever of streamAccepted and
\* iceServersResolved comes last starts the loop, and no object ends it but one
\* whose type or data are not what the handler takes them for: that one ends the
\* program.
ReadLoopRuns == ~crashed /\ ss.accepted /\ ss.conn /\ ~ss.closed => ss.reading

\* reading_ is set exactly while a read is pending or its lambda is queued, which
\* closeStream and streamClosed rely on when they decide who cleans up.
ReadingIsTrue == Alive => (ss.reading <=> ss.future \in Reads \/ Queued(ReadLambdas))

\* Both: an open stream is read, and the flag tells the truth about it.
ReadLoop == ReadLoopRuns /\ ReadingIsTrue

\* Objects reach the stream in the order they were submitted, none twice and
\* none skipped.
SentInOrder ==
    /\ ss.submitted = Len(ss.wire) + Len(ss.buffers)
    /\ \A i \in 1..Len(ss.wire) : ss.wire[i] = i
    /\ \A i \in 1..Len(ss.buffers) : ss.buffers[i] = Len(ss.wire) + i

\* While the stream is open none waits without a write under way that will send it.
NoStalledWriter == ss.buffers # <<>> /\ ~ss.closed => ss.writeBuf # None

\* Both: every object goes out, in order.
WriteLoop == SentInOrder /\ NoStalledWriter

\* The object is never freed while future_ is armed or its lambda is queued: on
\* every path to the destructor the accept and the reads are over.
FreedAfterLastRead ==
    ~Alive => ss.future = "idle" /\ ~Queued(ReadLambdas \cup {"accepted"})

\* A stream that closed is eventually released, with its WebrtcConnection and the
\* work that one holds on the event queue, unless an object ends the program.
ClosedIsReleased == ss.closed ~> ~Live

\* Tracks added before the ICE servers resolved reach the peer connection, or the
\* stream is gone, or the program.
DeferredTracksAreAdded == (ss.deferred /\ ~ss.closed) ~> (~ss.deferred \/ ~Live)
-----------------------------------------------------------------------------
\* What the code says of itself and does not keep.

\* closeStream and streamClosed clean up when "Not reading not writing not
\* closing" and otherwise await the self destruct: the object is not freed while
\* a write or the close is outstanding on it.
NotFreedWritingOrClosing ==
    ~Alive => /\ ss.writeOp = "idle" /\ ~ss.closeOp
              /\ ~Queued({"written", "streamClosed"})

\* "The Nabto stream failing will cause things to shutdown from another place."
StreamFailureShutsDown == link = "failed" ~> ~Live

\* connectionAddMediaTracks "Returns False if the Nabto Connection referenced does
\* not have a Signaling Stream open": a closed stream takes no tracks.
ClosedTakesNoTracks == ss.closed => ~ss.deferred

\* handleReadObject catches what is wrong with an object, logs "Failed to parse
\* JSON" and goes on with readObjLength: no object of the client ends the program.
NoObjectEndsTheProgram == ~crashed
=============================================================================
