---------------------------- MODULE StreamChannel ----------------------------
(***************************************************************************)
(* WebrtcFileStreamChannel (src/library/webrtc-connection): a data channel *)
(* the client opens is pumped full from a virtual Nabto stream, until the  *)
(* stream ends.  Two threads and a library meet in it: the SDK resolves    *)
(* the open and the reads on its own thread, their lambdas run on the      *)
(* event queue, and libdatachannel reports the close on a thread of its    *)
(* own.  The SDK and the lambdas hold the object as a raw pointer.         *)
(*                                                                         *)
(* A connection remembers only the channel it made last; an earlier one    *)
(* lives for as long as its data channel, whose callbacks hold it.         *)
(*                                                                         *)
(* A channel closes behind the last chunk, or its transfer is interrupted: *)
(* the client closes it, or the peer connection closes with all that are   *)
(* open, by the client or by the device (WebrtcConnection::stop).          *)
(*                                                                         *)
(* The event queue has no handler for exceptions, so a lambda that throws  *)
(* ends the program, as does the use of a null or a freed object.          *)
(*                                                                         *)
(* External: the virtual stream, and rtc::DataChannel, whose send throws   *)
(* once the channel is closed.                                             *)
(***************************************************************************)
EXTENDS Naturals, Sequences

CONSTANTS
    Channels,   \* the data channels the client opens
    MaxChunks,  \* bound on what is read from a stream before its end
    NoChannel   \* streamChannel_ before there is one

ASSUME BoundsAssumption == MaxChunks \in Nat
ASSUME NoChannelAssumption == NoChannel \notin Channels

VARIABLES
    chan,           \* by data channel, the channel and its WebrtcFileStreamChannel
    streamChannel,  \* WebrtcConnection.streamChannel_
    connection,     \* the peer connection, until the WebrtcConnection is freed
    ahead,          \* the lambdas that run before the Closed handler of the connection
    queue,          \* the lambdas of the channels on the event queue
    crashed         \* how the program ended, "no" while it runs

vars == <<chan, streamChannel, connection, ahead, queue, crashed>>

Prefixes == {"stream-", "nabto-stream-"}
Kinds == {"startRead", "send", "close"}

Chans == [
    label : Prefixes \cup {"none"}, \* the label before the port, once it is open
    open : BOOLEAN,                 \* the data channel
    interrupted : BOOLEAN,          \* the client or the connection has closed it
    channel : BOOLEAN,              \* channel_ is set
    op : {"none", "open", "read"},  \* what is outstanding on future_
    failed : BOOLEAN,               \* an open or a read has failed
    buffer : 0..MaxChunks,          \* the chunk in readBuffer_
    produced : 0..MaxChunks,        \* how many the stream has handed out
    sent : Seq(1..MaxChunks)]       \* the chunks sent on the data channel

TypeOK ==
    /\ chan \in [Channels -> Chans]
    /\ streamChannel \in Channels \cup {NoChannel}
    /\ connection \in {"open", "closed", "freed"}
    /\ ahead \in Nat
    /\ queue \in Seq([kind : Kinds, of : Channels])
    /\ crashed \in {"no", "null", "freed", "thrown"}

Init ==
    /\ chan = [d \in Channels |->
                [label |-> "none", open |-> FALSE, interrupted |-> FALSE,
                 channel |-> FALSE, op |-> "none", failed |-> FALSE,
                 buffer |-> 0, produced |-> 0, sent |-> <<>>]]
    /\ streamChannel = NoChannel
    /\ connection = "open" /\ ahead = 0
    /\ queue = <<>>
    /\ crashed = "no"

\* The WebrtcConnection holds the object, or the callbacks of an open data channel.
Alive(d) == streamChannel = d \/ chan[d].open \/ chan[d].channel

Post(kind, d) == queue' = Append(queue, [kind |-> kind, of |-> d])

Crashes(how) ==
    /\ crashed' = how
    /\ UNCHANGED <<chan, streamChannel, connection, ahead>>
-----------------------------------------------------------------------------
\* The client opens a data channel, and the callback of libdatachannel creates the
\* object.

\* The port is read from the seventh character of the label on, whatever the prefix.
PortFrom == [p \in Prefixes |-> 7]

\* std::stoul throws when what is left does not begin with a digit.
HasPort(label) == PortFrom[label] = (IF label = "stream-" THEN 7 ELSE 13)

\* handleDatachannelEvent for a label of a stream, with init of the new object.
HandleDatachannelEvent(d) ==
    /\ chan[d].label = "none" /\ connection = "open"
    /\ \E label \in Prefixes :
        /\ chan' = [chan EXCEPT
                     ![d].label = label, ![d].open = TRUE,
                     ![d].channel = HasPort(label),
                     ![d].op = IF HasPort(label) THEN "open" ELSE "none"]
        /\ streamChannel' = IF HasPort(label) THEN d ELSE streamChannel
    /\ UNCHANGED <<connection, ahead, queue, crashed>>

\* What the end of the stream did not close.
Interrupted(c) == IF c.open THEN [c EXCEPT !.open = FALSE, !.interrupted = TRUE] ELSE c

ClientCloses(d) ==
    /\ chan[d].open
    /\ chan' = [chan EXCEPT ![d] = Interrupted(@)]
    /\ UNCHANGED <<streamChannel, connection, ahead, queue, crashed>>

\* pc_->close() of WebrtcConnection::stop, or a close by the peer; the Closed handler is
\* posted.
ConnectionCloses ==
    /\ connection = "open" /\ connection' = "closed"
    /\ chan' = [d \in Channels |-> Interrupted(chan[d])]
    /\ ahead' = Len(queue)
    /\ UNCHANGED <<streamChannel, queue, crashed>>

\* The Closed handler leaves streamChannel_ alone, so that it goes with the last
\* reference to the WebrtcConnection, in the handler or later.
ConnectionFreed ==
    /\ connection = "closed" /\ ahead = 0
    /\ connection' = "freed" /\ streamChannel' = NoChannel
    /\ UNCHANGED <<chan, ahead, queue, crashed>>

\* The callback of the closed data channel.
OnClosed(d) ==
    /\ chan[d].label # "none" /\ ~chan[d].open
    /\ chan[d].channel
    /\ chan' = [chan EXCEPT ![d].channel = FALSE]
    /\ UNCHANGED <<streamChannel, connection, ahead, queue, crashed>>
-----------------------------------------------------------------------------
\* The SDK's thread.

\* An error is only logged, without a look at the object.
OperationFails(d) ==
    /\ chan[d].op # "none"
    /\ chan' = [chan EXCEPT ![d].op = "none", ![d].failed = TRUE]
    /\ UNCHANGED <<streamChannel, connection, ahead, queue, crashed>>

StreamOpened(d) ==
    /\ chan[d].op = "open"
    /\ IF Alive(d)
       THEN /\ chan' = [chan EXCEPT ![d].op = "none"]
            /\ Post("startRead", d)
            /\ UNCHANGED <<streamChannel, connection, ahead, crashed>>
       ELSE Crashes("freed") /\ UNCHANGED queue

\* streamReadCb with data.
StreamReadCb(d) ==
    /\ chan[d].op = "read"
    /\ chan[d].produced < MaxChunks
    /\ IF Alive(d)
       THEN /\ chan' = [chan EXCEPT ![d].op = "none",
                                    ![d].produced = @ + 1,
                                    ![d].buffer = chan[d].produced + 1]
            /\ Post("send", d)
            /\ UNCHANGED <<streamChannel, connection, ahead, crashed>>
       ELSE Crashes("freed") /\ UNCHANGED queue

\* streamReadCb with the end of the stream.
StreamEnds(d) ==
    /\ chan[d].op = "read"
    /\ IF Alive(d)
       THEN /\ chan' = [chan EXCEPT ![d].op = "none"]
            /\ Post("close", d)
            /\ UNCHANGED <<streamChannel, connection, ahead, crashed>>
       ELSE Crashes("freed") /\ UNCHANGED queue
-----------------------------------------------------------------------------
\* The event queue: what the lambdas do.

\* Mutant of Sent: no read follows.
SentOnce(c) == [c EXCEPT !.sent = Append(@, c.buffer)]

\* The chunk is sent, and the next read started.
Sent(c) == [c EXCEPT !.sent = Append(@, c.buffer), !.op = "read"]

\* Mutant of Closed: the pump goes on.
ClosedAndRead(c) == [c EXCEPT !.open = FALSE, !.channel = FALSE, !.op = "read"]

Closed(c) == [c EXCEPT !.open = FALSE, !.channel = FALSE]

\* Mutant of Works: the data lambda closes, too.
ClosesEarly(kind, c) ==
    CASE kind = "startRead" -> [c EXCEPT !.op = "read"]
      [] kind = "send" /\ c.produced > 1 -> Closed(c)
      [] kind = "send" -> Sent(c)
      [] kind = "close" -> Closed(c)

Works(kind, c) ==
    CASE kind = "startRead" -> [c EXCEPT !.op = "read"]
      [] kind = "send" -> Sent(c)
      [] kind = "close" -> Closed(c)

EventLoop ==
    /\ queue # <<>>
    /\ queue' = Tail(queue)
    /\ LET l == Head(queue)
           c == chan[l.of]
       IN  IF ~Alive(l.of)
           THEN Crashes("freed")
           ELSE IF l.kind # "startRead" /\ ~c.channel
           THEN Crashes("null")
           ELSE IF l.kind = "send" /\ ~c.open
           THEN Crashes("thrown")
           ELSE /\ chan' = [chan EXCEPT ![l.of] = Works(l.kind, c)]
                /\ ahead' = IF ahead = 0 THEN 0 ELSE ahead - 1
                /\ UNCHANGED <<streamChannel, connection, crashed>>
-----------------------------------------------------------------------------
Step(d) ==
    \/ HandleDatachannelEvent(d) \/ ClientCloses(d) \/ OnClosed(d)
    \/ OperationFails(d) \/ StreamOpened(d) \/ StreamReadCb(d) \/ StreamEnds(d)

Next ==
    /\ crashed = "no"
    /\ EventLoop \/ ConnectionCloses \/ ConnectionFreed \/ \E d \in Channels : Step(d)

\* The event queue runs, and the SDK resolves what was started.
SDK(d) == OperationFails(d) \/ StreamOpened(d) \/ StreamReadCb(d) \/ StreamEnds(d)

Fairness ==
    /\ WF_vars(crashed = "no" /\ EventLoop)
    /\ \A d \in Channels : WF_vars(crashed = "no" /\ SDK(d))

Spec == Init /\ [][Next]_vars /\ Fairness
-----------------------------------------------------------------------------
\* The client receives the stream: chunks in order, none lost, doubled or overwritten
\* in readBuffer_ by the read that follows; and the device, which learns of the end on
\* another thread than the one that sends, closes the channel only behind the last one.
StreamIsDelivered ==
    \A d \in Channels :
        LET c == chan[d]
        IN  /\ c.sent = [i \in 1..Len(c.sent) |-> i]
            /\ c.label # "none" /\ ~c.open /\ ~c.interrupted
                 => Len(c.sent) = c.produced /\ c.op = "none"

\* The end of a stream, a failure or a second channel on the connection never makes the
\* device use a channel that is gone: it takes a close of the channel or of the
\* connection, by either side, in the middle of a transfer that has not failed.
CrashAfterAClose ==
    crashed # "no" => \E d \in Channels : chan[d].interrupted /\ ~chan[d].failed

\* A transfer that is not interrupted comes to its end, and the client sees it.
TransferEnds ==
    \A d \in Channels :
        chan[d].op = "open"
          ~> \/ chan[d].label # "none" /\ ~chan[d].open
             \/ chan[d].failed \/ crashed # "no"

\* Both labels of a stream open one, the old and the new: "remove "stream-" label
\* when we are confident clients have been updated".
LabelsOpenStreams ==
    \A d \in Channels : chan[d].label \in Prefixes /\ chan[d].open
        => chan[d].channel
=============================================================================
