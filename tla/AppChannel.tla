----------------------------- MODULE AppChannel -----------------------------
(***************************************************************************)
(* Datachannel (src/library/api/datachannel_impl): a data channel with any *)
(* other label goes to the application, here the one of                    *)
(* src/examples/simple-webrtc, which echoes each message.  A message is    *)
(* handled on libdatachannel's thread, which calls the callback and in it  *)
(* sends on the channel; when the peer connection closes, the event queue  *)
(* takes both away, without a lock.                                        *)
(*                                                                         *)
(* External: rtc::DataChannel, whose callbacks may throw.                  *)
(***************************************************************************)
EXTENDS Naturals, Sequences

CONSTANTS MaxMessages   \* bound on the messages of the client

VARIABLES
    open,       \* channel_->isOpen()
    closed,     \* the Closed handler of the connection has run
    channel,    \* channel_ is set
    cb,         \* cb_ is set
    inbox,      \* messages on their way to the device
    next,       \* the last message the client sent
    handling,   \* libdatachannel's thread: the message it handles, or 0
    echoed,     \* what was sent back
    crashed     \* how the program ended, "no" while it runs

vars == <<open, closed, channel, cb, inbox, next, handling, echoed, crashed>>

TypeOK ==
    /\ open \in BOOLEAN /\ closed \in BOOLEAN /\ channel \in BOOLEAN /\ cb \in BOOLEAN
    /\ inbox \in Seq(1..MaxMessages) /\ echoed \in Seq(1..MaxMessages)
    /\ next \in 0..MaxMessages /\ handling \in 0..MaxMessages
    /\ crashed \in {"no", "null"}

\* handleDatachannelEvent of another label: createDatachannel, then the application's
\* callback, which sets the one of the messages, before a message is delivered.
Init ==
    /\ open = TRUE /\ closed = FALSE /\ channel = TRUE /\ cb = TRUE
    /\ inbox = <<>> /\ next = 0 /\ handling = 0 /\ echoed = <<>>
    /\ crashed = "no"

ClientSends ==
    /\ open /\ next < MaxMessages
    /\ next' = next + 1 /\ inbox' = Append(inbox, next')
    /\ UNCHANGED <<open, closed, channel, cb, handling, echoed, crashed>>

ClientCloses ==
    /\ open /\ open' = FALSE
    /\ UNCHANGED <<closed, channel, cb, inbox, next, handling, echoed, crashed>>

\* The callback of onMessage calls cb_; libdatachannel logs the exception of an empty one.
OnMessage ==
    /\ handling = 0 /\ inbox # <<>>
    /\ inbox' = Tail(inbox)
    /\ handling' = IF cb THEN Head(inbox) ELSE 0
    /\ UNCHANGED <<open, closed, channel, cb, next, echoed, crashed>>

\* sendMessage, within the callback of the application.
SendMessage ==
    /\ handling # 0
    /\ handling' = 0
    /\ crashed' = IF channel THEN "no" ELSE "null"
    /\ echoed' = IF channel /\ open THEN Append(echoed, handling) ELSE echoed
    /\ UNCHANGED <<open, closed, channel, cb, inbox, next>>

\* connectionClosed, by the Closed handler of the peer connection.
ConnectionClosed ==
    /\ channel' = FALSE /\ cb' = FALSE
    /\ open' = FALSE /\ closed' = TRUE

\* A close of the peer connection, by the client or by WebrtcConnection::stop.
PeerCloses ==
    /\ ~closed
    /\ ConnectionClosed
    /\ UNCHANGED <<inbox, next, handling, echoed, crashed>>

Next ==
    /\ crashed = "no"
    /\ ClientSends \/ ClientCloses \/ OnMessage \/ SendMessage \/ PeerCloses

\* libdatachannel delivers, and the callback returns.
Fairness == WF_vars(crashed = "no" /\ (OnMessage \/ SendMessage))

Spec == Init /\ [][Next]_vars /\ Fairness
-----------------------------------------------------------------------------
\* What the client sends comes back, in order, as long as the channel is open.
EchoesAreInOrder == echoed = [i \in 1..Len(echoed) |-> i]
MessagesAreEchoed == next = MaxMessages ~> Len(echoed) = next \/ ~open

\* A client that closes its data channel ends nothing: only the Closed handler, which a
\* close of the whole connection by either side posts, takes callback and channel away
\* from a message that is being handled.
CrashAfterAClose == crashed # "no" => closed
=============================================================================
