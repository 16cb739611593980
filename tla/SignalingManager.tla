-------------------------- MODULE SignalingManager --------------------------
(***************************************************************************)
(* SignalingStreamManager with its two Nabto listeners, and the            *)
(* NabtoDeviceWebrtc the application holds (src/library).  A listener has  *)
(* one future armed at the SDK; its callback, on the SDK's thread, posts   *)
(* what has arrived together with a copy of the callback, and arms it      *)
(* again.  The lambdas run on the event queue.                             *)
(*                                                                         *)
(* Nobody closes the manager.  It lives as long as somebody refers to it:  *)
(* the application, the callbacks of the listeners and their copies, and   *)
(* the signaling streams.  A listener lives as long as the manager, and, by*)
(* me_, until the SDK has resolved its future with an error, as it does    *)
(* when the device is stopped.                                             *)
(*                                                                         *)
(* External: the listeners of the SDK, and the signaling streams, whose    *)
(* own life is SignalingStream.tla's.                                      *)
(***************************************************************************)
EXTENDS Naturals, Sequences, FiniteSets

CONSTANTS
    Streams,        \* signaling streams opened by clients
    Infos,          \* requests for the signaling port
    Connections,    \* the Nabto connections they come from
    None,           \* no stream
    MaxAdds,        \* bound on the additions of tracks
    OneStream,      \* a connection opens a stream only when its last one is gone
    AppDrops        \* the application may drop its pointer before the listeners
                    \* have stopped

ASSUME ItemsAssumption == Streams \cap Infos = {} /\ None \notin Streams
ASSUME FlagsAssumption ==
    OneStream \in BOOLEAN /\ AppDrops \in BOOLEAN /\ MaxAdds \in Nat

VARIABLES
    app,        \* the application: its pointer, what it has set, the device
    lis,        \* the listeners
    item,       \* what clients have opened or asked for
    streams,    \* streams_ of the manager, in order
    queue,      \* the lambdas of the listeners
    added,      \* history: the additions of tracks
    crashed     \* how the program ended, "no" while it runs

vars == <<app, lis, item, streams, queue, added, crashed>>

Kinds == {"stream", "info"}
KindOf(i) == IF i \in Streams THEN "stream" ELSE "info"
Items == Streams \cup Infos

\* A stream is "open", then "closing" until its object is gone; both ways of ending a
\* request for the port are "answered".  early is history: the listener took it
\* before it had a callback.
States == {"none", "arrived", "queued", "open", "closing", "gone", "refused", "answered"}

Lambdas == [kind : Kinds, of : Items, cb : BOOLEAN] \cup [stopped : Kinds]

TypeOK ==
    /\ app \in [started : BOOLEAN, holds : BOOLEAN, access : BOOLEAN, running : BOOLEAN]
    /\ lis \in [Kinds -> [armed : BOOLEAN, cb : BOOLEAN, me : BOOLEAN]]
    /\ item \in [Items -> [state : States, conn : Connections, early : BOOLEAN]]
    /\ streams \in Seq(Streams)
    /\ queue \in Seq(Lambdas)
    /\ added \in Seq([conn : Connections, to : Streams \cup {None}, open : SUBSET Streams])
    /\ crashed \in {"no", "freed", "thrown"}

\* The manager was constructed, and with it the listeners, started.
Init ==
    /\ app = [started |-> FALSE, holds |-> TRUE, access |-> FALSE, running |-> TRUE]
    /\ lis = [k \in Kinds |-> [armed |-> TRUE, cb |-> FALSE, me |-> TRUE]]
    /\ item \in [Items -> [state : {"none"}, conn : Connections, early : {FALSE}]]
    /\ streams = <<>> /\ queue = <<>> /\ added = <<>>
    /\ crashed = "no"

Living(i) == item[i].state \in {"open", "closing"}

\* Mutant of HeldWith: the application's object holds it weakly.
HeldByTheRest(l, q) ==
    \/ \E s \in Streams : Living(s)
    \/ \E k \in Kinds : l[k].cb
    \/ \E i \in 1..Len(q) : "cb" \in DOMAIN q[i] /\ q[i].cb

\* Somebody refers to the manager: the application, a stream, and listeners and lambdas
\* as they are in l and q.
HeldWith(l, q) ==
    \/ app.holds
    \/ \E s \in Streams : Living(s)
    \/ \E k \in Kinds : l[k].cb
    \/ \E i \in 1..Len(q) : "cb" \in DOMAIN q[i] /\ q[i].cb

ManagerHeld == HeldWith(lis, queue)
-----------------------------------------------------------------------------
\* The application.

\* SignalingStreamManager::start, from the constructor of NabtoDeviceWebrtc.
Start ==
    /\ ~app.started
    /\ app' = [app EXCEPT !.started = TRUE]
    /\ lis' = [k \in Kinds |-> [lis[k] EXCEPT !.cb = TRUE]]
    /\ UNCHANGED <<item, streams, queue, added, crashed>>

SetCheckAccessCallback ==
    /\ app.holds /\ app.started /\ ~app.access
    /\ app' = [app EXCEPT !.access = TRUE]
    /\ UNCHANGED <<lis, item, streams, queue, added, crashed>>

\* Mutant of FirstOf: a stream that is gone still counts.
FirstEver(conn) ==
    LET of == {i \in 1..Len(streams) : item[streams[i]].conn = conn}
    IN  IF of = {}
        THEN None
        ELSE streams[CHOOSE i \in of : \A j \in of : i <= j]

\* The first stream that can be locked and is one of the connection.
FirstOf(conn) ==
    LET of == {i \in 1..Len(streams) :
                Living(streams[i]) /\ item[streams[i]].conn = conn}
    IN  IF of = {}
        THEN None
        ELSE streams[CHOOSE i \in of : \A j \in of : i <= j]

\* Whether the stream then takes them is SignalingStream.tla's.
ConnectionAddMediaTracks(conn) ==
    /\ app.holds /\ app.started
    /\ Len(added) < MaxAdds
    /\ added' = Append(added,
            [conn |-> conn, to |-> FirstOf(conn),
             open |-> {s \in Streams : item[s].state = "open" /\ item[s].conn = conn}])
    /\ UNCHANGED <<app, lis, item, streams, queue, crashed>>

\* nabto_device_stop.
DeviceStop ==
    /\ app.running /\ app.started
    /\ app' = [app EXCEPT !.running = FALSE]
    /\ UNCHANGED <<lis, item, streams, queue, added, crashed>>

\* The application drops its pointer to the NabtoDeviceWebrtc.
Drop ==
    /\ app.holds /\ app.started
    /\ AppDrops \/ \A k \in Kinds : ~lis[k].me
    /\ app' = [app EXCEPT !.holds = FALSE]
    /\ UNCHANGED <<lis, item, streams, queue, added, crashed>>
-----------------------------------------------------------------------------
\* Clients.

\* A client opens a stream or asks for the port.
Arrives(i) ==
    /\ app.running
    /\ item[i].state = "none"
    /\ OneStream /\ i \in Streams =>
        \A s \in Streams : item[s].conn = item[i].conn =>
            item[s].state \in {"none", "gone", "refused"}
    /\ item' = [item EXCEPT ![i].state = "arrived"]
    /\ UNCHANGED <<app, lis, streams, queue, added, crashed>>

StreamCloses(s) ==
    /\ item[s].state = "open"
    /\ item' = [item EXCEPT ![s].state = "closing"]
    /\ UNCHANGED <<app, lis, streams, queue, added, crashed>>

\* The object of a stream ends its life.
StreamFreed(s) ==
    /\ item[s].state = "closing"
    /\ item' = [item EXCEPT ![s].state = "gone"]
    /\ UNCHANGED <<app, lis, streams, queue, added, crashed>>
-----------------------------------------------------------------------------
\* The thread of the SDK: newStream and newCoapRequest.

\* Mutant of Rearmed: the callback was moved into the lambda.
MovedFrom(l) == [l EXCEPT !.cb = FALSE]

Rearmed(l) == l

NewItem(i) ==
    LET k == KindOf(i)
    IN  /\ lis[k].armed /\ app.running
        /\ item[i].state = "arrived"
        /\ item' = [item EXCEPT ![i].state = "queued", ![i].early = ~app.started]
        /\ queue' = Append(queue, [kind |-> k, of |-> i, cb |-> lis[k].cb])
        /\ lis' = [lis EXCEPT ![k] = Rearmed(lis[k])]
        /\ UNCHANGED <<app, streams, added, crashed>>

ListenFails(k) ==
    /\ lis[k].armed /\ ~app.running
    /\ lis' = [lis EXCEPT ![k].armed = FALSE]
    /\ queue' = Append(queue, [stopped |-> k])
    /\ UNCHANGED <<app, item, streams, added, crashed>>
-----------------------------------------------------------------------------
\* The event queue.

\* "If no callback is set, all actions are denied"; else it says what it likes.
MayStream == IF app.access THEN BOOLEAN ELSE {FALSE}

\* The callback of start() for a stream; a stream the check refuses is freed.
StreamCallback(s) ==
    \E may \in MayStream :
        IF may
        THEN /\ item' = [item EXCEPT ![s].state = "open"]
             /\ streams' = Append(streams, s)
        ELSE /\ item' = [item EXCEPT ![s].state = "refused"]
             /\ UNCHANGED streams

\* The callback for a request of the port: 205 or 401.
CoapCallback(i) ==
    /\ item' = [item EXCEPT ![i].state = "answered"]
    /\ UNCHANGED streams

\* An empty function throws.
RunCallback ==
    /\ queue # <<>> /\ "cb" \in DOMAIN Head(queue)
    /\ queue' = Tail(queue)
    /\ IF ~Head(queue).cb
       THEN crashed' = "thrown" /\ UNCHANGED <<item, streams>>
       ELSE /\ IF Head(queue).kind = "stream"
               THEN StreamCallback(Head(queue).of)
               ELSE CoapCallback(Head(queue).of)
            /\ UNCHANGED crashed
    /\ UNCHANGED <<app, lis, added>>


\* The lambda of a listener that failed drops me_ and the callback.
Stopped(l) == [l EXCEPT !.me = FALSE, !.cb = FALSE]

\* The lambda of the stream listener drops me_ first: when its callback was the last
\* to hold the manager, it writes device_ of a listener that is freed.  That of the
\* CoAP listener drops me_ last.
RunStopped ==
    /\ queue # <<>> /\ "stopped" \in DOMAIN Head(queue)
    /\ queue' = Tail(queue)
    /\ LET k == Head(queue).stopped
           l == [lis EXCEPT ![k] = Stopped(lis[k])]
       IN  /\ lis' = l
           /\ crashed' = IF k = "stream" /\ ~l[k].me /\ ~HeldWith(l, Tail(queue))
                         THEN "freed" ELSE crashed
    /\ UNCHANGED <<app, item, streams, added>>

EventLoop == RunCallback \/ RunStopped
-----------------------------------------------------------------------------
Next ==
    /\ crashed = "no"
    /\ \/ Start \/ SetCheckAccessCallback \/ DeviceStop \/ Drop
       \/ \E conn \in Connections : ConnectionAddMediaTracks(conn)
       \/ \E i \in Items : Arrives(i) \/ NewItem(i)
       \/ \E s \in Streams : StreamCloses(s) \/ StreamFreed(s)
       \/ \E k \in Kinds : ListenFails(k)
       \/ EventLoop

\* The SDK resolves its futures, the event queue runs, a stream that closes is freed,
\* and without the device every stream closes.
Fairness ==
    /\ WF_vars(crashed = "no" /\ EventLoop)
    /\ \A i \in Items : WF_vars(crashed = "no" /\ NewItem(i))
    /\ \A k \in Kinds : WF_vars(crashed = "no" /\ ListenFails(k))
    /\ \A s \in Streams :
        /\ WF_vars(crashed = "no" /\ StreamFreed(s))
        /\ WF_vars(crashed = "no" /\ ~app.running /\ StreamCloses(s))

Spec == Init /\ [][Next]_vars /\ Fairness
-----------------------------------------------------------------------------
\* "This class does not have a close method. Instead, this will close gracefully when
\* nabto_device_stop() is called": no lambda touches an object that is gone.
ClosesGracefully == crashed # "freed"

\* What has reached the device is dealt with, whatever arrives meanwhile, and even
\* when the device stops while it is queued.  Only what arrives before start() has
\* set the callbacks ends the program, as an empty function that is called.
ItemsAreDealtWith ==
    \A i \in Items :
        LET thrown == crashed = "thrown" /\ \E j \in Items : item[j].early
        IN  /\ item[i].state = "arrived"
                 ~> item[i].state # "arrived" \/ ~app.running \/ thrown
            /\ item[i].state = "queued" ~> item[i].state # "queued" \/ thrown


\* "These tracks will be added to the WebRTC PeerConnection": of a connection that has
\* a signaling stream open, tracks go to an open stream, and not to one that closes.
\* The variables keep their types.
TracksGoToAnOpenStream ==
    TypeOK /\ \A i \in 1..Len(added) : added[i].open # {} => added[i].to \in added[i].open
=============================================================================
