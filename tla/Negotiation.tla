---------------------------- MODULE Negotiation ----------------------------
(***************************************************************************)
(* The negotiation of a WebrtcConnection (src/library/webrtc-connection):  *)
(* the device and the client each add tracks, offer them and answer the    *)
(* other's offers over the signaling stream, in the way of the "perfect    *)
(* negotiation" the class names.  The device is impolite: it ignores an    *)
(* offer that collides with its own.                                       *)
(*                                                                         *)
(* The device's handlers run on the event queue.  The library's signaling  *)
(* callbacks are called later, on a thread of its own, and post a lambda   *)
(* that looks at the local description of the moment when it runs.  The    *)
(* stream delivers what SignalingStream.tla sends, in order and once.      *)
(*                                                                         *)
(* External, by what src/ uses of them: the peer connection of             *)
(* libdatachannel (addTrack, setLocalDescription, setRemoteDescription),   *)
(* and the client, a browser that negotiates politely.                     *)
(***************************************************************************)
EXTENDS Naturals, Sequences, FiniteSets

CONSTANTS
    MaxDevice,  \* bound on the tracks the application adds
    MaxClient,  \* bound on the tracks the client adds
    AnyTime     \* the application adds tracks at any time, and not only while
                \* the device negotiates nothing

ASSUME BoundsAssumption == MaxDevice \in Nat /\ MaxClient \in Nat
ASSUME FlagsAssumption == AnyTime \in BOOLEAN

VARIABLES
    dev,        \* the device's WebrtcConnection with its peer connection
    queue,      \* the lambdas on the event queue
    cli,        \* the client
    toClient,   \* descriptions on their way to the client, oldest first
    toDevice    \* and to the device

vars == <<dev, queue, cli, toClient, toDevice>>

\* A description: an offer, or the answer to one.  id numbers the offers of a
\* side, tracks is how many of the offerer's tracks it describes.
Descriptions ==
    [type : {"offer", "answer"}, by : {"device", "client"},
     id : Nat \ {0}, tracks : 0..(MaxDevice + MaxClient)]

Offer(side, id, tracks) ==
    [type |-> "offer", by |-> side, id |-> id, tracks |-> tracks]
AnswerTo(offer) == [offer EXCEPT !.type = "answer"]
NoDescription == [type |-> "none"]

\* What is on the event queue: a description that was read, or a lambda known by
\* its name.
StateEvents == {"haveLocalOffer", "haveRemoteOffer"}
PeerEvents == StateEvents \cup {"gathered"}
Lambda(name) == [type |-> name]
Lambdas == [type : PeerEvents \cup {"addTracks"}]

Devices == [
    sig : {"stable", "haveLocalOffer", "haveRemoteOffer"},  \* signalingState()
    needed : BOOLEAN,                           \* negotiationNeeded()
    local : Descriptions \cup {NoDescription},  \* localDescription()
    remote : Descriptions \cup {NoDescription}, \* the offer to be answered
    gathering : {"new", "running", "complete"}, \* gatheringState()
    events : Seq(PeerEvents),   \* callbacks the library has yet to call
    canTrickle : BOOLEAN,       \* canTrickle_
    tracks : 0..MaxDevice,      \* tracks added to the peer connection
    agreed : 0..MaxDevice,      \* those of them in an offer the client answered
    offers : Nat,               \* offers created so far
    accepted : SUBSET Nat,      \* the client's offers applied so far
    answered : SUBSET Nat]      \* the client's offers whose answer was sent

Clients == [
    sig : {"stable", "haveLocalOffer"},
    needed : BOOLEAN,
    tracks : 0..MaxClient, agreed : 0..MaxClient,
    offers : Nat,
    noTrickle : BOOLEAN]        \* its metadata asks for noTrickle

TypeOK ==
    /\ dev \in Devices
    /\ cli \in Clients
    /\ queue \in Seq(Lambdas \cup Descriptions)
    /\ toClient \in Seq(Descriptions)
    /\ toDevice \in Seq(Descriptions)

Init ==
    /\ dev = [sig |-> "stable", needed |-> FALSE, local |-> NoDescription,
              remote |-> NoDescription, gathering |-> "new", events |-> <<>>,
              canTrickle |-> TRUE, tracks |-> 0, agreed |-> 0, offers |-> 0,
              accepted |-> {}, answered |-> {}]
    /\ \E no \in BOOLEAN :
        cli = [sig |-> "stable", needed |-> FALSE, tracks |-> 0, agreed |-> 0,
               offers |-> 0, noTrickle |-> no]
    /\ queue = <<>> /\ toClient = <<>> /\ toDevice = <<>>
-----------------------------------------------------------------------------
\* The peer connection.

\* The first local description starts gathering candidates.
Gather(d) == IF d.gathering = "new" THEN [d EXCEPT !.gathering = "running"] ELSE d

\* An answer when there is an offer to answer, else an offer when one is needed.
\* While an offer of its own is pending nothing happens, and it stays needed.
setLocalDescription(d) ==
    IF d.sig = "haveRemoteOffer"
    THEN Gather([d EXCEPT !.sig = "stable", !.local = AnswerTo(d.remote)])
    ELSE IF d.sig = "stable" /\ d.needed
    THEN Gather([d EXCEPT !.sig = "haveLocalOffer", !.needed = FALSE,
                          !.offers = d.offers + 1,
                          !.local = Offer("device", d.offers + 1, d.tracks),
                          !.events = Append(d.events, "haveLocalOffer")])
    ELSE d

\* An answer without an offer is refused with an exception, which the caller
\* catches and logs.
setRemoteDescription(d, m) ==
    IF m.type = "offer"
    THEN [d EXCEPT !.sig = "haveRemoteOffer", !.remote = m,
                   !.accepted = d.accepted \cup {m.id},
                   !.events = Append(d.events, "haveRemoteOffer")]
    ELSE IF d.sig = "haveLocalOffer"
    THEN [d EXCEPT !.sig = "stable", !.agreed = m.tracks]
    ELSE d
-----------------------------------------------------------------------------
\* The device: the methods of WebrtcConnection, from the object before to the
\* object after the call, and the lambdas that call them.

\* Mutant of createTracks: the local description is not set.
TracksNotOffered(d) == [d EXCEPT !.tracks = d.tracks + 1, !.needed = TRUE]

createTracks(d) ==
    setLocalDescription([d EXCEPT !.tracks = d.tracks + 1, !.needed = TRUE])

\* Mutant of OfferCollision: colliding offers are accepted.
NoCollision(d, m) == FALSE

\* makingOffer_ is never set, so only the signaling state counts.
OfferCollision(d, m) == m.type = "offer" /\ d.sig # "stable"

\* handleOfferAnswer and handleSignalingMessage with setMetadata.
handleSignalingMessage(d, m) ==
    IF OfferCollision(d, m)
    THEN d
    ELSE LET r == setRemoteDescription(
                    [d EXCEPT !.canTrickle = d.canTrickle /\ ~cli.noTrickle], m)
         IN  IF m.type = "offer" THEN setLocalDescription(r) ELSE r

\* The object once its local description was sent.
Sent(d) ==
    IF d.local.type = "answer"
    THEN [d EXCEPT !.answered = d.answered \cup {d.local.id}]
    ELSE d

\* After an answer a negotiation that became necessary meanwhile is started.
sendDescription(d) ==
    IF d.local.type = "answer" /\ d.needed
    THEN setLocalDescription(Sent(d))
    ELSE Sent(d)

\* Mutant of MaySend: the description is never sent on a state change.
NeverOnStateChange(d) == FALSE

\* handleSignalingStateChange's condition, and sendDescription's.
MaySend(d) ==
    /\ d.canTrickle \/ d.gathering = "complete"
    /\ d.local # NoDescription

Take ==
    /\ queue # <<>>
    /\ queue' = Tail(queue)

HandleMessage ==
    /\ Take
    /\ Head(queue).type \in {"offer", "answer"}
    /\ dev' = handleSignalingMessage(dev, Head(queue))
    /\ UNCHANGED <<cli, toClient, toDevice>>

AddTracks ==
    /\ Take
    /\ Head(queue).type = "addTracks"
    /\ dev' = createTracks(dev)
    /\ UNCHANGED <<cli, toClient, toDevice>>

\* handleSignalingStateChange for the two states it does not ignore.
HandleStateChange ==
    /\ Take
    /\ Head(queue).type \in StateEvents
    /\ IF MaySend(dev)
       THEN /\ toClient' = Append(toClient, dev.local)
            /\ dev' = sendDescription(dev)
       ELSE UNCHANGED <<dev, toClient>>
    /\ UNCHANGED <<cli, toDevice>>

\* The lambda of onGatheringStateChange(Complete).
HandleGathered ==
    /\ Take
    /\ Head(queue).type = "gathered"
    /\ IF dev.canTrickle
       THEN UNCHANGED <<dev, toClient>>
       ELSE /\ toClient' = Append(toClient, dev.local)
            /\ dev' = Sent(dev)
    /\ UNCHANGED <<cli, toDevice>>

EventLoop == HandleMessage \/ AddTracks \/ HandleStateChange \/ HandleGathered
-----------------------------------------------------------------------------
\* Other threads of the device.

\* A callback of the peer connection posts its lambda.
PeerCallback ==
    /\ dev.events # <<>>
    /\ queue' = Append(queue, Lambda(Head(dev.events)))
    /\ dev' = [dev EXCEPT !.events = Tail(dev.events)]
    /\ UNCHANGED <<cli, toClient, toDevice>>

GatheringCompletes ==
    /\ dev.gathering = "running"
    /\ dev' = [dev EXCEPT !.gathering = "complete",
                          !.events = Append(dev.events, "gathered")]
    /\ UNCHANGED <<queue, cli, toClient, toDevice>>

\* The stream has read a message; it reads the next when this one was handled.
MessageRead ==
    /\ toDevice # <<>>
    /\ \A i \in 1..Len(queue) : queue[i].type \notin {"offer", "answer"}
    /\ queue' = Append(queue, Head(toDevice))
    /\ toDevice' = Tail(toDevice)
    /\ UNCHANGED <<dev, cli, toClient>>

Quiet ==
    /\ dev.sig = "stable" /\ dev.events = <<>> /\ dev.gathering # "running"
    /\ queue = <<>>

ApplicationAddsTracks ==
    /\ AnyTime \/ Quiet
    /\ dev.tracks + Cardinality({i \in 1..Len(queue) : queue[i].type = "addTracks"}) < MaxDevice
    /\ queue' = Append(queue, Lambda("addTracks"))
    /\ UNCHANGED <<dev, cli, toClient, toDevice>>
-----------------------------------------------------------------------------
\* The client.

ClientAddsTrack ==
    /\ cli.tracks < MaxClient
    /\ cli' = [cli EXCEPT !.tracks = cli.tracks + 1, !.needed = TRUE]
    /\ UNCHANGED <<dev, queue, toClient, toDevice>>

ClientOffers ==
    /\ cli.needed /\ cli.sig = "stable"
    /\ cli' = [cli EXCEPT !.needed = FALSE, !.sig = "haveLocalOffer",
                          !.offers = cli.offers + 1]
    /\ toDevice' = Append(toDevice, Offer("client", cli.offers + 1, cli.tracks))
    /\ UNCHANGED <<dev, queue, toClient>>

\* Polite: an own offer that is pending is rolled back and made again later.
ClientTakesOffer ==
    /\ toClient # <<>> /\ Head(toClient).type = "offer"
    /\ cli' = [cli EXCEPT !.sig = "stable",
                          !.needed = cli.needed \/ cli.sig = "haveLocalOffer"]
    /\ toDevice' = Append(toDevice, AnswerTo(Head(toClient)))
    /\ toClient' = Tail(toClient)
    /\ UNCHANGED <<dev, queue>>

\* An answer without an offer is refused.
ClientTakesAnswer ==
    /\ toClient # <<>> /\ Head(toClient).type = "answer"
    /\ cli' = IF cli.sig = "haveLocalOffer"
              THEN [cli EXCEPT !.sig = "stable", !.agreed = Head(toClient).tracks]
              ELSE cli
    /\ toClient' = Tail(toClient)
    /\ UNCHANGED <<dev, queue, toDevice>>

Client == ClientOffers \/ ClientTakesOffer \/ ClientTakesAnswer

Next ==
    \/ EventLoop
    \/ PeerCallback \/ GatheringCompletes \/ MessageRead
    \/ ApplicationAddsTracks
    \/ ClientAddsTrack \/ Client

\* The event queue, the library's threads, the stream and the client go on; when
\* tracks are added is up to the application and the user.
Fairness ==
    /\ WF_vars(EventLoop)
    /\ WF_vars(PeerCallback) /\ WF_vars(GatheringCompletes)
    /\ WF_vars(MessageRead) /\ WF_vars(Client)

Spec == Init /\ [][Next]_vars /\ Fairness
-----------------------------------------------------------------------------
\* Each end applies an answer only to the offer that it has pending: no answer is left
\* over from an offer that was rolled back, ignored or sent twice.  With noTrickle the
\* code sends some descriptions twice, and this fails.  The variables keep their types.
AnswersFit ==
    /\ []TypeOK
    /\ [][~cli.noTrickle =>
            /\ dev.sig = "haveLocalOffer" /\ dev'.sig = "stable"
                => Head(queue) = AnswerTo(dev.local)
            /\ cli.sig = "haveLocalOffer" /\ cli'.sig = "stable"
                    /\ Head(toClient).type = "answer"
                => Head(toClient).by = "client" /\ Head(toClient).id = cli.offers]_vars

Pending(event) ==
    \/ \E i \in 1..Len(queue) : queue[i].type = event
    \/ \E i \in 1..Len(dev.events) : dev.events[i] = event

\* Every offer the device accepts gets its answer: "the SDP of the MediaTrack will
\* be used in the WebRTC Answer returned to the client."  It was sent, or what
\* will send it is still to come.
OffersAreAnswered ==
    \/ cli.noTrickle
    \/ dev.accepted = dev.answered
    \/ Pending("haveRemoteOffer")

\* Every track either side has added is, in the end, part of an offer that the
\* other has answered.
TracksAgreed ==
    <>[](cli.noTrickle \/ (cli.agreed = cli.tracks /\ dev.agreed = dev.tracks))

\* Once nobody adds tracks any more, offers that collide are resolved, with noTrickle
\* and without: both ends become stable and stay so, with nothing in flight and, but
\* for noTrickle, with all tracks of both agreed.
Settles ==
    /\ <>[](/\ dev.sig = "stable" /\ cli.sig = "stable"
            /\ queue = <<>> /\ toClient = <<>> /\ toDevice = <<>>)
    /\ TracksAgreed
=============================================================================
