-------------------------- MODULE ConnectionProofs --------------------------
(***************************************************************************)
(* Proofs about a WebrtcConnection: its negotiation (Negotiation), and its *)
(* tracks with their feeds (MediaTracks), whose variables are apart.       *)
(*                                                                         *)
(* Negotiation, for any number of tracks: as long as the application adds  *)
(* tracks only while the device negotiates nothing, every offer the device *)
(* accepts is answered, and with trickle ICE each end applies an answer    *)
(* only to the offer that it has pending.                                  *)
(*                                                                         *)
(* The offer of a side is always in one place: with the end that made it,  *)
(* on its way, accepted but not answered, or answered and on its way back. *)
(* DevicePhases and ClientPhases name these places.  An offer of the client*)
(* that collides is left behind, as a stale one in front of the client's   *)
(* answer to the device's, where the device ignores it.                    *)
(*                                                                         *)
(* MediaTracks, for any codecs that are offered, any number of tracks and  *)
(* any other application.  A track that was not refused has its rtc track, *)
(* a negotiator and codecs that agree with it, and its close callback as   *)
(* long as the connection is open; the feeds have the last of those.  The  *)
(* metadata has at most one entry for a track, with the error of the track *)
(* or none yet, and tracks are only added and keep their errors.           *)
(***************************************************************************)
EXTENDS Negotiation, MediaTracks, FiniteSetTheorems, WellFoundedInduction, TLAPS

MessageTypes == {"offer", "answer"}

\* What the device sends: its offers, and answers to the client's.
FromDevice(m) ==
    /\ m \in Descriptions
    /\ \/ m.type = "offer" /\ m.by = "device" /\ m.tracks \in 0..MaxDevice
       \/ m.type = "answer" /\ m.by = "client" /\ m.tracks \in 0..MaxClient

\* What the client sends.
FromClient(m) ==
    /\ m \in Descriptions
    /\ \/ m.type = "offer" /\ m.by = "client" /\ m.tracks \in 0..MaxClient
       \/ m.type = "answer" /\ m.by = "device" /\ m.tracks \in 0..MaxDevice

\* The device between two calls: what its events will want is there.
DeviceOK(d) ==
    /\ d \in Devices
    /\ d.sig # "haveRemoteOffer"
    /\ ~d.needed
    /\ d.local = NoDescription \/ FromDevice(d.local)
    /\ d.gathering # "new" => d.local # NoDescription
    /\ d.sig = "haveLocalOffer" => d.local # NoDescription
    /\ \A i \in 1..Len(d.events) :
        /\ d.events[i] = "gathered" => d.gathering # "new"
        /\ d.events[i] \in StateEvents => d.local # NoDescription

\* A lambda or a message on the event queue finds what it needs.
QueuedOK(l, d) ==
    /\ l.type = "gathered" => d.gathering # "new"
    /\ l.type \in StateEvents => d.local # NoDescription
    /\ l.type \in MessageTypes => FromClient(l)

\* Tracks that are to be added find the device as quiet as it was.
AddTracksOK(q, d) ==
    (\E i \in 1..Len(q) : q[i].type = "addTracks") =>
        /\ q[1].type = "addTracks" /\ d.tracks < MaxDevice
        /\ d.sig = "stable" /\ d.events = <<>> /\ d.gathering # "running"
        /\ \A j \in 1..Len(q) : j # 1 => q[j].type \in MessageTypes

QueueOK(q, d) ==
    /\ q \in Seq(Lambdas \cup Descriptions)
    /\ \A i \in 1..Len(q) : QueuedOK(q[i], d)
    /\ AddTracksOK(q, d)

TypeInv ==
    /\ DeviceOK(dev)
    /\ QueueOK(queue, dev)
    /\ cli \in Clients
    /\ toClient \in Seq(Descriptions)
    /\ \A i \in 1..Len(toClient) : FromDevice(toClient[i])
    /\ toDevice \in Seq(Descriptions)
    /\ \A i \in 1..Len(toDevice) : FromClient(toDevice[i])
-----------------------------------------------------------------------------
\* What the client has sent and the device has not handled: the event queue holds at
\* most the first of it.
NoMessage(q) == \A i \in 1..Len(q) : q[i].type \notin MessageTypes

OnlyMessage(q, i) ==
    /\ q[i].type \in MessageTypes
    /\ \A j \in 1..Len(q) : q[j].type \in MessageTypes => j = i

IsPipe(q, td, p) ==
    \/ p = td /\ NoMessage(q)
    \/ \E i \in 1..Len(q) : OnlyMessage(q, i) /\ p = <<q[i]>> \o td

Pipes == {toDevice} \cup {<<queue[i]>> \o toDevice : i \in 1..Len(queue)}

\* The one state event e waits, at the library or on the event queue, or none does.
NoEventQueued(q) == \A i \in 1..Len(q) : q[i].type \notin StateEvents
NoEventAhead(evs) == \A i \in 1..Len(evs) : evs[i] \notin StateEvents

EventQueued(q, e) ==
    \E i \in 1..Len(q) :
        q[i].type = e /\ \A j \in 1..Len(q) : q[j].type \in StateEvents => j = i
EventAhead(evs, e) ==
    \E i \in 1..Len(evs) :
        evs[i] = e /\ \A j \in 1..Len(evs) : evs[j] \in StateEvents => j = i

Waits(q, evs, e) ==
    \/ e = "none" /\ NoEventQueued(q) /\ NoEventAhead(evs)
    \/ e \in StateEvents /\ EventQueued(q, e) /\ NoEventAhead(evs)
    \/ e \in StateEvents /\ NoEventQueued(q) /\ EventAhead(evs, e)

\* The device's offer: none, waits for its state event, on its way to the client, or
\* answered, with the answer on its way back.
DevicePhases == {"stable", "unsent", "sent", "answered"}

\* The client's: none, on its way to the device, accepted and waiting for the state
\* event that sends the answer, answered, or ignored, with the device's offer on its way.
ClientPhases == {"stable", "offered", "accepted", "replied", "ignored"}

Awaited(dp, cp) ==
    IF dp = "unsent" THEN "haveLocalOffer"
    ELSE IF cp = "accepted" THEN "haveRemoteOffer"
    ELSE "none"

PhasesFit(d, c, dp, cp) ==
    /\ dp = "stable" <=> d.sig = "stable"
    /\ cp = "stable" <=> c.sig = "stable"
    /\ dp # "stable" => d.local.type = "offer"
    /\ cp = "ignored" => dp \in {"unsent", "sent"}
    /\ cp = "replied" => dp # "answered"
    /\ IF cp = "accepted"
       THEN /\ dp = "stable"
            /\ d.local.type = "answer" /\ d.local.id = c.offers
            /\ d.accepted = d.answered \cup {c.offers}
       ELSE d.accepted = d.answered

\* What is on its way to the client.
ToClientFits(d, c, tc, dp, cp) ==
    /\ Len(tc) = (IF cp = "replied" THEN 1 ELSE 0) + (IF dp = "sent" THEN 1 ELSE 0)
    /\ cp = "replied" => tc[1].type = "answer" /\ tc[1].id = c.offers
    /\ dp = "sent" => tc[Len(tc)] = d.local

\* And to the device: behind the answer only an offer made after it, before it only one
\* that the device's has displaced.
Behind(cp) == IF cp = "offered" THEN 1 ELSE 0

PipeFits(d, c, p, dp, cp) ==
    /\ IF dp = "answered"
       THEN \E k \in {1, 2} :
                /\ Len(p) = k + Behind(cp)
                /\ p[k] = AnswerTo(d.local)
                /\ k = 2 => p[1].type = "offer"
       ELSE Len(p) = Behind(cp)
    /\ cp = "offered" => p[Len(p)].type = "offer" /\ p[Len(p)].id = c.offers

Trickles(dp, cp, p) ==
    /\ dev.canTrickle
    /\ IsPipe(queue, toDevice, p)
    /\ Waits(queue, dev.events, Awaited(dp, cp))
    /\ PhasesFit(dev, cli, dp, cp)
    /\ ToClientFits(dev, cli, toClient, dp, cp)
    /\ PipeFits(dev, cli, p, dp, cp)

IInv ==
    /\ TypeInv
    /\ cli.noTrickle \/ \E dp \in DevicePhases, cp \in ClientPhases, p \in Pipes :
                            Trickles(dp, cp, p)

SafeSpec == Init /\ [][Next]_vars
-----------------------------------------------------------------------------
\* Sequences.

LEMMA AppendFacts ==
    ASSUME NEW S, NEW q \in Seq(S), NEW x \in S
    PROVE  /\ Append(q, x) \in Seq(S) /\ Len(Append(q, x)) = Len(q) + 1
           /\ Append(q, x)[Len(q) + 1] = x
           /\ \A i \in 1..Len(q) : i \in 1..Len(Append(q, x)) /\ Append(q, x)[i] = q[i]
           /\ \A i \in 1..Len(Append(q, x)) : i \in 1..Len(q) \/ i = Len(q) + 1
           /\ Len(q) + 1 \in 1..Len(Append(q, x)) /\ Len(q) \in Nat
OBVIOUS

LEMMA TailFacts ==
    ASSUME NEW S, NEW q \in Seq(S), q # <<>>
    PROVE  /\ Tail(q) \in Seq(S) /\ Len(Tail(q)) = Len(q) - 1 /\ Len(q) \in Nat \ {0}
           /\ 1 \in 1..Len(q) /\ Head(q) = q[1] /\ Head(q) \in S
           /\ \A i \in 1..Len(Tail(q)) :
                i + 1 \in 1..Len(q) /\ Tail(q)[i] = q[i + 1] /\ i + 1 # 1
           /\ \A j \in 1..Len(q) : j # 1 => j - 1 \in 1..Len(Tail(q)) /\ Tail(q)[j - 1] = q[j]
<1>1. Len(q) \in Nat \ {0} /\ Tail(q) \in Seq(S) /\ Len(Tail(q)) = Len(q) - 1
  OBVIOUS
<1>2. 1 \in 1..Len(q) /\ Head(q) = q[1] /\ q[1] \in S
  OBVIOUS
<1>3. \A i \in 1..Len(Tail(q)) : Tail(q)[i] = q[i + 1]
  BY <1>1
<1> QED
  BY <1>1, <1>2, <1>3

LEMMA ConsFacts ==
    ASSUME NEW S, NEW q \in Seq(S), NEW x \in S
    PROVE  /\ <<x>> \o q \in Seq(S) /\ Len(<<x>> \o q) = Len(q) + 1
           /\ (<<x>> \o q)[1] = x
           /\ \A i \in 1..Len(q) : (<<x>> \o q)[i + 1] = q[i]
OBVIOUS

LEMMA ConsAppend ==
    ASSUME NEW S, NEW q \in Seq(S), NEW x \in S, NEW y \in S
    PROVE  <<x>> \o Append(q, y) = Append(<<x>> \o q, y)
<1>1. Append(q, y) \in Seq(S) /\ <<x>> \o q \in Seq(S) /\ Len(q) \in Nat
  BY AppendFacts, ConsFacts
<1>2. /\ Len(<<x>> \o Append(q, y)) = Len(q) + 2
      /\ Len(Append(<<x>> \o q, y)) = Len(q) + 2
  OBVIOUS
<1>3. ASSUME NEW i \in 1..Len(q) + 2
      PROVE  (<<x>> \o Append(q, y))[i] = Append(<<x>> \o q, y)[i]
  OBVIOUS
<1> QED
  BY <1>1, <1>2, <1>3

LEMMA ConsHeadTail ==
    ASSUME NEW S, NEW q \in Seq(S), q # <<>>
    PROVE  <<Head(q)>> \o Tail(q) = q
OBVIOUS
-----------------------------------------------------------------------------
\* The state event that waits, as the queues change.

\* Something that is no state event is queued.
LEMMA WaitsWhenQueued ==
    ASSUME NEW S, NEW q \in Seq(S), NEW x \in S, x.type \notin StateEvents,
           NEW evs, NEW e, Waits(q, evs, e)
    PROVE  Waits(Append(q, x), evs, e)
<1>1. NoEventQueued(q) => NoEventQueued(Append(q, x))
  BY AppendFacts DEF NoEventQueued
<1>2. EventQueued(q, e) => EventQueued(Append(q, x), e)
  BY AppendFacts DEF EventQueued
<1> QED
  BY <1>1, <1>2 DEF Waits

\* Something that is no state event is taken.
LEMMA WaitsWhenTaken ==
    ASSUME NEW S, NEW q \in Seq(S), q # <<>>, Head(q).type \notin StateEvents,
           NEW evs, NEW e, Waits(q, evs, e)
    PROVE  Waits(Tail(q), evs, e)
<1>1. NoEventQueued(q) => NoEventQueued(Tail(q))
  BY TailFacts DEF NoEventQueued
<1>2. ASSUME EventQueued(q, e), e \in StateEvents PROVE EventQueued(Tail(q), e)
  <2>1. PICK i \in 1..Len(q) :
            q[i].type = e /\ \A j \in 1..Len(q) : q[j].type \in StateEvents => j = i
    BY <1>2 DEF EventQueued
  <2>2. i # 1
    BY <2>1, <1>2, TailFacts
  <2>3. i - 1 \in 1..Len(Tail(q)) /\ Tail(q)[i - 1] = q[i]
    BY <2>2, TailFacts
  <2>4. \A j \in 1..Len(Tail(q)) : Tail(q)[j].type \in StateEvents => j = i - 1
    BY <2>1, TailFacts
  <2> QED
    BY <2>1, <2>3, <2>4 DEF EventQueued
<1> QED
  BY <1>1, <1>2 DEF Waits

\* A state event is taken: it was the one.
LEMMA EventTaken ==
    ASSUME NEW S, NEW q \in Seq(S), q # <<>>, Head(q).type \in StateEvents,
           NEW evs, NEW e, Waits(q, evs, e)
    PROVE  e = Head(q).type /\ Waits(Tail(q), evs, "none")
<1>1. ~NoEventQueued(q)
  BY TailFacts DEF NoEventQueued
<1>2. e \in StateEvents /\ EventQueued(q, e) /\ NoEventAhead(evs)
  BY <1>1 DEF Waits
<1>3. PICK i \in 1..Len(q) :
            q[i].type = e /\ \A j \in 1..Len(q) : q[j].type \in StateEvents => j = i
  BY <1>2 DEF EventQueued
<1>4. i = 1 /\ e = Head(q).type
  BY <1>3, TailFacts
<1>5. NoEventQueued(Tail(q))
  BY <1>3, <1>4, TailFacts DEF NoEventQueued
<1> QED
  BY <1>2, <1>4, <1>5 DEF Waits

\* The peer connection has a state event to tell, and none waited.
LEMMA EventArises ==
    ASSUME NEW q, NEW evs \in Seq(PeerEvents), NEW e \in StateEvents, Waits(q, evs, "none")
    PROVE  Waits(q, Append(evs, e), e)
<1>1. NoEventQueued(q) /\ NoEventAhead(evs)
  BY DEF Waits, StateEvents
<1>2. EventAhead(Append(evs, e), e)
  BY <1>1, AppendFacts DEF EventAhead, NoEventAhead, PeerEvents
<1> QED
  BY <1>1, <1>2 DEF Waits

\* Candidates were gathered.
LEMMA WaitsWhenGathered ==
    ASSUME NEW q, NEW evs \in Seq(PeerEvents), NEW e, Waits(q, evs, e)
    PROVE  Waits(q, Append(evs, "gathered"), e)
<1>0. "gathered" \in PeerEvents /\ "gathered" \notin StateEvents
  BY DEF PeerEvents, StateEvents
<1>1. NoEventAhead(evs) => NoEventAhead(Append(evs, "gathered"))
  BY <1>0, AppendFacts DEF NoEventAhead
<1>2. EventAhead(evs, e) => EventAhead(Append(evs, "gathered"), e)
  BY <1>0, AppendFacts DEF EventAhead
<1> QED
  BY <1>1, <1>2 DEF Waits

\* A callback of the peer connection posts its lambda.
LEMMA WaitsWhenPosted ==
    ASSUME NEW S, NEW q \in Seq(S), NEW evs \in Seq(PeerEvents), evs # <<>>,
           Lambda(Head(evs)) \in S, NEW e, Waits(q, evs, e)
    PROVE  Waits(Append(q, Lambda(Head(evs))), Tail(evs), e)
<1> DEFINE x == Lambda(Head(evs))
<1>0. x \in S /\ x.type = Head(evs) /\ Head(evs) = evs[1] /\ 1 \in 1..Len(evs)
  BY TailFacts DEF Lambda
<1> HIDE DEF x
<1>1. CASE e = "none" /\ NoEventQueued(q) /\ NoEventAhead(evs)
  <2>1. NoEventAhead(Tail(evs)) /\ x.type \notin StateEvents
    BY <1>0, <1>1, TailFacts DEF NoEventAhead
  <2>2. NoEventQueued(Append(q, x))
    BY <1>0, <1>1, <2>1, AppendFacts DEF NoEventQueued
  <2> QED
    BY <1>1, <2>1, <2>2 DEF Waits, x
<1>2. CASE e \in StateEvents /\ EventQueued(q, e) /\ NoEventAhead(evs)
  <2>1. NoEventAhead(Tail(evs)) /\ x.type \notin StateEvents
    BY <1>0, <1>2, TailFacts DEF NoEventAhead
  <2>2. EventQueued(Append(q, x), e)
    BY <1>0, <1>2, <2>1, AppendFacts DEF EventQueued
  <2> QED
    BY <1>2, <2>1, <2>2 DEF Waits, x
<1>3. CASE e \in StateEvents /\ NoEventQueued(q) /\ EventAhead(evs, e)
  <2>1. PICK i \in 1..Len(evs) :
            evs[i] = e /\ \A j \in 1..Len(evs) : evs[j] \in StateEvents => j = i
    BY <1>3 DEF EventAhead
  <2>2. CASE i = 1
    <3>1. NoEventAhead(Tail(evs))
      BY <2>1, <2>2, TailFacts DEF NoEventAhead
    <3>2. EventQueued(Append(q, x), e)
      BY <1>0, <1>3, <2>1, <2>2, AppendFacts DEF EventQueued, NoEventQueued
    <3> QED
      BY <1>3, <3>1, <3>2 DEF Waits, x
  <2>3. CASE i # 1
    <3>1. x.type \notin StateEvents
      BY <1>0, <2>1, <2>3
    <3>2. i - 1 \in 1..Len(Tail(evs)) /\ Tail(evs)[i - 1] = evs[i]
      BY <2>3, TailFacts
    <3>3. \A j \in 1..Len(Tail(evs)) : Tail(evs)[j] \in StateEvents => j = i - 1
      BY <2>1, TailFacts
    <3>4. EventAhead(Tail(evs), e)
      BY <2>1, <3>2, <3>3 DEF EventAhead
    <3>5. NoEventQueued(Append(q, x))
      BY <1>0, <1>3, <3>1, AppendFacts DEF NoEventQueued
    <3> QED
      BY <1>3, <3>4, <3>5 DEF Waits, x
  <2> QED
    BY <2>2, <2>3
<1> QED
  BY <1>1, <1>2, <1>3 DEF Waits
-----------------------------------------------------------------------------
\* The pipe, as the queues change.

LEMMA PipeWhenQueued ==
    ASSUME NEW S, NEW q \in Seq(S), NEW x \in S, x.type \notin MessageTypes,
           NEW td, NEW p, IsPipe(q, td, p)
    PROVE  IsPipe(Append(q, x), td, p)
<1>1. CASE p = td /\ NoMessage(q)
  <2>1. NoMessage(Append(q, x))
    BY <1>1, AppendFacts DEF NoMessage
  <2> QED
    BY <1>1, <2>1 DEF IsPipe
<1>2. ASSUME NEW i \in 1..Len(q), OnlyMessage(q, i), p = <<q[i]>> \o td
      PROVE  IsPipe(Append(q, x), td, p)
  <2>1. i \in 1..Len(Append(q, x)) /\ Append(q, x)[i] = q[i]
    BY AppendFacts
  <2>2. OnlyMessage(Append(q, x), i)
    BY <1>2, <2>1, AppendFacts DEF OnlyMessage
  <2> QED
    BY <1>2, <2>1, <2>2 DEF IsPipe
<1> QED
  BY <1>1, <1>2 DEF IsPipe

LEMMA PipeWhenTaken ==
    ASSUME NEW S, NEW q \in Seq(S), q # <<>>, Head(q).type \notin MessageTypes,
           NEW td, NEW p, IsPipe(q, td, p)
    PROVE  IsPipe(Tail(q), td, p)
<1>1. CASE p = td /\ NoMessage(q)
  <2>1. NoMessage(Tail(q))
    BY <1>1, TailFacts DEF NoMessage
  <2> QED
    BY <1>1, <2>1 DEF IsPipe
<1>2. ASSUME NEW i \in 1..Len(q), OnlyMessage(q, i), p = <<q[i]>> \o td
      PROVE  IsPipe(Tail(q), td, p)
  <2>0. i # 1
    BY <1>2, TailFacts DEF OnlyMessage
  <2>1. i - 1 \in 1..Len(Tail(q)) /\ Tail(q)[i - 1] = q[i]
    BY <2>0, TailFacts
  <2>2. OnlyMessage(Tail(q), i - 1)
    BY <1>2, <2>0, <2>1, TailFacts DEF OnlyMessage
  <2> QED
    BY <1>2, <2>1, <2>2 DEF IsPipe
<1> QED
  BY <1>1, <1>2 DEF IsPipe

\* The device handles the first message.
LEMMA PipeWhenHandled ==
    ASSUME NEW S, NEW q \in Seq(S), q # <<>>, Head(q).type \in MessageTypes,
           NEW T, NEW td \in Seq(T), NEW p, IsPipe(q, td, p), Head(q) \in T
    PROVE  /\ IsPipe(Tail(q), td, td)
           /\ p \in Seq(T) /\ Len(p) = Len(td) + 1 /\ p[1] = Head(q)
           /\ \A k \in 1..Len(td) : p[k + 1] = td[k]
<1>1. ~NoMessage(q)
  BY TailFacts DEF NoMessage
<1>2. PICK i \in 1..Len(q) : OnlyMessage(q, i) /\ p = <<q[i]>> \o td
  BY <1>1 DEF IsPipe
<1>3. i = 1 /\ q[i] = Head(q)
  BY <1>2, TailFacts DEF OnlyMessage
<1>4. NoMessage(Tail(q))
  BY <1>2, <1>3, TailFacts DEF OnlyMessage, NoMessage
<1>5. p = <<Head(q)>> \o td
  BY <1>2, <1>3
<1> QED
  BY <1>4, <1>5, ConsFacts DEF IsPipe

\* The stream has read a message.
LEMMA PipeWhenRead ==
    ASSUME NEW S, NEW q \in Seq(S), NoMessage(q), NEW T, NEW td \in Seq(T), td # <<>>,
           Head(td) \in S, Head(td).type \in MessageTypes, NEW p, IsPipe(q, td, p)
    PROVE  IsPipe(Append(q, Head(td)), Tail(td), p)
<1> DEFINE r == Append(q, Head(td))
           i == Len(q) + 1
<1>1. p = td
  BY DEF IsPipe, NoMessage, OnlyMessage
<1>2. i \in 1..Len(r) /\ r[i] = Head(td)
  BY AppendFacts
<1>3. OnlyMessage(r, i)
  BY <1>2, AppendFacts DEF OnlyMessage, NoMessage
<1>4. p = <<r[i]>> \o Tail(td)
  BY <1>1, <1>2, ConsHeadTail
<1> HIDE DEF r, i
<1>5. IsPipe(r, Tail(td), p)
  BY <1>2, <1>3, <1>4 DEF IsPipe
<1> QED
  BY <1>5 DEF r

\* The client sends a message.
LEMMA PipeWhenSent ==
    ASSUME NEW S, NEW q \in Seq(S), NEW T, NEW td \in Seq(T), NEW x \in T,
           \A i \in 1..Len(q) : q[i].type \in MessageTypes => q[i] \in T,
           NEW p, IsPipe(q, td, p)
    PROVE  IsPipe(q, Append(td, x), Append(p, x))
<1>1. CASE p = td /\ NoMessage(q)
  BY <1>1 DEF IsPipe
<1>2. ASSUME NEW i \in 1..Len(q), OnlyMessage(q, i), p = <<q[i]>> \o td
      PROVE  IsPipe(q, Append(td, x), Append(p, x))
  <2>1. q[i] \in T
    BY <1>2 DEF OnlyMessage
  <2>2. Append(p, x) = <<q[i]>> \o Append(td, x)
    BY <1>2, <2>1, ConsAppend
  <2> QED
    BY <1>2, <2>2 DEF IsPipe
<1> QED
  BY <1>1, <1>2 DEF IsPipe

\* Every pipe consists of descriptions, and IInv looks at all of them.
LEMMA PipeIsOne ==
    ASSUME NEW S, NEW q \in Seq(S), NEW T, NEW td \in Seq(T), NEW p, IsPipe(q, td, p),
           \A i \in 1..Len(q) : q[i].type \in MessageTypes => q[i] \in T
    PROVE  /\ p \in Seq(T)
           /\ p \in {td} \cup {<<q[i]>> \o td : i \in 1..Len(q)}
<1>1. ASSUME NEW i \in 1..Len(q), OnlyMessage(q, i), p = <<q[i]>> \o td
      PROVE  p \in Seq(T)
  BY <1>1, ConsFacts DEF OnlyMessage
<1>2. p \in Seq(T)
  BY <1>1 DEF IsPipe
<1>3. p \in {td} \cup {<<q[i]>> \o td : i \in 1..Len(q)}
  BY Zenon DEF IsPipe
<1> QED
  BY <1>2, <1>3
-----------------------------------------------------------------------------
\* The device's calls.

\* Descriptions and lambdas are told apart by their type.
LEMMA QueuedTypes ==
    /\ \A l \in Lambdas \cup Descriptions :
        /\ l.type \in MessageTypes => l \in Descriptions
        /\ l.type \notin MessageTypes => l \in Lambdas
    /\ \A m \in Descriptions : m.type \in MessageTypes /\ m # NoDescription
    /\ \A e \in PeerEvents \cup {"addTracks"} :
        /\ Lambda(e) \in Lambdas /\ Lambda(e).type = e /\ e \notin MessageTypes
        /\ e # "none"
    /\ "addTracks" \notin StateEvents /\ "gathered" \notin StateEvents
    /\ StateEvents \subseteq PeerEvents
BY DEF Lambdas, Descriptions, MessageTypes, Lambda, PeerEvents, StateEvents, NoDescription

\* Tracks that are added to a connection at rest are offered.
LEMMA CreateTracksOffers ==
    ASSUME NEW d, DeviceOK(d), d.sig = "stable", d.tracks < MaxDevice
    PROVE  LET r == createTracks(d)
           IN  /\ DeviceOK(r)
               /\ r.sig = "haveLocalOffer" /\ r.local.type = "offer"
               /\ r.events = Append(d.events, "haveLocalOffer")
               /\ r.accepted = d.accepted /\ r.answered = d.answered
               /\ r.canTrickle = d.canTrickle
               /\ r.gathering # "new" /\ r.local # NoDescription
<1> DEFINE r == createTracks(d)
           o == Offer("device", d.offers + 1, d.tracks + 1)
<1>0. d \in Devices /\ d.sig = "stable" /\ d.tracks \in 0..MaxDevice /\ d.offers \in Nat
      /\ MaxDevice \in Nat /\ MaxClient \in Nat /\ d.events \in Seq(PeerEvents)
  BY BoundsAssumption DEF DeviceOK, Devices
<1>1. o \in Descriptions /\ FromDevice(o) /\ o.type = "offer" /\ o # NoDescription
  BY <1>0 DEF Offer, Descriptions, FromDevice, NoDescription
<1> HIDE DEF o
<1>2. r = [d EXCEPT !.tracks = d.tracks + 1, !.sig = "haveLocalOffer", !.needed = FALSE,
                    !.offers = d.offers + 1, !.local = o,
                    !.events = Append(d.events, "haveLocalOffer"),
                    !.gathering = IF d.gathering = "new" THEN "running" ELSE d.gathering]
  BY <1>0 DEF createTracks, setLocalDescription, Gather, Devices, o
<1> HIDE DEF r
<1>3. Append(d.events, "haveLocalOffer") \in Seq(PeerEvents)
  BY <1>0 DEF PeerEvents, StateEvents
<1>n. d.tracks + 1 \in 0..MaxDevice /\ d.offers + 1 \in Nat
  BY <1>0
<1> DEFINE g == IF d.gathering = "new" THEN "running" ELSE d.gathering
<1>g. g \in {"new", "running", "complete"}
  BY <1>0 DEF Devices
<1>r. r = [d EXCEPT !.tracks = d.tracks + 1, !.sig = "haveLocalOffer", !.needed = FALSE,
                    !.offers = d.offers + 1, !.local = o,
                    !.events = Append(d.events, "haveLocalOffer"), !.gathering = g]
  BY <1>2
<1> HIDE DEF g
<1>4. r \in Devices
  BY <1>0, <1>1, <1>r, <1>3, <1>n, <1>g DEF Devices
<1>5. /\ r.sig = "haveLocalOffer" /\ r.local = o /\ r.needed = FALSE
      /\ r.events = Append(d.events, "haveLocalOffer")
      /\ r.accepted = d.accepted /\ r.answered = d.answered
      /\ r.canTrickle = d.canTrickle /\ r.gathering # "new"
  BY <1>0, <1>2 DEF Devices
<1>6. DeviceOK(r)
  BY <1>1, <1>4, <1>5 DEF DeviceOK
<1> QED
  BY <1>1, <1>5, <1>6 DEF r

\* An offer that comes to a connection at rest is applied and answered.
LEMMA OfferApplied ==
    ASSUME NEW d, DeviceOK(d), d.sig = "stable", NEW m, FromClient(m), m.type = "offer"
    PROVE  LET r == handleSignalingMessage(d, m)
           IN  /\ DeviceOK(r)
               /\ r.sig = "stable" /\ r.local.type = "answer" /\ r.local.id = m.id
               /\ r.events = Append(d.events, "haveRemoteOffer")
               /\ r.accepted = d.accepted \cup {m.id} /\ r.answered = d.answered
               /\ (r.canTrickle <=> d.canTrickle /\ ~cli.noTrickle)
               /\ r.gathering # "new" /\ r.local # NoDescription
               /\ r.tracks = d.tracks
<1> DEFINE r == handleSignalingMessage(d, m)
           a == AnswerTo(m)
<1>0. d \in Devices /\ d.sig = "stable" /\ d.needed = FALSE
      /\ d.events \in Seq(PeerEvents) /\ m \in Descriptions
  BY DEF DeviceOK, Devices, FromClient
<1>1. a \in Descriptions /\ FromDevice(a) /\ a.type = "answer" /\ a.id = m.id
      /\ a # NoDescription
  BY <1>0, BoundsAssumption DEF AnswerTo, Descriptions, FromDevice, FromClient, NoDescription
<1> HIDE DEF a
<1> DEFINE t == d.canTrickle /\ ~cli.noTrickle
<1>t. t \in BOOLEAN
  OBVIOUS
<1> DEFINE c == [d EXCEPT !.canTrickle = t]
           s == [d EXCEPT !.canTrickle = t, !.sig = "haveRemoteOffer", !.remote = m,
                          !.accepted = d.accepted \cup {m.id},
                          !.events = Append(d.events, "haveRemoteOffer")]
<1>c. setRemoteDescription(c, m) = s
  BY <1>0 DEF setRemoteDescription, Devices
<1>s. r = setLocalDescription(s)
  BY <1>0, <1>c DEF handleSignalingMessage, OfferCollision
<1>l. /\ s.sig = "haveRemoteOffer" /\ s.remote = m /\ s.gathering = d.gathering
      /\ [s EXCEPT !.sig = "stable", !.local = a].gathering = d.gathering
  BY <1>0 DEF Devices
<1>o. r = Gather([s EXCEPT !.sig = "stable", !.local = a])
  BY <1>s, <1>l DEF setLocalDescription, a
<1>2. r = [d EXCEPT !.canTrickle = t, !.remote = m, !.accepted = d.accepted \cup {m.id},
                    !.sig = "stable", !.local = a,
                    !.events = Append(d.events, "haveRemoteOffer"),
                    !.gathering = IF d.gathering = "new" THEN "running" ELSE d.gathering]
  <2>1. CASE d.gathering = "new"
    BY <1>0, <1>l, <1>o, <2>1 DEF Gather, Devices
  <2>2. CASE d.gathering # "new"
    <3>1. r = [s EXCEPT !.sig = "stable", !.local = a]
      BY <1>l, <1>o, <2>2 DEF Gather
    <3> QED
      BY <1>0, <3>1, <2>2 DEF Devices
  <2> QED
    BY <2>1, <2>2
<1> HIDE DEF r, t
<1>3. Append(d.events, "haveRemoteOffer") \in Seq(PeerEvents)
  BY <1>0 DEF PeerEvents, StateEvents
<1>4. m.id \in Nat
  BY <1>0 DEF Descriptions
<1>5. r \in Devices
  BY <1>0, <1>1, <1>2, <1>3, <1>4, <1>t DEF Devices
<1>6. /\ r.sig = "stable" /\ r.local = a /\ r.needed = FALSE
      /\ r.events = Append(d.events, "haveRemoteOffer")
      /\ r.accepted = d.accepted \cup {m.id} /\ r.answered = d.answered
      /\ r.canTrickle = t /\ r.gathering # "new" /\ r.tracks = d.tracks
  BY <1>0, <1>2 DEF Devices
<1>7. DeviceOK(r)
  BY <1>1, <1>5, <1>6 DEF DeviceOK
<1> QED
  BY <1>1, <1>6, <1>7 DEF r, t

\* An answer ends the negotiation, and only that.
LEMMA AnswerApplied ==
    ASSUME NEW d, DeviceOK(d), NEW m, FromClient(m), m.type = "answer"
    PROVE  LET r == handleSignalingMessage(d, m)
           IN  /\ DeviceOK(r)
               /\ r.sig = "stable" /\ r.local = d.local /\ r.events = d.events
               /\ r.accepted = d.accepted /\ r.answered = d.answered
               /\ (r.canTrickle <=> d.canTrickle /\ ~cli.noTrickle)
               /\ r.gathering = d.gathering /\ r.tracks = d.tracks
<1> DEFINE r == handleSignalingMessage(d, m)
           t == d.canTrickle /\ ~cli.noTrickle
<1>0. d \in Devices /\ d.sig \in {"stable", "haveLocalOffer"} /\ d.needed = FALSE
  BY DEF DeviceOK, Devices
<1>1. m.tracks \in 0..MaxDevice /\ t \in BOOLEAN
  BY DEF FromClient
<1>2. r = IF d.sig = "haveLocalOffer"
          THEN [d EXCEPT !.canTrickle = t, !.sig = "stable", !.agreed = m.tracks]
          ELSE [d EXCEPT !.canTrickle = t]
  BY <1>0 DEF handleSignalingMessage, OfferCollision, setRemoteDescription, Devices
<1> HIDE DEF r, t
<1>3. r \in Devices
  BY <1>0, <1>1, <1>2 DEF Devices
<1>4. /\ r.sig = "stable" /\ r.local = d.local /\ r.needed = FALSE /\ r.events = d.events
      /\ r.accepted = d.accepted /\ r.answered = d.answered
      /\ r.canTrickle = t /\ r.gathering = d.gathering /\ r.tracks = d.tracks
  BY <1>0, <1>2 DEF Devices
<1>5. DeviceOK(r)
  BY <1>3, <1>4 DEF DeviceOK
<1> QED
  BY <1>4, <1>5 DEF r, t

\* Once a description was sent, only the answered offers may have changed.
LEMMA DescriptionSent ==
    ASSUME NEW d, DeviceOK(d), d.local # NoDescription
    PROVE  /\ sendDescription(d) = Sent(d)
           /\ DeviceOK(Sent(d))
           /\ Sent(d).sig = d.sig /\ Sent(d).local = d.local /\ Sent(d).events = d.events
           /\ Sent(d).accepted = d.accepted /\ Sent(d).canTrickle = d.canTrickle
           /\ Sent(d).gathering = d.gathering /\ Sent(d).tracks = d.tracks
           /\ Sent(d).answered = IF d.local.type = "answer"
                                 THEN d.answered \cup {d.local.id} ELSE d.answered
<1> DEFINE r == Sent(d)
<1>0. d \in Devices /\ d.needed = FALSE /\ d.local.id \in Nat
  BY DEF DeviceOK, Devices, FromDevice, Descriptions
<1>1. r = IF d.local.type = "answer"
          THEN [d EXCEPT !.answered = d.answered \cup {d.local.id}] ELSE d
  BY DEF Sent
<1>2. sendDescription(d) = Sent(d)
  BY <1>0 DEF sendDescription
<1> HIDE DEF r
<1>3. r \in Devices
  BY <1>0, <1>1 DEF Devices
<1>4. /\ r.sig = d.sig /\ r.local = d.local /\ r.events = d.events /\ r.needed = FALSE
      /\ r.accepted = d.accepted /\ r.canTrickle = d.canTrickle
      /\ r.gathering = d.gathering /\ r.tracks = d.tracks
      /\ r.answered = IF d.local.type = "answer"
                      THEN d.answered \cup {d.local.id} ELSE d.answered
  BY <1>0, <1>1 DEF Devices
<1>5. DeviceOK(r)
  BY <1>3, <1>4 DEF DeviceOK
<1> QED
  BY <1>2, <1>4, <1>5 DEF r
-----------------------------------------------------------------------------
\* The event queue as the device changes under it.

\* What waits keeps what it needs; no call of the device takes it away.
LEMMA QueueOKWhenTaken ==
    ASSUME NEW q, NEW d, NEW r, QueueOK(q, d), q # <<>>,
           d.gathering # "new" => r.gathering # "new",
           d.local # NoDescription => r.local # NoDescription,
           Head(q).type # "addTracks" =>
              /\ \A i \in 1..Len(q) : q[i].type # "addTracks"
    PROVE  QueueOK(Tail(q), r) /\ QueuedOK(Head(q), d) /\ Head(q) \in Lambdas \cup Descriptions
<1>1. q \in Seq(Lambdas \cup Descriptions) /\ AddTracksOK(q, d)
  BY DEF QueueOK
<1>2. \A i \in 1..Len(q) : QueuedOK(q[i], d)
  BY DEF QueueOK
<1>3. \A i \in 1..Len(Tail(q)) : QueuedOK(Tail(q)[i], r)
  BY <1>1, <1>2, TailFacts DEF QueuedOK
<1>4. \A i \in 1..Len(Tail(q)) : Tail(q)[i].type # "addTracks"
  <2>1. CASE Head(q).type # "addTracks"
    BY <1>1, <2>1, TailFacts
  <2>2. CASE Head(q).type = "addTracks"
    BY <1>1, <2>2, TailFacts DEF AddTracksOK, MessageTypes
  <2> QED
    BY <2>1, <2>2
<1>5. AddTracksOK(Tail(q), r)
  BY <1>4 DEF AddTracksOK
<1> QED
  BY <1>1, <1>2, <1>3, <1>5, TailFacts DEF QueueOK

\* Tracks that are to be added are at the head of the queue.
LEMMA AddTracksFirst ==
    ASSUME NEW q, NEW d, QueueOK(q, d), q # <<>>
    PROVE  Head(q).type # "addTracks" => \A i \in 1..Len(q) : q[i].type # "addTracks"
BY TailFacts DEF QueueOK, AddTracksOK

\* A lambda or a message is queued.
LEMMA QueueOKWhenQueued ==
    ASSUME NEW q, NEW d, QueueOK(q, d), NEW r, NEW l \in Lambdas \cup Descriptions,
           QueuedOK(l, r), l.type # "addTracks",
           r.gathering = d.gathering, r.local = d.local, r.tracks = d.tracks, r.sig = d.sig,
           \/ r.events = d.events /\ l.type \in MessageTypes
           \/ d.events # <<>>
    PROVE  QueueOK(Append(q, l), r)
<1>1. q \in Seq(Lambdas \cup Descriptions) /\ AddTracksOK(q, d)
  BY DEF QueueOK
<1>2. \A i \in 1..Len(q) : QueuedOK(q[i], r)
  BY DEF QueueOK, QueuedOK
<1>3. \A i \in 1..Len(Append(q, l)) : QueuedOK(Append(q, l)[i], r)
  BY <1>1, <1>2, AppendFacts
<1>4. AddTracksOK(Append(q, l), r)
  <2> SUFFICES ASSUME NEW i \in 1..Len(Append(q, l)), Append(q, l)[i].type = "addTracks"
               PROVE  /\ Append(q, l)[1].type = "addTracks" /\ r.tracks < MaxDevice
                      /\ r.sig = "stable" /\ r.events = <<>> /\ r.gathering # "running"
                      /\ \A j \in 1..Len(Append(q, l)) :
                            j # 1 => Append(q, l)[j].type \in MessageTypes
    BY DEF AddTracksOK
  <2>1. i \in 1..Len(q) /\ q[i].type = "addTracks"
    BY <1>1, AppendFacts
  <2>2. /\ q[1].type = "addTracks" /\ d.tracks < MaxDevice
        /\ d.sig = "stable" /\ d.events = <<>> /\ d.gathering # "running"
        /\ \A j \in 1..Len(q) : j # 1 => q[j].type \in MessageTypes
    BY <1>1, <2>1 DEF AddTracksOK
  <2>3. 1 \in 1..Len(q) /\ l.type \in MessageTypes /\ r.events = <<>>
    BY <1>1, <2>1, <2>2
  <2> QED
    BY <1>1, <2>2, <2>3, AppendFacts
<1> QED
  BY <1>1, <1>3, <1>4, AppendFacts DEF QueueOK
-----------------------------------------------------------------------------
\* TypeInv is kept by every action.

LEMMA TypeInvInit == Init => TypeInv
<1> SUFFICES ASSUME Init PROVE TypeInv
  OBVIOUS
<1>1. DeviceOK(dev)
  BY BoundsAssumption DEF Init, DeviceOK, Devices
<1>2. cli \in Clients
  BY BoundsAssumption DEF Init, Clients
<1> QED
  BY <1>1, <1>2 DEF Init, TypeInv, QueueOK, AddTracksOK

LEMMA HandleMessageTypes == TypeInv /\ HandleMessage => TypeInv'
<1> SUFFICES ASSUME TypeInv, HandleMessage PROVE TypeInv'
  OBVIOUS
<1> DEFINE m == Head(queue)
<1>1. DeviceOK(dev) /\ QueueOK(queue, dev) /\ queue # <<>> /\ queue' = Tail(queue)
      /\ m.type \in MessageTypes /\ dev' = handleSignalingMessage(dev, m)
  BY DEF TypeInv, HandleMessage, Take, MessageTypes
<1>2. FromClient(m)
  BY <1>1, TailFacts DEF QueueOK, QueuedOK
<1>3. dev.sig \in {"stable", "haveLocalOffer"}
  BY <1>1 DEF DeviceOK, Devices
<1> HIDE DEF m
<1>4. /\ DeviceOK(dev')
      /\ dev.gathering # "new" => dev'.gathering # "new"
      /\ dev.local # NoDescription => dev'.local # NoDescription
  <2>1. CASE m.type = "answer"
    BY <1>1, <1>2, <2>1, AnswerApplied
  <2>2. CASE m.type = "offer" /\ dev.sig = "stable"
    BY <1>1, <1>2, <2>2, OfferApplied
  <2>3. CASE m.type = "offer" /\ dev.sig = "haveLocalOffer"
    BY <1>1, <2>3 DEF handleSignalingMessage, OfferCollision
  <2> QED
    BY <1>1, <1>3, <2>1, <2>2, <2>3 DEF MessageTypes
<1>5. QueueOK(queue', dev')
  BY <1>1, <1>4, QueueOKWhenTaken, AddTracksFirst
<1> QED
  BY <1>4, <1>5 DEF TypeInv, HandleMessage

LEMMA AddTracksTypes == TypeInv /\ AddTracks => TypeInv' /\ dev.sig = "stable" /\ dev.tracks < MaxDevice
<1> SUFFICES ASSUME TypeInv, AddTracks
             PROVE  TypeInv' /\ dev.sig = "stable" /\ dev.tracks < MaxDevice
  OBVIOUS
<1>1. DeviceOK(dev) /\ QueueOK(queue, dev) /\ queue # <<>> /\ queue' = Tail(queue)
      /\ Head(queue).type = "addTracks" /\ dev' = createTracks(dev)
  BY DEF TypeInv, AddTracks, Take
<1>2. dev.sig = "stable" /\ dev.tracks < MaxDevice
  BY <1>1, TailFacts DEF QueueOK, AddTracksOK
<1>3. DeviceOK(dev') /\ dev'.gathering # "new" /\ dev'.local # NoDescription
  BY <1>1, <1>2, CreateTracksOffers
<1>4. QueueOK(queue', dev')
  BY <1>1, <1>3, QueueOKWhenTaken, AddTracksFirst
<1> QED
  BY <1>2, <1>3, <1>4 DEF TypeInv, AddTracks

\* What is sent comes from the device.
LEMMA SendTypes ==
    ASSUME TypeInv, Take, Head(queue).type # "addTracks",
           dev.local # NoDescription,
           toClient' = Append(toClient, dev.local), dev' = Sent(dev), UNCHANGED <<cli, toDevice>>
    PROVE  TypeInv'
<1>1. DeviceOK(dev) /\ QueueOK(queue, dev) /\ queue # <<>> /\ queue' = Tail(queue)
  BY DEF TypeInv, Take
<1>2. /\ DeviceOK(dev') /\ dev'.gathering = dev.gathering /\ dev'.local = dev.local
      /\ FromDevice(dev.local) /\ dev.local \in Descriptions
  BY <1>1, DescriptionSent DEF DeviceOK, FromDevice
<1>3. QueueOK(queue', dev')
  BY <1>1, <1>2, QueueOKWhenTaken, AddTracksFirst
<1>4. toClient' \in Seq(Descriptions) /\ \A i \in 1..Len(toClient') : FromDevice(toClient'[i])
  BY <1>2, AppendFacts DEF TypeInv
<1> QED
  BY <1>2, <1>3, <1>4 DEF TypeInv

LEMMA TakeTypes ==
    ASSUME TypeInv, Take, UNCHANGED <<dev, cli, toClient, toDevice>>,
           Head(queue).type # "addTracks"
    PROVE  TypeInv'
<1>1. QueueOK(queue, dev) /\ queue # <<>> /\ queue' = Tail(queue) /\ dev' = dev
  BY DEF TypeInv, Take
<1>3. QueueOK(queue', dev')
  BY <1>1, QueueOKWhenTaken, AddTracksFirst
<1> QED
  BY <1>3 DEF TypeInv

LEMMA HandleStateChangeTypes == TypeInv /\ HandleStateChange => TypeInv'
<1> SUFFICES ASSUME TypeInv, HandleStateChange PROVE TypeInv'
  OBVIOUS
<1>1. Take /\ Head(queue).type # "addTracks" /\ UNCHANGED <<cli, toDevice>>
  BY QueuedTypes DEF HandleStateChange
<1>2. CASE MaySend(dev)
  BY <1>1, <1>2, SendTypes, DescriptionSent DEF HandleStateChange, MaySend, TypeInv
<1>3. CASE ~MaySend(dev)
  BY <1>1, <1>3, TakeTypes DEF HandleStateChange
<1> QED
  BY <1>2, <1>3

LEMMA HandleGatheredTypes == TypeInv /\ HandleGathered => TypeInv'
<1> SUFFICES ASSUME TypeInv, HandleGathered PROVE TypeInv'
  OBVIOUS
<1>1. Take /\ Head(queue).type = "gathered" /\ UNCHANGED <<cli, toDevice>>
  BY DEF HandleGathered
<1>2. dev.local # NoDescription
  <2>1. DeviceOK(dev) /\ QueueOK(queue, dev) /\ queue # <<>>
    BY DEF TypeInv, HandleGathered, Take
  <2>2. QueuedOK(Head(queue), dev)
    BY <2>1, TailFacts DEF QueueOK
  <2> QED
    BY <1>1, <2>1, <2>2 DEF QueuedOK, DeviceOK
<1>3. CASE ~dev.canTrickle
  BY <1>1, <1>2, <1>3, SendTypes DEF HandleGathered
<1>4. CASE dev.canTrickle
  BY <1>1, <1>4, TakeTypes DEF HandleGathered
<1> QED
  BY <1>3, <1>4

LEMMA PeerCallbackTypes == TypeInv /\ PeerCallback => TypeInv'
<1> SUFFICES ASSUME TypeInv, PeerCallback PROVE TypeInv'
  OBVIOUS
<1> DEFINE e == Head(dev.events)
<1>1. DeviceOK(dev) /\ QueueOK(queue, dev) /\ dev \in Devices
      /\ dev.events \in Seq(PeerEvents) /\ dev.events # <<>>
      /\ queue' = Append(queue, Lambda(e)) /\ dev' = [dev EXCEPT !.events = Tail(dev.events)]
  BY DEF TypeInv, PeerCallback, DeviceOK, Devices
<1>2. /\ e \in PeerEvents /\ e = dev.events[1] /\ 1 \in 1..Len(dev.events)
      /\ Tail(dev.events) \in Seq(PeerEvents)
      /\ \A i \in 1..Len(Tail(dev.events)) :
            i + 1 \in 1..Len(dev.events) /\ Tail(dev.events)[i] = dev.events[i + 1]
  BY <1>1, TailFacts
<1> HIDE DEF e
<1>3. /\ dev'.events = Tail(dev.events) /\ dev'.sig = dev.sig /\ dev'.local = dev.local
      /\ dev'.gathering = dev.gathering /\ dev'.tracks = dev.tracks /\ dev'.needed = dev.needed
      /\ dev' \in Devices
  BY <1>1, <1>2 DEF Devices
<1>4. DeviceOK(dev')
  BY <1>1, <1>2, <1>3 DEF DeviceOK
<1>5. Lambda(e) \in Lambdas /\ Lambda(e).type = e /\ e \notin MessageTypes /\ e # "addTracks"
  BY <1>2, QueuedTypes DEF PeerEvents, StateEvents
<1>6. QueuedOK(Lambda(e), dev')
  BY <1>1, <1>2, <1>3, <1>5 DEF QueuedOK, DeviceOK
<1>7. QueueOK(queue', dev')
  BY <1>1, <1>3, <1>5, <1>6, QueueOKWhenQueued
<1> QED
  BY <1>4, <1>7 DEF TypeInv, PeerCallback

LEMMA GatheringCompletesTypes == TypeInv /\ GatheringCompletes => TypeInv'
<1> SUFFICES ASSUME TypeInv, GatheringCompletes PROVE TypeInv'
  OBVIOUS
<1>1. DeviceOK(dev) /\ QueueOK(queue, dev) /\ dev \in Devices /\ dev.gathering = "running"
      /\ dev.events \in Seq(PeerEvents) /\ "gathered" \in PeerEvents
      /\ dev' = [dev EXCEPT !.gathering = "complete",
                            !.events = Append(dev.events, "gathered")]
  BY DEF TypeInv, GatheringCompletes, DeviceOK, Devices, PeerEvents
<1>2. Append(dev.events, "gathered") \in Seq(PeerEvents)
  BY <1>1, AppendFacts
<1>3. /\ dev'.events = Append(dev.events, "gathered") /\ dev'.sig = dev.sig
      /\ dev'.local = dev.local /\ dev'.gathering = "complete" /\ dev'.tracks = dev.tracks
      /\ dev'.needed = dev.needed /\ dev' \in Devices
  BY <1>1, <1>2 DEF Devices
<1>4. \A i \in 1..Len(dev'.events) : dev'.events[i] \in StateEvents => dev.local # NoDescription
  BY <1>1, <1>3, AppendFacts, QueuedTypes DEF DeviceOK
<1>5. DeviceOK(dev')
  BY <1>1, <1>3, <1>4 DEF DeviceOK
<1>6. QueueOK(queue', dev')
  BY <1>1, <1>3 DEF QueueOK, QueuedOK, AddTracksOK, GatheringCompletes
<1> QED
  BY <1>5, <1>6 DEF TypeInv, GatheringCompletes

LEMMA MessageReadTypes == TypeInv /\ MessageRead => TypeInv'
<1> SUFFICES ASSUME TypeInv, MessageRead PROVE TypeInv'
  OBVIOUS
<1> DEFINE m == Head(toDevice)
<1>1. QueueOK(queue, dev) /\ toDevice \in Seq(Descriptions) /\ toDevice # <<>>
      /\ queue' = Append(queue, m) /\ toDevice' = Tail(toDevice) /\ dev' = dev
      /\ \A i \in 1..Len(toDevice) : FromClient(toDevice[i])
  BY DEF TypeInv, MessageRead
<1>2. /\ m \in Descriptions /\ FromClient(m) /\ toDevice' \in Seq(Descriptions)
      /\ \A i \in 1..Len(toDevice') : FromClient(toDevice'[i])
  BY <1>1, TailFacts
<1> HIDE DEF m
<1>3. m.type \in MessageTypes /\ m.type # "addTracks" /\ QueuedOK(m, dev)
  BY <1>2, QueuedTypes DEF QueuedOK, PeerEvents, MessageTypes, StateEvents
<1>4. QueueOK(queue', dev')
  BY <1>1, <1>2, <1>3, QueueOKWhenQueued
<1> QED
  BY <1>2, <1>4 DEF TypeInv, MessageRead

\* Only here it matters when the application adds tracks.
LEMMA ApplicationAddsTracksTypes ==
    ASSUME ~AnyTime, TypeInv, ApplicationAddsTracks
    PROVE  TypeInv'
<1> DEFINE waiting == {i \in 1..Len(queue) : queue[i].type = "addTracks"}
<1>0. Quiet
  BY DEF ApplicationAddsTracks
<1>1. /\ queue' = Append(queue, Lambda("addTracks")) /\ dev' = dev
      /\ dev.tracks + Cardinality(waiting) < MaxDevice
  BY DEF ApplicationAddsTracks
<1>2. waiting = {}
  BY <1>0 DEF Quiet
<1> HIDE DEF waiting
<1>3. dev.tracks < MaxDevice
  <2>1. dev.tracks \in Nat /\ Cardinality(waiting) = 0 /\ MaxDevice \in Nat
    BY <1>2, FS_EmptySet, BoundsAssumption DEF TypeInv, DeviceOK, Devices
  <2> QED
    BY <1>1, <2>1
<1>q. queue' = <<Lambda("addTracks")>>
  BY <1>0, <1>1 DEF Quiet
<1>4. QueuedOK(Lambda("addTracks"), dev)
  BY QueuedTypes DEF QueuedOK
<1>5. QueueOK(queue', dev')
  BY <1>0, <1>1, <1>q, <1>3, <1>4, QueuedTypes DEF QueueOK, AddTracksOK, Quiet
<1> QED
  BY <1>1, <1>5 DEF TypeInv, ApplicationAddsTracks

LEMMA ClientTypes ==
    ASSUME TypeInv, ClientAddsTrack \/ Client
    PROVE  TypeInv' /\ UNCHANGED <<dev, queue>>
<1>0. cli \in Clients /\ toDevice \in Seq(Descriptions) /\ toClient \in Seq(Descriptions)
      /\ UNCHANGED <<dev, queue>> /\ MaxClient \in Nat /\ MaxDevice \in Nat
  BY BoundsAssumption
     DEF TypeInv, ClientAddsTrack, Client, ClientOffers, ClientTakesOffer, ClientTakesAnswer
<1>1. CASE ClientAddsTrack
  <2>1. cli.tracks + 1 \in 0..MaxClient
    BY <1>0, <1>1 DEF ClientAddsTrack, Clients
  <2>2. cli' \in Clients
    BY <1>0, <1>1, <2>1 DEF ClientAddsTrack, Clients
  <2> QED
    BY <1>0, <1>1, <2>2 DEF TypeInv, ClientAddsTrack
<1>2. CASE ClientOffers
  <2> DEFINE o == Offer("client", cli.offers + 1, cli.tracks)
  <2>0. cli.offers + 1 \in Nat /\ cli' = [cli EXCEPT !.needed = FALSE,
                !.sig = "haveLocalOffer", !.offers = cli.offers + 1]
    BY <1>0, <1>2 DEF ClientOffers, Clients
  <2>1. cli' \in Clients /\ toDevice' = Append(toDevice, o)
    BY <1>0, <1>2, <2>0 DEF ClientOffers, Clients
  <2>2. FromClient(o) /\ o \in Descriptions
    BY <1>0 DEF Offer, Descriptions, FromClient, Clients
  <2> HIDE DEF o
  <2>3. toDevice' \in Seq(Descriptions) /\ \A i \in 1..Len(toDevice') : FromClient(toDevice'[i])
    BY <1>0, <2>1, <2>2, AppendFacts DEF TypeInv
  <2> QED
    BY <1>0, <1>2, <2>1, <2>3 DEF TypeInv, ClientOffers
<1>3. CASE ClientTakesOffer
  <2> DEFINE a == AnswerTo(Head(toClient))
  <2>1. cli' \in Clients /\ toDevice' = Append(toDevice, a) /\ toClient' = Tail(toClient)
        /\ toClient # <<>> /\ Head(toClient).type = "offer"
    BY <1>0, <1>3 DEF ClientTakesOffer, Clients
  <2>2. FromDevice(Head(toClient)) /\ toClient' \in Seq(Descriptions)
        /\ \A i \in 1..Len(toClient') : FromDevice(toClient'[i])
    BY <1>0, <2>1, TailFacts DEF TypeInv
  <2>3. FromClient(a) /\ a \in Descriptions
    BY <2>1, <2>2 DEF AnswerTo, Descriptions, FromDevice, FromClient
  <2> HIDE DEF a
  <2>4. toDevice' \in Seq(Descriptions) /\ \A i \in 1..Len(toDevice') : FromClient(toDevice'[i])
    BY <1>0, <2>1, <2>3, AppendFacts DEF TypeInv
  <2> QED
    BY <1>0, <1>3, <2>1, <2>2, <2>4 DEF TypeInv, ClientTakesOffer
<1>4. CASE ClientTakesAnswer
  <2>1. /\ toClient' = Tail(toClient) /\ toClient # <<>> /\ Head(toClient).type = "answer"
        /\ cli' = IF cli.sig = "haveLocalOffer"
                  THEN [cli EXCEPT !.sig = "stable", !.agreed = Head(toClient).tracks]
                  ELSE cli
    BY <1>4 DEF ClientTakesAnswer
  <2>2. FromDevice(Head(toClient)) /\ toClient' \in Seq(Descriptions)
        /\ \A i \in 1..Len(toClient') : FromDevice(toClient'[i])
    BY <1>0, <2>1, TailFacts DEF TypeInv
  <2>3. Head(toClient).tracks \in 0..MaxClient
    BY <2>1, <2>2 DEF FromDevice
  <2>4. cli' \in Clients
    BY <1>0, <2>1, <2>3 DEF Clients
  <2> QED
    BY <1>0, <1>4, <2>2, <2>4 DEF TypeInv, ClientTakesAnswer
<1> QED
  BY <1>0, <1>1, <1>2, <1>3, <1>4 DEF Client

LEMMA TypeInvNext ==
    ASSUME ~AnyTime, TypeInv, [Next]_vars
    PROVE  TypeInv'
<1>1. CASE Next
  BY <1>1, HandleMessageTypes, AddTracksTypes, HandleStateChangeTypes, HandleGatheredTypes,
     PeerCallbackTypes, GatheringCompletesTypes, MessageReadTypes, ApplicationAddsTracksTypes,
     ClientTypes DEF Next, EventLoop
<1>2. CASE UNCHANGED vars
  BY <1>2 DEF vars, TypeInv
<1> QED
  BY <1>1, <1>2
-----------------------------------------------------------------------------
\* With trickle ICE the offers are in their phases.

Trickling ==
    \E dp \in DevicePhases, cp \in ClientPhases, p \in Seq(Descriptions) : Trickles(dp, cp, p)

LEMMA QueuedMessages ==
    ASSUME TypeInv
    PROVE  /\ queue \in Seq(Lambdas \cup Descriptions) /\ dev \in Devices /\ cli \in Clients
           /\ toClient \in Seq(Descriptions) /\ toDevice \in Seq(Descriptions)
           /\ dev.sig \in {"stable", "haveLocalOffer"}
           /\ \A i \in 1..Len(queue) : queue[i].type \in MessageTypes => queue[i] \in Descriptions
           /\ \A i \in 1..Len(queue) : queue[i].type \in MessageTypes => FromClient(queue[i])
BY DEF TypeInv, DeviceOK, Devices, QueueOK, QueuedOK, FromClient

LEMMA TricklingAsPipes ==
    ASSUME TypeInv
    PROVE  Trickling <=> \E dp \in DevicePhases, cp \in ClientPhases, p \in Pipes :
                            Trickles(dp, cp, p)
<1>1. ASSUME NEW dp, NEW cp, NEW p, Trickles(dp, cp, p)
      PROVE  p \in Pipes /\ p \in Seq(Descriptions)
  <2>1. IsPipe(queue, toDevice, p)
    BY <1>1 DEF Trickles
  <2> QED
    BY <2>1, PipeIsOne, QueuedMessages DEF Pipes
<1> QED
  BY <1>1, Zenon DEF Trickling

\* What the next state has to show.
LEMMA TricklesOn ==
    ASSUME NEW dp \in DevicePhases, NEW cp \in ClientPhases, NEW p \in Seq(Descriptions),
           dev'.canTrickle, IsPipe(queue', toDevice', p),
           Waits(queue', dev'.events, Awaited(dp, cp)),
           PhasesFit(dev', cli', dp, cp),
           ToClientFits(dev', cli', toClient', dp, cp),
           PipeFits(dev', cli', p, dp, cp)
    PROVE  Trickling'
<1>1. Trickles(dp, cp, p)'
  BY DEF Trickles
<1> QED
  BY <1>1, Zenon DEF Trickling

LEMMA TricklesInit == Init => Trickling
<1> SUFFICES ASSUME Init PROVE Trickling
  OBVIOUS
<1>1. /\ queue = <<>> /\ toClient = <<>> /\ toDevice = <<>> /\ dev.events = <<>>
      /\ dev.sig = "stable" /\ cli.sig = "stable" /\ dev.canTrickle
      /\ dev.accepted = dev.answered
  BY DEF Init
<1>2. IsPipe(queue, toDevice, <<>>)
  BY <1>1 DEF IsPipe, NoMessage
<1>3. Waits(queue, dev.events, Awaited("stable", "stable"))
  BY <1>1 DEF Waits, Awaited, NoEventQueued, NoEventAhead
<1>4. PhasesFit(dev, cli, "stable", "stable") /\ ToClientFits(dev, cli, toClient, "stable", "stable")
  BY <1>1 DEF PhasesFit, ToClientFits
<1>5. PipeFits(dev, cli, <<>>, "stable", "stable")
  BY <1>1 DEF PipeFits, Behind
<1>6. Trickles("stable", "stable", <<>>)
  BY <1>1, <1>2, <1>3, <1>4, <1>5 DEF Trickles
<1>7. <<>> \in Seq(Descriptions) /\ "stable" \in DevicePhases /\ "stable" \in ClientPhases
  BY DEF DevicePhases, ClientPhases
<1> QED
  BY <1>6, <1>7 DEF Trickling
-----------------------------------------------------------------------------
\* The device handles an offer: it answers it, lets it collide with its own, or finds it
\* stale.  Or it handles the answer to its own offer, and to no other.
LEMMA HandleMessageTrickles ==
    ASSUME TypeInv, TypeInv', ~cli.noTrickle, HandleMessage,
           NEW dp \in DevicePhases, NEW cp \in ClientPhases, NEW p \in Seq(Descriptions),
           Trickles(dp, cp, p)
    PROVE  /\ Trickling'
           /\ dev.sig = "haveLocalOffer" /\ dev'.sig = "stable"
                => Head(queue) = AnswerTo(dev.local)
<1> DEFINE m == Head(queue)
<1>1. /\ queue \in Seq(Lambdas \cup Descriptions) /\ queue # <<>> /\ queue' = Tail(queue)
      /\ m.type \in MessageTypes /\ dev' = handleSignalingMessage(dev, m)
      /\ UNCHANGED <<cli, toClient, toDevice>> /\ DeviceOK(dev)
      /\ toDevice \in Seq(Descriptions) /\ dev.sig \in {"stable", "haveLocalOffer"}
      /\ dev \in Devices
  BY QueuedMessages DEF HandleMessage, Take, MessageTypes, TypeInv
<1>2. m \in Descriptions /\ FromClient(m)
  BY <1>1, QueuedMessages, TailFacts
<1>3. /\ dev.canTrickle /\ IsPipe(queue, toDevice, p)
      /\ Waits(queue, dev.events, Awaited(dp, cp)) /\ PhasesFit(dev, cli, dp, cp)
      /\ ToClientFits(dev, cli, toClient, dp, cp) /\ PipeFits(dev, cli, p, dp, cp)
  BY DEF Trickles
<1>4. /\ IsPipe(queue', toDevice', toDevice) /\ Len(p) = Len(toDevice) + 1 /\ p[1] = m
      /\ \A k \in 1..Len(toDevice) : p[k + 1] = toDevice[k]
  BY <1>1, <1>2, <1>3, PipeWhenHandled
<1>t. Len(toDevice) # 0 => p[Len(p)] = toDevice[Len(toDevice)]
  <2>1. Len(toDevice) \in Nat
    BY <1>1
  <2> QED
    BY <1>4, <2>1
<1>5. m.type \notin StateEvents
  BY <1>2, QueuedTypes DEF MessageTypes, StateEvents
<1>6. Waits(queue', dev.events, Awaited(dp, cp))
  BY <1>1, <1>3, <1>5, WaitsWhenTaken
<1>7. /\ Len(toDevice) \in Nat
      /\ dp = "stable" \/ AnswerTo(dev.local).type = "answer"
  BY <1>1, <1>3 DEF AnswerTo, DeviceOK, FromDevice, Descriptions, PhasesFit
<1> HIDE DEF m
<1>8. CASE dp = "stable"
  <2>1. cp = "offered" /\ m.type = "offer" /\ m.id = cli.offers /\ Len(toDevice) = 0
        /\ dev.sig = "stable"
    BY <1>1, <1>3, <1>4, <1>8 DEF PipeFits, Behind, PhasesFit
  <2> DEFINE r == dev'
  <2>2. /\ r.sig = "stable" /\ r.local.type = "answer" /\ r.local.id = m.id
        /\ r.events = Append(dev.events, "haveRemoteOffer")
        /\ r.accepted = dev.accepted \cup {m.id} /\ r.answered = dev.answered
        /\ r.canTrickle
    BY <1>1, <1>2, <1>3, <2>1, OfferApplied
  <2>3. Waits(queue', r.events, "haveRemoteOffer")
    BY <1>1, <1>6, <1>8, <2>1, <2>2, EventArises DEF Awaited, Devices, StateEvents
  <2>4. PhasesFit(r, cli', "stable", "accepted")
    BY <1>1, <1>3, <1>8, <2>1, <2>2 DEF PhasesFit
  <2>5. ToClientFits(r, cli', toClient', "stable", "accepted")
    BY <1>1, <1>3, <1>8, <2>1 DEF ToClientFits
  <2>6. PipeFits(r, cli', toDevice, "stable", "accepted")
    BY <2>1 DEF PipeFits, Behind
  <2>7. "stable" \in DevicePhases /\ "accepted" \in ClientPhases
        /\ Awaited("stable", "accepted") = "haveRemoteOffer"
    BY DEF DevicePhases, ClientPhases, Awaited
  <2> QED
    BY <1>1, <1>4, <2>1, <2>2, <2>3, <2>4, <2>5, <2>6, <2>7, TricklesOn
<1>9. CASE dp \in {"unsent", "sent"}
  <2>1. cp = "offered" /\ m.type = "offer" /\ Len(toDevice) = 0 /\ dev.sig # "stable"
    BY <1>1, <1>3, <1>4, <1>9 DEF PipeFits, Behind, PhasesFit
  <2>2. dev' = dev
    BY <1>1, <2>1 DEF handleSignalingMessage, OfferCollision
  <2>3. PhasesFit(dev', cli', dp, "ignored")
    BY <1>1, <1>3, <1>9, <2>1, <2>2 DEF PhasesFit
  <2>4. ToClientFits(dev', cli', toClient', dp, "ignored")
    BY <1>1, <1>3, <2>1, <2>2 DEF ToClientFits
  <2>5. PipeFits(dev', cli', toDevice, dp, "ignored")
    BY <1>9, <2>1 DEF PipeFits, Behind
  <2>6. Awaited(dp, "ignored") = Awaited(dp, cp) /\ "ignored" \in ClientPhases
    BY <1>9, <2>1 DEF Awaited, ClientPhases
  <2> QED
    BY <1>1, <1>3, <1>4, <1>6, <2>1, <2>2, <2>3, <2>4, <2>5, <2>6, TricklesOn
<1>10. CASE dp = "answered"
  <2>1. PICK k \in {1, 2} :
            /\ Len(p) = k + Behind(cp)
            /\ p[k] = AnswerTo(dev.local)
            /\ k = 2 => p[1].type = "offer"
    BY <1>3, <1>10 DEF PipeFits
  <2>2. cp \in {"stable", "offered"} /\ dev.sig = "haveLocalOffer"
    BY <1>1, <1>3, <1>10 DEF PhasesFit, ClientPhases
  <2>3. cp = "offered" => p[Len(p)].type = "offer" /\ p[Len(p)].id = cli.offers
    BY <1>3 DEF PipeFits
  <2>4. CASE k = 2
    <3>1. m.type = "offer" /\ dev' = dev
      BY <1>1, <1>4, <2>1, <2>2, <2>4 DEF handleSignalingMessage, OfferCollision
    <3>2. /\ Len(toDevice) = 1 + Behind(cp)
          /\ toDevice[1] = AnswerTo(dev.local)
          /\ cp = "offered" => toDevice[Len(toDevice)] = p[Len(p)]
      <4>1. Behind(cp) \in {0, 1} /\ (cp = "offered" <=> Behind(cp) = 1)
        BY DEF Behind
      <4>2. Len(toDevice) = 1 + Behind(cp) /\ 1 \in 1..Len(toDevice)
        BY <1>4, <1>7, <2>1, <2>4, <4>1
      <4>3. p[1 + 1] = toDevice[1]
        BY <1>4, <4>2
      <4> QED
        BY <1>t, <2>1, <2>4, <4>1, <4>2, <4>3
    <3>3. PipeFits(dev', cli', toDevice, dp, cp)
      BY <1>1, <1>10, <2>3, <3>1, <3>2 DEF PipeFits
    <3> QED
      BY <1>1, <1>3, <1>4, <1>6, <2>2, <3>1, <3>3, TricklesOn
  <2>5. CASE k = 1
    <3>1. m = AnswerTo(dev.local) /\ m.type = "answer"
      BY <1>4, <1>7, <1>10, <2>1, <2>5
    <3>2. /\ dev'.sig = "stable" /\ dev'.local = dev.local /\ dev'.events = dev.events
          /\ dev'.accepted = dev.accepted /\ dev'.answered = dev.answered /\ dev'.canTrickle
      BY <1>1, <1>2, <1>3, <3>1, AnswerApplied
    <3>3. /\ Len(toDevice) = Behind(cp)
          /\ cp = "offered" => toDevice[Len(toDevice)] = p[Len(p)]
      <4>1. Behind(cp) \in {0, 1} /\ (cp = "offered" <=> Behind(cp) = 1)
        BY DEF Behind
      <4>2. Len(toDevice) = Behind(cp)
        BY <1>4, <1>7, <2>1, <2>5, <4>1
      <4> QED
        BY <1>t, <4>1, <4>2
    <3>4. PipeFits(dev', cli', toDevice, "stable", cp)
      BY <1>1, <2>3, <3>3 DEF PipeFits
    <3>5. PhasesFit(dev', cli', "stable", cp)
      BY <1>1, <1>3, <1>10, <2>2, <3>2 DEF PhasesFit
    <3>6. ToClientFits(dev', cli', toClient', "stable", cp)
      BY <1>1, <1>3, <1>10, <2>2 DEF ToClientFits
    <3>7. Awaited("stable", cp) = Awaited(dp, cp) /\ "stable" \in DevicePhases
      BY <1>10, <2>2 DEF Awaited, DevicePhases
    <3> QED
      BY <1>1, <1>4, <1>6, <3>1, <3>2, <3>4, <3>5, <3>6, <3>7, TricklesOn DEF m
  <2> QED
    BY <2>1, <2>4, <2>5
<1> QED
  BY <1>8, <1>9, <1>10 DEF DevicePhases

\* New tracks are offered.
LEMMA AddTracksTrickles ==
    ASSUME TypeInv, TypeInv', AddTracks,
           NEW dp \in DevicePhases, NEW cp \in ClientPhases, NEW p \in Seq(Descriptions),
           Trickles(dp, cp, p)
    PROVE  Trickling'
<1>1. /\ queue \in Seq(Lambdas \cup Descriptions) /\ queue # <<>> /\ queue' = Tail(queue)
      /\ Head(queue).type = "addTracks" /\ dev' = createTracks(dev)
      /\ UNCHANGED <<cli, toClient, toDevice>> /\ DeviceOK(dev) /\ QueueOK(queue, dev)
      /\ dev.sig = "stable" /\ dev.tracks < MaxDevice /\ dev.events \in Seq(PeerEvents)
  BY QueuedMessages, AddTracksTypes DEF AddTracks, Take, TypeInv, Devices
<1>2. /\ dev.canTrickle /\ IsPipe(queue, toDevice, p)
      /\ Waits(queue, dev.events, Awaited(dp, cp)) /\ PhasesFit(dev, cli, dp, cp)
      /\ ToClientFits(dev, cli, toClient, dp, cp) /\ PipeFits(dev, cli, p, dp, cp)
  BY DEF Trickles
<1>3. /\ Head(queue).type \notin StateEvents /\ Head(queue).type \notin MessageTypes
  BY <1>1, QueuedTypes
<1>4. IsPipe(queue', toDevice', p)
  BY <1>1, <1>2, <1>3, PipeWhenTaken
<1>5. /\ dev'.sig = "haveLocalOffer" /\ dev'.local.type = "offer"
      /\ dev'.events = Append(dev.events, "haveLocalOffer")
      /\ dev'.accepted = dev.accepted /\ dev'.answered = dev.answered
      /\ dev'.canTrickle = dev.canTrickle
  BY <1>1, CreateTracksOffers
<1>6. dp = "stable" /\ dev.events = <<>>
      /\ \A i \in 1..Len(queue) : queue[i].type \notin StateEvents
  <2>1. dp = "stable"
    BY <1>1, <1>2 DEF PhasesFit
  <2>2. /\ dev.events = <<>>
        /\ \A i \in 1..Len(queue) : i # 1 => queue[i].type \in MessageTypes
    BY <1>1, TailFacts DEF QueueOK, AddTracksOK
  <2>3. MessageTypes \cap StateEvents = {}
    BY DEF MessageTypes, StateEvents
  <2> QED
    BY <1>1, <1>3, <2>1, <2>2, <2>3, TailFacts
<1>7. cp # "accepted"
  <2>1. ~EventAhead(dev.events, "haveRemoteOffer")
    BY <1>6 DEF EventAhead
  <2>2. ~EventQueued(queue, "haveRemoteOffer")
    BY <1>6 DEF EventQueued, StateEvents
  <2> QED
    BY <1>2, <1>6, <2>1, <2>2 DEF Waits, Awaited
<1>8. Waits(queue', dev.events, "none")
  BY <1>1, <1>2, <1>3, <1>6, <1>7, WaitsWhenTaken DEF Awaited
<1>9. Waits(queue', dev'.events, "haveLocalOffer")
  BY <1>1, <1>5, <1>8, EventArises DEF StateEvents
<1>10. PhasesFit(dev', cli', "unsent", cp)
  BY <1>1, <1>2, <1>5, <1>6, <1>7 DEF PhasesFit
<1>11. ToClientFits(dev', cli', toClient', "unsent", cp)
  BY <1>1, <1>2, <1>6 DEF ToClientFits
<1>12. PipeFits(dev', cli', p, "unsent", cp)
  BY <1>1, <1>2, <1>6 DEF PipeFits
<1>13. Awaited("unsent", cp) = "haveLocalOffer" /\ "unsent" \in DevicePhases
  BY DEF Awaited, DevicePhases
<1> QED
  BY <1>2, <1>4, <1>5, <1>9, <1>10, <1>11, <1>12, <1>13, TricklesOn

\* The state event of an offer or an answer sends it: no other was made since.
LEMMA HandleStateChangeTrickles ==
    ASSUME TypeInv, TypeInv', HandleStateChange,
           NEW dp \in DevicePhases, NEW cp \in ClientPhases, NEW p \in Seq(Descriptions),
           Trickles(dp, cp, p)
    PROVE  Trickling' /\ dev'.sig = dev.sig
<1>1. /\ queue \in Seq(Lambdas \cup Descriptions) /\ queue # <<>> /\ queue' = Tail(queue)
      /\ Head(queue).type \in StateEvents
      /\ UNCHANGED <<cli, toDevice>> /\ DeviceOK(dev) /\ QueueOK(queue, dev)
      /\ toClient \in Seq(Descriptions)
  BY QueuedMessages DEF HandleStateChange, Take, TypeInv
<1>2. /\ dev.canTrickle /\ IsPipe(queue, toDevice, p)
      /\ Waits(queue, dev.events, Awaited(dp, cp)) /\ PhasesFit(dev, cli, dp, cp)
      /\ ToClientFits(dev, cli, toClient, dp, cp) /\ PipeFits(dev, cli, p, dp, cp)
  BY DEF Trickles
<1>3. dev.local # NoDescription /\ dev.local \in Descriptions
  BY <1>1, TailFacts DEF QueueOK, QueuedOK, DeviceOK, FromDevice
<1>4. toClient' = Append(toClient, dev.local) /\ dev' = Sent(dev)
  BY <1>1, <1>2, <1>3, DescriptionSent DEF HandleStateChange, MaySend
<1>5. /\ dev'.sig = dev.sig /\ dev'.local = dev.local /\ dev'.events = dev.events
      /\ dev'.accepted = dev.accepted /\ dev'.canTrickle
      /\ dev'.answered = IF dev.local.type = "answer"
                         THEN dev.answered \cup {dev.local.id} ELSE dev.answered
  BY <1>1, <1>2, <1>3, <1>4, DescriptionSent
<1>6. Awaited(dp, cp) = Head(queue).type /\ Waits(queue', dev'.events, "none")
  BY <1>1, <1>2, <1>5, EventTaken
<1>7. IsPipe(queue', toDevice', p)
  <2>1. Head(queue).type \notin MessageTypes
    BY <1>1 DEF StateEvents, MessageTypes
  <2> QED
    BY <1>1, <1>2, <2>1, PipeWhenTaken
<1>8. /\ Len(toClient') = Len(toClient) + 1 /\ toClient'[Len(toClient')] = dev.local
      /\ \A i \in 1..Len(toClient) : toClient'[i] = toClient[i]
      /\ Len(toClient) \in Nat
  BY <1>1, <1>3, <1>4, AppendFacts
<1>9. CASE Head(queue).type = "haveLocalOffer"
  <2>1. dp = "unsent" /\ cp # "accepted" /\ dev.local.type = "offer"
    BY <1>2, <1>6, <1>9 DEF Awaited, PhasesFit
  <2>2. PhasesFit(dev', cli', "sent", cp)
    BY <1>1, <1>2, <1>5, <2>1 DEF PhasesFit
  <2>3. ToClientFits(dev', cli', toClient', "sent", cp)
    BY <1>1, <1>2, <1>5, <1>8, <2>1 DEF ToClientFits
  <2>4. PipeFits(dev', cli', p, "sent", cp)
    BY <1>1, <1>2, <2>1 DEF PipeFits
  <2>5. Awaited("sent", cp) = "none" /\ "sent" \in DevicePhases
    BY <2>1 DEF Awaited, DevicePhases
  <2> QED
    BY <1>5, <1>6, <1>7, <2>2, <2>3, <2>4, <2>5, TricklesOn
<1>10. CASE Head(queue).type = "haveRemoteOffer"
  <2>1. cp = "accepted" /\ dp = "stable"
    BY <1>2, <1>6, <1>10 DEF Awaited, PhasesFit
  <2>2. PhasesFit(dev', cli', "stable", "replied")
    BY <1>1, <1>2, <1>5, <2>1 DEF PhasesFit
  <2>3. ToClientFits(dev', cli', toClient', "stable", "replied")
    BY <1>1, <1>2, <1>5, <1>8, <2>1 DEF ToClientFits, PhasesFit
  <2>4. PipeFits(dev', cli', p, "stable", "replied")
    BY <1>1, <1>2, <2>1 DEF PipeFits, Behind
  <2>5. Awaited("stable", "replied") = "none" /\ "replied" \in ClientPhases
    BY DEF Awaited, ClientPhases
  <2> QED
    BY <1>5, <1>6, <1>7, <2>1, <2>2, <2>3, <2>4, <2>5, TricklesOn
<1> QED
  BY <1>1, <1>5, <1>9, <1>10 DEF StateEvents

\* The other lambdas, the threads and the stream leave every offer in its phase.
LEMMA OthersTrickle ==
    ASSUME TypeInv, TypeInv', ~AnyTime,
           HandleGathered \/ PeerCallback \/ GatheringCompletes \/ MessageRead
             \/ ApplicationAddsTracks,
           NEW dp \in DevicePhases, NEW cp \in ClientPhases, NEW p \in Seq(Descriptions),
           Trickles(dp, cp, p)
    PROVE  Trickling' /\ dev'.sig = dev.sig
<1>1. /\ queue \in Seq(Lambdas \cup Descriptions) /\ dev \in Devices
      /\ toDevice \in Seq(Descriptions) /\ dev.events \in Seq(PeerEvents)
  BY QueuedMessages DEF Devices
<1>2. /\ dev.canTrickle /\ IsPipe(queue, toDevice, p)
      /\ Waits(queue, dev.events, Awaited(dp, cp)) /\ PhasesFit(dev, cli, dp, cp)
      /\ ToClientFits(dev, cli, toClient, dp, cp) /\ PipeFits(dev, cli, p, dp, cp)
  BY DEF Trickles
<1> DEFINE e == Awaited(dp, cp)
<1> HIDE DEF e
<1>3. ASSUME IsPipe(queue', toDevice', p), Waits(queue', dev'.events, e),
             dev'.sig = dev.sig, dev'.local = dev.local, dev'.accepted = dev.accepted,
             dev'.answered = dev.answered, dev'.canTrickle = dev.canTrickle,
             UNCHANGED <<cli, toClient>>
      PROVE  Trickling' /\ dev'.sig = dev.sig
  <2>1. PhasesFit(dev', cli', dp, cp)
    BY <1>2, <1>3 DEF PhasesFit
  <2>2. ToClientFits(dev', cli', toClient', dp, cp)
    BY <1>2, <1>3 DEF ToClientFits
  <2>3. PipeFits(dev', cli', p, dp, cp)
    BY <1>2, <1>3 DEF PipeFits
  <2> QED
    BY <1>2, <1>3, <2>1, <2>2, <2>3, TricklesOn DEF e
<1>4. CASE HandleGathered
  <2>1. queue # <<>> /\ queue' = Tail(queue) /\ Head(queue).type = "gathered"
        /\ UNCHANGED <<dev, toClient, cli, toDevice>>
    BY <1>2, <1>4 DEF HandleGathered, Take
  <2>2. "gathered" \notin StateEvents /\ "gathered" \notin MessageTypes
    BY DEF StateEvents, MessageTypes
  <2>3. IsPipe(queue', toDevice', p)
    BY <1>1, <1>2, <2>1, <2>2, PipeWhenTaken
  <2>4. Waits(queue', dev'.events, e)
    BY <1>1, <1>2, <2>1, <2>2, WaitsWhenTaken DEF e
  <2> QED
    BY <1>3, <2>1, <2>3, <2>4
<1>5. CASE PeerCallback
  <2> DEFINE l == Lambda(Head(dev.events))
  <2>1. dev.events # <<>> /\ queue' = Append(queue, l)
        /\ dev' = [dev EXCEPT !.events = Tail(dev.events)]
        /\ UNCHANGED <<cli, toClient, toDevice>>
    BY <1>5 DEF PeerCallback
  <2>2. Head(dev.events) \in PeerEvents
    BY <1>1, <2>1, TailFacts
  <2>3. l \in Lambdas \cup Descriptions /\ l.type \notin MessageTypes
    BY <2>2, QueuedTypes
  <2>4. Waits(queue', Tail(dev.events), e)
    BY <1>1, <1>2, <2>1, <2>3, WaitsWhenPosted DEF e
  <2> HIDE DEF l
  <2>5. IsPipe(queue', toDevice', p)
    BY <1>1, <1>2, <2>1, <2>3, PipeWhenQueued
  <2>6. /\ dev'.events = Tail(dev.events) /\ dev'.sig = dev.sig /\ dev'.local = dev.local
        /\ dev'.accepted = dev.accepted /\ dev'.answered = dev.answered
        /\ dev'.canTrickle = dev.canTrickle
    BY <1>1, <2>1 DEF Devices
  <2> QED
    BY <1>3, <2>1, <2>4, <2>5, <2>6
<1>6. CASE GatheringCompletes
  <2>1. dev' = [dev EXCEPT !.gathering = "complete", !.events = Append(dev.events, "gathered")]
        /\ UNCHANGED <<queue, cli, toClient, toDevice>>
    BY <1>6 DEF GatheringCompletes
  <2>2. Waits(queue', Append(dev.events, "gathered"), e)
    BY <1>1, <1>2, <2>1, WaitsWhenGathered DEF e
  <2>3. /\ dev'.events = Append(dev.events, "gathered") /\ dev'.sig = dev.sig
        /\ dev'.local = dev.local
        /\ dev'.accepted = dev.accepted /\ dev'.answered = dev.answered
        /\ dev'.canTrickle = dev.canTrickle
    BY <1>1, <2>1 DEF Devices
  <2> QED
    BY <1>2, <1>3, <2>1, <2>2, <2>3
<1>7. CASE MessageRead
  <2> DEFINE m == Head(toDevice)
  <2>1. toDevice # <<>> /\ queue' = Append(queue, m) /\ toDevice' = Tail(toDevice)
        /\ UNCHANGED <<dev, cli, toClient>> /\ NoMessage(queue)
    BY <1>7 DEF MessageRead, NoMessage, MessageTypes
  <2>2. m \in Descriptions
    BY <1>1, <2>1, TailFacts
  <2>3. m.type \in MessageTypes /\ m.type \notin StateEvents
    BY <2>2, QueuedTypes DEF MessageTypes, StateEvents
  <2>4. IsPipe(queue', toDevice', p)
    BY <1>1, <1>2, <2>1, <2>2, <2>3, PipeWhenRead
  <2> HIDE DEF m
  <2>5. Waits(queue', dev'.events, e)
    BY <1>1, <1>2, <2>1, <2>2, <2>3, WaitsWhenQueued DEF e
  <2> QED
    BY <1>3, <2>1, <2>4, <2>5
<1>8. CASE ApplicationAddsTracks
  <2> DEFINE l == Lambda("addTracks")
  <2>1. queue' = Append(queue, l) /\ UNCHANGED <<dev, cli, toClient, toDevice>>
    BY <1>8 DEF ApplicationAddsTracks
  <2>2. l \in Lambdas \cup Descriptions /\ l.type \notin MessageTypes /\ l.type \notin StateEvents
    BY QueuedTypes
  <2> HIDE DEF l
  <2>3. IsPipe(queue', toDevice', p)
    BY <1>1, <1>2, <2>1, <2>2, PipeWhenQueued
  <2>4. Waits(queue', dev'.events, e)
    BY <1>1, <1>2, <2>1, <2>2, WaitsWhenQueued DEF e
  <2> QED
    BY <1>3, <2>1, <2>3, <2>4
<1> QED
  BY <1>4, <1>5, <1>6, <1>7, <1>8
-----------------------------------------------------------------------------
\* The client makes an offer, answers the device's or takes the answer to its own.
LEMMA ClientTrickles ==
    ASSUME TypeInv, TypeInv', ClientAddsTrack \/ Client,
           NEW dp \in DevicePhases, NEW cp \in ClientPhases, NEW p \in Seq(Descriptions),
           Trickles(dp, cp, p)
    PROVE  /\ Trickling' /\ dev'.sig = dev.sig
           /\ cli.sig = "haveLocalOffer" /\ cli'.sig = "stable"
                  /\ Head(toClient).type = "answer"
                => Head(toClient).by = "client" /\ Head(toClient).id = cli.offers
<1>1. /\ queue \in Seq(Lambdas \cup Descriptions) /\ cli \in Clients /\ DeviceOK(dev)
      /\ toClient \in Seq(Descriptions) /\ toDevice \in Seq(Descriptions)
      /\ dev.sig \in {"stable", "haveLocalOffer"} /\ UNCHANGED <<dev, queue>>
      /\ \A i \in 1..Len(queue) : queue[i].type \in MessageTypes => queue[i] \in Descriptions
      /\ \A i \in 1..Len(toClient) : FromDevice(toClient[i])
  BY QueuedMessages, ClientTypes DEF TypeInv
<1>2. /\ dev.canTrickle /\ IsPipe(queue, toDevice, p)
      /\ Waits(queue, dev.events, Awaited(dp, cp)) /\ PhasesFit(dev, cli, dp, cp)
      /\ ToClientFits(dev, cli, toClient, dp, cp) /\ PipeFits(dev, cli, p, dp, cp)
  BY DEF Trickles
<1>3. cp # "accepted" =>
        \A c \in ClientPhases \ {"accepted"} : Waits(queue', dev'.events, Awaited(dp, c))
  BY <1>1, <1>2 DEF Awaited
<1>4. ASSUME NEW x \in Descriptions, toDevice' = Append(toDevice, x)
      PROVE  IsPipe(queue', toDevice', Append(p, x))
  BY <1>1, <1>2, <1>4, PipeWhenSent
<1>5. ASSUME NEW x \in Descriptions
      PROVE  /\ Append(p, x) \in Seq(Descriptions) /\ Len(Append(p, x)) = Len(p) + 1
             /\ Append(p, x)[Len(p) + 1] = x /\ Len(p) \in Nat
             /\ \A i \in 1..Len(p) : Append(p, x)[i] = p[i]
  BY <1>5, AppendFacts
<1>6. CASE ClientAddsTrack
  <2>1. /\ cli'.sig = cli.sig /\ cli'.offers = cli.offers
        /\ UNCHANGED <<toClient, toDevice>>
    BY <1>1, <1>6 DEF ClientAddsTrack, Clients
  <2>2. PhasesFit(dev', cli', dp, cp)
    BY <1>1, <1>2, <2>1 DEF PhasesFit
  <2>3. ToClientFits(dev', cli', toClient', dp, cp)
    BY <1>1, <1>2, <2>1 DEF ToClientFits
  <2>4. PipeFits(dev', cli', p, dp, cp)
    BY <1>1, <1>2, <2>1 DEF PipeFits
  <2> QED
    BY <1>1, <1>2, <2>1, <2>2, <2>3, <2>4, TricklesOn
<1>7. CASE ClientOffers
  <2> DEFINE o == Offer("client", cli.offers + 1, cli.tracks)
             q == Append(p, o)
  <2>1. /\ cli.sig = "stable" /\ cli'.sig = "haveLocalOffer" /\ cli'.offers = cli.offers + 1
        /\ toDevice' = Append(toDevice, o) /\ UNCHANGED toClient
    BY <1>1, <1>7 DEF ClientOffers, Clients
  <2>2. cp = "stable"
    BY <1>2, <2>1 DEF PhasesFit
  <2>3. o \in Descriptions /\ o.type = "offer" /\ o.id = cli'.offers
    BY <1>1, <2>1, BoundsAssumption DEF Offer, Descriptions, Clients
  <2> HIDE DEF o
  <2>4. /\ IsPipe(queue', toDevice', q) /\ q \in Seq(Descriptions) /\ Len(q) = Len(p) + 1
        /\ q[Len(p) + 1] = o /\ Len(p) \in Nat /\ \A i \in 1..Len(p) : q[i] = p[i]
    BY <1>4, <1>5, <2>1, <2>3
  <2> HIDE DEF q
  <2>5. PhasesFit(dev', cli', dp, "offered")
    BY <1>1, <1>2, <2>1, <2>2 DEF PhasesFit
  <2>6. ToClientFits(dev', cli', toClient', dp, "offered")
    BY <1>1, <1>2, <2>1, <2>2 DEF ToClientFits
  <2>7. PipeFits(dev', cli', q, dp, "offered")
    <3>1. q[Len(q)].type = "offer" /\ q[Len(q)].id = cli'.offers
      BY <2>3, <2>4
    <3>2. CASE dp # "answered"
      BY <1>2, <2>2, <2>4, <3>1, <3>2 DEF PipeFits, Behind
    <3>3. CASE dp = "answered"
      <4>1. PICK k \in {1, 2} : /\ Len(p) = k /\ p[k] = AnswerTo(dev.local)
                                /\ k = 2 => p[1].type = "offer"
        BY <1>2, <2>2, <3>3 DEF PipeFits, Behind
      <4>2. q[k] = AnswerTo(dev.local) /\ (k = 2 => q[1].type = "offer")
        BY <2>4, <4>1
      <4> QED
        BY <1>1, <2>4, <3>1, <3>3, <4>1, <4>2 DEF PipeFits, Behind
    <3> QED
      BY <3>2, <3>3
  <2>8. Waits(queue', dev'.events, Awaited(dp, "offered")) /\ "offered" \in ClientPhases
    BY <1>3, <2>2 DEF ClientPhases
  <2> QED
    BY <1>1, <1>2, <2>1, <2>4, <2>5, <2>6, <2>7, <2>8, TricklesOn
<1>8. CASE ClientTakesOffer
  <2> DEFINE a == AnswerTo(Head(toClient))
             q == Append(p, a)
  <2>1. /\ toClient # <<>> /\ Head(toClient).type = "offer" /\ toClient' = Tail(toClient)
        /\ cli'.sig = "stable" /\ cli'.offers = cli.offers
        /\ toDevice' = Append(toDevice, a)
    BY <1>1, <1>8 DEF ClientTakesOffer, Clients
  <2>2. Head(toClient) = toClient[1] /\ Len(toClient') = Len(toClient) - 1
        /\ Len(toClient) \in Nat \ {0} /\ Head(toClient) \in Descriptions
    BY <1>1, <2>1, TailFacts
  <2>3. dp = "sent" /\ cp \in {"stable", "offered", "ignored"} /\ Len(toClient) = 1
        /\ Head(toClient) = dev.local
    BY <1>2, <2>1, <2>2 DEF ToClientFits, PhasesFit, ClientPhases
  <2>4. a \in Descriptions /\ a = AnswerTo(dev.local)
    BY <2>2, <2>3 DEF AnswerTo, Descriptions
  <2> HIDE DEF a
  <2>5. /\ IsPipe(queue', toDevice', q) /\ q \in Seq(Descriptions) /\ Len(q) = Len(p) + 1
        /\ q[Len(p) + 1] = a /\ Len(p) \in Nat /\ \A i \in 1..Len(p) : q[i] = p[i]
    BY <1>4, <1>5, <2>1, <2>4
  <2> HIDE DEF q
  <2>6. PhasesFit(dev', cli', "answered", "stable")
    BY <1>1, <1>2, <2>1, <2>3 DEF PhasesFit
  <2>7. ToClientFits(dev', cli', toClient', "answered", "stable")
    BY <2>2, <2>3 DEF ToClientFits
  <2>8. PipeFits(dev', cli', q, "answered", "stable")
    <3>1. CASE cp = "offered"
      <4>1. Len(p) = 1 /\ p[1].type = "offer" /\ Behind("stable") = 0
        BY <1>2, <2>3, <3>1 DEF PipeFits, Behind
      <4>2. Len(q) = 2 /\ q[2] = AnswerTo(dev.local) /\ q[1].type = "offer"
        BY <2>4, <2>5, <4>1
      <4> QED
        BY <1>1, <4>1, <4>2 DEF PipeFits
    <3>2. CASE cp # "offered"
      <4>1. Len(p) = 0 /\ Behind("stable") = 0
        BY <1>2, <2>3, <3>2 DEF PipeFits, Behind
      <4>2. Len(q) = 1 /\ q[1] = AnswerTo(dev.local)
        BY <2>4, <2>5, <4>1
      <4> QED
        BY <1>1, <4>1, <4>2 DEF PipeFits
    <3> QED
      BY <3>1, <3>2
  <2>9. /\ Waits(queue', dev'.events, Awaited("answered", "stable"))
        /\ "stable" \in ClientPhases /\ "answered" \in DevicePhases
    BY <1>1, <1>2, <2>3 DEF Awaited, ClientPhases, DevicePhases
  <2> QED
    BY <1>1, <1>2, <2>1, <2>5, <2>6, <2>7, <2>8, <2>9, TricklesOn
<1>9. CASE ClientTakesAnswer
  <2>1. /\ toClient # <<>> /\ Head(toClient).type = "answer" /\ toClient' = Tail(toClient)
        /\ UNCHANGED toDevice
    BY <1>9 DEF ClientTakesAnswer
  <2>2. Head(toClient) = toClient[1] /\ Len(toClient') = Len(toClient) - 1
        /\ Len(toClient) \in Nat \ {0} /\ FromDevice(Head(toClient))
        /\ \A i \in 1..Len(toClient') : toClient'[i] = toClient[i + 1]
    BY <1>1, <2>1, TailFacts
  <2>3. cp = "replied" /\ dp # "answered" /\ Head(toClient).id = cli.offers
    BY <1>2, <2>1, <2>2 DEF ToClientFits, PhasesFit
  <2>4. Head(toClient).by = "client"
    BY <2>1, <2>2 DEF FromDevice
  <2>5. cli.sig = "haveLocalOffer"
    BY <1>1, <1>2, <2>3 DEF PhasesFit, Clients
  <2>6. cli'.sig = "stable" /\ cli'.offers = cli.offers
    BY <1>1, <1>9, <2>5 DEF ClientTakesAnswer, Clients
  <2>7. PhasesFit(dev', cli', dp, "stable")
    BY <1>1, <1>2, <2>3, <2>6 DEF PhasesFit
  <2>8. ToClientFits(dev', cli', toClient', dp, "stable")
    <3>1. CASE dp = "sent"
      <4>1. Len(toClient) = 2 /\ toClient[2] = dev.local
        BY <1>2, <2>3, <3>1 DEF ToClientFits
      <4>2. Len(toClient') = 1 /\ toClient'[1] = toClient[1 + 1]
        BY <2>2, <4>1
      <4> QED
        BY <1>1, <3>1, <4>1, <4>2 DEF ToClientFits
    <3>2. CASE dp # "sent"
      BY <1>2, <2>2, <2>3, <3>2 DEF ToClientFits
    <3> QED
      BY <3>1, <3>2
  <2>9. PipeFits(dev', cli', p, dp, "stable")
    BY <1>1, <1>2, <2>3 DEF PipeFits, Behind
  <2>10. Waits(queue', dev'.events, Awaited(dp, "stable")) /\ "stable" \in ClientPhases
    BY <1>3, <2>3 DEF ClientPhases
  <2>11. IsPipe(queue', toDevice', p)
    BY <1>1, <1>2, <2>1
  <2> QED
    BY <1>1, <1>2, <2>3, <2>4, <2>7, <2>8, <2>9, <2>10, <2>11, TricklesOn
<1> QED
  BY <1>6, <1>7, <1>8, <1>9 DEF Client
-----------------------------------------------------------------------------
\* Whether the client trickles never changes.
LEMMA NoTrickleStays ==
    ASSUME TypeInv, [Next]_vars
    PROVE  cli'.noTrickle = cli.noTrickle
<1>1. cli \in Clients
  BY DEF TypeInv
<1>2. CASE ClientAddsTrack \/ Client
  BY <1>1, <1>2
     DEF ClientAddsTrack, Client, ClientOffers, ClientTakesOffer, ClientTakesAnswer, Clients
<1>3. CASE EventLoop \/ PeerCallback \/ GatheringCompletes \/ MessageRead \/ ApplicationAddsTracks
  BY <1>3 DEF EventLoop, HandleMessage, AddTracks, HandleStateChange, HandleGathered,
              PeerCallback, GatheringCompletes, MessageRead, ApplicationAddsTracks
<1>4. CASE UNCHANGED vars
  BY <1>4 DEF vars
<1> QED
  BY <1>2, <1>3, <1>4 DEF Next

\* Only a call to createTracks, an answer of the client, or one of the device, changes
\* where the negotiation of an end stands.
AnswerFits ==
    ~cli.noTrickle =>
        /\ dev.sig = "haveLocalOffer" /\ dev'.sig = "stable"
            => Head(queue) = AnswerTo(dev.local)
        /\ cli.sig = "haveLocalOffer" /\ cli'.sig = "stable"
                /\ Head(toClient).type = "answer"
            => Head(toClient).by = "client" /\ Head(toClient).id = cli.offers

LEMMA TricklingNext ==
    ASSUME ~AnyTime, TypeInv, TypeInv', ~cli.noTrickle, Trickling, [Next]_vars
    PROVE  Trickling' /\ AnswerFits
<1>1. PICK dp \in DevicePhases, cp \in ClientPhases, p \in Seq(Descriptions) :
          Trickles(dp, cp, p)
  BY Zenon DEF Trickling
<1>2. CASE HandleMessage
  <2>1. cli' = cli
    BY <1>2 DEF HandleMessage
  <2> QED
    BY <1>1, <1>2, <2>1, HandleMessageTrickles DEF AnswerFits
<1>3. CASE AddTracks
  <2>1. cli' = cli /\ dev.sig = "stable"
    BY <1>3, AddTracksTypes DEF AddTracks
  <2> QED
    BY <1>1, <1>3, <2>1, AddTracksTrickles DEF AnswerFits
<1>4. CASE HandleStateChange
  <2>1. cli' = cli
    BY <1>4 DEF HandleStateChange
  <2> QED
    BY <1>1, <1>4, <2>1, HandleStateChangeTrickles DEF AnswerFits
<1>5. CASE HandleGathered \/ PeerCallback \/ GatheringCompletes \/ MessageRead
             \/ ApplicationAddsTracks
  <2>1. cli' = cli
    BY <1>5 DEF HandleGathered, PeerCallback, GatheringCompletes, MessageRead,
                ApplicationAddsTracks
  <2> QED
    BY <1>1, <1>5, <2>1, OthersTrickle DEF AnswerFits
<1>6. CASE ClientAddsTrack \/ Client
  BY <1>1, <1>6, ClientTrickles DEF AnswerFits
<1>7. CASE UNCHANGED vars
  <2>1. Trickles(dp, cp, p)'
    BY <1>1, <1>7 DEF vars, Trickles
  <2>2. dev' = dev /\ cli' = cli
    BY <1>7 DEF vars
  <2> QED
    BY <2>1, <2>2, Zenon DEF Trickling, AnswerFits
<1> QED
  BY <1>2, <1>3, <1>4, <1>5, <1>6, <1>7 DEF Next, EventLoop
-----------------------------------------------------------------------------
\* While the application adds tracks only when nothing is negotiated, IInv holds.
LEMMA IInvNext ==
    ASSUME ~AnyTime, IInv, [Next]_vars
    PROVE  IInv' /\ AnswerFits
<1>1. TypeInv /\ (cli.noTrickle \/ Trickling)
  BY TricklingAsPipes DEF IInv
<1>2. TypeInv' /\ cli'.noTrickle = cli.noTrickle
  BY <1>1, TypeInvNext, NoTrickleStays
<1>3. CASE cli.noTrickle
  BY <1>2, <1>3 DEF IInv, AnswerFits
<1>4. CASE ~cli.noTrickle
  <2>1. Trickling' /\ AnswerFits
    BY <1>1, <1>2, <1>4, TricklingNext
  <2>2. (\E dp \in DevicePhases, cp \in ClientPhases, p \in Pipes : Trickles(dp, cp, p))'
    BY <1>2, <2>1, TricklingAsPipes, PTL
  <2> QED
    BY <1>2, <2>1, <2>2 DEF IInv
<1> QED
  BY <1>3, <1>4

LEMMA IInvInit == Init => IInv
BY TypeInvInit, TricklesInit, TricklingAsPipes DEF IInv

LEMMA SpecIInv == ~AnyTime => (SafeSpec => []IInv)
<1> SUFFICES ASSUME ~AnyTime PROVE SafeSpec => []IInv
  OBVIOUS
<1>1. IInv /\ [Next]_vars => IInv'
  BY IInvNext
<1> QED
  BY IInvInit, <1>1, PTL DEF SafeSpec

\* The variables keep their types: what the two ends send each other, what waits on the
\* event queue and what the peer connection has to tell.
THEOREM TypeCorrect == ~AnyTime => (SafeSpec => []TypeOK)
<1> SUFFICES ASSUME ~AnyTime PROVE SafeSpec => []TypeOK
  OBVIOUS
<1>1. IInv => TypeOK
  BY DEF IInv, TypeInv, TypeOK, DeviceOK, QueueOK
<1> QED
  BY <1>1, SpecIInv, PTL

\* An offer that handleOfferAnswer applies has its answer sent, or the state event whose
\* handler sends it is still to come: it is never lost to a description made since.
THEOREM EveryOfferIsAnswered == ~AnyTime => (SafeSpec => []OffersAreAnswered)
<1> SUFFICES ASSUME ~AnyTime PROVE SafeSpec => []OffersAreAnswered
  OBVIOUS
<1>1. IInv => OffersAreAnswered
  <2> SUFFICES ASSUME IInv, ~cli.noTrickle, dev.accepted # dev.answered
               PROVE  Pending("haveRemoteOffer")
    BY DEF OffersAreAnswered
  <2>1. PICK dp \in DevicePhases, cp \in ClientPhases, p \in Pipes : Trickles(dp, cp, p)
    BY Zenon DEF IInv
  <2>2. cp = "accepted" /\ dp = "stable" /\ Waits(queue, dev.events, Awaited(dp, cp))
    BY <2>1 DEF Trickles, PhasesFit
  <2>3. Waits(queue, dev.events, "haveRemoteOffer")
    BY <2>2 DEF Awaited
  <2> QED
    BY <2>3 DEF Waits, EventQueued, EventAhead, Pending
<1> QED
  BY <1>1, SpecIInv, PTL

\* The device applies an answer only to the offer it has pending, and so does the client:
\* the impolite end ignores what collides, and no answer outlives its offer.
THEOREM NoStaleAnswer == ~AnyTime => (SafeSpec => AnswersFit)
<1> SUFFICES ASSUME ~AnyTime PROVE SafeSpec => AnswersFit
  OBVIOUS
<1>1. IInv /\ [Next]_vars => [AnswerFits]_vars
  BY IInvNext
<1>2. IInv => TypeOK
  BY DEF IInv, TypeInv, TypeOK, DeviceOK, QueueOK
<1>3. SafeSpec => []TypeOK /\ [][AnswerFits]_vars
  BY <1>1, <1>2, SpecIInv, PTL DEF SafeSpec
<1> QED
  BY <1>3 DEF AnswersFit, AnswerFits
-----------------------------------------------------------------------------
\* The tracks of the connection and the feeds of the demo.

\* A description that agrees with a negotiator, and the payload type that is sent.
Agreed(t, name) ==
    /\ \E k \in 1..Len(t.codecs) : t.codecs[k].pt = t.dst
    /\ Match(name, t.codecs).left = t.codecs \/ t.codecs = CreateMedia(name)
    /\ name = "H264" => Len(t.codecs) = 1

\* What a track is, by its error and its callbacks.
TrackOK(t, cs, p) ==
    /\ t.error = "OK" =>
        t.rtc /\ t.id \in Feeds /\ cs[t.id] # "none" /\ Agreed(t, cs[t.id])
    /\ t.listens \/ t.close => t.error = "OK"
    /\ t.recv => t.close
    /\ IF p = "closed" THEN ~t.close ELSE t.error = "OK" => t.close

\* The feeds have the last of the tracks that can be closed.
FeedsOK(ts, fs) ==
    /\ \A f \in Feeds : fs[f] # 0 =>
        fs[f] \in 1..Len(ts) /\ ts[fs[f]].id = f /\ ts[fs[f]].close
    /\ \A i \in 1..Len(ts) : ts[i].close => fs[ts[i].id] >= i

\* What the client said was said on a track that was not refused.
SaidOK(q, ts) ==
    \A k \in 1..Len(q) :
        q[k].kind = "talk" => q[k].track \in 1..Len(ts) /\ ts[q[k].track].listens

FeedIInv ==
    /\ source \in Sources /\ codec \in [Feeds -> Negotiators \cup {"none"}]
    /\ pc \in {"none", "open", "closed"} /\ sig \in {"stable", "local"}
    /\ feeds \in [Feeds -> 0..MaxTracks] /\ stray \subseteq Feeds
    /\ tracks \in Seq(TrackStates) /\ posted \in Seq(Callbacks)
    /\ Len(tracks) <= MaxTracks
    /\ pc = "none" => tracks = <<>>
    /\ \A i \in 1..Len(tracks) : TrackOK(tracks[i], codec, pc)
    /\ FeedsOK(tracks, feeds) /\ SaidOK(posted, tracks)
    /\ talk.taken => talk.connected

\* The entries of the metadata: one for a track, with its error or none yet.
EntriesOK(m, ts) ==
    /\ \A k \in 1..Len(m.tracks) :
        /\ m.tracks[k].mid \in 1..Len(ts)
        /\ m.tracks[k].error \in {"none", TrackErrorToString(ts[m.tracks[k].mid].error)}
        /\ \A j \in 1..Len(m.tracks) : m.tracks[j].mid = m.tracks[k].mid => j = k
    /\ \A i \in m.named : \E k \in 1..Len(m.tracks) : m.tracks[k].mid = i

\* What was told, s, of the first of the tracks.
ToldOK(s, ts) ==
    /\ s.of \in 0..Len(ts)
    /\ s.listed =>
        /\ s.named \subseteq 1..s.of
        /\ \A i \in 1..s.of :
            \E k \in 1..Len(s.tracks) :
                /\ s.tracks[k].mid = i
                /\ s.tracks[k].error = TrackErrorToString(ts[i].error)
                /\ \A j \in 1..Len(s.tracks) : s.tracks[j].mid = i => j = k
        /\ (\E i \in s.named : ts[i].error # "OK") => s.status = "FAILED"
        /\ s.status = "FAILED" => \E i \in 1..s.of : ts[i].error # "OK"

MetaStates == [
    listed : BOOLEAN, tracks : Seq(Entries), status : {"none", "OK", "FAILED"},
    named : SUBSET (1..MaxTracks)]

FateIInv == meta \in MetaStates /\ EntriesOK(meta, tracks) /\ ToldOK(told, tracks)

TracksIInv == FeedIInv /\ FateIInv

TracksSafe == TracksInit /\ [][TracksNext]_tracksVars
-----------------------------------------------------------------------------
\* Kept: what of a sequence is in a set, in its order.

LEMMA NumberInduction ==
    ASSUME NEW S \in SUBSET Nat, 0 \in S, \A n \in S : n + 1 \in S
    PROVE  S = Nat
<1> DEFINE T == Nat \ S
<1>1. SUFFICES ASSUME T # {} PROVE FALSE
  OBVIOUS
<1>2. T \in SUBSET Nat
  OBVIOUS
<1>3. \E x \in T : \A y \in T : ~(<<y, x>> \in OpToRel(<, Nat))
  <2> HIDE DEF T
  <2> QED
    BY <1>1, <1>2, NatLessThanWellFounded, WFMin, Zenon
<1>4. PICK x \in T : \A y \in T : ~(<<y, x>> \in OpToRel(<, Nat))
  BY <1>3, Zenon
<1>5. x \in Nat /\ x # 0 /\ x - 1 \in Nat /\ x - 1 < x
  OBVIOUS
<1>6. x - 1 \notin T
  BY <1>4, <1>5 DEF OpToRel
<1>7. x - 1 \in S
  BY <1>5, <1>6
<1>8. (x - 1) + 1 \in S
  BY <1>7
<1> QED
  BY <1>5, <1>8

\* The greatest of some numbers, of which Max speaks.
LEMMA GreatestExists ==
    ASSUME NEW n \in Nat, NEW S \in SUBSET (1..n), S # {}
    PROVE  Max(S) \in S /\ \A x \in S : Max(S) >= x
<1> DEFINE U == {m \in Nat : \A R \in SUBSET (1..m) : R # {} => \E x \in R : \A y \in R : x >= y}
<1>1. 0 \in U
  <2>1. ASSUME NEW R \in SUBSET (1..0) PROVE R = {}
    OBVIOUS
  <2> QED
    BY <2>1
<1>2. ASSUME NEW m \in U PROVE m + 1 \in U
  <2>1. SUFFICES ASSUME NEW R \in SUBSET (1..m + 1), R # {}
                 PROVE  \E x \in R : \A y \in R : x >= y
    OBVIOUS
  <2>2. m \in Nat /\ \A x \in 1..m + 1 : x = m + 1 \/ x \in 1..m
    OBVIOUS
  <2>3. CASE m + 1 \in R
    BY <2>2, <2>3
  <2>4. CASE m + 1 \notin R
    <3>1. R \in SUBSET (1..m)
      BY <2>2, <2>4
    <3> QED
      BY <2>1, <3>1
  <2> QED
    BY <2>3, <2>4
<1>3. U = Nat
  <2> HIDE DEF U
  <2> U \in SUBSET Nat
    BY DEF U
  <2> QED
    BY <1>1, <1>2, NumberInduction
<1>4. n \in U
  BY <1>3
<1>5. \E x \in S : \A y \in S : x >= y
  BY <1>4
<1> QED
  BY <1>5 DEF Max

KeptIn(g, seq, keep, n) ==
    g = [k \in 0..n |-> IF k = 0 THEN <<>>
                        ELSE IF seq[k] \in keep THEN Append(g[k - 1], seq[k]) ELSE g[k - 1]]

LEMMA KeptExists ==
    ASSUME NEW seq, NEW keep, Len(seq) \in Nat
    PROVE  \E g : KeptIn(g, seq, keep, Len(seq))
<1> DEFINE S == {n \in Nat : \E g : KeptIn(g, seq, keep, n)}
<1>1. 0 \in S
  <2> DEFINE g == [k \in 0..0 |-> <<>>]
  <2>1. \A k \in 0..0 : k = 0
    OBVIOUS
  <2>2. KeptIn(g, seq, keep, 0)
    BY <2>1 DEF KeptIn
  <2> QED
    BY <2>2
<1>2. ASSUME NEW n \in S PROVE n + 1 \in S
  <2>1. PICK g : KeptIn(g, seq, keep, n)
    OBVIOUS
  <2> DEFINE new == IF seq[n + 1] \in keep THEN Append(g[n], seq[n + 1]) ELSE g[n]
  <2> DEFINE h == [k \in 0..n + 1 |-> IF k = n + 1 THEN new ELSE g[k]]
  <2>2. \A k \in 0..n : g[k] = IF k = 0 THEN <<>>
                              ELSE IF seq[k] \in keep THEN Append(g[k - 1], seq[k]) ELSE g[k - 1]
    BY <2>1 DEF KeptIn
  <2>3. ASSUME NEW k \in 0..n + 1
        PROVE  h[k] = IF k = 0 THEN <<>>
                      ELSE IF seq[k] \in keep THEN Append(h[k - 1], seq[k]) ELSE h[k - 1]
    <3>1. CASE k = n + 1
      <4>1. n \in Nat /\ n \in 0..n + 1 /\ n # n + 1 /\ k # 0 /\ k - 1 = n
        BY <3>1
      <4>2. h[n] = g[n] /\ h[k] = new
        BY <3>1, <4>1
      <4> QED
        BY <3>1, <4>1, <4>2
    <3>2. CASE k = 0
      BY <2>2, <3>2
    <3>3. CASE k # n + 1 /\ k # 0
      <4>1. k \in 0..n /\ k - 1 \in 0..n /\ h[k] = g[k] /\ h[k - 1] = g[k - 1]
        BY <3>3
      <4> QED
        BY <2>2, <3>3, <4>1
    <3> QED
      BY <3>1, <3>2, <3>3
  <2>4. KeptIn(h, seq, keep, n + 1)
    <3>1. h = [k \in 0..n + 1 |-> h[k]]
      OBVIOUS
    <3> HIDE DEF h
    <3> QED
      BY <2>3, <3>1 DEF KeptIn
  <2> QED
    BY <2>4
<1>3. S = Nat
  <2> HIDE DEF S
  <2> S \in SUBSET Nat
    BY DEF S
  <2> QED
    BY <1>1, <1>2, NumberInduction
<1> QED
  BY <1>3

LEMMA KeptDef ==
    ASSUME NEW seq, NEW keep, Len(seq) \in Nat
    PROVE  KeptIn(KeptUpTo(seq, keep), seq, keep, Len(seq))
<1>1. KeptUpTo(seq, keep) = CHOOSE g : KeptIn(g, seq, keep, Len(seq))
  BY Zenon DEF KeptUpTo, KeptIn
<1>2. \E g : KeptIn(g, seq, keep, Len(seq))
  BY KeptExists
<1> QED
  BY <1>1, <1>2, Zenon

LEMMA KeptEach ==
    ASSUME NEW seq, NEW keep, Len(seq) \in Nat
    PROVE  LET g == KeptUpTo(seq, keep)
           IN  /\ g[0] = <<>>
               /\ \A k \in 1..Len(seq) :
                    g[k] = IF seq[k] \in keep THEN Append(g[k - 1], seq[k]) ELSE g[k - 1]
<1> DEFINE g == KeptUpTo(seq, keep)
<1>1. KeptIn(g, seq, keep, Len(seq))
  BY KeptDef
<1> HIDE DEF g
<1>2. \A k \in 0..Len(seq) :
        g[k] = IF k = 0 THEN <<>>
               ELSE IF seq[k] \in keep THEN Append(g[k - 1], seq[k]) ELSE g[k - 1]
  BY <1>1 DEF KeptIn
<1>3. 0 \in 0..Len(seq) /\ \A k \in 1..Len(seq) : k \in 0..Len(seq) /\ k # 0
  OBVIOUS
<1>4. g[0] = <<>>
  BY <1>2, <1>3
<1>5. ASSUME NEW k \in 1..Len(seq)
      PROVE  g[k] = IF seq[k] \in keep THEN Append(g[k - 1], seq[k]) ELSE g[k - 1]
  <2>1. k \in 0..Len(seq) /\ k # 0
    BY <1>3
  <2> QED
    BY <1>2, <2>1
<1> QED
  BY <1>4, <1>5 DEF g

\* Where the elements that are kept come from.
From(q, seq, keep, n, at) ==
    /\ at \in [1..Len(q) -> 1..n]
    /\ \A i \in 1..Len(q) : q[i] = seq[at[i]] /\ seq[at[i]] \in keep
    /\ \A i, j \in 1..Len(q) : at[i] = at[j] => i = j
    /\ \A k \in 1..n : seq[k] \in keep => \E i \in 1..Len(q) : at[i] = k

LEMMA KeptFrom ==
    ASSUME NEW T, NEW seq \in Seq(T), NEW keep
    PROVE  /\ Kept(seq, keep) \in Seq(T)
           /\ \E at : From(Kept(seq, keep), seq, keep, Len(seq), at)
<1> DEFINE g == KeptUpTo(seq, keep)
<1>0. Len(seq) \in Nat
  OBVIOUS
<1>1. /\ g[0] = <<>>
      /\ \A k \in 1..Len(seq) : g[k] = IF seq[k] \in keep THEN Append(g[k - 1], seq[k]) ELSE g[k - 1]
  BY <1>0, KeptEach
<1> HIDE DEF g
<1> DEFINE S == {n \in Nat : n <= Len(seq) => g[n] \in Seq(T) /\ \E at : From(g[n], seq, keep, n, at)}
<1>2. 0 \in S
  <2>1. From(<<>>, seq, keep, 0, <<>>)
    BY DEF From
  <2>2. g[0] \in Seq(T) /\ From(g[0], seq, keep, 0, <<>>)
    BY <1>1, <2>1
  <2>3. \E at : From(g[0], seq, keep, 0, at)
    BY <2>2
  <2> QED
    BY <2>2, <2>3
<1>3. ASSUME NEW n \in S PROVE n + 1 \in S
  <2>1. SUFFICES ASSUME n + 1 <= Len(seq)
                 PROVE  g[n + 1] \in Seq(T) /\ \E at : From(g[n + 1], seq, keep, n + 1, at)
    OBVIOUS
  <2>2. n \in Nat /\ n + 1 \in 1..Len(seq) /\ n <= Len(seq) /\ (n + 1) - 1 = n
    BY <1>0, <2>1
  <2>3. g[n] \in Seq(T) /\ \E at : From(g[n], seq, keep, n, at)
    BY <2>2
  <2>4. PICK at : From(g[n], seq, keep, n, at)
    BY <2>3
  <2>5. g[n + 1] = IF seq[n + 1] \in keep THEN Append(g[n], seq[n + 1]) ELSE g[n]
    BY <1>1, <2>2
  <2>6. \A k \in 1..n + 1 : k = n + 1 \/ k \in 1..n
    BY <2>2
  <2> DEFINE q == g[n]
  <2> DEFINE r == g[n + 1]
  <2>7. seq[n + 1] \in T
    BY <2>2
  <2>8. CASE seq[n + 1] \in keep
    <3>1. r = Append(q, seq[n + 1]) /\ q \in Seq(T)
      BY <2>3, <2>5, <2>8
    <3> HIDE DEF q, r
    <3>2. /\ r \in Seq(T) /\ Len(q) \in Nat /\ Len(r) = Len(q) + 1
          /\ r[Len(q) + 1] = seq[n + 1] /\ \A i \in 1..Len(q) : r[i] = q[i]
      BY <2>7, <3>1
    <3> DEFINE new == [i \in 1..Len(q) + 1 |-> IF i = Len(q) + 1 THEN n + 1 ELSE at[i]]
    <3>3. /\ at \in [1..Len(q) -> 1..n]
          /\ \A i \in 1..Len(q) : q[i] = seq[at[i]] /\ seq[at[i]] \in keep
          /\ \A i, j \in 1..Len(q) : at[i] = at[j] => i = j
          /\ \A k \in 1..n : seq[k] \in keep => \E i \in 1..Len(q) : at[i] = k
      BY <2>4 DEF From, q
    <3>4. \A i \in 1..Len(q) + 1 :
            IF i = Len(q) + 1 THEN new[i] = n + 1
            ELSE i \in 1..Len(q) /\ new[i] = at[i] /\ at[i] \in 1..n /\ at[i] # n + 1
      <4> SUFFICES ASSUME NEW i \in 1..Len(q) + 1
                   PROVE  IF i = Len(q) + 1 THEN new[i] = n + 1
                          ELSE i \in 1..Len(q) /\ new[i] = at[i] /\ at[i] \in 1..n /\ at[i] # n + 1
        OBVIOUS
      <4>1. CASE i = Len(q) + 1
        BY <4>1
      <4>2. CASE i # Len(q) + 1
        <5>1. i \in 1..Len(q) /\ new[i] = at[i]
          BY <3>2, <4>2
        <5>2. at[i] \in 1..n
          BY <3>3, <5>1
        <5> QED
          BY <2>2, <4>2, <5>1, <5>2
      <4> QED
        BY <4>1, <4>2
    <3>5. Len(q) + 1 \in 1..Len(q) + 1 /\ \A i \in 1..Len(q) : i \in 1..Len(q) + 1 /\ i # Len(q) + 1
      BY <3>2
    <3>6. new \in [1..Len(r) -> 1..n + 1]
      <4>1. \A i \in 1..Len(q) + 1 : new[i] \in 1..n + 1
        BY <2>2, <3>4
      <4> QED
        BY <3>2, <4>1
    <3> HIDE DEF new
    <3>7. ASSUME NEW i \in 1..Len(r) PROVE r[i] = seq[new[i]] /\ seq[new[i]] \in keep
      BY <2>8, <3>2, <3>3, <3>4
    <3>8. ASSUME NEW i \in 1..Len(r), NEW j \in 1..Len(r), new[i] = new[j] PROVE i = j
      BY <3>2, <3>3, <3>4, <3>8
    <3>9. ASSUME NEW k \in 1..n + 1, seq[k] \in keep PROVE \E i \in 1..Len(r) : new[i] = k
      <4>1. CASE k = n + 1
        BY <3>2, <3>4, <3>5, <4>1
      <4>2. CASE k \in 1..n
        <5>1. PICK i \in 1..Len(q) : at[i] = k
          BY <3>3, <3>9, <4>2
        <5>2. i \in 1..Len(r) /\ new[i] = k
          BY <3>2, <3>4, <3>5, <5>1
        <5> QED
          BY <5>2
      <4> QED
        BY <2>6, <4>1, <4>2
    <3>10. From(r, seq, keep, n + 1, new)
      BY <3>6, <3>7, <3>8, <3>9 DEF From
    <3> QED
      BY <3>2, <3>10 DEF r
  <2>9. CASE seq[n + 1] \notin keep
    <3>1. r = q
      BY <2>5, <2>9
    <3>2. From(q, seq, keep, n + 1, at)
      <4> HIDE DEF q, r
      <4>1. From(q, seq, keep, n, at)
        BY <2>4 DEF q
      <4>2. at \in [1..Len(q) -> 1..n + 1]
        <5>1. 1..n \subseteq 1..n + 1
          BY <2>2
        <5> QED
          BY <4>1, <5>1 DEF From
      <4> QED
        BY <2>6, <2>9, <4>1, <4>2 DEF From
    <3> QED
      BY <2>3, <3>1, <3>2
  <2> QED
    BY <2>8, <2>9
<1>4. S = Nat
  <2> HIDE DEF S
  <2> S \in SUBSET Nat
    BY DEF S
  <2> QED
    BY <1>2, <1>3, NumberInduction
<1>5. Len(seq) \in S /\ Len(seq) <= Len(seq)
  BY <1>0, <1>4
<1> QED
  BY <1>5 DEF Kept, g

\* A sequence of which everything is kept.
LEMMA KeptAll ==
    ASSUME NEW T, NEW seq \in Seq(T), NEW keep, \A k \in 1..Len(seq) : seq[k] \in keep
    PROVE  Kept(seq, keep) = seq
<1> DEFINE g == KeptUpTo(seq, keep)
<1>0. Len(seq) \in Nat
  OBVIOUS
<1>1. /\ g[0] = <<>>
      /\ \A k \in 1..Len(seq) : g[k] = IF seq[k] \in keep THEN Append(g[k - 1], seq[k]) ELSE g[k - 1]
  BY <1>0, KeptEach
<1> HIDE DEF g
<1> DEFINE S == {n \in Nat : n <= Len(seq) =>
                    g[n] \in Seq(T) /\ Len(g[n]) = n /\ \A i \in 1..n : g[n][i] = seq[i]}
<1>2. 0 \in S
  <2>1. g[0] \in Seq(T) /\ Len(g[0]) = 0 /\ \A i \in 1..0 : g[0][i] = seq[i]
    BY <1>1
  <2> QED
    BY <2>1
<1>3. ASSUME NEW n \in S PROVE n + 1 \in S
  <2>1. SUFFICES ASSUME n + 1 <= Len(seq)
                 PROVE  /\ g[n + 1] \in Seq(T) /\ Len(g[n + 1]) = n + 1
                        /\ \A i \in 1..n + 1 : g[n + 1][i] = seq[i]
    OBVIOUS
  <2>2. n \in Nat /\ n + 1 \in 1..Len(seq) /\ n <= Len(seq) /\ (n + 1) - 1 = n
    BY <1>0, <2>1
  <2>3. g[n] \in Seq(T) /\ Len(g[n]) = n /\ \A i \in 1..n : g[n][i] = seq[i]
    BY <2>2
  <2>4. g[n + 1] = Append(g[n], seq[n + 1]) /\ seq[n + 1] \in T
    <3>1. seq[n + 1] \in keep /\ seq[n + 1] \in T
      BY <2>2
    <3>2. g[n + 1] = IF seq[n + 1] \in keep THEN Append(g[(n + 1) - 1], seq[n + 1])
                     ELSE g[(n + 1) - 1]
      BY <1>1, <2>2
    <3> QED
      BY <2>2, <3>1, <3>2
  <2> DEFINE q == g[n]
  <2> DEFINE r == g[n + 1]
  <2>5. r = Append(q, seq[n + 1]) /\ q \in Seq(T) /\ Len(q) = n /\ \A i \in 1..n : q[i] = seq[i]
    BY <2>3, <2>4
  <2> HIDE DEF q, r
  <2>6. r \in Seq(T) /\ Len(r) = n + 1 /\ \A i \in 1..n + 1 : r[i] = seq[i]
    BY <2>2, <2>4, <2>5
  <2> QED
    BY <2>6 DEF r
<1>4. S = Nat
  <2> HIDE DEF S
  <2> S \in SUBSET Nat
    BY DEF S
  <2> QED
    BY <1>2, <1>3, NumberInduction
<1>5. g[Len(seq)] \in Seq(T) /\ Len(g[Len(seq)]) = Len(seq)
      /\ \A i \in 1..Len(seq) : g[Len(seq)][i] = seq[i]
  <2>1. Len(seq) \in S /\ Len(seq) <= Len(seq)
    BY <1>0, <1>4
  <2> QED
    BY <2>1
<1> DEFINE q == g[Len(seq)]
<1>6. q \in Seq(T) /\ Len(q) = Len(seq) /\ \A i \in 1..Len(seq) : q[i] = seq[i]
  BY <1>5
<1> HIDE DEF q
<1>7. q = seq
  BY <1>6
<1> QED
  BY <1>7 DEF Kept, g, q
-----------------------------------------------------------------------------
\* The negotiators.

\* r is q without the codecs of c.
Lacks(r, q, c) ==
    /\ r \in Seq(Codecs) /\ PtsDiffer(r)
    /\ \A i \in 1..Len(r) : \E j \in 1..Len(q) : r[i] = q[j] /\ q[j].pt # c.pt
    /\ \A j \in 1..Len(q) : q[j].pt # c.pt => \E i \in 1..Len(r) : r[i] = q[j]

LEMMA WithoutLacks ==
    ASSUME NEW q \in Seq(Codecs), PtsDiffer(q), NEW c
    PROVE  Lacks(Without(q, c), q, c)
<1> DEFINE keep == {d \in ToSet(q) : d.pt # c.pt}
<1> DEFINE r == Without(q, c)
<1>1. r \in Seq(Codecs) /\ \E at : From(r, q, keep, Len(q), at)
  <2>1. r = Kept(q, keep)
    BY DEF Without
  <2> HIDE DEF r, keep
  <2> QED
    BY <2>1, KeptFrom
<1>2. PICK at : From(r, q, keep, Len(q), at)
  BY <1>1
<1>3. \A j \in 1..Len(q) : q[j] \in keep <=> q[j].pt # c.pt
  BY DEF ToSet
<1> HIDE DEF r, keep
<1>4. /\ \A i \in 1..Len(r) : at[i] \in 1..Len(q) /\ r[i] = q[at[i]] /\ q[at[i]] \in keep
      /\ \A i, j \in 1..Len(r) : at[i] = at[j] => i = j
      /\ \A j \in 1..Len(q) : q[j] \in keep => \E i \in 1..Len(r) : at[i] = j
  BY <1>2 DEF From
<1>5. PtsDiffer(r)
  <2>1. ASSUME NEW i \in 1..Len(r), NEW j \in 1..Len(r), r[i].pt = r[j].pt PROVE i = j
    <3>1. /\ at[i] \in 1..Len(q) /\ r[i] = q[at[i]]
          /\ at[j] \in 1..Len(q) /\ r[j] = q[at[j]]
      BY <1>4
    <3>2. q[at[i]].pt = q[at[j]].pt
      BY <2>1, <3>1
    <3>3. at[i] = at[j]
      BY <3>1, <3>2 DEF PtsDiffer
    <3> QED
      BY <1>4, <3>3
  <2> QED
    BY <2>1 DEF PtsDiffer
<1>6. ASSUME NEW i \in 1..Len(r) PROVE \E j \in 1..Len(q) : r[i] = q[j] /\ q[j].pt # c.pt
  BY <1>3, <1>4
<1>7. ASSUME NEW j \in 1..Len(q), q[j].pt # c.pt PROVE \E i \in 1..Len(r) : r[i] = q[j]
  <2>1. PICK i \in 1..Len(r) : at[i] = j
    BY <1>3, <1>4, <1>7
  <2> QED
    BY <1>4, <2>1
<1> QED
  BY <1>1, <1>5, <1>6, <1>7 DEF r, Lacks

LoopIn(g, codecs, n) ==
    g = [k \in 0..n |-> IF k = 0 THEN [left |-> codecs, chosen |-> NoCodec]
                        ELSE H264Looks(g[k - 1], codecs[k])]

LEMMA LoopExists ==
    ASSUME NEW codecs, Len(codecs) \in Nat
    PROVE  \E g : LoopIn(g, codecs, Len(codecs))
<1> DEFINE first == [left |-> codecs, chosen |-> NoCodec]
<1> DEFINE S == {n \in Nat : \E g : LoopIn(g, codecs, n)}
<1>1. 0 \in S
  <2> DEFINE g == [k \in 0..0 |-> first]
  <2>1. \A k \in 0..0 : k = 0
    OBVIOUS
  <2>2. LoopIn(g, codecs, 0)
    BY <2>1 DEF LoopIn
  <2> QED
    BY <2>2
<1>2. ASSUME NEW n \in S PROVE n + 1 \in S
  <2>1. PICK g : LoopIn(g, codecs, n)
    OBVIOUS
  <2> DEFINE new == H264Looks(g[n], codecs[n + 1])
  <2> DEFINE h == [k \in 0..n + 1 |-> IF k = n + 1 THEN new ELSE g[k]]
  <2>2. \A k \in 0..n : g[k] = IF k = 0 THEN first ELSE H264Looks(g[k - 1], codecs[k])
    BY <2>1 DEF LoopIn
  <2> HIDE DEF first
  <2>3. ASSUME NEW k \in 0..n + 1
        PROVE  h[k] = IF k = 0 THEN first ELSE H264Looks(h[k - 1], codecs[k])
    <3>1. CASE k = n + 1
      <4>1. n \in Nat /\ n \in 0..n + 1 /\ n # n + 1 /\ k # 0 /\ k - 1 = n
        BY <3>1
      <4>2. h[n] = g[n] /\ h[k] = new
        BY <3>1, <4>1
      <4> QED
        BY <3>1, <4>1, <4>2
    <3>2. CASE k = 0
      BY <2>2, <3>2
    <3>3. CASE k # n + 1 /\ k # 0
      <4>1. k \in 0..n /\ k - 1 \in 0..n /\ h[k] = g[k] /\ h[k - 1] = g[k - 1]
        BY <3>3
      <4> QED
        BY <2>2, <3>3, <4>1
    <3> QED
      BY <3>1, <3>2, <3>3
  <2>4. LoopIn(h, codecs, n + 1)
    <3>1. h = [k \in 0..n + 1 |-> h[k]]
      OBVIOUS
    <3> HIDE DEF h
    <3> QED
      BY <2>3, <3>1 DEF LoopIn, first
  <2> QED
    BY <2>4
<1>3. S = Nat
  <2> HIDE DEF S
  <2> S \in SUBSET Nat
    BY DEF S
  <2> QED
    BY <1>1, <1>2, NumberInduction
<1> QED
  BY <1>3

LEMMA LoopEach ==
    ASSUME NEW codecs, Len(codecs) \in Nat
    PROVE  /\ H264Loop(codecs)[0] = [left |-> codecs, chosen |-> NoCodec]
           /\ \A k \in 1..Len(codecs) :
                H264Loop(codecs)[k] = H264Looks(H264Loop(codecs)[k - 1], codecs[k])
<1> DEFINE g == H264Loop(codecs)
<1>1. LoopIn(g, codecs, Len(codecs))
  <2>1. H264Loop(codecs) = CHOOSE h : LoopIn(h, codecs, Len(codecs))
    BY Zenon DEF H264Loop, LoopIn
  <2>2. \E h : LoopIn(h, codecs, Len(codecs))
    BY LoopExists
  <2> QED
    BY <2>1, <2>2, Zenon
<1> HIDE DEF g
<1>2. \A k \in 0..Len(codecs) :
        g[k] = IF k = 0 THEN [left |-> codecs, chosen |-> NoCodec]
               ELSE H264Looks(g[k - 1], codecs[k])
  BY <1>1 DEF LoopIn
<1>3. 0 \in 0..Len(codecs) /\ \A k \in 1..Len(codecs) : k \in 0..Len(codecs) /\ k # 0
  OBVIOUS
<1>4. g[0] = [left |-> codecs, chosen |-> NoCodec]
  BY <1>2, <1>3
<1>5. ASSUME NEW k \in 1..Len(codecs) PROVE g[k] = H264Looks(g[k - 1], codecs[k])
  <2>1. k \in 0..Len(codecs) /\ k # 0
    BY <1>3
  <2> QED
    BY <1>2, <2>1
<1> QED
  BY <1>4, <1>5 DEF g

\* After k codecs the description has the one chosen, if any, and those to come.
LoopOK(left, chosen, codecs, k) ==
    /\ left \in Seq(Codecs) /\ PtsDiffer(left)
    /\ \A i \in 1..Len(left) :
        \/ chosen # NoCodec /\ left[i] = chosen
        \/ \E j \in k + 1..Len(codecs) : left[i] = codecs[j]
    /\ \A j \in k + 1..Len(codecs) : \E i \in 1..Len(left) : left[i] = codecs[j]
    /\ chosen # NoCodec =>
        /\ chosen.name = "H264"
        /\ \E j \in 1..k : chosen = codecs[j]
        /\ \E i \in 1..Len(left) : left[i] = chosen

LEMMA LoopKeeps ==
    ASSUME NEW codecs \in Seq(Codecs), PtsDiffer(codecs), NEW k \in Nat, k + 1 \in 1..Len(codecs),
           NEW left, NEW chosen, LoopOK(left, chosen, codecs, k)
    PROVE  LET s == H264Looks([left |-> left, chosen |-> chosen], codecs[k + 1])
           IN  LoopOK(s.left, s.chosen, codecs, k + 1) /\ s = [left |-> s.left, chosen |-> s.chosen]
<1> DEFINE c == codecs[k + 1]
<1> DEFINE s == H264Looks([left |-> left, chosen |-> chosen], c)
<1>2. /\ left \in Seq(Codecs) /\ PtsDiffer(left)
      /\ \A i \in 1..Len(left) :
            \/ chosen # NoCodec /\ left[i] = chosen
            \/ \E j \in k + 1..Len(codecs) : left[i] = codecs[j]
      /\ \A j \in k + 1..Len(codecs) : \E i \in 1..Len(left) : left[i] = codecs[j]
      /\ chosen # NoCodec =>
            /\ chosen.name = "H264"
            /\ \E j \in 1..k : chosen = codecs[j]
            /\ \E i \in 1..Len(left) : left[i] = chosen
  BY DEF LoopOK
<1>3. /\ Len(codecs) \in Nat /\ k + 1 \in k + 1..Len(codecs)
      /\ \A j \in k + 1..Len(codecs) : j = k + 1 \/ j \in (k + 1) + 1..Len(codecs)
      /\ \A j \in (k + 1) + 1..Len(codecs) :
            j \in k + 1..Len(codecs) /\ j \in 1..Len(codecs) /\ j # k + 1
      /\ \A j \in 1..k : j \in 1..k + 1 /\ j \in 1..Len(codecs) /\ j # k + 1
      /\ \A j \in 1..k, i \in (k + 1) + 1..Len(codecs) : i # j
      /\ k + 1 \in 1..k + 1
  OBVIOUS
<1>4. c.name = "H264" => c # NoCodec
  BY DEF NoCodec
<1>5. \A i, j \in 1..Len(codecs) : i # j => codecs[i].pt # codecs[j].pt
  BY DEF PtsDiffer
<1>6. CASE c.name = "H264" /\ chosen = NoCodec
  <2>1. s = [left |-> left, chosen |-> c]
    BY <1>6 DEF H264Looks
  <2>2. LoopOK(left, c, codecs, k + 1)
    <3>1. ASSUME NEW i \in 1..Len(left)
          PROVE  \/ c # NoCodec /\ left[i] = c
                 \/ \E j \in (k + 1) + 1..Len(codecs) : left[i] = codecs[j]
      BY <1>2, <1>3, <1>4, <1>6
    <3>2. \A j \in (k + 1) + 1..Len(codecs) : \E i \in 1..Len(left) : left[i] = codecs[j]
      BY <1>2, <1>3
    <3>3. (\E j \in 1..k + 1 : c = codecs[j]) /\ \E i \in 1..Len(left) : left[i] = c
      BY <1>2, <1>3
    <3> QED
      BY <1>2, <1>6, <3>1, <3>2, <3>3 DEF LoopOK
  <2>3. s.left = left /\ s.chosen = c /\ s = [left |-> s.left, chosen |-> s.chosen]
    BY <2>1
  <2>4. LoopOK(s.left, s.chosen, codecs, k + 1)
    BY <2>2, <2>3
  <2> QED
    BY <2>3, <2>4
<1>7. CASE c.name = "H264" /\ c.perfect /\ chosen # NoCodec
  <2> DEFINE q == Without(left, chosen)
  <2>1. s = [left |-> q, chosen |-> c]
    BY <1>7 DEF H264Looks
  <2>2. /\ q \in Seq(Codecs) /\ PtsDiffer(q)
        /\ \A i \in 1..Len(q) : \E j \in 1..Len(left) : q[i] = left[j] /\ left[j].pt # chosen.pt
        /\ \A j \in 1..Len(left) : left[j].pt # chosen.pt => \E i \in 1..Len(q) : q[i] = left[j]
    <3>1. left \in Seq(Codecs) /\ PtsDiffer(left)
      BY <1>2
    <3>2. Lacks(q, left, chosen)
      BY <3>1, WithoutLacks
    <3> QED
      BY <3>2 DEF Lacks
  <2> HIDE DEF q
  <2>3. PICK p \in 1..k : chosen = codecs[p]
    BY <1>2, <1>7
  <2>4. \A j \in k + 1..Len(codecs) : codecs[j].pt # chosen.pt
    BY <1>3, <1>5, <2>3
  <2>5. \A j \in k + 1..Len(codecs) : \E i \in 1..Len(q) : q[i] = codecs[j]
    <3> SUFFICES ASSUME NEW j \in k + 1..Len(codecs) PROVE \E i \in 1..Len(q) : q[i] = codecs[j]
      OBVIOUS
    <3>1. PICK i \in 1..Len(left) : left[i] = codecs[j]
      BY <1>2
    <3> QED
      BY <2>2, <2>4, <3>1
  <2>6. ASSUME NEW i \in 1..Len(q)
        PROVE  \/ c # NoCodec /\ q[i] = c
               \/ \E j \in (k + 1) + 1..Len(codecs) : q[i] = codecs[j]
    <3>1. PICK j \in 1..Len(left) : q[i] = left[j] /\ left[j].pt # chosen.pt
      BY <2>2
    <3>2. PICK n \in k + 1..Len(codecs) : left[j] = codecs[n]
      BY <1>2, <3>1
    <3> QED
      BY <1>3, <1>4, <1>7, <3>1, <3>2
  <2>7. LoopOK(q, c, codecs, k + 1)
    <3>1. (\E j \in 1..k + 1 : c = codecs[j]) /\ \E i \in 1..Len(q) : q[i] = c
      BY <1>3, <2>5
    <3>2. \A j \in (k + 1) + 1..Len(codecs) : \E i \in 1..Len(q) : q[i] = codecs[j]
      BY <1>3, <2>5
    <3> QED
      BY <1>7, <2>2, <2>6, <3>1, <3>2 DEF LoopOK
  <2> QED
    BY <2>1, <2>7
<1>8. CASE ~(c.name = "H264" /\ chosen = NoCodec) /\ ~(c.name = "H264" /\ c.perfect)
  <2> DEFINE q == Without(left, c)
  <2>1. s = [left |-> q, chosen |-> chosen]
    BY <1>8 DEF H264Looks
  <2>2. /\ q \in Seq(Codecs) /\ PtsDiffer(q)
        /\ \A i \in 1..Len(q) : \E j \in 1..Len(left) : q[i] = left[j] /\ left[j].pt # c.pt
        /\ \A j \in 1..Len(left) : left[j].pt # c.pt => \E i \in 1..Len(q) : q[i] = left[j]
    <3>1. left \in Seq(Codecs) /\ PtsDiffer(left)
      BY <1>2
    <3>2. Lacks(q, left, c)
      BY <3>1, WithoutLacks
    <3> QED
      BY <3>2 DEF Lacks
  <2> HIDE DEF q
  <2>3. ASSUME NEW i \in 1..Len(q)
        PROVE  \/ chosen # NoCodec /\ q[i] = chosen
               \/ \E j \in (k + 1) + 1..Len(codecs) : q[i] = codecs[j]
    <3>1. PICK j \in 1..Len(left) : q[i] = left[j] /\ left[j].pt # c.pt
      BY <2>2
    <3>2. CASE chosen # NoCodec /\ left[j] = chosen
      BY <3>1, <3>2
    <3>3. CASE \E n \in k + 1..Len(codecs) : left[j] = codecs[n]
      <4>1. PICK n \in k + 1..Len(codecs) : left[j] = codecs[n]
        BY <3>3
      <4>2. n # k + 1
        BY <3>1, <4>1
      <4> QED
        BY <1>3, <3>1, <4>1, <4>2
    <3> QED
      BY <1>2, <3>2, <3>3
  <2>4. \A j \in (k + 1) + 1..Len(codecs) : \E i \in 1..Len(q) : q[i] = codecs[j]
    <3> SUFFICES ASSUME NEW j \in (k + 1) + 1..Len(codecs)
                 PROVE  \E i \in 1..Len(q) : q[i] = codecs[j]
      OBVIOUS
    <3>1. PICK i \in 1..Len(left) : left[i] = codecs[j]
      BY <1>2, <1>3
    <3>2. codecs[j].pt # c.pt
      BY <1>3, <1>5
    <3> QED
      BY <2>2, <3>1, <3>2
  <2>5. ASSUME chosen # NoCodec
        PROVE  /\ chosen.name = "H264"
               /\ \E j \in 1..k + 1 : chosen = codecs[j]
               /\ \E i \in 1..Len(q) : q[i] = chosen
    <3>1. PICK p \in 1..k : chosen = codecs[p]
      BY <1>2, <2>5
    <3>2. chosen.pt # c.pt
      BY <1>3, <1>5, <3>1
    <3>3. PICK i \in 1..Len(left) : left[i] = chosen
      BY <1>2, <2>5
    <3>4. \E j \in 1..Len(q) : q[j] = chosen
      BY <2>2, <3>2, <3>3
    <3> QED
      BY <1>2, <1>3, <2>5, <3>1, <3>4
  <2>6. LoopOK(q, chosen, codecs, k + 1)
    BY <2>2, <2>3, <2>4, <2>5 DEF LoopOK
  <2> QED
    BY <2>1, <2>6
<1> QED
  BY <1>6, <1>7, <1>8

LEMMA H264Leaves ==
    ASSUME NEW codecs \in Seq(Codecs), PtsDiffer(codecs), H264Match(codecs).chosen # NoCodec
    PROVE  /\ H264Match(codecs).left \in Seq(Codecs) /\ Len(H264Match(codecs).left) = 1
           /\ H264Match(codecs).left[1].name = "H264"
<1> DEFINE g == H264Loop(codecs)
<1>0. Len(codecs) \in Nat
  OBVIOUS
<1>1. /\ g[0] = [left |-> codecs, chosen |-> NoCodec]
      /\ \A k \in 1..Len(codecs) : g[k] = H264Looks(g[k - 1], codecs[k])
  BY <1>0, LoopEach
<1> HIDE DEF g
<1> DEFINE S == {k \in Nat : k <= Len(codecs) =>
                    /\ LoopOK(g[k].left, g[k].chosen, codecs, k)
                    /\ g[k] = [left |-> g[k].left, chosen |-> g[k].chosen]}
<1>2. 0 \in S
  <2>1. g[0].left = codecs /\ g[0].chosen = NoCodec
    BY <1>1
  <2>2. LoopOK(codecs, NoCodec, codecs, 0)
    BY DEF LoopOK
  <2>3. LoopOK(g[0].left, g[0].chosen, codecs, 0) /\ g[0] = [left |-> g[0].left, chosen |-> g[0].chosen]
    BY <1>1, <2>1, <2>2
  <2> QED
    BY <2>3
<1>3. ASSUME NEW k \in S PROVE k + 1 \in S
  <2>1. SUFFICES ASSUME k + 1 <= Len(codecs)
                 PROVE  /\ LoopOK(g[k + 1].left, g[k + 1].chosen, codecs, k + 1)
                        /\ g[k + 1] = [left |-> g[k + 1].left, chosen |-> g[k + 1].chosen]
    OBVIOUS
  <2>2. k \in Nat /\ k + 1 \in 1..Len(codecs) /\ k <= Len(codecs) /\ (k + 1) - 1 = k
    BY <1>0, <2>1
  <2>3. /\ LoopOK(g[k].left, g[k].chosen, codecs, k)
        /\ g[k] = [left |-> g[k].left, chosen |-> g[k].chosen]
    BY <2>2
  <2>4. g[k + 1] = H264Looks([left |-> g[k].left, chosen |-> g[k].chosen], codecs[k + 1])
    BY <1>1, <2>2, <2>3
  <2> QED
    BY <2>2, <2>3, <2>4, LoopKeeps
<1>4. S = Nat
  <2> HIDE DEF S
  <2> S \in SUBSET Nat
    BY DEF S
  <2> QED
    BY <1>2, <1>3, NumberInduction
<1> DEFINE left == g[Len(codecs)].left
<1> DEFINE chosen == g[Len(codecs)].chosen
<1>5. LoopOK(left, chosen, codecs, Len(codecs))
  <2>1. Len(codecs) \in S /\ Len(codecs) <= Len(codecs)
    BY <1>0, <1>4
  <2> QED
    BY <2>1
<1>6. H264Match(codecs).left = left /\ H264Match(codecs).chosen = chosen
  BY DEF H264Match, g
<1> HIDE DEF left, chosen
<1>7. /\ left \in Seq(Codecs) /\ PtsDiffer(left) /\ chosen.name = "H264"
      /\ \A i \in 1..Len(left) : left[i] = chosen
      /\ \E i \in 1..Len(left) : left[i] = chosen
  <2>1. \A j \in Len(codecs) + 1..Len(codecs) : FALSE
    BY <1>0
  <2> QED
    BY <1>5, <1>6, <2>1 DEF LoopOK
<1>8. Len(left) = 1
  <2>1. Len(left) \in Nat /\ Len(left) >= 1
    BY <1>7
  <2>2. ASSUME Len(left) >= 2 PROVE FALSE
    <3>1. 1 \in 1..Len(left) /\ 2 \in 1..Len(left)
      BY <2>1, <2>2
    <3>2. left[1].pt = left[2].pt
      BY <1>7, <3>1
    <3> QED
      BY <1>7, <3>1, <3>2 DEF PtsDiffer
  <2>3. ASSUME NEW n \in Nat, n >= 1, ~(n >= 2) PROVE n = 1
    BY <2>3
  <2> QED
    BY <2>1, <2>2, <2>3
<1> QED
  BY <1>6, <1>7, <1>8

LEMMA H264Again ==
    ASSUME NEW q \in Seq(Codecs), Len(q) = 1, q[1].name = "H264"
    PROVE  H264Match(q).left = q
<1>1. /\ H264Loop(q)[0] = [left |-> q, chosen |-> NoCodec]
      /\ H264Loop(q)[1] = H264Looks(H264Loop(q)[0], q[1])
  <2>1. Len(q) \in Nat /\ 1 \in 1..Len(q) /\ 1 - 1 = 0
    OBVIOUS
  <2> QED
    BY <2>1, LoopEach
<1>2. H264Looks([left |-> q, chosen |-> NoCodec], q[1]).left = q
  BY DEF H264Looks
<1> QED
  BY <1>1, <1>2 DEF H264Match

LEMMA LastOfLeaves ==
    ASSUME NEW names, NEW codecs \in Seq(Codecs)
    PROVE  /\ LastOf(names, codecs).left \in Seq(Codecs)
           /\ LastOf(names, codecs).chosen # NoCodec => LastOf(names, codecs).left # <<>>
           /\ LastOf(names, LastOf(names, codecs).left).left = LastOf(names, codecs).left
<1> DEFINE keep == {c \in ToSet(codecs) : c.name \in names}
<1> DEFINE q == Kept(codecs, keep)
<1>1. LastOf(names, codecs).left = q /\ (LastOf(names, codecs).chosen # NoCodec => q # <<>>)
  BY DEF LastOf
<1>2. q \in Seq(Codecs) /\ \E at : From(q, codecs, keep, Len(codecs), at)
  <2> HIDE DEF keep
  <2> QED
    BY KeptFrom
<1>3. \A i \in 1..Len(q) : q[i] \in keep
  <2> HIDE DEF keep, q
  <2> QED
    BY <1>2 DEF From
<1>4. \A i \in 1..Len(q) : q[i].name \in names
  BY <1>3
<1> HIDE DEF keep, q
<1>5. LastOf(names, q).left = q
  <2> DEFINE again == {c \in ToSet(q) : c.name \in names}
  <2>1. \A i \in 1..Len(q) : q[i] \in again
    BY <1>2, <1>4 DEF ToSet
  <2>2. Kept(q, again) = q
    <3> HIDE DEF again
    <3> QED
      BY <1>2, <2>1, KeptAll
  <2> QED
    BY <2>2 DEF LastOf
<1> QED
  BY <1>1, <1>2, <1>5

\* What a negotiator that found a codec leaves of a description agrees with it.
LEMMA MatchLeaves ==
    ASSUME NEW name \in Negotiators, NEW codecs \in Seq(Codecs), PtsDiffer(codecs),
           Match(name, codecs).chosen # NoCodec
    PROVE  LET left == Match(name, codecs).left
           IN  /\ left \in Seq(Codecs) /\ left # <<>> /\ Match(name, left).left = left
               /\ name = "H264" => Len(left) = 1
<1>1. CASE name = "H264"
  <2>1. \A q : Match(name, q) = H264Match(q)
    BY <1>1 DEF Match
  <2>2. /\ H264Match(codecs).left \in Seq(Codecs) /\ Len(H264Match(codecs).left) = 1
        /\ H264Match(codecs).left[1].name = "H264"
    BY <2>1, H264Leaves
  <2>3. H264Match(H264Match(codecs).left).left = H264Match(codecs).left
    BY <2>2, H264Again
  <2>4. H264Match(codecs).left # <<>>
    BY <2>2
  <2> QED
    BY <2>1, <2>2, <2>3, <2>4
<1>2. CASE name # "H264"
  <2>1. PICK names : \A q : Match(name, q) = LastOf(names, q)
    BY <1>2 DEF Match, Negotiators, OpusMatch, PcmuMatch, Vp8Match
  <2> QED
    BY <1>2, <2>1, LastOfLeaves
<1> QED
  BY <1>1, <1>2

LEMMA MediaIsOne ==
    ASSUME NEW name \in Negotiators
    PROVE  CreateMedia(name) \in Seq(Codecs) /\ Len(CreateMedia(name)) = 1
<1>1. PICK c \in Codecs : CreateMedia(name) = <<c>>
  <2>1. /\ [pt |-> 96, name |-> "H264", perfect |-> TRUE] \in Codecs
        /\ [pt |-> 111, name |-> "opus", perfect |-> FALSE] \in Codecs
        /\ [pt |-> 0, name |-> "PCMU", perfect |-> FALSE] \in Codecs
        /\ [pt |-> 127, name |-> "VP8", perfect |-> FALSE] \in Codecs
    <3>1. 96 \in Nat /\ 111 \in Nat /\ 0 \in Nat /\ 127 \in Nat
      OBVIOUS
    <3>2. {"H264", "opus", "PCMU", "VP8"} \subseteq Formats
      BY DEF Formats
    <3>3. TRUE \in BOOLEAN /\ FALSE \in BOOLEAN
      OBVIOUS
    <3> QED
      BY <3>1, <3>2, <3>3, Zenon DEF Codecs
  <2>2. CreateMedia(name) \in {H264Media, OpusMedia, PcmuMedia, Vp8Media}
    BY DEF CreateMedia, Negotiators
  <2> QED
    BY <2>1, <2>2 DEF H264Media, OpusMedia, PcmuMedia, Vp8Media
<1> QED
  BY <1>1
-----------------------------------------------------------------------------
\* One track.

LEMMA TrackFields ==
    ASSUME NEW t \in TrackStates
    PROVE  /\ t.id \in Feeds \cup {Unknown, NoId} /\ t.error \in Errors
           /\ t.rtc \in BOOLEAN /\ t.codecs \in Seq(Codecs) /\ t.dst \in Nat
           /\ t.recv \in BOOLEAN /\ t.close \in BOOLEAN /\ t.listens \in BOOLEAN
BY DEF TrackStates

LEMMA WithError ==
    ASSUME NEW t \in TrackStates, NEW e \in Errors
    PROVE  /\ [t EXCEPT !.error = e] \in TrackStates
           /\ [t EXCEPT !.error = e].error = e
           /\ [t EXCEPT !.error = e].id = t.id
           /\ [t EXCEPT !.error = e].close = t.close
           /\ [t EXCEPT !.error = e].recv = t.recv
           /\ [t EXCEPT !.error = e].listens = t.listens
BY DEF TrackStates

LEMMA WithCodecs ==
    ASSUME NEW t \in TrackStates, NEW q \in Seq(Codecs)
    PROVE  /\ [t EXCEPT !.codecs = q] \in TrackStates
           /\ [t EXCEPT !.codecs = q].codecs = q
           /\ [t EXCEPT !.codecs = q].error = t.error
           /\ [t EXCEPT !.codecs = q].id = t.id
           /\ [t EXCEPT !.codecs = q].rtc = t.rtc
           /\ [t EXCEPT !.codecs = q].close = t.close
           /\ [t EXCEPT !.codecs = q].recv = t.recv
           /\ [t EXCEPT !.codecs = q].listens = t.listens
BY DEF TrackStates

LEMMA WithListens ==
    ASSUME NEW t \in TrackStates, NEW b \in BOOLEAN
    PROVE  /\ [t EXCEPT !.listens = b] \in TrackStates
           /\ [t EXCEPT !.listens = b].listens = b
           /\ [t EXCEPT !.listens = b].error = t.error
           /\ [t EXCEPT !.listens = b].id = t.id
           /\ [t EXCEPT !.listens = b].rtc = t.rtc
           /\ [t EXCEPT !.listens = b].codecs = t.codecs
           /\ [t EXCEPT !.listens = b].dst = t.dst
           /\ [t EXCEPT !.listens = b].close = t.close
           /\ [t EXCEPT !.listens = b].recv = t.recv
BY DEF TrackStates

LEMMA WithClose ==
    ASSUME NEW t \in TrackStates, NEW b \in BOOLEAN
    PROVE  /\ [t EXCEPT !.close = b] \in TrackStates
           /\ [t EXCEPT !.close = b].close = b
           /\ [t EXCEPT !.close = b].error = t.error
           /\ [t EXCEPT !.close = b].id = t.id
           /\ [t EXCEPT !.close = b].rtc = t.rtc
           /\ [t EXCEPT !.close = b].codecs = t.codecs
           /\ [t EXCEPT !.close = b].dst = t.dst
           /\ [t EXCEPT !.close = b].recv = t.recv
           /\ [t EXCEPT !.close = b].listens = t.listens
BY DEF TrackStates

LEMMA Connects ==
    ASSUME NEW t \in TrackStates, t.codecs # <<>>
    PROVE  LET c == AddConnection(t)
           IN  /\ c \in TrackStates /\ c.dst = t.codecs[1].pt /\ c.recv \in BOOLEAN
               /\ c.error = t.error /\ c.id = t.id /\ c.rtc = t.rtc /\ c.codecs = t.codecs
               /\ c.close = t.close /\ c.listens = t.listens
<1>1. t.codecs[1].pt \in Nat
  <2>1. t.codecs \in Seq(Codecs)
    BY DEF TrackStates
  <2>2. t.codecs[1] \in Codecs
    BY <2>1
  <2> QED
    BY <2>2 DEF Codecs
<1>2. (source # "rtsp") \in BOOLEAN
  OBVIOUS
<1> DEFINE pt == t.codecs[1].pt
<1> DEFINE b == (source # "rtsp")
<1> DEFINE c == AddConnection(t)
<1>3. c = [t EXCEPT !.dst = pt, !.recv = b]
  BY DEF AddConnection
<1> HIDE DEF c, pt, b
<1>4. pt \in Nat /\ b \in BOOLEAN
  BY <1>1, <1>2 DEF pt, b
<1>5. /\ c \in TrackStates /\ c.dst = pt /\ c.recv \in BOOLEAN
      /\ c.error = t.error /\ c.id = t.id /\ c.rtc = t.rtc /\ c.codecs = t.codecs
      /\ c.close = t.close /\ c.listens = t.listens
  BY <1>3, <1>4 DEF TrackStates
<1> QED
  BY <1>5 DEF c, pt

CodecTyped == codec \in [Feeds -> Negotiators \cup {"none"}]

LEMMA KnownHasNegotiator ==
    ASSUME CodecTyped, NEW f, Known(f)
    PROVE  f \in Feeds /\ codec[f] # "none" /\ codec[f] \in Negotiators
BY DEF CodecTyped, Known

\* A track that was refused.
LEMMA RefusedIsOK ==
    ASSUME NEW t \in TrackStates, ~t.close, ~t.recv, ~t.listens, NEW e \in Errors \ {"OK"}
    PROVE  /\ Failed(t, e) \in TrackStates /\ Failed(t, e).error # "OK"
           /\ TrackOK(Failed(t, e), codec, "open")
<1>1. Failed(t, e) = [t EXCEPT !.error = e] /\ e \in Errors /\ e # "OK"
  BY DEF Failed
<1>2. /\ Failed(t, e) \in TrackStates /\ Failed(t, e).error = e /\ Failed(t, e).close = t.close
      /\ Failed(t, e).recv = t.recv /\ Failed(t, e).listens = t.listens
  BY <1>1, WithError
<1> QED
  BY <1>1, <1>2 DEF TrackOK

\* What the callback of the demo makes of a new track.
LEMMA EventIsOK ==
    ASSUME CodecTyped, NEW access \in BOOLEAN,
           NEW t \in TrackStates, PtsDiffer(t.codecs), t.error = "OK",
           t.rtc <=> t.id # NoId, ~t.close, ~t.recv, ~t.listens
    PROVE  /\ TrackEvent(t, access) \in TrackStates
           /\ TrackOK(TrackEvent(t, access), codec, "open")
<1> DEFINE e == TrackEvent(t, access)
<1>1. CASE ~access
  <2>1. e = Failed(t, "ACCESS_DENIED") /\ "ACCESS_DENIED" \in Errors \ {"OK"}
    BY <1>1 DEF TrackEvent, Errors
  <2> QED
    BY <2>1, RefusedIsOK
<1>2. CASE access /\ ~Known(t.id)
  <2>1. e = Failed(t, "UNKNOWN_TRACK_ID") /\ "UNKNOWN_TRACK_ID" \in Errors \ {"OK"}
    BY <1>2 DEF TrackEvent, Errors
  <2> QED
    BY <2>1, RefusedIsOK
<1>3. CASE access /\ Known(t.id)
  <2> DEFINE name == codec[t.id]
  <2> DEFINE left == Match(name, t.codecs).left
  <2> DEFINE chosen == Match(name, t.codecs).chosen
  <2>1. t.id \in Feeds /\ name # "none" /\ name \in Negotiators /\ t.codecs \in Seq(Codecs)
    BY <1>3, KnownHasNegotiator, TrackFields
  <2>2. chosen # NoCodec =>
            /\ left \in Seq(Codecs) /\ left # <<>> /\ Match(name, left).left = left
            /\ name = "H264" => Len(left) = 1
    <3> SUFFICES ASSUME chosen # NoCodec
                 PROVE  /\ left \in Seq(Codecs) /\ left # <<>> /\ Match(name, left).left = left
                        /\ name = "H264" => Len(left) = 1
      OBVIOUS
    <3> HIDE DEF name
    <3> QED
      BY <2>1, MatchLeaves
  <2>3. /\ MatchMedia(t).ok = (chosen.pt # 0)
        /\ MatchMedia(t).t = IF chosen = NoCodec THEN t ELSE [t EXCEPT !.codecs = left]
    BY DEF MatchMedia
  <2>4. CASE MatchMedia(t).ok
    <3>1. chosen # NoCodec
      <4>1. NoCodec.pt = 0
        BY DEF NoCodec
      <4>2. chosen.pt # 0
        BY <2>3, <2>4
      <4> HIDE DEF chosen
      <4> QED
        BY <4>1, <4>2
    <3> DEFINE m == [t EXCEPT !.codecs = left]
    <3> DEFINE c == AddConnection(m)
    <3>2. e = [c EXCEPT !.close = TRUE]
      BY <1>3, <2>3, <2>4, <3>1 DEF TrackEvent
    <3>3. left \in Seq(Codecs) /\ left # <<>>
      BY <2>2, <3>1
    <3> HIDE DEF left, chosen, name
    <3>4. /\ m \in TrackStates /\ m.codecs = left /\ m.error = t.error /\ m.id = t.id
          /\ m.rtc = t.rtc /\ m.close = t.close /\ m.recv = t.recv /\ m.listens = t.listens
      BY <3>3, WithCodecs
    <3> HIDE DEF m
    <3>5. /\ c \in TrackStates /\ c.dst = left[1].pt /\ c.error = t.error /\ c.id = t.id
          /\ c.rtc = t.rtc /\ c.codecs = left /\ c.listens = t.listens
      BY <3>3, <3>4, Connects
    <3> HIDE DEF c, e
    <3>6. /\ e \in TrackStates /\ e.close /\ e.error = "OK" /\ e.id = t.id /\ e.rtc = t.rtc
          /\ e.codecs = left /\ e.dst = left[1].pt /\ e.listens = t.listens
      BY <3>2, <3>5, WithClose
    <3>7. 1 \in 1..Len(left)
      BY <3>3
    <3>8. Agreed(e, codec[e.id])
      BY <2>2, <3>1, <3>6, <3>7 DEF Agreed, left, chosen, name
    <3>9. e.rtc
      <4>1. NoId \notin Feeds
        BY DEF NoId, Feeds
      <4> QED
        BY <2>1, <3>6, <4>1
    <3>10. TrackOK(e, codec, "open")
      BY <2>1, <3>6, <3>8, <3>9 DEF TrackOK, name
    <3> QED
      BY <3>6, <3>10 DEF e
  <2>5. CASE ~MatchMedia(t).ok
    <3> DEFINE m == MatchMedia(t).t
    <3>1. m \in TrackStates /\ ~m.close /\ ~m.recv /\ ~m.listens
      <4>1. CASE chosen = NoCodec
        BY <2>3, <4>1
      <4>2. CASE chosen # NoCodec
        <5>1. m = [t EXCEPT !.codecs = left] /\ left \in Seq(Codecs)
          BY <2>2, <2>3, <4>2
        <5> HIDE DEF left, m
        <5> QED
          BY <5>1, WithCodecs
      <4> QED
        BY <4>1, <4>2
    <3>2. e = Failed(m, "INVALID_CODECS") /\ "INVALID_CODECS" \in Errors \ {"OK"}
      BY <1>3, <2>5 DEF TrackEvent, Errors
    <3> HIDE DEF m
    <3> QED
      BY <3>1, <3>2, RefusedIsOK
  <2> QED
    BY <2>4, <2>5
<1> QED
  BY <1>1, <1>2, <1>3

LEMMA OfferedIsOK ==
    ASSUME CodecTyped, NEW offered \in OfferedTracks, NEW listed \in BOOLEAN,
           NEW access \in BOOLEAN
    PROVE  /\ HandleTrackEvent(offered, listed, access) \in TrackStates
           /\ TrackOK(HandleTrackEvent(offered, listed, access), codec, "open")
<1> DEFINE t == CreateMediaTrack(offered, listed)
<1> DEFINE e == TrackEvent(t, access)
<1> DEFINE h == HandleTrackEvent(offered, listed, access)
<1>1. offered.id \in Feeds \cup {Unknown, NoId} /\ offered.codecs \in Offers
  BY DEF OfferedTracks
<1>2. offered.codecs \in Seq(Codecs) /\ PtsDiffer(offered.codecs)
  BY <1>1, OffersAssumption
<1>3. /\ t \in TrackStates /\ t.codecs = offered.codecs /\ t.error = "OK"
      /\ t.rtc <=> t.id # NoId
      /\ ~t.close /\ ~t.recv /\ ~t.listens
  BY <1>1, <1>2 DEF CreateMediaTrack, TrackStates, Errors
<1>4. e \in TrackStates /\ TrackOK(e, codec, "open")
  <2> HIDE DEF t
  <2> QED
    BY <1>2, <1>3, EventIsOK
<1>5. h = [e EXCEPT !.listens = (e.error = "OK")]
  BY DEF HandleTrackEvent, AcceptTrack
<1> HIDE DEF e, h, t
<1>6. /\ h \in TrackStates /\ h.listens = (e.error = "OK") /\ h.error = e.error /\ h.id = e.id
      /\ h.rtc = e.rtc /\ h.codecs = e.codecs /\ h.dst = e.dst /\ h.close = e.close
      /\ h.recv = e.recv
  <2>1. (e.error = "OK") \in BOOLEAN
    OBVIOUS
  <2> QED
    BY <1>4, <1>5, <2>1, WithListens
<1>7. \A name : Agreed(e, name) => Agreed(h, name)
  BY <1>6 DEF Agreed
<1>8. TrackOK(h, codec, "open")
  BY <1>4, <1>6, <1>7 DEF TrackOK
<1> QED
  BY <1>6, <1>8 DEF h

LEMMA ListedIsOK ==
    ASSUME CodecTyped, NEW f, Known(f)
    PROVE  /\ AddConnection(NewMedia(f)) \in TrackStates
           /\ TrackOK(AddConnection(NewMedia(f)), codec, "open")
           /\ AddConnection(NewMedia(f)).error = "OK"
<1> DEFINE t == NewMedia(f)
<1> DEFINE c == AddConnection(t)
<1> DEFINE codecs == CreateMedia(codec[f])
<1>1. f \in Feeds /\ codec[f] # "none" /\ codec[f] \in Negotiators
  BY KnownHasNegotiator
<1>2. codecs \in Seq(Codecs) /\ Len(codecs) = 1
  BY <1>1, MediaIsOne
<1>3. /\ t \in TrackStates /\ t.codecs = codecs /\ t.id = f /\ t.error = "OK" /\ t.rtc
      /\ t.close /\ t.listens
  <2> HIDE DEF codecs
  <2> QED
    BY <1>1, <1>2 DEF NewMedia, TrackStates, Errors, codecs
<1>4. t.codecs # <<>> /\ 1 \in 1..Len(codecs)
  <2> HIDE DEF codecs, t
  <2>1. codecs # <<>>
    <3>1. Len(<<>>) = 0
      OBVIOUS
    <3> QED
      BY <1>2, <3>1
  <2>2. 1 \in 1..Len(codecs)
    BY <1>2
  <2> QED
    BY <1>3, <2>1, <2>2
<1> HIDE DEF t
<1>5. /\ c \in TrackStates /\ c.dst = codecs[1].pt /\ c.codecs = codecs
      /\ c.id = f /\ c.error = "OK" /\ c.rtc /\ c.close /\ c.listens
  BY <1>3, <1>4, Connects
<1> HIDE DEF c
<1>6. Agreed(c, codec[f])
  BY <1>2, <1>4, <1>5 DEF Agreed
<1>7. TrackOK(c, codec, "open")
  BY <1>1, <1>5, <1>6 DEF TrackOK
<1> QED
  BY <1>5, <1>7 DEF c, t
-----------------------------------------------------------------------------
\* The tracks that are added, and the feeds that get them.

LEMMA Joined ==
    ASSUME NEW T, NEW a \in Seq(T), NEW b \in Seq(T)
    PROVE  /\ a \o b \in Seq(T) /\ Len(a \o b) = Len(a) + Len(b)
           /\ \A i \in 1..Len(a) : i \in 1..Len(a \o b) /\ (a \o b)[i] = a[i]
           /\ \A k \in 1..Len(b) : Len(a) + k \in 1..Len(a \o b) /\ (a \o b)[Len(a) + k] = b[k]
           /\ \A i \in 1..Len(a \o b) : i \in 1..Len(a) \/ \E k \in 1..Len(b) : i = Len(a) + k
<1>1. /\ a \o b \in Seq(T) /\ Len(a \o b) = Len(a) + Len(b) /\ Len(a) \in Nat /\ Len(b) \in Nat
      /\ \A i \in 1..Len(a) : i \in 1..Len(a \o b) /\ (a \o b)[i] = a[i]
      /\ \A k \in 1..Len(b) : Len(a) + k \in 1..Len(a \o b) /\ (a \o b)[Len(a) + k] = b[k]
  OBVIOUS
<1>2. ASSUME NEW i \in 1..Len(a \o b), i \notin 1..Len(a) PROVE \E k \in 1..Len(b) : i = Len(a) + k
  <2>1. i - Len(a) \in 1..Len(b) /\ i = Len(a) + (i - Len(a))
    BY <1>1, <1>2
  <2> QED
    BY <2>1
<1> QED
  BY <1>1, <1>2

LEMMA FeedsAdd ==
    ASSUME NEW ts \in Seq(TrackStates), NEW new \in Seq(TrackStates),
           NEW fs \in [Feeds -> 0..Len(ts)], FeedsOK(ts, fs),
           \A i \in 1..Len(ts) : ts[i].close => ts[i].id \in Feeds,
           \A k \in 1..Len(new) : new[k].close => new[k].id \in Feeds
    PROVE  LET fs2 == [f \in Feeds |-> IF GivenTo(f, new) = {} THEN fs[f]
                                       ELSE Len(ts) + Max(GivenTo(f, new))]
           IN  fs2 \in [Feeds -> 0..Len(ts) + Len(new)] /\ FeedsOK(ts \o new, fs2)
<1> DEFINE fs2 == [f \in Feeds |-> IF GivenTo(f, new) = {} THEN fs[f]
                                   ELSE Len(ts) + Max(GivenTo(f, new))]
<1> DEFINE all == ts \o new
<1>1. /\ Len(all) = Len(ts) + Len(new) /\ Len(ts) \in Nat /\ Len(new) \in Nat
      /\ \A i \in 1..Len(ts) : i \in 1..Len(all) /\ all[i] = ts[i]
      /\ \A k \in 1..Len(new) : Len(ts) + k \in 1..Len(all) /\ all[Len(ts) + k] = new[k]
      /\ \A i \in 1..Len(all) : i \in 1..Len(ts) \/ \E k \in 1..Len(new) : i = Len(ts) + k
  BY Joined
<1>2. /\ \A f \in Feeds : fs[f] \in 0..Len(ts)
      /\ \A f \in Feeds : fs[f] # 0 =>
            fs[f] \in 1..Len(ts) /\ ts[fs[f]].id = f /\ ts[fs[f]].close
      /\ \A i \in 1..Len(ts) : ts[i].close => fs[ts[i].id] >= i
  BY DEF FeedsOK
<1>3. ASSUME NEW f \in Feeds, GivenTo(f, new) = {} PROVE fs2[f] = fs[f]
  BY <1>3
<1>4. ASSUME NEW f \in Feeds, NEW k \in GivenTo(f, new)
      PROVE  \E m \in 1..Len(new) :
                fs2[f] = Len(ts) + m /\ new[m].id = f /\ new[m].close /\ m >= k
  <2>1. GivenTo(f, new) \in SUBSET (1..Len(new)) /\ GivenTo(f, new) # {}
    BY <1>4 DEF GivenTo
  <2>2. Max(GivenTo(f, new)) \in GivenTo(f, new)
        /\ \A x \in GivenTo(f, new) : Max(GivenTo(f, new)) >= x
    BY <1>1, <2>1, GreatestExists
  <2>3. fs2[f] = Len(ts) + Max(GivenTo(f, new))
    BY <2>1
  <2>4. Max(GivenTo(f, new)) \in 1..Len(new) /\ new[Max(GivenTo(f, new))].id = f
        /\ new[Max(GivenTo(f, new))].close
    BY <2>2 DEF GivenTo
  <2> QED
    BY <2>2, <2>3, <2>4
<1> HIDE DEF fs2, all
<1>5. ASSUME NEW f \in Feeds
      PROVE  /\ fs2[f] \in 0..Len(ts) + Len(new) /\ fs2[f] >= fs[f]
             /\ fs2[f] # 0 => fs2[f] \in 1..Len(all) /\ all[fs2[f]].id = f /\ all[fs2[f]].close
  <2>1. CASE GivenTo(f, new) = {}
    BY <1>1, <1>2, <1>3, <2>1
  <2>2. CASE GivenTo(f, new) # {}
    <3>1. PICK m \in 1..Len(new) : fs2[f] = Len(ts) + m /\ new[m].id = f /\ new[m].close
      BY <1>4, <2>2
    <3>2. fs[f] \in 0..Len(ts) /\ Len(ts) + m \in 1..Len(all) /\ all[Len(ts) + m] = new[m]
      BY <1>1, <1>2
    <3> QED
      BY <1>1, <3>1, <3>2
  <2> QED
    BY <2>1, <2>2
<1>6. ASSUME NEW i \in 1..Len(all), all[i].close PROVE fs2[all[i].id] >= i
  <2>1. CASE i \in 1..Len(ts)
    <3>1. ts[i].close /\ all[i] = ts[i] /\ ts[i].id \in Feeds /\ fs[ts[i].id] >= i
      BY <1>1, <1>2, <1>6, <2>1
    <3>2. fs2[ts[i].id] >= fs[ts[i].id] /\ fs2[ts[i].id] \in Nat /\ fs[ts[i].id] \in Nat
      BY <1>1, <1>2, <1>5, <3>1
    <3> QED
      BY <2>1, <3>1, <3>2
  <2>2. CASE \E k \in 1..Len(new) : i = Len(ts) + k
    <3>1. PICK k \in 1..Len(new) : i = Len(ts) + k
      BY <2>2
    <3>2. all[i] = new[k] /\ new[k].close /\ new[k].id \in Feeds
      BY <1>1, <1>6, <3>1
    <3>3. k \in GivenTo(new[k].id, new)
      BY <3>2 DEF GivenTo
    <3>4. PICK m \in 1..Len(new) : fs2[new[k].id] = Len(ts) + m /\ m >= k
      BY <1>4, <3>2, <3>3
    <3> QED
      BY <1>1, <3>1, <3>2, <3>4
  <2> QED
    BY <1>1, <2>1, <2>2
<1>7. fs2 \in [Feeds -> 0..Len(ts) + Len(new)]
  <2>1. fs2 = [f \in Feeds |-> fs2[f]]
    BY DEF fs2
  <2> QED
    BY <1>5, <2>1
<1>8. FeedsOK(all, fs2)
  BY <1>5, <1>6 DEF FeedsOK
<1> QED
  BY <1>7, <1>8 DEF all, fs2

LEMMA SaidMore ==
    ASSUME NEW q \in Seq(Callbacks), NEW ts, SaidOK(q, ts), NEW c \in Callbacks,
           c.kind = "talk" => c.track \in 1..Len(ts) /\ ts[c.track].listens
    PROVE  Append(q, c) \in Seq(Callbacks) /\ SaidOK(Append(q, c), ts)
BY DEF SaidOK

LEMMA SaidLess ==
    ASSUME NEW q \in Seq(Callbacks), NEW ts, SaidOK(q, ts), q # <<>>
    PROVE  Tail(q) \in Seq(Callbacks) /\ SaidOK(Tail(q), ts)
BY DEF SaidOK

LEMMA SaidLater ==
    ASSUME NEW q \in Seq(Callbacks), NEW ts, SaidOK(q, ts), NEW ts2,
           \A i \in 1..Len(ts) : i \in 1..Len(ts2) /\ ts2[i].listens = ts[i].listens
    PROVE  SaidOK(q, ts2)
BY DEF SaidOK

LEMMA CallbacksTyped ==
    /\ Describe \in Callbacks /\ Candidate \in Callbacks
    /\ Describe.kind # "talk" /\ Candidate.kind # "talk"
    /\ \A i, pt \in Nat : Talk(i, pt) \in Callbacks /\ Talk(i, pt).track = i
BY DEF Describe, Candidate, Talk, Callbacks
-----------------------------------------------------------------------------
\* Every step of the connection keeps the feeds with the tracks.

LEMMA FeedsAtInit == TracksInit => FeedIInv
<1> SUFFICES ASSUME TracksInit PROVE FeedIInv
  OBVIOUS
<1>1. source \in Sources /\ codec \in [Feeds -> Negotiators \cup {"none"}]
  <2>1. PICK app \in DemoFeeds \cup Others : source = app.source /\ codec = app.codec
    BY DEF TracksInit
  <2>2. \A name \in {"opus", "pcmu", "none"} : WithAudio(name) \in [Feeds -> Negotiators \cup {"none"}]
    BY DEF WithAudio, Negotiators
  <2>3. CASE app \in DemoFeeds
    <3>1. app.source \in Sources /\ \E name \in {"opus", "pcmu", "none"} : app.codec = WithAudio(name)
      BY <2>3 DEF DemoFeeds, Sources
    <3> QED
      BY <2>1, <2>2, <3>1
  <2>4. CASE app \in Others
    BY <2>1, <2>4, OthersAssumption
  <2> QED
    BY <2>3, <2>4
<1>2. MaxTracks \in Nat
  BY TracksAssumption
<1>3. /\ pc = "none" /\ sig = "stable" /\ tracks = <<>> /\ stray = {} /\ posted = <<>>
      /\ feeds = [f \in Feeds |-> 0] /\ ~talk.taken
  BY DEF TracksInit
<1>4. feeds \in [Feeds -> 0..MaxTracks] /\ FeedsOK(tracks, feeds)
  BY <1>2, <1>3 DEF FeedsOK
<1>5. tracks \in Seq(TrackStates) /\ Len(tracks) = 0 /\ posted \in Seq(Callbacks) /\ Len(posted) = 0
  BY <1>3
<1>6. SaidOK(posted, tracks)
  BY <1>5 DEF SaidOK
<1>7. \A i \in 1..Len(tracks) : TrackOK(tracks[i], codec, pc)
  BY <1>5
<1> QED
  BY <1>1, <1>2, <1>3, <1>4, <1>5, <1>6, <1>7 DEF FeedIInv

\* Of the steps that leave the tracks, the feeds and the connection alone.
StayedPut ==
    /\ source' = source /\ codec' = codec /\ pc' = pc /\ tracks' = tracks /\ feeds' = feeds

LEMMA FeedsStay ==
    ASSUME FeedIInv, StayedPut, sig' \in {"stable", "local"}, stray' \subseteq Feeds,
           posted' \in Seq(Callbacks), SaidOK(posted', tracks), talk'.taken => talk'.connected
    PROVE  FeedIInv'
BY DEF FeedIInv, StayedPut

LEMMA FeedsGrow ==
    ASSUME FeedIInv, pc # "closed", NEW new \in Seq(TrackStates),
           Len(tracks) + Len(new) <= MaxTracks,
           \A k \in 1..Len(new) : TrackOK(new[k], codec, "open"),
           Adds(new), Post(Describe), pc' = "open", sig' \in {"stable", "local"},
           source' = source, codec' = codec, stray' = stray, talk' = talk
    PROVE  FeedIInv'
<1> DEFINE all == tracks \o new
<1> DEFINE fs2 == [f \in Feeds |-> IF GivenTo(f, new) = {} THEN feeds[f]
                                   ELSE Len(tracks) + Max(GivenTo(f, new))]
<1>1. tracks' = all /\ feeds' = fs2
  BY DEF Adds
<1>2. /\ all \in Seq(TrackStates) /\ Len(all) = Len(tracks) + Len(new)
      /\ \A i \in 1..Len(tracks) : i \in 1..Len(all) /\ all[i] = tracks[i]
      /\ \A k \in 1..Len(new) : Len(tracks) + k \in 1..Len(all) /\ all[Len(tracks) + k] = new[k]
      /\ \A i \in 1..Len(all) : i \in 1..Len(tracks) \/ \E k \in 1..Len(new) : i = Len(tracks) + k
  BY Joined DEF FeedIInv
<1>3. fs2 \in [Feeds -> 0..Len(tracks) + Len(new)] /\ FeedsOK(all, fs2)
  <2>1. tracks \in Seq(TrackStates) /\ FeedsOK(tracks, feeds) /\ feeds \in [Feeds -> 0..MaxTracks]
    BY DEF FeedIInv
  <2>2. feeds \in [Feeds -> 0..Len(tracks)]
    <3>1. \A f \in Feeds : feeds[f] \in 0..Len(tracks)
      BY <2>1 DEF FeedsOK
    <3> QED
      BY <2>1, <3>1
  <2>3. \A t : TrackOK(t, codec, "open") /\ t.close => t.id \in Feeds
    BY DEF TrackOK
  <2>4. \A i \in 1..Len(tracks) : tracks[i].close => tracks[i].id \in Feeds
    BY DEF FeedIInv, TrackOK
  <2>5. \A k \in 1..Len(new) : new[k].close => new[k].id \in Feeds
    BY <2>3
  <2> HIDE DEF all, fs2
  <2> QED
    BY <2>1, <2>2, <2>4, <2>5, FeedsAdd DEF all, fs2
<1> HIDE DEF all, fs2
<1>4. fs2 \in [Feeds -> 0..MaxTracks]
  <2>1. 0..Len(tracks) + Len(new) \subseteq 0..MaxTracks
    BY TracksAssumption DEF FeedIInv
  <2> QED
    BY <1>3, <2>1
<1>5. ASSUME NEW i \in 1..Len(all) PROVE TrackOK(all[i], codec, "open")
  <2>1. CASE i \in 1..Len(tracks)
    <3>1. all[i] = tracks[i] /\ TrackOK(tracks[i], codec, pc)
      BY <1>2, <2>1 DEF FeedIInv
    <3> QED
      BY <3>1 DEF TrackOK
  <2>2. CASE \E k \in 1..Len(new) : i = Len(tracks) + k
    BY <1>2, <2>2
  <2> QED
    BY <1>2, <2>1, <2>2
<1>6. posted' \in Seq(Callbacks) /\ SaidOK(posted', all)
  <2>1. posted' = Append(posted, Describe)
    BY DEF Post
  <2>2. Describe \in Callbacks /\ Describe.kind # "talk"
    BY CallbacksTyped
  <2>3. posted \in Seq(Callbacks) /\ SaidOK(posted, tracks)
    BY DEF FeedIInv
  <2>4. \A i \in 1..Len(tracks) : i \in 1..Len(all) /\ all[i].listens = tracks[i].listens
    BY <1>2
  <2>5. SaidOK(posted, all)
    BY <2>3, <2>4, SaidLater
  <2> QED
    BY <2>1, <2>2, <2>3, <2>5, SaidMore
<1> QED
  BY <1>1, <1>2, <1>3, <1>4, <1>5, <1>6 DEF FeedIInv

LEMMA FeedsOffer ==
    ASSUME FeedIInv, NEW offered \in Seq(OfferedTracks), NEW listed \in BOOLEAN,
           OffersTracks(offered, listed)
    PROVE  FeedIInv'
<1>1. PICK access \in BOOLEAN :
        Adds([k \in 1..Len(offered) |-> HandleTrackEvent(offered[k], listed, access)])
  BY DEF OffersTracks
<1> DEFINE new == [k \in 1..Len(offered) |-> HandleTrackEvent(offered[k], listed, access)]
<1>2. ASSUME NEW k \in 1..Len(offered)
      PROVE  /\ HandleTrackEvent(offered[k], listed, access) \in TrackStates
             /\ TrackOK(HandleTrackEvent(offered[k], listed, access), codec, "open")
  <2>1. CodecTyped /\ offered[k] \in OfferedTracks
    BY DEF FeedIInv, CodecTyped
  <2> QED
    BY <2>1, OfferedIsOK
<1>3. /\ new \in Seq(TrackStates) /\ Len(new) = Len(offered)
      /\ \A k \in 1..Len(new) : TrackOK(new[k], codec, "open")
  <2>1. Len(offered) \in Nat /\ new \in [1..Len(offered) -> TrackStates]
    BY <1>2
  <2>2. new \in Seq(TrackStates) /\ Len(new) = Len(offered)
    <3> HIDE DEF new
    <3> QED
      BY <2>1
  <2> QED
    BY <1>2, <2>2
<1>4. Adds(new)
  BY <1>1
<1> HIDE DEF new
<1> QED
  BY <1>3, <1>4, FeedsGrow DEF OffersTracks, FeedIInv

LEMMA FeedsCoap ==
    ASSUME FeedIInv, NEW list \in Seq(Feeds), CoapTracks(list)
    PROVE  FeedIInv'
<1> DEFINE new == [k \in 1..Len(list) |-> AddConnection(NewMedia(list[k]))]
<1>1. Adds(new)
  BY DEF CoapTracks, CreateTracks
<1>2. ASSUME NEW k \in 1..Len(list)
      PROVE  /\ AddConnection(NewMedia(list[k])) \in TrackStates
             /\ TrackOK(AddConnection(NewMedia(list[k])), codec, "open")
  <2>1. CodecTyped /\ Known(list[k])
    BY DEF FeedIInv, CodecTyped, CoapTracks
  <2> QED
    BY <2>1, ListedIsOK
<1>3. /\ new \in Seq(TrackStates) /\ Len(new) = Len(list)
      /\ \A k \in 1..Len(new) : TrackOK(new[k], codec, "open")
  <2>1. Len(list) \in Nat /\ new \in [1..Len(list) -> TrackStates]
    BY <1>2
  <2>2. new \in Seq(TrackStates) /\ Len(new) = Len(list)
    <3> HIDE DEF new
    <3> QED
      BY <2>1
  <2> QED
    BY <1>2, <2>2
<1> HIDE DEF new
<1> QED
  BY <1>1, <1>3, FeedsGrow DEF CoapTracks, CreateTracks

LEMMA FeedsClose ==
    ASSUME FeedIInv, Closed
    PROVE  FeedIInv'
<1>1. /\ pc = "open" /\ pc' = "closed"
      /\ feeds' = [f \in Feeds |->
                     IF \E i \in 1..Len(tracks) : tracks[i].close /\ tracks[i].id = f
                     THEN 0 ELSE feeds[f]]
      /\ tracks' = [i \in 1..Len(tracks) |-> ConnectionClosed(tracks[i])]
      /\ UNCHANGED <<source, codec, sig, meta, stray, posted, told, talk>>
  BY DEF Closed
<1>2. ASSUME NEW t \in TrackStates, TrackOK(t, codec, "open")
      PROVE  /\ ConnectionClosed(t) \in TrackStates /\ ~ConnectionClosed(t).close
             /\ ConnectionClosed(t).listens = t.listens
             /\ TrackOK(ConnectionClosed(t), codec, "closed")
  <2> DEFINE c == ConnectionClosed(t)
  <2>1. c = [t EXCEPT !.close = FALSE, !.recv = FALSE]
    BY DEF ConnectionClosed
  <2> HIDE DEF c
  <2>2. /\ c \in TrackStates /\ c.close = FALSE /\ c.recv = FALSE
        /\ c.error = t.error /\ c.id = t.id /\ c.rtc = t.rtc /\ c.codecs = t.codecs
        /\ c.dst = t.dst /\ c.listens = t.listens
    BY <2>1 DEF TrackStates
  <2>3. \A name : Agreed(t, name) => Agreed(c, name)
    BY <2>2 DEF Agreed
  <2>4. TrackOK(c, codec, "closed")
    BY <1>2, <2>2, <2>3 DEF TrackOK
  <2> QED
    BY <2>2, <2>4 DEF c
<1>3. /\ Len(tracks) \in Nat
      /\ \A i \in 1..Len(tracks) : tracks[i] \in TrackStates /\ TrackOK(tracks[i], codec, "open")
  BY <1>1 DEF FeedIInv
<1>4. /\ tracks' \in Seq(TrackStates) /\ Len(tracks') = Len(tracks)
      /\ \A i \in 1..Len(tracks) : tracks'[i] = ConnectionClosed(tracks[i])
  <2>1. tracks' \in [1..Len(tracks) -> TrackStates]
    BY <1>1, <1>2, <1>3
  <2>2. \A i \in 1..Len(tracks) : tracks'[i] = ConnectionClosed(tracks[i])
    BY <1>1
  <2>3. tracks' \in Seq(TrackStates) /\ Len(tracks') = Len(tracks)
    BY <1>3, <2>1
  <2> QED
    BY <2>2, <2>3
<1>5. \A i \in 1..Len(tracks) :
        /\ ~tracks'[i].close /\ tracks'[i].listens = tracks[i].listens
        /\ TrackOK(tracks'[i], codec, "closed")
  BY <1>2, <1>3, <1>4
<1>6. feeds' \in [Feeds -> 0..MaxTracks] /\ \A f \in Feeds : feeds'[f] = 0
  <2>1. feeds \in [Feeds -> 0..MaxTracks] /\ 0 \in 0..MaxTracks
    BY TracksAssumption DEF FeedIInv
  <2>2. \A f \in Feeds : feeds[f] # 0 =>
            \E i \in 1..Len(tracks) : tracks[i].close /\ tracks[i].id = f
    BY DEF FeedIInv, FeedsOK
  <2>3. \A f \in Feeds : feeds'[f] = 0
    BY <1>1, <2>2
  <2>4. feeds' = [f \in Feeds |-> feeds'[f]]
    BY <1>1
  <2> QED
    BY <2>1, <2>3, <2>4
<1>7. FeedsOK(tracks', feeds')
  BY <1>4, <1>5, <1>6 DEF FeedsOK
<1>8. SaidOK(posted', tracks')
  <2>1. posted \in Seq(Callbacks) /\ SaidOK(posted, tracks)
    BY DEF FeedIInv
  <2>2. \A i \in 1..Len(tracks) : i \in 1..Len(tracks') /\ tracks'[i].listens = tracks[i].listens
    BY <1>4, <1>5
  <2>3. SaidOK(posted, tracks')
    BY <2>1, <2>2, SaidLater
  <2> QED
    BY <1>1, <2>3
<1> QED
  BY <1>1, <1>4, <1>5, <1>6, <1>7, <1>8 DEF FeedIInv

LEMMA FeedsTalk ==
    ASSUME FeedIInv, NEW i \in Nat, ClientTalks(i)
    PROVE  FeedIInv'
<1>1. i \in 1..Len(tracks) /\ tracks[i].listens
  BY DEF ClientTalks
<1>2. PICK k \in 1..Len(tracks[i].codecs) : posted' = Append(posted, Talk(i, tracks[i].codecs[k].pt))
  BY DEF ClientTalks, Post
<1>3. tracks[i].codecs[k].pt \in Nat
  <2>1. tracks[i] \in TrackStates
    BY <1>1 DEF FeedIInv
  <2>2. tracks[i].codecs \in Seq(Codecs)
    BY <2>1, TrackFields
  <2>3. tracks[i].codecs[k] \in Codecs
    BY <2>2
  <2> QED
    BY <2>3 DEF Codecs
<1> DEFINE c == Talk(i, tracks[i].codecs[k].pt)
<1>4. c \in Callbacks /\ c.track = i
  BY <1>3, CallbacksTyped
<1> HIDE DEF c
<1>5. posted \in Seq(Callbacks) /\ SaidOK(posted, tracks)
  BY DEF FeedIInv
<1>6. Append(posted, c) \in Seq(Callbacks) /\ SaidOK(Append(posted, c), tracks)
  BY <1>1, <1>4, <1>5, SaidMore
<1> QED
  BY <1>2, <1>6, FeedsStay DEF ClientTalks, StayedPut, FeedIInv, c

LEMMA FeedsMessage ==
    ASSUME FeedIInv, HandleTrackMessage
    PROVE  FeedIInv'
<1> DEFINE c == Head(posted)
<1> DEFINE t == tracks[c.track]
<1>1. posted \in Seq(Callbacks) /\ posted # <<>> /\ SaidOK(posted, tracks) /\ c.kind = "talk"
  BY DEF FeedIInv, HandleTrackMessage
<1>2. c.track \in 1..Len(tracks) /\ t.listens
  <2>1. c = posted[1] /\ 1 \in 1..Len(posted)
    BY <1>1
  <2> QED
    BY <1>1, <2>1 DEF SaidOK
<1>3. posted' = Tail(posted) /\ Tail(posted) \in Seq(Callbacks) /\ SaidOK(Tail(posted), tracks)
  BY <1>1, SaidLess DEF HandleTrackMessage
<1>4. talk' = [taken |-> Accepts(t, c.pt), connected |-> feeds[t.id] # 0,
               lost |-> t.recv /\ ~Accepts(t, c.pt)]
  BY DEF HandleTrackMessage
<1>5. ASSUME Accepts(t, c.pt) PROVE feeds[t.id] # 0
  <2>1. t.recv
    BY <1>5 DEF Accepts
  <2>2. t.close /\ t.id \in Feeds
    BY <1>2, <2>1 DEF FeedIInv, TrackOK
  <2>3. feeds[t.id] >= c.track /\ feeds[t.id] \in Nat
    BY <1>2, <2>2 DEF FeedIInv, FeedsOK
  <2> QED
    BY <1>2, <2>3
<1> HIDE DEF t, c
<1>6. talk'.taken => talk'.connected
  BY <1>4, <1>5
<1>7. StayedPut /\ sig' = sig /\ stray' = stray
  BY DEF HandleTrackMessage, StayedPut
<1>8. sig' \in {"stable", "local"} /\ stray' \subseteq Feeds
  BY <1>7 DEF FeedIInv
<1> QED
  BY <1>3, <1>6, <1>7, <1>8, FeedsStay

\* The lists of the requests.
LEMMA ListsAreSeqs ==
    /\ \A list \in SeqOf(Feeds, 2) : list \in Seq(Feeds)
    /\ <<"video">> \in Seq(Feeds)
    /\ <<"audio", "video">> \in Seq(Feeds) /\ <<"video", "audio">> \in Seq(Feeds)
<1>1. ASSUME NEW list \in SeqOf(Feeds, 2) PROVE list \in Seq(Feeds)
  <2>1. PICK n \in 0..2 : list \in [1..n -> Feeds]
    BY DEF SeqOf
  <2> QED
    BY <2>1
<1>2. "video" \in Feeds /\ "audio" \in Feeds
  BY DEF Feeds
<1> QED
  BY <1>1, <1>2

LEMMA OffersAreSeqs ==
    \A offered \in UNION {[1..n -> OfferedTracks] : n \in 1..2} : offered \in Seq(OfferedTracks)
<1> SUFFICES ASSUME NEW offered \in UNION {[1..n -> OfferedTracks] : n \in 1..2}
             PROVE  offered \in Seq(OfferedTracks)
  OBVIOUS
<1>1. PICK n \in 1..2 : offered \in [1..n -> OfferedTracks]
  OBVIOUS
<1> QED
  BY <1>1

LEMMA FeedsStep == FeedIInv /\ [TracksNext]_tracksVars => FeedIInv'
<1> SUFFICES ASSUME FeedIInv, [TracksNext]_tracksVars PROVE FeedIInv'
  OBVIOUS
<1>0. /\ sig \in {"stable", "local"} /\ stray \subseteq Feeds /\ posted \in Seq(Callbacks)
      /\ SaidOK(posted, tracks) /\ (talk.taken => talk.connected)
  BY DEF FeedIInv
<1>1. ASSUME NEW listed \in BOOLEAN,
             NEW offered \in UNION {[1..n -> OfferedTracks] : n \in 1..2},
             OffersTracks(offered, listed)
      PROVE  FeedIInv'
  BY <1>1, OffersAreSeqs, FeedsOffer
<1>2. ASSUME NEW listed \in BOOLEAN, AnswersTracks(listed) PROVE FeedIInv'
  BY <1>0, <1>2, FeedsStay DEF AnswersTracks, StayedPut
<1>3. ASSUME SendDescription \/ SendCandidate PROVE FeedIInv'
  <2>1. posted # <<>> /\ posted' = Tail(posted)
    BY <1>3 DEF SendDescription, SendCandidate
  <2>2. Tail(posted) \in Seq(Callbacks) /\ SaidOK(Tail(posted), tracks)
    BY <1>0, <2>1, SaidLess
  <2>3. StayedPut /\ sig' = sig /\ stray' = stray /\ talk' = talk
    BY <1>3 DEF SendDescription, SendCandidate, StayedPut
  <2> QED
    BY <1>0, <2>1, <2>2, <2>3, FeedsStay
<1>4. ASSUME LocalCandidate PROVE FeedIInv'
  <2>1. posted' = Append(posted, Candidate)
    BY <1>4 DEF LocalCandidate, Post
  <2>2. Append(posted, Candidate) \in Seq(Callbacks) /\ SaidOK(Append(posted, Candidate), tracks)
    BY <1>0, CallbacksTyped, SaidMore
  <2>3. StayedPut /\ sig' = sig /\ stray' = stray /\ talk' = talk
    BY <1>4 DEF LocalCandidate, StayedPut
  <2> QED
    BY <1>0, <2>1, <2>2, <2>3, FeedsStay
<1>5. ASSUME NEW list \in SeqOf(Feeds, 2), CoapTracks(list) PROVE FeedIInv'
  BY <1>5, ListsAreSeqs, FeedsCoap
<1>6. ASSUME CoapVideo PROVE FeedIInv'
  <2>1. CoapTracks(<<"video">>) \/ CoapTracks(<<"audio", "video">>) \/ CoapTracks(<<"video", "audio">>)
    BY <1>6 DEF CoapVideo
  <2> QED
    BY <2>1, ListsAreSeqs, FeedsCoap
<1>7. ASSUME NEW f \in Feeds, CoapElsewhere(f) PROVE FeedIInv'
  <2>1. stray' \subseteq Feeds
    BY <1>0, <1>7 DEF CoapElsewhere
  <2>2. StayedPut /\ sig' = sig /\ posted' = posted /\ talk' = talk
    BY <1>7 DEF CoapElsewhere, StayedPut
  <2> QED
    BY <1>0, <2>1, <2>2, FeedsStay
<1>8. ASSUME NEW i \in 1..MaxTracks, ClientTalks(i) PROVE FeedIInv'
  <2>1. i \in Nat
    OBVIOUS
  <2> QED
    BY <1>8, <2>1, FeedsTalk
<1>9. CASE UNCHANGED tracksVars
  BY <1>0, <1>9, FeedsStay DEF tracksVars, StayedPut
<1> QED
  BY <1>1, <1>2, <1>3, <1>4, <1>5, <1>6, <1>7, <1>8, <1>9, FeedsMessage, FeedsClose DEF TracksNext
-----------------------------------------------------------------------------
\* The metadata, and what was told.

LEMMA MetaFields ==
    ASSUME NEW m \in MetaStates
    PROVE  /\ m.listed \in BOOLEAN /\ m.tracks \in Seq(Entries)
           /\ m.status \in {"none", "OK", "FAILED"} /\ m.named \in SUBSET (1..MaxTracks)
BY DEF MetaStates

Mids == 1..MaxTracks
Ids == Feeds \cup {Unknown, NoId}
Fates == Errors \cup {"none"}

LEMMA EntryTyped ==
    ASSUME NEW n \in Mids, NEW d \in Ids, NEW e \in Fates
    PROVE  /\ Entry(n, d, e) \in Entries
           /\ Entry(n, d, e).mid = n /\ Entry(n, d, e).id = d /\ Entry(n, d, e).error = e
BY DEF Entry, Entries, Mids, Ids, Fates

LEMMA EntryFields ==
    ASSUME NEW e \in Entries
    PROVE  e.mid \in 1..MaxTracks /\ e.id \in Feeds \cup {Unknown, NoId} /\ e.error \in Errors \cup {"none"}
BY DEF Entries

LEMMA EntryWithError ==
    ASSUME NEW e \in Entries, NEW error \in Errors \cup {"none"}
    PROVE  /\ [e EXCEPT !.error = error] \in Entries
           /\ [e EXCEPT !.error = error].mid = e.mid
           /\ [e EXCEPT !.error = error].error = error
BY DEF Entries

LEMMA ErrorsAreTold ==
    /\ \A error \in Errors : TrackErrorToString(error) \in Errors \cup {"none"}
    /\ TrackErrorToString("OK") = "none"
BY DEF TrackErrorToString

\* Tracks are only added, and keep their errors.
Longer(ts, ts2) ==
    \A i \in 1..Len(ts) : i \in 1..Len(ts2) /\ ts2[i].error = ts[i].error

LEMMA ToldLater ==
    ASSUME NEW s, NEW ts, NEW ts2, ToldOK(s, ts), Longer(ts, ts2),
           Len(ts) \in Nat, Len(ts2) \in Nat
    PROVE  ToldOK(s, ts2)
<1>1. s.of \in 0..Len(ts) /\ s.of \in 0..Len(ts2)
  <2>1. s.of \in 0..Len(ts)
    BY DEF ToldOK
  <2>2. s.of = 0 \/ s.of \in 1..Len(ts2)
    BY <2>1 DEF Longer
  <2> QED
    BY <2>1, <2>2
<1>2. \A i \in 1..s.of : ts2[i].error = ts[i].error
  BY <1>1 DEF Longer
<1>3. CASE ~s.listed
  BY <1>1, <1>3 DEF ToldOK
<1>4. CASE s.listed
  <2>1. /\ s.named \subseteq 1..s.of
        /\ \A i \in 1..s.of :
            \E k \in 1..Len(s.tracks) :
                /\ s.tracks[k].mid = i
                /\ s.tracks[k].error = TrackErrorToString(ts[i].error)
                /\ \A j \in 1..Len(s.tracks) : s.tracks[j].mid = i => j = k
        /\ (\E i \in s.named : ts[i].error # "OK") => s.status = "FAILED"
        /\ s.status = "FAILED" => \E i \in 1..s.of : ts[i].error # "OK"
    BY <1>4 DEF ToldOK
  <2>2. \A i \in 1..s.of :
            \E k \in 1..Len(s.tracks) :
                /\ s.tracks[k].mid = i
                /\ s.tracks[k].error = TrackErrorToString(ts2[i].error)
                /\ \A j \in 1..Len(s.tracks) : s.tracks[j].mid = i => j = k
    BY <1>2, <2>1
  <2>3. (\E i \in s.named : ts2[i].error # "OK") => s.status = "FAILED"
    BY <1>2, <2>1
  <2>4. s.status = "FAILED" => \E i \in 1..s.of : ts2[i].error # "OK"
    BY <1>2, <2>1
  <2> QED
    BY <1>1, <2>1, <2>2, <2>3, <2>4 DEF ToldOK
<1> QED
  BY <1>3, <1>4

LEMMA EntriesLater ==
    ASSUME NEW m, NEW ts, NEW ts2, EntriesOK(m, ts), Longer(ts, ts2)
    PROVE  EntriesOK(m, ts2)
BY DEF EntriesOK, Longer

\* The entries that the connection adds for its tracks from n + 1 on.
LEMMA EntriesAdd ==
    ASSUME NEW m, m.tracks \in Seq(Entries), NEW ts, Len(ts) \in Nat, NEW ts2,
           EntriesOK(m, ts), Longer(ts, ts2),
           NEW new \in Seq(Entries),
           \A k \in 1..Len(new) :
                new[k].mid = Len(ts) + k /\ new[k].mid \in 1..Len(ts2) /\ new[k].error = "none",
           NEW m2, m2.tracks = m.tracks \o new, m2.named = m.named
    PROVE  EntriesOK(m2, ts2)
<1> DEFINE L == Len(m.tracks)
<1>1. /\ L \in Nat /\ Len(new) \in Nat /\ Len(m2.tracks) = L + Len(new)
      /\ \A k \in 1..L : k \in 1..Len(m2.tracks) /\ m2.tracks[k] = m.tracks[k]
      /\ \A k \in 1..Len(new) : m2.tracks[L + k] = new[k]
      /\ \A k \in 1..Len(m2.tracks) : k \in 1..L \/ \E j \in 1..Len(new) : k = L + j
  BY Joined
<1>2. EntriesOK(m, ts2)
  BY EntriesLater
<1>3. \A k \in 1..L : m.tracks[k].mid \in 1..Len(ts)
  BY DEF EntriesOK
<1> HIDE DEF L
<1>4. ASSUME NEW k \in 1..Len(m2.tracks), k \notin 1..L
      PROVE  /\ m2.tracks[k].mid = Len(ts) + (k - L) /\ k - L \in 1..Len(new)
             /\ m2.tracks[k].mid \in 1..Len(ts2) /\ m2.tracks[k].error = "none"
  <2>1. PICK j \in 1..Len(new) : k = L + j
    BY <1>1, <1>4
  <2>2. k - L = j /\ m2.tracks[k] = new[j]
    <3>1. m2.tracks[L + j] = new[j] /\ L \in Nat
      BY <1>1
    <3>2. k - L = j
      BY <2>1, <3>1
    <3> QED
      BY <2>1, <3>1, <3>2
  <2>3. /\ new[j].mid = Len(ts) + j /\ new[j].mid \in 1..Len(ts2) /\ new[j].error = "none"
    OBVIOUS
  <2> QED
    BY <2>2, <2>3
<1>5. ASSUME NEW k \in 1..Len(m2.tracks), NEW j \in 1..Len(m2.tracks),
             m2.tracks[j].mid = m2.tracks[k].mid
      PROVE  j = k
  <2>1. CASE k \in 1..L /\ j \in 1..L
    BY <1>1, <1>2, <1>5, <2>1 DEF EntriesOK, L
  <2>2. CASE k \in 1..L /\ j \notin 1..L
    BY <1>1, <1>3, <1>4, <1>5, <2>2
  <2>3. CASE k \notin 1..L /\ j \in 1..L
    BY <1>1, <1>3, <1>4, <1>5, <2>3
  <2>4. CASE k \notin 1..L /\ j \notin 1..L
    <3>1. Len(ts) + (k - L) = Len(ts) + (j - L)
      BY <1>4, <1>5, <2>4
    <3> QED
      BY <1>1, <3>1
  <2> QED
    BY <2>1, <2>2, <2>3, <2>4
<1>6. ASSUME NEW k \in 1..Len(m2.tracks)
      PROVE  /\ m2.tracks[k].mid \in 1..Len(ts2)
             /\ m2.tracks[k].error \in {"none", TrackErrorToString(ts2[m2.tracks[k].mid].error)}
  BY <1>1, <1>2, <1>4 DEF EntriesOK, L
<1>7. \A i \in m2.named : \E k \in 1..Len(m2.tracks) : m2.tracks[k].mid = i
  BY <1>1, <1>2 DEF EntriesOK, L
<1> QED
  BY <1>5, <1>6, <1>7 DEF EntriesOK

\* What updateMetaTracks makes of the metadata, and what is told of it.
LEMMA Updated ==
    ASSUME NEW m \in MetaStates, EntriesOK(m, tracks),
           tracks \in Seq(TrackStates), Len(tracks) <= MaxTracks,
           NEW s, s = [listed |-> UpdateMetaTracks(m).listed, tracks |-> UpdateMetaTracks(m).tracks,
                       status |-> UpdateMetaTracks(m).status, of |-> Len(tracks), named |-> m.named]
    PROVE  /\ UpdateMetaTracks(m) \in MetaStates /\ EntriesOK(UpdateMetaTracks(m), tracks)
           /\ ToldOK(s, tracks)
<1> DEFINE u == UpdateMetaTracks(m)
<1> DEFINE n == Len(tracks)
<1>0. s.listed = u.listed /\ s.tracks = u.tracks /\ s.status = u.status /\ s.of = n /\ s.named = m.named
  OBVIOUS
<1>1. n \in Nat /\ n <= MaxTracks /\ MaxTracks \in Nat /\ \A i \in 1..n : i \in 1..MaxTracks
  BY TracksAssumption
<1>2. CASE ~m.listed
  <2>1. u = [m EXCEPT !.status = "OK"]
    BY <1>2 DEF UpdateMetaTracks
  <2> HIDE DEF u
  <2>2. u \in MetaStates /\ u.tracks = m.tracks /\ u.named = m.named /\ ~u.listed
    BY <1>2, <2>1 DEF MetaStates
  <2>3. EntriesOK(u, tracks)
    BY <2>2 DEF EntriesOK
  <2>4. ToldOK(s, tracks)
    BY <1>0, <1>1, <2>2 DEF ToldOK
  <2> QED
    BY <2>2, <2>3, <2>4 DEF u
<1>3. CASE m.listed
  <2> DEFINE L == Len(m.tracks)
  <2> DEFINE Refused(i) == tracks[i].error # "OK"
  <2> DEFINE found == {m.tracks[k].mid : k \in 1..L}
  <2> DEFINE told1 == [k \in 1..L |->
                        IF Refused(m.tracks[k].mid)
                        THEN [m.tracks[k] EXCEPT !.error =
                                TrackErrorToString(tracks[m.tracks[k].mid].error)]
                        ELSE m.tracks[k]]
  <2> DEFINE mids == [i \in 1..n |-> i]
  <2> DEFINE missed == 1..n \ found
  <2> DEFINE rest == Kept(mids, missed)
  <2> DEFINE added == [k \in 1..Len(rest) |->
                        Entry(rest[k], tracks[rest[k]].id, TrackErrorToString(tracks[rest[k]].error))]
  <2> DEFINE failed == \E i \in found : Refused(i)
  <2> DEFINE es == told1 \o added
  <2>1. u = [m EXCEPT !.tracks = es, !.status = IF failed THEN "FAILED" ELSE "OK"]
    BY <1>3, Zenon DEF UpdateMetaTracks
  <2>2. \A i \in 1..n : tracks[i].error \in Errors /\ tracks[i].id \in Feeds \cup {Unknown, NoId}
    <3>1. \A i \in 1..n : tracks[i] \in TrackStates
      OBVIOUS
    <3> QED
      BY <3>1, TrackFields
  <2>3. m.tracks \in Seq(Entries) /\ L \in Nat /\ m.named \in SUBSET (1..MaxTracks)
    BY MetaFields
  <2>4. \A k \in 1..L :
            /\ m.tracks[k] \in Entries /\ m.tracks[k].mid \in 1..n
            /\ m.tracks[k].error \in {"none", TrackErrorToString(tracks[m.tracks[k].mid].error)}
            /\ \A j \in 1..L : m.tracks[j].mid = m.tracks[k].mid => j = k
    BY <2>3 DEF EntriesOK
  <2>5. \A i \in m.named : i \in 1..n /\ \E k \in 1..L : m.tracks[k].mid = i
    BY <2>4 DEF EntriesOK
  <2>6. /\ told1 \in Seq(Entries) /\ Len(told1) = L
        /\ \A k \in 1..L :
            /\ told1[k].mid = m.tracks[k].mid
            /\ told1[k].error = TrackErrorToString(tracks[m.tracks[k].mid].error)
    <3>1. ASSUME NEW k \in 1..L
          PROVE  /\ told1[k] \in Entries /\ told1[k].mid = m.tracks[k].mid
                 /\ told1[k].error = TrackErrorToString(tracks[m.tracks[k].mid].error)
      <4> DEFINE e == m.tracks[k]
      <4> DEFINE error == TrackErrorToString(tracks[e.mid].error)
      <4>1. e \in Entries /\ e.mid \in 1..n /\ e.error \in {"none", error}
        BY <2>4
      <4>2. tracks[e.mid].error \in Errors /\ error \in Errors \cup {"none"}
        BY <2>2, <4>1, ErrorsAreTold
      <4>3. told1[k] = IF Refused(e.mid) THEN [e EXCEPT !.error = error] ELSE e
        OBVIOUS
      <4>4. CASE Refused(e.mid)
        <5>1. told1[k] = [e EXCEPT !.error = error]
          BY <4>3, <4>4
        <5> HIDE DEF told1, e, error
        <5>2. told1[k] \in Entries /\ told1[k].mid = e.mid /\ told1[k].error = error
          BY <4>1, <4>2, <5>1, EntryWithError
        <5> QED
          BY <5>2 DEF e, error
      <4>5. CASE ~Refused(e.mid)
        <5>1. told1[k] = e /\ error = "none"
          BY <4>3, <4>5, ErrorsAreTold
        <5> HIDE DEF told1
        <5> QED
          BY <4>1, <5>1
      <4> QED
        BY <4>4, <4>5
    <3>2. told1 \in [1..L -> Entries]
      <4>1. told1 = [k \in 1..L |-> told1[k]]
        OBVIOUS
      <4> HIDE DEF told1
      <4> QED
        BY <3>1, <4>1
    <3> HIDE DEF told1
    <3>3. told1 \in Seq(Entries) /\ Len(told1) = L
      BY <2>3, <3>2
    <3> QED
      BY <3>1, <3>3
  <2>7. PICK at : From(rest, mids, missed, n, at)
    <3>1. mids \in Seq(1..n) /\ Len(mids) = n
      BY <1>1
    <3> HIDE DEF mids, missed, n
    <3> QED
      BY <3>1, KeptFrom
  <2>8. rest \in Seq(1..n)
    <3>1. mids \in Seq(1..n)
      BY <1>1
    <3> HIDE DEF mids, missed, n
    <3> QED
      BY <3>1, KeptFrom
  <2>9. /\ \A i \in 1..n : mids[i] = i
        /\ \A i \in 1..n : i \in missed <=> ~\E k \in 1..L : m.tracks[k].mid = i
    OBVIOUS
  <2> HIDE DEF found, told1, mids, missed, rest, es, failed, u, n, L
  <2>10. /\ Len(rest) \in Nat
         /\ \A k \in 1..Len(rest) : rest[k] \in 1..n /\ rest[k] \in missed
         /\ \A j, k \in 1..Len(rest) : rest[j] = rest[k] => j = k
         /\ \A i \in 1..n : i \in missed => \E k \in 1..Len(rest) : rest[k] = i
    <3>1. Len(rest) \in Nat
      BY <2>8
    <3>2. /\ \A k \in 1..Len(rest) : at[k] \in 1..n /\ rest[k] = mids[at[k]] /\ mids[at[k]] \in missed
          /\ \A j, k \in 1..Len(rest) : at[j] = at[k] => j = k
          /\ \A i \in 1..n : mids[i] \in missed => \E k \in 1..Len(rest) : at[k] = i
      BY <2>7 DEF From
    <3>3. \A k \in 1..Len(rest) : rest[k] = at[k]
      BY <2>9, <3>2
    <3> QED
      BY <2>9, <3>1, <3>2, <3>3
  <2>11. /\ added \in Seq(Entries) /\ Len(added) = Len(rest)
         /\ \A k \in 1..Len(rest) :
            /\ added[k].mid = rest[k]
            /\ added[k].error = TrackErrorToString(tracks[rest[k]].error)
    <3>1. ASSUME NEW k \in 1..Len(rest)
          PROVE  /\ added[k] \in Entries /\ added[k].mid = rest[k]
                 /\ added[k].error = TrackErrorToString(tracks[rest[k]].error)
      <4> DEFINE mid1 == rest[k]
      <4> DEFINE fate == TrackErrorToString(tracks[mid1].error)
      <4>1. mid1 \in 1..n /\ mid1 \in 1..MaxTracks
        BY <1>1, <2>10 DEF n
      <4>2. tracks[mid1].id \in Feeds \cup {Unknown, NoId} /\ fate \in Errors \cup {"none"}
        BY <2>2, <4>1, ErrorsAreTold DEF n
      <4>3. added[k] = Entry(mid1, tracks[mid1].id, fate)
        OBVIOUS
      <4> DEFINE whose == tracks[mid1].id
      <4> HIDE DEF added, whose, mid1, fate
      <4>4. Entry(mid1, whose, fate) \in Entries /\ Entry(mid1, whose, fate).mid = mid1 /\ Entry(mid1, whose, fate).error = fate
        <5>1. mid1 \in Mids
          BY <4>1 DEF Mids
        <5>2. whose \in Ids /\ fate \in Fates
          BY <4>2 DEF whose, Ids, Fates
        <5> QED
          BY <5>1, <5>2, EntryTyped
      <4>5. added[k] = Entry(mid1, whose, fate)
        BY <4>3 DEF whose
      <4>6. added[k] \in Entries /\ added[k].mid = mid1 /\ added[k].error = fate
        BY <4>4, <4>5
      <4> QED
        BY <4>6 DEF mid1, fate
    <3>2. added \in [1..Len(rest) -> Entries]
      <4>1. added = [k \in 1..Len(rest) |-> added[k]]
        OBVIOUS
      <4> HIDE DEF added
      <4> QED
        BY <3>1, <4>1
    <3> HIDE DEF added
    <3>3. added \in Seq(Entries) /\ Len(added) = Len(rest)
      BY <2>10, <3>2
    <3> QED
      BY <3>1, <3>3
  <2> HIDE DEF added
  <2>12. /\ es \in Seq(Entries) /\ Len(es) = L + Len(rest)
         /\ \A k \in 1..L : k \in 1..Len(es) /\ es[k] = told1[k]
         /\ \A k \in 1..Len(rest) : L + k \in 1..Len(es) /\ es[L + k] = added[k]
         /\ \A k \in 1..Len(es) : k \in 1..L \/ \E j \in 1..Len(rest) : k = L + j
    <3>1. /\ told1 \in Seq(Entries) /\ Len(told1) = L
          /\ added \in Seq(Entries) /\ Len(added) = Len(rest)
      BY <2>6, <2>11
    <3>2. /\ told1 \o added \in Seq(Entries) /\ Len(told1 \o added) = Len(told1) + Len(added)
          /\ \A k \in 1..Len(told1) : k \in 1..Len(told1 \o added) /\ (told1 \o added)[k] = told1[k]
          /\ \A k \in 1..Len(added) : /\ Len(told1) + k \in 1..Len(told1 \o added)
                                       /\ (told1 \o added)[Len(told1) + k] = added[k]
          /\ \A k \in 1..Len(told1 \o added) :
                k \in 1..Len(told1) \/ \E j \in 1..Len(added) : k = Len(told1) + j
      BY <3>1, Joined
    <3> QED
      BY <3>1, <3>2, Zenon DEF es
  <2>13. ASSUME NEW k \in 1..Len(es)
         PROVE  /\ es[k].mid \in 1..n
                /\ es[k].error = TrackErrorToString(tracks[es[k].mid].error)
                /\ es[k].mid \in missed <=> k \notin 1..L
    <3>1. CASE k \in 1..L
      <4>1. es[k].mid = m.tracks[k].mid /\ es[k].error = TrackErrorToString(tracks[m.tracks[k].mid].error)
        BY <2>6, <2>12, <3>1
      <4>2. m.tracks[k].mid \in 1..n
        BY <2>4, <3>1 DEF n, L
      <4> QED
        BY <2>9, <3>1, <4>1, <4>2
    <3>2. CASE k \notin 1..L
      <4>1. PICK j \in 1..Len(rest) : k = L + j
        BY <2>12, <3>2
      <4>2. es[k].mid = rest[j] /\ es[k].error = TrackErrorToString(tracks[rest[j]].error)
        BY <2>11, <2>12, <4>1
      <4> QED
        BY <2>10, <3>2, <4>2
    <3> QED
      BY <3>1, <3>2
  <2>14. ASSUME NEW k \in 1..Len(es), NEW j \in 1..Len(es), es[j].mid = es[k].mid PROVE j = k
    <3>1. CASE k \in 1..L /\ j \in 1..L
      <4>1. m.tracks[j].mid = m.tracks[k].mid
        BY <2>6, <2>12, <2>14, <3>1
      <4> QED
        BY <2>4, <3>1, <4>1 DEF L
    <3>2. CASE ~(k \in 1..L <=> j \in 1..L)
      BY <2>13, <2>14, <3>2
    <3>3. CASE k \notin 1..L /\ j \notin 1..L
      <4>1. PICK k1 \in 1..Len(rest), j1 \in 1..Len(rest) : k = L + k1 /\ j = L + j1
        BY <2>12, <3>3
      <4>2. es[k].mid = rest[k1] /\ es[j].mid = rest[j1]
        BY <2>11, <2>12, <4>1
      <4> QED
        BY <2>10, <2>14, <4>1, <4>2
    <3> QED
      BY <3>1, <3>2, <3>3
  <2>15. ASSUME NEW i \in 1..n PROVE \E k \in 1..Len(es) : es[k].mid = i
    <3>1. CASE i \in missed
      <4>1. PICK k \in 1..Len(rest) : rest[k] = i
        BY <2>10, <3>1
      <4>2. L + k \in 1..Len(es) /\ es[L + k].mid = i
        BY <2>11, <2>12, <4>1
      <4> QED
        BY <4>2
    <3>2. CASE i \notin missed
      <4>1. PICK k \in 1..L : m.tracks[k].mid = i
        BY <2>9, <3>2
      <4>2. k \in 1..Len(es) /\ es[k].mid = i
        BY <2>6, <2>12, <4>1
      <4> QED
        BY <4>2
    <3> QED
      BY <3>1, <3>2
  <2>16. /\ u \in MetaStates /\ u.tracks = es /\ u.named = m.named
         /\ u.status = IF failed THEN "FAILED" ELSE "OK"
    BY <2>1, <2>12 DEF MetaStates
  <2>17. \A i \in m.named : i \in 1..n /\ \E k \in 1..Len(es) : es[k].mid = i
    BY <2>5, <2>15 DEF n
  <2>18. EntriesOK(u, tracks)
    BY <2>13, <2>14, <2>16, <2>17 DEF EntriesOK, n
  <2>19. \A i \in 1..n :
            \E k \in 1..Len(es) :
                /\ es[k].mid = i
                /\ es[k].error = TrackErrorToString(tracks[i].error)
                /\ \A j \in 1..Len(es) : es[j].mid = i => j = k
    <3> SUFFICES ASSUME NEW i \in 1..n
                 PROVE  \E k \in 1..Len(es) :
                            /\ es[k].mid = i
                            /\ es[k].error = TrackErrorToString(tracks[i].error)
                            /\ \A j \in 1..Len(es) : es[j].mid = i => j = k
      OBVIOUS
    <3>1. PICK k \in 1..Len(es) : es[k].mid = i
      BY <2>15
    <3> QED
      BY <2>13, <2>14, <3>1
  <2>20. (\E i \in m.named : tracks[i].error # "OK") => failed
    BY <2>5 DEF failed, found, L
  <2>21. failed => \E i \in 1..n : tracks[i].error # "OK"
    BY <2>4 DEF failed, found, n, L
  <2>22. ToldOK(s, tracks)
    <3>1. s.of = n /\ s.tracks = es /\ s.named = m.named /\ s.status = IF failed THEN "FAILED" ELSE "OK"
      BY <1>0, <2>16 DEF u, n
    <3>2. n \in 0..Len(tracks) /\ m.named \subseteq 1..n
      BY <1>1, <2>17 DEF n
    <3>3. s.of \in 0..Len(tracks) /\ s.named \subseteq 1..s.of
      BY <3>1, <3>2
    <3>4. \A i \in 1..s.of :
            \E k \in 1..Len(s.tracks) :
                /\ s.tracks[k].mid = i
                /\ s.tracks[k].error = TrackErrorToString(tracks[i].error)
                /\ \A j \in 1..Len(s.tracks) : s.tracks[j].mid = i => j = k
      BY <2>19, <3>1
    <3>5. (\E i \in s.named : tracks[i].error # "OK") => s.status = "FAILED"
      BY <2>20, <3>1
    <3>6. s.status = "FAILED" => \E i \in 1..s.of : tracks[i].error # "OK"
      BY <2>21, <3>1
    <3> QED
      BY <3>3, <3>4, <3>5, <3>6 DEF ToldOK
  <2> QED
    BY <2>16, <2>18, <2>22 DEF u
<1> QED
  BY <1>2, <1>3

LEMMA FatesAtInit == TracksInit => FateIInv
<1> SUFFICES ASSUME TracksInit PROVE FateIInv
  OBVIOUS
<1>1. /\ meta = [listed |-> FALSE, tracks |-> <<>>, status |-> "none", named |-> {}]
      /\ tracks = <<>> /\ told = Unsent
  BY DEF TracksInit
<1>2. meta \in MetaStates
  BY <1>1 DEF MetaStates
<1>3. EntriesOK(meta, tracks)
  BY <1>1 DEF EntriesOK
<1>4. ToldOK(told, tracks)
  BY <1>1 DEF ToldOK, Unsent
<1> QED
  BY <1>2, <1>3, <1>4 DEF FateIInv

\* The metadata of an offer, for the tracks that it adds.
LEMMA OfferIsListed ==
    ASSUME NEW offered \in Seq(OfferedTracks), NEW listed \in BOOLEAN, NEW ts,
           Len(tracks) \in Nat, Len(ts) = Len(tracks) + Len(offered), Len(ts) <= MaxTracks
    PROVE  Metadata(offered, listed) \in MetaStates /\ EntriesOK(Metadata(offered, listed), ts)
<1> DEFINE m == Metadata(offered, listed)
<1> DEFINE n == Len(tracks)
<1> DEFINE all == [k \in 1..Len(offered) |-> Entry(n + k, offered[k].id, "none")]
<1> DEFINE keep == {e \in ToSet(all) : e.id # NoId}
<1> DEFINE es == IF listed THEN Kept(all, keep) ELSE <<>>
<1>1. m = [listed |-> listed, tracks |-> es, status |-> "none",
           named |-> {es[k].mid : k \in 1..Len(es)}]
  BY Zenon DEF Metadata
<1>2. n \in Nat /\ Len(offered) \in Nat /\ MaxTracks \in Nat /\ Len(ts) = n + Len(offered)
  BY TracksAssumption
<1>3. ASSUME NEW k \in 1..Len(offered)
      PROVE  /\ all[k] \in Entries /\ all[k].mid = n + k /\ all[k].error = "none"
             /\ n + k \in 1..Len(ts)
  <2> DEFINE whose == offered[k].id
  <2>1. n + k \in Mids /\ n + k \in 1..Len(ts)
    BY <1>2 DEF Mids
  <2>2. whose \in Ids /\ "none" \in Fates
    <3>1. offered[k] \in OfferedTracks
      OBVIOUS
    <3> QED
      BY <3>1 DEF OfferedTracks, Ids, Fates
  <2>3. all[k] = Entry(n + k, whose, "none")
    OBVIOUS
  <2> HIDE DEF all, whose
  <2>4. /\ Entry(n + k, whose, "none") \in Entries /\ Entry(n + k, whose, "none").mid = n + k
        /\ Entry(n + k, whose, "none").error = "none"
    BY <2>1, <2>2, EntryTyped
  <2> QED
    BY <2>1, <2>3, <2>4
<1>4. all \in Seq(Entries) /\ Len(all) = Len(offered)
  <2>1. all \in [1..Len(offered) -> Entries]
    <3>1. all = [k \in 1..Len(offered) |-> all[k]]
      OBVIOUS
    <3> HIDE DEF all
    <3> QED
      BY <1>3, <3>1
  <2> HIDE DEF all
  <2> QED
    BY <1>2, <2>1
<1> HIDE DEF all, keep, m, n
<1>5. /\ es \in Seq(Entries)
      /\ \A k \in 1..Len(es) : es[k].mid \in 1..Len(ts) /\ es[k].error = "none"
      /\ \A j, k \in 1..Len(es) : es[j].mid = es[k].mid => j = k
  <2>1. CASE ~listed
    <3>1. es = <<>>
      BY <2>1
    <3> HIDE DEF es
    <3> QED
      BY <3>1
  <2>2. CASE listed
    <3>1. es = Kept(all, keep)
      BY <2>2
    <3> HIDE DEF es
    <3>2. es \in Seq(Entries) /\ \E at : From(es, all, keep, Len(all), at)
      BY <1>4, <3>1, KeptFrom
    <3>3. PICK at : From(es, all, keep, Len(all), at)
      BY <3>2
    <3>4. /\ \A k \in 1..Len(es) : at[k] \in 1..Len(offered) /\ es[k] = all[at[k]]
          /\ \A j, k \in 1..Len(es) : at[j] = at[k] => j = k
      BY <1>4, <3>3 DEF From
    <3>5. ASSUME NEW k \in 1..Len(es)
          PROVE  /\ es[k].mid = n + at[k] /\ at[k] \in 1..Len(offered)
                 /\ es[k].mid \in 1..Len(ts) /\ es[k].error = "none"
      BY <1>3, <3>4
    <3>6. ASSUME NEW j \in 1..Len(es), NEW k \in 1..Len(es), es[j].mid = es[k].mid PROVE j = k
      <4>1. n + at[j] = n + at[k] /\ at[j] \in Nat /\ at[k] \in Nat
        BY <3>5, <3>6
      <4>2. at[j] = at[k]
        BY <1>2, <4>1
      <4> QED
        BY <3>4, <4>2
    <3> QED
      BY <3>2, <3>5, <3>6
  <2> QED
    BY <2>1, <2>2
<1> HIDE DEF es
<1>6. m.tracks = es /\ m.named = {es[k].mid : k \in 1..Len(es)}
  BY <1>1
<1>7. m \in MetaStates
  <2>1. {es[k].mid : k \in 1..Len(es)} \in SUBSET (1..MaxTracks)
    BY <1>2, <1>5
  <2> QED
    BY <1>1, <1>5, <2>1 DEF MetaStates
<1>8. EntriesOK(m, ts)
  BY <1>5, <1>6 DEF EntriesOK
<1> QED
  BY <1>7, <1>8 DEF m

LEMMA JoinedIsLonger ==
    ASSUME NEW ts \in Seq(TrackStates), NEW new \in Seq(TrackStates), NEW ts2, ts2 = ts \o new
    PROVE  Len(ts2) = Len(ts) + Len(new) /\ Len(ts2) \in Nat /\ Longer(ts, ts2)
<1>1. /\ ts \o new \in Seq(TrackStates) /\ Len(ts \o new) = Len(ts) + Len(new)
      /\ \A i \in 1..Len(ts) : i \in 1..Len(ts \o new) /\ (ts \o new)[i] = ts[i]
  BY Joined
<1>2. ts2 \in Seq(TrackStates) /\ Len(ts2) = Len(ts) + Len(new)
      /\ \A i \in 1..Len(ts) : i \in 1..Len(ts2) /\ ts2[i] = ts[i]
  BY <1>1, Zenon
<1>3. Len(ts2) \in Nat /\ Longer(ts, ts2)
  BY <1>2 DEF Longer
<1> QED
  BY <1>2, <1>3

LEMMA FatesOffer ==
    ASSUME TracksIInv, FeedIInv', NEW offered \in Seq(OfferedTracks), NEW listed \in BOOLEAN,
           OffersTracks(offered, listed)
    PROVE  FateIInv'
<1>1. PICK access \in BOOLEAN :
        Adds([k \in 1..Len(offered) |-> HandleTrackEvent(offered[k], listed, access)])
  BY DEF OffersTracks
<1> DEFINE new == [k \in 1..Len(offered) |-> HandleTrackEvent(offered[k], listed, access)]
<1>2. tracks' = tracks \o new
  BY <1>1 DEF Adds
<1>3. new \in Seq(TrackStates) /\ Len(new) = Len(offered)
  <2>1. \A k \in 1..Len(offered) : HandleTrackEvent(offered[k], listed, access) \in TrackStates
    <3>1. CodecTyped /\ \A k \in 1..Len(offered) : offered[k] \in OfferedTracks
      BY DEF TracksIInv, FeedIInv, CodecTyped
    <3> QED
      BY <3>1, OfferedIsOK
  <2>2. Len(offered) \in Nat /\ new \in [1..Len(offered) -> TrackStates]
    BY <2>1
  <2> HIDE DEF new
  <2> QED
    BY <2>2
<1> HIDE DEF new
<1>4. tracks \in Seq(TrackStates) /\ Len(tracks) \in Nat /\ Len(tracks') <= MaxTracks
  BY DEF TracksIInv, FeedIInv
<1>5. Len(tracks') = Len(tracks) + Len(offered) /\ Len(tracks') \in Nat /\ Longer(tracks, tracks')
  <2>1. Len(tracks') = Len(tracks) + Len(new) /\ Len(tracks') \in Nat /\ Longer(tracks, tracks')
    BY <1>2, <1>3, <1>4, JoinedIsLonger
  <2> QED
    BY <2>1, <1>2, <1>3, <1>4
<1>6. meta' = Metadata(offered, listed) /\ told' = told
  BY DEF OffersTracks
<1>7. meta' \in MetaStates /\ EntriesOK(meta', tracks')
  BY <1>4, <1>5, <1>6, OfferIsListed
<1>8. ToldOK(told, tracks')
  BY <1>4, <1>5, ToldLater DEF TracksIInv, FateIInv
<1>9. MetaStates' = MetaStates
  BY DEF MetaStates
<1> QED
  BY <1>6, <1>7, <1>8 DEF FateIInv

LEMMA FatesCoap ==
    ASSUME TracksIInv, FeedIInv', NEW list \in Seq(Feeds), CoapTracks(list)
    PROVE  FateIInv'
<1> DEFINE n == Len(tracks)
<1> DEFINE new == [k \in 1..Len(list) |-> AddConnection(NewMedia(list[k]))]
<1> DEFINE es == [k \in 1..Len(list) |-> Entry(n + k, list[k], "none")]
<1>1. /\ tracks' = tracks \o new /\ told' = told
      /\ meta' = [meta EXCEPT !.listed = TRUE, !.tracks = meta.tracks \o es]
  BY DEF CoapTracks, CreateTracks, Adds
<1>2. new \in Seq(TrackStates) /\ Len(new) = Len(list)
  <2>1. \A k \in 1..Len(list) : AddConnection(NewMedia(list[k])) \in TrackStates
    <3>1. CodecTyped /\ \A k \in 1..Len(list) : Known(list[k])
      BY DEF TracksIInv, FeedIInv, CodecTyped, CoapTracks
    <3> QED
      BY <3>1, ListedIsOK
  <2>2. Len(list) \in Nat /\ new \in [1..Len(list) -> TrackStates]
    BY <2>1
  <2> HIDE DEF new
  <2> QED
    BY <2>2
<1> HIDE DEF new
<1>3. tracks \in Seq(TrackStates) /\ n \in Nat /\ Len(tracks') <= MaxTracks
  BY DEF TracksIInv, FeedIInv
<1>4. Len(tracks') = n + Len(list) /\ Len(tracks') \in Nat /\ Longer(tracks, tracks')
  <2>1. Len(tracks') = Len(tracks) + Len(new) /\ Len(tracks') \in Nat /\ Longer(tracks, tracks')
    BY <1>1, <1>2, <1>3, JoinedIsLonger
  <2> QED
    BY <2>1, <1>1, <1>2, <1>3
<1>5. ASSUME NEW k \in 1..Len(list)
      PROVE  /\ es[k] \in Entries /\ es[k].mid = n + k /\ es[k].error = "none"
             /\ n + k \in 1..Len(tracks')
  <2> DEFINE whose == list[k]
  <2>1. Len(list) \in Nat /\ MaxTracks \in Nat
    BY TracksAssumption
  <2>2. n + k \in Mids /\ n + k \in 1..Len(tracks')
    <3> HIDE DEF n
    <3> QED
      BY <1>3, <1>4, <2>1 DEF Mids
  <2>3. whose \in Ids /\ "none" \in Fates
    BY DEF Ids, Fates
  <2>4. es[k] = Entry(n + k, whose, "none")
    OBVIOUS
  <2> HIDE DEF es, whose, n
  <2>5. /\ Entry(n + k, whose, "none") \in Entries /\ Entry(n + k, whose, "none").mid = n + k
        /\ Entry(n + k, whose, "none").error = "none"
    BY <2>2, <2>3, EntryTyped
  <2> QED
    BY <2>2, <2>4, <2>5
<1>6. es \in Seq(Entries) /\ Len(es) = Len(list)
  <2>1. es \in [1..Len(list) -> Entries]
    <3>1. es = [k \in 1..Len(list) |-> es[k]]
      OBVIOUS
    <3> HIDE DEF es
    <3> QED
      BY <1>5, <3>1
  <2>2. Len(list) \in Nat
    OBVIOUS
  <2> HIDE DEF es
  <2> QED
    BY <2>1, <2>2
<1> HIDE DEF es
<1>7. meta \in MetaStates /\ EntriesOK(meta, tracks) /\ ToldOK(told, tracks)
  BY DEF TracksIInv, FateIInv
<1>8. meta.tracks \in Seq(Entries)
  BY <1>7, MetaFields
<1>9. meta' \in MetaStates /\ meta'.tracks = meta.tracks \o es /\ meta'.named = meta.named
  <2>1. meta.tracks \o es \in Seq(Entries)
    BY <1>6, <1>8
  <2> DEFINE q == meta.tracks \o es
  <2> HIDE DEF q
  <2>2. q \in Seq(Entries) /\ meta' = [meta EXCEPT !.listed = TRUE, !.tracks = q]
    BY <1>1, <2>1 DEF q
  <2>3. meta' \in MetaStates /\ meta'.tracks = q /\ meta'.named = meta.named
    BY <1>7, <2>2 DEF MetaStates
  <2> QED
    BY <2>3 DEF q
<1>10. \A k \in 1..Len(es) :
            es[k].mid = n + k /\ es[k].mid \in 1..Len(tracks') /\ es[k].error = "none"
  BY <1>5, <1>6
<1>11. EntriesOK(meta', tracks')
  BY <1>3, <1>4, <1>6, <1>7, <1>8, <1>9, <1>10, EntriesAdd
<1>12. ToldOK(told, tracks')
  BY <1>3, <1>4, <1>7, ToldLater
<1> QED
  BY <1>1, <1>9, <1>11, <1>12 DEF FateIInv, MetaStates

LEMMA FatesSend ==
    ASSUME TracksIInv, Sends, tracks' = tracks
    PROVE  FateIInv'
<1> DEFINE u == UpdateMetaTracks(meta)
<1>1. /\ meta' = u
      /\ told' = [listed |-> u.listed, tracks |-> u.tracks, status |-> u.status,
                  of |-> Len(tracks), named |-> meta.named]
  BY DEF Sends
<1>2. /\ tracks \in Seq(TrackStates) /\ Len(tracks) <= MaxTracks
      /\ meta \in MetaStates /\ EntriesOK(meta, tracks)
  BY DEF TracksIInv, FeedIInv, FateIInv
<1>3. u \in MetaStates /\ EntriesOK(u, tracks) /\ ToldOK(told', tracks)
  BY <1>1, <1>2, Updated
<1> QED
  BY <1>1, <1>3 DEF FateIInv, MetaStates

LEMMA FatesStay ==
    ASSUME FateIInv, meta' = meta, told' = told, Longer(tracks, tracks'),
           Len(tracks) \in Nat, Len(tracks') \in Nat
    PROVE  FateIInv'
<1>1. meta \in MetaStates /\ EntriesOK(meta, tracks) /\ ToldOK(told, tracks)
  BY DEF FateIInv
<1>2. EntriesOK(meta, tracks') /\ ToldOK(told, tracks')
  BY <1>1, EntriesLater, ToldLater
<1> QED
  BY <1>1, <1>2 DEF FateIInv, MetaStates

LEMMA FatesStep == TracksIInv /\ [TracksNext]_tracksVars /\ FeedIInv' => FateIInv'
<1> SUFFICES ASSUME TracksIInv, [TracksNext]_tracksVars, FeedIInv' PROVE FateIInv'
  OBVIOUS
<1>0. FateIInv /\ tracks \in Seq(TrackStates) /\ Len(tracks) \in Nat
  BY DEF TracksIInv, FeedIInv
<1>1. ASSUME NEW listed \in BOOLEAN,
             NEW offered \in UNION {[1..n -> OfferedTracks] : n \in 1..2},
             OffersTracks(offered, listed)
      PROVE  FateIInv'
  BY <1>1, OffersAreSeqs, FatesOffer
<1>2. ASSUME NEW listed \in BOOLEAN, AnswersTracks(listed) PROVE FateIInv'
  <2>1. /\ meta' = [listed |-> listed, tracks |-> <<>>, status |-> "none", named |-> {}]
        /\ tracks' = tracks /\ told' = told
    BY <1>2 DEF AnswersTracks
  <2>2. meta' \in MetaStates /\ EntriesOK(meta', tracks)
    BY <2>1 DEF MetaStates, EntriesOK
  <2>3. ToldOK(told, tracks)
    BY <1>0 DEF FateIInv
  <2> QED
    BY <2>1, <2>2, <2>3 DEF FateIInv, MetaStates
<1>3. ASSUME meta' = meta, told' = told, tracks' = tracks PROVE FateIInv'
  <2>1. Longer(tracks, tracks')
    BY <1>3 DEF Longer
  <2> QED
    BY <1>0, <1>3, <2>1, FatesStay
<1>4. ASSUME SendDescription \/ SendCandidate PROVE FateIInv'
  <2>1. ASSUME SendDescription PROVE tracks' = tracks /\ (Sends \/ (meta' = meta /\ told' = told))
    <3>1. tracks' = tracks
      BY <2>1 DEF SendDescription
    <3>2. CASE pc = "open"
      BY <2>1, <3>1, <3>2, Zenon DEF SendDescription
    <3>3. CASE pc # "open"
      <4>1. UNCHANGED <<meta, told>>
        BY <2>1, <3>3, Zenon DEF SendDescription
      <4> QED
        BY <3>1, <4>1
    <3> QED
      BY <3>2, <3>3
  <2>2. ASSUME SendCandidate PROVE tracks' = tracks /\ Sends
    <3>1. tracks' = tracks
      BY <2>2 DEF SendCandidate
    <3> QED
      BY <2>2, <3>1, Zenon DEF SendCandidate
  <2> QED
    BY <1>3, <1>4, <2>1, <2>2, FatesSend
<1>5. ASSUME NEW list \in SeqOf(Feeds, 2), CoapTracks(list) PROVE FateIInv'
  BY <1>5, ListsAreSeqs, FatesCoap
<1>6. ASSUME CoapVideo PROVE FateIInv'
  <2>1. CoapTracks(<<"video">>) \/ CoapTracks(<<"audio", "video">>) \/ CoapTracks(<<"video", "audio">>)
    BY <1>6 DEF CoapVideo
  <2> QED
    BY <2>1, ListsAreSeqs, FatesCoap
<1>7. ASSUME Closed PROVE FateIInv'
  <2>1. /\ tracks' = [i \in 1..Len(tracks) |-> ConnectionClosed(tracks[i])]
        /\ meta' = meta /\ told' = told
    BY <1>7 DEF Closed
  <2>2. \A t \in TrackStates : ConnectionClosed(t).error = t.error
    BY DEF ConnectionClosed, TrackStates
  <2>3. Len(tracks') = Len(tracks) /\ Len(tracks') \in Nat
    <3>1. tracks' \in Seq(TrackStates)
      BY DEF FeedIInv
    <3>2. DOMAIN tracks' = 1..Len(tracks)
      BY <2>1
    <3> QED
      BY <1>0, <3>1, <3>2
  <2>4. Longer(tracks, tracks')
    BY <1>0, <2>1, <2>2, <2>3 DEF Longer
  <2> QED
    BY <1>0, <2>1, <2>3, <2>4, FatesStay
<1>8. ASSUME \/ LocalCandidate \/ HandleTrackMessage
             \/ \E f \in Feeds : CoapElsewhere(f)
             \/ \E i \in 1..MaxTracks : ClientTalks(i)
             \/ UNCHANGED tracksVars
      PROVE  FateIInv'
  <2>1. meta' = meta /\ told' = told /\ tracks' = tracks
    BY <1>8 DEF LocalCandidate, HandleTrackMessage, CoapElsewhere, ClientTalks, tracksVars
  <2> QED
    BY <1>3, <2>1
<1> QED
  BY <1>1, <1>2, <1>4, <1>5, <1>6, <1>7, <1>8 DEF TracksNext

LEMMA TracksInvariant == TracksSafe => []TracksIInv
<1>1. TracksInit => TracksIInv
  BY FeedsAtInit, FatesAtInit DEF TracksIInv
<1>2. TracksIInv /\ [TracksNext]_tracksVars => TracksIInv'
  BY FeedsStep, FatesStep DEF TracksIInv
<1> QED
  BY <1>1, <1>2, PTL DEF TracksSafe
-----------------------------------------------------------------------------
\* Whatever is offered, asked for over CoAP and closed, in any order, a feed has the
\* connection through a track that was not refused, of that feed and of an open
\* connection (addConnection and the close callbacks in main.cpp), each track that was
\* not refused has its feed, and what the client said before the close reaches no feed
\* that let the connection go (webrtc_connection.cpp:264).
THEOREM FeedsFollowTheirTracks == TracksSafe => []FeedsFollowTracks
<1>1. TracksIInv => FeedsFollowTracks
  <2> SUFFICES ASSUME TracksIInv PROVE FeedsFollowTracks
    OBVIOUS
  <2>1. TracksTypeOK
    BY DEF TracksIInv, FeedIInv, FateIInv, TracksTypeOK, MetaStates
  <2>2. ASSUME NEW f \in Feeds, feeds[f] # 0
        PROVE  pc = "open" /\ tracks[feeds[f]].id = f /\ tracks[feeds[f]].error = "OK"
    <3>1. feeds[f] \in 1..Len(tracks) /\ tracks[feeds[f]].id = f /\ tracks[feeds[f]].close
      BY <2>2 DEF TracksIInv, FeedIInv, FeedsOK
    <3>2. TrackOK(tracks[feeds[f]], codec, pc)
      BY <3>1 DEF TracksIInv, FeedIInv
    <3>3. pc # "none"
      BY <3>1 DEF TracksIInv, FeedIInv
    <3> QED
      BY <3>1, <3>2, <3>3 DEF TrackOK, TracksIInv, FeedIInv
  <2>3. ASSUME pc = "open", NEW i \in 1..Len(tracks), tracks[i].error = "OK"
        PROVE  tracks[i].rtc /\ feeds[tracks[i].id] >= i
    <3>1. TrackOK(tracks[i], codec, pc)
      BY DEF TracksIInv, FeedIInv
    <3>2. tracks[i].rtc /\ tracks[i].close
      BY <2>3, <3>1 DEF TrackOK
    <3> QED
      BY <3>2 DEF TracksIInv, FeedIInv, FeedsOK
  <2>4. talk.taken => talk.connected
    BY DEF TracksIInv, FeedIInv
  <2> QED
    BY <2>1, <2>2, <2>3, <2>4 DEF FeedsFollowTracks
<1> QED
  BY <1>1, TracksInvariant, PTL

\* Whatever codecs are offered, a feed sends with a payload type that the description of
\* its track still has, and match() of the negotiators left there nothing but codecs it
\* would leave again, one for H264 (h264.cpp, opus.cpp, pcmu.cpp, vp8.cpp).
THEOREM PayloadTypesAreAgreed == TracksSafe => []PayloadTypeIsAgreed
<1>1. TracksIInv => PayloadTypeIsAgreed
  <2> SUFFICES ASSUME TracksIInv, NEW f \in Feeds, feeds[f] # 0
               PROVE  LET t == tracks[feeds[f]]
                      IN  /\ \E k \in 1..Len(t.codecs) : t.codecs[k].pt = t.dst
                          /\ Match(codec[f], t.codecs).left = t.codecs \/ t.codecs = CreateMedia(codec[f])
                          /\ codec[f] = "H264" => Len(t.codecs) = 1
    BY DEF PayloadTypeIsAgreed
  <2> DEFINE t == tracks[feeds[f]]
  <2>1. feeds[f] \in 1..Len(tracks) /\ t.id = f /\ t.close
    BY DEF TracksIInv, FeedIInv, FeedsOK
  <2>2. TrackOK(t, codec, pc)
    BY <2>1 DEF TracksIInv, FeedIInv
  <2> HIDE DEF t
  <2>3. Agreed(t, codec[f])
    BY <2>1, <2>2 DEF TrackOK
  <2> QED
    BY <2>3 DEF Agreed, t
<1> QED
  BY <1>1, TracksInvariant, PTL

\* A client whose metadata lists its tracks is told of each track once and with its
\* error, and that it failed exactly as FatesAreTold says, however many descriptions and
\* candidates were sent since the track was added (updateMetaTracks of
\* webrtc_connection.cpp).
THEOREM FatesAreAlwaysTold == TracksSafe => []FatesAreTold
<1>1. TracksIInv => FatesAreTold
  BY DEF TracksIInv, FateIInv, ToldOK, FatesAreTold
<1> QED
  BY <1>1, TracksInvariant, PTL
=============================================================================
