----------------------- MODULE SignalingStreamProofs -----------------------
(***************************************************************************)
(* SignalingStream.tla for every bound: type correctness, no operation     *)
(* started on a pending future, the read loop that runs from the second of *)
(* accept and ICE to the close, the order of what is sent, and no read     *)
(* outstanding when the object is freed.                                   *)
(*                                                                         *)
(* The argument follows four tokens.  An accept, an ICE request, a read and*)
(* a write are each either pending in the SDK, or a lambda on the queue, or*)
(* over; they are never in two places, and which place it is decides what  *)
(* the object's flags can be.                                              *)
(***************************************************************************)
EXTENDS SignalingStream, TLAPS

AtMostOne(q, L) ==
    \A i, j \in 1..Len(q) : q[i] \in L /\ q[j] \in L => i = j

AcceptLambdas == {"accepted", "acceptFailed"}

AcceptPending == ss.future = "accept" \/ Queued(AcceptLambdas)
IcePending == ss.iceOp \/ Queued({"iceResolved"})
ReadPending == ss.future \in Reads \/ Queued(ReadLambdas)
WritePending == ss.writeOp = "write" \/ Queued({"written"})

\* No operation is both pending and on the queue, nor twice on the queue.
Tokens ==
    /\ AtMostOne(queue, AcceptLambdas)
    /\ ss.future = "accept" => ~Queued(AcceptLambdas)
    /\ AtMostOne(queue, {"iceResolved"})
    /\ ss.iceOp => ~Queued({"iceResolved"})
    /\ AtMostOne(queue, ReadLambdas)
    /\ ss.future \in Reads => ~Queued(ReadLambdas)
    /\ AtMostOne(queue, {"written"})
    /\ ss.writeOp = "write" => ~Queued({"written"})

\* Before the accept and the ICE servers have both been handled nothing has been
\* read, nothing is closed and no peer connection has been in use.
Starting ==
    /\ AcceptPending =>
         /\ ~ss.accepted /\ ss.self /\ ~ss.closed
         /\ ss.peer \in {"none", "new"} /\ ~Queued({"peerClosed"})
    /\ IcePending =>
         /\ ~ss.conn /\ ~ss.closed /\ ~ss.reading
         /\ ss.peer = "none" /\ ~Queued({"peerClosed"})

\* What the flags say of the operations.
Flags ==
    /\ ss.reading <=> ReadPending
    /\ ss.writeBuf # None <=> WritePending
    /\ ss.reading => ss.accepted /\ ss.self
    /\ ~ss.self /\ ss.accepted => ss.closed
    /\ ss.closeOp \/ Queued({"streamClosed"}) => ss.closed

IInv ==
    /\ TypeOK
    /\ NoFutureClash
    /\ Tokens
    /\ Starting
    /\ Flags
    /\ ReadLoopRuns
    /\ SentInOrder
    /\ NoStalledWriter
-----------------------------------------------------------------------------
\* Sequences: what posting and taking a lambda do to Has and AtMostOne.

LEMMA AppendHas ==
    ASSUME NEW S, NEW q \in Seq(S), NEW e \in S, NEW L
    PROVE  /\ Append(q, e) \in Seq(S)
           /\ Has(Append(q, e), L) <=> Has(q, L) \/ e \in L
           /\ AtMostOne(q, L) /\ (e \in L => ~Has(q, L))
                => AtMostOne(Append(q, e), L)
<1>1. /\ Append(q, e) \in Seq(S)
      /\ Len(Append(q, e)) = Len(q) + 1
      /\ Len(q) \in Nat
      /\ \A i \in 1..Len(q) : Append(q, e)[i] = q[i]
      /\ Append(q, e)[Len(q) + 1] = e
  OBVIOUS
<1>2. \A i \in 1..(Len(q) + 1) : i \in 1..Len(q) \/ i = Len(q) + 1
  BY <1>1
<1>3. 1..Len(q) \subseteq 1..(Len(q) + 1) /\ Len(q) + 1 \in 1..(Len(q) + 1)
  BY <1>1
<1>4. Has(Append(q, e), L) <=> Has(q, L) \/ e \in L
  BY <1>1, <1>2, <1>3 DEF Has
<1>5. ASSUME AtMostOne(q, L), e \in L => ~Has(q, L)
      PROVE  AtMostOne(Append(q, e), L)
  BY <1>1, <1>2, <1>5 DEF Has, AtMostOne
<1>6. QED
  BY <1>1, <1>4, <1>5

LEMMA TailHas ==
    ASSUME NEW S, NEW q \in Seq(S), q # <<>>, NEW L
    PROVE  /\ Tail(q) \in Seq(S)
           /\ Head(q) \in S
           /\ Head(q) \in L => Has(q, L)
           /\ Has(Tail(q), L) => Has(q, L)
           /\ Head(q) \notin L => (Has(q, L) <=> Has(Tail(q), L))
           /\ AtMostOne(q, L) => AtMostOne(Tail(q), L)
           /\ AtMostOne(q, L) /\ Head(q) \in L => ~Has(Tail(q), L)
<1>1. /\ Tail(q) \in Seq(S)
      /\ Head(q) = q[1] /\ Head(q) \in S
      /\ Len(q) \in Nat \ {0}
      /\ Len(Tail(q)) = Len(q) - 1
      /\ \A i \in 1..Len(Tail(q)) : Tail(q)[i] = q[i + 1]
  OBVIOUS
<1>2. \A i \in 1..Len(Tail(q)) : i + 1 \in 1..Len(q) /\ i + 1 # 1
  BY <1>1
<1>3. 1 \in 1..Len(q)
  BY <1>1
<1>4. \A i \in 1..Len(q) : i = 1 \/ (i - 1 \in 1..Len(Tail(q)) /\ q[i] = Tail(q)[i - 1])
  <2> SUFFICES ASSUME NEW i \in 1..Len(q), i # 1
               PROVE  i - 1 \in 1..Len(Tail(q)) /\ q[i] = Tail(q)[i - 1]
    OBVIOUS
  <2>1. i - 1 \in 1..Len(Tail(q)) /\ (i - 1) + 1 = i
    BY <1>1
  <2>2. QED
    BY <1>1, <2>1
<1>5. Head(q) \in L => Has(q, L)
  BY <1>1, <1>3 DEF Has
<1>6. Has(Tail(q), L) => Has(q, L)
  BY <1>1, <1>2 DEF Has
<1>7. Head(q) \notin L => (Has(q, L) <=> Has(Tail(q), L))
  BY <1>1, <1>4, <1>6 DEF Has
<1>8. AtMostOne(q, L) => AtMostOne(Tail(q), L)
  <2> SUFFICES ASSUME AtMostOne(q, L), NEW i \in 1..Len(Tail(q)),
                      NEW j \in 1..Len(Tail(q)),
                      Tail(q)[i] \in L, Tail(q)[j] \in L
               PROVE  i = j
    BY DEF AtMostOne
  <2>1. i + 1 = j + 1
    BY <1>1, <1>2 DEF AtMostOne
  <2>2. QED
    BY <1>1, <2>1
<1>9. AtMostOne(q, L) /\ Head(q) \in L => ~Has(Tail(q), L)
  BY <1>1, <1>2, <1>3 DEF Has, AtMostOne
<1>10. QED
  BY <1>1, <1>5, <1>6, <1>7, <1>8, <1>9

-----------------------------------------------------------------------------
\* The methods: the fields each may change, and how.

\* What no method but the named ones touches.
SameOps(s, t) ==
    /\ t.accepted = s.accepted
    /\ t.iceOp = s.iceOp
SameWriter(s, t) ==
    /\ t.buffers = s.buffers /\ t.writeBuf = s.writeBuf
    /\ t.wire = s.wire /\ t.submitted = s.submitted
    /\ t.writeOp = s.writeOp

LEMMA CleanupFacts ==
    ASSUME NEW s \in Streams
    PROVE  /\ cleanup(s) \in Streams
           /\ SameOps(s, cleanup(s)) /\ SameWriter(s, cleanup(s))
           /\ cleanup(s).closed /\ ~cleanup(s).conn /\ ~cleanup(s).self
           /\ cleanup(s).reading = s.reading /\ cleanup(s).future = s.future
           /\ cleanup(s).closeOp = s.closeOp
           /\ cleanup(s).peer = s.peer \/ s.conn
<1>1. QED
  BY DEF cleanup, StopConnection, Open, PeerStates, Streams, SameOps, SameWriter

LEMMA CloseStreamFacts ==
    ASSUME NEW s \in Streams
    PROVE  /\ closeStream(s) \in Streams
           /\ SameOps(s, closeStream(s)) /\ SameWriter(s, closeStream(s))
           /\ closeStream(s).closed
           /\ closeStream(s).reading = s.reading
           /\ closeStream(s).future = s.future
           /\ s.reading => closeStream(s).self = s.self
           /\ closeStream(s).self => s.self
           /\ s.closeOp => closeStream(s).closeOp
           /\ closeStream(s).conn => s.conn
           /\ closeStream(s).peer = s.peer \/ s.conn
<1>1. CASE s.closed
  <2>1. CASE ~s.closing /\ ~Busy(s)
    BY <1>1, <2>1, CleanupFacts DEF closeStream, Busy
  <2>2. CASE ~(~s.closing /\ ~Busy(s))
    BY <1>1, <2>2 DEF closeStream, SameOps, SameWriter
  <2>3. QED
    BY <2>1, <2>2
<1>2. CASE ~s.closed
  BY <1>2 DEF closeStream, StopConnection, Open, PeerStates, Streams, SameOps,
     SameWriter
<1>3. QED
  BY <1>1, <1>2

\* What opening a peer connection and the WebrtcConnection leave alone.
SameFlow(s, t) ==
    /\ SameOps(s, t) /\ SameWriter(s, t)
    /\ t.reading = s.reading /\ t.future = s.future /\ t.self = s.self
    /\ t.closed = s.closed /\ t.closing = s.closing /\ t.closeOp = s.closeOp

LEMMA CreateTracksFacts ==
    ASSUME NEW s \in Streams
    PROVE  /\ createTracks(s) \in Streams /\ SameFlow(s, createTracks(s))
           /\ createTracks(s).conn = s.conn
           /\ \/ createTracks(s).peer = s.peer
              \/ s.conn /\ s.peer = "none" /\ createTracks(s).peer = "new"
<1>1. CASE s.conn /\ s.peer = "none"
  BY <1>1 DEF createTracks, CreatePeer, Streams, PeerStates, SameFlow, SameOps,
     SameWriter
<1>2. CASE s.conn /\ s.peer # "none"
  BY <1>2 DEF createTracks, CreatePeer, Streams, SameFlow, SameOps, SameWriter
<1>3. CASE ~s.conn
  BY <1>3 DEF createTracks, Streams, SameFlow, SameOps, SameWriter
<1>4. QED
  BY <1>1, <1>2, <1>3 DEF Streams

LEMMA ConnectionFacts ==
    ASSUME NEW s \in Streams
    PROVE  /\ createWebrtcConnection(s) \in Streams
           /\ SameFlow(s, createWebrtcConnection(s))
           /\ createWebrtcConnection(s).conn
           /\ s.peer = "none" => createWebrtcConnection(s).peer \in {"none", "new"}
<1>1. PICK c : c = [s EXCEPT !.conn = TRUE, !.deferred = FALSE]
  OBVIOUS
<1>2. c \in Streams /\ SameFlow(s, c) /\ c.conn /\ c.peer = s.peer
  BY <1>1 DEF Streams, SameFlow, SameOps, SameWriter
<1>3. createWebrtcConnection(s) = IF s.deferred THEN createTracks(c) ELSE c
  BY <1>1 DEF createWebrtcConnection
<1>4. QED
  BY <1>2, <1>3, CreateTracksFacts DEF SameFlow, SameOps, SameWriter

LEMMA StartReadFacts ==
    ASSUME NEW s \in Streams, NEW op \in Reads
    PROVE  /\ SameOps(s, StartRead(s, op)) /\ SameWriter(s, StartRead(s, op))
           /\ s.closed => StartRead(s, op) = cleanup(s)
           /\ ~s.closed /\ s.future = "idle" =>
                /\ StartRead(s, op) \in Streams
                /\ StartRead(s, op).reading /\ StartRead(s, op).future = op
                /\ ~StartRead(s, op).closed
                /\ StartRead(s, op).self = s.self
                /\ StartRead(s, op).conn = s.conn
                /\ StartRead(s, op).peer = s.peer
                /\ StartRead(s, op).closeOp = s.closeOp
<1>1. CASE s.closed
  BY <1>1, CleanupFacts DEF StartRead
<1>2. CASE ~s.closed
  BY <1>2 DEF StartRead, Streams, FutureOps, Reads, SameOps, SameWriter
<1>3. QED
  BY <1>1, <1>2

\* SentInOrder, of what waits, what was written and how many were submitted.
Ordered(buffers, wire, submitted) ==
    /\ submitted = Len(wire) + Len(buffers)
    /\ \A i \in 1..Len(wire) : wire[i] = i
    /\ \A i \in 1..Len(buffers) : buffers[i] = Len(wire) + i
OrderedIn(s) == Ordered(s.buffers, s.wire, s.submitted)

LEMMA SubmitOrdered ==
    ASSUME NEW b \in Seq(Nat), NEW w \in Seq(Nat), NEW n \in Nat,
           Ordered(b, w, n)
    PROVE  /\ Append(b, n + 1) \in Seq(Nat)
           /\ Ordered(Append(b, n + 1), w, n + 1)
<1>1. /\ Append(b, n + 1) \in Seq(Nat)
      /\ Len(b) \in Nat /\ Len(w) \in Nat
      /\ Len(Append(b, n + 1)) = Len(b) + 1
      /\ \A i \in 1..Len(b) : Append(b, n + 1)[i] = b[i]
      /\ Append(b, n + 1)[Len(b) + 1] = n + 1
  OBVIOUS
<1>2. n = Len(w) + Len(b)
  BY DEF Ordered
<1>3. ASSUME NEW i \in 1..Len(Append(b, n + 1))
      PROVE  Append(b, n + 1)[i] = Len(w) + i
  <2>1. CASE i \in 1..Len(b)
    BY <1>1, <2>1 DEF Ordered
  <2>2. CASE i = Len(b) + 1
    BY <1>1, <1>2, <2>2
  <2>3. QED
    BY <1>1, <2>1, <2>2
<1>4. n + 1 = Len(w) + Len(Append(b, n + 1))
  BY <1>1, <1>2
<1>5. QED
  BY <1>1, <1>3, <1>4 DEF Ordered

LEMMA WriteOrdered ==
    ASSUME NEW b \in Seq(Nat), NEW w \in Seq(Nat), NEW n \in Nat,
           b # <<>>, Ordered(b, w, n)
    PROVE  /\ Head(b) \in Nat /\ Head(b) # None
           /\ Tail(b) \in Seq(Nat) /\ Append(w, Head(b)) \in Seq(Nat)
           /\ Ordered(Tail(b), Append(w, Head(b)), n)
<1>1. /\ Len(b) \in Nat \ {0} /\ Len(w) \in Nat
      /\ Head(b) = b[1] /\ Head(b) \in Nat
      /\ Tail(b) \in Seq(Nat)
      /\ Len(Tail(b)) = Len(b) - 1
      /\ \A i \in 1..Len(Tail(b)) : Tail(b)[i] = b[i + 1]
  OBVIOUS
<1>2. Head(b) = Len(w) + 1
  BY <1>1 DEF Ordered
<1>3. /\ Append(w, Head(b)) \in Seq(Nat)
      /\ Len(Append(w, Head(b))) = Len(w) + 1
      /\ \A i \in 1..Len(w) : Append(w, Head(b))[i] = w[i]
      /\ Append(w, Head(b))[Len(w) + 1] = Head(b)
  BY <1>1
<1>4. n = Len(Append(w, Head(b))) + Len(Tail(b))
  BY <1>1, <1>3 DEF Ordered
<1>5. ASSUME NEW i \in 1..Len(Append(w, Head(b)))
      PROVE  Append(w, Head(b))[i] = i
  <2>1. CASE i \in 1..Len(w)
    BY <1>3, <2>1 DEF Ordered
  <2>2. CASE i = Len(w) + 1
    BY <1>2, <1>3, <2>2
  <2>3. QED
    BY <1>1, <1>3, <2>1, <2>2
<1>6. ASSUME NEW i \in 1..Len(Tail(b))
      PROVE  Tail(b)[i] = Len(Append(w, Head(b))) + i
  <2>1. i + 1 \in 1..Len(b)
    BY <1>1
  <2>2. b[i + 1] = Len(w) + (i + 1)
    BY <2>1 DEF Ordered
  <2>3. QED
    BY <1>1, <1>3, <2>2
<1>7. QED
  BY <1>1, <1>2, <1>3, <1>4, <1>5, <1>6 DEF Ordered, None

\* All that tryWriteStream leaves alone while the stream is open.
SameReader(s, t) ==
    /\ t.accepted = s.accepted /\ t.iceOp = s.iceOp /\ t.closed = s.closed
    /\ t.reading = s.reading /\ t.self = s.self /\ t.conn = s.conn
    /\ t.peer = s.peer /\ t.future = s.future /\ t.closeOp = s.closeOp
    /\ t.closing = s.closing /\ t.deferred = s.deferred

\* The object o is given to stream_write.
Writing(s, o, b, w) ==
    [s EXCEPT !.writeBuf = o, !.buffers = b, !.wire = w, !.writeOp = "write"]

\* What that does to the stream s, with t the stream after it.
Begins(s, t, o, b, w) ==
    /\ t \in Streams
    /\ SameReader(s, t)
    /\ t.buffers = b /\ t.wire = w /\ t.submitted = s.submitted
    /\ t.writeBuf = o /\ t.writeOp = "write"

LEMMA WritingBegins ==
    ASSUME NEW s \in Streams, NEW o \in Nat, NEW b \in Seq(Nat), NEW w \in Seq(Nat)
    PROVE  Begins(s, Writing(s, o, b, w), o, b, w)
<1> DEFINE t == Writing(s, o, b, w)
<1>1. t \in Streams
  BY DEF Streams, Writing
<1>2. /\ t.buffers = b /\ t.wire = w /\ t.submitted = s.submitted
      /\ t.writeBuf = o /\ t.writeOp = "write"
  BY DEF Streams, Writing
<1>3. SameReader(s, t)
  BY DEF Streams, Writing, SameReader
<1> HIDE DEF t
<1>4. Begins(s, t, o, b, w)
  BY <1>1, <1>2, <1>3 DEF Begins
<1>5. QED
  BY <1>4 DEF t

LEMMA TryWriteFacts ==
    ASSUME NEW s \in Streams, OrderedIn(s),
           s.writeBuf = None => s.writeOp = "idle",
           NEW t, t = tryWriteStream(s)
    PROVE  /\ s.closed => t = closeStream(s)
           /\ ~s.closed =>
                /\ t \in Streams
                /\ SameReader(s, t)
                /\ OrderedIn(t)
                /\ t.buffers # <<>> => t.writeBuf # None
                /\ \/ t = s /\ (s.writeBuf # None \/ s.buffers = <<>>)
                   \/ /\ s.writeBuf = None
                      /\ t.writeBuf # None /\ t.writeOp = "write"
<1>1. CASE s.closed
  BY <1>1 DEF tryWriteStream
<1>2. CASE ~s.closed /\ (s.writeBuf # None \/ s.buffers = <<>>)
  <2>1. t = s
    BY <1>2 DEF tryWriteStream
  <2>2. QED
    BY <1>2, <2>1 DEF SameReader
<1>3. CASE ~s.closed /\ s.writeBuf = None /\ s.buffers # <<>>
  <2>1. t = Writing(s, Head(s.buffers), Tail(s.buffers), Append(s.wire, Head(s.buffers)))
    BY <1>3 DEF tryWriteStream, Writing
  <2>2. s.buffers \in Seq(Nat) /\ s.wire \in Seq(Nat) /\ s.submitted \in Nat
    BY DEF Streams
  <2>3. /\ Head(s.buffers) \in Nat /\ Head(s.buffers) # None
        /\ Tail(s.buffers) \in Seq(Nat)
        /\ Append(s.wire, Head(s.buffers)) \in Seq(Nat)
        /\ Ordered(Tail(s.buffers), Append(s.wire, Head(s.buffers)), s.submitted)
    BY <1>3, <2>2, WriteOrdered DEF OrderedIn
  <2> DEFINE o == Head(s.buffers)
             b == Tail(s.buffers)
             w == Append(s.wire, Head(s.buffers))
  <2>4. /\ o \in Nat /\ o # None /\ b \in Seq(Nat) /\ w \in Seq(Nat)
        /\ Ordered(b, w, s.submitted)
        /\ t = Writing(s, o, b, w)
    BY <2>1, <2>3
  <2> HIDE DEF o, b, w
  <2>5. Begins(s, t, o, b, w)
    BY <2>4, WritingBegins
  <2>6. OrderedIn(t)
    BY <2>4, <2>5 DEF OrderedIn, Begins
  <2>7. QED
    BY <1>3, <2>4, <2>5, <2>6 DEF Begins
<1>4. QED
  BY <1>1, <1>2, <1>3

-----------------------------------------------------------------------------
\* The queue: what taking and posting a lambda do to the tokens.

LEMMA TailTokens ==
    ASSUME TypeOK, Tokens, NEW lambda, queue # <<>>, lambda = Head(queue),
           queue' = Tail(queue)
    PROVE  /\ queue' \in Seq(Lambdas)
           /\ AtMostOne(queue', AcceptLambdas) /\ AtMostOne(queue', ReadLambdas)
           /\ AtMostOne(queue', {"iceResolved"}) /\ AtMostOne(queue', {"written"})
           /\ Queued(AcceptLambdas)' <=> Queued(AcceptLambdas) /\ lambda \notin AcceptLambdas
           /\ Queued(ReadLambdas)' <=> Queued(ReadLambdas) /\ lambda \notin ReadLambdas
           /\ Queued({"iceResolved"})' <=> Queued({"iceResolved"}) /\ lambda # "iceResolved"
           /\ Queued({"written"})' <=> Queued({"written"}) /\ lambda # "written"
           /\ Queued({"peerClosed"})' => Queued({"peerClosed"})
           /\ Queued({"streamClosed"})' => Queued({"streamClosed"})
           /\ lambda \in AcceptLambdas => Queued(AcceptLambdas)
           /\ lambda \in ReadLambdas => Queued(ReadLambdas)
           /\ lambda = "iceResolved" => Queued({"iceResolved"})
           /\ lambda = "written" => Queued({"written"})
           /\ lambda = "peerClosed" => Queued({"peerClosed"})
           /\ lambda = "streamClosed" => Queued({"streamClosed"})
<1>1. /\ queue \in Seq(Lambdas) /\ queue # <<>>
      /\ lambda = Head(queue) /\ queue' = Tail(queue)
  BY DEF TypeOK
<1>2. ASSUME NEW L
      PROVE  /\ lambda \in L => Queued(L)
             /\ Queued(L)' => Queued(L)
             /\ lambda \notin L => (Queued(L) <=> Queued(L)')
             /\ AtMostOne(queue, L) => AtMostOne(queue', L)
             /\ AtMostOne(queue, L) /\ lambda \in L => ~Queued(L)'
  BY <1>1, TailHas DEF Queued
<1>3. queue' \in Seq(Lambdas)
  BY <1>1
<1>4. /\ AtMostOne(queue, AcceptLambdas) /\ AtMostOne(queue, ReadLambdas)
      /\ AtMostOne(queue, {"iceResolved"}) /\ AtMostOne(queue, {"written"})
  BY DEF Tokens
<1>5. /\ AtMostOne(queue', AcceptLambdas)
      /\ Queued(AcceptLambdas)' <=> Queued(AcceptLambdas) /\ lambda \notin AcceptLambdas
      /\ lambda \in AcceptLambdas => Queued(AcceptLambdas)
  BY <1>2, <1>4
<1>6. /\ AtMostOne(queue', ReadLambdas)
      /\ Queued(ReadLambdas)' <=> Queued(ReadLambdas) /\ lambda \notin ReadLambdas
      /\ lambda \in ReadLambdas => Queued(ReadLambdas)
  BY <1>2, <1>4
<1>7. ASSUME NEW name, AtMostOne(queue, {name})
      PROVE  /\ AtMostOne(queue', {name})
             /\ Queued({name})' <=> Queued({name}) /\ lambda # name
             /\ lambda = name => Queued({name})
  <2>1. lambda \in {name} <=> lambda = name
    OBVIOUS
  <2>2. QED
    BY <1>2, <1>7, <2>1
<1>8. ASSUME NEW name
      PROVE  /\ Queued({name})' => Queued({name})
             /\ lambda = name => Queued({name})
  <2>1. lambda = name => lambda \in {name}
    OBVIOUS
  <2>2. QED
    BY <1>2, <2>1
<1>9. QED
  BY <1>1, <1>3, <1>4, <1>5, <1>6, <1>7, <1>8

LEMMA TakeTokens ==
    ASSUME TypeOK, Tokens, NEW lambda, Take(lambda)
    PROVE  /\ queue' \in Seq(Lambdas) /\ UNCHANGED env
           /\ AtMostOne(queue', AcceptLambdas) /\ AtMostOne(queue', ReadLambdas)
           /\ AtMostOne(queue', {"iceResolved"}) /\ AtMostOne(queue', {"written"})
           /\ Queued(AcceptLambdas)' <=> Queued(AcceptLambdas) /\ lambda \notin AcceptLambdas
           /\ Queued(ReadLambdas)' <=> Queued(ReadLambdas) /\ lambda \notin ReadLambdas
           /\ Queued({"iceResolved"})' <=> Queued({"iceResolved"}) /\ lambda # "iceResolved"
           /\ Queued({"written"})' <=> Queued({"written"}) /\ lambda # "written"
           /\ Queued({"peerClosed"})' => Queued({"peerClosed"})
           /\ Queued({"streamClosed"})' => Queued({"streamClosed"})
           /\ lambda \in AcceptLambdas => Queued(AcceptLambdas)
           /\ lambda \in ReadLambdas => Queued(ReadLambdas)
           /\ lambda = "iceResolved" => Queued({"iceResolved"})
           /\ lambda = "written" => Queued({"written"})
           /\ lambda = "peerClosed" => Queued({"peerClosed"})
           /\ lambda = "streamClosed" => Queued({"streamClosed"})
<1>1. queue # <<>> /\ lambda = Head(queue) /\ queue' = Tail(queue) /\ UNCHANGED env
  BY DEF Take
<1>2. QED
  BY <1>1, TailTokens

LEMMA PostTokens ==
    ASSUME TypeOK, NEW lambda \in Lambdas, Post(lambda)
    PROVE  /\ queue' \in Seq(Lambdas)
           /\ \A L : /\ Queued(L)' <=> Queued(L) \/ lambda \in L
                     /\ AtMostOne(queue, L) /\ (lambda \in L => ~Queued(L))
                          => AtMostOne(queue', L)
<1>1. queue \in Seq(Lambdas) /\ queue' = Append(queue, lambda)
  BY DEF TypeOK, Post
<1>2. QED
  BY <1>1, AppendHas DEF Queued

-----------------------------------------------------------------------------
LEMMA InitIInv == Init => IInv
<1> SUFFICES ASSUME Init PROVE IInv
  OBVIOUS
<1>1. queue = <<>> /\ Len(queue) = 0 /\ queue \in Seq(Lambdas)
  BY DEF Init
<1>2. /\ \A L : ~Queued(L)
      /\ \A L : AtMostOne(queue, L)
  BY <1>1 DEF Queued, Has, AtMostOne
<1>3. ss \in Streams
  BY DEF Init, Started, Streams, PeerStates, FutureOps, None
<1>a. crashed \in BOOLEAN
  BY DEF Init
<1>b. /\ link \in {"open", "eof", "failed"}
      /\ reads \in 0..MaxReads /\ sends \in 0..MaxSends /\ adds \in 0..MaxAdds
  BY BoundsAssumption DEF Init
<1>4. TypeOK
  BY <1>1, <1>3, <1>a, <1>b DEF TypeOK
<1>5. Tokens /\ Starting /\ Flags
  BY <1>2 DEF Init, Started, Tokens, Starting, Flags, AcceptPending, IcePending,
     ReadPending, WritePending, Reads, None
<1>6. NoFutureClash /\ ReadLoopRuns /\ NoStalledWriter
  BY DEF Init, Started, NoFutureClash, ReadLoopRuns, NoStalledWriter
<1>7. SentInOrder
  BY DEF Init, Started, SentInOrder
<1>8. QED
  BY <1>4, <1>5, <1>6, <1>7 DEF IInv

\* The handlers of the accept, of the ICE servers and of a read end in a read,
\* or in a stream without one: either way the invariant holds again.
LEMMA LoopStep ==
    ASSUME IInv,
           NEW s \in Streams, NEW op \in Reads,
           \* the object when the handler comes to StartRead
           OrderedIn(s), s.buffers # <<>> /\ ~s.closed => s.writeBuf # None,
           s.writeBuf # None <=> s.writeOp = "write" \/ Queued({"written"})',
           s.writeOp = "write" => ~Queued({"written"})',
           s.accepted, ~s.reading, s.future = "idle",
           ~s.self => s.closed,
           s.closeOp \/ Queued({"streamClosed"})' => s.closed,
           \* the operations and the queue
           ~s.iceOp, ~Queued({"iceResolved"})', ~Queued(AcceptLambdas)',
           ~Queued(ReadLambdas)',
           queue' \in Seq(Lambdas), UNCHANGED env,
           AtMostOne(queue', AcceptLambdas), AtMostOne(queue', ReadLambdas),
           AtMostOne(queue', {"iceResolved"}), AtMostOne(queue', {"written"}),
           ss' = StartRead(s, op)
    PROVE  IInv'
<1>1. /\ SameOps(s, ss') /\ SameWriter(s, ss')
  BY StartReadFacts
<1>2. /\ Ordered(ss'.buffers, ss'.wire, ss'.submitted)
      /\ SentInOrder'
  BY <1>1 DEF SameWriter, OrderedIn, Ordered, SentInOrder
<1>3. CASE s.closed
  <2>1. ss' = cleanup(s)
    BY <1>3, StartReadFacts
  <2>2. /\ ss' \in Streams /\ ss'.closed /\ ~ss'.conn /\ ~ss'.self
        /\ ~ss'.reading /\ ss'.future = "idle"
    BY <2>1, CleanupFacts
  <2>3. TypeOK' /\ NoFutureClash'
    BY <2>2 DEF IInv, TypeOK, env, NoFutureClash
  <2>4. Tokens' /\ Starting' /\ Flags'
    BY <1>1, <2>2 DEF Tokens, Starting, Flags, AcceptPending, IcePending,
       ReadPending, WritePending, SameOps, SameWriter, Reads
  <2>5. ReadLoopRuns' /\ NoStalledWriter'
    BY <2>2 DEF ReadLoopRuns, NoStalledWriter
  <2>6. QED
    BY <1>2, <2>3, <2>4, <2>5 DEF IInv
<1>4. CASE ~s.closed
  <2>1. /\ ss' \in Streams /\ ss'.reading /\ ss'.future \in Reads
        /\ ~ss'.closed /\ ss'.self = s.self
        /\ ss'.closeOp = s.closeOp
    BY <1>4, StartReadFacts
  <2>2. TypeOK' /\ NoFutureClash'
    BY <2>1 DEF IInv, TypeOK, env, NoFutureClash, Reads
  <2>3. Tokens' /\ Starting' /\ Flags'
    BY <1>1, <1>4, <2>1 DEF Tokens, Starting, Flags, AcceptPending, IcePending,
       ReadPending, WritePending, SameOps, SameWriter, Reads
  <2>4. ReadLoopRuns' /\ NoStalledWriter'
    BY <1>1, <1>4, <2>1 DEF ReadLoopRuns, NoStalledWriter, SameWriter
  <2>5. QED
    BY <1>2, <2>2, <2>3, <2>4 DEF IInv
<1>5. QED
  BY <1>3, <1>4

\* A new object goes to the end of the write queue.
LEMMA SubmittedFacts ==
    ASSUME NEW s \in Streams, OrderedIn(s), NEW t,
           t = [s EXCEPT !.submitted = s.submitted + 1,
                         !.buffers = Append(s.buffers, s.submitted + 1)]
    PROVE  /\ t \in Streams /\ SameReader(s, t) /\ OrderedIn(t)
           /\ t.writeBuf = s.writeBuf /\ t.writeOp = s.writeOp
<1>1. s.buffers \in Seq(Nat) /\ s.wire \in Seq(Nat) /\ s.submitted \in Nat
  BY DEF Streams
<1>2. /\ Append(s.buffers, s.submitted + 1) \in Seq(Nat)
      /\ Ordered(Append(s.buffers, s.submitted + 1), s.wire, s.submitted + 1)
  BY <1>1, SubmitOrdered DEF OrderedIn
<1>3. s.submitted + 1 \in Nat
  BY <1>1
<1>4. /\ t \in Streams /\ SameReader(s, t)
      /\ t.buffers = Append(s.buffers, s.submitted + 1)
      /\ t.submitted = s.submitted + 1 /\ t.wire = s.wire
      /\ t.writeBuf = s.writeBuf /\ t.writeOp = s.writeOp
  BY <1>2, <1>3 DEF Streams, SameReader
<1>5. QED
  BY <1>2, <1>4 DEF OrderedIn

\* A handler that ends in tryWriteStream: either a write is started, or there is
\* nothing to do, or the stream is closed and closeStream decides.
LEMMA WriterStep ==
    ASSUME IInv, NEW lambda, Take(lambda),
           lambda \notin AcceptLambdas, lambda \notin ReadLambdas,
           lambda # "iceResolved",
           NEW s \in Streams, SameReader(ss, s), OrderedIn(s),
           s.writeBuf # None <=> s.writeOp = "write" \/ Queued({"written"})',
           s.writeOp = "write" => ~Queued({"written"})',
           ss' = tryWriteStream(s)
    PROVE  IInv'
<1>0. /\ TypeOK /\ NoFutureClash /\ Tokens /\ Starting /\ Flags /\ ReadLoopRuns
  BY DEF IInv
<1> USE DEF AcceptPending, IcePending, ReadPending, WritePending
<1>1. s.writeBuf = None => s.writeOp = "idle"
  BY DEF Streams
<1>2. CASE s.closed
  <2>1. ss' = closeStream(s)
    BY <1>1, <1>2, TryWriteFacts
  <2>a. SameWriter(s, ss')
    BY <2>1, CloseStreamFacts
  <2>2. Ordered(ss'.buffers, ss'.wire, ss'.submitted) /\ SentInOrder'
    BY <2>a DEF SameWriter, OrderedIn, Ordered, SentInOrder
  <2>3. /\ ss.closed /\ ~AcceptPending /\ ~IcePending
    BY <1>0, <1>2 DEF SameReader, Starting
  <2>4. /\ ss' \in Streams /\ ss'.closed
        /\ SameOps(s, ss') /\ SameWriter(s, ss')
        /\ ss'.reading = s.reading /\ ss'.future = s.future
        /\ s.reading => ss'.self = s.self
    BY <2>1, CloseStreamFacts
  <2>5. TypeOK' /\ NoFutureClash' /\ ReadLoopRuns' /\ NoStalledWriter'
    BY <1>0, <2>4, TakeTokens
       DEF TypeOK, NoFutureClash, ReadLoopRuns, NoStalledWriter, SameReader, env
  <2>6. Tokens' /\ Starting' /\ Flags'
    BY <1>0, <2>3, <2>4, TakeTokens
       DEF Tokens, Starting, Flags, SameOps, SameWriter, SameReader
  <2>7. QED
    BY <2>2, <2>5, <2>6 DEF IInv
<1>3. CASE ~s.closed
  <2>1. /\ ss' \in Streams /\ SameReader(s, ss') /\ OrderedIn(ss')
        /\ ss'.buffers # <<>> => ss'.writeBuf # None
        /\ \/ ss' = s
           \/ /\ s.writeBuf = None
              /\ ss'.writeBuf # None /\ ss'.writeOp = "write"
    BY <1>1, <1>3, TryWriteFacts
  <2>2. SentInOrder' /\ NoStalledWriter'
    BY <2>1 DEF OrderedIn, Ordered, SentInOrder, NoStalledWriter
  <2>3. /\ ss'.writeBuf # None <=> WritePending'
        /\ ss'.writeOp = "write" => ~Queued({"written"})'
    BY <2>1
  <2>4. QED
    BY <1>0, <2>1, <2>2, <2>3, TakeTokens
       DEF IInv, TypeOK, NoFutureClash, Tokens, Starting, Flags, ReadLoopRuns,
           SameReader, env
<1>4. QED
  BY <1>2, <1>3

\* The object with reading_ reset.
SameBut(s, t) ==
    /\ t.accepted = s.accepted /\ t.iceOp = s.iceOp /\ t.closed = s.closed
    /\ t.self = s.self /\ t.conn = s.conn /\ t.peer = s.peer
    /\ t.future = s.future /\ t.closeOp = s.closeOp
    /\ SameWriter(s, t)

\* A read lambda's token: the read is over and no other is pending.
LEMMA ReadToken ==
    ASSUME IInv, NEW lambda \in ReadLambdas, queue # <<>>, lambda = Head(queue),
           queue' = Tail(queue)
    PROVE  /\ ss.reading /\ ss.accepted /\ ss.self
           /\ ss.future = "idle" /\ ~Queued(ReadLambdas)'
           /\ ~AcceptPending /\ ~IcePending
           /\ ~Queued(AcceptLambdas)' /\ ~Queued({"iceResolved"})'
<1>0. /\ TypeOK /\ ss \in Streams /\ NoFutureClash /\ Tokens /\ Starting /\ Flags
  BY DEF IInv, TypeOK
<1>1. Queued(ReadLambdas) /\ ~Queued(ReadLambdas)'
  BY <1>0, TailTokens
<1>2. ss.reading /\ ss.accepted /\ ss.self /\ ss.future \notin Reads
  BY <1>0, <1>1 DEF Flags, ReadPending, Tokens
<1>3. ~AcceptPending /\ ~IcePending
  BY <1>0, <1>2 DEF Starting
<1>4. ss.future = "idle"
  BY <1>0, <1>2, <1>3
     DEF AcceptPending, NoFutureClash, Streams, FutureOps, Reads
<1>5. QED
  BY <1>0, <1>1, <1>2, <1>3, <1>4, TailTokens DEF AcceptPending, IcePending

\* An object that throws: its read is over and nothing else happens any more.
LEMMA ThrowStep ==
    ASSUME IInv, NEW lambda \in ReadLambdas, queue # <<>>, lambda = Head(queue),
           queue' = Tail(queue), lambda \notin AcceptLambdas,
           lambda \notin {"iceResolved", "written"},
           ss' \in Streams, ~ss'.reading, SameBut(ss, ss'), crashed' = TRUE,
           UNCHANGED <<link, reads, sends, adds>>
    PROVE  IInv'
<1>0. /\ TypeOK /\ NoFutureClash /\ Tokens /\ Starting /\ Flags
      /\ SentInOrder /\ NoStalledWriter
  BY DEF IInv
<1>1. /\ ss.future = "idle" /\ ~Queued(ReadLambdas)'
      /\ ~AcceptPending /\ ~IcePending
      /\ ~Queued(AcceptLambdas)' /\ ~Queued({"iceResolved"})'
  BY ReadToken
<1>2. TypeOK' /\ NoFutureClash' /\ ReadLoopRuns' /\ NoStalledWriter'
  BY <1>0, TailTokens
     DEF TypeOK, NoFutureClash, ReadLoopRuns, NoStalledWriter, SameBut, SameWriter
<1>3. SentInOrder'
  BY <1>0 DEF SentInOrder, SameBut, SameWriter
<1>4. Tokens' /\ Starting' /\ Flags'
  BY <1>0, <1>1, TailTokens
     DEF Tokens, Starting, Flags, SameBut, SameWriter, Reads, AcceptPending,
         IcePending, ReadPending, WritePending
<1>5. QED
  BY <1>2, <1>3, <1>4 DEF IInv

\* A read lambda that ends the loop leaves a closed stream.
LEMMA ReadOver ==
    ASSUME IInv, NEW lambda \in ReadLambdas, Take(lambda),
           lambda \notin AcceptLambdas, lambda # "iceResolved", lambda # "written",
           NEW s \in Streams, ~s.reading, SameBut(ss, s),
           ss' \in Streams, ss'.closed, SameOps(s, ss'), SameWriter(s, ss'),
           ~ss'.reading, ss'.future = s.future
    PROVE  IInv'
<1>0. /\ TypeOK /\ NoFutureClash /\ Tokens /\ Starting /\ Flags /\ SentInOrder
  BY DEF IInv
<1>1. /\ ss.future = "idle" /\ ~Queued(ReadLambdas)'
      /\ ~AcceptPending /\ ~IcePending
      /\ ~Queued(AcceptLambdas)' /\ ~Queued({"iceResolved"})'
  BY ReadToken DEF Take
<1>2. ss'.iceOp = ss.iceOp /\ ss'.future = "idle" /\ SameWriter(ss, ss')
  BY <1>1 DEF SameBut, SameOps, SameWriter
<1>3. TypeOK' /\ NoFutureClash' /\ ReadLoopRuns' /\ NoStalledWriter'
  BY <1>0, <1>2, TakeTokens
     DEF TypeOK, NoFutureClash, ReadLoopRuns, NoStalledWriter, env
<1>4. SentInOrder'
  BY <1>0, <1>2 DEF SentInOrder, SameWriter
<1>5. Tokens' /\ Starting' /\ Flags'
  BY <1>0, <1>1, <1>2, TakeTokens
     DEF Tokens, Starting, Flags, SameWriter, Reads, AcceptPending, IcePending,
         ReadPending, WritePending
<1>6. QED
  BY <1>3, <1>4, <1>5 DEF IInv

\* A handler that leaves the stream closed and starts nothing.
LEMMA ClosedStep ==
    ASSUME IInv, NEW lambda, Take(lambda),
           lambda \notin AcceptLambdas, lambda \notin ReadLambdas,
           lambda # "iceResolved", lambda # "written",
           ~AcceptPending, ~IcePending,
           ss' \in Streams, ss'.closed, SameOps(ss, ss'), SameWriter(ss, ss'),
           ss'.reading = ss.reading, ss'.future = ss.future,
           ss.reading => ss'.self = ss.self
    PROVE  IInv'
<1>0. /\ TypeOK /\ NoFutureClash /\ Tokens /\ Starting /\ Flags /\ SentInOrder
  BY DEF IInv
<1>1. SentInOrder'
  BY <1>0 DEF SentInOrder, SameWriter
<1>2. TypeOK' /\ NoFutureClash' /\ ReadLoopRuns' /\ NoStalledWriter'
  BY <1>0, TakeTokens DEF TypeOK, NoFutureClash, ReadLoopRuns, NoStalledWriter, env
<1>3. Tokens' /\ Starting' /\ Flags'
  BY <1>0, TakeTokens
     DEF Tokens, Starting, Flags, SameOps, SameWriter, AcceptPending, IcePending,
         ReadPending, WritePending
<1>4. QED
  BY <1>1, <1>2, <1>3 DEF IInv

\* A read lambda that goes on reading.
LEMMA ReadLoopStep ==
    ASSUME IInv, NEW lambda \in ReadLambdas, Take(lambda), lambda # "written",
           NEW s \in Streams, NEW op \in Reads,
           s.accepted = ss.accepted, s.future = ss.future, s.iceOp = ss.iceOp,
           ~s.reading,
           OrderedIn(s), s.buffers # <<>> /\ ~s.closed => s.writeBuf # None,
           s.writeBuf # None <=> s.writeOp = "write" \/ Queued({"written"}),
           s.writeOp = "write" => ~Queued({"written"}),
           ~s.self => s.closed,
           ss.closed \/ s.closeOp => s.closed,
           ss' = StartRead(s, op)
    PROVE  IInv'
<1>0. TypeOK /\ Tokens /\ Flags
  BY DEF IInv
<1>1. /\ ss.accepted /\ ss.future = "idle" /\ ~Queued(ReadLambdas)'
      /\ ~ss.iceOp
      /\ ~Queued(AcceptLambdas)' /\ ~Queued({"iceResolved"})'
  BY ReadToken DEF IcePending, Take
<1>2. /\ Queued({"written"})' <=> Queued({"written"})
      /\ Queued({"streamClosed"})' => s.closed
  BY <1>0, TakeTokens DEF Flags
<1>3. /\ queue' \in Seq(Lambdas) /\ UNCHANGED env
      /\ AtMostOne(queue', AcceptLambdas) /\ AtMostOne(queue', ReadLambdas)
      /\ AtMostOne(queue', {"iceResolved"}) /\ AtMostOne(queue', {"written"})
  BY <1>0, TakeTokens
<1>4. QED
  BY <1>1, <1>2, <1>3, LoopStep

\* What the object is when the loop goes on, after the read was handled.
ReadyToRead(s) ==
    /\ s \in Streams
    /\ s.accepted = ss.accepted /\ s.future = ss.future /\ s.iceOp = ss.iceOp
    /\ ~s.reading
    /\ OrderedIn(s)
    /\ s.buffers # <<>> /\ ~s.closed => s.writeBuf # None
    /\ s.writeBuf # None <=> s.writeOp = "write" \/ Queued({"written"})
    /\ s.writeOp = "write" => ~Queued({"written"})
    /\ ~s.self => s.closed
    /\ ss.closed \/ s.closeOp => s.closed

\* reading_ reset is all that changes before an object is looked at, ...
LEMMA ReadDoneReady ==
    ASSUME IInv, ss.accepted, NEW s, s = ReadDone
    PROVE  s \in Streams /\ SameBut(ss, s) /\ ReadyToRead(s)
<1>1. TypeOK /\ ss \in Streams /\ Tokens /\ Flags /\ SentInOrder /\ NoStalledWriter
  BY DEF IInv, TypeOK
<1>2. s \in Streams /\ ~s.reading /\ SameBut(ss, s)
  BY <1>1 DEF ReadDone, Streams, SameBut, SameWriter
<1>3. Ordered(s.buffers, s.wire, s.submitted)
  BY <1>1, <1>2 DEF SameBut, SameWriter, SentInOrder, Ordered
<1>4. QED
  BY <1>1, <1>2, <1>3
     DEF ReadyToRead, OrderedIn, SameBut, SameWriter, Tokens, Flags,
         NoStalledWriter, WritePending

\* ... a description may bring the peer connection to life, ...
LEMMA DescriptionReady ==
    ASSUME NEW s, ReadyToRead(s), NEW t, t = handleOfferAnswer(s)
    PROVE  ReadyToRead(t)
<1>1. t \in Streams /\ SameFlow(s, t) /\ t.accepted = s.accepted
  BY DEF ReadyToRead, handleOfferAnswer, Streams, PeerStates, SameFlow, SameOps,
     SameWriter
<1>2. Ordered(t.buffers, t.wire, t.submitted)
  BY <1>1 DEF ReadyToRead, OrderedIn, SameFlow, SameWriter
<1>3. QED
  BY <1>1, <1>2 DEF ReadyToRead, OrderedIn, SameFlow, SameOps, SameWriter

\* ... and a TURN request sends an answer, or closes the stream for good.
LEMMA TurnRequestReady ==
    ASSUME NEW s, ReadyToRead(s), NEW t, t = sendSignalligObject(s)
    PROVE  ReadyToRead(t)
<1>1. PICK u : u = [s EXCEPT !.submitted = s.submitted + 1,
                             !.buffers = Append(s.buffers, s.submitted + 1)]
  OBVIOUS
<1>2. t = tryWriteStream(u)
  BY <1>1 DEF sendSignalligObject
<1>3. /\ u \in Streams /\ SameReader(s, u) /\ OrderedIn(u)
      /\ u.writeBuf = s.writeBuf /\ u.writeOp = s.writeOp
  BY <1>1, SubmittedFacts DEF ReadyToRead
<1>4. u.writeBuf = None => u.writeOp = "idle"
  BY <1>3 DEF ReadyToRead, Streams
<1>5. CASE u.closed
  <2>1. t = closeStream(u)
    BY <1>2, <1>3, <1>4, <1>5, TryWriteFacts
  <2>2. /\ t \in Streams /\ SameOps(u, t) /\ SameWriter(u, t) /\ t.closed
        /\ t.reading = u.reading /\ t.future = u.future
    BY <1>3, <2>1, CloseStreamFacts
  <2>3. Ordered(t.buffers, t.wire, t.submitted)
    BY <1>3, <2>2 DEF OrderedIn, SameWriter
  <2>4. QED
    BY <1>3, <2>2, <2>3
       DEF ReadyToRead, OrderedIn, SameOps, SameWriter, SameReader
<1>6. CASE ~u.closed
  <2>1. /\ t \in Streams /\ SameReader(u, t) /\ OrderedIn(t)
        /\ t.buffers # <<>> => t.writeBuf # None
        /\ \/ t = u
           \/ /\ u.writeBuf = None
              /\ t.writeBuf # None /\ t.writeOp = "write"
    BY <1>2, <1>3, <1>4, <1>6, TryWriteFacts
  <2>2. QED
    BY <1>3, <2>1 DEF ReadyToRead, SameReader
<1>7. QED
  BY <1>5, <1>6

\* The lambdas of the event queue.
LEMMA EventLoopStep == IInv /\ EventLoop => IInv'
<1> SUFFICES ASSUME IInv, EventLoop
             PROVE  IInv'
  OBVIOUS
<1>0. /\ TypeOK /\ ss \in Streams /\ NoFutureClash /\ Tokens /\ Starting
      /\ Flags /\ ReadLoopRuns /\ SentInOrder /\ NoStalledWriter
      /\ OrderedIn(ss)
  BY DEF IInv, TypeOK, SentInOrder, OrderedIn, Ordered
<1> USE DEF AcceptPending, IcePending, ReadPending, WritePending
<1>1. CASE Accepted
  <2> DEFINE s == [ss EXCEPT !.accepted = TRUE]
  <2>1. Take("accepted") /\ ss' = IF s.conn THEN StartRead(s, "readLength") ELSE s
    BY <1>1 DEF Accepted, readObjLength
  <2>2. "accepted" \in AcceptLambdas /\ "accepted" \notin ReadLambdas
    BY DEF AcceptLambdas, ReadLambdas
  <2>3. /\ s \in Streams /\ s.accepted /\ SameWriter(ss, s)
        /\ s.reading = ss.reading /\ s.future = ss.future /\ s.self = ss.self
        /\ s.closed = ss.closed /\ s.conn = ss.conn /\ s.peer = ss.peer
        /\ s.closeOp = ss.closeOp /\ s.iceOp = ss.iceOp
    BY <1>0 DEF Streams, SameWriter
  <2>4. /\ Queued(AcceptLambdas) /\ ss.future = "idle"
        /\ ~ss.accepted /\ ss.self /\ ~ss.closed /\ ~ss.reading
    BY <1>0, <2>1, <2>2, TakeTokens
       DEF Tokens, Starting, Flags, NoFutureClash, TypeOK, Streams, FutureOps,
           Reads
  <2>5. CASE ss.conn
    <3>1. ~ss.iceOp /\ ~Queued({"iceResolved"})
      BY <1>0, <2>5 DEF Starting
    <3>2. OrderedIn(s) /\ (s.buffers # <<>> => s.writeBuf # None)
      BY <1>0, <2>3, <2>4 DEF OrderedIn, SameWriter, NoStalledWriter
    <3>3. ss' = StartRead(s, "readLength") /\ "readLength" \in Reads
      BY <2>1, <2>3, <2>5 DEF Reads
    <3>4. QED
      BY <1>0, <2>1, <2>2, <2>3, <2>4, <3>1, <3>2, <3>3, TakeTokens, LoopStep
         DEF Tokens, Flags, SameWriter
  <2>6. CASE ~ss.conn
    <3>1. ss' = s
      BY <2>1, <2>3, <2>6
    <3>2. SentInOrder' /\ NoStalledWriter'
      BY <1>0, <2>3, <3>1 DEF SentInOrder, NoStalledWriter, SameWriter
    <3>3. QED
      BY <1>0, <2>1, <2>2, <2>3, <2>4, <2>6, <3>1, <3>2, TakeTokens
         DEF IInv, TypeOK, NoFutureClash, Tokens, Starting, Flags, ReadLoopRuns,
             SameWriter, env
  <2>7. QED
    BY <2>5, <2>6
<1>2. CASE AcceptFailed
  <2>1. Take("acceptFailed") /\ ss' = StopConnection([ss EXCEPT !.self = FALSE])
    BY <1>2 DEF AcceptFailed
  <2>2. "acceptFailed" \in AcceptLambdas /\ "acceptFailed" \notin ReadLambdas
    BY DEF AcceptLambdas, ReadLambdas
  <2>3. /\ ss' \in Streams /\ SameOps(ss, ss') /\ SameWriter(ss, ss')
        /\ ~ss'.self /\ ss'.reading = ss.reading /\ ss'.future = ss.future
        /\ ss'.closed = ss.closed /\ ss'.conn = ss.conn
        /\ ss'.closeOp = ss.closeOp
        /\ ss'.peer = ss.peer \/ ss.conn
    BY <1>0, <2>1 DEF StopConnection, Open, PeerStates, Streams, SameOps, SameWriter
  <2>4. Queued(AcceptLambdas) /\ ss.future \notin {"accept"} /\ ~ss.accepted /\ ~ss.reading
    BY <1>0, <2>1, <2>2, TakeTokens DEF Tokens, Starting, Flags
  <2>5. SentInOrder' /\ NoStalledWriter'
    BY <1>0, <2>3 DEF SentInOrder, NoStalledWriter, SameWriter
  <2>6. QED
    BY <1>0, <2>1, <2>2, <2>3, <2>4, <2>5, TakeTokens
       DEF IInv, TypeOK, NoFutureClash, Tokens, Starting, Flags, ReadLoopRuns,
           SameOps, SameWriter, env
<1>3. CASE IceResolved
  <2> DEFINE s == createWebrtcConnection(ss)
  <2>1. Take("iceResolved") /\ ss' = IF s.accepted THEN StartRead(s, "readLength") ELSE s
    BY <1>3 DEF IceResolved, readObjLength
  <2>2. "iceResolved" \notin AcceptLambdas /\ "iceResolved" \notin ReadLambdas
    BY DEF AcceptLambdas, ReadLambdas
  <2>3. /\ s \in Streams /\ SameOps(ss, s) /\ SameWriter(ss, s)
        /\ s.reading = ss.reading /\ s.future = ss.future /\ s.self = ss.self
        /\ s.closed = ss.closed /\ s.conn /\ s.closeOp = ss.closeOp
        /\ ss.peer = "none" => s.peer \in {"none", "new"}
    BY <1>0, ConnectionFacts DEF SameFlow
  <2>4. /\ Queued({"iceResolved"}) /\ ~ss.iceOp
        /\ ~ss.conn /\ ~ss.closed /\ ~ss.reading /\ ss.peer = "none"
    BY <1>0, <2>1, TakeTokens DEF Tokens, Starting
  <2>5. CASE ss.accepted
    <3>1. ss.self /\ ss.future = "idle" /\ ~Queued(AcceptLambdas)
      BY <1>0, <2>4, <2>5 DEF Starting, Flags, NoFutureClash, TypeOK, Streams,
         FutureOps, Reads
    <3>2. OrderedIn(s) /\ (s.buffers # <<>> => s.writeBuf # None)
      BY <1>0, <2>3, <2>4 DEF OrderedIn, SameWriter, NoStalledWriter
    <3>3. ss' = StartRead(s, "readLength") /\ "readLength" \in Reads
      BY <2>1, <2>3, <2>5 DEF Reads, SameOps
    <3>4. QED
      BY <1>0, <2>1, <2>2, <2>3, <2>4, <2>5, <3>1, <3>2, <3>3, TakeTokens, LoopStep
         DEF Tokens, Flags, SameOps, SameWriter
  <2>6. CASE ~ss.accepted
    <3>1. ss' = s
      BY <2>1, <2>3, <2>6 DEF SameOps
    <3>2. SentInOrder' /\ NoStalledWriter'
      BY <1>0, <2>3, <3>1 DEF SentInOrder, NoStalledWriter, SameWriter
    <3>3. QED
      BY <1>0, <2>1, <2>2, <2>3, <2>4, <2>6, <3>1, <3>2, TakeTokens
         DEF IInv, TypeOK, NoFutureClash, Tokens, Starting, Flags, ReadLoopRuns,
             SameOps, SameWriter, env
  <2>7. QED
    BY <2>5, <2>6
<1>4. CASE Written
  <2>1. PICK s : s = [ss EXCEPT !.writeBuf = None]
    OBVIOUS
  <2>2. Take("written") /\ ss' = tryWriteStream(s)
    BY <1>4, <2>1 DEF Written
  <2>3. "written" \notin AcceptLambdas /\ "written" \notin ReadLambdas
    BY DEF AcceptLambdas, ReadLambdas
  <2>4. /\ s \in Streams /\ SameReader(ss, s) /\ s.writeBuf = None
        /\ s.writeOp = ss.writeOp /\ s.buffers = ss.buffers /\ s.wire = ss.wire
        /\ s.submitted = ss.submitted /\ OrderedIn(s)
    BY <1>0, <2>1 DEF Streams, SameReader, None, OrderedIn
  <2>5. ss.writeOp = "idle" /\ ~Queued({"written"})'
    BY <1>0, <2>2, TakeTokens DEF Tokens, Streams
  <2>6. QED
    BY <1>0, <2>2, <2>3, <2>4, <2>5, WriterStep
<1>5. CASE SendObject
  <2>1. PICK s : s = [ss EXCEPT !.submitted = ss.submitted + 1,
                                !.buffers = Append(ss.buffers, ss.submitted + 1)]
    OBVIOUS
  <2>2. Take("sendObject") /\ ss' = tryWriteStream(s)
    BY <1>5, <2>1 DEF SendObject, sendSignalligObject
  <2>3. "sendObject" \notin AcceptLambdas /\ "sendObject" \notin ReadLambdas
    BY DEF AcceptLambdas, ReadLambdas
  <2>4. s \in Streams /\ SameReader(ss, s) /\ OrderedIn(s)
        /\ s.writeBuf = ss.writeBuf /\ s.writeOp = ss.writeOp
    BY <1>0, <2>1, SubmittedFacts
  <2>5. Queued({"written"})' <=> Queued({"written"})
    BY <1>0, <2>2, TakeTokens
  <2>6. s.writeBuf # None <=> s.writeOp = "write" \/ Queued({"written"})'
    BY <1>0, <2>4, <2>5 DEF Flags
  <2>7. s.writeOp = "write" => ~Queued({"written"})'
    BY <1>0, <2>4, <2>5 DEF Tokens
  <2>8. QED
    BY <1>0, <2>2, <2>3, <2>4, <2>6, <2>7, WriterStep
<1>6. CASE ReadEof
  <2>1. PICK s : s = [ss EXCEPT !.reading = FALSE]
    OBVIOUS
  <2>2. Take("readEof") /\ ss' = closeStream(s)
    BY <1>6, <2>1 DEF ReadEof, ReadDone
  <2>3. "readEof" \in ReadLambdas /\ "readEof" \notin AcceptLambdas
    BY DEF ReadLambdas, AcceptLambdas
  <2>4. s \in Streams /\ ~s.reading /\ SameBut(ss, s)
    BY <1>0, <2>1 DEF Streams, SameBut, SameWriter
  <2>5. /\ ss' \in Streams /\ ss'.closed
        /\ SameOps(s, ss') /\ SameWriter(s, ss')
        /\ ~ss'.reading /\ ss'.future = s.future
    BY <2>2, <2>4, CloseStreamFacts
  <2>6. QED
    BY <1>0, <2>2, <2>3, <2>4, <2>5, ReadOver
<1>7. CASE ReadFailed
  <2>1. PICK s : s = [ss EXCEPT !.reading = FALSE]
    OBVIOUS
  <2>2. Take("readFailed") /\ ss' = cleanup(s)
    BY <1>7, <2>1 DEF ReadFailed, ReadDone
  <2>3. "readFailed" \in ReadLambdas /\ "readFailed" \notin AcceptLambdas
    BY DEF ReadLambdas, AcceptLambdas
  <2>4. s \in Streams /\ ~s.reading /\ SameBut(ss, s)
    BY <1>0, <2>1 DEF Streams, SameBut, SameWriter
  <2>5. /\ ss' \in Streams /\ ss'.closed
        /\ SameOps(s, ss') /\ SameWriter(s, ss')
        /\ ~ss'.reading /\ ss'.future = s.future
    BY <2>2, <2>4, CleanupFacts
  <2>6. QED
    BY <1>0, <2>2, <2>3, <2>4, <2>5, ReadOver
<1>8. CASE LengthRead
  <2>1. PICK lambda \in {"lengthBad", "lengthOk"}, op \in Reads :
          Take(lambda) /\ ss' = StartRead(ReadDone, op)
    BY <1>8 DEF LengthRead, readObjLength, readObject, Reads
  <2>2. lambda \in ReadLambdas /\ lambda # "written"
    BY <2>1 DEF ReadLambdas
  <2>3. ss.accepted
    BY <2>1, <2>2, ReadToken DEF Take
  <2>4. PICK s : s = ReadDone
    OBVIOUS
  <2>5. ReadyToRead(s)
    BY <2>3, <2>4, ReadDoneReady
  <2>6. ss' = StartRead(s, op)
    BY <2>1, <2>4
  <2>7. QED
    BY <2>1, <2>2, <2>5, <2>6, ReadLoopStep DEF ReadyToRead
<1>9. CASE ObjectRead
  <2>1. PICK s : s = ReadDone
    OBVIOUS
  <2>2. PICK lambda \in {"objectShort", "objectDescription", "objectTurnRequest",
                        "objectOther", "objectIllTyped"},
             t \in {s, handleOfferAnswer(s), sendSignalligObject(s)} :
          Take(lambda) /\ ss' = StartRead(t, "readLength")
    BY <1>9, <2>1 DEF ObjectRead, readObjLength
  <2>3. lambda \in ReadLambdas /\ lambda # "written"
    BY <2>2 DEF ReadLambdas
  <2>4. ReadyToRead(s)
    BY <2>1, <2>2, <2>3, ReadToken, ReadDoneReady DEF Take
  <2>5. ReadyToRead(t)
    BY <2>2, <2>4, DescriptionReady, TurnRequestReady
  <2>6. "readLength" \in Reads
    BY DEF Reads
  <2>7. QED
    BY <2>2, <2>3, <2>5, <2>6, ReadLoopStep DEF ReadyToRead
<1>10. CASE StreamClosed
  <2>1. PICK s : s = [ss EXCEPT !.closing = FALSE]
    OBVIOUS
  <2>2. Take("streamClosed") /\ ss' = IF Busy(s) THEN s ELSE cleanup(s)
    BY <1>10, <2>1 DEF StreamClosed
  <2>3. "streamClosed" \notin AcceptLambdas /\ "streamClosed" \notin ReadLambdas
    BY DEF AcceptLambdas, ReadLambdas
  <2>4. ss.closed /\ ~AcceptPending /\ ~IcePending
    BY <1>0, <2>2, TakeTokens DEF Flags, Starting
  <2>5. /\ s \in Streams /\ s.closed /\ s.reading = ss.reading /\ s.self = ss.self
        /\ SameOps(ss, s) /\ SameWriter(ss, s) /\ s.future = ss.future
    BY <1>0, <2>1, <2>4 DEF Streams, SameOps, SameWriter
  <2>6. /\ ss' \in Streams /\ ss'.closed /\ SameOps(s, ss') /\ SameWriter(s, ss')
        /\ ss'.reading = s.reading /\ ss'.future = s.future
        /\ s.reading => ss'.self = s.self
    BY <2>2, <2>5, CleanupFacts DEF Busy, SameOps, SameWriter
  <2>7. QED
    <3>1. SameOps(ss, ss') /\ SameWriter(ss, ss')
      BY <2>5, <2>6 DEF SameOps, SameWriter
    <3>2. QED
      BY <2>2, <2>3, <2>4, <2>5, <2>6, <3>1, ClosedStep
<1>11. CASE PeerClosed
  <2>1. PICK s : s = closeStream(ss)
    OBVIOUS
  <2>2. Take("peerClosed") /\ ss' = [s EXCEPT !.peer = "gone"]
    BY <1>11, <2>1 DEF PeerClosed
  <2>3. "peerClosed" \notin AcceptLambdas /\ "peerClosed" \notin ReadLambdas
    BY DEF AcceptLambdas, ReadLambdas
  <2>4. /\ s \in Streams /\ s.closed /\ SameOps(ss, s) /\ SameWriter(ss, s)
        /\ s.reading = ss.reading /\ s.future = ss.future
        /\ ss.reading => s.self = ss.self
    BY <1>0, <2>1, CloseStreamFacts
  <2>5. /\ ss' \in Streams /\ ss'.closed /\ SameOps(ss, ss') /\ SameWriter(ss, ss')
        /\ ss'.reading = ss.reading /\ ss'.future = ss.future
        /\ ss.reading => ss'.self = ss.self
    BY <2>2, <2>4 DEF Streams, PeerStates, SameOps, SameWriter
  <2>6. ~AcceptPending /\ ~IcePending
    BY <1>0, <2>2, TakeTokens DEF Starting
  <2>7. QED
    BY <2>2, <2>3, <2>5, <2>6, ClosedStep
<1>12. CASE AddTracks
  <2>1. Take("addTracks") /\ ss' = createTracks(ss)
    BY <1>12 DEF AddTracks
  <2>2. "addTracks" \notin AcceptLambdas /\ "addTracks" \notin ReadLambdas
    BY DEF AcceptLambdas, ReadLambdas
  <2>3. /\ ss' \in Streams /\ SameFlow(ss, ss') /\ ss'.conn = ss.conn
        /\ \/ ss'.peer = ss.peer
           \/ ss.conn /\ ss.peer = "none" /\ ss'.peer = "new"
    BY <1>0, <2>1, CreateTracksFacts
  <2>4. SentInOrder' /\ NoStalledWriter'
    BY <1>0, <2>3 DEF SentInOrder, NoStalledWriter, SameFlow, SameWriter
  <2>5. QED
    BY <1>0, <2>1, <2>2, <2>3, <2>4, TakeTokens
       DEF IInv, TypeOK, NoFutureClash, Tokens, Starting, Flags, ReadLoopRuns,
           SameFlow, SameOps, SameWriter, env
<1>13. CASE ObjectThrows
  <2>1. PICK s : s = ReadDone
    OBVIOUS
  <2>2. /\ queue # <<>> /\ Head(queue) = "objectIllTyped" /\ queue' = Tail(queue)
        /\ ss' = s /\ crashed' = TRUE /\ UNCHANGED <<link, reads, sends, adds>>
    BY <1>13, <2>1 DEF ObjectThrows
  <2>3. /\ "objectIllTyped" \in ReadLambdas
        /\ "objectIllTyped" \notin AcceptLambdas
        /\ "objectIllTyped" \notin {"iceResolved", "written"}
    BY DEF ReadLambdas, AcceptLambdas
  <2>4. s \in Streams /\ ~s.reading /\ SameBut(ss, s)
    BY <1>0, <2>1 DEF ReadDone, Streams, SameBut, SameWriter
  <2>5. QED
    BY <2>2, <2>3, <2>4, ThrowStep
<1>14. QED
  BY <1>1, <1>2, <1>3, <1>4, <1>5, <1>6, <1>7, <1>8, <1>9, <1>10, <1>11, <1>12, <1>13
     DEF EventLoop

-----------------------------------------------------------------------------
\* A callback that finishes an SDK operation and posts its lambda: the token
\* moves from the operation to the queue, and no flag changes.
SameFlags(s, t) ==
    /\ t.accepted = s.accepted /\ t.closed = s.closed /\ t.reading = s.reading
    /\ t.self = s.self /\ t.conn = s.conn
    /\ t.buffers = s.buffers /\ t.writeBuf = s.writeBuf
    /\ t.wire = s.wire /\ t.submitted = s.submitted

LEMMA CallbackStep ==
    ASSUME IInv, NEW lambda \in Lambdas, Post(lambda), ss' \in Streams,
           SameFlags(ss, ss'), ss'.peer = ss.peer,
           link' \in {"open", "eof", "failed"}, reads' \in 0..MaxReads,
           sends' \in 0..MaxSends, adds' \in 0..MaxAdds, crashed' = crashed,
           lambda # "peerClosed",
           \* future_, of the accept and the reads
           \/ ss'.future = ss.future /\ lambda \notin AcceptLambdas \cup ReadLambdas
           \/ /\ ss.future = "accept" /\ ss'.future = "idle"
              /\ lambda \in AcceptLambdas /\ lambda \notin ReadLambdas
           \/ /\ ss.future \in Reads /\ ss'.future = "idle"
              /\ lambda \in ReadLambdas /\ lambda \notin AcceptLambdas,
           \* the ICE servers, writeFuture_ and the close
           \/ ss'.iceOp = ss.iceOp /\ lambda # "iceResolved"
           \/ ss.iceOp /\ ~ss'.iceOp /\ lambda = "iceResolved",
           \/ ss'.writeOp = ss.writeOp /\ lambda # "written"
           \/ ss.writeOp = "write" /\ ss'.writeOp = "idle" /\ lambda = "written",
           \/ ss'.closeOp = ss.closeOp /\ lambda # "streamClosed"
           \/ ss.closeOp /\ ~ss'.closeOp /\ lambda = "streamClosed"
    PROVE  IInv'
<1>0. /\ TypeOK /\ NoFutureClash /\ Tokens /\ Starting /\ Flags /\ ReadLoopRuns
      /\ SentInOrder /\ NoStalledWriter
  BY DEF IInv
<1> USE DEF AcceptPending, IcePending, ReadPending, WritePending
<1>1. queue' \in Seq(Lambdas)
  BY <1>0, PostTokens
<1>2. ASSUME NEW L
      PROVE  /\ Queued(L)' <=> Queued(L) \/ lambda \in L
             /\ AtMostOne(queue, L) /\ (lambda \in L => ~Queued(L))
                  => AtMostOne(queue', L)
  BY <1>0, PostTokens
<1>3. ASSUME NEW name
      PROVE  /\ Queued({name})' <=> Queued({name}) \/ lambda = name
             /\ AtMostOne(queue, {name}) /\ (lambda = name => ~Queued({name}))
                  => AtMostOne(queue', {name})
  <2>1. lambda \in {name} <=> lambda = name
    OBVIOUS
  <2>2. QED
    BY <1>2, <2>1
<1>4. /\ Queued(AcceptLambdas)' <=> Queued(AcceptLambdas) \/ lambda \in AcceptLambdas
      /\ Queued(ReadLambdas)' <=> Queued(ReadLambdas) \/ lambda \in ReadLambdas
      /\ Queued({"iceResolved"})' <=> Queued({"iceResolved"}) \/ lambda = "iceResolved"
      /\ Queued({"written"})' <=> Queued({"written"}) \/ lambda = "written"
      /\ Queued({"streamClosed"})' <=> Queued({"streamClosed"}) \/ lambda = "streamClosed"
      /\ Queued({"peerClosed"})' <=> Queued({"peerClosed"})
  BY <1>2, <1>3
<1>5. /\ AtMostOne(queue', AcceptLambdas) /\ AtMostOne(queue', ReadLambdas)
      /\ AtMostOne(queue', {"iceResolved"}) /\ AtMostOne(queue', {"written"})
  BY <1>0, <1>2, <1>3 DEF Tokens, Reads
<1>6. Tokens'
  BY <1>0, <1>4, <1>5 DEF Tokens, Reads
<1>7. Starting' /\ Flags'
  BY <1>0, <1>4 DEF Starting, Flags, SameFlags, Reads
<1>8. TypeOK' /\ NoFutureClash' /\ ReadLoopRuns' /\ NoStalledWriter'
  BY <1>0, <1>1 DEF TypeOK, NoFutureClash, ReadLoopRuns, NoStalledWriter, SameFlags
<1>9. SentInOrder'
  BY <1>0 DEF SentInOrder, SameFlags
<1>10. QED
  BY <1>6, <1>7, <1>8, <1>9 DEF IInv

\* The Closed state change is announced: only after accept and ICE are over.
LEMMA PeerClosesStep ==
    ASSUME IInv, Post("peerClosed"), UNCHANGED env,
           "peerClosed" \in Lambdas, "peerClosed" \notin AcceptLambdas \cup ReadLambdas,
           ~AcceptPending, ~IcePending,
           ss' \in Streams, SameFlags(ss, ss'), ss'.future = ss.future,
           ss'.iceOp = ss.iceOp, ss'.writeOp = ss.writeOp, ss'.closeOp = ss.closeOp
    PROVE  IInv'
<1>0. /\ TypeOK /\ NoFutureClash /\ Tokens /\ Starting /\ Flags /\ ReadLoopRuns
      /\ SentInOrder /\ NoStalledWriter
  BY DEF IInv
<1> USE DEF AcceptPending, IcePending, ReadPending, WritePending
<1>1. /\ queue' \in Seq(Lambdas)
      /\ \A L : "peerClosed" \notin L =>
            /\ Queued(L)' <=> Queued(L)
            /\ AtMostOne(queue, L) => AtMostOne(queue', L)
  BY <1>0, PostTokens
<1>2. /\ Queued(AcceptLambdas)' <=> Queued(AcceptLambdas)
      /\ Queued(ReadLambdas)' <=> Queued(ReadLambdas)
      /\ Queued({"iceResolved"})' <=> Queued({"iceResolved"})
      /\ Queued({"written"})' <=> Queued({"written"})
      /\ Queued({"streamClosed"})' <=> Queued({"streamClosed"})
  BY <1>1
<1>3. /\ AtMostOne(queue', AcceptLambdas) /\ AtMostOne(queue', ReadLambdas)
      /\ AtMostOne(queue', {"iceResolved"}) /\ AtMostOne(queue', {"written"})
  BY <1>0, <1>1 DEF Tokens
<1>4. Tokens' /\ Starting' /\ Flags'
  BY <1>0, <1>2, <1>3 DEF Tokens, Starting, Flags, SameFlags
<1>5. TypeOK' /\ NoFutureClash' /\ ReadLoopRuns' /\ NoStalledWriter'
  BY <1>0, <1>1 DEF TypeOK, NoFutureClash, ReadLoopRuns, NoStalledWriter, SameFlags, env
<1>6. SentInOrder'
  BY <1>0 DEF SentInOrder, SameFlags
<1>7. QED
  BY <1>4, <1>5, <1>6 DEF IInv

LEMMA EnvironmentStep == IInv /\ Next => EventLoop \/ IInv'
<1> SUFFICES ASSUME IInv, Next, ~EventLoop
             PROVE  IInv'
  OBVIOUS
<1>0. /\ TypeOK /\ ss \in Streams /\ Flags /\ Starting
      /\ link \in {"open", "eof", "failed"} /\ reads \in 0..MaxReads
      /\ sends \in 0..MaxSends /\ adds \in 0..MaxAdds
  BY DEF IInv, TypeOK
<1> USE DEF AcceptLambdas
<1>1. CASE AcceptResolves
  <2>1. PICK lambda \in AcceptLambdas : Post(lambda)
    BY <1>1 DEF AcceptResolves
  <2>2. lambda \in Lambdas /\ lambda \notin ReadLambdas
    BY DEF Lambdas, RawLambdas, ReadLambdas
  <2>3. /\ ss' \in Streams /\ SameFlags(ss, ss') /\ ss'.peer = ss.peer
        /\ ss.future = "accept" /\ ss'.future = "idle"
        /\ ss'.iceOp = ss.iceOp /\ ss'.writeOp = ss.writeOp
        /\ ss'.closeOp = ss.closeOp /\ UNCHANGED env
    BY <1>0, <1>1 DEF AcceptResolves, Streams, FutureOps, SameFlags
  <2>4. QED
    BY <1>0, <2>1, <2>2, <2>3, CallbackStep DEF env
<1>2. CASE IceResolves
  <2>1. /\ ss' \in Streams /\ SameFlags(ss, ss') /\ ss'.peer = ss.peer
        /\ ss.iceOp /\ ~ss'.iceOp /\ Post("iceResolved")
        /\ ss'.future = ss.future /\ ss'.writeOp = ss.writeOp
        /\ ss'.closeOp = ss.closeOp /\ UNCHANGED env
    BY <1>0, <1>2 DEF IceResolves, Streams, SameFlags
  <2>2. "iceResolved" \in Lambdas /\ "iceResolved" \notin AcceptLambdas \cup ReadLambdas
    BY DEF Lambdas, RawLambdas, ReadLambdas
  <2>3. QED
    BY <1>0, <2>1, <2>2, CallbackStep DEF env
<1>3. CASE WriteResolves
  <2>1. /\ ss' \in Streams /\ SameFlags(ss, ss') /\ ss'.peer = ss.peer
        /\ ss.writeOp = "write" /\ ss'.writeOp = "idle" /\ Post("written")
        /\ ss'.future = ss.future /\ ss'.iceOp = ss.iceOp
        /\ ss'.closeOp = ss.closeOp /\ UNCHANGED env
    BY <1>0, <1>3 DEF WriteResolves, Streams, SameFlags
  <2>2. "written" \in Lambdas /\ "written" \notin AcceptLambdas \cup ReadLambdas
    BY DEF Lambdas, RawLambdas, ReadLambdas
  <2>3. QED
    BY <1>0, <2>1, <2>2, CallbackStep DEF env
<1>4. CASE CloseResolves
  <2>1. /\ ss' \in Streams /\ SameFlags(ss, ss') /\ ss'.peer = ss.peer
        /\ ss.closeOp /\ ~ss'.closeOp /\ Post("streamClosed")
        /\ ss'.future = ss.future /\ ss'.iceOp = ss.iceOp
        /\ ss'.writeOp = ss.writeOp /\ UNCHANGED env
    BY <1>0, <1>4 DEF CloseResolves, Streams, SameFlags
  <2>2. /\ "streamClosed" \in Lambdas
        /\ "streamClosed" \notin AcceptLambdas \cup ReadLambdas
    BY DEF Lambdas, RawLambdas, ReadLambdas
  <2>3. QED
    BY <1>0, <2>1, <2>2, CallbackStep DEF env
<1>5. CASE \E lambda \in ReadLambdas : ReadGetsData(lambda) \/ ReadEnds(lambda)
  <2>1. PICK lambda \in ReadLambdas : ReadGetsData(lambda) \/ ReadEnds(lambda)
    BY <1>5
  <2>2. /\ Post(lambda) /\ ss.future \in Reads
        /\ ss' = [ss EXCEPT !.future = "idle"]
        /\ UNCHANGED <<link, sends, adds, crashed>>
        /\ reads' = reads \/ (reads < MaxReads /\ reads' = reads + 1)
    BY <2>1 DEF ReadGetsData, ReadEnds, Reads, env
  <2>3. /\ ss' \in Streams /\ SameFlags(ss, ss') /\ ss'.peer = ss.peer
        /\ ss'.future = "idle" /\ ss'.iceOp = ss.iceOp
        /\ ss'.writeOp = ss.writeOp /\ ss'.closeOp = ss.closeOp
    BY <1>0, <2>2 DEF Streams, FutureOps, SameFlags
  <2>4. /\ lambda \in Lambdas /\ lambda \notin AcceptLambdas
        /\ lambda \notin {"iceResolved", "written", "streamClosed", "peerClosed"}
    BY <2>1 DEF Lambdas, RawLambdas, ReadLambdas
  <2>5. reads' \in 0..MaxReads
    BY <1>0, <2>2, BoundsAssumption
  <2>6. QED
    BY <1>0, <2>1, <2>2, <2>3, <2>4, <2>5, CallbackStep
<1>6. CASE PeerEmits
  <2>1. /\ Post("sendObject") /\ UNCHANGED <<ss, link, reads, adds, crashed>>
        /\ sends < MaxSends /\ sends' = sends + 1
    BY <1>6 DEF PeerEmits
  <2>2. "sendObject" \in Lambdas /\ "sendObject" \notin AcceptLambdas \cup ReadLambdas
    BY DEF Lambdas, PeerLambdas, ReadLambdas
  <2>3. sends' \in 0..MaxSends /\ SameFlags(ss, ss')
    BY <1>0, <2>1, BoundsAssumption DEF SameFlags
  <2>4. QED
    BY <1>0, <2>1, <2>2, <2>3, CallbackStep
<1>7. CASE ApplicationAddsTracks
  <2>1. /\ Post("addTracks") /\ UNCHANGED <<ss, link, reads, sends, crashed>>
        /\ adds < MaxAdds /\ adds' = adds + 1
    BY <1>7 DEF ApplicationAddsTracks
  <2>2. "addTracks" \in Lambdas /\ "addTracks" \notin AcceptLambdas \cup ReadLambdas
    BY DEF Lambdas, ReadLambdas
  <2>3. adds' \in 0..MaxAdds /\ SameFlags(ss, ss')
    BY <1>0, <2>1, BoundsAssumption DEF SameFlags
  <2>4. QED
    BY <1>0, <2>1, <2>2, <2>3, CallbackStep
<1>8. CASE PeerCloses
  <2>1. /\ Post("peerClosed") /\ UNCHANGED env
        /\ ss' = [ss EXCEPT !.peer = "closed"] /\ ss.peer \in {"live", "closing"}
    BY <1>8 DEF PeerCloses
  <2>2. ~AcceptPending /\ ~IcePending
    BY <1>0, <2>1 DEF Starting
  <2>3. "peerClosed" \in Lambdas /\ "peerClosed" \notin AcceptLambdas \cup ReadLambdas
    BY DEF Lambdas, PeerLambdas, ReadLambdas
  <2>4. /\ ss' \in Streams /\ SameFlags(ss, ss') /\ ss'.future = ss.future
        /\ ss'.iceOp = ss.iceOp /\ ss'.writeOp = ss.writeOp
        /\ ss'.closeOp = ss.closeOp
    BY <1>0, <2>1 DEF Streams, PeerStates, SameFlags
  <2>5. QED
    BY <2>1, <2>2, <2>3, <2>4, PeerClosesStep
<1>9. CASE ClientCloses \/ StreamFails
  <2>1. UNCHANGED <<ss, queue, reads, sends, adds, crashed>> /\ link' \in {"open", "eof", "failed"}
    BY <1>9 DEF ClientCloses, StreamFails
  <2>2. \A L : Queued(L)' <=> Queued(L)
    BY <2>1 DEF Queued
  <2>3. QED
    BY <2>1, <2>2
       DEF IInv, TypeOK, NoFutureClash, Tokens, Starting, Flags, ReadLoopRuns,
           SentInOrder, NoStalledWriter, AcceptPending, IcePending, ReadPending,
           WritePending
<1>10. QED
  BY <1>1, <1>2, <1>3, <1>4, <1>5, <1>6, <1>7, <1>8, <1>9 DEF Next

-----------------------------------------------------------------------------
LEMMA StutterStep == IInv /\ UNCHANGED vars => IInv'
<1> SUFFICES ASSUME IInv, UNCHANGED vars
             PROVE  IInv'
  OBVIOUS
<1>1. \A L : Queued(L)' <=> Queued(L)
  BY DEF Queued, vars
<1>2. QED
  BY <1>1
     DEF vars, IInv, TypeOK, NoFutureClash, Tokens, Starting, Flags, ReadLoopRuns,
         SentInOrder, NoStalledWriter, AcceptPending, IcePending, ReadPending,
         WritePending

LEMMA SpecIInv == SafeSpec => []IInv
<1>1. IInv /\ [Next]_vars => IInv'
  BY EventLoopStep, EnvironmentStep, StutterStep
<1>2. QED
  BY InitIInv, <1>1, PTL DEF SafeSpec

\* Every field, the queue and the environment keep their types; in particular no
\* write is ever started on a pending writeFuture_ (writeOp is "idle" or "write").
THEOREM TypeCorrect == SafeSpec => []TypeOK
<1>1. IInv => TypeOK
  BY DEF IInv
<1>2. QED
  BY <1>1, SpecIInv, PTL

\* No operation is armed on future_ while the accept or a read is pending on it,
\* in whatever order streamAccepted, iceServersResolved and the reads resolve.
THEOREM FutureNeverClashes == SafeSpec => []NoFutureClash
<1>1. IInv => NoFutureClash
  BY DEF IInv
<1>2. QED
  BY <1>1, SpecIInv, PTL

\* From the second of accept and ICE servers to the close, a read is under way, and
\* reading_ is true exactly while one is pending or its lambda is queued.
THEOREM ReadLoopNeverStops == SafeSpec => []ReadLoop
<1>1. IInv => ReadLoop
  BY DEF IInv, Flags, ReadPending, ReadingIsTrue, ReadLoop
<1>2. QED
  BY <1>1, SpecIInv, PTL

\* Objects go out in the order in which they were submitted, none lost or repeated,
\* and an open stream never has objects waiting with no write under way.
THEOREM ObjectsGoOutInOrder == SafeSpec => []WriteLoop
<1>1. IInv => WriteLoop
  BY DEF IInv, WriteLoop
<1>2. QED
  BY <1>1, SpecIInv, PTL

\* When the last owner lets go of the object, the accept and the reads are over:
\* none is pending on future_ and none of their lambdas is queued.
THEOREM FreedWithoutReads == SafeSpec => []FreedAfterLastRead
<1>1. IInv => FreedAfterLastRead
  <2> SUFFICES ASSUME IInv, ~Alive
               PROVE  ss.future = "idle" /\ ~Queued(ReadLambdas \cup {"accepted"})
    BY DEF FreedAfterLastRead
  <2>1. ss \in Streams /\ NoFutureClash /\ Starting /\ Flags /\ ~ss.self
    BY DEF IInv, TypeOK, Alive
  <2>2. ~ReadPending /\ ~AcceptPending
    BY <2>1 DEF Starting, Flags
  <2>3. ss.future = "idle"
    BY <2>1, <2>2
       DEF ReadPending, AcceptPending, Reads, NoFutureClash, Streams, FutureOps
  <2>4. ~Queued(ReadLambdas) /\ ~Queued(AcceptLambdas)
    BY <2>2 DEF ReadPending, AcceptPending
  <2>5. ~Queued(ReadLambdas \cup {"accepted"})
    BY <2>4 DEF Queued, Has, AcceptLambdas
  <2>6. QED
    BY <2>3, <2>5
<1>2. QED
  BY <1>1, SpecIInv, PTL
=============================================================================
