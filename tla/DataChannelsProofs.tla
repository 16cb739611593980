------------------------- MODULE DataChannelsProofs -------------------------
(***************************************************************************)
(* Proofs about DataChannels, for any channels, requests and messages, and *)
(* streams of any length: what the client gets of a stream is the stream,  *)
(* a request on the CoAP channel is answered at most once and with what    *)
(* became of it, messages to the application come back in their order, and *)
(* a channel that is gone is used only for what was under way when the     *)
(* channel or the connection closed, on either side.                       *)
(*                                                                         *)
(* The three kinds of channel change apart, so that each has an invariant  *)
(* of its own.  Of each stream channel there is at most one token, an      *)
(* operation of the SDK or a lambda on the event queue; which one it is    *)
(* says how far the chunks are.                                            *)
(***************************************************************************)
EXTENDS DataChannels, TLAPS

\* Whoever takes the next step of a channel finds it there, unless it was interrupted.
Usable(c) == c.interrupted \/ (c.open /\ c.channel)

\* A channel by itself.
ChanOK(c) ==
    /\ \A i \in 1..Len(c.sent) : c.sent[i] = i
    /\ c.label = "none" =>
        /\ c.op = "none" /\ ~c.open /\ ~c.interrupted /\ ~c.failed
        /\ Len(c.sent) = c.produced
    /\ c.op # "none" => c.label # "none" /\ Usable(c) /\ Len(c.sent) = c.produced
    /\ c.label # "none" /\ ~c.open /\ ~c.interrupted => Len(c.sent) = c.produced
    /\ c.failed => c.op = "none"

\* The channel of a lambda: its next chunk is in the buffer, or there is none.
LambdaOK(kind, c) ==
    /\ c.op = "none" /\ c.label # "none" /\ Usable(c) /\ ~c.failed
    /\ IF kind = "send"
       THEN c.buffer = Len(c.sent) + 1 /\ c.produced = Len(c.sent) + 1
       ELSE Len(c.sent) = c.produced

Lambda == [kind : Kinds, of : Channels]

OneEach(q) == \A j, k \in 1..Len(q) : q[j].of = q[k].of => j = k

IInv ==
    /\ TypeOK
    /\ \A d \in Channels : ChanOK(chan[d])
    /\ \A k \in 1..Len(queue) : LambdaOK(queue[k].kind, chan[queue[k].of])
    /\ OneEach(queue)
    /\ CrashAfterAClose

SafeSpec == Init /\ [][Next]_vars
-----------------------------------------------------------------------------
LEMMA InitIInv == Init => IInv
<1> SUFFICES ASSUME Init PROVE IInv
  OBVIOUS
<1>1. \A d \in Channels :
        /\ chan[d] \in Chans /\ chan[d].sent = <<>> /\ chan[d].label = "none"
        /\ chan[d].op = "none" /\ ~chan[d].open /\ ~chan[d].interrupted /\ ~chan[d].failed
        /\ chan[d].produced = 0
  <2> TAKE d \in Channels
  <2>1. 0 \in 0..MaxChunks /\ <<>> \in Seq(1..MaxChunks)
    BY BoundsAssumption
  <2> QED
    BY <2>1 DEF Init, Chans
<1>2. chan \in [Channels -> Chans]
  BY <1>1 DEF Init
<1>3. TypeOK
  BY <1>2 DEF Init, TypeOK
<1>4. \A d \in Channels : ChanOK(chan[d])
  <2> TAKE d \in Channels
  <2>1. Len(chan[d].sent) = 0
    BY <1>1
  <2> QED
    BY <1>1, <2>1 DEF ChanOK
<1>5. /\ \A k \in 1..Len(queue) : LambdaOK(queue[k].kind, chan[queue[k].of])
      /\ OneEach(queue)
  BY DEF Init, OneEach
<1>6. CrashAfterAClose
  BY DEF Init, CrashAfterAClose
<1> QED
  BY <1>3, <1>4, <1>5, <1>6 DEF IInv

\* A lambda that is posted for a channel that had none, whose operation it follows.
LEMMA PostKeeps ==
    ASSUME NEW q \in Seq(Lambda), OneEach(q), NEW new \in Lambda,
           \A k \in 1..Len(q) : q[k].of # new.of
    PROVE  /\ Append(q, new) \in Seq(Lambda)
           /\ OneEach(Append(q, new))
           /\ \A k \in 1..Len(Append(q, new)) :
                \/ k \in 1..Len(q) /\ Append(q, new)[k] = q[k]
                \/ Append(q, new)[k] = new
<1>1. /\ Append(q, new) \in Seq(Lambda)
      /\ Len(Append(q, new)) = Len(q) + 1
      /\ Append(q, new)[Len(q) + 1] = new
      /\ \A k \in 1..Len(q) : Append(q, new)[k] = q[k]
  OBVIOUS
<1>2. \A k \in 1..Len(Append(q, new)) : k \in 1..Len(q) \/ k = Len(q) + 1
  BY <1>1
<1> QED
  BY <1>1, <1>2 DEF OneEach

\* When the first lambda is taken, none is left of its channel.
LEMMA TailKeeps ==
    ASSUME NEW q \in Seq(Lambda), q # <<>>, OneEach(q)
    PROVE  /\ Tail(q) \in Seq(Lambda)
           /\ OneEach(Tail(q))
           /\ 1 \in 1..Len(q) /\ Head(q) = q[1] /\ Head(q) \in Lambda
           /\ \A k \in 1..Len(Tail(q)) :
                /\ k + 1 \in 1..Len(q) /\ Tail(q)[k] = q[k + 1]
                /\ Tail(q)[k].of # Head(q).of
<1>1. /\ Tail(q) \in Seq(Lambda) /\ 1 \in 1..Len(q) /\ Head(q) = q[1] /\ q[1] \in Lambda
      /\ \A k \in 1..Len(Tail(q)) : k + 1 \in 1..Len(q) /\ Tail(q)[k] = q[k + 1]
  OBVIOUS
<1>2. \A k \in 1..Len(Tail(q)) : k + 1 # 1
  OBVIOUS
<1>3. OneEach(Tail(q))
  <2> SUFFICES ASSUME NEW j \in 1..Len(Tail(q)), NEW k \in 1..Len(Tail(q)),
                      Tail(q)[j].of = Tail(q)[k].of
               PROVE  j = k
    BY DEF OneEach
  <2>1. j + 1 = k + 1
    BY <1>1 DEF OneEach
  <2> QED
    BY <2>1
<1> QED
  BY <1>1, <1>2, <1>3 DEF OneEach

\* A step that changes one channel keeps the invariant when it keeps what is said of
\* that channel and of its lambdas.
LEMMA ChangeKeeps ==
    ASSUME IInv, NEW d \in Channels, NEW c \in Chans,
           chan' = [chan EXCEPT ![d] = c], ChanOK(c),
           streamChannel' \in Channels \cup {NoChannel},
           queue' \in Seq(Lambda), OneEach(queue)',
           \A k \in 1..Len(queue') :
               \/ queue'[k].of = d /\ LambdaOK(queue'[k].kind, c)
               \/ queue'[k].of # d /\ \E j \in 1..Len(queue) : queue'[k] = queue[j],
           crashed = "no", crashed' = crashed,
           connection' = connection, ahead' \in Nat
    PROVE  IInv'
<1>1. chan' \in [Channels -> Chans] /\ \A e \in Channels : chan'[e] = IF e = d THEN c ELSE chan[e]
  BY DEF IInv, TypeOK
<1>2. TypeOK'
  BY <1>1 DEF IInv, TypeOK, Lambda
<1>3. \A e \in Channels : ChanOK(chan'[e])
  BY <1>1 DEF IInv
<1>4. \A k \in 1..Len(queue') : LambdaOK(queue'[k].kind, chan'[queue'[k].of])
  <2> TAKE k \in 1..Len(queue')
  <2>1. queue'[k] \in Lambda
    OBVIOUS
  <2>2. queue'[k].of \in Channels
    BY <2>1 DEF Lambda
  <2> QED
    BY <1>1, <2>2 DEF IInv
<1>5. CrashAfterAClose'
  BY <1>1 DEF IInv, CrashAfterAClose
<1> QED
  BY <1>2, <1>3, <1>4, <1>5 DEF IInv

\* The lambdas of a channel that has an operation, or no label, are none.
LEMMA NoLambda ==
    ASSUME IInv, NEW d \in Channels, chan[d].op # "none" \/ chan[d].label = "none"
    PROVE  \A k \in 1..Len(queue) : queue[k].of # d
  BY DEF IInv, LambdaOK

\* Nothing is posted, and the lambdas of the channel remain what they should be.
LEMMA QuietKeeps ==
    ASSUME IInv, NEW d \in Channels, NEW c \in Chans,
           chan' = [chan EXCEPT ![d] = c], ChanOK(c),
           streamChannel' \in Channels \cup {NoChannel},
           crashed = "no", UNCHANGED <<connection, ahead, queue, crashed>>,
           \A kind \in Kinds : LambdaOK(kind, chan[d]) => LambdaOK(kind, c)
    PROVE  IInv'
<1>1. queue \in Seq(Lambda) /\ OneEach(queue)'
  BY DEF IInv, TypeOK, Lambda, OneEach
<1>2. \A k \in 1..Len(queue) : queue[k].kind \in Kinds
  <2>1. \A k \in 1..Len(queue) : queue[k] \in Lambda
    BY <1>1
  <2> QED
    BY <2>1 DEF Lambda
<1>3. \A k \in 1..Len(queue) : queue[k].of = d => LambdaOK(queue[k].kind, c)
  BY <1>2 DEF IInv
<1>4. ahead' \in Nat
  BY DEF IInv, TypeOK
<1> QED
  BY <1>1, <1>3, <1>4, ChangeKeeps

\* The channel after an operation, with the lambda that it posts.
LEMMA PostsKeeps ==
    ASSUME IInv, NEW d \in Channels, NEW c \in Chans, NEW kind \in Kinds,
           chan[d].op # "none", Post(kind, d),
           chan' = [chan EXCEPT ![d] = c], ChanOK(c), LambdaOK(kind, c),
           crashed = "no", UNCHANGED <<streamChannel, connection, ahead, crashed>>
    PROVE  IInv'
<1> DEFINE new == [kind |-> kind, of |-> d]
<1>1. new \in Lambda /\ queue \in Seq(Lambda) /\ OneEach(queue)
  BY DEF Lambda, IInv, TypeOK
<1>2. \A k \in 1..Len(queue) : queue[k].of # d
  BY NoLambda
<1>3. queue' = Append(queue, new)
  BY DEF Post
<1>4. new.of = d /\ new.kind = kind
  OBVIOUS
<1> HIDE DEF new
<1>5. /\ queue' \in Seq(Lambda) /\ OneEach(queue)'
      /\ \A k \in 1..Len(queue') :
            \/ k \in 1..Len(queue) /\ queue'[k] = queue[k]
            \/ queue'[k] = new
  BY <1>1, <1>2, <1>3, <1>4, PostKeeps DEF OneEach
<1>6. \A k \in 1..Len(queue') :
        \/ queue'[k].of = d /\ LambdaOK(queue'[k].kind, c)
        \/ queue'[k].of # d /\ \E j \in 1..Len(queue) : queue'[k] = queue[j]
  BY <1>2, <1>4, <1>5
<1>7. streamChannel' \in Channels \cup {NoChannel} /\ ahead' \in Nat
  BY DEF IInv, TypeOK
<1> QED
  BY <1>5, <1>6, <1>7, ChangeKeeps
-----------------------------------------------------------------------------
\* The actions of the client and of the SDK.

LEMMA EventKeeps ==
    ASSUME IInv, crashed = "no", NEW d \in Channels, HandleDatachannelEvent(d)
    PROVE  IInv'
<1>1. PICK prefix \in Prefixes :
        /\ chan' = [chan EXCEPT
                     ![d].label = prefix, ![d].open = TRUE, ![d].channel = HasPort(prefix),
                     ![d].op = IF HasPort(prefix) THEN "open" ELSE "none"]
        /\ streamChannel' = IF HasPort(prefix) THEN d ELSE streamChannel
  BY DEF HandleDatachannelEvent
<1> DEFINE port == HasPort(prefix)
<1> DEFINE c == [chan[d] EXCEPT !.label = prefix, !.open = TRUE, !.channel = port,
                                !.op = IF port THEN "open" ELSE "none"]
<1>2. port \in BOOLEAN
  BY DEF HasPort
<1>3. chan[d] \in Chans /\ chan[d].label = "none" /\ UNCHANGED <<connection, ahead, queue, crashed>>
  BY DEF HandleDatachannelEvent, IInv, TypeOK
<1>4. ChanOK(chan[d])
  BY DEF IInv
<1> HIDE DEF port
<1>5. /\ c \in Chans /\ c.label = prefix /\ c.open /\ c.channel = port
      /\ c.op = (IF port THEN "open" ELSE "none")
      /\ c.sent = chan[d].sent /\ c.produced = chan[d].produced
      /\ c.interrupted = chan[d].interrupted /\ c.failed = chan[d].failed
  BY <1>2, <1>3 DEF Chans
<1>6. chan' = [chan EXCEPT ![d] = c]
  BY <1>1 DEF port
<1> HIDE DEF c
<1>7. ChanOK(c)
  BY <1>3, <1>4, <1>5 DEF ChanOK, Usable, Prefixes
<1>8. \A kind \in Kinds : ~LambdaOK(kind, chan[d])
  BY <1>3 DEF LambdaOK
<1>9. streamChannel' \in Channels \cup {NoChannel}
  BY <1>1 DEF IInv, TypeOK
<1> QED
  BY <1>3, <1>5, <1>6, <1>7, <1>8, <1>9, QuietKeeps

\* The channel closes at the client, reports it, or an operation fails.
LEMMA QuietActionsKeep ==
    ASSUME IInv, crashed = "no", NEW d \in Channels,
           ClientCloses(d) \/ OnClosed(d) \/ OperationFails(d)
    PROVE  IInv'
<1>1. chan[d] \in Chans /\ ChanOK(chan[d]) /\ streamChannel \in Channels \cup {NoChannel}
  BY DEF IInv, TypeOK
<1>2. CASE ClientCloses(d)
  <2> DEFINE c == [chan[d] EXCEPT !.open = FALSE, !.interrupted = TRUE]
  <2>1. /\ c \in Chans /\ c.interrupted /\ c.label = chan[d].label /\ c.op = chan[d].op
        /\ c.failed = chan[d].failed
        /\ c.sent = chan[d].sent /\ c.produced = chan[d].produced
        /\ c.buffer = chan[d].buffer
    BY <1>1 DEF Chans
  <2>2. /\ chan' = [chan EXCEPT ![d] = c] /\ UNCHANGED <<streamChannel, connection, ahead, queue, crashed>>
        /\ chan[d].open
    BY <1>2 DEF ClientCloses, Interrupted
  <2> HIDE DEF c
  <2>3. ChanOK(c)
    BY <1>1, <2>1, <2>2 DEF ChanOK, Usable
  <2>4. \A kind \in Kinds : LambdaOK(kind, chan[d]) => LambdaOK(kind, c)
    BY <2>1 DEF LambdaOK, Usable
  <2> QED
    BY <1>1, <2>1, <2>2, <2>3, <2>4, QuietKeeps
<1>3. CASE OnClosed(d)
  <2> DEFINE c == [chan[d] EXCEPT !.channel = FALSE]
  <2>1. /\ c \in Chans /\ c.label = chan[d].label /\ c.op = chan[d].op
        /\ c.sent = chan[d].sent /\ c.produced = chan[d].produced
        /\ c.buffer = chan[d].buffer
        /\ c.open = chan[d].open /\ c.interrupted = chan[d].interrupted
        /\ c.failed = chan[d].failed
    BY <1>1 DEF Chans
  <2>2. /\ chan' = [chan EXCEPT ![d] = c] /\ UNCHANGED <<streamChannel, connection, ahead, queue, crashed>>
        /\ ~chan[d].open
    BY <1>3 DEF OnClosed
  <2> HIDE DEF c
  <2>3. ChanOK(c)
    BY <1>1, <2>1, <2>2 DEF ChanOK, Usable
  <2>4. \A kind \in Kinds : LambdaOK(kind, chan[d]) => LambdaOK(kind, c)
    BY <2>1, <2>2 DEF LambdaOK, Usable
  <2> QED
    BY <1>1, <2>1, <2>2, <2>3, <2>4, QuietKeeps
<1>4. CASE OperationFails(d)
  <2> DEFINE c == [chan[d] EXCEPT !.op = "none", !.failed = TRUE]
  <2>1. /\ c \in Chans /\ c.label = chan[d].label /\ c.op = "none"
        /\ c.sent = chan[d].sent /\ c.produced = chan[d].produced
        /\ c.open = chan[d].open /\ c.interrupted = chan[d].interrupted
    BY <1>1 DEF Chans
  <2>2. /\ chan' = [chan EXCEPT ![d] = c] /\ UNCHANGED <<streamChannel, connection, ahead, queue, crashed>>
        /\ chan[d].op # "none"
    BY <1>4 DEF OperationFails
  <2> HIDE DEF c
  <2>3. ChanOK(c)
    BY <1>1, <2>1, <2>2 DEF ChanOK
  <2>4. \A kind \in Kinds : ~LambdaOK(kind, chan[d])
    BY <2>2 DEF LambdaOK
  <2> QED
    BY <1>1, <2>1, <2>2, <2>3, <2>4, QuietKeeps
<1> QED
  BY <1>2, <1>3, <1>4

\* Only an interrupted transfer leaves an object to be used that is gone.
LEMMA CrashKeeps ==
    ASSUME IInv, NEW d \in Channels, chan[d].interrupted, ~chan[d].failed,
           NEW how \in {"null", "freed", "thrown"}, Crashes(how),
           queue' = queue \/ (queue # <<>> /\ queue' = Tail(queue))
    PROVE  IInv'
<1>1. /\ queue \in Seq(Lambda) /\ OneEach(queue)
      /\ \A k \in 1..Len(queue) : LambdaOK(queue[k].kind, chan[queue[k].of])
  BY DEF IInv, TypeOK, Lambda
<1>2. /\ queue' \in Seq(Lambda) /\ OneEach(queue)'
      /\ \A k \in 1..Len(queue') : LambdaOK(queue'[k].kind, chan[queue'[k].of])
  <2>1. CASE queue' = queue
    BY <1>1, <2>1 DEF OneEach
  <2>2. CASE queue # <<>> /\ queue' = Tail(queue)
    <3>1. /\ Tail(queue) \in Seq(Lambda) /\ OneEach(Tail(queue))
          /\ \A k \in 1..Len(Tail(queue)) :
               k + 1 \in 1..Len(queue) /\ Tail(queue)[k] = queue[k + 1]
      BY <1>1, <2>2, TailKeeps
    <3> QED
      BY <1>1, <2>2, <3>1 DEF OneEach
  <2> QED
    BY <2>1, <2>2
<1>3. /\ UNCHANGED <<chan, streamChannel, connection, ahead>> /\ crashed' = how
  BY DEF Crashes
<1>4. TypeOK'
  BY <1>2, <1>3 DEF IInv, TypeOK, Lambda
<1>5. CrashAfterAClose'
  BY <1>3 DEF CrashAfterAClose
<1> QED
  BY <1>2, <1>3, <1>4, <1>5 DEF IInv

\* An operation that resolves finds the object, or it was interrupted.
LEMMA OperationKeeps ==
    ASSUME IInv, crashed = "no", NEW d \in Channels,
           StreamOpened(d) \/ StreamReadCb(d) \/ StreamEnds(d)
    PROVE  IInv'
<1>1. chan[d].op # "none"
  BY DEF StreamOpened, StreamReadCb, StreamEnds
<1>2. /\ chan[d] \in Chans /\ ChanOK(chan[d])
      /\ Usable(chan[d]) /\ chan[d].label # "none" /\ Len(chan[d].sent) = chan[d].produced
  BY <1>1 DEF IInv, TypeOK, ChanOK
<1>3. CASE ~Alive(d)
  <2>1. chan[d].interrupted /\ ~chan[d].failed
    BY <1>1, <1>2, <1>3 DEF Usable, Alive, ChanOK
  <2>2. Crashes("freed") /\ queue' = queue
    BY <1>3 DEF StreamOpened, StreamReadCb, StreamEnds
  <2> QED
    BY <2>1, <2>2, CrashKeeps
<1>4. CASE Alive(d) /\ StreamReadCb(d)
  <2> DEFINE n == chan[d].produced + 1
  <2> DEFINE c == [chan[d] EXCEPT !.op = "none", !.produced = n, !.buffer = n]
  <2>1. n \in 0..MaxChunks
    BY <1>2, <1>4, BoundsAssumption DEF StreamReadCb, Chans
  <2>2. /\ chan' = [chan EXCEPT ![d] = c] /\ Post("send", d)
        /\ UNCHANGED <<streamChannel, connection, ahead, crashed>>
    BY <1>4 DEF StreamReadCb
  <2> HIDE DEF n
  <2>3. /\ c \in Chans /\ c.op = "none" /\ c.produced = n /\ c.buffer = n
        /\ c.label = chan[d].label /\ c.sent = chan[d].sent
        /\ c.open = chan[d].open /\ c.interrupted = chan[d].interrupted
        /\ c.channel = chan[d].channel /\ c.failed = chan[d].failed
    BY <1>2, <2>1 DEF Chans
  <2>4. n = Len(chan[d].sent) + 1
    BY <1>2 DEF n
  <2> HIDE DEF c
  <2>5. ChanOK(c) /\ LambdaOK("send", c)
    BY <1>1, <1>2, <2>3, <2>4 DEF ChanOK, LambdaOK, Usable
  <2> QED
    BY <1>1, <2>2, <2>3, <2>5, PostsKeeps DEF Kinds
<1>5. CASE Alive(d) /\ (StreamOpened(d) \/ StreamEnds(d))
  <2> DEFINE c == [chan[d] EXCEPT !.op = "none"]
  <2>1. PICK kind \in {"startRead", "close"} :
          /\ chan' = [chan EXCEPT ![d] = c] /\ Post(kind, d)
          /\ UNCHANGED <<streamChannel, connection, ahead, crashed>>
    BY <1>5 DEF StreamOpened, StreamEnds
  <2>2. /\ c \in Chans /\ c.op = "none" /\ c.produced = chan[d].produced
        /\ c.label = chan[d].label /\ c.sent = chan[d].sent
        /\ c.open = chan[d].open /\ c.interrupted = chan[d].interrupted
        /\ c.channel = chan[d].channel /\ c.failed = chan[d].failed
    BY <1>2 DEF Chans
  <2> HIDE DEF c
  <2>3. ChanOK(c) /\ LambdaOK(kind, c)
    BY <1>1, <1>2, <2>2 DEF ChanOK, LambdaOK, Usable
  <2> QED
    BY <1>1, <2>1, <2>2, <2>3, PostsKeeps DEF Kinds
<1> QED
  BY <1>3, <1>4, <1>5
-----------------------------------------------------------------------------
\* The event queue.

LEMMA WorksKeeps ==
    ASSUME NEW c \in Chans, ChanOK(c), NEW kind \in Kinds, LambdaOK(kind, c),
           kind # "startRead" => c.channel
    PROVE  Works(kind, c) \in Chans /\ ChanOK(Works(kind, c))
<1> DEFINE w == Works(kind, c)
<1>1. CASE kind = "startRead"
  <2>1. w = [c EXCEPT !.op = "read"]
    BY <1>1 DEF Works
  <2>2. /\ w \in Chans /\ w.op = "read" /\ w.sent = c.sent /\ w.produced = c.produced
        /\ w.label = c.label /\ w.open = c.open /\ w.interrupted = c.interrupted
        /\ w.channel = c.channel /\ w.failed = c.failed
    BY <2>1 DEF Chans
  <2> HIDE DEF w
  <2>3. ChanOK(w)
    BY <1>1, <2>2 DEF ChanOK, LambdaOK, Usable
  <2> QED
    BY <2>2, <2>3 DEF w
<1>2. CASE kind = "send"
  <2>1. w = [c EXCEPT !.sent = Append(c.sent, c.buffer), !.op = "read"]
    BY <1>2 DEF Works, Sent
  <2>2. /\ c.buffer = Len(c.sent) + 1 /\ c.produced = Len(c.sent) + 1
        /\ c.produced \in 0..MaxChunks /\ c.sent \in Seq(1..MaxChunks)
        /\ Usable(c) /\ c.label # "none"
    BY <1>2 DEF LambdaOK, Chans
  <2>3. Len(c.sent) \in Nat /\ c.buffer \in 1..MaxChunks
    BY <2>2, BoundsAssumption
  <2> DEFINE s == Append(c.sent, c.buffer)
  <2>4. /\ s \in Seq(1..MaxChunks) /\ Len(s) = c.produced
        /\ s[Len(c.sent) + 1] = c.buffer
        /\ \A i \in 1..Len(c.sent) : s[i] = c.sent[i]
    BY <2>2, <2>3
  <2> HIDE DEF s
  <2>5. /\ w \in Chans /\ w.op = "read" /\ w.sent = s /\ w.produced = c.produced
        /\ w.label = c.label /\ w.open = c.open /\ w.interrupted = c.interrupted
        /\ w.channel = c.channel /\ w.failed = c.failed
    BY <2>1, <2>4 DEF Chans, s
  <2>6. \A i \in 1..Len(s) : s[i] = i
    <3> TAKE i \in 1..Len(s)
    <3>1. i \in 1..Len(c.sent) \/ i = Len(c.sent) + 1
      BY <2>2, <2>3, <2>4
    <3> QED
      BY <2>2, <2>4, <3>1 DEF ChanOK
  <2> HIDE DEF w
  <2>7. ChanOK(w)
    BY <1>2, <2>2, <2>4, <2>5, <2>6 DEF ChanOK, Usable, LambdaOK
  <2> QED
    BY <2>5, <2>7 DEF w
<1>3. CASE kind = "close"
  <2>1. w = [c EXCEPT !.open = FALSE, !.channel = FALSE]
    BY <1>3 DEF Works, Closed
  <2>2. /\ w \in Chans /\ w.op = c.op /\ w.sent = c.sent /\ w.produced = c.produced
        /\ w.label = c.label /\ w.interrupted = c.interrupted /\ w.failed = c.failed
    BY <2>1 DEF Chans
  <2> HIDE DEF w
  <2>3. ChanOK(w)
    BY <1>3, <2>2 DEF ChanOK, LambdaOK
  <2> QED
    BY <2>2, <2>3 DEF w
<1> QED
  BY <1>1, <1>2, <1>3 DEF Kinds

LEMMA EventLoopKeeps == IInv /\ crashed = "no" /\ EventLoop => IInv'
<1> SUFFICES ASSUME IInv, crashed = "no", EventLoop PROVE IInv'
  OBVIOUS
<1> DEFINE l == Head(queue)
<1> DEFINE d == l.of
<1> DEFINE c == chan[d]
<1>1. queue # <<>> /\ queue' = Tail(queue) /\ queue \in Seq(Lambda) /\ OneEach(queue)
  BY DEF EventLoop, IInv, TypeOK, Lambda
<1>2. /\ queue' \in Seq(Lambda) /\ OneEach(Tail(queue)) /\ l \in Lambda
      /\ 1 \in 1..Len(queue) /\ l = queue[1]
      /\ \A k \in 1..Len(queue') :
           /\ k + 1 \in 1..Len(queue) /\ queue'[k] = queue[k + 1]
           /\ queue'[k].of # d
  BY <1>1, TailKeeps
<1>3. l.kind \in Kinds /\ d \in Channels
  BY <1>2 DEF Lambda
<1>4. c \in Chans /\ ChanOK(c) /\ LambdaOK(l.kind, c)
  BY <1>2, <1>3 DEF IInv, TypeOK
<1> DEFINE runs == /\ Alive(d) /\ (l.kind # "startRead" => c.channel)
                   /\ (l.kind = "send" => c.open)
<1>5. CASE ~runs
  <2>1. c.interrupted /\ ~c.failed
    BY <1>4, <1>5 DEF LambdaOK, Usable, Alive
  <2>2. Crashes("freed") \/ Crashes("null") \/ Crashes("thrown")
    BY <1>5 DEF EventLoop
  <2> QED
    BY <1>1, <1>3, <2>1, <2>2, CrashKeeps
<1>6. CASE runs
  <2>1. /\ chan' = [chan EXCEPT ![d] = Works(l.kind, c)]
        /\ ahead' = (IF ahead = 0 THEN 0 ELSE ahead - 1)
        /\ UNCHANGED <<streamChannel, connection, crashed>>
    BY <1>6 DEF EventLoop
  <2>2. Works(l.kind, c) \in Chans /\ ChanOK(Works(l.kind, c))
    BY <1>3, <1>4, <1>6, WorksKeeps
  <2> DEFINE w == Works(l.kind, c)
  <2>3. OneEach(queue)'
    BY <1>1, <1>2 DEF OneEach
  <2>6. ahead \in Nat
    BY DEF IInv, TypeOK
  <2>4. streamChannel' \in Channels \cup {NoChannel} /\ ahead' \in Nat
    BY <2>1, <2>6 DEF IInv, TypeOK
  <2> HIDE DEF w, d, l
  <2>5. \A k \in 1..Len(queue') :
          \/ queue'[k].of = d /\ LambdaOK(queue'[k].kind, w)
          \/ queue'[k].of # d /\ \E j \in 1..Len(queue) : queue'[k] = queue[j]
    BY <1>2
  <2> QED
    BY <1>2, <1>3, <2>1, <2>2, <2>3, <2>4, <2>5, ChangeKeeps DEF w
<1> QED
  BY <1>5, <1>6
-----------------------------------------------------------------------------
\* The connection.

\* What its close makes of a channel.
LEMMA InterruptedKeeps ==
    ASSUME NEW c \in Chans, ChanOK(c)
    PROVE  /\ Interrupted(c) \in Chans /\ ChanOK(Interrupted(c))
           /\ \A kind \in Kinds : LambdaOK(kind, c) => LambdaOK(kind, Interrupted(c))
<1> DEFINE w == [c EXCEPT !.open = FALSE, !.interrupted = TRUE]
<1>1. CASE ~c.open
  BY <1>1 DEF Interrupted
<1>2. CASE c.open
  <2>1. Interrupted(c) = w
    BY <1>2 DEF Interrupted
  <2>2. /\ w \in Chans /\ w.interrupted /\ w.label = c.label /\ w.op = c.op
        /\ w.sent = c.sent /\ w.produced = c.produced /\ w.buffer = c.buffer
        /\ w.failed = c.failed
    BY DEF Chans
  <2> HIDE DEF w
  <2>3. ChanOK(w)
    BY <1>2, <2>2 DEF ChanOK, Usable
  <2>4. \A kind \in Kinds : LambdaOK(kind, c) => LambdaOK(kind, w)
    BY <2>2 DEF LambdaOK, Usable
  <2> QED
    BY <2>1, <2>2, <2>3, <2>4
<1> QED
  BY <1>1, <1>2

LEMMA ConnectionKeeps ==
    IInv /\ crashed = "no" /\ (ConnectionCloses \/ ConnectionFreed) => IInv'
<1> SUFFICES ASSUME IInv, crashed = "no", ConnectionCloses \/ ConnectionFreed PROVE IInv'
  OBVIOUS
<1>1. UNCHANGED <<queue, crashed>> /\ queue \in Seq(Lambda) /\ ahead \in Nat
  BY DEF ConnectionCloses, ConnectionFreed, IInv, TypeOK, Lambda
<1>2. OneEach(queue)' /\ CrashAfterAClose'
  BY <1>1 DEF IInv, OneEach, CrashAfterAClose
<1>3. CASE ConnectionFreed
  <2>1. /\ chan' = chan /\ ahead' = ahead /\ connection' = "freed"
        /\ streamChannel' = NoChannel
    BY <1>3 DEF ConnectionFreed
  <2>2. TypeOK'
    BY <1>1, <2>1 DEF IInv, TypeOK
  <2> QED
    BY <1>1, <1>2, <2>1, <2>2 DEF IInv
<1>4. CASE ConnectionCloses
  <2>1. /\ chan' = [d \in Channels |-> Interrupted(chan[d])] /\ ahead' = Len(queue)
        /\ connection' = "closed" /\ streamChannel' = streamChannel
    BY <1>4 DEF ConnectionCloses
  <2>2. \A d \in Channels :
          /\ chan'[d] = Interrupted(chan[d]) /\ chan'[d] \in Chans /\ ChanOK(chan'[d])
          /\ \A kind \in Kinds : LambdaOK(kind, chan[d]) => LambdaOK(kind, chan'[d])
    BY <2>1, InterruptedKeeps DEF IInv, TypeOK
  <2>3. chan' \in [Channels -> Chans] /\ ahead' \in Nat
    BY <1>1, <2>1, <2>2
  <2>4. TypeOK'
    BY <1>1, <2>1, <2>3 DEF IInv, TypeOK
  <2>5. \A k \in 1..Len(queue) : LambdaOK(queue[k].kind, chan'[queue[k].of])
    <3> TAKE k \in 1..Len(queue)
    <3>1. queue[k] \in Lambda
      BY <1>1
    <3>2. queue[k].of \in Channels /\ queue[k].kind \in Kinds
      BY <3>1 DEF Lambda
    <3> QED
      BY <2>2, <3>2 DEF IInv
  <2> QED
    BY <1>1, <1>2, <2>2, <2>4, <2>5 DEF IInv
<1> QED
  BY <1>3, <1>4
-----------------------------------------------------------------------------
LEMMA NextKeeps == IInv /\ [Next]_vars => IInv'
<1> SUFFICES ASSUME IInv, [Next]_vars PROVE IInv'
  OBVIOUS
<1>1. CASE UNCHANGED vars
  BY <1>1 DEF IInv, TypeOK, OneEach, CrashAfterAClose, vars
<1>2. CASE crashed = "no" /\ EventLoop
  BY <1>2, EventLoopKeeps
<1>4. CASE crashed = "no" /\ (ConnectionCloses \/ ConnectionFreed)
  BY <1>4, ConnectionKeeps
<1>3. ASSUME crashed = "no", NEW d \in Channels, Step(d)
      PROVE  IInv'
  BY <1>3, EventKeeps, QuietActionsKeep, OperationKeeps DEF Step
<1> QED
  BY <1>1, <1>2, <1>3, <1>4 DEF Next

LEMMA SpecIInv == SafeSpec => []IInv
  BY InitIInv, NextKeeps, PTL DEF SafeSpec

\* The variables keep their types.
THEOREM TypeCorrect == SafeSpec => []TypeOK
<1>1. IInv => TypeOK
  BY DEF IInv
<1> QED
  BY <1>1, SpecIInv, PTL

\* However the reads, the sends and the closes interleave, the client gets the chunks of
\* the stream in order, and the device closes behind the last (webrtc_stream_channel.cpp:66).
THEOREM StreamsAreDelivered == SafeSpec => []StreamIsDelivered
<1>1. ASSUME IInv PROVE StreamIsDelivered
  <2> SUFFICES ASSUME NEW d \in Channels
               PROVE  LET c == chan[d]
                      IN  /\ c.sent = [i \in 1..Len(c.sent) |-> i]
                          /\ c.label # "none" /\ ~c.open /\ ~c.interrupted
                               => Len(c.sent) = c.produced /\ c.op = "none"
    BY DEF StreamIsDelivered
  <2>1. chan[d] \in Chans /\ ChanOK(chan[d])
    BY <1>1 DEF IInv, TypeOK
  <2>2. chan[d].sent \in Seq(1..MaxChunks)
    BY <2>1 DEF Chans
  <2>3. chan[d].sent = [i \in 1..Len(chan[d].sent) |-> i]
    BY <2>1, <2>2 DEF ChanOK
  <2>4. chan[d].label # "none" /\ ~chan[d].open /\ ~chan[d].interrupted
          => Len(chan[d].sent) = chan[d].produced /\ chan[d].op = "none"
    BY <2>1 DEF ChanOK, Usable
  <2> QED
    BY <2>3, <2>4
<1> QED
  BY <1>1, SpecIInv, PTL

\* Whatever the streams and the SDK do, it takes the close of a channel or of the
\* connection (webrtc_connection.cpp:37) during a transfer that has not failed for the
\* device to use a channel that is gone (webrtc_stream_channel.cpp:71, :83).
THEOREM CrashesFollowAClose == SafeSpec => []CrashAfterAClose
<1>1. IInv => CrashAfterAClose
  BY DEF IInv
<1> QED
  BY <1>1, SpecIInv, PTL
-----------------------------------------------------------------------------
\* The channels of CoAP requests and of the application.

Once(q) == \A i, j \in 1..Len(q) : q[i] = q[j] => i = j

In(x, q) == \E j \in 1..Len(q) : x = q[j]

\* A message that waits to be handled was sent, and nothing became of it yet.
WaitingOK(q) ==
    /\ Once(q)
    /\ \A i \in 1..Len(q) : req[q[i]].kind # "unsent" /\ req[q[i]].coap = "none"

\* Each lambda is that of a request that is resolved.
ResolvedOK(q) == Once(q) /\ \A i \in 1..Len(q) : req[q[i]].coap = "resolved"

\* What was answered is done with: it ran to its end, or it never ran.
ResponseOK(p) ==
    IF p.what = "response"
    THEN req[p.to].coap = "freed" /\ req[p.to].ok
    ELSE req[p.to].coap = "none" /\ req[p.to].kind # "unsent"

OneResponseEach(s) == \A i, j \in 1..Len(s) : s[i].to = s[j].to => i = j

\* A request that ends the program: it was under way when the channel closed.
Unanswered(r, c, s) ==
    /\ ~coapChan.open
    /\ c.kind \in {"refused", "valid"} /\ (c.coap = "freed" => c.ok)
    /\ \A j \in 1..Len(s) : s[j].to # r

CoapIInv ==
    /\ Coap!TypeOK
    /\ coapChan.open => coapChan.channel
    /\ Coap!CrashAfterAClose
    /\ \A r \in Requests : req[r].coap # "none" => req[r].kind = "valid"
    /\ WaitingOK(inbox)
    /\ ResolvedOK(coapQueue)
    /\ \A i \in 1..Len(responses) : ResponseOK(responses[i])
    /\ OneResponseEach(responses)
    /\ \A i \in 1..Len(inbox), j \in 1..Len(responses) : responses[j].to # inbox[i]

\* The messages that were taken from the inbox of the application's channel.
Taken == IF handling = 0 THEN Len(echoed) ELSE Len(echoed) + 1

\* As long as the channel is open, what was echoed, what is handled and what waits
\* are the messages of the client, one after the other.
AppIInv ==
    /\ App!TypeOK
    /\ (channel <=> ~closed) /\ (open => channel /\ cb)
    /\ App!CrashAfterAClose
    /\ \A i \in 1..Len(echoed) : echoed[i] = i
    /\ open =>
        /\ handling # 0 => handling = Taken
        /\ \A i \in 1..Len(messages) : messages[i] = Taken + i
        /\ next = Taken + Len(messages)

ChannelsIInv == CoapIInv /\ AppIInv

ChannelsSafe == ChannelsInit /\ [][ChannelsNext]_channelVars
-----------------------------------------------------------------------------
\* Sequences whose elements differ.

LEMMA AppendFacts ==
    ASSUME NEW S, NEW q \in Seq(S), NEW r \in S
    PROVE  /\ Append(q, r) \in Seq(S) /\ Len(Append(q, r)) = Len(q) + 1
           /\ Append(q, r)[Len(q) + 1] = r
           /\ \A i \in 1..Len(q) : Append(q, r)[i] = q[i]
           /\ \A i \in 1..Len(Append(q, r)) : i \in 1..Len(q) \/ i = Len(q) + 1
OBVIOUS

LEMMA TailFacts ==
    ASSUME NEW S, NEW q \in Seq(S), q # <<>>
    PROVE  /\ Tail(q) \in Seq(S) /\ Len(Tail(q)) = Len(q) - 1 /\ Len(q) \in Nat \ {0}
           /\ 1 \in 1..Len(q) /\ Head(q) = q[1] /\ Head(q) \in S
           /\ \A i \in 1..Len(Tail(q)) :
                i + 1 \in 1..Len(q) /\ Tail(q)[i] = q[i + 1] /\ i + 1 # 1
<1>1. Len(q) \in Nat \ {0} /\ Tail(q) \in Seq(S) /\ Len(Tail(q)) = Len(q) - 1
  OBVIOUS
<1>2. 1 \in 1..Len(q) /\ Head(q) = q[1] /\ q[1] \in S
  OBVIOUS
<1> QED
  BY <1>1, <1>2

LEMMA InItself == \A q : \A i \in 1..Len(q) : In(q[i], q)
BY DEF In

LEMMA AppendOnce ==
    ASSUME NEW S, NEW q \in Seq(S), Once(q), NEW r \in S, \A i \in 1..Len(q) : q[i] # r
    PROVE  /\ Append(q, r) \in Seq(S) /\ Once(Append(q, r))
           /\ \A i \in 1..Len(Append(q, r)) :
                \/ Append(q, r)[i] # r /\ In(Append(q, r)[i], q)
                \/ Append(q, r)[i] = r
BY AppendFacts, InItself DEF Once

LEMMA TailOnce ==
    ASSUME NEW S, NEW q \in Seq(S), q # <<>>, Once(q)
    PROVE  /\ Tail(q) \in Seq(S) /\ Once(Tail(q))
           /\ 1 \in 1..Len(q) /\ Head(q) = q[1] /\ Head(q) \in S
           /\ \A i \in 1..Len(Tail(q)) :
                In(Tail(q)[i], q) /\ Tail(q)[i] # Head(q)
<1>1. /\ Tail(q) \in Seq(S) /\ 1 \in 1..Len(q) /\ Head(q) = q[1] /\ Head(q) \in S
      /\ \A i \in 1..Len(Tail(q)) :
            i + 1 \in 1..Len(q) /\ Tail(q)[i] = q[i + 1] /\ i + 1 # 1
  BY TailFacts
<1>2. Once(Tail(q))
  <2> SUFFICES ASSUME NEW i \in 1..Len(Tail(q)), NEW j \in 1..Len(Tail(q)),
                      Tail(q)[i] = Tail(q)[j]
               PROVE  i = j
    BY DEF Once
  <2>1. i + 1 = j + 1
    BY <1>1 DEF Once
  <2> QED
    BY <2>1
<1> QED
  BY <1>1, <1>2, InItself DEF Once

-----------------------------------------------------------------------------
\* A channel of the application.

LEMMA AppInitIInv == App!Init => AppIInv
<1> SUFFICES ASSUME App!Init PROVE AppIInv
  OBVIOUS
<1>1. 0 \in 0..MaxMessages /\ Len(<<>>) = 0 /\ <<>> \in Seq(1..MaxMessages)
  BY MessagesAssumption
<1>2. App!TypeOK
  BY <1>1 DEF App!Init, App!TypeOK
<1>3. App!CrashAfterAClose /\ handling = 0 /\ next = 0 /\ Len(echoed) = 0 /\ Len(messages) = 0
  BY <1>1 DEF App!Init, App!CrashAfterAClose
<1>4. Taken = 0 /\ ~closed /\ channel /\ cb
  BY <1>3 DEF App!Init, Taken
<1> QED
  BY <1>2, <1>3, <1>4 DEF AppIInv

\* A step that leaves the messages alone, or after which the channel is closed.
LEMMA AppCloses ==
    ASSUME AppIInv, UNCHANGED <<messages, next, handling, echoed, appCrashed>>,
           open' = FALSE, channel' \in BOOLEAN, closed' \in BOOLEAN, cb' \in BOOLEAN,
           channel' <=> ~closed', closed => closed'
    PROVE  AppIInv'
<1>1. App!TypeOK'
  BY DEF AppIInv, App!TypeOK
<1>2. App!CrashAfterAClose'
  BY DEF AppIInv, App!CrashAfterAClose
<1> QED
  BY <1>1, <1>2 DEF AppIInv

LEMMA AppClientSends == AppIInv /\ App!ClientSends => AppIInv'
<1> SUFFICES ASSUME AppIInv, App!ClientSends PROVE AppIInv'
  OBVIOUS
<1>1. /\ open /\ next < MaxMessages /\ next' = next + 1
      /\ messages' = Append(messages, next + 1)
      /\ UNCHANGED <<open, closed, channel, cb, handling, echoed, appCrashed>>
      /\ messages \in Seq(1..MaxMessages) /\ next \in 0..MaxMessages
      /\ echoed \in Seq(1..MaxMessages)
  BY DEF App!ClientSends, AppIInv, App!TypeOK
<1>2. next + 1 \in 1..MaxMessages /\ next' \in 0..MaxMessages
  BY <1>1, MessagesAssumption
<1>3. /\ messages' \in Seq(1..MaxMessages) /\ Len(messages') = Len(messages) + 1
      /\ messages'[Len(messages) + 1] = next + 1
      /\ \A i \in 1..Len(messages) : messages'[i] = messages[i]
  BY <1>1, <1>2
<1>4. Taken \in Nat /\ Taken' = Taken
  BY <1>1 DEF Taken
<1>5. \A i \in 1..Len(messages') : messages'[i] = Taken + i
  <2> TAKE i \in 1..Len(messages')
  <2>1. i \in 1..Len(messages) \/ i = Len(messages) + 1
    BY <1>1, <1>3
  <2>2. next = Taken + Len(messages) /\ \A j \in 1..Len(messages) : messages[j] = Taken + j
    BY <1>1 DEF AppIInv
  <2>3. CASE i \in 1..Len(messages)
    BY <1>3, <2>2, <2>3
  <2>4. CASE i = Len(messages) + 1
    BY <1>1, <1>3, <1>4, <2>2, <2>4
  <2> QED
    BY <2>1, <2>3, <2>4
<1>6. next' = Taken + Len(messages')
  BY <1>1, <1>3, <1>4 DEF AppIInv
<1>7. App!TypeOK'
  BY <1>1, <1>2, <1>3 DEF AppIInv, App!TypeOK
<1>8. App!CrashAfterAClose'
  BY <1>1 DEF AppIInv, App!CrashAfterAClose
<1> QED
  BY <1>1, <1>4, <1>5, <1>6, <1>7, <1>8 DEF AppIInv

LEMMA AppOnMessage == AppIInv /\ App!OnMessage => AppIInv'
<1> SUFFICES ASSUME AppIInv, App!OnMessage PROVE AppIInv'
  OBVIOUS
<1>1. /\ handling = 0 /\ messages # <<>> /\ messages' = Tail(messages)
      /\ handling' = IF cb THEN Head(messages) ELSE 0
      /\ UNCHANGED <<open, closed, channel, cb, next, echoed, appCrashed>>
      /\ messages \in Seq(1..MaxMessages) /\ next \in 0..MaxMessages
      /\ echoed \in Seq(1..MaxMessages)
  BY DEF App!OnMessage, AppIInv, App!TypeOK
<1>2. /\ messages' \in Seq(1..MaxMessages) /\ Len(messages') = Len(messages) - 1
      /\ Len(messages) \in Nat \ {0}
      /\ Head(messages) = messages[1] /\ messages[1] \in 1..MaxMessages
      /\ \A i \in 1..Len(messages') : i + 1 \in 1..Len(messages) /\ messages'[i] = messages[i + 1]
  BY <1>1, TailFacts
<1>3. handling' \in 0..MaxMessages
  BY <1>1, <1>2, MessagesAssumption
<1>4. App!TypeOK'
  BY <1>1, <1>2, <1>3 DEF AppIInv, App!TypeOK
<1>5. App!CrashAfterAClose'
  BY <1>1 DEF AppIInv, App!CrashAfterAClose
<1>6. Len(echoed) \in Nat /\ Taken = Len(echoed)
  BY <1>1 DEF Taken
<1>7. ASSUME open
      PROVE  /\ handling' # 0 => handling' = Taken'
             /\ \A i \in 1..Len(messages') : messages'[i] = Taken' + i
             /\ next' = Taken' + Len(messages')
  <2>1. /\ cb /\ next = Taken + Len(messages)
        /\ \A i \in 1..Len(messages) : messages[i] = Taken + i
    BY <1>7 DEF AppIInv
  <2>2. 1 \in 1..Len(messages) /\ handling' = Len(echoed) + 1
    BY <1>1, <1>2, <1>6, <2>1
  <2>3. Taken' = Len(echoed) + 1
    BY <1>1, <1>6, <2>2 DEF Taken
  <2> QED
    BY <1>1, <1>2, <1>6, <2>1, <2>2, <2>3
<1> QED
  BY <1>1, <1>4, <1>5, <1>7 DEF AppIInv

LEMMA AppSendMessage == AppIInv /\ App!SendMessage => AppIInv'
<1> SUFFICES ASSUME AppIInv, App!SendMessage PROVE AppIInv'
  OBVIOUS
<1>1. /\ handling # 0 /\ handling' = 0
      /\ appCrashed' = IF channel THEN "no" ELSE "null"
      /\ echoed' = IF channel /\ open THEN Append(echoed, handling) ELSE echoed
      /\ UNCHANGED <<open, closed, channel, cb, messages, next>>
      /\ messages \in Seq(1..MaxMessages) /\ next \in 0..MaxMessages
      /\ echoed \in Seq(1..MaxMessages) /\ handling \in 1..MaxMessages
  BY MessagesAssumption DEF App!SendMessage, AppIInv, App!TypeOK
<1>0. echoed \in Seq(1..MaxMessages) /\ handling \in 1..MaxMessages
  BY <1>1
<1>2. /\ echoed' \in Seq(1..MaxMessages)
      /\ open => /\ Len(echoed') = Len(echoed) + 1
                 /\ echoed'[Len(echoed) + 1] = handling
                 /\ \A i \in 1..Len(echoed) : echoed'[i] = echoed[i]
      /\ ~open => echoed' = echoed
  <2>1. open => channel
    BY DEF AppIInv
  <2>2. CASE open
    <3>1. echoed' = Append(echoed, handling)
      BY <1>1, <2>1, <2>2
    <3> QED
      BY <1>0, <2>2, <3>1, AppendFacts
  <2>3. CASE ~open
    BY <1>1, <2>3
  <2> QED
    BY <2>2, <2>3
<1>3. 0 \in 0..MaxMessages
  BY MessagesAssumption
<1>4. App!TypeOK'
  BY <1>1, <1>2, <1>3 DEF AppIInv, App!TypeOK
<1>5. App!CrashAfterAClose'
  BY <1>1 DEF AppIInv, App!CrashAfterAClose
<1>6. open => Taken' = Taken
  BY <1>1, <1>2 DEF Taken
<1>7. \A i \in 1..Len(echoed') : echoed'[i] = i
  <2> TAKE i \in 1..Len(echoed')
  <2>1. CASE ~open
    BY <1>2, <2>1 DEF AppIInv
  <2>2. CASE open
    <3>1. handling = Len(echoed) + 1
      BY <1>1, <2>2 DEF AppIInv, Taken
    <3>2. i \in 1..Len(echoed) \/ i = Len(echoed) + 1
      BY <1>1, <1>2, <2>2
    <3> QED
      BY <1>2, <2>2, <3>1, <3>2 DEF AppIInv
  <2> QED
    BY <2>1, <2>2
<1> QED
  BY <1>1, <1>4, <1>5, <1>6, <1>7 DEF AppIInv

LEMMA AppNextKeeps == AppIInv /\ [App!Next]_appVars => AppIInv'
<1> SUFFICES ASSUME AppIInv, [App!Next]_appVars PROVE AppIInv'
  OBVIOUS
<1>1. CASE UNCHANGED appVars
  BY <1>1 DEF AppIInv, App!TypeOK, App!CrashAfterAClose, Taken, appVars
<1>2. CASE App!ClientSends
  BY <1>2, AppClientSends
<1>3. CASE App!ClientCloses
  <2>1. open' = FALSE /\ UNCHANGED <<closed, channel, cb, messages, next, handling, echoed, appCrashed>>
    BY <1>3 DEF App!ClientCloses
  <2>2. channel \in BOOLEAN /\ closed \in BOOLEAN /\ cb \in BOOLEAN /\ (channel <=> ~closed)
    BY DEF AppIInv, App!TypeOK
  <2> QED
    BY <2>1, <2>2, AppCloses
<1>4. CASE App!OnMessage
  BY <1>4, AppOnMessage
<1>5. CASE App!SendMessage
  BY <1>5, AppSendMessage
<1>6. CASE App!PeerCloses
  BY <1>6, AppCloses DEF App!PeerCloses, App!ConnectionClosed
<1> QED
  BY <1>1, <1>2, <1>3, <1>4, <1>5, <1>6 DEF App!Next
-----------------------------------------------------------------------------
\* The CoAP channel.

LEMMA CoapInitIInv == Coap!Init => CoapIInv
<1> SUFFICES ASSUME Coap!Init PROVE CoapIInv
  OBVIOUS
<1>1. Len(inbox) = 0 /\ Len(coapQueue) = 0 /\ Len(responses) = 0
  BY DEF Coap!Init
<1>2. req \in [Requests -> Coap!Reqs]
  BY DEF Coap!Init, Coap!Reqs, Coap!Formats, Coap!Kinds
<1>3. Coap!TypeOK
  <2>1. coapChan \in [open : BOOLEAN, channel : BOOLEAN] /\ coapCrashed \in BOOLEAN
    BY DEF Coap!Init
  <2>2. /\ inbox \in Seq(Requests) /\ coapQueue \in Seq(Requests)
        /\ responses \in Seq(Coap!Responses)
    BY DEF Coap!Init
  <2> QED
    BY <1>2, <2>1, <2>2 DEF Coap!TypeOK
<1>4. /\ coapChan.channel /\ Coap!CrashAfterAClose
      /\ \A r \in Requests : req[r].coap = "none"
  BY DEF Coap!Init, Coap!CrashAfterAClose
<1> QED
  BY <1>1, <1>3, <1>4 DEF CoapIInv, WaitingOK, ResolvedOK, OneResponseEach, Once

\* The state of one request changes, and with it where it waits and what was answered.
LEMMA RequestKeeps ==
    ASSUME CoapIInv, NEW r \in Requests, NEW c \in Coap!Reqs,
           req' = [req EXCEPT ![r] = c], c.coap # "none" => c.kind = "valid",
           UNCHANGED coapChan,
           coapCrashed' \in BOOLEAN, coapCrashed' => Unanswered(r, c, responses'),
           inbox' \in Seq(Requests), Once(inbox'),
           \A i \in 1..Len(inbox') :
               \/ inbox'[i] = r /\ c.kind # "unsent" /\ c.coap = "none"
               \/ inbox'[i] # r /\ In(inbox'[i], inbox),
           coapQueue' \in Seq(Requests), Once(coapQueue'),
           \A i \in 1..Len(coapQueue') :
               \/ coapQueue'[i] = r /\ c.coap = "resolved"
               \/ coapQueue'[i] # r /\ In(coapQueue'[i], coapQueue),
           responses' \in Seq(Coap!Responses), OneResponseEach(responses'),
           \A i \in 1..Len(responses') :
               \/ /\ responses'[i].to = r
                  /\ IF responses'[i].what = "response"
                     THEN c.coap = "freed" /\ c.ok
                     ELSE c.coap = "none" /\ c.kind # "unsent"
               \/ /\ responses'[i].to # r
                  /\ In(responses'[i], responses),
           \A i \in 1..Len(inbox'), j \in 1..Len(responses') : responses'[j].to # inbox'[i]
    PROVE  CoapIInv'
<1>1. /\ req' \in [Requests -> Coap!Reqs]
      /\ \A q \in Requests : req'[q] = IF q = r THEN c ELSE req[q]
  BY DEF CoapIInv, Coap!TypeOK
<1>2. Coap!TypeOK'
  BY <1>1 DEF CoapIInv, Coap!TypeOK
<1>3. /\ (coapChan.open => coapChan.channel)'
      /\ \A q \in Requests : req'[q].coap # "none" => req'[q].kind = "valid"
  BY <1>1 DEF CoapIInv
<1>7. Coap!CrashAfterAClose'
  <2>1. req'[r] = c
    BY <1>1
  <2> QED
    BY <2>1 DEF Unanswered, Coap!CrashAfterAClose, Coap!Answered
<1>4. WaitingOK(inbox)'
  <2> SUFFICES ASSUME NEW i \in 1..Len(inbox')
               PROVE  req'[inbox'[i]].kind # "unsent" /\ req'[inbox'[i]].coap = "none"
    BY DEF WaitingOK
  <2>1. inbox'[i] \in Requests
    OBVIOUS
  <2>2. CASE inbox'[i] = r
    BY <1>1, <2>1, <2>2
  <2>3. CASE inbox'[i] # r
    <3>1. PICK j \in 1..Len(inbox) : inbox'[i] = inbox[j]
      BY <2>3 DEF In
    <3>2. req[inbox[j]].kind # "unsent" /\ req[inbox[j]].coap = "none"
      BY DEF CoapIInv, WaitingOK
    <3> QED
      BY <1>1, <2>1, <2>3, <3>1, <3>2
  <2> QED
    BY <2>2, <2>3
<1>5. ResolvedOK(coapQueue)'
  <2> SUFFICES ASSUME NEW i \in 1..Len(coapQueue')
               PROVE  req'[coapQueue'[i]].coap = "resolved"
    BY DEF ResolvedOK
  <2>1. coapQueue'[i] \in Requests
    OBVIOUS
  <2>2. CASE coapQueue'[i] = r
    BY <1>1, <2>1, <2>2
  <2>3. CASE coapQueue'[i] # r
    <3>1. PICK j \in 1..Len(coapQueue) : coapQueue'[i] = coapQueue[j]
      BY <2>3 DEF In
    <3>2. req[coapQueue[j]].coap = "resolved"
      BY DEF CoapIInv, ResolvedOK
    <3> QED
      BY <1>1, <2>1, <2>3, <3>1, <3>2
  <2> QED
    BY <2>2, <2>3
<1>6. \A i \in 1..Len(responses') : ResponseOK(responses[i])'
  <2> TAKE i \in 1..Len(responses')
  <2>1. responses'[i] \in Coap!Responses
    OBVIOUS
  <2>2. responses'[i].to \in Requests
    BY <2>1 DEF Coap!Responses
  <2>3. CASE responses'[i].to = r
    BY <1>1, <2>2, <2>3 DEF ResponseOK
  <2>4. CASE responses'[i].to # r
    <3>1. PICK j \in 1..Len(responses) : responses'[i] = responses[j]
      BY <2>4 DEF In
    <3>2. ResponseOK(responses[j])
      BY DEF CoapIInv
    <3> QED
      BY <1>1, <2>2, <2>4, <3>1, <3>2 DEF ResponseOK
  <2> QED
    BY <2>3, <2>4
<1> QED
  BY <1>2, <1>3, <1>4, <1>5, <1>6, <1>7 DEF CoapIInv

\* A request that has no response gets one, if the channel is open; the pointer that is
\* null when it is used has been reset after the channel closed.
LEMMA SendResponseKeeps ==
    ASSUME CoapIInv, NEW r \in Requests, NEW what \in {"error", "response"},
           Coap!SendResponse(r, what), \A j \in 1..Len(responses) : responses[j].to # r
    PROVE  /\ coapCrashed' \in BOOLEAN
           /\ coapCrashed' =>
                ~coapChan.open /\ \A j \in 1..Len(responses') : responses'[j].to # r
           /\ responses' \in Seq(Coap!Responses) /\ OneResponseEach(responses')
           /\ \A i \in 1..Len(responses') :
                \/ responses'[i].to = r /\ responses'[i].what = what
                \/ /\ responses'[i].to # r
                   /\ In(responses'[i], responses)
<1> DEFINE p == [to |-> r, what |-> what]
<1>1. p \in Coap!Responses /\ p.to = r /\ p.what = what
  BY DEF Coap!Responses
<1>2. /\ coapChan \in [open : BOOLEAN, channel : BOOLEAN]
      /\ responses \in Seq(Coap!Responses) /\ OneResponseEach(responses)
      /\ coapChan.open => coapChan.channel
  BY DEF CoapIInv, Coap!TypeOK
<1>3. /\ coapCrashed' = ~coapChan.channel
      /\ responses' = Append(responses, p) \/ responses' = responses
      /\ ~coapChan.open => responses' = responses
  BY DEF Coap!SendResponse
<1>4. /\ coapCrashed' \in BOOLEAN
      /\ coapCrashed' =>
            ~coapChan.open /\ \A j \in 1..Len(responses') : responses'[j].to # r
  BY <1>2, <1>3
<1> HIDE DEF p
<1>5. CASE responses' = responses
  BY <1>2, <1>4, <1>5, InItself
<1>6. CASE responses' = Append(responses, p)
  <2>1. /\ responses' \in Seq(Coap!Responses) /\ Len(responses') = Len(responses) + 1
        /\ responses'[Len(responses) + 1] = p
        /\ \A i \in 1..Len(responses) : responses'[i] = responses[i]
        /\ \A i \in 1..Len(responses') : i \in 1..Len(responses) \/ i = Len(responses) + 1
    BY <1>1, <1>2, <1>6, AppendFacts
  <2>2. OneResponseEach(responses')
    BY <1>1, <1>2, <2>1 DEF OneResponseEach
  <2> QED
    BY <1>1, <1>4, <2>1, <2>2, InItself
<1> QED
  BY <1>3, <1>5, <1>6

LEMMA CoapClientSends ==
    ASSUME CoapIInv, ~coapCrashed, NEW r \in Requests, Coap!ClientSends(r)
    PROVE  CoapIInv'
<1>1. PICK kind \in Coap!Kinds, format \in {"missing", "clients"}, payload \in BOOLEAN :
        req' = [req EXCEPT ![r].kind = kind, ![r].format = format, ![r].payload = payload]
  BY DEF Coap!ClientSends
<1> DEFINE c == [req[r] EXCEPT !.kind = kind, !.format = format, !.payload = payload]
<1>2. /\ req[r].kind = "unsent" /\ inbox' = Append(inbox, r)
      /\ UNCHANGED <<coapChan, coapQueue, responses, coapCrashed>>
  BY DEF Coap!ClientSends
<1>3. /\ req[r] \in Coap!Reqs /\ inbox \in Seq(Requests) /\ coapQueue \in Seq(Requests)
      /\ responses \in Seq(Coap!Responses) /\ coapCrashed \in BOOLEAN
  BY DEF CoapIInv, Coap!TypeOK
<1>4. /\ c \in Coap!Reqs /\ c.kind = kind /\ c.kind # "unsent" /\ c.coap = req[r].coap
      /\ c.ok = req[r].ok
  BY <1>3 DEF Coap!Reqs, Coap!Kinds
<1>5. req' = [req EXCEPT ![r] = c]
  BY <1>1
<1> HIDE DEF c
<1>6. /\ \A i \in 1..Len(inbox) : inbox[i] # r
      /\ \A i \in 1..Len(coapQueue) : coapQueue[i] # r
      /\ \A j \in 1..Len(responses) : responses[j].to # r
      /\ c.coap = "none"
  BY <1>2, <1>4 DEF CoapIInv, WaitingOK, ResolvedOK, ResponseOK
<1>7. /\ Once(inbox) /\ Once(coapQueue) /\ OneResponseEach(responses)
      /\ ~coapCrashed
  BY DEF CoapIInv, WaitingOK, ResolvedOK
<1>8. /\ inbox' \in Seq(Requests) /\ Once(inbox')
      /\ \A i \in 1..Len(inbox') :
            \/ inbox'[i] # r /\ In(inbox'[i], inbox)
            \/ inbox'[i] = r
  <2>1. /\ Append(inbox, r) \in Seq(Requests) /\ Once(Append(inbox, r))
        /\ \A i \in 1..Len(Append(inbox, r)) :
             \/ Append(inbox, r)[i] # r /\ In(Append(inbox, r)[i], inbox)
             \/ Append(inbox, r)[i] = r
    <3>1. inbox \in Seq(Requests) /\ Once(inbox) /\ \A i \in 1..Len(inbox) : inbox[i] # r
      BY <1>3, <1>6, <1>7
    <3> QED
      BY <3>1, AppendOnce, SMTT(30)
  <2> QED
    BY <1>2, <2>1
<1>9. \A i \in 1..Len(inbox'), j \in 1..Len(responses) : responses[j].to # inbox'[i]
  BY <1>6, <1>8 DEF CoapIInv, In
<1> QED
  BY <1>2, <1>3, <1>4, <1>5, <1>6, <1>7, <1>8, <1>9, RequestKeeps, InItself

\* The message at the head of the inbox is taken: ignored, refused or executed.
LEMMA CoapHandleStringMessage == CoapIInv /\ ~coapCrashed /\ Coap!HandleStringMessage => CoapIInv'
<1> SUFFICES ASSUME CoapIInv, ~coapCrashed, Coap!HandleStringMessage PROVE CoapIInv'
  OBVIOUS
<1> DEFINE r == Head(inbox)
<1>1. /\ inbox # <<>> /\ inbox' = Tail(inbox) /\ UNCHANGED <<coapChan, coapQueue>>
      /\ \/ req[r].kind = "other" /\ UNCHANGED <<req, responses, coapCrashed>>
         \/ req[r].kind # "other" /\ Coap!CreateRequest(r)
  BY DEF Coap!HandleStringMessage
<1>2. /\ req \in [Requests -> Coap!Reqs] /\ inbox \in Seq(Requests)
      /\ coapQueue \in Seq(Requests) /\ responses \in Seq(Coap!Responses)
      /\ coapCrashed \in BOOLEAN /\ Once(inbox) /\ Once(coapQueue)
      /\ OneResponseEach(responses) /\ ~coapCrashed
  BY DEF CoapIInv, Coap!TypeOK, WaitingOK, ResolvedOK
<1>3. /\ inbox' \in Seq(Requests) /\ Once(inbox')
      /\ 1 \in 1..Len(inbox) /\ r = inbox[1] /\ r \in Requests
      /\ \A i \in 1..Len(inbox') :
            In(inbox'[i], inbox) /\ inbox'[i] # r
  BY <1>1, <1>2, TailOnce
<1> HIDE DEF r
<1>4. /\ req[r] \in Coap!Reqs /\ req[r].kind # "unsent" /\ req[r].coap = "none"
      /\ \A j \in 1..Len(responses) : responses[j].to # r
      /\ \A i \in 1..Len(coapQueue) : coapQueue[i] # r
  BY <1>2, <1>3 DEF CoapIInv, WaitingOK, ResolvedOK
<1>9. req[r].coap # "none" => req[r].kind = "valid"
  BY <1>4
<1>5. \A i \in 1..Len(inbox'), j \in 1..Len(responses) : responses[j].to # inbox'[i]
  BY <1>3 DEF CoapIInv, In
<1>6. CASE UNCHANGED <<req, responses, coapCrashed>>
  <2>1. req' = [req EXCEPT ![r] = req[r]]
    BY <1>2, <1>6
  <2>2. \A i \in 1..Len(responses) : In(responses[i], responses) /\ responses[i].to # r
    BY <1>4, InItself
  <2>3. \A i \in 1..Len(coapQueue) : In(coapQueue[i], coapQueue) /\ coapQueue[i] # r
    BY <1>4, InItself
  <2>4. /\ coapCrashed' \in BOOLEAN /\ ~coapCrashed'
        /\ coapQueue' \in Seq(Requests) /\ Once(coapQueue')
        /\ responses' \in Seq(Coap!Responses) /\ OneResponseEach(responses')
    BY <1>1, <1>2, <1>6
  <2>5. /\ \A i \in 1..Len(coapQueue') : In(coapQueue'[i], coapQueue) /\ coapQueue'[i] # r
        /\ \A i \in 1..Len(responses') : In(responses'[i], responses) /\ responses'[i].to # r
        /\ \A i \in 1..Len(inbox'), j \in 1..Len(responses') : responses'[j].to # inbox'[i]
    BY <1>1, <1>5, <1>6, <2>2, <2>3
  <2>6. UNCHANGED coapChan /\ (coapCrashed' => Unanswered(r, req[r], responses'))
    BY <1>1, <2>4
  <2> QED
    BY <1>3, <1>4, <1>9, <2>1, <2>4, <2>5, <2>6, RequestKeeps
<1>7. CASE Coap!CreateRequest(r) /\ req[r].kind = "valid"
  <2>1. PICK format \in Coap!ExecutedAs(req[r]) :
          req' = [req EXCEPT ![r].coap = "executing", ![r].executedAs = format]
    BY <1>7 DEF Coap!CreateRequest
  <2>2. UNCHANGED <<responses, coapCrashed>>
    BY <1>7 DEF Coap!CreateRequest
  <2>3. format \in Coap!Formats
    BY <1>4, <2>1 DEF Coap!ExecutedAs, Coap!Formats, Coap!Reqs
  <2> DEFINE c == [req[r] EXCEPT !.coap = "executing", !.executedAs = format]
  <2>4. c \in Coap!Reqs /\ c.kind = "valid"
    BY <1>4, <1>7, <2>3 DEF Coap!Reqs
  <2>5. req' = [req EXCEPT ![r] = c]
    BY <2>1
  <2> HIDE DEF c
  <2> QED
    BY <1>1, <1>2, <1>3, <1>4, <1>5, <2>2, <2>4, <2>5, RequestKeeps, InItself
<1>8. CASE Coap!CreateRequest(r) /\ req[r].kind \notin {"valid", "other"}
  <2>1. UNCHANGED req /\ Coap!SendResponse(r, "error")
    BY <1>8 DEF Coap!CreateRequest
  <2>2. /\ coapCrashed' \in BOOLEAN
        /\ coapCrashed' =>
             ~coapChan.open /\ \A j \in 1..Len(responses') : responses'[j].to # r
        /\ responses' \in Seq(Coap!Responses) /\ OneResponseEach(responses')
        /\ \A i \in 1..Len(responses') :
             \/ responses'[i].to = r /\ responses'[i].what = "error"
             \/ /\ responses'[i].to # r
                /\ In(responses'[i], responses)
    BY <1>3, <1>4, <2>1, SendResponseKeeps
  <2>3. req' = [req EXCEPT ![r] = req[r]]
    BY <1>2, <2>1
  <2>4. \A i \in 1..Len(inbox'), j \in 1..Len(responses') : responses'[j].to # inbox'[i]
    BY <1>3, <1>5, <2>2 DEF In
  <2>5. coapCrashed' => Unanswered(r, req[r], responses')
    <3>1. req[r].kind = "refused"
      BY <1>4, <1>8 DEF Coap!Reqs, Coap!Kinds
    <3> QED
      BY <1>4, <2>2, <3>1 DEF Unanswered
  <2> QED
    BY <1>1, <1>2, <1>3, <1>4, <1>9, <2>2, <2>3, <2>4, <2>5, RequestKeeps, InItself
<1> QED
  BY <1>1, <1>6, <1>7, <1>8

LEMMA CoapCallbackKeeps ==
    ASSUME CoapIInv, ~coapCrashed, NEW r \in Requests, Coap!CoapCallback(r)
    PROVE  CoapIInv'
<1>1. PICK ok \in BOOLEAN : req' = [req EXCEPT ![r].coap = "resolved", ![r].ok = ok]
  BY DEF Coap!CoapCallback
<1> DEFINE c == [req[r] EXCEPT !.coap = "resolved", !.ok = ok]
<1>2. /\ req[r].coap = "executing" /\ coapQueue' = Append(coapQueue, r)
      /\ UNCHANGED <<coapChan, inbox, responses, coapCrashed>>
  BY DEF Coap!CoapCallback
<1>3. /\ req[r] \in Coap!Reqs /\ inbox \in Seq(Requests)
      /\ coapQueue \in Seq(Requests) /\ responses \in Seq(Coap!Responses)
      /\ coapCrashed \in BOOLEAN /\ Once(inbox) /\ Once(coapQueue)
      /\ OneResponseEach(responses) /\ (coapCrashed => ~coapChan.open)
  BY DEF CoapIInv, Coap!TypeOK, WaitingOK, ResolvedOK, Coap!CrashAfterAClose
<1>0. req[r].kind = "valid"
  BY <1>2 DEF CoapIInv
<1>4. c \in Coap!Reqs /\ c.kind = "valid" /\ c.coap = "resolved"
  BY <1>0, <1>3 DEF Coap!Reqs
<1>5. req' = [req EXCEPT ![r] = c]
  BY <1>1
<1> HIDE DEF c
<1>6. /\ \A i \in 1..Len(inbox) : inbox[i] # r
      /\ \A i \in 1..Len(coapQueue) : coapQueue[i] # r
      /\ \A j \in 1..Len(responses) : responses[j].to # r
  BY <1>2 DEF CoapIInv, WaitingOK, ResolvedOK, ResponseOK
<1>7. /\ coapQueue' \in Seq(Requests) /\ Once(coapQueue')
      /\ \A i \in 1..Len(coapQueue') :
            \/ coapQueue'[i] # r /\ In(coapQueue'[i], coapQueue)
            \/ coapQueue'[i] = r
  BY <1>2, <1>3, <1>6, AppendOnce
<1>8. \A i \in 1..Len(inbox), j \in 1..Len(responses) : responses[j].to # inbox[i]
  BY DEF CoapIInv
<1> QED
  BY <1>2, <1>3, <1>4, <1>5, <1>6, <1>7, <1>8, RequestKeeps, InItself

LEMMA CoapHandleResponse == CoapIInv /\ ~coapCrashed /\ Coap!HandleCoapResponse => CoapIInv'
<1> SUFFICES ASSUME CoapIInv, ~coapCrashed, Coap!HandleCoapResponse PROVE CoapIInv'
  OBVIOUS
<1> DEFINE r == Head(coapQueue)
<1> DEFINE c == [req[r] EXCEPT !.coap = "freed"]
<1>1. /\ coapQueue # <<>> /\ coapQueue' = Tail(coapQueue) /\ UNCHANGED <<coapChan, inbox>>
      /\ req' = [req EXCEPT ![r] = c]
      /\ IF req[r].ok
         THEN Coap!SendResponse(r, "response")
         ELSE UNCHANGED <<responses, coapCrashed>>
  BY DEF Coap!HandleCoapResponse
<1>2. /\ req \in [Requests -> Coap!Reqs] /\ inbox \in Seq(Requests)
      /\ coapQueue \in Seq(Requests) /\ responses \in Seq(Coap!Responses)
      /\ coapCrashed \in BOOLEAN /\ Once(inbox) /\ Once(coapQueue)
      /\ OneResponseEach(responses) /\ ~coapCrashed
  BY DEF CoapIInv, Coap!TypeOK, WaitingOK, ResolvedOK
<1>3. /\ coapQueue' \in Seq(Requests) /\ Once(coapQueue')
      /\ 1 \in 1..Len(coapQueue) /\ r = coapQueue[1] /\ r \in Requests
      /\ \A i \in 1..Len(coapQueue') :
            In(coapQueue'[i], coapQueue) /\ coapQueue'[i] # r
  BY <1>1, <1>2, TailOnce
<1> HIDE DEF r
<1>4. req[r] \in Coap!Reqs /\ req[r].coap = "resolved"
  BY <1>2, <1>3 DEF CoapIInv, ResolvedOK
<1>5. /\ c \in Coap!Reqs /\ c.coap = "freed" /\ c.kind = req[r].kind /\ c.ok = req[r].ok
  BY <1>4 DEF Coap!Reqs
<1>6. c.kind = "valid"
  BY <1>3, <1>4, <1>5 DEF CoapIInv
<1> HIDE DEF c
<1>7. /\ \A i \in 1..Len(inbox) : inbox[i] # r
      /\ \A j \in 1..Len(responses) : responses[j].to # r
      /\ \A i \in 1..Len(inbox), j \in 1..Len(responses) : responses[j].to # inbox[i]
  BY <1>4 DEF CoapIInv, WaitingOK, ResponseOK
<1>8. CASE ~req[r].ok
  <2>1. UNCHANGED <<responses, coapCrashed>>
    BY <1>1, <1>8
  <2>2. \A i \in 1..Len(responses) : In(responses[i], responses) /\ responses[i].to # r
    BY <1>7, InItself
  <2>3. \A i \in 1..Len(inbox) : In(inbox[i], inbox) /\ inbox[i] # r
    BY <1>7, InItself
  <2>4. inbox' = inbox /\ coapChan' = coapChan
    BY <1>1
  <2>5. /\ coapCrashed' \in BOOLEAN /\ ~coapCrashed'
        /\ inbox' \in Seq(Requests) /\ Once(inbox')
        /\ responses' \in Seq(Coap!Responses) /\ OneResponseEach(responses')
    BY <1>2, <2>1, <2>4
  <2>6. /\ \A i \in 1..Len(inbox') : In(inbox'[i], inbox) /\ inbox'[i] # r
        /\ \A i \in 1..Len(responses') : In(responses'[i], responses) /\ responses'[i].to # r
        /\ \A i \in 1..Len(inbox'), j \in 1..Len(responses') : responses'[j].to # inbox'[i]
    BY <1>7, <2>1, <2>2, <2>3, <2>4
  <2> QED
    BY <1>1, <1>3, <1>5, <1>6, <2>4, <2>5, <2>6, RequestKeeps
<1>9. CASE req[r].ok
  <2>1. /\ coapCrashed' \in BOOLEAN
        /\ coapCrashed' =>
             ~coapChan.open /\ \A j \in 1..Len(responses') : responses'[j].to # r
        /\ responses' \in Seq(Coap!Responses) /\ OneResponseEach(responses')
        /\ \A i \in 1..Len(responses') :
             \/ responses'[i].to = r /\ responses'[i].what = "response"
             \/ /\ responses'[i].to # r
                /\ In(responses'[i], responses)
    BY <1>1, <1>3, <1>7, <1>9, SendResponseKeeps
  <2>2. \A i \in 1..Len(inbox'), j \in 1..Len(responses') : responses'[j].to # inbox'[i]
    BY <1>1, <1>7, <2>1 DEF In
  <2>3. coapCrashed' => Unanswered(r, c, responses')
    BY <1>5, <1>6, <1>9, <2>1 DEF Unanswered
  <2> QED
    BY <1>1, <1>2, <1>3, <1>5, <1>6, <1>7, <1>9, <2>1, <2>2, <2>3, RequestKeeps, InItself
<1> QED
  BY <1>8, <1>9

LEMMA CoapCloses == CoapIInv /\ ~coapCrashed /\ (Coap!Closes \/ Coap!OnClosed) => CoapIInv'
<1> SUFFICES ASSUME CoapIInv, ~coapCrashed, Coap!Closes \/ Coap!OnClosed PROVE CoapIInv'
  OBVIOUS
<1>1. /\ UNCHANGED <<req, coapQueue, responses, coapCrashed>>
      /\ \/ inbox' = inbox \/ inbox' = <<>>
         \/ inbox # <<>> /\ inbox' = <<Head(inbox)>>
      /\ coapChan' \in [open : BOOLEAN, channel : BOOLEAN] /\ ~coapChan'.open
  BY DEF Coap!Closes, Coap!OnClosed, CoapIInv, Coap!TypeOK
<1>2. inbox' \in Seq(Requests) /\ WaitingOK(inbox)'
      /\ \A i \in 1..Len(inbox') : In(inbox'[i], inbox)
  <2>1. CASE inbox' = inbox
    BY <1>1, <2>1, InItself DEF CoapIInv, WaitingOK, Once, Coap!TypeOK
  <2>2. CASE inbox' = <<>>
    BY <2>2 DEF WaitingOK, Once
  <2>3. CASE inbox # <<>> /\ inbox' = <<Head(inbox)>>
    <3>1. inbox \in Seq(Requests) /\ WaitingOK(inbox)
      BY DEF CoapIInv, Coap!TypeOK
    <3>2. 1 \in 1..Len(inbox) /\ Head(inbox) = inbox[1] /\ inbox[1] \in Requests
      BY <2>3, <3>1, TailFacts
    <3>3. /\ inbox' \in Seq(Requests)
          /\ \A i \in 1..Len(inbox') : i = 1 /\ inbox'[i] = inbox[1]
      BY <2>3, <3>2
    <3> QED
      BY <1>1, <3>1, <3>2, <3>3 DEF WaitingOK, Once, In
  <2> QED
    BY <1>1, <2>1, <2>2, <2>3
<1>3. Coap!TypeOK'
  BY <1>1, <1>2 DEF CoapIInv, Coap!TypeOK
<1>4. /\ ResolvedOK(coapQueue)' /\ OneResponseEach(responses')
      /\ \A i \in 1..Len(responses') : ResponseOK(responses[i])'
      /\ \A r \in Requests : req'[r].coap # "none" => req'[r].kind = "valid"
  BY <1>1 DEF CoapIInv, ResolvedOK, Once, OneResponseEach, ResponseOK
<1>5. (coapChan'.open => coapChan'.channel) /\ Coap!CrashAfterAClose'
  BY <1>1 DEF Coap!CrashAfterAClose
<1>6. \A i \in 1..Len(inbox'), j \in 1..Len(responses') : responses'[j].to # inbox'[i]
  BY <1>1, <1>2 DEF CoapIInv, In
<1> QED
  BY <1>1, <1>2, <1>3, <1>4, <1>5, <1>6 DEF CoapIInv

LEMMA CoapNextKeeps == CoapIInv /\ [Coap!Next]_coapVars => CoapIInv'
<1> SUFFICES ASSUME CoapIInv, [Coap!Next]_coapVars PROVE CoapIInv'
  OBVIOUS
<1>1. CASE UNCHANGED coapVars
  <2>1. UNCHANGED <<coapChan, req, inbox, coapQueue, responses, coapCrashed>>
    BY <1>1 DEF coapVars
  <2> QED
    BY <2>1 DEF CoapIInv, Coap!TypeOK, Coap!CrashAfterAClose, Coap!Answered, WaitingOK, ResolvedOK,
              Once, OneResponseEach, ResponseOK
<1>2. ASSUME ~coapCrashed, NEW r \in Requests, Coap!ClientSends(r) \/ Coap!CoapCallback(r)
      PROVE  CoapIInv'
  BY <1>2, CoapClientSends, CoapCallbackKeeps
<1> QED
  BY <1>1, <1>2, CoapCloses, CoapHandleStringMessage, CoapHandleResponse DEF Coap!Next
-----------------------------------------------------------------------------
LEMMA ChannelsInitIInv == ChannelsInit => ChannelsIInv
  BY CoapInitIInv, AppInitIInv DEF ChannelsInit, ChannelsIInv

LEMMA ChannelsNextKeeps == ChannelsIInv /\ [ChannelsNext]_channelVars => ChannelsIInv'
<1> SUFFICES ASSUME ChannelsIInv, [ChannelsNext]_channelVars PROVE ChannelsIInv'
  OBVIOUS
<1>1. [Coap!Next]_coapVars /\ [App!Next]_appVars
  BY DEF ChannelsNext, channelVars, OfStream, OfCoap, OfApp
<1> QED
  BY <1>1, CoapNextKeeps, AppNextKeeps DEF ChannelsIInv

LEMMA ChannelsSpecIInv == ChannelsSafe => []ChannelsIInv
  BY ChannelsInitIInv, ChannelsNextKeeps, PTL DEF ChannelsSafe

\* Channels of streams behave as StreamChannel says, whatever the others are.
THEOREM StreamsAreStreams == ChannelsSafe => SafeSpec
<1>1. ChannelsInit => Init
  BY DEF ChannelsInit
<1>2. [ChannelsNext]_channelVars => [Next]_vars
  BY DEF ChannelsNext, channelVars, OfStream, OfCoap, OfApp
<1> QED
  BY <1>1, <1>2, PTL DEF ChannelsSafe, SafeSpec

\* However the messages, the SDK's results and the event queue interleave, and wherever
\* the client closes, a request is answered at most once and with what became of it
\* (webrtc_coap_channel.cpp:245), and echoes come in order (datachannel_impl.hpp:27).
THEOREM AnswersAlwaysMatch == ChannelsSafe => []AnswersMatch
<1>1. ASSUME ChannelsIInv PROVE AnswersMatch
  <2>1. Coap!AnswersMatch
    BY <1>1 DEF ChannelsIInv, CoapIInv, Coap!AnswersMatch, OneResponseEach, ResponseOK
  <2>2. echoed \in Seq(1..MaxMessages) /\ \A i \in 1..Len(echoed) : echoed[i] = i
    BY <1>1 DEF ChannelsIInv, AppIInv, App!TypeOK
  <2>3. App!EchoesAreInOrder
    BY <2>2 DEF App!EchoesAreInOrder
  <2> QED
    BY <2>1, <2>3 DEF AnswersMatch
<1> QED
  BY <1>1, ChannelsSpecIInv, PTL

\* A channel of whatever kind is used when it is gone only after it was closed, or its
\* connection, by the client or by the device (webrtc_connection.cpp:37), and only for a
\* transfer or a request that was then under way.
THEOREM CrashesNeedAClose == ChannelsSafe => []CrashNeedsAClose
<1>1. ASSUME ChannelsIInv, TypeOK, CrashAfterAClose PROVE CrashNeedsAClose
  BY <1>1 DEF ChannelsIInv, CoapIInv, AppIInv, CrashNeedsAClose, TypesOK
<1> QED
  BY <1>1, ChannelsSpecIInv, StreamsAreStreams, TypeCorrect, CrashesFollowAClose, PTL

\* What the client of any file stream gets is the stream (webrtc_stream_channel.cpp:66).
THEOREM ChannelsDeliverStreams == ChannelsSafe => []StreamIsDelivered
  BY StreamsAreStreams, StreamsAreDelivered, PTL
=============================================================================
