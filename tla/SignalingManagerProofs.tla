------------------------ MODULE SignalingManagerProofs ------------------------
(***************************************************************************)
(* Proofs about SignalingManager, for any streams, requests and Nabto      *)
(* connections: as long as the application keeps its pointer until the     *)
(* listeners have stopped, no lambda touches a listener that is gone; when *)
(* a connection opens one stream at a time, tracks go to the one that is   *)
(* open; and only what arrived before start() ends the program.            *)
(*                                                                         *)
(* The first of the three rests on the me_ of the listeners: whatever is   *)
(* on the event queue of a listener, its me_ is there until the lambda runs*)
(* that drops it.                                                          *)
(***************************************************************************)
EXTENDS SignalingManager, WellFoundedInduction, TLAPS

ItemStates == [state : States, conn : Connections, early : BOOLEAN]

In(x, q) == \E j \in 1..Len(q) : x = q[j]

Once(q) == \A i, j \in 1..Len(q) : q[i] = q[j] => i = j

IsCallback(l) == "cb" \in DOMAIN l

Concerns(l, i) == IsCallback(l) /\ l.of = i

\* A lambda that calls a callback is that of an item that is queued, and the callback
\* is missing only in one that the listener took too early.
CallbackOK(l) ==
    /\ l.kind = KindOf(l.of) /\ item[l.of].state = "queued"
    /\ ~l.cb => item[l.of].early

\* One that stops a listener is the last that this listener posted.
StopOK(l) == lis[l.stopped].me /\ ~lis[l.stopped].armed

LambdaOK(l) == IF IsCallback(l) THEN CallbackOK(l) ELSE StopOK(l)

\* An item has one lambda, and a listener stops once.
OneEach(q) ==
    \A i, j \in 1..Len(q) :
        \/ IsCallback(q[i]) /\ IsCallback(q[j]) /\ q[i].of = q[j].of
        \/ ~IsCallback(q[i]) /\ ~IsCallback(q[j]) /\ q[i].stopped = q[j].stopped
        => i = j

ListenerOK(k) ==
    /\ lis[k].armed => lis[k].me /\ (lis[k].cb <=> app.started)
    /\ ~AppDrops /\ ~app.holds => ~lis[k].me

Listed == {"open", "closing", "gone"}

\* streams_ names the streams that were opened, each once.
StreamsOK ==
    /\ Once(streams)
    /\ \A j \in 1..Len(streams) : item[streams[j]].state \in Listed
    /\ \A s \in Streams : Living(s) => In(s, streams)

Absent == {"none", "gone", "refused"}

OneAtATime ==
    OneStream =>
        \A s, t \in Streams :
            s # t /\ item[s].conn = item[t].conn
                => item[s].state \in Absent \/ item[t].state \in Absent

\* What ends the program, and why.
CrashesAreExplained ==
    /\ crashed = "freed" => AppDrops
    /\ crashed = "thrown" => \E i \in Items : item[i].early

IInv ==
    /\ TypeOK
    /\ \A k \in Kinds : ListenerOK(k)
    /\ \A i \in 1..Len(queue) : LambdaOK(queue[i])
    /\ OneEach(queue)
    /\ StreamsOK
    /\ OneAtATime
    /\ OneStream => TracksGoToAnOpenStream
    /\ CrashesAreExplained

SafeSpec == Init /\ [][Next]_vars
-----------------------------------------------------------------------------
\* Sequences.

LEMMA AppendFacts ==
    ASSUME NEW S, NEW q \in Seq(S), NEW x \in S
    PROVE  /\ Append(q, x) \in Seq(S) /\ Len(Append(q, x)) = Len(q) + 1
           /\ Append(q, x)[Len(q) + 1] = x
           /\ \A i \in 1..Len(q) : i \in 1..Len(Append(q, x)) /\ Append(q, x)[i] = q[i]
           /\ \A i \in 1..Len(Append(q, x)) : i \in 1..Len(q) \/ i = Len(q) + 1
           /\ Len(q) + 1 \in 1..Len(Append(q, x))
OBVIOUS

LEMMA TailFacts ==
    ASSUME NEW S, NEW q \in Seq(S), q # <<>>
    PROVE  /\ Tail(q) \in Seq(S) /\ Len(Tail(q)) = Len(q) - 1 /\ Len(q) \in Nat \ {0}
           /\ 1 \in 1..Len(q) /\ Head(q) = q[1] /\ Head(q) \in S
           /\ \A i \in 1..Len(Tail(q)) :
                i + 1 \in 1..Len(q) /\ Tail(q)[i] = q[i + 1] /\ i + 1 # 1
<1>1. Len(q) \in Nat \ {0} /\ Tail(q) \in Seq(S) /\ Len(Tail(q)) = Len(q) - 1
  OBVIOUS
<1>2. 1 \in 1..Len(q) /\ Head(q) = q[1] /\ q[1] \in S
  OBVIOUS
<1> QED
  BY <1>1, <1>2

LEMMA InItself == \A q : \A i \in 1..Len(q) : In(q[i], q)
BY DEF In

\* The lambdas of Lambdas are of two kinds.
LEMMA LambdaTypes ==
    /\ \A l \in Lambdas :
        /\ IsCallback(l) => l.kind \in Kinds /\ l.of \in Items /\ l.cb \in BOOLEAN
        /\ ~IsCallback(l) => l.stopped \in Kinds /\ "stopped" \in DOMAIN l
        /\ IsCallback(l) => "stopped" \notin DOMAIN l
    /\ \A k \in Kinds, i \in Items, b \in BOOLEAN :
        /\ [kind |-> k, of |-> i, cb |-> b] \in Lambdas
        /\ IsCallback([kind |-> k, of |-> i, cb |-> b])
    /\ \A k \in Kinds : [stopped |-> k] \in Lambdas /\ ~IsCallback([stopped |-> k])
BY DEF Lambdas, IsCallback

\* A lambda is posted for an item or a listener that had none.
LEMMA PostKeeps ==
    ASSUME NEW q \in Seq(Lambdas), OneEach(q), NEW l \in Lambdas,
           \A j \in 1..Len(q) :
               IF IsCallback(l)
               THEN ~Concerns(q[j], l.of)
               ELSE IsCallback(q[j]) \/ q[j].stopped # l.stopped
    PROVE  /\ Append(q, l) \in Seq(Lambdas) /\ OneEach(Append(q, l))
           /\ \A j \in 1..Len(Append(q, l)) :
                Append(q, l)[j] = l \/ \E i \in 1..Len(q) : Append(q, l)[j] = q[i]
<1>1. /\ Append(q, l) \in Seq(Lambdas) /\ Len(Append(q, l)) = Len(q) + 1
      /\ Append(q, l)[Len(q) + 1] = l
      /\ \A i \in 1..Len(q) : i \in 1..Len(Append(q, l)) /\ Append(q, l)[i] = q[i]
      /\ \A i \in 1..Len(Append(q, l)) : i \in 1..Len(q) \/ i = Len(q) + 1
  BY AppendFacts
<1>2. OneEach(Append(q, l))
  BY <1>1 DEF OneEach, Concerns
<1> QED
  BY <1>1, <1>2

\* The lambda that runs is the only one of its item or listener.
LEMMA TakeKeeps ==
    ASSUME NEW q \in Seq(Lambdas), OneEach(q), q # <<>>
    PROVE  /\ Tail(q) \in Seq(Lambdas) /\ OneEach(Tail(q))
           /\ 1 \in 1..Len(q) /\ Head(q) = q[1] /\ Head(q) \in Lambdas
           /\ \A j \in 1..Len(Tail(q)) :
                /\ In(Tail(q)[j], q)
                /\ IF IsCallback(Head(q))
                   THEN ~Concerns(Tail(q)[j], Head(q).of)
                   ELSE IsCallback(Tail(q)[j]) \/ Tail(q)[j].stopped # Head(q).stopped
<1>1. /\ Tail(q) \in Seq(Lambdas)
      /\ 1 \in 1..Len(q) /\ Head(q) = q[1] /\ Head(q) \in Lambdas
      /\ \A i \in 1..Len(Tail(q)) :
            i + 1 \in 1..Len(q) /\ Tail(q)[i] = q[i + 1] /\ i + 1 # 1
  BY TailFacts
<1>2. OneEach(Tail(q))
  <2> SUFFICES ASSUME NEW i \in 1..Len(Tail(q)), NEW j \in 1..Len(Tail(q)),
                      LET s == Tail(q)
                      IN  \/ IsCallback(s[i]) /\ IsCallback(s[j]) /\ s[i].of = s[j].of
                          \/ /\ ~IsCallback(s[i]) /\ ~IsCallback(s[j])
                             /\ s[i].stopped = s[j].stopped
               PROVE  i = j
    BY DEF OneEach
  <2>1. i + 1 = j + 1
    BY <1>1 DEF OneEach
  <2> QED
    BY <2>1
<1>3. ASSUME NEW j \in 1..Len(Tail(q))
      PROVE  /\ In(Tail(q)[j], q)
             /\ IF IsCallback(Head(q))
                THEN ~Concerns(Tail(q)[j], Head(q).of)
                ELSE IsCallback(Tail(q)[j]) \/ Tail(q)[j].stopped # Head(q).stopped
  <2>1. j + 1 \in 1..Len(q) /\ Tail(q)[j] = q[j + 1] /\ j + 1 # 1
    BY <1>1
  <2>2. In(Tail(q)[j], q)
    BY <2>1 DEF In
  <2> QED
    BY <1>1, <2>1, <2>2 DEF OneEach, Concerns
<1> QED
  BY <1>1, <1>2, <1>3
-----------------------------------------------------------------------------
LEMMA InitIInv == Init => IInv
<1> SUFFICES ASSUME Init PROVE IInv
  OBVIOUS
<1>1. /\ item \in [Items -> [state : {"none"}, conn : Connections, early : {FALSE}]]
      /\ streams = <<>> /\ queue = <<>> /\ added = <<>> /\ crashed = "no" /\ app.holds
      /\ \A k \in Kinds : lis[k].me /\ ~lis[k].cb
      /\ ~app.started
      /\ app \in [started : BOOLEAN, holds : BOOLEAN, access : BOOLEAN, running : BOOLEAN]
      /\ lis \in [Kinds -> [armed : BOOLEAN, cb : BOOLEAN, me : BOOLEAN]]
  BY DEF Init
<1>2. \A i \in Items : item[i].state = "none" /\ item[i] \in ItemStates
  BY <1>1 DEF ItemStates, States
<1>3. item \in [Items -> ItemStates]
  BY <1>1, <1>2
<1>4. /\ streams \in Seq(Streams) /\ queue \in Seq(Lambdas)
      /\ added \in Seq([conn : Connections, to : Streams \cup {None}, open : SUBSET Streams])
      /\ Len(streams) = 0 /\ Len(queue) = 0 /\ Len(added) = 0
  BY <1>1
<1>5. TypeOK
  BY <1>1, <1>3, <1>4 DEF TypeOK, ItemStates
<1>6. \A s \in Streams : item[s].state = "none"
  BY <1>2 DEF Items
<1>7. StreamsOK /\ OneAtATime
  BY <1>4, <1>6 DEF StreamsOK, OneAtATime, Once, Living, Absent
<1>8. TracksGoToAnOpenStream
  BY <1>4, <1>5 DEF TracksGoToAnOpenStream
<1>9. OneEach(queue) /\ \A i \in 1..Len(queue) : LambdaOK(queue[i])
  BY <1>4 DEF OneEach
<1>10. CrashesAreExplained
  BY <1>1 DEF CrashesAreExplained
<1>11. \A k \in Kinds : ListenerOK(k)
  BY <1>1 DEF ListenerOK
<1> QED
  BY <1>5, <1>7, <1>8, <1>9, <1>10, <1>11 DEF IInv

\* The state of one item changes.
LEMMA ItemKeeps ==
    ASSUME IInv, NEW i \in Items, NEW c \in ItemStates, item' = [item EXCEPT ![i] = c],
           c.conn = item[i].conn, UNCHANGED <<app, lis, added>>, crashed' = "no",
           queue' \in Seq(Lambdas), OneEach(queue'),
           \A j \in 1..Len(queue') :
               \/ In(queue'[j], queue) /\ ~Concerns(queue'[j], i)
               \/ /\ IsCallback(queue'[j]) /\ queue'[j].of = i /\ queue'[j].kind = KindOf(i)
                  /\ c.state = "queued" /\ (~queue'[j].cb => c.early),
           streams' \in Seq(Streams), Once(streams'),
           \A j \in 1..Len(streams') :
               \/ streams'[j] = i /\ c.state \in Listed
               \/ streams'[j] # i /\ In(streams'[j], streams),
           \A s \in Streams : In(s, streams) => In(s, streams'),
           i \in Streams /\ c.state \in {"open", "closing"} => In(i, streams'),
           OneStream /\ i \in Streams =>
               \/ c.state \in Absent
               \/ \A s \in Streams : s # i /\ item[s].conn = item[i].conn
                                        => item[s].state \in Absent
    PROVE  IInv'
<1>1. /\ item' \in [Items -> ItemStates]
      /\ \A e \in Items : item'[e] = IF e = i THEN c ELSE item[e]
  BY DEF IInv, TypeOK, ItemStates
<1>2. TypeOK'
  BY <1>1 DEF IInv, TypeOK, ItemStates
<1>3. \A k \in Kinds : ListenerOK(k)'
  BY DEF IInv, ListenerOK
<1>4. ASSUME NEW j \in 1..Len(queue') PROVE LambdaOK(queue[j])'
  <2>1. queue'[j] \in Lambdas
    OBVIOUS
  <2>2. CASE In(queue'[j], queue) /\ ~Concerns(queue'[j], i)
    <3>1. LambdaOK(queue'[j])
      BY <2>2 DEF IInv, In
    <3>2. IsCallback(queue'[j]) => queue'[j].of \in Items /\ queue'[j].of # i
      BY <2>1, <2>2, LambdaTypes DEF Concerns
    <3> QED
      BY <1>1, <3>1, <3>2 DEF LambdaOK, CallbackOK, StopOK
  <2>3. CASE ~(In(queue'[j], queue) /\ ~Concerns(queue'[j], i))
    BY <1>1, <2>3 DEF LambdaOK, CallbackOK
  <2> QED
    BY <2>2, <2>3
<1>5. StreamsOK'
  <2>1. ASSUME NEW j \in 1..Len(streams') PROVE item'[streams'[j]].state \in Listed
    <3>1. streams'[j] \in Items
      BY DEF Items
    <3>2. CASE streams'[j] = i
      BY <1>1, <3>1, <3>2
    <3>3. CASE streams'[j] # i
      <4>1. item[streams'[j]].state \in Listed
        BY <3>3 DEF IInv, StreamsOK, In
      <4> QED
        BY <1>1, <3>1, <3>3, <4>1
    <3> QED
      BY <3>2, <3>3
  <2>2. ASSUME NEW s \in Streams, Living(s)' PROVE In(s, streams')
    <3>1. s \in Items
      BY DEF Items
    <3>2. CASE s = i
      BY <1>1, <2>2, <3>1, <3>2 DEF Living
    <3>3. CASE s # i
      BY <1>1, <2>2, <3>1, <3>3 DEF Living, IInv, StreamsOK
    <3> QED
      BY <3>2, <3>3
  <2>3. \A s \in Streams : Living(s)' => In(s, streams)'
    BY <2>2 DEF In
  <2>4. Once(streams)'
    BY DEF Once
  <2> QED
    BY <2>1, <2>3, <2>4 DEF StreamsOK
<1>6. OneAtATime'
  <2> SUFFICES ASSUME OneStream, NEW s \in Streams, NEW t \in Streams, s # t,
                      item'[s].conn = item'[t].conn
               PROVE  item'[s].state \in Absent \/ item'[t].state \in Absent
    BY DEF OneAtATime
  <2>1. s \in Items /\ t \in Items
    BY DEF Items
  <2>2. item[s].conn = item[t].conn
    BY <1>1, <2>1
  <2>3. item[s].state \in Absent \/ item[t].state \in Absent
    BY <2>2 DEF IInv, OneAtATime
  <2> QED
    BY <1>1, <2>1, <2>2, <2>3
<1>7. OneStream => TracksGoToAnOpenStream'
  BY <1>2 DEF IInv, TracksGoToAnOpenStream
<1>8. CrashesAreExplained'
  BY DEF CrashesAreExplained
<1>9. OneEach(queue)'
  BY DEF OneEach
<1> QED
  BY <1>2, <1>3, <1>4, <1>5, <1>6, <1>7, <1>8, <1>9 DEF IInv

\* An item changes, and neither the event queue nor streams_ does.
LEMMA ItemAloneKeeps ==
    ASSUME IInv, NEW i \in Items, NEW c \in ItemStates, item' = [item EXCEPT ![i] = c],
           c.conn = item[i].conn, UNCHANGED <<app, lis, added, queue, streams>>,
           crashed' = "no", item[i].state # "queued",
           item[i].state \in Listed => c.state \in Listed,
           i \in Streams /\ c.state \in {"open", "closing"} => Living(i),
           OneStream /\ i \in Streams =>
               \/ c.state \in Absent
               \/ \A s \in Streams : s # i /\ item[s].conn = item[i].conn
                                        => item[s].state \in Absent
    PROVE  IInv'
<1>1. queue \in Seq(Lambdas) /\ OneEach(queue) /\ streams \in Seq(Streams) /\ Once(streams)
  BY DEF IInv, TypeOK, StreamsOK
<1>2. \A j \in 1..Len(queue) : In(queue[j], queue) /\ ~Concerns(queue[j], i)
  BY InItself DEF IInv, LambdaOK, CallbackOK, Concerns
<1>3. \A j \in 1..Len(streams) :
        \/ streams[j] = i /\ c.state \in Listed
        \/ streams[j] # i /\ In(streams[j], streams)
  BY InItself DEF IInv, StreamsOK
<1>4. i \in Streams /\ c.state \in {"open", "closing"} => In(i, streams)
  BY DEF IInv, StreamsOK
<1>5. queue' = queue /\ streams' = streams
  OBVIOUS
<1>6. /\ queue' \in Seq(Lambdas) /\ OneEach(queue') /\ streams' \in Seq(Streams)
      /\ Once(streams')
      /\ \A j \in 1..Len(queue') : In(queue'[j], queue) /\ ~Concerns(queue'[j], i)
      /\ \A j \in 1..Len(streams') :
            \/ streams'[j] = i /\ c.state \in Listed
            \/ streams'[j] # i /\ In(streams'[j], streams)
      /\ \A s \in Streams : In(s, streams) => In(s, streams')
      /\ i \in Streams /\ c.state \in {"open", "closing"} => In(i, streams')
  BY <1>1, <1>2, <1>3, <1>4, <1>5
<1> QED
  BY <1>6, ItemKeeps
-----------------------------------------------------------------------------
\* The clients.

LEMMA ArrivesKeeps ==
    ASSUME IInv, crashed = "no", NEW i \in Items, Arrives(i)
    PROVE  IInv'
<1> DEFINE c == [item[i] EXCEPT !.state = "arrived"]
<1>1. /\ item[i].state = "none" /\ item' = [item EXCEPT ![i] = c]
      /\ UNCHANGED <<app, lis, streams, queue, added>> /\ crashed' = "no"
  BY DEF Arrives
<1>2. item[i] \in ItemStates
  BY DEF IInv, TypeOK, ItemStates
<1>3. c \in ItemStates /\ c.conn = item[i].conn /\ c.state = "arrived"
  BY <1>2 DEF ItemStates, States
<1>4. OneStream /\ i \in Streams =>
        \A s \in Streams : item[s].conn = item[i].conn => item[s].state \in Absent
  BY DEF Arrives, Absent
<1> HIDE DEF c
<1> QED
  BY <1>1, <1>3, <1>4, ItemAloneKeeps DEF Listed

LEMMA StreamEndsKeeps ==
    ASSUME IInv, crashed = "no", NEW s \in Streams, StreamCloses(s) \/ StreamFreed(s)
    PROVE  IInv'
<1>1. PICK state \in {"closing", "gone"} :
        /\ item' = [item EXCEPT ![s] = [item[s] EXCEPT !.state = state]]
        /\ item[s].state \in {"open", "closing"}
  BY DEF StreamCloses, StreamFreed
<1> DEFINE c == [item[s] EXCEPT !.state = state]
<1>2. UNCHANGED <<app, lis, streams, queue, added>> /\ crashed' = "no" /\ s \in Items
  BY DEF StreamCloses, StreamFreed, Items
<1>3. item[s] \in ItemStates
  BY <1>2 DEF IInv, TypeOK, ItemStates
<1>4. c \in ItemStates /\ c.conn = item[s].conn /\ c.state = state
  BY <1>3 DEF ItemStates, States
<1>5. OneStream =>
        \A t \in Streams : t # s /\ item[t].conn = item[s].conn => item[t].state \in Absent
  BY <1>1 DEF IInv, OneAtATime, Absent
<1>6. Living(s)
  BY <1>1 DEF Living
<1> HIDE DEF c
<1> QED
  BY <1>1, <1>2, <1>4, <1>5, <1>6, ItemAloneKeeps DEF Listed, c
-----------------------------------------------------------------------------
\* The thread of the SDK.

LEMMA NewItemKeeps ==
    ASSUME IInv, crashed = "no", NEW i \in Items, NewItem(i)
    PROVE  IInv'
<1> DEFINE k == KindOf(i)
<1> DEFINE c == [item[i] EXCEPT !.state = "queued", !.early = ~app.started]
<1> DEFINE l == [kind |-> k, of |-> i, cb |-> lis[k].cb]
<1>1. /\ lis[k].armed /\ item[i].state = "arrived" /\ item' = [item EXCEPT ![i] = c]
      /\ queue' = Append(queue, l) /\ lis' = [lis EXCEPT ![k] = lis[k]]
      /\ UNCHANGED <<app, streams, added>> /\ crashed' = "no"
  BY DEF NewItem, Rearmed
<1>2. k \in Kinds
  BY DEF KindOf, Kinds
<1>3. /\ item[i] \in ItemStates /\ queue \in Seq(Lambdas) /\ OneEach(queue)
      /\ lis \in [Kinds -> [armed : BOOLEAN, cb : BOOLEAN, me : BOOLEAN]]
      /\ app.started \in BOOLEAN /\ streams \in Seq(Streams) /\ Once(streams)
  BY DEF IInv, TypeOK, StreamsOK, ItemStates
<1>4. lis' = lis /\ lis[k].cb \in BOOLEAN
  BY <1>1, <1>2, <1>3
<1>5. /\ c \in ItemStates /\ c.conn = item[i].conn /\ c.state = "queued"
      /\ c.early = ~app.started
  BY <1>3 DEF ItemStates, States
<1>6. /\ l \in Lambdas /\ IsCallback(l) /\ l.of = i /\ l.kind = k /\ l.cb = lis[k].cb
  BY <1>2, <1>4, LambdaTypes
<1>7. lis[k].cb <=> app.started
  BY <1>1, <1>2 DEF IInv, ListenerOK
<1> HIDE DEF c, l, k
<1>8. \A j \in 1..Len(queue) : In(queue[j], queue) /\ ~Concerns(queue[j], i)
  BY <1>1, InItself DEF IInv, LambdaOK, CallbackOK, Concerns
<1>9. /\ queue' \in Seq(Lambdas) /\ OneEach(queue')
      /\ \A j \in 1..Len(queue') :
            queue'[j] = l \/ \E h \in 1..Len(queue) : queue'[j] = queue[h]
  BY <1>1, <1>3, <1>6, <1>8, PostKeeps
<1>10. \A j \in 1..Len(queue') :
        \/ In(queue'[j], queue) /\ ~Concerns(queue'[j], i)
        \/ /\ IsCallback(queue'[j]) /\ queue'[j].of = i /\ queue'[j].kind = KindOf(i)
           /\ c.state = "queued" /\ (~queue'[j].cb => c.early)
  BY <1>5, <1>6, <1>7, <1>8, <1>9 DEF k
<1>11. /\ streams' \in Seq(Streams) /\ Once(streams')
       /\ \A j \in 1..Len(streams') : streams'[j] # i /\ In(streams'[j], streams)
       /\ \A s \in Streams : In(s, streams) => In(s, streams')
  <2>1. \A j \in 1..Len(streams) : streams[j] # i /\ In(streams[j], streams)
    BY <1>1, InItself DEF IInv, StreamsOK, Listed
  <2> QED
    BY <1>1, <1>3, <2>1
<1>12. OneStream /\ i \in Streams =>
        \A s \in Streams : s # i /\ item[s].conn = item[i].conn => item[s].state \in Absent
  BY <1>1 DEF IInv, OneAtATime, Absent
<1> QED
  BY <1>1, <1>4, <1>5, <1>9, <1>10, <1>11, <1>12, ItemKeeps

\* Nothing changes but a listener and what is on the event queue.
LEMMA ListenerKeeps ==
    ASSUME IInv, NEW k \in Kinds, NEW c \in [armed : BOOLEAN, cb : BOOLEAN, me : BOOLEAN],
           lis' = [lis EXCEPT ![k] = c], ~c.armed,
           ~AppDrops /\ ~app.holds => ~c.me,
           UNCHANGED <<app, item, streams, added>>,
           crashed' \in {"no", "freed"}, crashed' = "freed" => AppDrops,
           queue' \in Seq(Lambdas), OneEach(queue'),
           \A j \in 1..Len(queue') :
               \/ In(queue'[j], queue) /\ (IsCallback(queue'[j]) \/ queue'[j].stopped # k)
               \/ ~IsCallback(queue'[j]) /\ queue'[j].stopped = k /\ c.me
    PROVE  IInv'
<1>1. /\ lis' \in [Kinds -> [armed : BOOLEAN, cb : BOOLEAN, me : BOOLEAN]]
      /\ \A h \in Kinds : lis'[h] = IF h = k THEN c ELSE lis[h]
  BY DEF IInv, TypeOK
<1>2. TypeOK'
  BY <1>1 DEF IInv, TypeOK
<1>3. \A h \in Kinds : ListenerOK(h)'
  BY <1>1 DEF IInv, ListenerOK
<1>4. ASSUME NEW j \in 1..Len(queue') PROVE LambdaOK(queue[j])'
  <2>1. queue'[j] \in Lambdas
    OBVIOUS
  <2>2. CASE In(queue'[j], queue) /\ (IsCallback(queue'[j]) \/ queue'[j].stopped # k)
    <3>1. LambdaOK(queue'[j])
      BY <2>2 DEF IInv, In
    <3>2. ~IsCallback(queue'[j]) => queue'[j].stopped \in Kinds
      BY <2>1, LambdaTypes
    <3> QED
      BY <1>1, <2>2, <3>1, <3>2 DEF LambdaOK, CallbackOK, StopOK
  <2>3. CASE ~IsCallback(queue'[j]) /\ queue'[j].stopped = k /\ c.me
    BY <1>1, <2>3 DEF LambdaOK, StopOK
  <2> QED
    BY <2>2, <2>3
<1>5. StreamsOK' /\ OneAtATime' /\ (OneStream => TracksGoToAnOpenStream')
  BY <1>2 DEF IInv, StreamsOK, OneAtATime, TracksGoToAnOpenStream, Once, In, Living
<1>6. CrashesAreExplained' /\ OneEach(queue)'
  BY DEF CrashesAreExplained, OneEach
<1> QED
  BY <1>2, <1>3, <1>4, <1>5, <1>6 DEF IInv

LEMMA ListenFailsKeeps ==
    ASSUME IInv, crashed = "no", NEW k \in Kinds, ListenFails(k)
    PROVE  IInv'
<1> DEFINE c == [lis[k] EXCEPT !.armed = FALSE]
<1> DEFINE l == [stopped |-> k]
<1>1. /\ lis[k].armed /\ lis' = [lis EXCEPT ![k] = c] /\ queue' = Append(queue, l)
      /\ UNCHANGED <<app, item, streams, added>> /\ crashed' = "no"
  BY DEF ListenFails
<1>2. lis[k] \in [armed : BOOLEAN, cb : BOOLEAN, me : BOOLEAN]
      /\ queue \in Seq(Lambdas) /\ OneEach(queue)
  BY DEF IInv, TypeOK
<1>3. /\ c \in [armed : BOOLEAN, cb : BOOLEAN, me : BOOLEAN]
      /\ ~c.armed /\ c.me = lis[k].me
  BY <1>2
<1>4. l \in Lambdas /\ ~IsCallback(l) /\ l.stopped = k
  BY LambdaTypes
<1> HIDE DEF c, l
<1>5. \A j \in 1..Len(queue) : IsCallback(queue[j]) \/ queue[j].stopped # k
  BY <1>1 DEF IInv, LambdaOK, StopOK
<1>6. lis[k].me /\ (AppDrops \/ app.holds)
  BY <1>1 DEF IInv, ListenerOK
<1>7. /\ queue' \in Seq(Lambdas) /\ OneEach(queue')
      /\ \A j \in 1..Len(queue') :
            queue'[j] = l \/ \E h \in 1..Len(queue) : queue'[j] = queue[h]
  BY <1>1, <1>2, <1>4, <1>5, PostKeeps
<1>8. \A j \in 1..Len(queue') :
        \/ In(queue'[j], queue) /\ (IsCallback(queue'[j]) \/ queue'[j].stopped # k)
        \/ ~IsCallback(queue'[j]) /\ queue'[j].stopped = k /\ c.me
  BY <1>3, <1>4, <1>5, <1>6, <1>7 DEF In
<1> QED
  BY <1>1, <1>3, <1>6, <1>7, <1>8, ListenerKeeps
-----------------------------------------------------------------------------
\* The event queue.

\* While a listener has its me_, the application has its pointer, and so the manager
\* is held when the listener's last lambda runs.
LEMMA RunStoppedKeeps == IInv /\ crashed = "no" /\ RunStopped => IInv'
<1> SUFFICES ASSUME IInv, crashed = "no", RunStopped PROVE IInv'
  OBVIOUS
<1> DEFINE h == Head(queue)
<1> DEFINE k == h.stopped
<1> DEFINE c == [lis[k] EXCEPT !.me = FALSE, !.cb = FALSE]
<1>1. /\ queue # <<>> /\ "stopped" \in DOMAIN h /\ queue' = Tail(queue)
      /\ lis' = [lis EXCEPT ![k] = c] /\ UNCHANGED <<app, item, streams, added>>
  BY DEF RunStopped, Stopped
<1>2. queue \in Seq(Lambdas) /\ OneEach(queue)
  BY DEF IInv, TypeOK
<1>3. /\ queue' \in Seq(Lambdas) /\ OneEach(queue')
      /\ 1 \in 1..Len(queue) /\ h = queue[1] /\ h \in Lambdas
      /\ \A j \in 1..Len(queue') :
           /\ In(queue'[j], queue)
           /\ IF IsCallback(h)
              THEN ~Concerns(queue'[j], h.of)
              ELSE IsCallback(queue'[j]) \/ queue'[j].stopped # h.stopped
  BY <1>1, <1>2, TakeKeeps
<1>4. ~IsCallback(h) /\ k \in Kinds
  BY <1>1, <1>3, LambdaTypes
<1>5. lis[k] \in [armed : BOOLEAN, cb : BOOLEAN, me : BOOLEAN] /\ lis[k].me /\ ~lis[k].armed
  BY <1>3, <1>4 DEF IInv, TypeOK, LambdaOK, StopOK
<1>6. c \in [armed : BOOLEAN, cb : BOOLEAN, me : BOOLEAN] /\ ~c.armed /\ ~c.me
  BY <1>5
<1>7. AppDrops \/ app.holds
  BY <1>4, <1>5 DEF IInv, ListenerOK
<1>8. crashed' \in {"no", "freed"} /\ (crashed' = "freed" => AppDrops)
  BY <1>7 DEF RunStopped, HeldWith
<1>9. \A j \in 1..Len(queue') :
        In(queue'[j], queue) /\ (IsCallback(queue'[j]) \/ queue'[j].stopped # k)
  BY <1>3, <1>4
<1> HIDE DEF c, k, h
<1> QED
  BY <1>1, <1>3, <1>4, <1>6, <1>8, <1>9, ListenerKeeps

\* The callback of a lambda that was posted with one.
LEMMA CallbackRuns ==
    ASSUME IInv, crashed = "no", crashed' = "no", UNCHANGED <<app, lis, added>>,
           queue # <<>>, queue' = Tail(queue), NEW i \in Items, IsCallback(Head(queue)),
           Head(queue).of = i,
           IF Head(queue).kind = "stream" THEN StreamCallback(i) ELSE CoapCallback(i)
    PROVE  IInv'
<1> DEFINE h == Head(queue)
<1>1. queue \in Seq(Lambdas) /\ OneEach(queue) /\ streams \in Seq(Streams) /\ Once(streams)
  BY DEF IInv, TypeOK, StreamsOK
<1>2. /\ queue' \in Seq(Lambdas) /\ OneEach(queue')
      /\ 1 \in 1..Len(queue) /\ h = queue[1]
      /\ \A j \in 1..Len(queue') : In(queue'[j], queue) /\ ~Concerns(queue'[j], i)
  BY <1>1, TakeKeeps
<1>3. item[i].state = "queued" /\ h.kind = KindOf(i)
  BY <1>2 DEF IInv, LambdaOK, CallbackOK
<1>4. item[i] \in ItemStates
  BY DEF IInv, TypeOK, ItemStates
<1>5. \A j \in 1..Len(streams) : streams[j] # i /\ In(streams[j], streams)
  BY <1>3, InItself DEF IInv, StreamsOK, Listed
<1>6. OneStream /\ i \in Streams =>
        \A s \in Streams : s # i /\ item[s].conn = item[i].conn => item[s].state \in Absent
  BY <1>3 DEF IInv, OneAtATime, Absent
<1>7. CASE h.kind = "stream" /\ streams' = Append(streams, i)
  <2> DEFINE c == [item[i] EXCEPT !.state = "open"]
  <2>1. i \in Streams
    BY <1>3, <1>7 DEF KindOf
  <2>2. item' = [item EXCEPT ![i] = c]
    <3>1. Len(Append(streams, i)) = Len(streams) + 1 /\ Len(streams) \in Nat
      BY <1>1, <2>1, AppendFacts
    <3> QED
      BY <1>7, <3>1 DEF StreamCallback
  <2>3. c \in ItemStates /\ c.conn = item[i].conn /\ c.state = "open"
    BY <1>4 DEF ItemStates, States
  <2> HIDE DEF c
  <2>4. /\ streams' \in Seq(Streams) /\ Len(streams) + 1 \in 1..Len(streams')
        /\ streams'[Len(streams) + 1] = i
        /\ \A j \in 1..Len(streams) : j \in 1..Len(streams') /\ streams'[j] = streams[j]
        /\ \A j \in 1..Len(streams') : j \in 1..Len(streams) \/ j = Len(streams) + 1
    BY <1>1, <1>7, <2>1, AppendFacts
  <2>5. Once(streams')
    BY <1>1, <1>5, <2>4 DEF Once
  <2>6. /\ \A j \in 1..Len(streams') :
             streams'[j] = i \/ In(streams'[j], streams)
        /\ \A s \in Streams : In(s, streams) => In(s, streams')
        /\ In(i, streams')
    <3>1. \A s \in Streams : In(s, streams) => In(s, streams')
      BY <2>4 DEF In
    <3>2. In(i, streams')
      BY <2>4 DEF In
    <3>3. \A j \in 1..Len(streams') :
            streams'[j] = i \/ In(streams'[j], streams)
      BY <1>5, <2>4
    <3> QED
      BY <3>1, <3>2, <3>3
  <2> QED
    BY <1>2, <1>6, <2>2, <2>3, <2>4, <2>5, <2>6, ItemKeeps DEF Listed
<1>8. CASE streams' = streams
  <2>1. PICK state \in {"refused", "answered"} :
          /\ item' = [item EXCEPT ![i] = [item[i] EXCEPT !.state = state]]
    <3>1. streams # Append(streams, i)
      BY <1>1 DEF StreamCallback
    <3> QED
      BY <1>8, <3>1 DEF StreamCallback, CoapCallback
  <2> DEFINE c == [item[i] EXCEPT !.state = state]
  <2>2. c \in ItemStates /\ c.conn = item[i].conn /\ c.state = state
    BY <1>4 DEF ItemStates, States
  <2>3. item' = [item EXCEPT ![i] = c]
    BY <2>1
  <2> HIDE DEF c
  <2>4. /\ streams' \in Seq(Streams) /\ Once(streams')
        /\ \A j \in 1..Len(streams') : streams'[j] # i /\ In(streams'[j], streams)
        /\ \A s \in Streams : In(s, streams) => In(s, streams')
    BY <1>1, <1>5, <1>8
  <2>5. c.state \notin {"open", "closing"}
    BY <2>2
  <2> QED
    BY <1>2, <1>6, <2>2, <2>3, <2>4, <2>5, ItemKeeps
<1> QED
  BY <1>7, <1>8 DEF StreamCallback, CoapCallback

\* An empty callback ends the program: its item was taken too early.
LEMMA RunCallbackKeeps == IInv /\ crashed = "no" /\ RunCallback => IInv'
<1> SUFFICES ASSUME IInv, crashed = "no", RunCallback PROVE IInv'
  OBVIOUS
<1> DEFINE h == Head(queue)
<1>1. /\ queue # <<>> /\ IsCallback(h) /\ queue' = Tail(queue) /\ UNCHANGED <<app, lis, added>>
  BY DEF RunCallback, IsCallback
<1>2. queue \in Seq(Lambdas) /\ OneEach(queue)
  BY DEF IInv, TypeOK
<1>3. /\ queue' \in Seq(Lambdas) /\ OneEach(queue')
      /\ 1 \in 1..Len(queue) /\ h = queue[1] /\ h \in Lambdas
      /\ \A j \in 1..Len(queue') : In(queue'[j], queue)
  BY <1>1, <1>2, TakeKeeps
<1>4. h.of \in Items /\ h.cb \in BOOLEAN
  BY <1>1, <1>3, LambdaTypes
<1>5. CASE h.cb
  <2>1. /\ crashed' = "no"
        /\ IF h.kind = "stream" THEN StreamCallback(h.of) ELSE CoapCallback(h.of)
    BY <1>5 DEF RunCallback
  <2> QED
    BY <1>1, <1>4, <2>1, CallbackRuns
<1>6. CASE ~h.cb
  <2>1. crashed' = "thrown" /\ UNCHANGED <<app, lis, added, item, streams>>
    BY <1>1, <1>6 DEF RunCallback
  <2>2. item[h.of].early
    BY <1>1, <1>3, <1>6 DEF IInv, LambdaOK, CallbackOK
  <2>3. CrashesAreExplained'
    BY <1>4, <2>1, <2>2 DEF CrashesAreExplained
  <2>4. TypeOK'
    BY <1>3, <2>1 DEF IInv, TypeOK
  <2>5. \A j \in 1..Len(queue') : LambdaOK(queue[j])'
    <3> TAKE j \in 1..Len(queue')
    <3>1. LambdaOK(queue'[j])
      BY <1>3 DEF IInv, In
    <3> QED
      BY <2>1, <3>1 DEF LambdaOK, CallbackOK, StopOK
  <2>6. StreamsOK' /\ OneAtATime' /\ (OneStream => TracksGoToAnOpenStream')
        /\ \A k \in Kinds : ListenerOK(k)'
    BY <2>1, <2>4 DEF IInv, StreamsOK, OneAtATime, TracksGoToAnOpenStream, Once, In, Living,
                      ListenerOK
  <2>7. OneEach(queue)'
    BY <1>3 DEF OneEach
  <2> QED
    BY <2>3, <2>4, <2>5, <2>6, <2>7 DEF IInv
<1> QED
  BY <1>4, <1>5, <1>6
-----------------------------------------------------------------------------
\* The application.

LEMMA StartKeeps == IInv /\ crashed = "no" /\ Start => IInv'
<1> SUFFICES ASSUME IInv, crashed = "no", Start PROVE IInv'
  OBVIOUS
<1>1. /\ app' = [app EXCEPT !.started = TRUE]
      /\ lis' = [k \in Kinds |-> [lis[k] EXCEPT !.cb = TRUE]]
      /\ UNCHANGED <<item, streams, queue, added>> /\ crashed' = "no"
      /\ app \in [started : BOOLEAN, holds : BOOLEAN, access : BOOLEAN, running : BOOLEAN]
      /\ lis \in [Kinds -> [armed : BOOLEAN, cb : BOOLEAN, me : BOOLEAN]]
  BY DEF Start, IInv, TypeOK
<1>2. /\ app' \in [started : BOOLEAN, holds : BOOLEAN, access : BOOLEAN, running : BOOLEAN]
      /\ app'.started /\ app'.holds = app.holds
  BY <1>1
<1>3. \A k \in Kinds :
        /\ lis'[k] \in [armed : BOOLEAN, cb : BOOLEAN, me : BOOLEAN]
        /\ lis'[k].cb /\ lis'[k].me = lis[k].me /\ lis'[k].armed = lis[k].armed
  BY <1>1
<1>4. lis' \in [Kinds -> [armed : BOOLEAN, cb : BOOLEAN, me : BOOLEAN]]
  BY <1>1, <1>3
<1>5. TypeOK'
  BY <1>1, <1>2, <1>4 DEF IInv, TypeOK
<1>6. \A k \in Kinds : ListenerOK(k)'
  BY <1>2, <1>3 DEF IInv, ListenerOK
<1>7. \A j \in 1..Len(queue') : LambdaOK(queue[j])'
  <2> TAKE j \in 1..Len(queue')
  <2>1. LambdaOK(queue[j]) /\ queue'[j] = queue[j]
    BY <1>1 DEF IInv
  <2>2. ~IsCallback(queue[j]) => queue[j].stopped \in Kinds
    <3>1. queue[j] \in Lambdas
      BY <1>1 DEF IInv, TypeOK
    <3> QED
      BY <3>1, LambdaTypes
  <2> QED
    BY <1>1, <1>3, <2>1, <2>2 DEF LambdaOK, CallbackOK, StopOK
<1>8. /\ StreamsOK' /\ OneAtATime' /\ (OneStream => TracksGoToAnOpenStream')
      /\ OneEach(queue)' /\ CrashesAreExplained'
  BY <1>1, <1>5 DEF IInv, StreamsOK, OneAtATime, TracksGoToAnOpenStream, Once, In, Living,
                    OneEach, CrashesAreExplained
<1> QED
  BY <1>5, <1>6, <1>7, <1>8 DEF IInv

\* The application sets its callback, stops the device, or drops its pointer.
LEMMA ApplicationKeeps ==
    IInv /\ crashed = "no" /\ (SetCheckAccessCallback \/ DeviceStop \/ Drop) => IInv'
<1> SUFFICES ASSUME IInv, crashed = "no", SetCheckAccessCallback \/ DeviceStop \/ Drop
             PROVE  IInv'
  OBVIOUS
<1>1. /\ app \in [started : BOOLEAN, holds : BOOLEAN, access : BOOLEAN, running : BOOLEAN]
      /\ UNCHANGED <<lis, item, streams, queue, added>> /\ crashed' = "no"
  BY DEF SetCheckAccessCallback, DeviceStop, Drop, IInv, TypeOK
<1>2. /\ app' \in [started : BOOLEAN, holds : BOOLEAN, access : BOOLEAN, running : BOOLEAN]
      /\ app'.started = app.started
      /\ app'.holds = app.holds \/ AppDrops \/ \A k \in Kinds : ~lis[k].me
  BY <1>1 DEF SetCheckAccessCallback, DeviceStop, Drop
<1>3. TypeOK'
  BY <1>1, <1>2 DEF IInv, TypeOK
<1>4. \A k \in Kinds : ListenerOK(k)'
  BY <1>1, <1>2 DEF IInv, ListenerOK
<1>5. \A j \in 1..Len(queue') : LambdaOK(queue[j])'
  BY <1>1 DEF IInv, LambdaOK, CallbackOK, StopOK
<1>6. /\ StreamsOK' /\ OneAtATime' /\ (OneStream => TracksGoToAnOpenStream')
      /\ OneEach(queue)' /\ CrashesAreExplained'
  BY <1>1, <1>3 DEF IInv, StreamsOK, OneAtATime, TracksGoToAnOpenStream, Once, In, Living,
                    OneEach, CrashesAreExplained
<1> QED
  BY <1>3, <1>4, <1>5, <1>6 DEF IInv

\* A set of numbers has a least one.
LEMMA MinExists ==
    ASSUME NEW T \in SUBSET Nat, T # {}
    PROVE  \E x \in T : \A y \in T : x <= y
<1>1. \E x \in T : \A y \in T : ~(<<y, x>> \in OpToRel(<, Nat))
  BY NatLessThanWellFounded, WFMin, Zenon
<1>2. PICK x \in T : \A y \in T : ~(<<y, x>> \in OpToRel(<, Nat))
  BY <1>1, Zenon
<1>3. \A y \in T : ~(y < x)
  BY <1>2 DEF OpToRel
<1> QED
  BY <1>3

\* The open stream of a connection is the first living one that streams_ names: it is
\* there, once, and it is the only one that lives.
LEMMA FirstIsOpen ==
    ASSUME IInv, OneStream, NEW conn \in Connections, NEW s \in Streams,
           item[s].state = "open", item[s].conn = conn
    PROVE  FirstOf(conn) = s
<1> DEFINE of == {i \in 1..Len(streams) : Living(streams[i]) /\ item[streams[i]].conn = conn}
<1>1. streams \in Seq(Streams) /\ Once(streams)
  BY DEF IInv, TypeOK, StreamsOK
<1>2. PICK i \in 1..Len(streams) : s = streams[i]
  BY DEF IInv, StreamsOK, Living, In
<1>3. i \in of
  BY <1>2 DEF Living
<1>4. ASSUME NEW j \in of PROVE j = i
  <2>1. j \in 1..Len(streams) /\ streams[j] \in Streams /\ item[streams[j]].conn = conn
        /\ item[streams[j]].state \notin Absent
    BY <1>1 DEF Living, Absent
  <2>2. streams[j] = s
    BY <2>1 DEF IInv, OneAtATime, Absent
  <2> QED
    BY <1>1, <1>2, <2>1, <2>2 DEF Once
<1>5. of = {i}
  BY <1>3, <1>4
<1>6. (CHOOSE k \in of : \A j \in of : k <= j) = i
  <2> HIDE DEF of
  <2>1. i <= i
    OBVIOUS
  <2> QED
    BY <1>5, <2>1
<1> QED
  BY <1>2, <1>3, <1>6 DEF FirstOf

\* Of streams that live at all, streams_ has a first one.
LEMMA FirstIsAStream ==
    ASSUME IInv, NEW conn \in Connections
    PROVE  FirstOf(conn) \in Streams \cup {None}
<1> DEFINE of == {i \in 1..Len(streams) : Living(streams[i]) /\ item[streams[i]].conn = conn}
<1>1. streams \in Seq(Streams)
  BY DEF IInv, TypeOK
<1>2. of \in SUBSET Nat /\ \A i \in of : streams[i] \in Streams
  BY <1>1
<1>3. FirstOf(conn) = IF of = {}
                      THEN None
                      ELSE streams[CHOOSE i \in of : \A j \in of : i <= j]
  BY DEF FirstOf
<1> HIDE DEF of
<1>4. CASE of = {}
  BY <1>3, <1>4
<1>5. CASE of # {}
  <2>1. \E i \in of : \A j \in of : i <= j
    BY <1>2, <1>5, MinExists
  <2>2. (CHOOSE i \in of : \A j \in of : i <= j) \in of
    BY <2>1
  <2> QED
    BY <1>2, <1>3, <1>5, <2>2
<1> QED
  BY <1>4, <1>5

LEMMA AddTracksKeeps ==
    ASSUME IInv, crashed = "no", NEW conn \in Connections, ConnectionAddMediaTracks(conn)
    PROVE  IInv'
<1> DEFINE Added == [conn : Connections, to : Streams \cup {None}, open : SUBSET Streams]
<1> DEFINE opens == {s \in Streams : item[s].state = "open" /\ item[s].conn = conn}
<1> DEFINE a == [conn |-> conn, to |-> FirstOf(conn), open |-> opens]
<1>1. /\ added' = Append(added, a) /\ UNCHANGED <<app, lis, item, streams, queue>>
      /\ crashed' = "no" /\ added \in Seq(Added)
  BY DEF ConnectionAddMediaTracks, IInv, TypeOK
<1>2. FirstOf(conn) \in Streams \cup {None}
  BY FirstIsAStream
<1>3. opens \in SUBSET Streams /\ a \in Added /\ a.to = FirstOf(conn) /\ a.open = opens
  BY <1>2
<1>4. OneStream /\ opens # {} => FirstOf(conn) \in opens
  BY FirstIsOpen
<1> HIDE DEF a, opens
<1>5. /\ added' \in Seq(Added) /\ added'[Len(added) + 1] = a
      /\ \A j \in 1..Len(added) : added'[j] = added[j]
      /\ \A j \in 1..Len(added') : j \in 1..Len(added) \/ j = Len(added) + 1
  BY <1>1, <1>3, AppendFacts
<1>6. TypeOK'
  BY <1>1, <1>5 DEF IInv, TypeOK
<1>7. ASSUME OneStream PROVE TracksGoToAnOpenStream'
  <2>1. \A j \in 1..Len(added) : added[j].open # {} => added[j].to \in added[j].open
    BY <1>7 DEF IInv, TracksGoToAnOpenStream
  <2>2. a.open # {} => a.to \in a.open
    BY <1>3, <1>4, <1>7
  <2> QED
    BY <1>5, <1>6, <2>1, <2>2 DEF TracksGoToAnOpenStream
<1>8. /\ \A k \in Kinds : ListenerOK(k)'
      /\ \A j \in 1..Len(queue') : LambdaOK(queue[j])'
      /\ StreamsOK' /\ OneAtATime' /\ OneEach(queue)' /\ CrashesAreExplained'
  BY <1>1 DEF IInv, ListenerOK, LambdaOK, CallbackOK, StopOK, StreamsOK, OneAtATime, Once, In,
              Living, OneEach, CrashesAreExplained
<1> QED
  BY <1>6, <1>7, <1>8 DEF IInv
-----------------------------------------------------------------------------
LEMMA NextKeeps == IInv /\ [Next]_vars => IInv'
<1> SUFFICES ASSUME IInv, [Next]_vars PROVE IInv'
  OBVIOUS
<1>1. CASE UNCHANGED vars
  <2>1. UNCHANGED <<app, lis, item, streams, queue, added, crashed>>
    BY <1>1 DEF vars
  <2> QED
    BY <2>1 DEF IInv, TypeOK, ListenerOK, LambdaOK, CallbackOK, StopOK, StreamsOK, OneAtATime,
                Once, In, Living, OneEach, CrashesAreExplained, TracksGoToAnOpenStream
<1>2. CASE Next
  <2>1. crashed = "no"
    BY <1>2 DEF Next
  <2>2. CASE Start \/ SetCheckAccessCallback \/ DeviceStop \/ Drop
    BY <2>1, <2>2, StartKeeps, ApplicationKeeps
  <2>3. ASSUME NEW conn \in Connections, ConnectionAddMediaTracks(conn) PROVE IInv'
    BY <2>1, <2>3, AddTracksKeeps
  <2>4. ASSUME NEW i \in Items, Arrives(i) \/ NewItem(i) PROVE IInv'
    BY <2>1, <2>4, ArrivesKeeps, NewItemKeeps
  <2>5. ASSUME NEW s \in Streams, StreamCloses(s) \/ StreamFreed(s) PROVE IInv'
    BY <2>1, <2>5, StreamEndsKeeps
  <2>6. ASSUME NEW k \in Kinds, ListenFails(k) PROVE IInv'
    BY <2>1, <2>6, ListenFailsKeeps
  <2>7. CASE EventLoop
    BY <2>1, <2>7, RunCallbackKeeps, RunStoppedKeeps DEF EventLoop
  <2> QED
    BY <1>2, <2>2, <2>3, <2>4, <2>5, <2>6, <2>7 DEF Next
<1> QED
  BY <1>1, <1>2

LEMMA SpecIInv == SafeSpec => []IInv
  BY InitIInv, NextKeeps, PTL DEF SafeSpec

\* The variables keep their types.
THEOREM TypeCorrect == SafeSpec => []TypeOK
<1>1. IInv => TypeOK
  BY DEF IInv
<1> QED
  BY <1>1, SpecIInv, PTL

\* An application that keeps its pointer until the listeners have stopped never has a
\* lambda of a listener touch one that is gone: "this will close gracefully when
\* nabto_device_stop() is called" (nabto_listeners.cpp:85).
THEOREM ManagersCloseGracefully == ~AppDrops /\ SafeSpec => []ClosesGracefully
<1> SUFFICES ASSUME ~AppDrops PROVE SafeSpec => []ClosesGracefully
  OBVIOUS
<1>1. IInv => ClosesGracefully
  BY DEF IInv, CrashesAreExplained, ClosesGracefully
<1> QED
  BY <1>1, SpecIInv, PTL

\* Where a connection opens a stream only when its last one is gone, the tracks the
\* application adds go to the stream that is open, and not to one that closes
\* (signaling_stream_manager.cpp:75).
THEOREM TracksFindTheirStream == OneStream /\ SafeSpec => []TracksGoToAnOpenStream
<1> SUFFICES ASSUME OneStream PROVE SafeSpec => []TracksGoToAnOpenStream
  OBVIOUS
<1>1. IInv => TracksGoToAnOpenStream
  BY DEF IInv
<1> QED
  BY <1>1, SpecIInv, PTL

\* An empty callback ends the program only when something arrived before start() had set
\* it: once a listener has its callback, every lambda it posts carries it.
THEOREM OnlyEarlyItemsThrow ==
    SafeSpec => [](crashed = "thrown" => \E i \in Items : item[i].early)
<1>1. IInv => (crashed = "thrown" => \E i \in Items : item[i].early)
  BY DEF IInv, CrashesAreExplained
<1> QED
  BY <1>1, SpecIInv, PTL
=============================================================================
