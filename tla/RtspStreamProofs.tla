-------------------------- MODULE RtspStreamProofs --------------------------
(***************************************************************************)
(* Proofs about RtspStream: its types for any set of connections, and that *)
(* a removed connection leaves nothing behind and a started session sends  *)
(* on the tracks of its connection when connections are removed only from  *)
(* settled sessions (AnyTime = FALSE).                                     *)
(***************************************************************************)
EXTENDS RtspStream, TLAPS

\* The step of the removal of r, "idle" when r is not being removed.
StepOf(r) == IF \E step \in Steps : Removing(r, step) THEN removal.step ELSE "idle"

\* A client, of which step is the step of its removal.
Sound(c, step) ==
    /\ c.place \in {"started", "options", "describe"} => c.streams = {}
    /\ c.place = "none" => ~c.listed
    /\ c.playing =>
         ~c.startCb /\ c.place \in {"resolved", "receiving", "ending", "ended"}
    /\ preferTcp => c.rtcp = {}
    /\ ~preferTcp => c.sending \subseteq c.streams
    /\ ~c.listed => c.place \in {"none", "ended"} /\ c.rtcp = {} /\ c.sending = {}
    /\ step # "idle" =>
         /\ c.listed /\ c.place \in {"receiving", "ending", "ended"}
         /\ ~preferTcp => c.sending = {}
    /\ step \in {"stopCurl", "join"} => c.rtcp = {}
    /\ c.playing /\ c.listed /\ step = "idle"
         => c.tracks \cap c.streams \subseteq c.sending

IInv ==
    /\ TypeOK
    /\ \A r \in Connections : Sound(client[r], StepOf(r))
-----------------------------------------------------------------------------
\* The fields of one client change at a time: what a step leaves of the others.
LEMMA BecomesType ==
    ASSUME TypeOK, NEW r \in Connections, NEW c \in Clients,
           c.feeds \cap c.streams = {}, Becomes(r, c)
    PROVE  TypeOK'
  BY DEF TypeOK, Becomes

\* The results of the operators on a client are clients.
LEMMA FailedType ==
    ASSUME NEW c \in Clients, c.feeds \cap c.streams = {}
    PROVE  /\ Failed(c) \in Clients
           /\ Failed(c).feeds \cap Failed(c).streams = {}
  BY DEF Failed, Clients, Places

LEMMA SetUpType ==
    ASSUME NEW c \in Clients, c.feeds \cap c.streams = {}, c.feeds # {},
           NEW ok \in BOOLEAN
    PROVE  /\ SetUp(c, ok) \in Clients
           /\ SetUp(c, ok).feeds \cap SetUp(c, ok).streams = {}
<1>1. NextFeed(c) \in Kinds
  BY DEF NextFeed, Kinds
<1>2. CASE ~ok
  BY <1>2, FailedType DEF SetUp
<1>3. CASE ok
  <2> DEFINE k == NextFeed(c)
  <2> DEFINE d == [c EXCEPT !.feeds = c.feeds \ {k}, !.streams = c.streams \cup {k},
                            !.rtcp = IF preferTcp THEN c.rtcp ELSE c.rtcp \cup {k}]
  <2>1. SetUp(c, ok) = d
    BY <1>3 DEF SetUp
  <2>2. k \in Kinds
    BY <1>1
  <2> HIDE DEF k
  <2>3. /\ c.feeds \ {k} \in SUBSET Kinds
        /\ c.streams \cup {k} \in SUBSET Kinds
        /\ c.rtcp \cup {k} \in SUBSET Kinds /\ c.rtcp \in SUBSET Kinds
    BY <2>2 DEF Clients
  <2>4. d \in Clients
    BY <2>3 DEF Clients
  <2>5. d.feeds = c.feeds \ {k} /\ d.streams = c.streams \cup {k}
    BY DEF Clients
  <2> QED
    BY <2>1, <2>4, <2>5
<1> QED
  BY <1>2, <1>3

LEMMA NewClientType ==
    ASSUME NEW kind \in Kinds
    PROVE  /\ NewClient(kind) \in Clients
           /\ NewClient(kind).feeds \cap NewClient(kind).streams = {}
  BY DEF NewClient, NoClient, Clients, Places, Kinds
-----------------------------------------------------------------------------
\* Types.

LEMMA TypeStep ==
    ASSUME IInv, [Next]_vars
    PROVE  TypeOK'
<1> USE DEF IInv
<1>1. CASE UNCHANGED vars
  BY <1>1 DEF TypeOK, vars
<1>2. ASSUME NEW r \in Connections, NEW kind \in Kinds, AddConnection(r, kind)
      PROVE  TypeOK'
  <2> DEFINE c == [client[r] EXCEPT !.tracks = @ \cup {kind}]
  <2>1. client[r] \in Clients /\ client[r].feeds \cap client[r].streams = {}
    BY DEF TypeOK
  <2>2. c \in Clients /\ c.feeds \cap c.streams = {}
    BY <2>1 DEF Clients
  <2>3. Becomes(r, c) \/ Becomes(r, NewClient(kind))
    BY <1>2 DEF AddConnection
  <2> HIDE DEF c
  <2> QED
    BY <2>2, <2>3, NewClientType, BecomesType
<1>3. ASSUME NEW r \in Connections, RemoveConnection(r)
      PROVE  TypeOK'
  <2>1. client[r] \in Clients /\ client[r].feeds \cap client[r].streams = {}
    BY DEF TypeOK
  <2>2. /\ Removed(client[r]) \in Clients
        /\ Removed(client[r]).feeds \cap Removed(client[r]).streams = {}
    BY <2>1 DEF Removed, Clients
  <2>3. removal' \in [step : Steps, ref : Connections]
    BY <1>3 DEF RemoveConnection, Goes, Steps
  <2> QED
    BY <1>3, <2>2, <2>3 DEF RemoveConnection, Goes, TypeOK
<1>4. ASSUME NEW r \in Connections, Removal(r)
      PROVE  TypeOK'
  <2>1. client[r] \in Clients /\ client[r].feeds \cap client[r].streams = {}
    BY DEF TypeOK
  <2>2. CASE StopClients(r)
    <3>1. /\ Stopped(client[r]) \in Clients
          /\ Stopped(client[r]).feeds \cap Stopped(client[r]).streams = {}
      BY <2>1 DEF Stopped, Clients
    <3>2. removal' \in [step : Steps, ref : Connections]
      BY <2>2 DEF StopClients, Goes, Steps
    <3> QED
      BY <2>2, <3>1, <3>2 DEF StopClients, Goes, TypeOK
  <2>3. CASE StopCurl(r)
    <3>1. PICK c : c = [client[r] EXCEPT !.curlStopped = TRUE]
      OBVIOUS
    <3>2. c \in Clients /\ c.feeds \cap c.streams = {}
      BY <2>1, <3>1 DEF Clients
    <3>3. client' = [client EXCEPT ![r] = c]
      BY <2>3, <3>1 DEF StopCurl
    <3>4. removal' \in [step : Steps, ref : Connections]
      BY <2>3 DEF StopCurl, Goes, Steps
    <3> QED
      BY <2>3, <3>2, <3>3, <3>4 DEF StopCurl, Goes, TypeOK
  <2>4. CASE Join(r)
    <3>1. PICK c : c = [client[r] EXCEPT !.listed = FALSE, !.tracks = {},
                                !.sending = IF preferTcp THEN {} ELSE @]
      OBVIOUS
    <3>2. c \in Clients /\ c.feeds \cap c.streams = {}
      BY <2>1, <3>1 DEF Clients
    <3>3. client' = [client EXCEPT ![r] = c]
      BY <2>4, <3>1 DEF Join
    <3>4. removal' = Idle /\ UNCHANGED preferTcp
      BY <2>4 DEF Join, Goes
    <3> QED
      BY <3>2, <3>3, <3>4 DEF TypeOK
  <2> QED
    BY <1>4, <2>2, <2>3, <2>4 DEF Removal
<1>a. ASSUME NEW r \in Connections, GoesSilent(r)
      PROVE  TypeOK'
  <2>1. PICK c : c = [client[r] EXCEPT !.silent = TRUE]
    OBVIOUS
  <2>2. c \in Clients /\ c.feeds \cap c.streams = {}
    BY <2>1 DEF TypeOK, Clients
  <2> QED
    BY <1>a, <2>1, <2>2, BecomesType DEF GoesSilent
<1>5. ASSUME NEW r \in Connections, ThreadRunner(r) \/ ReceiveFails(r)
      PROVE  TypeOK'
  <2>1. client[r] \in Clients /\ client[r].feeds \cap client[r].streams = {}
    BY DEF TypeOK
  <2>2. /\ Failed(client[r]) \in Clients
        /\ Failed(client[r]).feeds \cap Failed(client[r]).streams = {}
    BY <2>1, FailedType
  <2>3. ASSUME NEW place \in Places,
               Becomes(r, [client[r] EXCEPT !.place = place])
        PROVE  TypeOK'
    <3>1. PICK c : c = [client[r] EXCEPT !.place = place]
      OBVIOUS
    <3>2. c \in Clients /\ c.feeds \cap c.streams = {}
      BY <2>1, <3>1 DEF Clients
    <3> QED
      BY <2>3, <3>1, <3>2, BecomesType
  <2>4. CASE Start(r) \/ ReceiveStopped(r) \/ ReceiveFails(r) \/ End(r)
    BY <2>3, <2>4 DEF Start, ReceiveStopped, ReceiveFails, Answered, End, Places
  <2>5. CASE Options(r)
    BY <2>2, <2>3, <2>5, BecomesType DEF Options, Answered, Places
  <2>6. CASE Play(r)
    BY <2>2, <2>3, <2>6, BecomesType DEF Play, Answered, Places
  <2>7. CASE Describe(r)
    <3>1. PICK feeds \in SUBSET Kinds :
            Becomes(r, IF feeds = {} THEN Failed(client[r])
                       ELSE [client[r] EXCEPT !.place = "setup", !.feeds = feeds])
      BY <2>7 DEF Describe
    <3>2. PICK c : c = [client[r] EXCEPT !.place = "setup", !.feeds = feeds]
      OBVIOUS
    <3>3. client[r].streams = {}
      BY <2>7 DEF Describe, Answered, Worker, Sound
    <3>4. c \in Clients /\ c.feeds \cap c.streams = {}
      BY <2>1, <3>2, <3>3 DEF Clients, Places
    <3> QED
      BY <2>2, <3>1, <3>2, <3>4, BecomesType
  <2>8. CASE Setup(r)
    BY <2>1, <2>3, <2>8, SetUpType, BecomesType DEF Setup, Places
  <2>9. CASE StartCallback(r)
    <3>1. PICK sending : sending = IF client[r].listed THEN Wired(client[r])
                                   ELSE client[r].sending
      OBVIOUS
    <3>2. sending \in SUBSET Kinds
      BY <2>1, <3>1 DEF Wired, Clients
    <3>3. PICK c : c = [client[r] EXCEPT !.startCb = FALSE, !.playing = TRUE,
                          !.sending = sending,
                          !.place = IF preferTcp THEN "resolved" ELSE "ending"]
      OBVIOUS
    <3>4. c \in Clients /\ c.feeds \cap c.streams = {}
      BY <2>1, <3>2, <3>3 DEF Clients, Places
    <3> QED
      BY <2>9, <3>1, <3>3, <3>4, BecomesType DEF StartCallback
  <2>10. CASE Run(r)
    <3>1. PICK c : c = [client[r] EXCEPT !.tcpStopped = FALSE, !.place = "receiving"]
      OBVIOUS
    <3>2. c \in Clients /\ c.feeds \cap c.streams = {}
      BY <2>1, <3>1 DEF Clients, Places
    <3> QED
      BY <2>10, <3>1, <3>2, BecomesType DEF Run
  <2> QED
    BY <1>5, <2>4, <2>5, <2>6, <2>7, <2>8, <2>9, <2>10 DEF ThreadRunner
<1> QED
  BY <1>1, <1>2, <1>3, <1>4, <1>a, <1>5 DEF Next
-----------------------------------------------------------------------------
\* Sessions that are removed only when they are settled.

LEMMA IdleStep ==
    ASSUME TypeOK, NEW r \in Connections
    PROVE  /\ StepOf(r) \in Steps \cup {"idle"}
           /\ MutexFree => StepOf(r) = "idle"
           /\ \A step \in Steps : Removing(r, step) => StepOf(r) = step
  BY DEF TypeOK, StepOf, Removing, MutexFree, Idle, Steps

\* A step of one client, with no removal beginning or going on.
LEMMA SoundBecomes ==
    ASSUME IInv, NEW r \in Connections, NEW c, Becomes(r, c),
           Sound(c, StepOf(r)), TypeOK'
    PROVE  IInv'
<1>1. \A s \in Connections : StepOf(s)' = StepOf(s)
  BY DEF Becomes, StepOf, Removing
<1>2. \A s \in Connections : client'[s] = IF s = r THEN c ELSE client[s]
  BY DEF Becomes, IInv, TypeOK
<1>3. preferTcp' = preferTcp
  BY DEF Becomes
<1>4. ASSUME NEW s \in Connections PROVE Sound(client[s], StepOf(s))'
  <2>1. Sound(client'[s], StepOf(s))
    BY <1>2 DEF IInv
  <2>2. QED
    BY <1>1, <1>3, <2>1 DEF Sound
<1> QED
  BY <1>4 DEF IInv

\* A step of a removal.
LEMMA SoundGoes ==
    ASSUME IInv, NEW r \in Connections, NEW c, NEW step \in Steps \cup {"idle"},
           MutexFree \/ \E before \in Steps : Removing(r, before),
           client' = [client EXCEPT ![r] = c], Goes(r, step),
           Sound(c, step), TypeOK'
    PROVE  IInv'
<1>1. \A s \in Connections \ {r} : StepOf(s) = "idle" /\ StepOf(s)' = "idle"
  BY DEF StepOf, Removing, MutexFree, Goes, Idle, Steps
<1>2. StepOf(r)' = step
  BY DEF StepOf, Removing, Goes, Idle, Steps
<1>3. \A s \in Connections : client'[s] = IF s = r THEN c ELSE client[s]
  BY DEF IInv, TypeOK
<1>4. preferTcp' = preferTcp
  BY DEF Goes
<1>5. Sound(client[r], StepOf(r))'
  BY <1>2, <1>3, <1>4 DEF Sound
<1>6. ASSUME NEW s \in Connections \ {r} PROVE Sound(client[s], StepOf(s))'
  <2>1. Sound(client[s], "idle")
    BY <1>1 DEF IInv
  <2>2. QED
    BY <1>1, <1>3, <1>4, <2>1 DEF Sound
<1> QED
  BY <1>5, <1>6 DEF IInv

LEMMA InitHolds == Init => IInv
<1> SUFFICES ASSUME Init PROVE IInv
  OBVIOUS
<1>1. TypeOK
  BY DEF Init, TypeOK, NoClient, Clients, Places, Idle
<1>2. \A r \in Connections : client[r] = NoClient
  BY DEF Init
<1>3. ASSUME NEW r \in Connections PROVE Sound(client[r], StepOf(r))
  <2>1. StepOf(r) = "idle"
    BY <1>1, IdleStep DEF Init, MutexFree
  <2>2. Sound(NoClient, "idle")
    BY DEF Sound, NoClient
  <2>3. QED
    BY <1>2, <2>1, <2>2
<1> QED
  BY <1>1, <1>3 DEF IInv

LEMMA InvStep ==
    ASSUME AnyTime = FALSE, IInv, [Next]_vars
    PROVE  IInv'
<1>1. TypeOK'
  BY TypeStep
<1>2. TypeOK /\ \A r \in Connections : Sound(client[r], StepOf(r)) /\ client[r] \in Clients
  BY DEF IInv, TypeOK
<1>3. CASE UNCHANGED vars
  BY <1>1, <1>3 DEF IInv, vars, Sound, StepOf, Removing
<1>4. ASSUME NEW r \in Connections, NEW kind \in Kinds, AddConnection(r, kind)
      PROVE  IInv'
  <2>1. StepOf(r) = "idle"
    BY <1>2, <1>4, IdleStep DEF AddConnection
  <2>2. CASE client[r].listed
    <3>1. PICK c : c = [client[r] EXCEPT !.tracks = @ \cup {kind}]
      OBVIOUS
    <3>2. client[r].startCb /\ Becomes(r, c)
      BY <1>4, <2>2, <3>1 DEF AddConnection
    <3>3. Sound(c, "idle")
      BY <1>2, <2>1, <3>1, <3>2 DEF Sound, Clients
    <3> QED
      BY <1>1, <2>1, <3>2, <3>3, SoundBecomes
  <2>3. CASE ~client[r].listed
    <3>1. Sound(NewClient(kind), "idle")
      BY DEF Sound, NewClient, NoClient
    <3>2. Becomes(r, NewClient(kind))
      BY <1>4, <2>3 DEF AddConnection
    <3> QED
      BY <1>1, <2>1, <3>1, <3>2, SoundBecomes
  <2> QED
    BY <2>2, <2>3
<1>5. ASSUME NEW r \in Connections, RemoveConnection(r)
      PROVE  IInv'
  <2>1. StepOf(r) = "idle"
    BY <1>2, <1>5, IdleStep DEF RemoveConnection
  <2>2. Settled(r) /\ client[r].listed
    BY <1>5 DEF RemoveConnection
  <2>3. Sound(Removed(client[r]), "stopClients")
    BY <1>2, <2>1, <2>2 DEF Settled, Removed, Sound, Clients
  <2>4. MutexFree /\ client' = [client EXCEPT ![r] = Removed(client[r])]
        /\ Goes(r, "stopClients") /\ "stopClients" \in Steps
    BY <1>5 DEF RemoveConnection, Steps
  <2> QED
    BY <1>1, <2>3, <2>4, SoundGoes
<1>6. ASSUME NEW r \in Connections, StopClients(r)
      PROVE  IInv'
  <2>1. Sound(client[r], "stopClients")
    BY <1>2, <1>6, IdleStep DEF StopClients, Steps
  <2>2. Sound(Stopped(client[r]), "stopCurl")
    BY <1>2, <2>1 DEF Stopped, Sound, Clients
  <2>3. \E before \in Steps : Removing(r, before)
    BY <1>6 DEF StopClients, Steps
  <2>4. client' = [client EXCEPT ![r] = Stopped(client[r])]
        /\ Goes(r, "stopCurl") /\ "stopCurl" \in Steps
    BY <1>6 DEF StopClients, Steps
  <2> QED
    BY <1>1, <2>2, <2>3, <2>4, SoundGoes
<1>7. ASSUME NEW r \in Connections, StopCurl(r)
      PROVE  IInv'
  <2>1. Sound(client[r], "stopCurl")
    BY <1>2, <1>7, IdleStep DEF StopCurl, Steps
  <2>2. PICK c : c = [client[r] EXCEPT !.curlStopped = TRUE]
    OBVIOUS
  <2>3. Sound(c, "join")
    BY <1>2, <2>1, <2>2 DEF Sound, Clients
  <2>4. \E before \in Steps : Removing(r, before)
    BY <1>7 DEF StopCurl, Steps
  <2>5. client' = [client EXCEPT ![r] = c] /\ Goes(r, "join") /\ "join" \in Steps
    BY <1>7, <2>2 DEF StopCurl, Steps
  <2> QED
    BY <1>1, <2>3, <2>4, <2>5, SoundGoes
<1>8. ASSUME NEW r \in Connections, Join(r)
      PROVE  IInv'
  <2>1. Sound(client[r], "join") /\ client[r].place \in {"none", "ended"}
    BY <1>2, <1>8, IdleStep DEF Join, Joined, Steps
  <2>2. PICK c : c = [client[r] EXCEPT !.listed = FALSE, !.tracks = {},
                              !.sending = IF preferTcp THEN {} ELSE @]
    OBVIOUS
  <2>3. /\ c.place \in {"none", "ended"} /\ ~c.listed /\ c.rtcp = {}
        /\ c.sending = {} /\ (c.playing => ~c.startCb)
        /\ (c.playing => c.place = "ended")
    BY <1>2, <2>1, <2>2 DEF Sound, Clients
  <2>4. Sound(c, "idle")
    BY <2>3 DEF Sound
  <2>5. \E before \in Steps : Removing(r, before)
    BY <1>8 DEF Join, Steps
  <2>6. client' = [client EXCEPT ![r] = c] /\ Goes(r, "idle")
    BY <1>8, <2>2 DEF Join
  <2> QED
    BY <1>1, <2>4, <2>5, <2>6, SoundGoes
<1>a. ASSUME NEW r \in Connections, GoesSilent(r)
      PROVE  IInv'
  <2>1. PICK c : c = [client[r] EXCEPT !.silent = TRUE]
    OBVIOUS
  <2>2. Sound(c, StepOf(r))
    BY <1>2, <2>1 DEF Sound, Clients
  <2> QED
    BY <1>1, <1>a, <2>1, <2>2, SoundBecomes DEF GoesSilent
<1>9. ASSUME NEW r \in Connections, ThreadRunner(r) \/ ReceiveFails(r)
      PROVE  IInv'
  <2> DEFINE step == StepOf(r)
  <2>1. client[r] \in Clients /\ Sound(client[r], step)
    BY <1>2
  <2> HIDE DEF step
  <2>2. ASSUME NEW c, Becomes(r, c), Sound(c, step) PROVE IInv'
    BY <1>1, <2>2, SoundBecomes DEF step
  <2>3. ASSUME client[r].place \in {"options", "describe", "setup", "play"},
               Becomes(r, Failed(client[r]))
        PROVE  IInv'
    <3>1. Sound(Failed(client[r]), step)
      BY <2>1, <2>3 DEF Failed, Sound, Clients
    <3> QED
      BY <2>2, <2>3, <3>1
  <2>4. ASSUME NEW place \in Places \ {"none", "started", "resolved", "receiving"},
               client[r].place \notin {"none", "resolved", "ended"},
               place \in {"options", "describe"} =>
                 client[r].place \in {"started", "options"},
               client[r].place = "receiving" => place = "ending",
               place = "ended" => client[r].place \in {"started", "ending"},
               place # "ended" => client[r].place # "ending",
               Becomes(r, [client[r] EXCEPT !.place = place])
        PROVE  IInv'
    <3>1. PICK c : c = [client[r] EXCEPT !.place = place]
      OBVIOUS
    <3>2. Sound(c, step)
      BY <2>1, <2>4, <3>1 DEF Sound, Clients, Places
    <3> QED
      BY <2>2, <2>4, <3>1, <3>2
  <2>5. CASE Start(r)
    BY <2>4, <2>5 DEF Start, Worker, Places
  <2>6. CASE Options(r)
    BY <2>3, <2>4, <2>6 DEF Options, Answered, Worker, Places
  <2>7. CASE Describe(r)
    <3>1. PICK feeds \in SUBSET Kinds :
            Becomes(r, IF feeds = {} THEN Failed(client[r])
                       ELSE [client[r] EXCEPT !.place = "setup", !.feeds = feeds])
      BY <2>7 DEF Describe
    <3>2. PICK c : c = [client[r] EXCEPT !.place = "setup", !.feeds = feeds]
      OBVIOUS
    <3>3. Sound(c, step)
      BY <2>1, <2>7, <3>2 DEF Describe, Answered, Worker, Sound, Clients
    <3> QED
      BY <2>2, <2>3, <2>7, <3>1, <3>2, <3>3 DEF Describe, Answered, Worker
  <2>8. CASE Setup(r)
    <3>1. CASE client[r].feeds = {}
      BY <2>4, <2>8, <3>1 DEF Setup, Worker, Places
    <3>2. ASSUME NEW ok \in BOOLEAN, Becomes(r, SetUp(client[r], ok))
          PROVE  IInv'
      <4>1. CASE ~ok
        BY <2>3, <2>8, <3>2, <4>1 DEF SetUp, Setup, Worker
      <4>2. CASE ok
        <5>1. PICK k : k = NextFeed(client[r])
          OBVIOUS
        <5>2. PICK c : c = [client[r] EXCEPT
                  !.feeds = client[r].feeds \ {k}, !.streams = client[r].streams \cup {k},
                  !.rtcp = IF preferTcp THEN client[r].rtcp ELSE client[r].rtcp \cup {k}]
          OBVIOUS
        <5>3. SetUp(client[r], ok) = c
          BY <4>2, <5>1, <5>2 DEF SetUp
        <5>4. Sound(c, step)
          BY <2>1, <2>8, <5>2 DEF Setup, Worker, Sound, Clients
        <5> QED
          BY <2>2, <3>2, <5>3, <5>4
      <4> QED
        BY <4>1, <4>2
    <3> QED
      BY <2>8, <3>1, <3>2 DEF Setup
  <2>9. CASE Play(r)
    BY <2>3, <2>4, <2>9 DEF Play, Answered, Worker, Places
  <2>10. CASE StartCallback(r)
    <3>1. PICK sending : sending = IF client[r].listed THEN Wired(client[r])
                                   ELSE client[r].sending
      OBVIOUS
    <3>2. PICK c : c = [client[r] EXCEPT !.startCb = FALSE, !.playing = TRUE,
                          !.sending = sending,
                          !.place = IF preferTcp THEN "resolved" ELSE "ending"]
      OBVIOUS
    <3>3. client[r].place = "resolve" /\ Becomes(r, c)
      BY <2>10, <3>1, <3>2 DEF StartCallback, Worker
    <3>4. client[r].listed
      BY <2>1, <3>3 DEF Sound
    <3>5. Sound(c, step)
      BY <2>1, <3>1, <3>2, <3>3, <3>4 DEF Sound, Clients, Wired
    <3> QED
      BY <2>2, <3>3, <3>5
  <2>11. CASE Run(r)
    <3>1. PICK c : c = [client[r] EXCEPT !.tcpStopped = FALSE, !.place = "receiving"]
      OBVIOUS
    <3>2. Sound(c, step)
      BY <2>1, <2>11, <3>1 DEF Run, Worker, Sound, Clients
    <3> QED
      BY <2>2, <2>11, <3>1, <3>2 DEF Run
  <2>12. CASE ReceiveStopped(r) \/ ReceiveFails(r) \/ End(r)
    BY <2>4, <2>12 DEF ReceiveStopped, ReceiveFails, Answered, End, Worker, Places
  <2> QED
    BY <1>9, <2>5, <2>6, <2>7, <2>8, <2>9, <2>10, <2>11, <2>12 DEF ThreadRunner
<1> QED
  BY <1>3, <1>4, <1>5, <1>6, <1>7, <1>8, <1>9, <1>a DEF Next, Removal
-----------------------------------------------------------------------------
\* The types hold of every client, when connections are removed from settled
\* sessions only.
THEOREM TypeCorrect == ASSUME AnyTime = FALSE PROVE Spec => []TypeOK
<1>1. IInv /\ [Next]_vars => IInv'
  BY InvStep
<1>2. IInv => TypeOK
  BY DEF IInv
<1> QED
  BY InitHolds, <1>1, <1>2, PTL DEF Spec

\* A connection removed from a settled session leaves nothing behind: its worker, the
\* threads of its RtpClients and RtcpClients and its tracks are gone.
THEOREM RemovedLeavesNothing ==
    ASSUME AnyTime = FALSE PROVE Spec => []RemovedIsQuiet
<1>1. IInv /\ [Next]_vars => IInv'
  BY InvStep
<1>2. IInv => RemovedIsQuiet
  BY DEF IInv, Sound, RemovedIsQuiet
<1> QED
  BY InitHolds, <1>1, <1>2, PTL DEF Spec

\* A session that was started, over TCP or UDP, sends on every track of its connection
\* that it has a feed for until its removal begins, whichever track was added first and
\* on whichever side of a request.
THEOREM SessionsAreWired ==
    ASSUME AnyTime = FALSE PROVE Spec => []StartedIsWired
<1>1. IInv /\ [Next]_vars => IInv'
  BY InvStep
<1>2. IInv => StartedIsWired
  <2> SUFFICES ASSUME IInv, NEW r \in Connections, MutexFree \/ removal.ref # r,
                      client[r].playing, client[r].listed
               PROVE  client[r].tracks \cap client[r].streams \subseteq client[r].sending
    BY DEF StartedIsWired
  <2>1. StepOf(r) = "idle"
    BY DEF StepOf, Removing, MutexFree, Idle, Steps
  <2> QED
    BY <2>1 DEF IInv, Sound
<1> QED
  BY InitHolds, <1>1, <1>2, PTL DEF Spec
=============================================================================
