----------------------------- MODULE DemoDevice -----------------------------
(***************************************************************************)
(* The process of the demo (src/examples/webrtc-demo): what it takes to    *)
(* start, the IAM files it starts from and saves, its listeners at the SDK,*)
(* and its end by SIGINT or by being killed, after which it may be started *)
(* again.                                                                  *)
(*                                                                         *)
(* main runs start() and then, as the thread of the event queue, the       *)
(* lambdas that the listeners post.  The SDK's thread takes what clients   *)
(* send and changes the IAM state.  A file is truncated when it is opened  *)
(* and written afterwards; a process that is killed in between leaves it   *)
(* torn, and one that cannot open or write it does not notice.             *)
(*                                                                         *)
(* Of the IAM state only the paired users and their roles are kept, of the *)
(* configuration what the roles are allowed; users that are created to be  *)
(* invited are left out.  What is done for a request is in DemoRequests    *)
(* and MediaTracks, what makes WebRTC connections in SignalingStream; here *)
(* a connection is the work at the event queue that it holds.              *)
(***************************************************************************)
EXTENDS Naturals, Sequences

CONSTANTS
    Users,      \* those who may pair with the device
    Peers,      \* the WebRTC connections of one process
    MaxItems    \* bound on the requests and events of one process

ASSUME BoundsAssumption == MaxItems \in Nat

VARIABLES
    pc,         \* where main is, "off" when there is no process
    reset,      \* --iam-reset was given
    disk,       \* the two files, and the users of the last state that was saved
    writing,    \* what is being written to one of them
    iam,        \* the users in memory, by their roles
    unsaved,    \* history: the users changed since the state was last loaded or saved
    setup,      \* steps of the listeners that were taken
    queue,      \* the lambdas of the event queue
    sig,        \* the SIGINT context
    stopped,    \* the device was stopped
    works,      \* by connection, its EventQueueWork
    item        \* history: what the listeners took, in order

memory == <<reset, iam, unsaved, setup, queue, sig, stopped, works, item>>
vars == <<pc, disk, writing, memory>>

\* The listeners, in the order in which start() and main create them.
Listeners == <<"oauth", "challenge", "events", "file", "tracks", "default", "video">>

KindOf(l) == CASE Listeners[l] = "file" -> "stream"
               [] Listeners[l] = "events" -> "event"
               [] OTHER -> "coap"

\* The access rules of a default configuration.
Policies == [
    Pairing |-> {"IAM:Pairing"},
    Webrtc |-> {"Webrtc:VideoStream", "Webrtc:FileStream"},
    WebrtcSignaling |-> {"Webrtc:Signaling", "Webrtc:GetInfo"},
    ManageIam |-> {"IAM:Manage"},
    ManageOwnUser |-> {"IAM:ManageOwn"}]

DefaultRoles == [
    Unpaired |-> {"Pairing", "WebrtcSignaling"},
    Administrator |-> {"ManageIam", "Webrtc", "Pairing", "WebrtcSignaling"}]

\* The IAM state: by user its role, "none" for who has not paired.
Roles == DOMAIN DefaultRoles \cup {"none"}
States == [Users -> Roles]
NoUsers == [u \in Users |-> "none"]

CheckAccess(role, action) ==
    \E p \in DefaultRoles[IF role = "none" THEN "Unpaired" ELSE role] :
        action \in Policies[p]

\* What the callback of a listener asks for, if it asks.
ActionOf(l) ==
    IF l = "file" THEN "Webrtc:FileStream"
    ELSE IF l \in {"tracks", "default", "video"} THEN "Webrtc:VideoStream" ELSE "none"

Nothing == [file |-> "none", users |-> NoUsers]

Lambdas == [what : {"deliver"}, of : 1..MaxItems]
             \cup [what : {"gone"}, of : 1..Len(Listeners)] \cup {[what |-> "stop"]}

TypeOK ==
    /\ pc \in {"off", "config", "state", "starting", "listening", "popping", "locked",
               "stuck", "blocked", "returned"}
    /\ reset \in BOOLEAN
    /\ disk \in [config : {"missing", "torn", "written"},
                 state : {"missing", "torn", "written"}, users : States]
    /\ writing \in [file : {"none", "config", "state"}, users : States]
    /\ iam \in States /\ unsaved \subseteq Users
    /\ setup \in 0..2 * Len(Listeners)
    /\ queue \in Seq(Lambdas)
    /\ sig \in {"none", "armed", "posted", "over"} /\ stopped \in BOOLEAN
    /\ works \in [Peers -> {"none", "held", "kept", "released"}]
    /\ item \in Seq([at : 1..Len(Listeners), from : Users, cb : BOOLEAN,
                     roles : SUBSET Roles, got : {"none", "served", "refused"}])

Init ==
    /\ pc = "off" /\ reset = FALSE
    /\ disk = [config |-> "missing", state |-> "missing", users |-> NoUsers]
    /\ writing = Nothing /\ iam = NoUsers /\ unsaved = {}
    /\ setup = 0 /\ queue = <<>> /\ sig = "none" /\ stopped = FALSE
    /\ works = [c \in Peers |-> "none"]
    /\ item = <<>>
-----------------------------------------------------------------------------
\* Starting.

\* The end of the process; its memory is gone, and a file that was being written is torn.
Ends ==
    /\ pc' = "off" /\ writing' = Nothing
    /\ reset' = FALSE /\ iam' = NoUsers /\ unsaved' = {} /\ setup' = 0 /\ queue' = <<>>
    /\ sig' = "none" /\ stopped' = FALSE /\ item' = <<>>
    /\ works' = [c \in Peers |-> "none"]

Args == [help : BOOLEAN, required : BOOLEAN, level : {"known", "unknown"},
         bundle : {"none", "there", "missing"}]

\* parse_options: whether main goes on.
Accepted(args) ==
    /\ ~args.help /\ args.required
    /\ args.level = "known"
    /\ args.bundle # "missing"

\* NabtoDeviceApp::create and init: the key has its length, and the SDK and the IAM
\* module are there.
Created(keyLength, sdk) == keyLength = 64 /\ sdk

\* With --iam-reset main resets the device without looking whether it was created.
Launch ==
    /\ pc = "off"
    /\ \E args \in Args, keyLength \in {63, 64}, sdk \in BOOLEAN :
        Accepted(args) /\ Created(keyLength, sdk)
    /\ pc' = "config" /\ reset' \in BOOLEAN
    /\ UNCHANGED <<disk, writing, iam, unsaved, setup, queue, sig, stopped, works, item>>

MakesDefault(file) == reset \/ disk[file] = "missing"

\* createDefaultIamConfig and createDefaultIamState, as far as the file is opened.  If
\* it cannot be, resetIam() goes on without noticing, and setupIam() has nothing to
\* read; if the SDK fails them both give up, and main does not care.
OpensDefault(file) ==
    /\ pc = file /\ writing = Nothing /\ MakesDefault(file)
    /\ \/ /\ disk' = [disk EXCEPT ![file] = "torn"]
          /\ writing' = [file |-> file, users |-> NoUsers]
          /\ UNCHANGED <<pc, memory>>
       \/ /\ reset /\ file = "config" /\ pc' = "state"
          /\ UNCHANGED <<disk, writing, memory>>
       \/ UNCHANGED disk /\ Ends

\* setupIam reads the file it wrote like one that was there; resetIam does not.
Written(file) ==
    /\ writing.file = file
    /\ writing' = Nothing
    /\ \/ UNCHANGED disk
       \/ disk' = [disk EXCEPT ![file] = "written",
                               !.users = IF file = "state" THEN writing.users ELSE @]

WritesDefault(file) ==
    /\ pc = file
    /\ Written(file)
    /\ IF ~reset THEN UNCHANGED <<pc, memory>>
       ELSE IF file = "config" THEN pc' = "state" /\ UNCHANGED memory
       ELSE Ends

\* setupIam: what cannot be parsed fails the start.
ReadsConfig ==
    /\ pc = "config" /\ writing = Nothing /\ ~MakesDefault("config")
    /\ IF disk.config = "torn" THEN Ends
       ELSE pc' = "state" /\ UNCHANGED <<writing, memory>>
    /\ UNCHANGED disk

\* Mutant of ReadsState: what cannot be parsed is a state without users.
TornIsEmpty ==
    /\ pc = "state" /\ writing = Nothing /\ ~MakesDefault("state")
    /\ pc' = "starting" /\ iam' = IF disk.state = "torn" THEN NoUsers ELSE disk.users
    /\ UNCHANGED <<writing, reset, unsaved, setup, queue, sig, stopped, works, item>>
    /\ UNCHANGED disk

ReadsState ==
    /\ pc = "state" /\ writing = Nothing /\ ~MakesDefault("state")
    /\ IF disk.state = "torn" THEN Ends
       ELSE /\ pc' = "starting" /\ iam' = disk.users
            /\ UNCHANGED <<writing, reset, unsaved, setup, queue, sig, stopped, works, item>>
    /\ UNCHANGED disk

\* The rest of start() up to the listeners.
Starts ==
    /\ pc = "starting"
    /\ pc' = "listening" \/ Ends
    /\ pc' = "listening" => UNCHANGED <<writing, memory>>
    /\ UNCHANGED disk

\* create(), whose start() arms the listener; where it fails the next statement uses a
\* null pointer.
Arms(kind) ==
    /\ pc = "listening" /\ setup % 2 = 0
    /\ KindOf(setup \div 2 + 1) = kind
    /\ \/ setup' = setup + 1
          /\ UNCHANGED <<pc, writing, reset, iam, unsaved, queue, sig, stopped, works, item>>
       \/ Ends
    /\ UNCHANGED disk

CoapListener == Arms("coap")
EventsListener == Arms("event")
StreamListener == Arms("stream")

\* The next statement sets its callback.  After the last one main makes the SIGINT
\* context, sets the handler and calls run().
SetsCallback ==
    /\ pc = "listening" /\ setup % 2 = 1
    /\ setup' = setup + 1
    /\ IF setup' = 2 * Len(Listeners)
       THEN pc' = "popping" /\ sig' = "armed"
       ELSE UNCHANGED <<pc, sig>>
    /\ UNCHANGED <<disk, writing, reset, iam, unsaved, queue, stopped, works, item>>
-----------------------------------------------------------------------------
\* The SDK's thread.

DeviceRuns == pc \in {"listening", "popping", "locked", "stuck", "blocked"} /\ ~stopped

\* What a listener takes is posted with a copy of its callback, and the listener is
\* armed again; the post waits for main to leave the mutex.
Takes(kind, u) ==
    /\ DeviceRuns /\ pc \in {"listening", "popping", "blocked"}
    /\ Len(item) < MaxItems
    /\ \E l \in 1..Len(Listeners) :
        /\ KindOf(l) = kind /\ setup >= 2 * l - 1
        /\ item' = Append(item, [at |-> l, from |-> u, cb |-> setup >= 2 * l,
                                 roles |-> {iam[u]}, got |-> "none"])
    /\ queue' = Append(queue, [what |-> "deliver", of |-> Len(item')])
    /\ UNCHANGED <<pc, disk, writing, reset, iam, unsaved, setup, sig, stopped, works>>

NewStream(u) == Takes("stream", u)
NewCoapRequest(u) == Takes("coap", u)
NewEvent == \E u \in Users : Takes("event", u)

\* The IAM module changes a user and calls iamStateChanged, whose file may fail to
\* open.
Changes(u, role) ==
    /\ DeviceRuns /\ writing = Nothing
    /\ iam' = [iam EXCEPT ![u] = role] /\ unsaved' = unsaved \cup {u}
    /\ item' = [i \in 1..Len(item) |->
                  IF item[i].from = u THEN [item[i] EXCEPT !.roles = @ \cup {role}]
                  ELSE item[i]]
    /\ \/ /\ disk' = [disk EXCEPT !.state = "torn"]
          /\ writing' = [file |-> "state", users |-> iam']
       \/ UNCHANGED <<disk, writing>>
    /\ UNCHANGED <<pc, reset, setup, queue, sig, stopped, works>>

\* Users pair as administrators, the open pairing role of the default state.
Pairs(u) ==
    /\ iam[u] = "none" /\ CheckAccess(iam[u], "IAM:Pairing")
    /\ Changes(u, "Administrator")

\* Who may manage users gives one another role, or removes it.
Manages(u) == iam[u] # "none" /\ \E a \in Users : CheckAccess(iam[a], "IAM:Manage")
SetsRole(u) == Manages(u) /\ \E role \in DOMAIN DefaultRoles : Changes(u, role)
Removes(u) == Manages(u) /\ Changes(u, "none")

Saved ==
    /\ DeviceRuns
    /\ Written("state")
    /\ unsaved' = IF disk'.state = "written" THEN {} ELSE unsaved
    /\ UNCHANGED <<pc, reset, iam, setup, queue, sig, stopped, works, item>>
-----------------------------------------------------------------------------
\* The event queue; what it does before it waits is left out, and of the events of the
\* library only what they do to the work that is counted.

\* workCount_ > 0: the SIGINT context, or a connection.
HasWork == sig # "over" \/ \E c \in Peers : works[c] \in {"held", "kept"}

Work(c, from, to) ==
    /\ works[c] = from
    /\ works' = [works EXCEPT ![c] = to]
    /\ UNCHANGED <<pc, disk, writing, reset, iam, unsaved, setup, queue, sig,
                   stopped, item>>

\* A connection is made by an event, and destroyed on any thread, which waits for the
\* mutex.
Connects(c) == pc = "popping" /\ (HasWork \/ queue # <<>>) /\ Work(c, "none", "held")
Releases(c) == pc # "locked" /\ Work(c, "held", "released")

\* A connection whose signaling stream failed is never destroyed.
Leaks(c) == pc = "popping" /\ Work(c, "held", "kept")

\* A removal, or main at its end, joins the thread of a feed that does not end: it waits
\* for a camera that is silent, or in the open() of a pipe.
MainBlocks ==
    /\ \/ pc = "returned"
       \/ pc = "popping" /\ \E c \in Peers : works[c] \in {"held", "kept"}
    /\ pc' = "blocked"
    /\ UNCHANGED <<disk, writing, memory>>

Lock ==
    /\ pc = "popping"
    /\ queue # <<>> \/ ~HasWork
    /\ pc' = "locked"
    /\ UNCHANGED <<disk, writing, memory>>

\* An item taken before its listener had a callback is an empty function, which throws.
Deliver(i) ==
    IF ~item[i].cb
    THEN Ends
    ELSE LET action == ActionOf(Listeners[item[i].at])
         IN  /\ item' = [item EXCEPT ![i].got =
                            IF action = "none" \/ CheckAccess(iam[item[i].from], action)
                            THEN "served" ELSE "refused"]
             /\ queue' = Tail(queue) /\ pc' = "popping"
             /\ UNCHANGED <<writing, reset, iam, unsaved, setup, sig, stopped, works>>

\* The lambda of SigIntContext: stop() resolves the futures of all listeners, whose
\* callbacks post the end of each.
Stop ==
    /\ stopped' = TRUE
    /\ queue' = Tail(queue) \o [l \in 1..Len(Listeners) |-> [what |-> "gone", of |-> l]]
    /\ pc' = "popping"
    /\ UNCHANGED <<writing, reset, iam, unsaved, setup, sig, works, item>>

Gone ==
    /\ queue' = Tail(queue) /\ pc' = "popping"
    /\ UNCHANGED <<writing, reset, iam, unsaved, setup, sig, stopped, works, item>>

RunsEvent ==
    /\ pc = "locked" /\ queue # <<>>
    /\ LET event == Head(queue)
       IN  IF event.what = "deliver" THEN Deliver(event.of)
           ELSE IF event.what = "stop" THEN Stop ELSE Gone
    /\ UNCHANGED disk

RunReturns ==
    /\ pc = "locked" /\ queue = <<>>
    /\ pc' = "returned"
    /\ UNCHANGED <<disk, writing, memory>>

\* The end of main.
Exits ==
    /\ pc = "returned"
    /\ Ends
    /\ UNCHANGED disk

\* SIGINT; the handler runs on any thread, and on main's it waits for ever for a mutex
\* that main holds.  A second one finds no context.
Signal ==
    /\ sig = "armed" /\ pc \in {"popping", "locked", "blocked"}
    /\ \/ /\ pc = "locked" /\ pc' = "stuck"
          /\ UNCHANGED <<sig, queue>>
       \/ /\ pc # "locked" /\ UNCHANGED pc
          /\ sig' = "posted" /\ queue' = Append(queue, [what |-> "stop"])
    /\ UNCHANGED <<disk, writing, reset, iam, unsaved, setup, stopped, works, item>>

\* Mutant of WorkReleased: the work outlives the context.
WorkLeaks == sig = "posted" /\ UNCHANGED vars

\* The members of the context are destroyed after its destructor has posted.
WorkReleased ==
    /\ sig = "posted" /\ pc # "locked"
    /\ sig' = "over"
    /\ UNCHANGED <<pc, disk, writing, reset, iam, unsaved, setup, queue, stopped,
                   works, item>>

\* Anything that ends a process: also SIGINT before there is a handler, and an exception
\* that nobody catches.
Killed ==
    /\ pc # "off"
    /\ Ends
    /\ UNCHANGED disk
-----------------------------------------------------------------------------
Main ==
    \/ OpensDefault("config") \/ OpensDefault("state")
    \/ WritesDefault("config") \/ WritesDefault("state")
    \/ ReadsConfig \/ ReadsState \/ Starts
    \/ CoapListener \/ EventsListener \/ StreamListener \/ SetsCallback
    \/ Lock \/ RunsEvent \/ RunReturns \/ Exits

Next ==
    \/ Launch \/ Main \/ Saved \/ Signal \/ WorkReleased \/ Killed
    \/ MainBlocks
    \/ \E c \in Peers : Connects(c) \/ Releases(c) \/ Leaks(c)
    \/ \E u \in Users : Pairs(u) \/ SetsRole(u) \/ Removes(u)
    \/ \E u \in Users : NewStream(u) \/ NewCoapRequest(u)
    \/ NewEvent

\* main runs, a handler that was entered is left, and the connections of a device that
\* was stopped are let go.
Spec ==
    /\ Init /\ [][Next]_vars
    /\ WF_vars(Main) /\ WF_vars(WorkReleased)
    /\ \A c \in Peers : WF_vars(stopped /\ Releases(c))
-----------------------------------------------------------------------------
Loaded == pc \notin {"off", "config", "state"}

\* What the last save that succeeded says of a user is what every later process that
\* gets as far as loading the state knows of it, whenever the ones before were killed
\* and whichever of their saves failed, until the user is changed or the state reset;
\* and the file is whole unless a change is being saved, or was not.
UsersAreKept ==
    Loaded =>
        /\ \A u \in Users \ unsaved : iam[u] = disk.users[u]
        /\ writing = Nothing /\ unsaved = {} => disk.state = "written"

\* By the default configuration the callbacks of the demo serve who is an administrator
\* at some time since the item arrived, and refuse who is not at some time.
PairingGivesAccess ==
    \A i \in 1..Len(item) :
        ActionOf(Listeners[item[i].at]) # "none" =>
            /\ item[i].got = "served" => "Administrator" \in item[i].roles
            /\ item[i].got = "refused" => item[i].roles # {"Administrator"}

\* Pairing lasts, over any number of starts and kills: both of these.
PairingLasts == UsersAreKept /\ PairingGivesAccess

\* run() does not return before the device was stopped, every connection was let go, and
\* what the listeners had taken was delivered.
RunEndsStopped ==
    pc = "returned" =>
        /\ stopped /\ ~HasWork
        /\ \A i \in 1..Len(item) : item[i].got # "none"

\* What arrives is delivered, and a SIGINT whose handler got through ends the process,
\* unless main is stuck or blocked, or a connection was leaked.
SignalStops ==
    /\ sig = "posted" ~>
        pc \in {"off", "blocked"} \/ \E c \in Peers : works[c] = "kept"
    /\ \A i \in 1..MaxItems :
        Len(item) = i ~>
            Len(item) < i \/ item[i].got # "none" \/ pc \in {"stuck", "blocked"}

\* An end that was asked for is reached, and in order: both of these (main.cpp:40).  The
\* variables keep their types.
StopsCleanly == [](TypeOK /\ RunEndsStopped) /\ SignalStops

\* "The demo application persists its list of users to a local file."
UsersPersist == pc = "off" => disk.state # "torn"
=============================================================================
