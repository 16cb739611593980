------------------------------ MODULE DemoProofs -----------------------------
(***************************************************************************)
(* Proofs about the demo, DemoDevice and DemoRequests.                     *)
(*                                                                         *)
(* DemoDevice, for any users, connections, starts and requests: what was   *)
(* saved of a user is known to every later process that gets as far as     *)
(* loading it, administrators have access as nobody else has, and run()    *)
(* does not return before the device was stopped, its connections were let *)
(* go and what the listeners took was delivered.                           *)
(***************************************************************************)
EXTENDS DemoDevice, DemoDownload, TLAPS

\* Once the state is loaded, what is being written is the state in memory.
SavesMemory ==
    Loaded /\ writing # Nothing =>
        /\ writing.file = "state" /\ writing.users = iam
        /\ disk.state = "torn" /\ unsaved # {}

\* The role that a user has now is one that it had since its item arrived.
RolesSeen == \A i \in 1..Len(item) : iam[item[i].from] \in item[i].roles

\* An event in a queue, and a queue that delivers only the first n items.
Waits(q, event) == \E k \in 1..Len(q) : q[k] = event
Delivers(q, n) == \A k \in 1..Len(q) : q[k].what = "deliver" => q[k].of \in 1..n

\* An item that was not delivered waits in the queue, and so does the stop from when it
\* was posted until it is done; main holds the mutex for an event, or to return.
ItemsWait ==
    \A i \in 1..Len(item) :
        item[i].got = "none" => Waits(queue, [what |-> "deliver", of |-> i])
StopWaits == sig \in {"posted", "over"} => stopped \/ Waits(queue, [what |-> "stop"])
LockedFor == pc = "locked" => queue # <<>> \/ ~HasWork

\* A process that loads its files has done nothing else, and one that makes its
\* listeners has some to make.
SetUp ==
    /\ pc \in {"off", "config", "state", "starting"} =>
        setup = 0 /\ item = <<>> /\ unsaved = {}
    /\ pc = "starting" =>
        writing = Nothing /\ iam = disk.users /\ disk.state = "written"
    /\ pc = "listening" => setup < 2 * Len(Listeners)

IInv ==
    /\ TypeOK
    /\ PairingLasts /\ SavesMemory /\ RolesSeen
    /\ RunEndsStopped /\ ItemsWait /\ StopWaits /\ LockedFor
    /\ Delivers(queue, Len(item)) /\ SetUp

SafeSpec == Init /\ [][Next]_vars
-----------------------------------------------------------------------------
\* What the default configuration allows.
LEMMA AccessOfPaired ==
    ASSUME NEW role \in Roles, NEW action \in {"Webrtc:VideoStream", "Webrtc:FileStream"}
    PROVE  CheckAccess(role, action) <=> role = "Administrator"
<1>1. CASE role = "Administrator"
  <2>1. "Webrtc" \in DefaultRoles["Administrator"] /\ action \in Policies["Webrtc"]
    BY DEF DefaultRoles, Policies
  <2> QED
    BY <1>1, <2>1 DEF CheckAccess
<1>2. CASE role # "Administrator"
  <2>1. (IF role = "none" THEN "Unpaired" ELSE role) = "Unpaired"
    BY <1>2 DEF Roles, DefaultRoles
  <2>2. DefaultRoles["Unpaired"] = {"Pairing", "WebrtcSignaling"}
    BY DEF DefaultRoles
  <2>3. action \notin Policies["Pairing"] /\ action \notin Policies["WebrtcSignaling"]
    BY DEF Policies
  <2> QED
    BY <1>2, <2>1, <2>2, <2>3 DEF CheckAccess
<1> QED
  BY <1>1, <1>2

LEMMA NoUsersState == NoUsers \in States
  BY DEF NoUsers, States, Roles

\* The actions that listeners ask for.
LEMMA ActionsAsked ==
    ASSUME NEW l
    PROVE  ActionOf(l) \in {"none", "Webrtc:VideoStream", "Webrtc:FileStream"}
BY DEF ActionOf
-----------------------------------------------------------------------------
\* The queue.

LEMMA TailWaits ==
    ASSUME NEW S, NEW q \in Seq(S), q # <<>>, NEW event, Waits(q, event), Head(q) # event
    PROVE  Waits(Tail(q), event)
<1>1. PICK k \in 1..Len(q) : q[k] = event
  BY DEF Waits
<1>2. k # 1
  BY <1>1
<1>3. k - 1 \in 1..Len(Tail(q)) /\ Tail(q)[k - 1] = q[k]
  BY <1>2
<1> QED
  BY <1>1, <1>3 DEF Waits

LEMMA AppendWaits ==
    ASSUME NEW S, NEW q \in Seq(S), NEW new \in S, NEW event,
           Waits(q, event) \/ new = event
    PROVE  Waits(Append(q, new), event)
<1>1. /\ Len(Append(q, new)) = Len(q) + 1
      /\ Append(q, new)[Len(q) + 1] = new
      /\ \A k \in 1..Len(q) : Append(q, new)[k] = q[k]
  OBVIOUS
<1> QED
  BY <1>1 DEF Waits

LEMMA ConcatWaits ==
    ASSUME NEW S, NEW q \in Seq(S), NEW r \in Seq(S), NEW event, Waits(q, event)
    PROVE  Waits(q \o r, event)
<1>1. PICK k \in 1..Len(q) : q[k] = event
  BY DEF Waits
<1>2. k \in 1..Len(q \o r) /\ (q \o r)[k] = q[k]
  OBVIOUS
<1> QED
  BY <1>1, <1>2 DEF Waits

LEMMA TailDelivers ==
    ASSUME NEW S, NEW q \in Seq(S), q # <<>>, NEW n, Delivers(q, n)
    PROVE  Delivers(Tail(q), n)
<1>1. \A k \in 1..Len(Tail(q)) : k + 1 \in 1..Len(q) /\ Tail(q)[k] = q[k + 1]
  OBVIOUS
<1> QED
  BY <1>1 DEF Delivers

LEMMA AppendDelivers ==
    ASSUME NEW S, NEW q \in Seq(S), NEW new \in S, NEW n \in Nat, NEW m \in Nat, n <= m,
           Delivers(q, n), new.what = "deliver" => new.of \in 1..m
    PROVE  Delivers(Append(q, new), m)
<1>1. \A k \in 1..Len(Append(q, new)) :
        \/ Append(q, new)[k] = new
        \/ k \in 1..Len(q) /\ Append(q, new)[k] = q[k]
  <2> TAKE k \in 1..Len(Append(q, new))
  <2>1. Len(Append(q, new)) = Len(q) + 1
    OBVIOUS
  <2>2. CASE k = Len(q) + 1
    <3>1. Append(q, new)[Len(q) + 1] = new
      OBVIOUS
    <3> QED
      BY <2>2, <3>1
  <2>3. CASE k # Len(q) + 1
    <3>1. k \in 1..Len(q)
      BY <2>1, <2>3
    <3> QED
      BY <3>1
  <2> QED
    BY <2>2, <2>3
<1>2. \A i \in 1..n : i \in 1..m
  OBVIOUS
<1> QED
  BY <1>1, <1>2 DEF Delivers

LEMMA ConcatDelivers ==
    ASSUME NEW S, NEW q \in Seq(S), NEW r \in Seq(S), NEW n,
           Delivers(q, n), Delivers(r, n)
    PROVE  Delivers(q \o r, n)
<1>1. \A k \in 1..Len(q \o r) :
        \/ k \in 1..Len(q) /\ (q \o r)[k] = q[k]
        \/ k - Len(q) \in 1..Len(r) /\ (q \o r)[k] = r[k - Len(q)]
  OBVIOUS
<1> QED
  BY <1>1 DEF Delivers

LEMMA SevenListeners == Len(Listeners) = 7
  BY DEF Listeners
-----------------------------------------------------------------------------
\* The end of the process keeps the invariant, whatever there is on the disk.

Disks == [config : {"missing", "torn", "written"},
          state : {"missing", "torn", "written"}, users : States]

Writings == [file : {"none", "config", "state"}, users : States]

Items == [at : 1..Len(Listeners), from : Users, cb : BOOLEAN, roles : SUBSET Roles,
          got : {"none", "served", "refused"}]

LEMMA EndsKeeps ==
    ASSUME IInv, Ends, disk' \in Disks
    PROVE  IInv'
<1>1. TypeOK'
  <2>1. writing' \in Writings
    BY NoUsersState DEF Ends, Nothing, Writings
  <2>2. queue' \in Seq(Lambdas') /\ item' \in Seq(Items)
    BY DEF Ends
  <2>3. setup' \in 0..2 * Len(Listeners)
    BY SevenListeners DEF Ends
  <2> QED
    BY <2>1, <2>2, <2>3, NoUsersState DEF IInv, TypeOK, Ends, Disks, Items, Writings
<1>2. /\ PairingLasts' /\ RolesSeen' /\ ItemsWait' /\ Delivers(queue, Len(item))'
  BY DEF Ends, PairingLasts, UsersAreKept, Loaded, PairingGivesAccess, RolesSeen,
         ItemsWait, Delivers
<1>3. SavesMemory' /\ RunEndsStopped' /\ StopWaits' /\ LockedFor' /\ SetUp'
  BY SevenListeners DEF Ends, SavesMemory, Loaded, RunEndsStopped, StopWaits, LockedFor, SetUp
<1> QED
  BY <1>1, <1>2, <1>3 DEF IInv

LEMMA InitIInv == Init => IInv
<1> SUFFICES ASSUME Init PROVE IInv
  OBVIOUS
<1>1. TypeOK
  <2>1. writing \in Writings
    BY NoUsersState DEF Init, Nothing, Writings
  <2>2. queue \in Seq(Lambdas) /\ item \in Seq(Items)
    BY DEF Init
  <2>3. setup \in 0..2 * Len(Listeners)
    BY SevenListeners DEF Init
  <2> QED
    BY <2>1, <2>2, <2>3, NoUsersState DEF TypeOK, Init, Items, Writings
<1>2. /\ PairingLasts /\ RolesSeen /\ ItemsWait /\ Delivers(queue, Len(item))
  BY DEF Init, PairingLasts, UsersAreKept, Loaded, PairingGivesAccess, RolesSeen,
         ItemsWait, Delivers
<1>3. SavesMemory /\ RunEndsStopped /\ StopWaits /\ LockedFor /\ SetUp
  BY SevenListeners DEF Init, SavesMemory, Loaded, RunEndsStopped, StopWaits, LockedFor, SetUp
<1> QED
  BY <1>1, <1>2, <1>3 DEF IInv
-----------------------------------------------------------------------------
\* Starting.

\* A step that takes no items and posts none.
LEMMA QueueKept ==
    ASSUME IInv, UNCHANGED <<queue, item>>
    PROVE  ItemsWait' /\ Delivers(queue, Len(item))'
  BY DEF IInv, ItemsWait, Delivers, Waits

\* A step of the start that goes on.
LEMMA StartGoesOn ==
    ASSUME IInv, pc \in {"off", "config", "state", "starting"},
           pc' \in {"config", "state", "starting", "listening"},
           disk' \in Disks, reset' \in BOOLEAN, writing' \in Writings, iam' \in States,
           UNCHANGED <<unsaved, setup, queue, item, sig, stopped, works>>,
           pc' \in {"starting", "listening"} =>
               writing' = Nothing /\ iam' = disk'.users /\ disk'.state = "written"
    PROVE  IInv'
<1>1. TypeOK'
  BY DEF IInv, TypeOK, Disks, Writings, Lambdas
<1>2. item = <<>> /\ setup = 0 /\ unsaved = {}
  BY DEF IInv, SetUp
<1>3. PairingLasts' /\ RolesSeen'
  <2>1. UsersAreKept'
    BY <1>2 DEF UsersAreKept, Loaded
  <2>2. PairingGivesAccess' /\ RolesSeen'
    BY <1>2 DEF PairingGivesAccess, RolesSeen
  <2> QED
    BY <2>1, <2>2 DEF PairingLasts
<1>4. SavesMemory' /\ RunEndsStopped' /\ StopWaits' /\ LockedFor' /\ SetUp'
  BY <1>2, SevenListeners
     DEF IInv, SavesMemory, Loaded, RunEndsStopped, StopWaits, LockedFor, SetUp, Waits, HasWork
<1> QED
  BY <1>1, <1>3, <1>4, QueueKept DEF IInv

LEMMA LaunchKeeps == IInv /\ Launch => IInv'
<1> SUFFICES ASSUME IInv, Launch PROVE IInv'
  OBVIOUS
<1> QED
  BY StartGoesOn DEF Launch, IInv, TypeOK, Disks, Writings

\* What is on the disk when a default file was opened, or written.
LEMMA OpensDefaultKeeps ==
    ASSUME IInv, NEW file \in {"config", "state"}, OpensDefault(file)
    PROVE  IInv'
<1>1. disk \in Disks /\ writing \in Writings /\ iam \in States /\ reset \in BOOLEAN
  BY DEF IInv, TypeOK, Disks, Writings
<1>2. CASE Ends /\ UNCHANGED disk
  BY <1>1, <1>2, EndsKeeps
<1>3. CASE pc' = "state" /\ UNCHANGED <<disk, writing, memory>>
  BY <1>1, <1>3, StartGoesOn DEF OpensDefault, memory
<1>4. CASE /\ disk' = [disk EXCEPT ![file] = "torn"]
           /\ writing' = [file |-> file, users |-> NoUsers]
           /\ UNCHANGED <<pc, memory>>
  <2>1. disk' \in Disks
    BY <1>1, <1>4 DEF Disks
  <2>2. writing' \in Writings
    BY <1>4, NoUsersState DEF Writings
  <2> QED
    BY <1>1, <1>4, <2>1, <2>2, StartGoesOn DEF OpensDefault, memory
<1> QED
  BY <1>2, <1>3, <1>4 DEF OpensDefault

LEMMA WrittenType ==
    ASSUME IInv, NEW file \in {"config", "state"}, Written(file)
    PROVE  disk' \in Disks /\ writing' = Nothing
  BY DEF IInv, TypeOK, Written, Disks, Writings

LEMMA WritesDefaultKeeps ==
    ASSUME IInv, NEW file \in {"config", "state"}, WritesDefault(file)
    PROVE  IInv'
<1>1. disk' \in Disks /\ writing' = Nothing
  BY WrittenType DEF WritesDefault
<1>2. CASE Ends
  BY <1>1, <1>2, EndsKeeps
<1>3. CASE ~Ends
  <2>1. writing' \in Writings
    BY <1>1, NoUsersState DEF Nothing, Writings
  <2>2. pc' \in {"config", "state"} /\ pc \in {"config", "state"} /\ UNCHANGED memory
    BY <1>3 DEF WritesDefault
  <2> QED
    BY <1>1, <2>1, <2>2, StartGoesOn DEF memory, IInv, TypeOK
<1> QED
  BY <1>2, <1>3

LEMMA ReadsKeeps == IInv /\ (ReadsConfig \/ ReadsState \/ Starts) => IInv'
<1> SUFFICES ASSUME IInv, ReadsConfig \/ ReadsState \/ Starts PROVE IInv'
  OBVIOUS
<1>1. disk' \in Disks /\ disk' = disk
  BY DEF ReadsConfig, ReadsState, Starts, IInv, TypeOK, Disks
<1>2. writing \in Writings /\ iam \in States /\ reset \in BOOLEAN
  BY DEF IInv, TypeOK, Writings
<1>3. CASE Ends
  BY <1>1, <1>3, EndsKeeps
<1>4. CASE ReadsConfig /\ ~Ends
  BY <1>1, <1>2, <1>4, StartGoesOn DEF ReadsConfig, memory
<1>5. CASE ReadsState /\ ~Ends
  <2>1. iam' = disk.users /\ disk.users \in States /\ writing' = Nothing
    BY <1>5 DEF ReadsState, IInv, TypeOK
  <2>2. disk.state = "written"
    BY <1>5 DEF ReadsState, MakesDefault, IInv, TypeOK
  <2> QED
    BY <1>1, <1>2, <1>5, <2>1, <2>2, StartGoesOn DEF ReadsState
<1>6. CASE Starts /\ ~Ends
  <2>1. pc = "starting" /\ pc' = "listening" /\ UNCHANGED <<writing, memory>>
    BY <1>6 DEF Starts
  <2>2. writing = Nothing /\ iam = disk.users /\ disk.state = "written"
    BY <2>1 DEF IInv, SetUp
  <2> QED
    BY <1>1, <1>2, <2>1, <2>2, StartGoesOn DEF memory
<1> QED
  BY <1>3, <1>4, <1>5, <1>6
-----------------------------------------------------------------------------
\* The listeners.

LEMMA ArmsKeeps ==
    ASSUME IInv, NEW kind, Arms(kind)
    PROVE  IInv'
<1>1. disk' \in Disks /\ UNCHANGED disk
  BY DEF Arms, IInv, TypeOK, Disks
<1>2. CASE Ends
  BY <1>1, <1>2, EndsKeeps
<1>3. CASE ~Ends
  <2>1. /\ setup' = setup + 1 /\ setup % 2 = 0 /\ pc = "listening"
        /\ UNCHANGED <<pc, writing, reset, iam, unsaved, queue, sig, stopped, works, item>>
    BY <1>3 DEF Arms
  <2>2. setup \in Nat /\ setup < 14
    BY <2>1, SevenListeners DEF IInv, TypeOK, SetUp
  <2>3. setup' \in 0..14 /\ setup' < 14
    BY <2>1, <2>2
  <2>4. TypeOK'
    BY <1>1, <2>1, <2>3, SevenListeners DEF IInv, TypeOK, Lambdas
  <2>5. PairingLasts' /\ RolesSeen' /\ SavesMemory'
    BY <1>1, <2>1 DEF IInv, PairingLasts, UsersAreKept, PairingGivesAccess, RolesSeen,
                      SavesMemory, Loaded
  <2>6. RunEndsStopped' /\ StopWaits' /\ LockedFor' /\ SetUp'
    BY <2>1, <2>3, SevenListeners DEF IInv, RunEndsStopped, StopWaits, LockedFor, SetUp, Waits, HasWork
  <2> QED
    BY <2>1, <2>4, <2>5, <2>6, QueueKept DEF IInv
<1> QED
  BY <1>2, <1>3

LEMMA SetsCallbackKeeps == IInv /\ SetsCallback => IInv'
<1> SUFFICES ASSUME IInv, SetsCallback PROVE IInv'
  OBVIOUS
<1>1. /\ setup' = setup + 1 /\ pc = "listening"
      /\ UNCHANGED <<disk, writing, reset, iam, unsaved, queue, stopped, works, item>>
      /\ \/ pc' = "popping" /\ sig' = "armed"
         \/ setup' # 14 /\ UNCHANGED <<pc, sig>>
  BY SevenListeners DEF SetsCallback
<1>2. setup \in Nat /\ setup < 14
  BY <1>1, SevenListeners DEF IInv, TypeOK, SetUp
<1>3. setup' \in 0..14 /\ (setup' # 14 => setup' < 14)
  BY <1>1, <1>2
<1>4. TypeOK'
  BY <1>1, <1>3, SevenListeners DEF IInv, TypeOK, Lambdas
<1>5. PairingLasts' /\ RolesSeen' /\ SavesMemory'
  BY <1>1 DEF IInv, PairingLasts, UsersAreKept, PairingGivesAccess, RolesSeen,
              SavesMemory, Loaded
<1>6. RunEndsStopped' /\ StopWaits' /\ LockedFor' /\ SetUp'
  BY <1>1, <1>3, SevenListeners
     DEF IInv, RunEndsStopped, StopWaits, LockedFor, SetUp, Waits, HasWork
<1> QED
  BY <1>1, <1>4, <1>5, <1>6, QueueKept DEF IInv
-----------------------------------------------------------------------------
\* The SDK's thread.

LEMMA TakesKeeps ==
    ASSUME IInv, NEW kind, NEW u \in Users, Takes(kind, u)
    PROVE  IInv'
<1> DEFINE new(l) == [at |-> l, from |-> u, cb |-> setup >= 2 * l,
                      roles |-> {iam[u]}, got |-> "none"]
<1> DEFINE event == [what |-> "deliver", of |-> Len(item')]
<1>1. PICK l \in 1..Len(Listeners) : item' = Append(item, new(l))
  BY DEF Takes
<1>2. /\ queue' = Append(queue, event)
      /\ UNCHANGED <<pc, disk, writing, reset, iam, unsaved, setup, sig, stopped, works>>
      /\ pc \in {"listening", "popping", "blocked"} /\ Len(item) < MaxItems
  BY DEF Takes
<1>3. /\ item \in Seq(Items) /\ new(l) \in Items /\ queue \in Seq(Lambdas)
  <2>1. iam[u] \in Roles
    BY DEF IInv, TypeOK, States
  <2> QED
    BY <2>1, SevenListeners DEF IInv, TypeOK, Items
<1> DEFINE it == new(l)
<1>4. it \in Items /\ it.roles = {iam[u]} /\ it.from = u /\ it.got = "none"
  BY <1>3
<1> HIDE DEF new, it
<1>5. /\ item' \in Seq(Items) /\ Len(item') = Len(item) + 1
      /\ item'[Len(item')] = it
      /\ \A i \in 1..Len(item) : item'[i] = item[i]
  BY <1>1, <1>3, <1>4 DEF it
<1>6. \A i \in 1..Len(item') : i = Len(item') \/ i \in 1..Len(item)
  BY <1>3, <1>5
<1>7. Len(item') \in 1..MaxItems
  BY <1>2, <1>3, <1>5, BoundsAssumption
<1>8. event \in Lambdas
  BY <1>7 DEF Lambdas
<1>9. queue' \in Seq(Lambdas')
  BY <1>2, <1>3, <1>8 DEF Lambdas
<1>10. TypeOK'
  BY <1>2, <1>5, <1>9 DEF IInv, TypeOK, Items
<1>11. PairingLasts'
  <2>1. UsersAreKept'
    BY <1>2 DEF IInv, PairingLasts, UsersAreKept, Loaded
  <2>2. PairingGivesAccess'
    BY <1>2, <1>4, <1>5, <1>6 DEF IInv, PairingLasts, PairingGivesAccess
  <2> QED
    BY <2>1, <2>2 DEF PairingLasts
<1>12. RolesSeen'
  BY <1>2, <1>4, <1>5, <1>6 DEF IInv, RolesSeen
<1>13. ItemsWait'
  <2> SUFFICES ASSUME NEW i \in 1..Len(item'), item'[i].got = "none"
               PROVE  Waits(queue', [what |-> "deliver", of |-> i])
    BY DEF ItemsWait
  <2>1. CASE i = Len(item')
    BY <1>2, <1>3, <1>8, <2>1, AppendWaits
  <2>2. CASE i # Len(item')
    <3>1. i \in 1..Len(item) /\ item[i].got = "none"
      BY <1>5, <1>6, <2>2
    <3>2. Waits(queue, [what |-> "deliver", of |-> i])
      BY <3>1 DEF IInv, ItemsWait
    <3> QED
      BY <1>2, <1>3, <1>8, <3>2, AppendWaits
  <2> QED
    BY <2>1, <2>2
<1>14. Delivers(queue, Len(item))'
  <2>1. Len(item) \in Nat /\ Len(item') \in Nat /\ Len(item) <= Len(item')
    BY <1>3, <1>5
  <2>2. Delivers(queue, Len(item)) /\ event.of \in 1..Len(item')
    BY <1>7, <2>1 DEF IInv
  <2> HIDE DEF event
  <2>3. Delivers(Append(queue, event), Len(item'))
    BY <1>3, <1>8, <2>1, <2>2, AppendDelivers
  <2> QED
    BY <1>2, <2>3
<1>15. StopWaits'
  <2>1. ASSUME Waits(queue, [what |-> "stop"]) PROVE Waits(queue', [what |-> "stop"])
    BY <1>2, <1>3, <1>8, <2>1, AppendWaits
  <2> QED
    BY <1>2, <2>1 DEF IInv, StopWaits
<1>16. SavesMemory' /\ RunEndsStopped' /\ LockedFor' /\ SetUp'
  BY <1>2 DEF IInv, SavesMemory, Loaded, RunEndsStopped, LockedFor, SetUp, HasWork
<1> QED
  BY <1>10, <1>11, <1>12, <1>13, <1>14, <1>15, <1>16 DEF IInv

LEMMA ChangesKeeps ==
    ASSUME IInv, NEW u \in Users, NEW role \in Roles, Changes(u, role)
    PROVE  IInv'
<1>1. /\ iam' = [iam EXCEPT ![u] = role] /\ unsaved' = unsaved \cup {u}
      /\ UNCHANGED <<pc, reset, setup, queue, sig, stopped, works>>
      /\ pc \in {"listening", "popping", "locked", "stuck", "blocked"}
      /\ writing = Nothing
  BY DEF Changes, DeviceRuns
<1>2. \/ /\ disk' = [disk EXCEPT !.state = "torn"]
         /\ writing' = [file |-> "state", users |-> iam']
      \/ UNCHANGED <<disk, writing>>
  BY DEF Changes
<1>3. /\ iam' \in States /\ iam'[u] = role
      /\ \A v \in Users \ {u} : iam'[v] = iam[v]
  BY <1>1 DEF IInv, TypeOK, States
<1>4. disk' \in Disks /\ disk'.users = disk.users
  BY <1>2 DEF IInv, TypeOK, Disks
<1>5. writing' \in Writings
  BY <1>2, <1>3 DEF IInv, TypeOK, Writings
<1> DEFINE new(i) == IF item[i].from = u THEN [item[i] EXCEPT !.roles = @ \cup {role}]
                     ELSE item[i]
<1>6. item \in Seq(Items) /\ item' = [i \in 1..Len(item) |-> new(i)]
  BY DEF IInv, TypeOK, Items, Changes
<1>7. \A i \in 1..Len(item) :
        /\ new(i) \in Items
        /\ new(i).at = item[i].at /\ new(i).from = item[i].from
        /\ new(i).got = item[i].got
        /\ new(i).roles =
             IF item[i].from = u THEN item[i].roles \cup {role} ELSE item[i].roles
  <2> SUFFICES ASSUME NEW i \in 1..Len(item)
               PROVE  /\ new(i) \in Items
                      /\ new(i).at = item[i].at /\ new(i).from = item[i].from
                      /\ new(i).got = item[i].got
                      /\ new(i).roles = IF item[i].from = u THEN item[i].roles \cup {role}
                                         ELSE item[i].roles
    OBVIOUS
  <2>1. item[i] \in Items
    BY <1>6
  <2> QED
    BY <2>1 DEF Items
<1> HIDE DEF new
<1>8. /\ item' \in Seq(Items) /\ Len(item') = Len(item)
      /\ \A i \in 1..Len(item) : item'[i] = new(i)
  <2>1. Len(item) \in Nat
    BY <1>6
  <2>2. item' \in [1..Len(item) -> Items]
    <3>1. \A i \in 1..Len(item) : new(i) \in Items
      BY <1>7
    <3> QED
      BY <1>6, <3>1
  <2>3. item' \in Seq(Items) /\ Len(item') = Len(item)
    BY <2>1, <2>2
  <2>4. \A i \in 1..Len(item) : item'[i] = new(i)
    BY <1>6
  <2> QED
    BY <2>3, <2>4
<1>9. TypeOK'
  <2>1. unsaved' \subseteq Users
    BY <1>1 DEF IInv, TypeOK
  <2> QED
    BY <1>1, <1>3, <1>4, <1>5, <1>8, <2>1 DEF IInv, TypeOK, Disks, Writings, Items, Lambdas
<1>10. UsersAreKept'
  BY <1>1, <1>3, <1>4 DEF IInv, PairingLasts, UsersAreKept, Loaded
<1>11. \A i \in 1..Len(item) : iam[item[i].from] \in item[i].roles
  BY DEF IInv, RolesSeen
<1>12. PairingGivesAccess'
  <2> SUFFICES ASSUME NEW i \in 1..Len(item), ActionOf(Listeners[new(i).at]) # "none"
               PROVE  /\ new(i).got = "served" => "Administrator" \in new(i).roles
                      /\ new(i).got = "refused" => new(i).roles # {"Administrator"}
    BY <1>8 DEF PairingGivesAccess
  <2>1. /\ new(i).at = item[i].at /\ new(i).got = item[i].got
        /\ item[i].roles \subseteq new(i).roles /\ item[i].roles # {}
    BY <1>7, <1>11
  <2>2. /\ item[i].got = "served" => "Administrator" \in item[i].roles
        /\ item[i].got = "refused" => item[i].roles # {"Administrator"}
    BY <2>1 DEF IInv, PairingLasts, PairingGivesAccess
  <2> QED
    BY <2>1, <2>2
<1>13. RolesSeen'
  <2> SUFFICES ASSUME NEW i \in 1..Len(item)
               PROVE  iam'[item[i].from] \in new(i).roles
    BY <1>7, <1>8 DEF RolesSeen
  <2>1. item[i].from \in Users
    <3>1. item[i] \in Items
      BY <1>6
    <3> QED
      BY <3>1 DEF Items
  <2> QED
    BY <1>3, <1>7, <1>11, <2>1
<1>14. ItemsWait' /\ Delivers(queue, Len(item))'
  <2>1. ASSUME NEW i \in 1..Len(item), item'[i].got = "none"
        PROVE  Waits(queue, [what |-> "deliver", of |-> i])
    <3>1. item[i].got = "none"
      BY <1>7, <1>8, <2>1
    <3> QED
      BY <3>1 DEF IInv, ItemsWait
  <2>2. queue' = queue /\ Len(item') = Len(item)
    BY <1>1, <1>8
  <2>3. Delivers(queue, Len(item))
    BY DEF IInv
  <2> QED
    BY <2>1, <2>2, <2>3 DEF ItemsWait
<1>15. SavesMemory'
  <2>1. unsaved' # {}
    BY <1>1
  <2>2. CASE UNCHANGED <<disk, writing>>
    BY <1>1, <2>2 DEF SavesMemory
  <2>3. CASE /\ disk' = [disk EXCEPT !.state = "torn"]
             /\ writing' = [file |-> "state", users |-> iam']
    <3>1. disk'.state = "torn" /\ writing'.file = "state" /\ writing'.users = iam'
      BY <2>3 DEF IInv, TypeOK
    <3> QED
      BY <2>1, <3>1 DEF SavesMemory
  <2> QED
    BY <1>2, <2>2, <2>3
<1>16. RunEndsStopped' /\ StopWaits' /\ LockedFor' /\ SetUp'
  BY <1>1 DEF IInv, RunEndsStopped, StopWaits, LockedFor, SetUp, Waits, HasWork
<1> QED
  BY <1>9, <1>10, <1>12, <1>13, <1>14, <1>15, <1>16 DEF IInv, PairingLasts

LEMMA UsersKeep ==
    ASSUME IInv, NEW u \in Users, Pairs(u) \/ SetsRole(u) \/ Removes(u)
    PROVE  IInv'
<1>1. \E role \in Roles : Changes(u, role)
  BY DEF Pairs, SetsRole, Removes, Roles, DefaultRoles
<1> QED
  BY <1>1, ChangesKeeps

LEMMA SavedKeeps == IInv /\ Saved => IInv'
<1> SUFFICES ASSUME IInv, Saved PROVE IInv'
  OBVIOUS
<1>1. /\ writing.file = "state"
      /\ UNCHANGED <<pc, reset, iam, setup, queue, sig, stopped, works, item>>
      /\ pc \in {"listening", "popping", "locked", "stuck", "blocked"}
      /\ unsaved' = IF disk'.state = "written" THEN {} ELSE unsaved
      /\ \/ UNCHANGED disk
         \/ disk' = [disk EXCEPT !["state"] = "written", !.users = writing.users]
  BY DEF Saved, Written, DeviceRuns
<1>2. disk' \in Disks /\ writing' = Nothing
  BY WrittenType DEF Saved
<1>3. writing.users = iam /\ disk.state = "torn" /\ unsaved # {}
  <2>1. Nothing.file # "state"
    BY DEF Nothing
  <2>2. writing # Nothing
    BY <1>1, <2>1
  <2> QED
    BY <1>1, <2>2 DEF IInv, SavesMemory, Loaded
<1>4. \/ disk' = disk /\ disk'.state = "torn" /\ unsaved' = unsaved
      \/ disk'.users = iam /\ disk'.state = "written" /\ unsaved' = {}
  <2>1. disk \in Disks
    BY DEF IInv, TypeOK, Disks
  <2>2. CASE UNCHANGED disk
    BY <1>1, <1>3, <2>2
  <2>3. CASE disk' = [disk EXCEPT !["state"] = "written", !.users = writing.users]
    BY <1>1, <1>3, <2>1, <2>3 DEF Disks
  <2> QED
    BY <1>1, <2>2, <2>3
<1>5. TypeOK'
  <2>1. writing' \in Writings
    BY <1>2, NoUsersState DEF Nothing, Writings
  <2>2. unsaved' \subseteq Users
    BY <1>4 DEF IInv, TypeOK
  <2> QED
    BY <1>1, <1>2, <2>1, <2>2 DEF IInv, TypeOK, Disks, Writings, Lambdas
<1>6. UsersAreKept'
  BY <1>1, <1>2, <1>3, <1>4 DEF IInv, PairingLasts, UsersAreKept, Loaded
<1>7. PairingGivesAccess' /\ RolesSeen'
  BY <1>1 DEF IInv, PairingLasts, PairingGivesAccess, RolesSeen
<1>8. SavesMemory' /\ RunEndsStopped' /\ StopWaits' /\ LockedFor' /\ SetUp'
  BY <1>1, <1>2
     DEF IInv, SavesMemory, Loaded, RunEndsStopped, StopWaits, LockedFor, SetUp, Waits, HasWork
<1> QED
  BY <1>1, <1>5, <1>6, <1>7, <1>8, QueueKept DEF IInv, PairingLasts
-----------------------------------------------------------------------------
\* The event queue.

\* A step that runs the first event: what becomes of those behind it, some of which it
\* adds, when the items change only in what became of them.
LEMMA RestWaits ==
    ASSUME IInv, queue # <<>>, NEW more \in Seq(Lambdas), Delivers(more, Len(item)),
           queue' = Tail(queue) \o more,
           Len(item') = Len(item),
           \A i \in 1..Len(item) :
             item'[i].got = "none" =>
               item[i].got = "none" /\ Head(queue) # [what |-> "deliver", of |-> i]
    PROVE  /\ queue' \in Seq(Lambdas')
           /\ ItemsWait' /\ Delivers(queue, Len(item))'
           /\ Head(queue) # [what |-> "stop"] =>
                \/ ~Waits(queue, [what |-> "stop"])
                \/ Waits(queue', [what |-> "stop"])
<1>1. queue \in Seq(Lambdas) /\ Tail(queue) \in Seq(Lambdas)
  BY DEF IInv, TypeOK
<1>2. queue' \in Seq(Lambdas')
  BY <1>1 DEF Lambdas
<1>3. ASSUME NEW event, Waits(queue, event), Head(queue) # event
      PROVE  Waits(queue', event)
  <2>1. Waits(Tail(queue), event)
    BY <1>1, <1>3, TailWaits
  <2> QED
    BY <1>1, <2>1, ConcatWaits
<1>4. ItemsWait'
  <2> SUFFICES ASSUME NEW i \in 1..Len(item'), item'[i].got = "none"
               PROVE  Waits(queue', [what |-> "deliver", of |-> i])
    BY DEF ItemsWait
  <2>1. /\ i \in 1..Len(item) /\ item[i].got = "none"
        /\ Head(queue) # [what |-> "deliver", of |-> i]
    OBVIOUS
  <2>2. Waits(queue, [what |-> "deliver", of |-> i])
    BY <2>1 DEF IInv, ItemsWait
  <2> QED
    BY <1>3, <2>1, <2>2
<1>5. Delivers(queue, Len(item))'
  <2>1. Delivers(Tail(queue), Len(item))
    BY <1>1, TailDelivers DEF IInv
  <2>2. Delivers(Tail(queue) \o more, Len(item))
    BY <1>1, <2>1, ConcatDelivers
  <2> QED
    BY <2>2
<1> QED
  BY <1>2, <1>3, <1>4, <1>5

\* Nothing more is posted.
LEMMA TailRests ==
    ASSUME NEW q \in Seq(Lambdas), q # <<>>
    PROVE  /\ Tail(q) = Tail(q) \o <<>> /\ <<>> \in Seq(Lambdas)
           /\ \A n : Delivers(<<>>, n)
<1>1. \A n : Delivers(<<>>, n)
  BY DEF Delivers
<1> QED
  BY <1>1

LEMMA GoneKeeps ==
    ASSUME IInv, pc = "locked", queue # <<>>, Head(queue).what \notin {"deliver", "stop"},
           Gone, UNCHANGED disk
    PROVE  IInv'
<1>1. /\ queue' = Tail(queue) /\ pc' = "popping"
      /\ UNCHANGED <<writing, reset, iam, unsaved, setup, sig, stopped, works, item>>
  BY DEF Gone
<1>2. queue \in Seq(Lambdas)
  BY DEF IInv, TypeOK
<1>3. /\ Head(queue) # [what |-> "stop"]
      /\ \A i : Head(queue) # [what |-> "deliver", of |-> i]
  OBVIOUS
<1>4. /\ queue' \in Seq(Lambdas') /\ ItemsWait' /\ Delivers(queue, Len(item))'
      /\ ~Waits(queue, [what |-> "stop"]) \/ Waits(queue', [what |-> "stop"])
  BY <1>1, <1>2, <1>3, TailRests, RestWaits
<1>5. TypeOK'
  BY <1>1, <1>4 DEF IInv, TypeOK
<1>6. PairingLasts' /\ RolesSeen'
  BY <1>1 DEF IInv, PairingLasts, UsersAreKept, Loaded, PairingGivesAccess, RolesSeen
<1>7. StopWaits'
  BY <1>1, <1>4 DEF IInv, StopWaits
<1>8. SavesMemory' /\ RunEndsStopped' /\ LockedFor' /\ SetUp'
  BY <1>1 DEF IInv, SavesMemory, Loaded, RunEndsStopped, LockedFor, SetUp, HasWork
<1> QED
  BY <1>4, <1>5, <1>6, <1>7, <1>8 DEF IInv

LEMMA StopKeeps ==
    ASSUME IInv, pc = "locked", queue # <<>>, Head(queue).what = "stop", Stop,
           UNCHANGED disk
    PROVE  IInv'
<1> DEFINE ended == [l \in 1..Len(Listeners) |-> [what |-> "gone", of |-> l]]
<1>1. /\ stopped' = TRUE /\ queue' = Tail(queue) \o ended /\ pc' = "popping"
      /\ UNCHANGED <<writing, reset, iam, unsaved, setup, sig, works, item>>
  BY DEF Stop
<1>2. ended \in Seq(Lambdas) /\ \A k \in 1..Len(ended) : ended[k].what = "gone"
  <2>1. \A l \in 1..Len(Listeners) : [what |-> "gone", of |-> l] \in Lambdas
    BY DEF Lambdas
  <2> QED
    BY <2>1, SevenListeners
<1>3. Delivers(ended, Len(item))
  BY <1>2 DEF Delivers
<1>4. \A i : Head(queue) # [what |-> "deliver", of |-> i]
  OBVIOUS
<1> HIDE DEF ended
<1>5. queue' \in Seq(Lambdas') /\ ItemsWait' /\ Delivers(queue, Len(item))'
  BY <1>1, <1>2, <1>3, <1>4, RestWaits
<1>6. TypeOK'
  BY <1>1, <1>5 DEF IInv, TypeOK
<1>7. PairingLasts' /\ RolesSeen'
  BY <1>1 DEF IInv, PairingLasts, UsersAreKept, Loaded, PairingGivesAccess, RolesSeen
<1>8. SavesMemory' /\ RunEndsStopped' /\ StopWaits' /\ LockedFor' /\ SetUp'
  BY <1>1 DEF IInv, SavesMemory, Loaded, RunEndsStopped, StopWaits, LockedFor, SetUp, HasWork
<1> QED
  BY <1>5, <1>6, <1>7, <1>8 DEF IInv

LEMMA DeliverKeeps ==
    ASSUME IInv, pc = "locked", queue # <<>>, Head(queue).what = "deliver",
           Deliver(Head(queue).of), UNCHANGED disk
    PROVE  IInv'
<1> DEFINE i == Head(queue).of
<1>1. queue \in Seq(Lambdas) /\ item \in Seq(Items)
  BY DEF IInv, TypeOK, Items
<1>2. i \in 1..Len(item)
  <2>1. Delivers(queue, Len(item)) /\ Head(queue) = queue[1] /\ 1 \in 1..Len(queue)
    BY <1>1 DEF IInv
  <2> QED
    BY <2>1 DEF Delivers
<1> DEFINE it == item[i]
<1>3. it \in Items
  BY <1>1, <1>2
<1>4. CASE ~item[i].cb
  BY <1>4, EndsKeeps DEF Deliver, IInv, TypeOK, Disks
<1>5. CASE item[i].cb
  <2> DEFINE action == ActionOf(Listeners[item[i].at])
  <2> DEFINE got == IF action = "none" \/ CheckAccess(iam[item[i].from], action)
                    THEN "served" ELSE "refused"
  <2>1. /\ item' = [item EXCEPT ![i].got = got]
        /\ queue' = Tail(queue) /\ pc' = "popping"
        /\ UNCHANGED <<writing, reset, iam, unsaved, setup, sig, stopped, works>>
    BY <1>5 DEF Deliver
  <2>2. got \in {"served", "refused"}
    OBVIOUS
  <2>3. \/ action = "none"
        \/ CheckAccess(iam[item[i].from], action) <=> iam[item[i].from] = "Administrator"
    <3>1. iam[it.from] \in Roles
      BY <1>3 DEF Items, IInv, TypeOK, States
    <3>2. action \in {"none", "Webrtc:VideoStream", "Webrtc:FileStream"}
      BY ActionsAsked
    <3> HIDE DEF action
    <3> QED
      BY <3>1, <3>2, AccessOfPaired
  <2>4. /\ got = "refused" => iam[item[i].from] # "Administrator"
        /\ got = "served" /\ action # "none" => iam[item[i].from] = "Administrator"
    BY <2>3
  <2> HIDE DEF i, it, got, action
  <2>5. /\ item' \in Seq(Items) /\ Len(item') = Len(item)
        /\ \A j \in 1..Len(item) :
             /\ item'[j].at = item[j].at /\ item'[j].from = item[j].from
             /\ item'[j].roles = item[j].roles
             /\ item'[j].got = IF j = i THEN got ELSE item[j].got
    <3> DEFINE new == [it EXCEPT !.got = got]
    <3>1. /\ new \in Items /\ new.at = it.at /\ new.from = it.from
          /\ new.roles = it.roles /\ new.got = got
      BY <1>3, <2>2 DEF Items
    <3>2. item' = [item EXCEPT ![i] = new]
      BY <2>1 DEF it
    <3> HIDE DEF new
    <3>3. /\ item' \in Seq(Items) /\ Len(item') = Len(item)
          /\ \A j \in 1..Len(item) :
               item'[j] = IF j = i THEN new ELSE item[j]
      BY <1>1, <1>2, <3>1, <3>2
    <3> QED
      BY <3>1, <3>3 DEF it
  <2>6. /\ Head(queue) # [what |-> "stop"]
        /\ \A j \in 1..Len(item) :
             j # i => Head(queue) # [what |-> "deliver", of |-> j]
    BY DEF i
  <2>7. \A j \in 1..Len(item) :
          item'[j].got = "none" =>
            item[j].got = "none" /\ Head(queue) # [what |-> "deliver", of |-> j]
    BY <2>2, <2>5, <2>6
  <2>8. /\ queue' \in Seq(Lambdas') /\ ItemsWait' /\ Delivers(queue, Len(item))'
        /\ ~Waits(queue, [what |-> "stop"]) \/ Waits(queue', [what |-> "stop"])
    <3>1. queue' = Tail(queue) /\ Len(item') = Len(item)
      BY <2>1, <2>5
    <3> QED
      BY <1>1, <2>6, <2>7, <3>1, TailRests, RestWaits
  <2>9. TypeOK'
    BY <2>1, <2>5, <2>8 DEF IInv, TypeOK, Items
  <2>10. RolesSeen'
    BY <2>1, <2>5 DEF IInv, RolesSeen
  <2>11. PairingLasts'
    <3>1. UsersAreKept'
      <4>1. UsersAreKept /\ Loaded
        BY DEF IInv, PairingLasts, Loaded
      <4>2. UNCHANGED <<iam, disk, unsaved, writing>>
        BY <2>1
      <4> QED
        BY <4>1, <4>2 DEF UsersAreKept
    <3>2. PairingGivesAccess'
      <4> SUFFICES ASSUME NEW j \in 1..Len(item)
                   PROVE  ActionOf(Listeners[item'[j].at]) # "none" =>
                            /\ item'[j].got = "served" =>
                                 "Administrator" \in item'[j].roles
                            /\ item'[j].got = "refused" =>
                                 item'[j].roles # {"Administrator"}
        BY <2>1, <2>5 DEF PairingGivesAccess
      <4>1. CASE j = i
        <5>1. iam[item[i].from] \in item[i].roles
          BY <1>2 DEF IInv, RolesSeen
        <5>2. item'[j].roles = item[i].roles /\ item'[j].got = got
          BY <2>5, <4>1
        <5>3. item'[j].at = item[i].at
          BY <2>5, <4>1
        <5> QED
          BY <2>2, <2>4, <5>1, <5>2, <5>3 DEF action
      <4>2. CASE j # i
        BY <2>5, <4>2 DEF IInv, PairingLasts, PairingGivesAccess
      <4> QED
        BY <4>1, <4>2
    <3> QED
      BY <3>1, <3>2 DEF PairingLasts
  <2>12. StopWaits'
    BY <2>1, <2>8 DEF IInv, StopWaits
  <2>13. SavesMemory' /\ RunEndsStopped' /\ LockedFor' /\ SetUp'
    BY <2>1 DEF IInv, SavesMemory, Loaded, RunEndsStopped, LockedFor, SetUp, HasWork
  <2> QED
    BY <2>8, <2>9, <2>10, <2>11, <2>12, <2>13 DEF IInv
<1> QED
  BY <1>4, <1>5

LEMMA RunsEventKeeps == IInv /\ RunsEvent => IInv'
  BY DeliverKeeps, StopKeeps, GoneKeeps DEF RunsEvent

LEMMA LockKeeps == IInv /\ Lock => IInv'
<1> SUFFICES ASSUME IInv, Lock PROVE IInv'
  OBVIOUS
<1>1. /\ pc' = "locked" /\ pc = "popping" /\ (queue # <<>> \/ ~HasWork)
      /\ UNCHANGED <<disk, writing, memory>>
  BY DEF Lock
<1>2. TypeOK'
  BY <1>1 DEF IInv, TypeOK, Lambdas, memory
<1>3. PairingLasts' /\ RolesSeen'
  BY <1>1 DEF IInv, PairingLasts, UsersAreKept, Loaded, PairingGivesAccess, RolesSeen,
              memory
<1>4. SavesMemory' /\ RunEndsStopped' /\ StopWaits' /\ LockedFor' /\ SetUp'
  BY <1>1 DEF IInv, SavesMemory, Loaded, RunEndsStopped, StopWaits, LockedFor, SetUp, Waits,
              HasWork, memory
<1> QED
  BY <1>1, <1>2, <1>3, <1>4, QueueKept DEF IInv, memory

\* The queue is empty and there is no work: the stop was run, and every item delivered.
LEMMA RunReturnsKeeps == IInv /\ RunReturns => IInv'
<1> SUFFICES ASSUME IInv, RunReturns PROVE IInv'
  OBVIOUS
<1>1. /\ pc' = "returned" /\ pc = "locked" /\ queue = <<>>
      /\ UNCHANGED <<disk, writing, memory>>
  BY DEF RunReturns
<1>2. \A event : ~Waits(queue, event)
  BY <1>1 DEF Waits
<1>3. stopped /\ ~HasWork /\ \A i \in 1..Len(item) : item[i].got # "none"
  BY <1>1, <1>2 DEF IInv, LockedFor, StopWaits, ItemsWait, HasWork
<1>4. TypeOK'
  BY <1>1 DEF IInv, TypeOK, Lambdas, memory
<1>5. PairingLasts' /\ RolesSeen'
  BY <1>1 DEF IInv, PairingLasts, UsersAreKept, Loaded, PairingGivesAccess, RolesSeen,
              memory
<1>6. RunEndsStopped'
  BY <1>1, <1>3 DEF RunEndsStopped, HasWork, memory
<1>7. SavesMemory' /\ StopWaits' /\ LockedFor' /\ SetUp'
  BY <1>1 DEF IInv, SavesMemory, Loaded, StopWaits, LockedFor, SetUp, Waits, HasWork, memory
<1> QED
  BY <1>1, <1>4, <1>5, <1>6, <1>7, QueueKept DEF IInv, memory

LEMMA SignalKeeps == IInv /\ Signal => IInv'
<1> SUFFICES ASSUME IInv, Signal PROVE IInv'
  OBVIOUS
<1> DEFINE event == [what |-> "stop"]
<1>1. /\ UNCHANGED <<disk, writing, reset, iam, unsaved, setup, stopped, works, item>>
      /\ sig = "armed"
      /\ \/ pc = "locked" /\ pc' = "stuck" /\ UNCHANGED <<sig, queue>>
         \/ /\ pc \in {"popping", "blocked"} /\ pc' = pc
            /\ sig' = "posted" /\ queue' = Append(queue, event)
  BY DEF Signal
<1>2. queue \in Seq(Lambdas) /\ event \in Lambdas
  BY DEF IInv, TypeOK, Lambdas
<1>3. TypeOK'
  <2>1. queue' \in Seq(Lambdas')
    BY <1>1, <1>2 DEF Lambdas
  <2> QED
    BY <1>1, <2>1 DEF IInv, TypeOK
<1>4. PairingLasts' /\ RolesSeen'
  BY <1>1 DEF IInv, PairingLasts, UsersAreKept, Loaded, PairingGivesAccess, RolesSeen
<1>5. ItemsWait'
  <2> SUFFICES ASSUME NEW i \in 1..Len(item), item[i].got = "none"
               PROVE  Waits(queue', [what |-> "deliver", of |-> i])
    BY <1>1 DEF ItemsWait
  <2>1. Waits(queue, [what |-> "deliver", of |-> i])
    BY DEF IInv, ItemsWait
  <2> QED
    BY <1>1, <1>2, <2>1, AppendWaits
<1>6. Delivers(queue, Len(item))'
  <2>1. Len(item) \in Nat /\ Delivers(queue, Len(item)) /\ event.what # "deliver"
    BY DEF IInv, TypeOK
  <2> HIDE DEF event
  <2>2. Delivers(Append(queue, event), Len(item))
    BY <1>2, <2>1, AppendDelivers
  <2> QED
    BY <1>1, <2>1, <2>2
<1>7. StopWaits'
  <2>1. Waits(Append(queue, event), [what |-> "stop"])
    BY <1>2, AppendWaits
  <2> QED
    BY <1>1, <2>1 DEF IInv, StopWaits
<1>8. SavesMemory' /\ RunEndsStopped' /\ LockedFor' /\ SetUp'
  BY <1>1 DEF IInv, SavesMemory, Loaded, RunEndsStopped, LockedFor, SetUp, HasWork
<1> QED
  BY <1>3, <1>4, <1>5, <1>6, <1>7, <1>8 DEF IInv

LEMMA WorkReleasedKeeps == IInv /\ WorkReleased => IInv'
<1> SUFFICES ASSUME IInv, WorkReleased PROVE IInv'
  OBVIOUS
<1>1. /\ sig = "posted" /\ sig' = "over" /\ pc # "locked"
      /\ UNCHANGED <<pc, disk, writing, reset, iam, unsaved, setup, queue, stopped, works,
                     item>>
  BY DEF WorkReleased
<1>2. TypeOK'
  BY <1>1 DEF IInv, TypeOK, Lambdas
<1>3. PairingLasts' /\ RolesSeen'
  BY <1>1 DEF IInv, PairingLasts, UsersAreKept, Loaded, PairingGivesAccess, RolesSeen
<1>4. SavesMemory' /\ RunEndsStopped' /\ StopWaits' /\ LockedFor' /\ SetUp'
  BY <1>1
     DEF IInv, SavesMemory, Loaded, RunEndsStopped, StopWaits, LockedFor, SetUp, Waits, HasWork
<1> QED
  BY <1>1, <1>2, <1>3, <1>4, QueueKept DEF IInv

\* A connection is made while there is something to run, or lets its work go.
LEMMA WorksKeep ==
    ASSUME IInv, NEW c \in Peers, Connects(c) \/ Releases(c) \/ Leaks(c)
    PROVE  IInv'
<1>1. /\ pc # "locked"
      /\ UNCHANGED <<pc, disk, writing, reset, iam, unsaved, setup, queue, sig, stopped,
                     item>>
  BY DEF Connects, Releases, Leaks, Work
<1>2. pc = "popping" \/ works[c] = "held"
  BY DEF Connects, Releases, Leaks, Work
<1>3. TypeOK'
  <2>1. works' \in [Peers -> {"none", "held", "kept", "released"}]
    BY DEF Connects, Releases, Leaks, Work, IInv, TypeOK
  <2> QED
    BY <1>1, <2>1 DEF IInv, TypeOK, Lambdas
<1>4. PairingLasts' /\ RolesSeen'
  BY <1>1 DEF IInv, PairingLasts, UsersAreKept, Loaded, PairingGivesAccess, RolesSeen
<1>5. RunEndsStopped'
  <2>1. pc # "returned"
    BY <1>2 DEF IInv, RunEndsStopped, HasWork
  <2> QED
    BY <1>1, <2>1 DEF RunEndsStopped
<1>6. SavesMemory' /\ StopWaits' /\ LockedFor' /\ SetUp'
  BY <1>1 DEF IInv, SavesMemory, Loaded, StopWaits, LockedFor, SetUp, Waits
<1> QED
  BY <1>1, <1>3, <1>4, <1>5, <1>6, QueueKept DEF IInv

LEMMA BlocksKeeps == IInv /\ MainBlocks => IInv'
<1> SUFFICES ASSUME IInv, MainBlocks PROVE IInv'
  OBVIOUS
<1>1. /\ pc \in {"popping", "returned"} /\ pc' = "blocked"
      /\ UNCHANGED <<disk, writing, memory>>
  BY DEF MainBlocks
<1>2. TypeOK'
  BY <1>1 DEF IInv, TypeOK, Lambdas, memory
<1>3. PairingLasts' /\ RolesSeen'
  BY <1>1 DEF IInv, PairingLasts, UsersAreKept, Loaded, PairingGivesAccess, RolesSeen,
              memory
<1>4. SavesMemory' /\ RunEndsStopped' /\ StopWaits' /\ LockedFor' /\ SetUp'
  BY <1>1 DEF IInv, SavesMemory, Loaded, RunEndsStopped, StopWaits, LockedFor, SetUp, Waits,
              memory
<1> QED
  BY <1>1, <1>2, <1>3, <1>4, QueueKept DEF IInv, memory
-----------------------------------------------------------------------------
\* The invariant.

LEMMA NextKeeps == IInv /\ [Next]_vars => IInv'
<1> SUFFICES ASSUME IInv, [Next]_vars PROVE IInv'
  OBVIOUS
<1>1. CASE UNCHANGED vars
  <2>1. UNCHANGED <<pc, disk, writing, memory>>
    BY <1>1 DEF vars
  <2>2. TypeOK' /\ PairingLasts' /\ RolesSeen'
    BY <2>1 DEF IInv, TypeOK, Lambdas, PairingLasts, UsersAreKept, Loaded,
                PairingGivesAccess, RolesSeen, memory
  <2>3. SavesMemory' /\ RunEndsStopped' /\ StopWaits' /\ LockedFor' /\ SetUp'
    BY <2>1 DEF IInv, SavesMemory, Loaded, RunEndsStopped, StopWaits, LockedFor, SetUp,
                Waits, HasWork, memory
  <2> QED
    BY <2>1, <2>2, <2>3, QueueKept DEF IInv, memory
<1>2. CASE Launch
  BY <1>2, LaunchKeeps
<1>3. CASE Main
  <2>1. ASSUME NEW file \in {"config", "state"}, OpensDefault(file) \/ WritesDefault(file)
        PROVE  IInv'
    BY <2>1, OpensDefaultKeeps, WritesDefaultKeeps
  <2>2. CASE ReadsConfig \/ ReadsState \/ Starts
    BY <2>2, ReadsKeeps
  <2>3. CASE CoapListener \/ EventsListener \/ StreamListener
    BY <2>3, ArmsKeeps DEF CoapListener, EventsListener, StreamListener
  <2>4. CASE SetsCallback
    BY <2>4, SetsCallbackKeeps
  <2>5. CASE Lock \/ RunsEvent \/ RunReturns
    BY <2>5, LockKeeps, RunsEventKeeps, RunReturnsKeeps
  <2>6. CASE Exits
    BY <2>6, EndsKeeps DEF Exits, IInv, TypeOK, Disks
  <2> QED
    BY <1>3, <2>1, <2>2, <2>3, <2>4, <2>5, <2>6 DEF Main
<1>4. CASE Saved \/ Signal \/ WorkReleased \/ MainBlocks
  BY <1>4, SavedKeeps, SignalKeeps, WorkReleasedKeeps, BlocksKeeps
<1>5. CASE Killed
  BY <1>5, EndsKeeps DEF Killed, IInv, TypeOK, Disks
<1>6. ASSUME NEW u \in Users, Pairs(u) \/ SetsRole(u) \/ Removes(u)
      PROVE  IInv'
  BY <1>6, UsersKeep
<1>7. ASSUME NEW u \in Users, NewStream(u) \/ NewCoapRequest(u)
      PROVE  IInv'
  BY <1>7, TakesKeeps DEF NewStream, NewCoapRequest
<1>8. CASE NewEvent
  BY <1>8, TakesKeeps DEF NewEvent
<1>9. ASSUME NEW c \in Peers, Connects(c) \/ Releases(c) \/ Leaks(c)
      PROVE  IInv'
  BY <1>9, WorksKeep
<1> QED
  BY <1>1, <1>2, <1>3, <1>4, <1>5, <1>6, <1>7, <1>8, <1>9 DEF Next

LEMMA SpecIInv == SafeSpec => []IInv
  BY InitIInv, NextKeeps, PTL DEF SafeSpec

\* The variables keep their types.
THEOREM TypeCorrect == SafeSpec => []TypeOK
<1>1. IInv => TypeOK
  BY DEF IInv
<1> QED
  BY <1>1, SpecIInv, PTL

\* What was saved of a user is known to every later process that loads the state, whichever
\* saves failed (nabto_device.cpp:324), and the callbacks serve administrators and nobody
\* else (main.cpp:176).
THEOREM PairingIsKept == SafeSpec => []PairingLasts
<1>1. IInv => PairingLasts
  BY DEF IInv
<1> QED
  BY <1>1, SpecIInv, PTL

\* run() returns only when the device was stopped, no connection holds work, and all that
\* the listeners took was delivered (main.cpp:40, event_queue_impl.cpp:54).
THEOREM RunEndsInOrder == SafeSpec => []RunEndsStopped
<1>1. IInv => RunEndsStopped
  BY DEF IInv
<1> QED
  BY <1>1, SpecIInv, PTL
-----------------------------------------------------------------------------
(***************************************************************************)
(* DemoRequests, for any number of streams and requests and any length of  *)
(* the file.  The event queue of the download, lambdas here, holds at most *)
(* one turn of it, which says with fileStreamFut_ how far it is; a request *)
(* is in the queue or on the thread of its CurlAsync, and unanswered until *)
(* the one that has it is done with it.                                    *)
(***************************************************************************)
CONSTANTS Requests, ShortKey
VARIABLES req, invoking, crashed

Own == INSTANCE DemoRequests

\* What can be on the event queue: what there is for the download is its turn.
TurnKinds == {"first", "next", "drop"}
Events == [what : {"coap"}, of : Requests] \cup [what : {"file"}, of : Files]
            \cup {[what |-> "first"], [what |-> "next"], [what |-> "drop"]}

\* The turn in a queue.
HoldsTurn(q, t) ==
    IF t = "none" THEN \A k \in 1..Len(q) : q[k].what \notin TurnKinds
    ELSE \E k \in 1..Len(q) :
            /\ q[k].what = t
            /\ \A j \in 1..Len(q) : q[j].what \in TurnKinds => j = k

\* The streams that wait in a queue were offered, and the requests have no answer; each
\* is there once.
OffersIn(q, st) ==
    \A k \in 1..Len(q) : q[k].what = "file" =>
        /\ st[q[k].of] = "offered"
        /\ \A j \in 1..Len(q) : q[j].what = "file" /\ q[j].of = q[k].of => j = k

NotAnswered(q) == q.answers = <<>> /\ q.frees = 0

RequestsIn(q, rs) ==
    \A k \in 1..Len(q) : q[k].what = "coap" =>
        /\ rs[q[k].of].at = "queued" /\ NotAnswered(rs[q[k].of])
        /\ \A j \in 1..Len(q) : q[j].what = "coap" /\ q[j].of = q[k].of => j = k

\* How far the download is when its turn is t; a file that is not there stays at its
\* start.
AtTurn(t) ==
    /\ ~app.clash
    /\ t # "none" => app.fut = "idle"
    /\ t # "none" \/ app.fut # "idle" => app.stream \in Files /\ stream[app.stream] = "open"
    /\ t = "first" \/ app.fut = "accept" => sent[app.stream] = 0
    /\ t = "next" \/ app.fut = "write" =>
        IF FileExists THEN sent[app.stream] + app.left = Blocks
        ELSE sent[app.stream] = 0 /\ app.left > 0
    /\ app.fut = "close" => sent[app.stream] = Blocks

DownloadOK == \E t \in TurnKinds \cup {"none"} : HoldsTurn(lambdas, t) /\ AtTurn(t)

StreamsOK ==
    \A f \in Files :
        /\ stream[f] = "open" => f = app.stream
        /\ stream[f] \in {"none", "offered"} => sent[f] = 0
        /\ stream[f] = "freed" => sent[f] \in {0, Blocks}

\* What a request was answered, by where it is.
RequestOK(q) ==
    /\ q.at \in {"none", "performing", "silent", "performed"} => NotAnswered(q)
    /\ q.at = "queued" =>
        NotAnswered(q) \/ (q.answers \in {<<205>>, <<400>>, <<500>>} /\ q.frees = 1)
    /\ q.at \in {"called", "ended"} =>
        /\ q.answers = <<IF Own!Verdict(q) = "valid" THEN IF q.known THEN 201 ELSE 404 ELSE 401>>
        /\ q.frees = 1

FilesIInv == OffersIn(lambdas, stream) /\ DownloadOK /\ StreamsOK
RequestsIInv == RequestsIn(lambdas, req) /\ \A r \in Requests : RequestOK(req[r])
DemoIInv == Own!TypeOK /\ FilesIInv /\ RequestsIInv

DemoSafe == Own!Init /\ [][Own!Next]_(Own!vars)
-----------------------------------------------------------------------------
\* Queues.

LEMMA EventKinds ==
    ASSUME NEW e \in Events
    PROVE  /\ e.what \in TurnKinds \cup {"file", "coap"}
           /\ e.what = "file" => e.of \in Files
           /\ e.what = "coap" => e.of \in Requests
BY DEF Events, TurnKinds

LEMMA AppendedEvents ==
    ASSUME NEW q \in Seq(Events), NEW e \in Events
    PROVE  /\ Append(q, e) \in Seq(Events)
           /\ Len(Append(q, e)) = Len(q) + 1
           /\ Append(q, e)[Len(q) + 1] = e
           /\ \A k \in 1..Len(q) : k \in 1..Len(q) + 1 /\ Append(q, e)[k] = q[k]
           /\ \A k \in 1..Len(Append(q, e)) : k = Len(q) + 1 \/ k \in 1..Len(q)
OBVIOUS

LEMMA TailEvents ==
    ASSUME NEW q \in Seq(Events), q # <<>>
    PROVE  /\ Tail(q) \in Seq(Events) /\ Head(q) = q[1] /\ Head(q) \in Events
           /\ 1 \in 1..Len(q)
           /\ \A k \in 1..Len(Tail(q)) :
                k + 1 \in 1..Len(q) /\ k + 1 # 1 /\ Tail(q)[k] = q[k + 1]
           /\ \A k \in 1..Len(q) : k # 1 => k - 1 \in 1..Len(Tail(q)) /\ Tail(q)[k - 1] = q[k]
OBVIOUS

LEMMA AppendOther ==
    ASSUME NEW q \in Seq(Events), NEW e \in Events, e.what \notin TurnKinds,
           NEW t, HoldsTurn(q, t)
    PROVE  HoldsTurn(Append(q, e), t)
BY AppendedEvents DEF HoldsTurn

LEMMA AppendTurn ==
    ASSUME NEW q \in Seq(Events), NEW t \in TurnKinds, HoldsTurn(q, "none")
    PROVE  HoldsTurn(Append(q, [what |-> t]), t)
<1> DEFINE e == [what |-> t]
<1>1. e \in Events /\ e.what = t /\ t # "none"
  BY DEF Events, TurnKinds
<1> HIDE DEF e
<1>2. Len(q) + 1 \in 1..Len(Append(q, e)) /\ Append(q, e)[Len(q) + 1] = e
  BY <1>1, AppendedEvents
<1>3. \A j \in 1..Len(Append(q, e)) : Append(q, e)[j].what \in TurnKinds => j = Len(q) + 1
  BY <1>1, AppendedEvents DEF HoldsTurn
<1>4. HoldsTurn(Append(q, e), t)
  BY <1>1, <1>2, <1>3 DEF HoldsTurn
<1> QED
  BY <1>4 DEF e

LEMMA TailOther ==
    ASSUME NEW q \in Seq(Events), q # <<>>, NEW t, HoldsTurn(q, t),
           t = "none" \/ Head(q).what # t
    PROVE  HoldsTurn(Tail(q), t)
<1>1. CASE t = "none"
  BY <1>1, TailEvents DEF HoldsTurn
<1>2. CASE t # "none"
  <2>1. PICK k \in 1..Len(q) :
            q[k].what = t /\ \A j \in 1..Len(q) : q[j].what \in TurnKinds => j = k
    BY <1>2 DEF HoldsTurn
  <2>2. k # 1 /\ k - 1 \in 1..Len(Tail(q)) /\ Tail(q)[k - 1].what = t
    BY <1>2, <2>1, TailEvents
  <2>3. \A j \in 1..Len(Tail(q)) : Tail(q)[j].what \in TurnKinds => j = k - 1
    BY <2>1, TailEvents
  <2> QED
    BY <1>2, <2>2, <2>3 DEF HoldsTurn
<1> QED
  BY <1>1, <1>2

LEMMA TailTurn ==
    ASSUME NEW q \in Seq(Events), q # <<>>, NEW t, HoldsTurn(q, t), Head(q).what \in TurnKinds
    PROVE  t # "none" /\ Head(q).what = t /\ HoldsTurn(Tail(q), "none")
<1>1. t # "none"
  BY TailEvents DEF HoldsTurn
<1>2. PICK k \in 1..Len(q) :
          q[k].what = t /\ \A j \in 1..Len(q) : q[j].what \in TurnKinds => j = k
  BY <1>1 DEF HoldsTurn
<1>3. k = 1 /\ Head(q).what = t
  BY <1>2, TailEvents
<1>4. \A j \in 1..Len(Tail(q)) : Tail(q)[j].what \notin TurnKinds
  BY <1>2, <1>3, TailEvents
<1> QED
  BY <1>1, <1>3, <1>4 DEF HoldsTurn

\* The streams and requests in a queue.
LEMMA OffersAppend ==
    ASSUME NEW q \in Seq(Events), NEW e \in Events, NEW st, NEW st2, OffersIn(q, st),
           \A f \in Files : st[f] = "offered" => st2[f] = "offered",
           e.what = "file" => st[e.of] # "offered" /\ st2[e.of] = "offered"
    PROVE  OffersIn(Append(q, e), st2)
<1>1. \A k \in 1..Len(q) : q[k].what = "file" =>
        q[k].of \in Files /\ st2[q[k].of] = "offered" /\ (e.what = "file" => q[k].of # e.of)
  BY EventKinds DEF OffersIn
<1> QED
  BY <1>1, AppendedEvents DEF OffersIn

LEMMA OffersTail ==
    ASSUME NEW q \in Seq(Events), q # <<>>, NEW st, NEW st2, OffersIn(q, st),
           \A f \in Files :
              st[f] = "offered" =>
                  st2[f] = "offered" \/ (Head(q).what = "file" /\ Head(q).of = f)
    PROVE  OffersIn(Tail(q), st2)
<1>1. ASSUME NEW k \in 1..Len(Tail(q)), Tail(q)[k].what = "file"
      PROVE  st2[Tail(q)[k].of] = "offered"
  <2>1. k + 1 \in 1..Len(q) /\ k + 1 # 1 /\ Tail(q)[k] = q[k + 1] /\ Head(q) = q[1]
    BY TailEvents
  <2>2. q[k + 1].of \in Files /\ st[q[k + 1].of] = "offered"
    BY <1>1, <2>1, EventKinds DEF OffersIn
  <2>3. ~(Head(q).what = "file" /\ Head(q).of = q[k + 1].of)
    BY <1>1, <2>1, TailEvents DEF OffersIn
  <2> QED
    BY <2>1, <2>2, <2>3
<1>2. \A k, j \in 1..Len(Tail(q)) :
        Tail(q)[k].what = "file" /\ Tail(q)[j].what = "file" /\ Tail(q)[j].of = Tail(q)[k].of
            => j = k
  BY TailEvents DEF OffersIn
<1> QED
  BY <1>1, <1>2 DEF OffersIn

LEMMA OffersKept ==
    ASSUME NEW q \in Seq(Events), NEW st, NEW st2, OffersIn(q, st),
           \A f \in Files : st[f] = "offered" => st2[f] = "offered"
    PROVE  OffersIn(q, st2)
<1>1. \A k \in 1..Len(q) : q[k].what = "file" => q[k].of \in Files
  BY EventKinds
<1> QED
  BY <1>1 DEF OffersIn

Waiting(q) == q.at = "queued" /\ NotAnswered(q)

LEMMA RequestsAppend ==
    ASSUME NEW q \in Seq(Events), NEW e \in Events, NEW rs, NEW rs2, RequestsIn(q, rs),
           \A r \in Requests : Waiting(rs[r]) => Waiting(rs2[r]),
           e.what = "coap" => ~Waiting(rs[e.of]) /\ Waiting(rs2[e.of])
    PROVE  RequestsIn(Append(q, e), rs2)
<1>1. \A k \in 1..Len(q) : q[k].what = "coap" =>
        q[k].of \in Requests /\ Waiting(rs2[q[k].of]) /\ (e.what = "coap" => q[k].of # e.of)
  BY EventKinds DEF RequestsIn, Waiting
<1> QED
  BY <1>1, AppendedEvents DEF RequestsIn, Waiting

LEMMA RequestsTail ==
    ASSUME NEW q \in Seq(Events), q # <<>>, NEW rs, NEW rs2, RequestsIn(q, rs),
           \A r \in Requests :
              Waiting(rs[r]) => Waiting(rs2[r]) \/ (Head(q).what = "coap" /\ Head(q).of = r)
    PROVE  RequestsIn(Tail(q), rs2)
<1>1. ASSUME NEW k \in 1..Len(Tail(q)), Tail(q)[k].what = "coap"
      PROVE  Waiting(rs2[Tail(q)[k].of])
  <2>1. k + 1 \in 1..Len(q) /\ k + 1 # 1 /\ Tail(q)[k] = q[k + 1] /\ Head(q) = q[1]
    BY TailEvents
  <2>2. q[k + 1].of \in Requests /\ Waiting(rs[q[k + 1].of])
    BY <1>1, <2>1, EventKinds DEF RequestsIn, Waiting
  <2>3. ~(Head(q).what = "coap" /\ Head(q).of = q[k + 1].of)
    BY <1>1, <2>1, TailEvents DEF RequestsIn
  <2> QED
    BY <2>1, <2>2, <2>3
<1>2. \A k, j \in 1..Len(Tail(q)) :
        Tail(q)[k].what = "coap" /\ Tail(q)[j].what = "coap" /\ Tail(q)[j].of = Tail(q)[k].of
            => j = k
  BY TailEvents DEF RequestsIn
<1> QED
  BY <1>1, <1>2 DEF RequestsIn, Waiting

LEMMA RequestsKept ==
    ASSUME NEW q \in Seq(Events), NEW rs, NEW rs2, RequestsIn(q, rs),
           \A r \in Requests : Waiting(rs[r]) => Waiting(rs2[r])
    PROVE  RequestsIn(q, rs2)
<1>1. \A k \in 1..Len(q) : q[k].what = "coap" => q[k].of \in Requests
  BY EventKinds
<1> QED
  BY <1>1 DEF RequestsIn, Waiting
-----------------------------------------------------------------------------
\* A step of the requests, and one of the streams, leave the other half alone.

Downloads == [stream : Files \cup {None}, left : 0..Blocks, clash : BOOLEAN,
              fut : {"idle", "accept", "write", "close"}]
Fates == {"none", "offered", "open", "freed", "left"}

FilesTyped ==
    /\ lambdas \in Seq(Events) /\ app \in Downloads
    /\ stream \in [Files -> Fates] /\ sent \in [Files -> 0..Blocks]

RequestsTyped ==
    /\ req \in [Requests -> Own!Reqs]
    /\ invoking \in Requests \cup {None} /\ crashed \in BOOLEAN

LEMMA TypeParts == Own!TypeOK <=> FilesTyped /\ RequestsTyped
BY DEF Own!TypeOK, FilesTyped, RequestsTyped, Downloads, Fates, Events

LEMMA TypePartsNext == Own!TypeOK' <=> FilesTyped' /\ RequestsTyped'
BY DEF Own!TypeOK, FilesTyped, RequestsTyped, Downloads, Fates, Events

LEMMA InitDemo == Own!FileAssumption /\ Own!Init => DemoIInv
<1> SUFFICES ASSUME Own!FileAssumption, Own!Init PROVE DemoIInv
  OBVIOUS
<1>1. FilesTyped
  BY DEF Own!Init, FilesTyped, Downloads, Fates, Own!FileAssumption
<1>2. RequestsTyped
  <2> DEFINE q == [kind |-> "none", at |-> "none", token |-> "good", fetched |-> FALSE,
                   known |-> FALSE, assigned |-> FALSE,
                   answers |-> <<>>, frees |-> 0, proof |-> "none"]
  <2>1. q \in Own!Reqs
    BY DEF Own!Reqs, Own!Tokens
  <2>2. req = [r \in Requests |-> q] /\ invoking = None /\ crashed = FALSE
    BY DEF Own!Init
  <2> HIDE DEF q
  <2> QED
    BY <2>1, <2>2 DEF RequestsTyped
<1>3. OffersIn(lambdas, stream) /\ RequestsIn(lambdas, req) /\ HoldsTurn(lambdas, "none")
  BY DEF Own!Init, OffersIn, RequestsIn, HoldsTurn
<1>4. AtTurn("none") /\ StreamsOK
  BY DEF Own!Init, AtTurn, StreamsOK
<1>5. \A r \in Requests : RequestOK(req[r])
  BY DEF Own!Init, RequestOK, NotAnswered
<1> QED
  BY <1>1, <1>2, <1>3, <1>4, <1>5, TypeParts DEF DemoIInv, FilesIInv, RequestsIInv, DownloadOK

LEMMA StreamOpensKeeps ==
    ASSUME DemoIInv, NEW f \in Files, Own!StreamOpens(f)
    PROVE  DemoIInv'
<1> DEFINE e == [what |-> "file", of |-> f]
<1>1. /\ stream[f] = "none" /\ stream' = [stream EXCEPT ![f] = "offered"]
      /\ lambdas' = Append(lambdas, e) /\ UNCHANGED <<app, sent, req, invoking, crashed>>
  BY DEF Own!StreamOpens
<1>2. e \in Events /\ e.what = "file" /\ e.of = f
  BY DEF Events
<1> HIDE DEF e
<1>3. FilesTyped /\ RequestsTyped
  BY TypeParts DEF DemoIInv
<1>4. FilesTyped' /\ RequestsTyped'
  BY <1>1, <1>2, <1>3 DEF FilesTyped, RequestsTyped, Fates
<1>5. /\ OffersIn(lambdas, stream) /\ RequestsIn(lambdas, req) /\ lambdas \in Seq(Events)
      /\ \A r \in Requests : RequestOK(req[r])
  BY <1>3 DEF DemoIInv, FilesIInv, RequestsIInv, FilesTyped
<1>6. /\ \A g \in Files : g # f => stream'[g] = stream[g]
      /\ stream'[f] = "offered"
  BY <1>1, <1>3 DEF FilesTyped
<1>7. OffersIn(lambdas', stream')
  <2>1. \A g \in Files : stream[g] = "offered" => stream'[g] = "offered"
    BY <1>6
  <2>2. stream[e.of] # "offered" /\ stream'[e.of] = "offered"
    BY <1>1, <1>2, <1>6
  <2>3. OffersIn(Append(lambdas, e), stream')
    BY <1>2, <1>5, <2>1, <2>2, OffersAppend
  <2> QED
    BY <1>1, <2>3
<1>8. RequestsIn(lambdas', req')
  BY <1>1, <1>2, <1>5, RequestsAppend
<1>9. PICK t \in TurnKinds \cup {"none"} : HoldsTurn(lambdas, t) /\ AtTurn(t)
  BY DEF DemoIInv, FilesIInv, DownloadOK
<1>10. HoldsTurn(lambdas', t)
  BY <1>1, <1>2, <1>5, <1>9, AppendOther DEF TurnKinds
<1>11. AtTurn(t)'
  <2>1. app.stream \in Files /\ stream[app.stream] = "open" => stream'[app.stream] = "open"
    BY <1>1, <1>6
  <2> QED
    BY <1>1, <1>9, <2>1 DEF AtTurn
<1>12. StreamsOK'
  BY <1>1, <1>6 DEF DemoIInv, FilesIInv, StreamsOK
<1> QED
  BY <1>1, <1>4, <1>5, <1>7, <1>8, <1>10, <1>11, <1>12, TypePartsNext
     DEF DemoIInv, FilesIInv, RequestsIInv, DownloadOK
-----------------------------------------------------------------------------
\* The SDK resolves the future: the download's turn is posted, and none was there.
LEMMA ResolvesKeeps ==
    ASSUME DemoIInv, Own!Resolves
    PROVE  DemoIInv'
<1>1. /\ app.fut # "idle" /\ app' = [app EXCEPT !.fut = "idle"]
      /\ UNCHANGED <<sent, req, invoking, crashed>>
  BY DEF Own!Resolves
<1>2. PICK t \in TurnKinds \cup {"none"} : HoldsTurn(lambdas, t) /\ AtTurn(t)
  BY DEF DemoIInv, FilesIInv, DownloadOK
<1>3. t = "none" /\ app.stream \in Files /\ stream[app.stream] = "open"
  BY <1>1, <1>2 DEF AtTurn
<1>4. FilesTyped /\ RequestsTyped
  BY TypeParts DEF DemoIInv
<1>5. /\ OffersIn(lambdas, stream) /\ RequestsIn(lambdas, req) /\ lambdas \in Seq(Events)
      /\ \A r \in Requests : RequestOK(req[r])
  BY <1>4 DEF DemoIInv, FilesIInv, RequestsIInv, FilesTyped
<1>6. /\ app' \in Downloads /\ app'.fut = "idle" /\ app'.stream = app.stream
      /\ app'.left = app.left /\ app'.clash = app.clash
  BY <1>1, <1>4 DEF FilesTyped, Downloads
<1>7. ASSUME NEW what \in TurnKinds, Own!Next1(what), UNCHANGED stream,
             what = "first" => sent[app.stream] = 0,
             what = "next" => IF FileExists THEN sent[app.stream] + app.left = Blocks
                              ELSE sent[app.stream] = 0 /\ app.left > 0
      PROVE  DemoIInv'
  <2> DEFINE e == [what |-> what]
  <2>1. lambdas' = Append(lambdas, e)
    BY <1>7 DEF Own!Next1
  <2>2. e \in Events /\ e.what = what /\ e.what \notin {"file", "coap"}
    BY DEF Events, TurnKinds
  <2>3. HoldsTurn(lambdas', what)
    BY <1>2, <1>3, <1>5, <2>1, AppendTurn
  <2> HIDE DEF e
  <2>4. OffersIn(lambdas', stream') /\ RequestsIn(lambdas', req')
    BY <1>1, <1>5, <1>7, <2>1, <2>2, OffersAppend, RequestsAppend
  <2>5. FilesTyped' /\ RequestsTyped'
    BY <1>1, <1>4, <1>6, <1>7, <2>1, <2>2 DEF FilesTyped, RequestsTyped
  <2>6. AtTurn(what)'
    BY <1>1, <1>2, <1>3, <1>6, <1>7 DEF AtTurn, TurnKinds
  <2>7. StreamsOK'
    BY <1>1, <1>6, <1>7 DEF DemoIInv, FilesIInv, StreamsOK
  <2> QED
    BY <1>1, <1>5, <2>3, <2>4, <2>5, <2>6, <2>7, TypePartsNext
       DEF DemoIInv, FilesIInv, RequestsIInv, DownloadOK
<1>8. ASSUME app.fut = "close", UNCHANGED lambdas,
             stream' = [stream EXCEPT ![app.stream] = "freed"]
      PROVE  DemoIInv'
  <2>1. sent[app.stream] = Blocks
    BY <1>2, <1>8 DEF AtTurn
  <2>2. /\ \A g \in Files : g # app.stream => stream'[g] = stream[g]
        /\ stream'[app.stream] = "freed"
    BY <1>3, <1>4, <1>8 DEF FilesTyped
  <2>3. OffersIn(lambdas', stream')
    <3>1. \A g \in Files : stream[g] = "offered" => stream'[g] = "offered"
      BY <1>3, <2>2
    <3>2. OffersIn(lambdas, stream')
      BY <1>5, <3>1, OffersKept
    <3> QED
      BY <1>8, <3>2
  <2>4. RequestsIn(lambdas', req') /\ HoldsTurn(lambdas', "none")
    BY <1>1, <1>2, <1>3, <1>5, <1>8
  <2>5. FilesTyped' /\ RequestsTyped'
    BY <1>1, <1>4, <1>6, <1>8 DEF FilesTyped, RequestsTyped, Fates
  <2>6. AtTurn("none")'
    BY <1>2, <1>6 DEF AtTurn
  <2>7. StreamsOK'
    BY <1>1, <1>6, <2>1, <2>2 DEF DemoIInv, FilesIInv, StreamsOK
  <2> QED
    BY <1>1, <1>5, <2>3, <2>4, <2>5, <2>6, <2>7, TypePartsNext
       DEF DemoIInv, FilesIInv, RequestsIInv, DownloadOK
<1>9. PICK ok \in BOOLEAN :
        \/ app.fut = "accept" /\ Own!StreamAccepted(ok) /\ UNCHANGED stream
        \/ app.fut = "write" /\ Own!Wrote(ok) /\ UNCHANGED stream
        \/ app.fut = "close" /\ Own!Closed(ok)
  BY DEF Own!Resolves
<1>10. CASE app.fut = "accept" /\ Own!StreamAccepted(ok) /\ UNCHANGED stream
  <2>1. sent[app.stream] = 0
    BY <1>2, <1>10 DEF AtTurn
  <2> QED
    BY <1>7, <1>10, <2>1 DEF Own!StreamAccepted, TurnKinds
<1>11. CASE app.fut = "write" /\ Own!Wrote(ok) /\ UNCHANGED stream
  <2>1. IF FileExists THEN sent[app.stream] + app.left = Blocks
        ELSE sent[app.stream] = 0 /\ app.left > 0
    BY <1>2, <1>11 DEF AtTurn
  <2> QED
    BY <1>7, <1>11, <2>1 DEF Own!Wrote, TurnKinds
<1>12. CASE app.fut = "close" /\ Own!Closed(ok)
  <2>1. CASE ok
    BY <1>8, <1>12, <2>1 DEF Own!Closed
  <2>2. CASE ~ok
    BY <1>7, <1>12, <2>2 DEF Own!Closed, TurnKinds
  <2> QED
    BY <2>1, <2>2
<1> QED
  BY <1>9, <1>10, <1>11, <1>12
-----------------------------------------------------------------------------
\* The requests: a step that leaves the queue and the streams alone.
LEMMA FilesKept ==
    ASSUME FilesTyped, FilesIInv, UNCHANGED <<lambdas, Own!files>>
    PROVE  FilesTyped' /\ FilesIInv'
<1>1. UNCHANGED <<lambdas, app, stream, sent>>
  BY DEF Own!files
<1>2. FilesTyped' /\ OffersIn(lambdas, stream)' /\ StreamsOK'
  BY <1>1 DEF FilesTyped, FilesIInv, OffersIn, StreamsOK
<1>3. PICK t \in TurnKinds \cup {"none"} : HoldsTurn(lambdas, t) /\ AtTurn(t)
  BY DEF FilesIInv, DownloadOK
<1>4. HoldsTurn(lambdas, t)' /\ AtTurn(t)'
  BY <1>1, <1>3 DEF HoldsTurn, AtTurn
<1> QED
  BY <1>2, <1>4 DEF FilesIInv, DownloadOK

LEMMA AnswerType ==
    ASSUME NEW q \in Own!Reqs, NEW code \in Own!Codes
    PROVE  /\ Own!Answer(q, code) \in Own!Reqs
           /\ Own!Answer(q, code).answers = Append(q.answers, code)
           /\ Own!Answer(q, code).frees = q.frees + 1
           /\ Own!Answer(q, code).at = q.at /\ Own!Answer(q, code).known = q.known
           /\ Own!Answer(q, code).fetched = q.fetched /\ Own!Answer(q, code).token = q.token
           /\ Own!Answer(q, code).kind = q.kind
<1> DEFINE a == Own!Answer(q, code)
<1>1. /\ q.kind \in {"none", "oauth", "challenge"} /\ q.token \in Own!Tokens
      /\ q.at \in {"none", "queued", "performing", "silent", "performed", "called", "ended"}
      /\ q.fetched \in BOOLEAN /\ q.known \in BOOLEAN /\ q.assigned \in BOOLEAN
      /\ q.answers \in Seq(Own!Codes) /\ q.frees \in Nat /\ q.proof \in {"none", "good", "garbled"}
  BY DEF Own!Reqs
<1>2. Append(q.answers, code) \in Seq(Own!Codes) /\ q.frees + 1 \in Nat
  BY <1>1
<1>3. /\ a.answers = Append(q.answers, code) /\ a.frees = q.frees + 1 /\ a.at = q.at
      /\ a.known = q.known /\ a.fetched = q.fetched /\ a.token = q.token /\ a.kind = q.kind
  BY DEF Own!Answer, Own!Reqs
<1>4. a \in Own!Reqs
  BY <1>1, <1>2 DEF Own!Answer, Own!Reqs
<1> QED
  BY <1>3, <1>4

\* A step of one request r that does not answer it, or moves its thread on.
LEMMA RequestStepKeeps ==
    ASSUME DemoIInv, UNCHANGED <<lambdas, Own!files>>, NEW r \in Requests, NEW new \in Own!Reqs,
           req' = [req EXCEPT ![r] = new], RequestOK(new),
           Waiting(req[r]) => Waiting(new),
           invoking' \in Requests \cup {None}, crashed' \in BOOLEAN
    PROVE  DemoIInv'
<1>1. FilesTyped /\ RequestsTyped /\ FilesIInv /\ RequestsIInv
  BY TypeParts DEF DemoIInv
<1>2. FilesTyped' /\ FilesIInv'
  BY <1>1, FilesKept
<1>3. /\ req'[r] = new /\ \A s \in Requests : s # r => req'[s] = req[s]
      /\ RequestsTyped'
  BY <1>1 DEF RequestsTyped
<1>4. \A s \in Requests : RequestOK(req'[s]) /\ (Waiting(req[s]) => Waiting(req'[s]))
  BY <1>1, <1>3 DEF RequestsIInv
<1>5. RequestsIn(lambdas', req')
  <2>1. lambdas' = lambdas /\ lambdas \in Seq(Events) /\ RequestsIn(lambdas, req)
    BY <1>1 DEF FilesTyped, RequestsIInv
  <2> QED
    BY <1>4, <2>1, RequestsKept
<1> QED
  BY <1>2, <1>3, <1>4, <1>5, TypePartsNext DEF DemoIInv, RequestsIInv

LEMMA RequestArrivesKeeps ==
    ASSUME DemoIInv, NEW r \in Requests, Own!RequestArrives(r)
    PROVE  DemoIInv'
<1> DEFINE e == [what |-> "coap", of |-> r]
<1>1. PICK kind \in {"oauth", "challenge"} :
        req' = [req EXCEPT ![r].at = "queued", ![r].kind = kind]
  BY DEF Own!RequestArrives
<1>2. /\ req[r].at = "none" /\ lambdas' = Append(lambdas, e)
      /\ UNCHANGED <<app, stream, sent, invoking, crashed>>
  BY DEF Own!RequestArrives, Own!files
<1>3. e \in Events /\ e.what = "coap" /\ e.of = r
  BY DEF Events
<1> HIDE DEF e
<1>4. FilesTyped /\ RequestsTyped /\ FilesIInv /\ RequestsIInv
  BY TypeParts DEF DemoIInv
<1> DEFINE new == [req[r] EXCEPT !.at = "queued", !.kind = kind]
<1>5. req' = [req EXCEPT ![r] = new]
  BY <1>1, <1>4 DEF RequestsTyped
<1>6. req[r] \in Own!Reqs
  BY <1>4 DEF RequestsTyped
<1>7. /\ new \in Own!Reqs /\ new.at = "queued" /\ new.answers = req[r].answers
      /\ new.frees = req[r].frees
  BY <1>6 DEF Own!Reqs
<1>8. NotAnswered(req[r])
  BY <1>2, <1>4 DEF RequestsIInv, RequestOK
<1>9. RequestOK(new) /\ Waiting(new) /\ ~Waiting(req[r])
  BY <1>2, <1>7, <1>8 DEF RequestOK, Waiting, NotAnswered
<1> HIDE DEF new
<1>10. /\ req'[r] = new /\ \A s \in Requests : s # r => req'[s] = req[s]
       /\ RequestsTyped'
  BY <1>2, <1>4, <1>5, <1>7 DEF RequestsTyped
<1>11. lambdas \in Seq(Events) /\ OffersIn(lambdas, stream) /\ RequestsIn(lambdas, req)
  BY <1>4 DEF FilesTyped, FilesIInv, RequestsIInv
<1>12. RequestsIn(lambdas', req')
  <2>1. \A s \in Requests : Waiting(req[s]) => Waiting(req'[s])
    BY <1>9, <1>10
  <2>2. ~Waiting(req[e.of]) /\ Waiting(req'[e.of])
    BY <1>3, <1>9, <1>10
  <2>3. RequestsIn(Append(lambdas, e), req')
    BY <1>3, <1>11, <2>1, <2>2, RequestsAppend
  <2> QED
    BY <1>2, <2>3
<1>13. OffersIn(lambdas', stream')
  <2>1. OffersIn(Append(lambdas, e), stream)
    BY <1>3, <1>11, OffersAppend
  <2> QED
    BY <1>2, <2>1
<1>14. FilesTyped' /\ StreamsOK'
  BY <1>2, <1>3, <1>4 DEF FilesTyped, FilesIInv, StreamsOK
<1>15. DownloadOK'
  <2>1. PICK t \in TurnKinds \cup {"none"} : HoldsTurn(lambdas, t) /\ AtTurn(t)
    BY <1>4 DEF FilesIInv, DownloadOK
  <2>2. HoldsTurn(Append(lambdas, e), t)
    BY <1>3, <1>11, <2>1, AppendOther DEF TurnKinds
  <2>3. AtTurn(t)'
    BY <1>2, <2>1 DEF AtTurn
  <2> QED
    BY <1>2, <2>2, <2>3 DEF DownloadOK
<1>16. \A s \in Requests : RequestOK(req'[s])
  BY <1>4, <1>9, <1>10 DEF RequestsIInv
<1> QED
  BY <1>10, <1>12, <1>13, <1>14, <1>15, <1>16, TypePartsNext
     DEF DemoIInv, FilesIInv, RequestsIInv

\* The thread of a CurlAsync, and the statement that started it.
LEMMA WorkerKeeps ==
    ASSUME DemoIInv, NEW r \in Requests, Own!Worker(r)
    PROVE  DemoIInv'
<1>1. RequestsTyped /\ RequestsIInv /\ req[r] \in Own!Reqs /\ RequestOK(req[r])
  BY TypeParts DEF DemoIInv, RequestsTyped, RequestsIInv
<1>2. invoking \in Requests \cup {None} /\ crashed \in BOOLEAN
  BY <1>1 DEF RequestsTyped
<1>3. CASE Own!Performs(r)
  <2>1. req[r].at = "performing" /\ UNCHANGED <<lambdas, Own!files, invoking, crashed>>
    BY <1>3 DEF Own!Performs
  <2>2. NotAnswered(req[r]) /\ ~Waiting(req[r])
    BY <1>1, <2>1 DEF RequestOK, Waiting
  <2>3. \E new \in Own!Reqs :
          /\ req' = [req EXCEPT ![r] = new]
          /\ new.at \in {"performed", "silent"} /\ NotAnswered(new)
    <3>1. CASE req' = [req EXCEPT ![r].at = "silent"]
      <4> DEFINE new == [req[r] EXCEPT !.at = "silent"]
      <4>1. req' = [req EXCEPT ![r] = new]
        BY <1>1, <3>1 DEF RequestsTyped
      <4>2. /\ new \in Own!Reqs /\ new.at = "silent" /\ new.answers = req[r].answers
            /\ new.frees = req[r].frees
        BY <1>1 DEF Own!Reqs
      <4> QED
        BY <2>2, <4>1, <4>2 DEF NotAnswered
    <3>2. ASSUME NEW fetched \in BOOLEAN, NEW token \in Own!Tokens,
                 req' = [req EXCEPT ![r].at = "performed", ![r].fetched = fetched,
                                    ![r].token = token]
          PROVE  \E new \in Own!Reqs :
                   /\ req' = [req EXCEPT ![r] = new]
                   /\ new.at \in {"performed", "silent"} /\ NotAnswered(new)
      <4> DEFINE new == [req[r] EXCEPT !.at = "performed", !.fetched = fetched,
                                       !.token = token]
      <4>1. req' = [req EXCEPT ![r] = new]
        BY <1>1, <3>2 DEF RequestsTyped
      <4>2. /\ new \in Own!Reqs /\ new.at = "performed" /\ new.answers = req[r].answers
            /\ new.frees = req[r].frees
        BY <1>1 DEF Own!Reqs
      <4> QED
        BY <2>2, <4>1, <4>2 DEF NotAnswered
    <3> QED
      BY <1>3, <3>1, <3>2 DEF Own!Performs
  <2>4. PICK new \in Own!Reqs :
          /\ req' = [req EXCEPT ![r] = new]
          /\ new.at \in {"performed", "silent"} /\ NotAnswered(new)
    BY <2>3
  <2>5. RequestOK(new)
    BY <2>4 DEF RequestOK
  <2> QED
    BY <1>2, <2>1, <2>2, <2>4, <2>5, RequestStepKeeps
<1>4. CASE Own!CallsBack(r)
  <2>1. req[r].at = "performed" /\ UNCHANGED <<lambdas, Own!files, invoking>>
    BY <1>4 DEF Own!CallsBack
  <2>2. NotAnswered(req[r]) /\ ~Waiting(req[r])
    BY <1>1, <2>1 DEF RequestOK, Waiting
  <2>3. CASE Own!Verdict(req[r]) = "escapes"
    <3>1. req' = req /\ crashed' = TRUE
      BY <1>4, <2>3 DEF Own!CallsBack
    <3>2. req' = [req EXCEPT ![r] = req[r]]
      BY <1>1, <3>1 DEF RequestsTyped
    <3> QED
      BY <1>1, <1>2, <2>1, <2>2, <3>1, <3>2, RequestStepKeeps
  <2>4. CASE Own!Verdict(req[r]) # "escapes"
    <3>1. PICK known \in BOOLEAN :
            req' = [req EXCEPT ![r] = Own!Respond([@ EXCEPT !.known = known, !.at = "called"])]
      BY <1>4, <2>4 DEF Own!CallsBack
    <3>2. crashed' = crashed
      BY <1>4, <2>4 DEF Own!CallsBack
    <3> DEFINE q == [req[r] EXCEPT !.known = known, !.at = "called"]
    <3> DEFINE new == Own!Respond(q)
    <3>3. req' = [req EXCEPT ![r] = new]
      BY <1>1, <3>1 DEF RequestsTyped
    <3>4. /\ q \in Own!Reqs /\ q.at = "called" /\ q.answers = <<>> /\ q.frees = 0 /\ q.known = known
          /\ q.fetched = req[r].fetched /\ q.token = req[r].token
      BY <1>1, <2>2 DEF Own!Reqs, NotAnswered
    <3> HIDE DEF q
    <3> DEFINE code == IF Own!Verdict(q) = "valid" THEN IF q.known THEN 201 ELSE 404 ELSE 401
    <3>5. new = Own!Answer(q, code) /\ code \in Own!Codes
      BY DEF Own!Respond, Own!Codes
    <3> HIDE DEF code
    <3>6. /\ new \in Own!Reqs /\ new.answers = Append(<<>>, code) /\ new.frees = 1
          /\ new.at = "called" /\ new.known = q.known /\ new.fetched = q.fetched
          /\ new.token = q.token
      BY <3>4, <3>5, AnswerType
    <3>7. Own!Verdict(new) = Own!Verdict(q)
      BY <3>6 DEF Own!Verdict
    <3>8. new.answers = <<IF Own!Verdict(new) = "valid" THEN IF new.known THEN 201 ELSE 404 ELSE 401>>
      BY <3>6, <3>7 DEF code
    <3>9. RequestOK(new)
      BY <3>6, <3>8 DEF RequestOK
    <3> HIDE DEF new
    <3> QED
      BY <1>2, <2>1, <2>2, <3>2, <3>3, <3>6, <3>9, RequestStepKeeps
  <2> QED
    BY <2>3, <2>4
<1>5. CASE Own!Detaches(r)
  <2>1. /\ req[r].at = "called" /\ req' = [req EXCEPT ![r].at = "ended"]
        /\ crashed' = ~req[r].assigned /\ UNCHANGED <<lambdas, Own!files, invoking>>
    BY <1>5 DEF Own!Detaches
  <2> DEFINE new == [req[r] EXCEPT !.at = "ended"]
  <2>2. req' = [req EXCEPT ![r] = new]
    BY <1>1, <2>1 DEF RequestsTyped
  <2>3. /\ new \in Own!Reqs /\ new.at = "ended" /\ new.answers = req[r].answers
        /\ new.frees = req[r].frees /\ new.known = req[r].known
        /\ new.fetched = req[r].fetched /\ new.token = req[r].token
    BY <1>1 DEF Own!Reqs
  <2>4. Own!Verdict(new) = Own!Verdict(req[r])
    BY <2>3 DEF Own!Verdict
  <2>5. RequestOK(new) /\ ~Waiting(req[r])
    BY <1>1, <2>1, <2>3, <2>4 DEF RequestOK, Waiting
  <2>6. crashed' \in BOOLEAN
    BY <2>1
  <2> HIDE DEF new
  <2> QED
    BY <1>2, <2>1, <2>2, <2>3, <2>5, <2>6, RequestStepKeeps
<1> QED
  BY <1>3, <1>4, <1>5 DEF Own!Worker

LEMMA ThreadAssignedKeeps ==
    ASSUME DemoIInv, None \notin Requests, Own!ThreadAssigned
    PROVE  DemoIInv'
<1>1. RequestsTyped /\ RequestsIInv
  BY TypeParts DEF DemoIInv
<1>2. PICK r \in Requests : r = invoking
  BY <1>1 DEF Own!ThreadAssigned, RequestsTyped
<1> DEFINE new == [req[r] EXCEPT !.assigned = TRUE]
<1>3. /\ req' = [req EXCEPT ![r] = new] /\ invoking' = None
      /\ UNCHANGED <<lambdas, Own!files, crashed>>
  BY <1>1, <1>2 DEF Own!ThreadAssigned, RequestsTyped
<1>4. req[r] \in Own!Reqs /\ RequestOK(req[r])
  BY <1>1 DEF RequestsTyped, RequestsIInv
<1>5. /\ new \in Own!Reqs /\ new.at = req[r].at /\ new.answers = req[r].answers
      /\ new.frees = req[r].frees /\ new.known = req[r].known
      /\ new.fetched = req[r].fetched /\ new.token = req[r].token
  BY <1>4 DEF Own!Reqs
<1>6. Own!Verdict(new) = Own!Verdict(req[r])
  BY <1>5 DEF Own!Verdict
<1>7. RequestOK(new) /\ (Waiting(req[r]) => Waiting(new))
  BY <1>4, <1>5, <1>6 DEF RequestOK, Waiting, NotAnswered
<1> HIDE DEF new
<1>8. invoking' \in Requests \cup {None} /\ crashed' \in BOOLEAN
  BY <1>1, <1>3 DEF RequestsTyped
<1> QED
  BY <1>3, <1>5, <1>7, <1>8, RequestStepKeeps
-----------------------------------------------------------------------------
\* The event queue runs a lambda.

\* One of a request.
LEMMA RunsRequestKeeps ==
    ASSUME DemoIInv, lambdas # <<>>, lambdas' = Tail(lambdas), UNCHANGED <<Own!files, crashed>>,
           Head(lambdas).what = "coap",
           Own!HandleOauth(Head(lambdas).of) \/ Own!HandleChallenge(Head(lambdas).of)
    PROVE  DemoIInv'
<1> DEFINE r == Head(lambdas).of
<1>1. FilesTyped /\ RequestsTyped /\ FilesIInv /\ RequestsIInv
  BY TypeParts DEF DemoIInv
<1>2. lambdas \in Seq(Events) /\ OffersIn(lambdas, stream) /\ RequestsIn(lambdas, req)
  BY <1>1 DEF FilesTyped, FilesIInv, RequestsIInv
<1>3. /\ Head(lambdas) \in Events /\ Tail(lambdas) \in Seq(Events) /\ r \in Requests
      /\ Head(lambdas) = lambdas[1] /\ 1 \in 1..Len(lambdas)
  BY <1>2, TailEvents, EventKinds
<1>4. req[r] \in Own!Reqs /\ req[r].at = "queued" /\ NotAnswered(req[r])
  BY <1>1, <1>2, <1>3 DEF RequestsTyped, RequestsIn
<1> HIDE DEF r
<1>5. ASSUME NEW code \in {205, 400, 500}
      PROVE  /\ Own!Answer(req[r], code) \in Own!Reqs /\ RequestOK(Own!Answer(req[r], code))
             /\ RequestOK([Own!Answer(req[r], code) EXCEPT !.proof = Own!ChallengeResponse])
             /\ [Own!Answer(req[r], code) EXCEPT !.proof = Own!ChallengeResponse] \in Own!Reqs
  <2> DEFINE new == Own!Answer(req[r], code)
  <2> DEFINE it == [new EXCEPT !.proof = Own!ChallengeResponse]
  <2>1. /\ new \in Own!Reqs /\ new.answers = <<code>> /\ new.frees = 1 /\ new.at = "queued"
    <3>1. code \in Own!Codes /\ req[r].answers = <<>> /\ req[r].frees = 0
      BY <1>4 DEF Own!Codes, NotAnswered
    <3>2. /\ new \in Own!Reqs /\ new.answers = Append(<<>>, code) /\ new.frees = 0 + 1
          /\ new.at = "queued"
      BY <1>4, <3>1, AnswerType
    <3> QED
      BY <3>2
  <2>2. Own!ChallengeResponse \in {"none", "good", "garbled"}
    BY DEF Own!ChallengeResponse
  <2> HIDE DEF new
  <2>3. it \in Own!Reqs /\ it.answers = <<code>> /\ it.frees = 1 /\ it.at = "queued"
    BY <2>1, <2>2 DEF Own!Reqs
  <2> HIDE DEF it
  <2>4. <<code>> \in {<<205>>, <<400>>, <<500>>}
    OBVIOUS
  <2>5. RequestOK(new) /\ RequestOK(it)
    BY <2>1, <2>3, <2>4 DEF RequestOK
  <2> QED
    BY <2>1, <2>3, <2>5 DEF new, it
<1>6. PICK new \in Own!Reqs : req' = [req EXCEPT ![r] = new] /\ RequestOK(new)
  <2>1. ASSUME NEW code \in {400, 500}, req' = [req EXCEPT ![r] = Own!Answer(@, code)]
        PROVE  \E new \in Own!Reqs : req' = [req EXCEPT ![r] = new] /\ RequestOK(new)
    <3>1. req' = [req EXCEPT ![r] = Own!Answer(req[r], code)]
      BY <1>1, <1>3, <2>1 DEF RequestsTyped, r
    <3>2. Own!Answer(req[r], code) \in Own!Reqs /\ RequestOK(Own!Answer(req[r], code))
      BY <1>5, <2>1
    <3> QED
      BY <3>1, <3>2
  <2>2. ASSUME req' = [req EXCEPT ![r].at = "performing"]
        PROVE  \E new \in Own!Reqs : req' = [req EXCEPT ![r] = new] /\ RequestOK(new)
    <3> DEFINE new == [req[r] EXCEPT !.at = "performing"]
    <3>1. req' = [req EXCEPT ![r] = new]
      BY <1>1, <1>3, <2>2 DEF RequestsTyped, r
    <3>2. /\ new \in Own!Reqs /\ new.at = "performing" /\ new.answers = req[r].answers
          /\ new.frees = req[r].frees
      BY <1>4 DEF Own!Reqs
    <3>3. RequestOK(new)
      BY <1>4, <3>2 DEF RequestOK, NotAnswered
    <3> HIDE DEF new
    <3> QED
      BY <3>1, <3>2, <3>3
  <2>3. ASSUME req' = [req EXCEPT ![r] = [Own!Answer(@, 205) EXCEPT !.proof = Own!ChallengeResponse]]
        PROVE  \E new \in Own!Reqs : req' = [req EXCEPT ![r] = new] /\ RequestOK(new)
    <3>1. req' = [req EXCEPT ![r] = [Own!Answer(req[r], 205) EXCEPT !.proof = Own!ChallengeResponse]]
      BY <1>1, <1>3, <2>3 DEF RequestsTyped, r
    <3> QED
      BY <1>5, <3>1
  <2> QED
    BY <2>1, <2>2, <2>3 DEF Own!HandleOauth, Own!HandleChallenge, r
<1>7. invoking' \in Requests \cup {None}
  BY <1>1, <1>3 DEF Own!HandleOauth, Own!HandleChallenge, RequestsTyped, r
<1>8. /\ req'[r] = new /\ \A s \in Requests : s # r => req'[s] = req[s]
      /\ RequestsTyped'
  BY <1>1, <1>3, <1>6, <1>7 DEF RequestsTyped, r
<1>9. RequestsIn(lambdas', req')
  <2>1. \A s \in Requests :
          Waiting(req[s]) => Waiting(req'[s]) \/ (Head(lambdas).what = "coap" /\ Head(lambdas).of = s)
    BY <1>8 DEF r
  <2>2. RequestsIn(Tail(lambdas), req')
    BY <1>2, <2>1, RequestsTail
  <2> QED
    BY <2>2
<1>10. OffersIn(lambdas', stream')
  <2>1. OffersIn(Tail(lambdas), stream)
    BY <1>2, OffersTail
  <2> QED
    BY <2>1 DEF Own!files
<1>11. FilesTyped' /\ StreamsOK'
  BY <1>1, <1>3 DEF FilesTyped, FilesIInv, StreamsOK, Own!files
<1>12. DownloadOK'
  <2>1. PICK t \in TurnKinds \cup {"none"} : HoldsTurn(lambdas, t) /\ AtTurn(t)
    BY <1>1 DEF FilesIInv, DownloadOK
  <2>2. HoldsTurn(Tail(lambdas), t)
    BY <1>2, <2>1, TailOther DEF TurnKinds
  <2>3. AtTurn(t)'
    BY <2>1 DEF AtTurn, Own!files
  <2> QED
    BY <2>2, <2>3 DEF DownloadOK
<1>13. \A s \in Requests : RequestOK(req'[s])
  BY <1>1, <1>6, <1>8 DEF RequestsIInv
<1> QED
  BY <1>8, <1>9, <1>10, <1>11, <1>12, <1>13, TypePartsNext
     DEF DemoIInv, FilesIInv, RequestsIInv

\* One of the download, or a stream that is offered.
LEMMA RunsFileKeeps ==
    ASSUME DemoIInv, lambdas # <<>>, lambdas' = Tail(lambdas), UNCHANGED <<req, invoking, crashed>>,
           Head(lambdas).what # "coap",
           app' \in Downloads, stream' \in [Files -> Fates], sent' \in [Files -> 0..Blocks],
           \A f \in Files : stream[f] = "offered" =>
               stream'[f] = "offered" \/ (Head(lambdas).what = "file" /\ Head(lambdas).of = f),
           NEW t \in TurnKinds \cup {"none"}, HoldsTurn(Tail(lambdas), t), AtTurn(t)', StreamsOK'
    PROVE  DemoIInv'
<1>1. FilesTyped /\ RequestsTyped /\ FilesIInv /\ RequestsIInv
  BY TypeParts DEF DemoIInv
<1>2. /\ lambdas \in Seq(Events) /\ OffersIn(lambdas, stream) /\ RequestsIn(lambdas, req)
      /\ \A r \in Requests : RequestOK(req[r])
  BY <1>1 DEF FilesTyped, FilesIInv, RequestsIInv
<1>3. OffersIn(Tail(lambdas), stream')
  BY <1>2, OffersTail
<1>4. RequestsIn(Tail(lambdas), req)
  BY <1>2, RequestsTail
<1>5. FilesTyped' /\ RequestsTyped'
  BY <1>1, <1>2, TailEvents DEF FilesTyped, RequestsTyped
<1> QED
  BY <1>2, <1>3, <1>4, <1>5, TypePartsNext
     DEF DemoIInv, FilesIInv, RequestsIInv, DownloadOK

LEMMA FileStreamKeeps ==
    ASSUME DemoIInv, None \notin Files, lambdas # <<>>, lambdas' = Tail(lambdas),
           UNCHANGED <<req, invoking, crashed>>,
           Head(lambdas).what = "file", Own!FileStream(Head(lambdas).of)
    PROVE  DemoIInv'
<1> DEFINE f == Head(lambdas).of
<1>1. FilesTyped /\ FilesIInv
  BY TypeParts DEF DemoIInv
<1>2. lambdas \in Seq(Events) /\ OffersIn(lambdas, stream) /\ StreamsOK
  BY <1>1 DEF FilesTyped, FilesIInv
<1>3. f \in Files /\ stream[f] = "offered"
  BY <1>2, TailEvents, EventKinds DEF OffersIn
<1>4. sent[f] = 0 /\ sent' = sent
  BY <1>2, <1>3 DEF StreamsOK, Own!FileStream
<1>5. PICK t \in TurnKinds \cup {"none"} : HoldsTurn(lambdas, t) /\ AtTurn(t)
  BY <1>1 DEF FilesIInv, DownloadOK
<1>6. HoldsTurn(Tail(lambdas), t)
  BY <1>2, <1>5, TailOther DEF TurnKinds
<1>7. \A g \in Files : stream[g] = "offered" =>
        (g # f => stream'[g] = "offered") \/ (Head(lambdas).what = "file" /\ Head(lambdas).of = g)
  BY <1>1, <1>3 DEF FilesTyped, Own!FileStream
<1> HIDE DEF f
<1>8. CASE app.stream = None /\ app' = [Own!Call("accept") EXCEPT !.stream = f]
            /\ stream' = [stream EXCEPT ![f] = "open"]
  <2>1. t = "none" /\ app.fut = "idle" /\ app.clash = FALSE
    BY <1>1, <1>5, <1>8 DEF AtTurn, FilesTyped, Downloads
  <2>2. /\ app' \in Downloads /\ app'.stream = f /\ app'.clash = FALSE /\ app'.fut = "accept"
    BY <1>1, <1>3, <1>8, <2>1 DEF Own!Call, FilesTyped, Downloads
  <2>3. /\ stream' \in [Files -> Fates] /\ stream'[f] = "open"
        /\ \A g \in Files : g # f => stream'[g] = stream[g]
    BY <1>1, <1>3, <1>8 DEF FilesTyped, Fates
  <2>4. AtTurn("none")'
    BY <1>3, <1>4, <2>2, <2>3 DEF AtTurn
  <2>5. StreamsOK'
    BY <1>2, <1>4, <1>8, <2>2, <2>3 DEF StreamsOK
  <2>6. \A g \in Files : stream[g] = "offered" =>
          stream'[g] = "offered" \/ (Head(lambdas).what = "file" /\ Head(lambdas).of = g)
    BY <2>3 DEF f
  <2> QED
    BY <1>1, <1>4, <1>6, <2>1, <2>2, <2>3, <2>4, <2>5, <2>6, RunsFileKeeps DEF FilesTyped
<1>9. CASE app' = app /\ stream' = [stream EXCEPT ![f] = "freed"]
  <2>1. /\ stream' \in [Files -> Fates] /\ stream'[f] = "freed"
        /\ \A g \in Files : g # f => stream'[g] = stream[g]
    BY <1>1, <1>3, <1>9 DEF FilesTyped, Fates
  <2>2. AtTurn(t)'
    BY <1>3, <1>4, <1>5, <1>9, <2>1 DEF AtTurn
  <2>3. StreamsOK'
    BY <1>2, <1>4, <1>9, <2>1 DEF StreamsOK
  <2>4. \A g \in Files : stream[g] = "offered" =>
          stream'[g] = "offered" \/ (Head(lambdas).what = "file" /\ Head(lambdas).of = g)
    BY <2>1 DEF f
  <2> QED
    BY <1>1, <1>4, <1>6, <1>9, <2>1, <2>2, <2>3, <2>4, RunsFileKeeps DEF FilesTyped
<1> QED
  BY <1>8, <1>9 DEF Own!FileStream, f

\* The next block is written, or the stream is closed when there is none.
LEMMA DoStreamFileKeeps ==
    ASSUME Own!FileAssumption, DemoIInv, lambdas # <<>>, lambdas' = Tail(lambdas),
           UNCHANGED <<req, invoking, crashed>>,
           NEW left \in 0..Blocks, Own!DoStreamFile(left),
           \/ Head(lambdas).what = "first" /\ left = Blocks
           \/ Head(lambdas).what = "next" /\ left = app.left
    PROVE  DemoIInv'
<1> DEFINE f == app.stream
<1>1. FilesTyped /\ FilesIInv /\ Blocks \in Nat \ {0} /\ FileExists \in BOOLEAN
  BY TypeParts DEF DemoIInv, Own!FileAssumption
<1>2. lambdas \in Seq(Events) /\ StreamsOK
  BY <1>1 DEF FilesTyped, FilesIInv
<1>3. PICK t \in TurnKinds \cup {"none"} : HoldsTurn(lambdas, t) /\ AtTurn(t)
  BY <1>1 DEF FilesIInv, DownloadOK
<1>4. t # "none" /\ Head(lambdas).what = t /\ HoldsTurn(Tail(lambdas), "none")
  BY <1>2, <1>3, TailTurn DEF TurnKinds
<1>5. /\ app.clash = FALSE /\ app.fut = "idle" /\ f \in Files /\ stream[f] = "open"
      /\ sent[f] \in 0..Blocks
  BY <1>1, <1>3, <1>4 DEF AtTurn, FilesTyped, Downloads
<1>6. IF FileExists THEN sent[f] + left = Blocks ELSE sent[f] = 0 /\ left > 0
  BY <1>1, <1>3, <1>4 DEF AtTurn
<1>7. stream' = stream
  BY DEF Own!DoStreamFile
<1> HIDE DEF f
<1>8. CASE left > 0
  <2>1. /\ app' = [Own!Call("write") EXCEPT !.left = IF FileExists THEN left - 1 ELSE left]
        /\ sent' = IF FileExists THEN [sent EXCEPT ![f] = @ + 1] ELSE sent
    BY <1>8 DEF Own!DoStreamFile, f
  <2>2. (IF FileExists THEN left - 1 ELSE left) \in 0..Blocks
    BY <1>1, <1>8
  <2>3. /\ app' \in Downloads /\ app'.stream = f /\ app'.clash = FALSE /\ app'.fut = "write"
        /\ app'.left = IF FileExists THEN left - 1 ELSE left
    BY <1>1, <1>5, <2>1, <2>2 DEF Own!Call, FilesTyped, Downloads, f
  <2>4. /\ sent' \in [Files -> 0..Blocks]
        /\ sent'[f] = IF FileExists THEN sent[f] + 1 ELSE 0
        /\ \A g \in Files : g # f => sent'[g] = sent[g]
    <3>1. CASE FileExists
      <4>1. sent[f] + 1 \in 0..Blocks /\ sent' = [sent EXCEPT ![f] = sent[f] + 1]
        BY <1>1, <1>5, <1>6, <1>8, <2>1, <3>1 DEF FilesTyped
      <4> QED
        BY <1>1, <1>5, <3>1, <4>1 DEF FilesTyped
    <3>2. CASE ~FileExists
      BY <1>1, <1>6, <2>1, <3>2 DEF FilesTyped
    <3> QED
      BY <3>1, <3>2
  <2>5. IF FileExists THEN sent'[f] + app'.left = Blocks ELSE sent'[f] = 0 /\ app'.left > 0
    BY <1>1, <1>5, <1>6, <1>8, <2>3, <2>4
  <2>6. AtTurn("none")'
    BY <1>5, <1>7, <2>3, <2>5 DEF AtTurn
  <2>7. StreamsOK'
    BY <1>2, <1>5, <1>7, <2>3, <2>4 DEF StreamsOK, f
  <2> QED
    BY <1>1, <1>4, <1>7, <2>3, <2>4, <2>6, <2>7, RunsFileKeeps DEF FilesTyped
<1>9. CASE left = 0
  <2>1. app' = [Own!Call("close") EXCEPT !.left = 0] /\ sent' = sent /\ sent[f] = Blocks
    BY <1>5, <1>6, <1>9 DEF Own!DoStreamFile
  <2>2. /\ app' \in Downloads /\ app'.stream = f /\ app'.clash = FALSE /\ app'.fut = "close"
    <3>1. 0 \in 0..Blocks
      BY <1>1
    <3> QED
      BY <1>1, <1>5, <2>1, <3>1 DEF Own!Call, FilesTyped, Downloads, f
  <2>3. AtTurn("none")'
    BY <1>5, <1>7, <2>1, <2>2 DEF AtTurn
  <2>4. StreamsOK'
    BY <1>2, <1>7, <2>1, <2>2 DEF StreamsOK, f
  <2> QED
    BY <1>1, <1>4, <1>7, <2>1, <2>2, <2>3, <2>4, RunsFileKeeps DEF FilesTyped
<1> QED
  BY <1>1, <1>8, <1>9

LEMMA DropStreamKeeps ==
    ASSUME DemoIInv, lambdas # <<>>, lambdas' = Tail(lambdas), UNCHANGED <<req, invoking, crashed>>,
           Head(lambdas).what = "drop", Own!DropStream
    PROVE  DemoIInv'
<1> DEFINE f == app.stream
<1>1. FilesTyped /\ FilesIInv
  BY TypeParts DEF DemoIInv
<1>2. lambdas \in Seq(Events) /\ StreamsOK
  BY <1>1 DEF FilesTyped, FilesIInv
<1>3. PICK t \in TurnKinds \cup {"none"} : HoldsTurn(lambdas, t) /\ AtTurn(t)
  BY <1>1 DEF FilesIInv, DownloadOK
<1>4. t # "none" /\ Head(lambdas).what = t /\ HoldsTurn(Tail(lambdas), "none")
  BY <1>2, <1>3, TailTurn DEF TurnKinds
<1>5. app.clash = FALSE /\ app.fut = "idle" /\ f \in Files /\ stream[f] = "open"
  BY <1>1, <1>3, <1>4 DEF AtTurn, FilesTyped, Downloads
<1>6. /\ app' \in Downloads /\ app'.stream = None /\ app'.clash = FALSE /\ app'.fut = "idle"
  BY <1>1, <1>5 DEF Own!DropStream, FilesTyped, Downloads
<1>7. /\ stream' \in [Files -> Fates] /\ stream'[f] = "left" /\ sent' = sent
      /\ \A g \in Files : g # f => stream'[g] = stream[g]
  BY <1>1, <1>5 DEF Own!DropStream, FilesTyped, Fates
<1>8. AtTurn("none")'
  BY <1>6 DEF AtTurn
<1>9. StreamsOK'
  BY <1>2, <1>7 DEF StreamsOK
<1>10. \A g \in Files : stream[g] = "offered" => stream'[g] = "offered"
  BY <1>5, <1>7
<1> QED
  BY <1>1, <1>4, <1>6, <1>7, <1>8, <1>9, <1>10, RunsFileKeeps DEF FilesTyped

LEMMA RunsLambdaKeeps ==
    ASSUME Own!FileAssumption, DemoIInv, Own!RunsEvent
    PROVE  DemoIInv'
<1>1. lambdas # <<>> /\ lambdas' = Tail(lambdas) /\ UNCHANGED crashed
  BY DEF Own!RunsEvent
<1>2. None \notin Files /\ Blocks \in 0..Blocks /\ app.left \in 0..Blocks
  BY TypeParts DEF DemoIInv, Own!FileAssumption, FilesTyped, Downloads
<1>3. CASE /\ Head(lambdas).what = "coap" /\ UNCHANGED Own!files
           /\ Own!HandleOauth(Head(lambdas).of) \/ Own!HandleChallenge(Head(lambdas).of)
  BY <1>1, <1>3, RunsRequestKeeps
<1>4. CASE /\ Head(lambdas).what = "file" /\ Own!FileStream(Head(lambdas).of)
           /\ UNCHANGED <<req, invoking>>
  BY <1>1, <1>2, <1>4, FileStreamKeeps
<1>5. CASE Head(lambdas).what = "first" /\ Own!DoStreamFile(Blocks) /\ UNCHANGED <<req, invoking>>
  BY <1>1, <1>2, <1>5, DoStreamFileKeeps
<1>6. CASE Head(lambdas).what = "next" /\ Own!DoStreamFile(app.left) /\ UNCHANGED <<req, invoking>>
  BY <1>1, <1>2, <1>6, DoStreamFileKeeps
<1>7. CASE Head(lambdas).what = "drop" /\ Own!DropStream /\ UNCHANGED <<req, invoking>>
  BY <1>1, <1>7, DropStreamKeeps
<1> QED
  BY <1>3, <1>4, <1>5, <1>6, <1>7 DEF Own!RunsEvent

LEMMA DemoNext == Own!FileAssumption /\ DemoIInv /\ [Own!Next]_(Own!vars) => DemoIInv'
<1> SUFFICES ASSUME Own!FileAssumption, DemoIInv, [Own!Next]_(Own!vars) PROVE DemoIInv'
  OBVIOUS
<1>1. CASE UNCHANGED Own!vars
  <2>1. FilesTyped' /\ FilesIInv'
    BY <1>1, FilesKept, TypeParts DEF DemoIInv, Own!vars
  <2>2. RequestsTyped' /\ RequestsIInv'
    BY <1>1, TypeParts DEF DemoIInv, RequestsTyped, RequestsIInv, RequestsIn, Own!vars
  <2> QED
    BY <2>1, <2>2, TypePartsNext DEF DemoIInv
<1>2. None \notin Requests
  BY DEF Own!FileAssumption
<1> QED
  BY <1>1, <1>2, StreamOpensKeeps, RequestArrivesKeeps, WorkerKeeps, ResolvesKeeps,
     RunsLambdaKeeps, ThreadAssignedKeeps DEF Own!Next

LEMMA DemoSafeInvariant == Own!FileAssumption => (DemoSafe => []DemoIInv)
<1> SUFFICES ASSUME Own!FileAssumption PROVE DemoSafe => []DemoIInv
  OBVIOUS
<1>1. Own!Init => DemoIInv
  BY InitDemo
<1>2. DemoIInv /\ [Own!Next]_(Own!vars) => DemoIInv'
  BY DemoNext
<1> QED
  BY <1>1, <1>2, PTL DEF DemoSafe

\* Of the streams that clients open for the file one is served at a time, and one that
\* was closed has had all of it, whatever the calls for it came to.
THEOREM DownloadsAreWhole == Own!FileAssumption => (DemoSafe => []DownloadIsWhole)
<1> SUFFICES ASSUME Own!FileAssumption PROVE DemoSafe => []DownloadIsWhole
  OBVIOUS
<1>1. DemoIInv => DownloadIsWhole
  <2> SUFFICES ASSUME DemoIInv PROVE DownloadIsWhole
    OBVIOUS
  <2>1. PICK t \in TurnKinds \cup {"none"} : HoldsTurn(lambdas, t) /\ AtTurn(t)
    BY DEF DemoIInv, FilesIInv, DownloadOK
  <2>2. (t = "none" => Turns = {}) /\ \A i, j \in Turns : i = j
    BY <2>1 DEF HoldsTurn, Turns, TurnKinds
  <2>3. \A f \in Files : stream[f] = "freed" => sent[f] \in {0, Blocks}
    BY DEF DemoIInv, FilesIInv, StreamsOK
  <2>4. app.fut # "idle" \/ Turns # {} => app.stream # None /\ stream[app.stream] = "open"
    BY <2>1, <2>2 DEF AtTurn, Own!FileAssumption
  <2>5. ~app.clash /\ (app.fut # "idle" => Turns = {})
    BY <2>1, <2>2 DEF AtTurn
  <2> QED
    BY <2>2, <2>3, <2>4, <2>5 DEF DownloadIsWhole
<1> QED
  BY <1>1, DemoSafeInvariant, PTL

\* A challenge or a login is answered once, whichever of two threads does it, and a login
\* succeeds exactly with fetched keys, a good token and a known user.
THEOREM RequestsAnsweredOnce ==
    Own!FileAssumption => (DemoSafe => [](Own!TypeOK /\ Own!AnsweredOnce))
<1>1. DemoIInv => Own!TypeOK /\ Own!AnsweredOnce
  <2> SUFFICES ASSUME DemoIInv, NEW r \in Requests
               PROVE  LET q == req[r]
                      IN  /\ Len(q.answers) = q.frees /\ q.frees <= 1
                          /\ q.answers = <<201>> <=>
                              /\ q.at \in {"called", "ended"}
                              /\ q.known /\ Own!Verdict(q) = "valid"
                          /\ q.at \in {"called", "ended"} => q.answers # <<>>
    BY DEF Own!AnsweredOnce, DemoIInv
  <2> DEFINE q == req[r]
  <2>1. RequestOK(q) /\ q \in Own!Reqs
    BY TypeParts DEF DemoIInv, RequestsIInv, RequestsTyped
  <2>2. q.at \in {"none", "queued", "performing", "silent", "performed", "called", "ended"}
    BY <2>1 DEF Own!Reqs
  <2> HIDE DEF q
  <2>3. CASE q.at \in {"called", "ended"}
    <3> DEFINE code == IF Own!Verdict(q) = "valid" THEN IF q.known THEN 201 ELSE 404 ELSE 401
    <3>1. q.answers = <<code>> /\ q.frees = 1
      BY <2>1, <2>3 DEF RequestOK
    <3>2. code = 201 <=> Own!Verdict(q) = "valid" /\ q.known
      OBVIOUS
    <3> HIDE DEF code
    <3>3. Len(<<code>>) = 1 /\ <<code>> # <<>> /\ (<<code>> = <<201>> <=> code = 201)
      OBVIOUS
    <3> QED
      BY <2>3, <3>1, <3>2, <3>3 DEF q
  <2>4. CASE q.at \notin {"called", "ended"}
    <3>1. \/ q.answers = <<>> /\ q.frees = 0
          \/ q.answers \in {<<205>>, <<400>>, <<500>>} /\ q.frees = 1
      BY <2>1, <2>2, <2>4 DEF RequestOK, NotAnswered
    <3>2. ASSUME NEW code \in {205, 400, 500} PROVE Len(<<code>>) = 1 /\ <<code>> # <<201>>
      OBVIOUS
    <3>3. Len(<<>>) = 0 /\ <<>> # <<201>>
      OBVIOUS
    <3>4. \/ q.answers = <<>> /\ q.frees = 0
          \/ \E code \in {205, 400, 500} : q.answers = <<code>> /\ q.frees = 1
      BY <3>1
    <3>5. Len(q.answers) = q.frees /\ q.frees <= 1 /\ q.answers # <<201>>
      <4>1. CASE q.answers = <<>> /\ q.frees = 0
        BY <3>3, <4>1
      <4>2. ASSUME NEW code \in {205, 400, 500}, q.answers = <<code>> /\ q.frees = 1
            PROVE  Len(q.answers) = q.frees /\ q.frees <= 1 /\ q.answers # <<201>>
        <5>1. Len(q.answers) = 1 /\ q.answers # <<201>> /\ q.frees = 1
          <6>1. Len(<<code>>) = 1 /\ <<code>> # <<201>>
            BY <3>2
          <6> QED
            BY <4>2, <6>1
        <5> QED
          BY <5>1
      <4> QED
        BY <3>4, <4>1, <4>2
    <3> QED
      BY <2>4, <3>5 DEF q
  <2> QED
    BY <2>3, <2>4
<1> QED
  BY <1>1, DemoSafeInvariant, PTL
=============================================================================
