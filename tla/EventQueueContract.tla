------------------------- MODULE EventQueueContract -------------------------
(***************************************************************************)
(* What the interface EventQueue of nabto_device_webrtc.hpp promises: any  *)
(* thread may post a task, tasks run one at a time on one thread in the    *)
(* order they were posted, and the queue goes on running as long as        *)
(* somebody holds work on it.  There is no lock and no sleeping thread     *)
(* here: how the runner blocks and is woken is EventQueue.tla's subject.   *)
(***************************************************************************)
EXTENDS Naturals, Sequences

CONSTANTS Owners,   \* those that construct an EventQueueWork
          Tasks     \* every task that is ever posted, each posted once
CONSTANT NoTask

VARIABLES todo,     \* tasks posted and not yet taken, oldest first
          current,  \* the task that runs, or NoTask
          posted,   \* the tasks posted so far
          work,     \* the owners whose EventQueueWork exists
          phase     \* "created", "running" or "stopped"

cvars == <<todo, current, posted, work, phase>>

CInit ==
    /\ todo = <<>>
    /\ current = NoTask
    /\ posted = {}
    /\ work = {}
    /\ phase = "created"

CStart ==
    /\ phase = "created"
    /\ phase' = "running"
    /\ UNCHANGED <<todo, current, posted, work>>

CPost(t) ==
    /\ t \in Tasks \ posted
    /\ todo' = Append(todo, t)
    /\ posted' = posted \cup {t}
    /\ UNCHANGED <<current, work, phase>>

CAddWork(o) ==
    /\ phase = "created" \/ current # NoTask
    /\ o \notin work
    /\ work' = work \cup {o}
    /\ UNCHANGED <<todo, current, posted, phase>>

CRemoveWork(o) ==
    /\ o \in work
    /\ work' = work \ {o}
    /\ UNCHANGED <<todo, current, posted, phase>>

CTake ==
    /\ phase = "running" /\ current = NoTask
    /\ todo # <<>>
    /\ current' = Head(todo)
    /\ todo' = Tail(todo)
    /\ UNCHANGED <<posted, work, phase>>

CFinish ==
    /\ current # NoTask
    /\ current' = NoTask
    /\ UNCHANGED <<todo, posted, work, phase>>

\* "Once all work has been removed, and it has no events to run, it can stop."
CStop ==
    /\ phase = "running" /\ current = NoTask
    /\ todo = <<>> /\ work = {}
    /\ phase' = "stopped"
    /\ UNCHANGED <<todo, current, posted, work>>

CNext ==
    \/ CStart
    \/ \E t \in Tasks : CPost(t)
    \/ \E o \in Owners : CAddWork(o) \/ CRemoveWork(o)
    \/ CTake \/ CFinish \/ CStop

CSafeSpec == CInit /\ [][CNext]_cvars

CSpec ==
    CSafeSpec /\ WF_cvars(CStart) /\ WF_cvars(CTake) /\ WF_cvars(CFinish) /\ WF_cvars(CStop)
=============================================================================
