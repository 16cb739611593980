----------------------------- MODULE EventQueue -----------------------------
(***************************************************************************)
(* EventQueueImpl (src/modules/event-queue): the mutex, the condition      *)
(* variable and the work count behind the single queue thread on which all *)
(* of the library's state is touched.                                      *)
(*                                                                         *)
(* post, addWork and removeWork hold mutex_ for their whole body, so each  *)
(* is one step.  pop holds mutex_ except inside cond_.wait, so one round   *)
(* of its loop is one step or, when it sleeps, two: AwaitEvents up to the  *)
(* wait, and a Pop step after it.  The event runs outside the lock, between*)
(* PopEvent and EventDone, while other threads post and remove work.       *)
(***************************************************************************)
EXTENDS Integers, Sequences, FiniteSets

CONSTANTS Owners,   \* those that construct an EventQueueWork
          Tasks,    \* every event that is ever posted, each posted once
          NoTask

ASSUME NoTaskAssumption == NoTask \notin Tasks
ASSUME OwnersAssumption == IsFiniteSet(Owners)

VARIABLES
    events,     \* events_
    workCount,  \* workCount_
    runner,     \* where the queue thread is, see RunnerStates
    current,    \* the event the queue thread runs, or NoTask
    work,       \* the owners whose EventQueueWork object exists
    posted,     \* events posted so far
    guarded,    \* those of them posted by an owner of work, or by an event
    done        \* events that have run to their end

vars == <<events, workCount, runner, current, work, posted, guarded, done>>

RunnerStates ==
    {"created",   \* run() has not been called
     "popping",   \* about to lock mutex_ at the top of pop's loop
     "waiting",   \* asleep in cond_.wait
     "woken",     \* left the wait and will lock mutex_ again
     "running",   \* executes current, mutex_ not held
     "stopped"}   \* run() has returned

TypeOK ==
    /\ events \in Seq(Tasks)
    /\ workCount \in Int
    /\ runner \in RunnerStates
    /\ current \in Tasks \cup {NoTask}
    /\ work \subseteq Owners
    /\ posted \subseteq Tasks
    /\ guarded \subseteq posted
    /\ done \subseteq Tasks

Init ==
    /\ events = <<>>
    /\ workCount = 0
    /\ runner = "created"
    /\ current = NoTask
    /\ work = {}
    /\ posted = {}
    /\ guarded = {}
    /\ done = {}

\* Mutant of NotifyOne: the notification is forgotten.
NoNotify == runner' = runner

\* cond_.notify_one(): wakes the queue thread if it sleeps, else it is lost.
NotifyOne == runner' = IF runner = "waiting" THEN "woken" ELSE runner

Run ==
    /\ runner = "created"
    /\ runner' = "popping"
    /\ UNCHANGED <<events, workCount, current, work, posted, guarded, done>>

post(t) ==
    /\ events' = Append(events, t)
    /\ NotifyOne

\* A thread other than the queue's posts t.  An SDK or WebRTC callback does so
\* whether or not its object holds work.
Post(o, t) ==
    /\ t \in Tasks \ posted
    /\ post(t)
    /\ posted' = posted \cup {t}
    /\ guarded' = IF o \in work THEN guarded \cup {t} ELSE guarded
    /\ UNCHANGED <<workCount, current, work, done>>

\* The event that runs posts another one.
PostFromEvent(t) ==
    /\ runner = "running"
    /\ t \in Tasks \ posted
    /\ post(t)
    /\ posted' = posted \cup {t}
    /\ guarded' = guarded \cup {t}
    /\ UNCHANGED <<workCount, current, work, done>>

\* The EventQueueWork constructor.  The program constructs one on the main
\* thread before run() (SigIntContext) or in an event (WebrtcConnection).
AddWork(o) ==
    /\ runner \in {"created", "running"}
    /\ o \notin work
    /\ work' = work \cup {o}
    /\ workCount' = workCount + 1
    /\ UNCHANGED <<events, runner, current, posted, guarded, done>>

\* The EventQueueWork destructor, on whatever thread drops the owner.
RemoveWork(o) ==
    /\ o \in work
    /\ work' = work \ {o}
    /\ workCount' = workCount - 1
    /\ NotifyOne
    /\ UNCHANGED <<events, current, posted, guarded, done>>

\* pop's condition for sleeping.
MustWait == events = <<>> /\ workCount > 0

\* Mutant of WorkGone: the last work is not counted.
AtMostOneWork == workCount <= 1

\* pop's condition for returning nullptr when there is no event.
WorkGone == workCount < 1

AwaitEvents ==
    /\ runner = "popping" /\ MustWait
    /\ runner' = "waiting"
    /\ UNCHANGED <<events, workCount, current, work, posted, guarded, done>>

\* A condition variable may also wake without a notification.
SpuriousWakeup ==
    /\ runner = "waiting"
    /\ runner' = "woken"
    /\ UNCHANGED <<events, workCount, current, work, posted, guarded, done>>

HoldsLock == runner = "woken" \/ (runner = "popping" /\ ~MustWait)

\* Mutant of PopEvent: the front is read and not popped.
PopEventKept ==
    /\ HoldsLock
    /\ events # <<>>
    /\ current' = Head(events)
    /\ runner' = "running"
    /\ UNCHANGED <<events, workCount, work, posted, guarded, done>>

PopEvent ==
    /\ HoldsLock
    /\ events # <<>>
    /\ current' = Head(events)
    /\ events' = Tail(events)
    /\ runner' = "running"
    /\ UNCHANGED <<workCount, work, posted, guarded, done>>

\* pop returns nullptr and eventRunner, and with it run(), returns.
PopStop ==
    /\ HoldsLock
    /\ events = <<>> /\ WorkGone
    /\ runner' = "stopped"
    /\ UNCHANGED <<events, workCount, current, work, posted, guarded, done>>

\* Woken with nothing to do: round the loop again.
PopAgain ==
    /\ HoldsLock
    /\ events = <<>> /\ ~WorkGone
    /\ runner' = "popping"
    /\ UNCHANGED <<events, workCount, current, work, posted, guarded, done>>

\* Mutant of EventDone: the event is reset before it is accounted for.
EventDoneReset ==
    /\ runner = "running"
    /\ current' = NoTask
    /\ done' = done \cup {current'}
    /\ runner' = "popping"
    /\ UNCHANGED <<events, workCount, work, posted, guarded>>

EventDone ==
    /\ runner = "running"
    /\ done' = done \cup {current}
    /\ current' = NoTask
    /\ runner' = "popping"
    /\ UNCHANGED <<events, workCount, work, posted, guarded>>

QueueThread == AwaitEvents \/ PopEvent \/ PopStop \/ PopAgain \/ EventDone

Next ==
    \/ Run
    \/ \E o \in Owners, t \in Tasks : Post(o, t)
    \/ \E t \in Tasks : PostFromEvent(t)
    \/ \E o \in Owners : AddWork(o) \/ RemoveWork(o)
    \/ SpuriousWakeup
    \/ QueueThread

SafeSpec == Init /\ [][Next]_vars

\* main calls run(), the operating system schedules the queue thread, and an
\* event returns.  Nothing is assumed of the threads that post, nor that a
\* wakeup ever comes without a notification.
Spec == SafeSpec /\ WF_vars(Run) /\ WF_vars(QueueThread)
-----------------------------------------------------------------------------
\* The queue thread never sleeps on something to do: whoever made the queue
\* non-empty or removed the last work has woken it (notify_one in post and in
\* removeWork), whatever step of pop it was at.
NoLostWakeup == runner = "waiting" => events = <<>> /\ workCount > 0

\* run() returns with no work outstanding and with every event run that was
\* posted by an owner of work or by another event; only a post by a thread that
\* held no work may be left behind.
StoppedIsDrained == runner = "stopped" => work = {} /\ guarded \subseteq done

\* The locking, sleeping and waking implement the interface's contract.
Contract == INSTANCE EventQueueContract WITH
    todo <- events,
    phase <- IF runner \in {"created", "stopped"} THEN runner ELSE "running"

ImplementsContract == Contract!CSpec
=============================================================================
