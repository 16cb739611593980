-------------------------- MODULE EventQueueProofs --------------------------
(***************************************************************************)
(* EventQueue.tla for every set of owners and events: type correctness, no *)
(* lost wakeup, a drained queue at the stop, and the safety half of the    *)
(* refinement of the interface's contract.                                 *)
(***************************************************************************)
EXTENDS EventQueue, FiniteSetTheorems, TLAPS

\* The events in the queue, in any order.
Queued == {events[i] : i \in 1..Len(events)}

\* The work count is the number of EventQueueWork objects.
CountIsWork == workCount = Cardinality(work)

\* current is an event exactly while one runs.
RunsCurrent == runner = "running" <=> current # NoTask

\* No guarded event is ever out of sight: it has run, runs, or is queued.
GuardedAccounted == guarded \subseteq done \cup Queued \cup {current}

IInv ==
    /\ TypeOK
    /\ CountIsWork
    /\ RunsCurrent
    /\ GuardedAccounted
    /\ NoLostWakeup
    /\ StoppedIsDrained

\* What Append and Tail do to the elements of a sequence.
LEMMA AppendElements ==
    ASSUME NEW S, NEW s \in Seq(S), NEW e \in S
    PROVE  {Append(s, e)[i] : i \in 1..Len(Append(s, e))}
             = {s[i] : i \in 1..Len(s)} \cup {e}
<1>1. /\ Append(s, e) \in Seq(S)
      /\ Len(Append(s, e)) = Len(s) + 1
      /\ Len(s) \in Nat
      /\ \A i \in 1..Len(s) : Append(s, e)[i] = s[i]
      /\ Append(s, e)[Len(s) + 1] = e
  OBVIOUS
<1>2. 1..(Len(s) + 1) = (1..Len(s)) \cup {Len(s) + 1}
  BY <1>1
<1>3. QED
  BY <1>1, <1>2

LEMMA HeadTailElements ==
    ASSUME NEW S, NEW s \in Seq(S), s # <<>>
    PROVE  {s[i] : i \in 1..Len(s)}
             = {Tail(s)[i] : i \in 1..Len(Tail(s))} \cup {Head(s)}
<1>1. /\ Tail(s) \in Seq(S)
      /\ Head(s) = s[1]
      /\ Len(s) \in Nat \ {0}
      /\ Len(Tail(s)) = Len(s) - 1
      /\ \A i \in 1..Len(Tail(s)) : Tail(s)[i] = s[i + 1]
  OBVIOUS
<1>2. ASSUME NEW i \in 1..Len(s)
      PROVE  s[i] \in {Tail(s)[j] : j \in 1..Len(Tail(s))} \cup {Head(s)}
  <2>1. CASE i = 1
    BY <1>1, <2>1
  <2>2. CASE i # 1
    <3>1. i - 1 \in 1..Len(Tail(s)) /\ Tail(s)[i - 1] = s[i]
      BY <1>1, <2>2
    <3>2. QED
      BY <3>1
  <2>3. QED
    BY <2>1, <2>2
<1>3. ASSUME NEW i \in 1..Len(Tail(s))
      PROVE  Tail(s)[i] \in {s[j] : j \in 1..Len(s)}
  <2>1. i + 1 \in 1..Len(s)
    BY <1>1
  <2>2. QED
    BY <1>1, <2>1
<1>4. Head(s) \in {s[j] : j \in 1..Len(s)}
  BY <1>1
<1>5. QED
  BY <1>2, <1>3, <1>4

LEMMA InitIInv == Init => IInv
<1>1. ASSUME Init PROVE IInv
  BY <1>1, FS_EmptySet
     DEF Init, IInv, TypeOK, RunnerStates, CountIsWork, RunsCurrent,
         GuardedAccounted, Queued, NoLostWakeup, StoppedIsDrained
<1>2. QED
  BY <1>1

\* One step preserves the invariant, action by action.
LEMMA StepIInv == IInv /\ [Next]_vars => IInv'
<1> SUFFICES ASSUME IInv, [Next]_vars
             PROVE  IInv'
  OBVIOUS
<1> USE NoTaskAssumption
<1>0. /\ TypeOK /\ CountIsWork /\ RunsCurrent /\ GuardedAccounted
      /\ NoLostWakeup /\ StoppedIsDrained
      /\ work \in SUBSET Owners /\ IsFiniteSet(work)
  BY OwnersAssumption, FS_Subset DEF IInv, TypeOK
<1>1. CASE Run
  BY <1>0, <1>1 DEF Run, IInv, TypeOK, RunnerStates, CountIsWork, RunsCurrent,
     GuardedAccounted, Queued, NoLostWakeup, StoppedIsDrained
<1>2. ASSUME NEW t \in Tasks \ posted, post(t), posted' = posted \cup {t},
             guarded' \in {guarded, guarded \cup {t}},
             UNCHANGED <<workCount, current, work, done>>,
             runner = "stopped" => guarded' = guarded
      PROVE  IInv'
  <2>1. events' = Append(events, t) /\ events' # <<>> /\ events' \in Seq(Tasks)
    BY <1>0, <1>2 DEF post, TypeOK
  <2>2. runner' = IF runner = "waiting" THEN "woken" ELSE runner
    BY <1>2 DEF post, NotifyOne
  <2>3. TypeOK'
    BY <1>0, <1>2, <2>1, <2>2 DEF TypeOK, RunnerStates
  <2>4. CountIsWork' /\ RunsCurrent' /\ NoLostWakeup'
    BY <1>0, <1>2, <2>2 DEF CountIsWork, RunsCurrent, NoLostWakeup
  <2>5. Queued' = Queued \cup {t}
    BY <1>0, <2>1, AppendElements DEF Queued, TypeOK
  <2>6. GuardedAccounted'
    BY <1>0, <1>2, <2>5 DEF GuardedAccounted
  <2>7. StoppedIsDrained'
    BY <1>0, <1>2, <2>2 DEF StoppedIsDrained
  <2>8. QED
    BY <2>3, <2>4, <2>6, <2>7 DEF IInv
<1>3. ASSUME NEW o \in Owners, NEW t \in Tasks, Post(o, t)
      PROVE  IInv'
  <2>1. runner = "stopped" => o \notin work
    BY <1>0 DEF StoppedIsDrained
  <2>2. QED
    BY <1>2, <1>3, <2>1 DEF Post
<1>4. ASSUME NEW t \in Tasks, PostFromEvent(t)
      PROVE  IInv'
  BY <1>2, <1>4 DEF PostFromEvent
<1>5. ASSUME NEW o \in Owners, AddWork(o)
      PROVE  IInv'
  <2>1. Cardinality(work') = Cardinality(work) + 1
    BY <1>0, <1>5, FS_AddElement DEF AddWork
  <2>2. CountIsWork'
    BY <1>0, <1>5, <2>1 DEF AddWork, CountIsWork
  <2>3. QED
    BY <1>0, <1>5, <2>2 DEF AddWork, IInv, TypeOK, RunsCurrent, RunnerStates,
       GuardedAccounted, Queued, NoLostWakeup, StoppedIsDrained
<1>6. ASSUME NEW o \in Owners, RemoveWork(o)
      PROVE  IInv'
  <2>1. Cardinality(work') = Cardinality(work) - 1
    BY <1>0, <1>6, FS_RemoveElement DEF RemoveWork
  <2>2. CountIsWork'
    BY <1>0, <1>6, <2>1 DEF RemoveWork, CountIsWork
  <2>3. QED
    BY <1>0, <1>6, <2>2 DEF RemoveWork, NotifyOne, IInv, TypeOK, RunsCurrent,
       RunnerStates, GuardedAccounted, Queued, NoLostWakeup, StoppedIsDrained
<1>7. CASE SpuriousWakeup
  BY <1>0, <1>7 DEF SpuriousWakeup, IInv, TypeOK, RunnerStates, CountIsWork,
     RunsCurrent, GuardedAccounted, Queued, NoLostWakeup, StoppedIsDrained
<1>8. CASE AwaitEvents
  BY <1>0, <1>8 DEF AwaitEvents, IInv, TypeOK, RunnerStates, CountIsWork,
     RunsCurrent, GuardedAccounted, Queued, NoLostWakeup, MustWait,
     StoppedIsDrained
<1>9. CASE PopEvent
  <2>1. Queued = Queued' \cup {current'}
    BY <1>0, <1>9, HeadTailElements DEF PopEvent, Queued, TypeOK
  <2>2. current = NoTask /\ NoTask \notin guarded
    BY <1>0, <1>9 DEF PopEvent, HoldsLock, RunsCurrent, TypeOK
  <2>3. GuardedAccounted'
    BY <1>0, <1>9, <2>1, <2>2 DEF PopEvent, GuardedAccounted
  <2>4. /\ events' \in Seq(Tasks)
        /\ current' \in Tasks
    BY <1>0, <1>9 DEF PopEvent, TypeOK
  <2>5. TypeOK' /\ RunsCurrent'
    BY <1>0, <1>9, <2>4 DEF PopEvent, TypeOK, RunnerStates, RunsCurrent
  <2>6. QED
    BY <1>0, <1>9, <2>3, <2>5 DEF PopEvent, IInv, CountIsWork, NoLostWakeup,
       StoppedIsDrained
<1>10. CASE PopStop
  <2>1. work = {}
    <3>1. Cardinality(work) \in Nat /\ Cardinality(work) < 1
      BY <1>0, <1>10, FS_CardinalityType DEF PopStop, WorkGone, CountIsWork
    <3>2. QED
      BY <1>0, <3>1, FS_EmptySet
  <2>2. Queued = {} /\ current = NoTask /\ NoTask \notin guarded
    BY <1>0, <1>10 DEF PopStop, WorkGone, HoldsLock, Queued, RunsCurrent, TypeOK
  <2>3. guarded \subseteq done
    BY <1>0, <2>2 DEF GuardedAccounted
  <2>4. QED
    BY <1>0, <1>10, <2>1, <2>2, <2>3 DEF PopStop, IInv, TypeOK, RunnerStates,
       CountIsWork, RunsCurrent, GuardedAccounted, Queued, NoLostWakeup,
       StoppedIsDrained
<1>11. CASE PopAgain
  BY <1>0, <1>11 DEF PopAgain, WorkGone, HoldsLock, IInv, TypeOK, RunnerStates,
     CountIsWork, RunsCurrent, GuardedAccounted, Queued, NoLostWakeup,
     StoppedIsDrained
<1>12. CASE EventDone
  <2>1. current \in Tasks
    BY <1>0, <1>12 DEF EventDone, RunsCurrent, TypeOK
  <2>2. GuardedAccounted'
    BY <1>0, <1>12 DEF EventDone, GuardedAccounted, Queued
  <2>3. QED
    BY <1>0, <1>12, <2>1, <2>2 DEF EventDone, IInv, TypeOK, RunnerStates,
       CountIsWork, RunsCurrent, NoLostWakeup, StoppedIsDrained
<1>13. CASE UNCHANGED vars
  BY <1>0, <1>13 DEF vars, IInv, TypeOK, CountIsWork, RunsCurrent,
     GuardedAccounted, Queued, NoLostWakeup, StoppedIsDrained
<1>14. QED
  BY <1>1, <1>3, <1>4, <1>5, <1>6, <1>7, <1>8, <1>9, <1>10, <1>11, <1>12,
     <1>13 DEF Next, QueueThread

LEMMA SpecIInv == SafeSpec => []IInv
<1>1. QED
  BY InitIInv, StepIInv, PTL DEF SafeSpec

-----------------------------------------------------------------------------
\* The variables keep their types, the queue is a sequence of events and every
\* guarded event was posted.
THEOREM TypeCorrect == SafeSpec => []TypeOK
<1>1. IInv => TypeOK
  BY DEF IInv
<1>2. QED
  BY <1>1, SpecIInv, PTL

\* The queue thread never sleeps while an event is queued or the last work is
\* gone: pop's wait under mutex_ and the notify_one calls leave no window.
THEOREM WakeupsAreNotLost == SafeSpec => []NoLostWakeup
<1>1. IInv => NoLostWakeup
  BY DEF IInv
<1>2. QED
  BY <1>1, SpecIInv, PTL

\* When run() returns, no work is outstanding and every event posted under work
\* has run.
THEOREM StopIsDrained == SafeSpec => []StoppedIsDrained
<1>1. IInv => StoppedIsDrained
  BY DEF IInv
<1>2. QED
  BY <1>1, SpecIInv, PTL

-----------------------------------------------------------------------------
LEMMA InitRefines == Init => Contract!CInit
<1>1. QED
  BY DEF Init, Contract!CInit

\* A step of the implementation is a step of the contract, or one in which the
\* queue thread goes to sleep or wakes and the contract stutters.
LEMMA StepRefines == IInv /\ [Next]_vars => [Contract!CNext]_(Contract!cvars)
<1> SUFFICES ASSUME IInv, [Next]_vars
             PROVE  Contract!CNext \/ UNCHANGED Contract!cvars
  OBVIOUS
<1> USE NoTaskAssumption
<1>0. /\ TypeOK /\ CountIsWork /\ RunsCurrent /\ StoppedIsDrained
  BY DEF IInv
<1>1. CASE Run
  BY <1>1 DEF Run, Contract!CNext, Contract!CStart
<1>2. ASSUME NEW o \in Owners, NEW t \in Tasks, Post(o, t)
      PROVE  Contract!CPost(t)
  BY <1>0, <1>2 DEF Post, post, NotifyOne, Contract!CPost
<1>3. ASSUME NEW t \in Tasks, PostFromEvent(t)
      PROVE  Contract!CPost(t)
  BY <1>0, <1>3 DEF PostFromEvent, post, NotifyOne, Contract!CPost
<1>4. ASSUME NEW o \in Owners, AddWork(o)
      PROVE  Contract!CAddWork(o)
  BY <1>0, <1>4 DEF AddWork, RunsCurrent, Contract!CAddWork
<1>5. ASSUME NEW o \in Owners, RemoveWork(o)
      PROVE  Contract!CRemoveWork(o)
  BY <1>0, <1>5 DEF RemoveWork, NotifyOne, Contract!CRemoveWork
<1>6. CASE SpuriousWakeup \/ AwaitEvents \/ PopAgain
  BY <1>6 DEF SpuriousWakeup, AwaitEvents, PopAgain, HoldsLock, Contract!cvars
<1>7. CASE PopEvent
  BY <1>0, <1>7 DEF PopEvent, HoldsLock, RunsCurrent, Contract!CTake,
     Contract!CNext
<1>8. CASE PopStop
  <2>1. StoppedIsDrained' /\ RunsCurrent
    BY StepIInv DEF IInv
  <2>2. work = {}
    BY <1>8, <2>1 DEF PopStop, StoppedIsDrained
  <2>3. QED
    BY <1>8, <2>1, <2>2 DEF PopStop, HoldsLock, RunsCurrent, Contract!CStop,
       Contract!CNext
<1>9. CASE EventDone
  BY <1>0, <1>9 DEF EventDone, RunsCurrent, Contract!CFinish, Contract!CNext
<1>10. CASE UNCHANGED vars
  BY <1>10 DEF vars, Contract!cvars
<1>11. QED
  BY <1>1, <1>2, <1>3, <1>4, <1>5, <1>6, <1>7, <1>8, <1>9, <1>10
     DEF Next, QueueThread, Contract!CNext

\* The lock, the condition variable and the count implement the contract of
\* nabto_device_webrtc.hpp: one task at a time, in order, until the work is gone.
THEOREM ImplementsContractSafely == SafeSpec => Contract!CSafeSpec
<1>1. QED
  BY InitRefines, StepRefines, SpecIInv, PTL DEF SafeSpec, Contract!CSafeSpec
=============================================================================
