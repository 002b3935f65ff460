----------------------------- MODULE WorkerProofs -----------------------------
(***************************************************************************)
(* Proofs about one worker, for any number of fibers, tasks, threads and   *)
(* waits, timed or not: the counters of Work are exact and no wake-up of   *)
(* the sleeping thread is lost; no task is lost or run twice, no signal    *)
(* and no timer of a waiting task is lost, fibers are reused, and the      *)
(* worker stops with nothing left behind.                                  *)
(***************************************************************************)
EXTENDS Worker, FiniteSetTheorems, TLAPS

\* add(), erase() and take() keep the container well typed.
LEMMA AddType ==
    ASSUME NEW w \in Containers, NEW tp \in Time, NEW f \in Fibers
    PROVE  add(w, tp, f) \in Containers
<1>1. Timeout(tp, f) \in [timepoint : Time, fiber : Fibers]
    BY DEF Timeout
<1> QED
    BY <1>1 DEF add, Containers

LEMMA EraseType ==
    ASSUME NEW w \in Containers, NEW f \in Fibers
    PROVE  erase(w, f) \in Containers
    BY DEF erase, Containers

LEMMA NoneType == none \in Containers
    BY DEF none, Containers

LEMMA TakeType ==
    ASSUME NEW w \in Containers, NEW t \in w.timeouts
    PROVE  /\ t.fiber \in Fibers /\ t.timepoint \in Time
           /\ afterTake(w, t) \in Containers
<1>1. t \in [timepoint : Time, fiber : Fibers]
    BY DEF Containers
<1> QED
    BY <1>1 DEF afterTake, Containers

-----------------------------------------------------------------------------
\* A fiber that does not have the thread was switched away from, has ended, or
\* was never created.
Parked ==
    \A f \in Fibers : f # currentFiber =>
        pc[f] \in {"blocked", "switched", "ended", "unborn"}

\* The thread sleeps only after it asked for notifications.
SleepAsksForNotify == pc[currentFiber] \in Sleeping => notifyAdded

\* Only fibers that were created are referred to.
Created ==
    /\ currentFiber <= workerFibers
    /\ \A i \in DOMAIN fibers : fibers[i] <= workerFibers
    /\ \A f \in idleFibers : f <= workerFibers
    /\ \A t \in waiting.timeouts : t.fiber <= workerFibers
    /\ \A f \in Fibers : f > workerFibers => pc[f] = "unborn" /\ state[f] = "Running"

\* A stack inside a task, or inside a wait, has that task; a stack that is not
\* inside a wait has no call of wait on it.
StackConsistent ==
    \A f \in Fibers :
        /\ pc[f] \in {"task", "wait", "relock"} \/ call[f] # "none" => task[f] \in Tasks
        /\ pc[f] \in {"task", "runUntilIdle", "switched"} => call[f] = "none"

IInv ==
    /\ TypeOK
    /\ StackConsistent
    /\ NumConsistent
    /\ Created
    /\ BlockedCounted
    /\ Parked
    /\ SleepAsksForNotify
    /\ NoLostWakeup

-----------------------------------------------------------------------------
LEMMA InitIInv == Init => IInv
<1> SUFFICES ASSUME Init PROVE IInv
    OBVIOUS
<1> USE DEF Init, Main, Idling
<1>2. TypeOK
    BY NoneType, WorkerAssumption, ContainerAssumption
    DEF TypeOK, Labels, Locked, Sleeping, Steps, Time
<1>3. NumConsistent
    BY DEF NumConsistent
<1>7. StackConsistent
    BY WorkerAssumption DEF StackConsistent
<1>5. BlockedCounted
  <2>1. {f \in Fibers : pc[f] = "blocked"} = {}
      OBVIOUS
  <2> QED
      BY <2>1, FS_EmptySet DEF BlockedCounted
<1>6. Created
    BY ContainerAssumption DEF Created, none
<1>4. Parked /\ SleepAsksForNotify /\ NoLostWakeup
    BY WorkerAssumption DEF Parked, SleepAsksForNotify, NoLostWakeup, Sleeping
<1> QED
    BY <1>2, <1>3, <1>4, <1>5, <1>6, <1>7 DEF IInv

-----------------------------------------------------------------------------
(* Type correctness, one step per action. *)

LEMMA TypeOfOthers ==
    ASSUME TypeOK, NumConsistent, NEW e \in Externals, External(e)
    PROVE  TypeOK'
<1> USE DEF TypeOK, queues, pool, sleep, stack, users, history
<1>a. Idling \in Steps /\ Notifying \in Steps
    BY WorkerAssumption DEF Idling, Notifying, Steps, Main
<1>1. ASSUME NEW t \in Tasks, Enqueue(e, t) PROVE TypeOK'
    BY <1>1, <1>a DEF Enqueue, PushTask, Notifies
<1>2. ASSUME NEW t \in Tasks, Signal(e, t) PROVE TypeOK'
  <2>1. \A f \in Fibers : [at |-> "signal", fiber |-> f] \in Steps
      BY DEF Steps
  <2> QED
      BY <1>2, <1>a, <2>1 DEF Signal
<1>3. CASE Steal(e)
    BY <1>3 DEF Steal, NumConsistent
<1>4. CASE NotifyAdded(e)
    BY <1>4, <1>a DEF NotifyAdded
<1>5. ASSUME NEW f \in Fibers, EnqueueFiber(e, f) PROVE TypeOK'
  <2>1. ASSUME PushFiber(f)
        PROVE  /\ num' \in Nat /\ fibers' \in Seq(Fibers) /\ waiting' \in Containers
               /\ state' \in [Fibers -> {"Idle", "Waiting", "Yielded", "Queued", "Running"}]
      BY <2>1, EraseType DEF PushFiber
  <2>2. ASSUME Notifies(e)
        PROVE  step' \in [Externals -> Steps] /\ lock' \in Externals \cup {NoThread, Self}
      BY <2>2, <1>a DEF Notifies
  <2>3. CASE NeedsEnqueue(f)
      BY <1>5, <2>1, <2>2, <2>3 DEF EnqueueFiber
  <2>4. CASE ~NeedsEnqueue(f)
      BY <1>5, <1>a, <2>4 DEF EnqueueFiber
  <2> QED
      BY <2>3, <2>4
<1>6. CASE SignalNotifies(e)
    BY <1>5, <1>6 DEF SignalNotifies, Steps
<1>7. ASSUME NEW f \in Fibers, NotifyBare(e, f) PROVE TypeOK'
    BY <1>5, <1>7 DEF NotifyBare
<1> QED
    BY <1>1, <1>2, <1>3, <1>4, <1>6, <1>7 DEF External
\* The actions of the worker's thread whose effect on the types is immediate.
LEMMA GotoType ==
    ASSUME TypeOK, NEW l \in Labels, Goto(l)
    PROVE  pc' \in [Fibers -> Labels]
    BY DEF TypeOK, Goto

LEMMA LabelsType ==
    /\ Locked \subseteq Labels /\ Sleeping \subseteq Labels
    /\ {"spin", "task", "wait", "relock", "ended", "exited"} \subseteq Labels
    /\ {"run", "runUntilShutdown", "waitForWork", "workWait", "fiberTimeouts", "suspend",
        "runUntilIdle", "switched", "blocked", "undefined"} \subseteq Labels
    /\ {"runSleep", "workSleep"} \subseteq Labels
    /\ AfterWaitForWork \in Labels
    BY DEF Labels, Locked, Sleeping, AfterWaitForWork

LEMMA TypeOfSleep ==
    ASSUME TypeOK, RunWait \/ RunWake \/ ThreadWait \/ ThreadWake \/ ThreadTimeOut
    PROVE  TypeOK'
<1> USE DEF TypeOK, queues, pool, sleep, stack, users, history
<1>1. ASSUME NEW l \in Labels, FallAsleep(l)
      PROVE  /\ mutex' \in BOOLEAN /\ pc' \in [Fibers -> Labels]
             /\ notifyAdded' \in BOOLEAN /\ awake' \in BOOLEAN
             /\ sleepUntil' \in Time \cup {NoTime}
    BY <1>1, TakeType DEF FallAsleep, Unlock, Goto
<1>2. ASSUME NEW h \in Labels, NEW a \in Labels, NEW p \in BOOLEAN, NEW n \in Labels,
             WorkWait(h, a, p, n)
      PROVE  TypeOK'
    BY <1>1, <1>2 DEF WorkWait, Goto
<1>3. ASSUME NEW h \in Labels, NEW a, WakeUp(h, a) PROVE TypeOK'
    BY <1>3 DEF WakeUp, Goto, Lock
<1>4. CASE RunWait
    BY <1>2, <1>4, LabelsType DEF RunWait, RunPredicate, isWaiting
<1>5. CASE ThreadWait
    BY <1>2, <1>5, LabelsType DEF ThreadWait, WorkPredicate
<1>6. CASE RunWake \/ ThreadWake
    BY <1>3, <1>6, LabelsType DEF RunWake, ThreadWake
<1>7. CASE ThreadTimeOut
    BY <1>7, LabelsType DEF ThreadTimeOut, Lock, Goto
<1> QED
    BY <1>4, <1>5, <1>6, <1>7

\* A step that goes to another place, and at most takes or gives back the mutex.
LEMMA TypeOfGoto ==
    ASSUME TypeOK, NEW l \in Labels, Goto(l), mutex' \in BOOLEAN,
           UNCHANGED <<queues, numBlockedFibers, waiting, pool, shutdown, sleep, state,
                       stack, users, history>>
    PROVE  TypeOK'
<1>1. pc' \in [Fibers -> Labels]
    BY GotoType
<1> QED
    BY <1>1 DEF TypeOK, queues, pool, sleep, stack, users, history

LEMMA TypeOfLoop ==
    ASSUME TypeOK, NumConsistent, BlockedCounted, Loop
    PROVE  TypeOK'
<1>0. mutex \in BOOLEAN
    BY DEF TypeOK
<1>1. CASE Start \/ KeepRunning \/ WaitForWork \/ SpinEnd \/ TimeoutsEnd \/ RunUntilIdleEnd
    BY <1>0, <1>1, TypeOfGoto, LabelsType
    DEF Start, KeepRunning, WaitForWork, SpinEnd, TimeoutsEnd, RunUntilIdleEnd, Lock, Unlock
<1>2. CASE LeaveRun
  <2>1. CASE Goto("exited") /\ Unlock /\ UNCHANGED currentFiber
      BY <1>2, <2>1, TypeOfGoto, LabelsType DEF LeaveRun, Unlock, pool
  <2>2. CASE Goto("ended") /\ currentFiber' = Main /\ UNCHANGED mutex
    <3>1. pc' \in [Fibers -> Labels] /\ currentFiber' \in Fibers
        BY <2>2, GotoType, LabelsType, WorkerAssumption DEF Main
    <3> QED
        BY <1>2, <2>2, <3>1 DEF LeaveRun, TypeOK, queues, sleep, stack, users, history
  <2> QED
      BY <1>2, <2>1, <2>2 DEF LeaveRun
<1>3. CASE RunWait \/ RunWake \/ ThreadWait \/ ThreadWake \/ ThreadTimeOut
    BY <1>3, TypeOfSleep
<1> USE DEF TypeOK, queues, pool, sleep, stack, users, history
<1> USE LabelsType DEF Goto, At, Lock, Unlock
<1>4. ASSUME NEW t \in waiting.timeouts, TakeTimeout(t) PROVE TypeOK'
    BY <1>4, TakeType DEF TakeTimeout
<1>5. CASE RunFiber
    BY <1>5 DEF RunFiber, NumConsistent
<1>6. CASE RunTask
  <2>1. Head(tasks) \in Tasks /\ Tail(tasks) \in Seq(Tasks) /\ Len(tasks) > 0
      BY <1>6 DEF RunTask
  <2>2. num' \in Nat
      BY <1>6, <2>1 DEF RunTask, NumConsistent
  <2> QED
      BY <1>6, <2>1, <2>2 DEF RunTask
<1>7. CASE ResumeIdle
    BY <1>7 DEF ResumeIdle
<1>8. CASE SwitchAway
  <2>1. CASE SwitchToQueued
      BY <1>8, <2>1 DEF SwitchAway, SwitchToQueued, NumConsistent
  <2>2. CASE SwitchToIdle
      BY <1>8, <2>2 DEF SwitchAway, SwitchToIdle
  <2>3. CASE SwitchToNew
      BY <1>8, <2>3 DEF SwitchAway, SwitchToNew
  <2> QED
      BY <1>8, <2>1, <2>2, <2>3 DEF SwitchAway
<1>9. CASE Resume
  <2>1. numBlockedFibers # 0
    <3>1. currentFiber \in {f \in Fibers : pc[f] = "blocked"}
        BY <1>9 DEF Resume
    <3>2. IsFiniteSet({f \in Fibers : pc[f] = "blocked"})
        BY ContainerAssumption, FS_Subset
    <3> QED
        BY <3>1, <3>2, FS_EmptySet DEF BlockedCounted
  <2>4. numBlockedFibers' = numBlockedFibers - 1 /\ mutex' = FALSE
        /\ state' = [state EXCEPT ![currentFiber] = "Running"]
      BY <1>9 DEF Resume, Unblock
  <2>2. /\ numBlockedFibers' \in Nat /\ mutex' \in BOOLEAN
        /\ state' \in [Fibers -> {"Idle", "Waiting", "Yielded", "Queued", "Running"}]
    <3>1. numBlockedFibers' \in Nat
        BY <2>1, <2>4
    <3>2. state' \in [Fibers -> {"Idle", "Waiting", "Yielded", "Queued", "Running"}]
        BY <2>4
    <3> QED
        BY <2>4, <3>1, <3>2
  <2>3. /\ pc' \in [Fibers -> Labels] /\ task' \in [Fibers -> Tasks \cup {NoTask}]
        /\ call' \in [Fibers -> {"none", "bare", "pred"}]
        /\ timeout' \in [Fibers -> Time \cup {NoTime}]
      BY <1>9 DEF Resume, Returns
  <2> QED
      BY <1>9, <2>2, <2>3 DEF Resume
<1>10. CASE Relock
  <2>1. CASE Returns /\ UNCHANGED lock
    <3>1. /\ pc' \in [Fibers -> Labels] /\ task' = task
          /\ call' \in [Fibers -> {"none", "bare", "pred"}]
          /\ timeout' \in [Fibers -> Time \cup {NoTime}]
        BY <2>1 DEF Returns
    <3> QED
        BY <1>10, <2>1, <3>1 DEF Relock
  <2>2. CASE Goto("wait") /\ lock' = Self /\ UNCHANGED stack
    <3>1. pc' \in [Fibers -> Labels]
        BY <2>2
    <3> QED
        BY <1>10, <2>2, <3>1 DEF Relock
  <2> QED
      BY <1>10, <2>1, <2>2 DEF Relock
<1>11. ASSUME NEW tp \in Time \cup {NoTime}, Suspend(tp)
       PROVE  /\ mutex' \in BOOLEAN /\ waiting' \in Containers /\ pc' \in [Fibers -> Labels]
              /\ state' \in [Fibers -> {"Idle", "Waiting", "Yielded", "Queued", "Running"}]
    BY <1>11, AddType DEF Suspend
<1>12. CASE WaitPred
  <2>1. ASSUME pred[task[currentFiber]] PROVE TypeOK'
    <3>0. Returns
        BY <1>12, <2>1 DEF WaitPred
    <3>1. /\ pc' \in [Fibers -> Labels] /\ task' = task
          /\ call' \in [Fibers -> {"none", "bare", "pred"}]
          /\ timeout' \in [Fibers -> Time \cup {NoTime}]
        BY <3>0 DEF Returns
    <3> QED
        BY <1>12, <2>1, <3>1 DEF WaitPred
  <2>2. ASSUME ~pred[task[currentFiber]] PROVE TypeOK'
    <3>1. /\ mutex' \in BOOLEAN /\ waiting' \in Containers /\ pc' \in [Fibers -> Labels]
          /\ state' \in [Fibers -> {"Idle", "Waiting", "Yielded", "Queued", "Running"}]
        BY <1>11, <1>12, <2>2 DEF WaitPred
    <3> QED
        BY <1>12, <2>2, <3>1 DEF WaitPred
  <2> QED
      BY <2>1, <2>2
<1> QED
    BY <1>1, <1>2, <1>3, <1>4, <1>5, <1>6, <1>7, <1>8, <1>9, <1>10, <1>12 DEF Loop

LEMMA TypeOfTask ==
    ASSUME TypeOK, StackConsistent, Task
    PROVE  TypeOK'
<1> USE DEF TypeOK, queues, pool, sleep, stack, users, history
<1> USE LabelsType DEF Goto, At, Lock, Unlock
<1>1. ASSUME NEW t \in Tasks, TaskEnqueues(t) \/ SpinSteals(t) PROVE TypeOK'
  <2>1. ASSUME PushTask(t) PROVE num' \in Nat /\ tasks' \in Seq(Tasks)
      BY <2>1 DEF PushTask
  <2>2. CASE TaskEnqueues(t)
      BY <2>1, <2>2 DEF TaskEnqueues
  <2>3. CASE SpinSteals(t)
      BY <2>1, <2>3 DEF SpinSteals
  <2> QED
      BY <1>1, <2>2, <2>3
<1>2. ASSUME NEW t \in Tasks, TaskSignals(t) PROVE TypeOK'
  <2>1. ASSUME NEW f \in Fibers, PushFiber(f)
        PROVE  /\ num' \in Nat /\ fibers' \in Seq(Fibers) /\ waiting' \in Containers
               /\ state' \in [Fibers -> {"Idle", "Waiting", "Yielded", "Queued", "Running"}]
      BY <2>1, EraseType DEF PushFiber
  <2>2. /\ num' \in Nat /\ fibers' \in Seq(Fibers) /\ waiting' \in Containers
        /\ state' \in [Fibers -> {"Idle", "Waiting", "Yielded", "Queued", "Running"}]
      BY <1>2, <2>1 DEF TaskSignals
  <2> QED
      BY <1>2, <2>2 DEF TaskSignals
<1>3. ASSUME NEW tp \in TimePoints \cup {NoTime}, NEW o, Calls(o, tp)
      PROVE  /\ call' \in [Fibers -> {"none", "bare", "pred"}] /\ waits' \in Nat
             /\ timeout' \in [Fibers -> Time \cup {NoTime}] /\ task' = task
    BY <1>3, WorkerAssumption DEF Calls
<1>4. ASSUME NEW tp \in TimePoints \cup {NoTime}, WaitCall(tp) PROVE TypeOK'
    BY <1>3, <1>4 DEF WaitCall
<1>5. ASSUME NEW tp \in TimePoints \cup {NoTime}, WaitBare(tp) PROVE TypeOK'
  <2>1. /\ mutex' \in BOOLEAN /\ waiting' \in Containers /\ pc' \in [Fibers -> Labels]
        /\ state' \in [Fibers -> {"Idle", "Waiting", "Yielded", "Queued", "Running"}]
      BY <1>5, AddType, WorkerAssumption DEF WaitBare, Suspend
  <2> QED
      BY <1>3, <1>5, <2>1 DEF WaitBare
<1>6. CASE TaskEnds
  <2>1. task[currentFiber] \in Tasks
      BY <1>6 DEF TaskEnds, StackConsistent
  <2> QED
      BY <1>6, <2>1 DEF TaskEnds
<1> QED
    BY <1>1, <1>2, <1>4, <1>5, <1>6 DEF Task

LEMMA TypeStep == IInv /\ [Next]_vars => TypeOK'
<1> SUFFICES ASSUME IInv, [Next]_vars PROVE TypeOK'
    OBVIOUS
<1> USE DEF IInv
<1>1. CASE Loop
    BY <1>1, TypeOfLoop
<1>2. CASE Task
    BY <1>2, TypeOfTask
<1>3. CASE \E e \in Externals : External(e)
    BY <1>3, TypeOfOthers
<1>4. CASE Tick
    BY <1>4, ContainerAssumption
    DEF Tick, TypeOK, Time, queues, pool, sleep, stack, users
<1>5. CASE UNCHANGED vars
    BY <1>5 DEF TypeOK, vars, queues, pool, sleep, stack, users, history
<1> QED
    BY <1>1, <1>2, <1>3, <1>4, <1>5 DEF Next, Terminated

-----------------------------------------------------------------------------
(* num counts the queued tasks and fibers. *)

LEMMA NumStep == IInv /\ [Next]_vars => NumConsistent'
<1> SUFFICES ASSUME IInv, [Next]_vars PROVE NumConsistent'
    OBVIOUS
<1> USE DEF IInv, TypeOK, NumConsistent, queues
<1>1. ASSUME NEW t \in Tasks, PushTask(t), UNCHANGED fibers PROVE NumConsistent'
    BY <1>1 DEF PushTask
<1>2. ASSUME NEW f \in Fibers, PushFiber(f), UNCHANGED tasks PROVE NumConsistent'
    BY <1>2 DEF PushFiber
<1>3. CASE UNCHANGED <<num, tasks, fibers>>
    BY <1>3
<1>4. CASE Loop
  <2>1. ASSUME NEW t \in waiting.timeouts, TakeTimeout(t) PROVE NumConsistent'
      BY <2>1, TakeType DEF TakeTimeout
  <2>2. CASE RunFiber
      BY <2>2 DEF RunFiber
  <2>3. CASE RunTask
      BY <2>3 DEF RunTask
  <2>4. CASE SwitchAway
      BY <2>4 DEF SwitchAway, SwitchToQueued, SwitchToIdle, SwitchToNew
  <2>5. CASE \/ Start \/ KeepRunning \/ LeaveRun \/ WaitForWork \/ SpinEnd \/ TimeoutsEnd
             \/ RunUntilIdleEnd \/ ResumeIdle \/ Resume \/ Relock \/ WaitPred
      BY <2>5, <1>3 DEF Start, KeepRunning, LeaveRun, WaitForWork, SpinEnd, TimeoutsEnd,
         RunUntilIdleEnd, ResumeIdle, Resume, Relock, WaitPred
  <2>6. CASE RunWait \/ RunWake \/ ThreadWait \/ ThreadWake \/ ThreadTimeOut
      BY <2>6, <1>3 DEF RunWait, RunWake, ThreadWait, ThreadWake, ThreadTimeOut, WorkWait,
         WakeUp
  <2> QED
      BY <1>4, <2>1, <2>2, <2>3, <2>4, <2>5, <2>6 DEF Loop
<1>5. CASE Task
  <2>1. ASSUME NEW t \in Tasks, TaskEnqueues(t) \/ SpinSteals(t) PROVE NumConsistent'
      BY <2>1, <1>1 DEF TaskEnqueues, SpinSteals
  <2>2. ASSUME NEW t \in Tasks, TaskSignals(t) PROVE NumConsistent'
      BY <2>2, <1>2, <1>3 DEF TaskSignals
  <2>3. ASSUME NEW tp, WaitCall(tp) \/ WaitBare(tp) \/ TaskEnds PROVE NumConsistent'
      BY <2>3, <1>3 DEF WaitCall, WaitBare, TaskEnds
  <2> QED
      BY <1>5, <2>1, <2>2, <2>3 DEF Task
<1>6. ASSUME NEW e \in Externals, External(e) PROVE NumConsistent'
  <2>1. ASSUME NEW t \in Tasks, Enqueue(e, t) PROVE NumConsistent'
      BY <2>1, <1>1 DEF Enqueue
  <2>2. CASE Steal(e)
      BY <2>2 DEF Steal
  <2>3. ASSUME NEW f \in Fibers, EnqueueFiber(e, f) PROVE NumConsistent'
      BY <2>3, <1>2, <1>3 DEF EnqueueFiber
  <2>4. CASE SignalNotifies(e)
      BY <2>3, <2>4 DEF SignalNotifies, Steps
  <2>5. ASSUME NEW f \in Fibers, NotifyBare(e, f) PROVE NumConsistent'
      BY <2>3, <2>5 DEF NotifyBare
  <2>6. ASSUME NEW t \in Tasks, Signal(e, t) \/ NotifyAdded(e) PROVE NumConsistent'
      BY <2>6, <1>3 DEF Signal, NotifyAdded
  <2> QED
      BY <1>6, <2>1, <2>2, <2>4, <2>5, <2>6, WorkerAssumption DEF External
<1>7. CASE Tick \/ UNCHANGED vars
    BY <1>7, <1>3 DEF Tick, vars
<1> QED
    BY <1>4, <1>5, <1>6, <1>7 DEF Next, Terminated

-----------------------------------------------------------------------------
(* Where the stacks stand. *)

\* What a step of another thread, of the clock, or of a task that goes on leaves
\* alone: the stacks.
Stacks == <<pc, task, call, currentFiber, workerFibers>>

LEMMA OthersLeaveStacks ==
    ASSUME \/ \E e \in Externals : External(e)
           \/ \E t \in Tasks : TaskEnqueues(t) \/ TaskSignals(t)
           \/ Tick
           \/ UNCHANGED vars
    PROVE  UNCHANGED Stacks
<1> USE DEF Stacks, stack, pool, vars
<1>1. ASSUME NEW e \in Externals, External(e) PROVE UNCHANGED Stacks
    BY <1>1 DEF External, Enqueue, Signal, Steal, NotifyAdded, SignalNotifies, NotifyBare,
       EnqueueFiber
<1>2. ASSUME NEW t \in Tasks, TaskEnqueues(t) \/ TaskSignals(t) PROVE UNCHANGED Stacks
    BY <1>2 DEF TaskEnqueues, TaskSignals
<1>3. CASE Tick \/ UNCHANGED vars
    BY <1>3 DEF Tick
<1> QED
    BY <1>1, <1>2, <1>3

LEMMA ParkedStep == IInv /\ [Next]_vars => Parked'
<1> SUFFICES ASSUME IInv, [Next]_vars PROVE Parked'
    OBVIOUS
<1> USE DEF IInv, TypeOK, Parked, pool, At
<1>1. CASE UNCHANGED Stacks
    BY <1>1 DEF Stacks
<1>2. ASSUME NEW l, Goto(l), UNCHANGED currentFiber PROVE Parked'
    BY <1>2 DEF Goto
<1>3. CASE Loop
  <2>1. ASSUME NEW t \in waiting.timeouts, TakeTimeout(t) PROVE Parked'
      BY <2>1 DEF TakeTimeout
  <2>2. CASE RunFiber
      BY <2>2 DEF RunFiber, Goto
  <2>3. CASE LeaveRun
      BY <2>3 DEF LeaveRun, Goto
  <2>4. CASE SwitchAway
    <3>1. CASE SwitchToQueued
        BY <3>1 DEF SwitchToQueued, Goto
    <3>2. CASE SwitchToIdle
        BY <3>2 DEF SwitchToIdle, Goto
    <3>3. CASE SwitchToNew
        BY <3>3 DEF SwitchToNew
    <3> QED
        BY <2>4, <3>1, <3>2, <3>3 DEF SwitchAway
  <2>5. CASE \/ Start \/ KeepRunning \/ WaitForWork \/ SpinEnd \/ TimeoutsEnd \/ RunTask
             \/ RunUntilIdleEnd \/ ResumeIdle \/ Resume \/ Relock \/ WaitPred
      BY <2>5, <1>2 DEF Start, KeepRunning, WaitForWork, SpinEnd, TimeoutsEnd, RunTask,
         RunUntilIdleEnd, ResumeIdle, Resume, Relock, WaitPred, Returns, Suspend
  <2>6. CASE RunWait \/ RunWake \/ ThreadWait \/ ThreadWake \/ ThreadTimeOut
      BY <2>6, <1>2 DEF RunWait, RunWake, ThreadWait, ThreadWake, ThreadTimeOut, WorkWait,
         WakeUp, FallAsleep
  <2> QED
      BY <1>3, <2>1, <2>2, <2>3, <2>4, <2>5, <2>6 DEF Loop
<1>4. ASSUME NEW tp, WaitCall(tp) \/ WaitBare(tp) \/ TaskEnds PROVE Parked'
    BY <1>4, <1>2 DEF WaitCall, WaitBare, TaskEnds, Suspend
<1>5. ASSUME NEW t \in Tasks, SpinSteals(t) PROVE Parked'
    BY <1>5, <1>2 DEF SpinSteals
<1> QED
    BY <1>1, <1>3, <1>4, <1>5, OthersLeaveStacks DEF Next, Task, Terminated

LEMMA StackStep == IInv /\ [Next]_vars => StackConsistent'
<1> SUFFICES ASSUME IInv, [Next]_vars PROVE StackConsistent'
    OBVIOUS
<1> USE DEF IInv, TypeOK, StackConsistent, pool, stack, At
<1>1. CASE UNCHANGED Stacks
    BY <1>1 DEF Stacks
<1>2. ASSUME NEW l, Goto(l), UNCHANGED <<task, call>>,
             l \notin {"task", "wait", "relock", "runUntilIdle", "switched"}
      PROVE  StackConsistent'
    BY <1>2 DEF Goto
<1>3. ASSUME Goto(AfterWaitForWork), UNCHANGED <<task, call>> PROVE StackConsistent'
    BY <1>3, WorkerAssumption DEF Goto, AfterWaitForWork
<1>4. CASE Loop
  <2>1. ASSUME NEW t \in waiting.timeouts, TakeTimeout(t) PROVE StackConsistent'
      BY <2>1 DEF TakeTimeout
  <2>2. CASE RunFiber \/ ResumeIdle
      BY <2>2 DEF RunFiber, ResumeIdle, Goto
  <2>3. CASE RunTask
    <3>1. Head(tasks) \in Tasks
        BY <2>3 DEF RunTask
    <3> QED
        BY <2>3, <3>1 DEF RunTask, Goto
  <2>4. CASE SwitchAway
    <3>1. CASE SwitchToQueued \/ SwitchToIdle
        BY <2>4, <3>1, <1>2 DEF SwitchAway, SwitchToQueued, SwitchToIdle
    <3>2. CASE SwitchToNew
        BY <2>4, <3>2 DEF SwitchAway, SwitchToNew
    <3> QED
        BY <2>4, <3>1, <3>2 DEF SwitchAway
  <2>5. CASE WaitForWork \/ TimeoutsEnd
      BY <2>5, <1>2, <1>3 DEF WaitForWork, TimeoutsEnd
  <2>6. CASE Start \/ KeepRunning \/ LeaveRun \/ SpinEnd \/ RunUntilIdleEnd
      BY <2>6, <1>2 DEF Start, KeepRunning, LeaveRun, SpinEnd, RunUntilIdleEnd
  <2>7. CASE RunWait \/ RunWake \/ ThreadWait \/ ThreadWake \/ ThreadTimeOut
      BY <2>7, <1>2 DEF RunWait, RunWake, ThreadWait, ThreadWake, ThreadTimeOut, WorkWait,
         WakeUp, FallAsleep
  <2>8. ASSUME Returns, task[currentFiber] \in Tasks PROVE StackConsistent'
      BY <2>8 DEF Returns, Goto
  <2>9. CASE Resume
    <3>1. CASE call[currentFiber] = "bare"
        BY <2>8, <2>9, <3>1 DEF Resume
    <3>2. CASE call[currentFiber] # "bare"
        BY <2>9, <3>2 DEF Resume, Goto
    <3> QED
        BY <3>1, <3>2
  <2>10. CASE Relock
    <3>1. ASSUME Goto("wait"), UNCHANGED stack PROVE StackConsistent'
        BY <2>10, <3>1 DEF Relock, Goto
    <3> QED
        BY <2>8, <2>10, <3>1 DEF Relock
  <2>11. CASE WaitPred
    <3>1. ASSUME Goto("waitForWork"), UNCHANGED stack PROVE StackConsistent'
        BY <1>2, <3>1
    <3> QED
        BY <2>8, <2>11, <3>1 DEF WaitPred, Suspend
  <2> QED
      BY <1>4, <2>1, <2>2, <2>3, <2>4, <2>5, <2>6, <2>7, <2>9, <2>10, <2>11 DEF Loop
<1>5. ASSUME NEW tp, WaitCall(tp) \/ WaitBare(tp) PROVE StackConsistent'
    BY <1>5 DEF WaitCall, WaitBare, Suspend, Calls, Goto
<1>6. CASE TaskEnds
    BY <1>6 DEF TaskEnds, Goto
<1>7. ASSUME NEW t \in Tasks, SpinSteals(t) PROVE StackConsistent'
    BY <1>7, <1>2 DEF SpinSteals
<1> QED
    BY <1>1, <1>4, <1>5, <1>6, <1>7, OthersLeaveStacks DEF Next, Task, Terminated

-----------------------------------------------------------------------------
(* The sleep of the worker's thread. *)

\* Steps of the worker's thread leave it awake, except the one with which it falls
\* asleep: that one asked for notifications and saw no work.
LEMMA ThreadSteps ==
    ASSUME IInv, \/ Loop \/ TaskEnds
                 \/ \E tp \in TimePoints \cup {NoTime} : WaitCall(tp) \/ WaitBare(tp)
                 \/ \E t \in Tasks : SpinSteals(t)
    PROVE  pc'[currentFiber'] \in Sleeping => notifyAdded' /\ num' = 0
<1> DEFINE Awake == pc'[currentFiber'] \notin Sleeping
<1> USE DEF IInv, TypeOK, pool, queues, At, Sleeping
<1>1. ASSUME NEW l, Goto(l), UNCHANGED currentFiber, l \notin Sleeping PROVE Awake
    BY <1>1 DEF Goto
<1>2. ASSUME Goto(AfterWaitForWork), UNCHANGED currentFiber PROVE Awake
    BY <1>2 DEF Goto, AfterWaitForWork
<1>3. ASSUME NEW t \in waiting.timeouts, TakeTimeout(t) PROVE Awake
    BY <1>3 DEF TakeTimeout
<1>4. CASE RunFiber
  <2>1. currentFiber' \in Fibers
      BY <1>4 DEF RunFiber
  <2> QED
      BY <1>4, <2>1 DEF RunFiber, Goto, Parked
<1>5. CASE LeaveRun
    BY <1>1, <1>5, WorkerAssumption DEF LeaveRun, Goto, Parked, Main
<1>6. CASE SwitchAway
  <2>1. CASE SwitchToQueued
    <3>1. currentFiber' \in Fibers
        BY <2>1 DEF SwitchToQueued
    <3> QED
        BY <2>1, <3>1 DEF SwitchToQueued, Goto, Parked
  <2>2. CASE SwitchToIdle
      BY <2>2 DEF SwitchToIdle, Goto, Parked
  <2>3. CASE SwitchToNew
      BY <2>3 DEF SwitchToNew
  <2> QED
      BY <1>6, <2>1, <2>2, <2>3 DEF SwitchAway
<1>7. CASE \/ Start \/ KeepRunning \/ SpinEnd \/ RunTask \/ RunUntilIdleEnd \/ ResumeIdle
           \/ Resume \/ Relock \/ WaitPred
    BY <1>1, <1>7 DEF Start, KeepRunning, SpinEnd, RunTask, RunUntilIdleEnd, ResumeIdle,
       Resume, Relock, WaitPred, Returns, Suspend
<1>8. CASE WaitForWork \/ TimeoutsEnd
    BY <1>1, <1>2, <1>8 DEF WaitForWork, TimeoutsEnd
<1>9. CASE RunWake \/ ThreadWake \/ ThreadTimeOut
    BY <1>1, <1>9 DEF RunWake, ThreadWake, ThreadTimeOut, WakeUp
<1>10. CASE RunWait \/ ThreadWait
    BY <1>1, <1>10 DEF RunWait, ThreadWait, WorkWait, FallAsleep, RunPredicate, WorkPredicate
<1>11. ASSUME NEW tp, WaitCall(tp) \/ WaitBare(tp) \/ TaskEnds PROVE Awake
    BY <1>1, <1>11 DEF WaitCall, WaitBare, TaskEnds, Suspend
<1>12. ASSUME NEW t \in Tasks, SpinSteals(t) PROVE Awake
    BY <1>1, <1>12 DEF SpinSteals
<1> QED
    BY <1>3, <1>4, <1>5, <1>6, <1>7, <1>8, <1>9, <1>10, <1>11, <1>12 DEF Loop

LEMMA WakeStep == IInv /\ [Next]_vars => SleepAsksForNotify' /\ NoLostWakeup'
<1> SUFFICES ASSUME IInv, [Next]_vars PROVE SleepAsksForNotify' /\ NoLostWakeup'
    OBVIOUS
<1> DEFINE Goal == SleepAsksForNotify' /\ NoLostWakeup'
<1> USE DEF SleepAsksForNotify, NoLostWakeup
<1>1. CASE \/ Loop \/ TaskEnds
           \/ \E tp \in TimePoints \cup {NoTime} : WaitCall(tp) \/ WaitBare(tp)
           \/ \E t \in Tasks : SpinSteals(t)
    BY <1>1, ThreadSteps
<1>2. ASSUME NEW t \in Tasks, TaskEnqueues(t) \/ TaskSignals(t) PROVE Goal
    BY <1>2 DEF TaskEnqueues, TaskSignals, At, Sleeping, pool
<1>3. ASSUME NEW e \in Externals, External(e) PROVE Goal
  <2> USE DEF IInv, TypeOK, pool, sleep, queues, users
  <2>1. ASSUME Notifies(e), UNCHANGED <<pc, currentFiber, awake, notifyAdded>> PROVE Goal
    <3>1. CASE notifyAdded
        BY <2>1, <3>1 DEF Notifies, Notifying
    <3>2. CASE ~notifyAdded
        BY <2>1, <3>2
    <3> QED
        BY <3>1, <3>2
  <2>2. ASSUME NEW t \in Tasks, Enqueue(e, t) PROVE Goal
      BY <2>1, <2>2 DEF Enqueue
  <2>3. CASE NotifyAdded(e)
      BY <2>3 DEF NotifyAdded
  <2>4. CASE Steal(e)
      BY <2>4 DEF Steal, NumConsistent
  <2>5. ASSUME NEW t \in Tasks, Signal(e, t) PROVE Goal
      BY <2>5 DEF Signal, Idling
  <2>6. ASSUME NEW f \in Fibers, step[e].at # "notify", EnqueueFiber(e, f) PROVE Goal
    <3>1. CASE NeedsEnqueue(f)
        BY <2>1, <2>6, <3>1 DEF EnqueueFiber
    <3>2. CASE ~NeedsEnqueue(f)
        BY <2>6, <3>2 DEF EnqueueFiber
    <3> QED
        BY <3>1, <3>2
  <2>7. CASE SignalNotifies(e)
      BY <2>6, <2>7 DEF SignalNotifies, Steps
  <2>8. ASSUME NEW f \in Fibers, NotifyBare(e, f) PROVE Goal
      BY <2>6, <2>8 DEF NotifyBare, Idling
  <2> QED
      BY <1>3, <2>2, <2>3, <2>4, <2>5, <2>7, <2>8 DEF External
<1>4. CASE Tick \/ UNCHANGED vars
    BY <1>4 DEF Tick, vars, pool, sleep, queues, users, IInv
<1> QED
    BY <1>1, <1>2, <1>3, <1>4 DEF Next, Task, Terminated

-----------------------------------------------------------------------------
(* The fibers that were created, and those that block. *)

Known(f) == f <= workerFibers

LEMMA PushKnown ==
    ASSUME IInv, NEW f \in Fibers, Known(f), PushFiber(f),
           UNCHANGED <<currentFiber, idleFibers, workerFibers, pc>>
    PROVE  Created'
<1> USE DEF IInv, TypeOK, Created, Known
<1>1. waiting'.timeouts \subseteq waiting.timeouts
    BY DEF PushFiber, erase, Containers
<1>2. \A i \in DOMAIN fibers' : fibers'[i] <= workerFibers
    BY DEF PushFiber
<1>3. \A g \in Fibers : g > workerFibers => state'[g] = "Running"
    BY ContainerAssumption DEF PushFiber
<1> QED
    BY <1>1, <1>2, <1>3

LEMMA CreatedStep == IInv /\ [Next]_vars => Created'
<1> SUFFICES ASSUME IInv, [Next]_vars PROVE Created'
    OBVIOUS
<1> USE DEF IInv, TypeOK, Created, queues, pool, At
<1> USE ContainerAssumption
<1>1. ASSUME \A f \in Fibers : f > workerFibers => pc'[f] = pc[f] /\ state'[f] = state[f],
             UNCHANGED <<currentFiber, idleFibers, workerFibers, fibers, waiting>>
      PROVE  Created'
    BY <1>1
<1>2. ASSUME NEW l, Goto(l), UNCHANGED <<state, currentFiber, idleFibers, workerFibers,
                                         fibers, waiting>>
      PROVE  Created'
    BY <1>1, <1>2 DEF Goto
<1>3. ASSUME NEW tp \in Time \cup {NoTime}, Suspend(tp),
             UNCHANGED <<currentFiber, idleFibers, workerFibers, fibers>>
      PROVE  Created'
  <2>1. \A t \in waiting'.timeouts : t.fiber <= workerFibers
      BY <1>3 DEF Suspend, add, Timeout, Containers
  <2> QED
      BY <1>3, <2>1 DEF Suspend, Goto
<1>4. CASE Loop
  <2>1. ASSUME NEW t \in waiting.timeouts, TakeTimeout(t) PROVE Created'
    <3>1. waiting'.timeouts = waiting.timeouts
        BY <2>1 DEF TakeTimeout, afterTake, Containers
    <3>2. \A i \in DOMAIN fibers' : fibers'[i] <= workerFibers
        BY <2>1, TakeType DEF TakeTimeout
    <3> QED
        BY <2>1, <3>1, <3>2 DEF TakeTimeout
  <2>2. CASE RunFiber
    <3>1. Head(fibers) <= workerFibers /\ \A i \in DOMAIN Tail(fibers) : Tail(fibers)[i] <= workerFibers
        BY <2>2 DEF RunFiber
    <3> QED
        BY <2>2, <3>1 DEF RunFiber, Goto
  <2>3. CASE LeaveRun
      BY <2>3 DEF LeaveRun, Goto, Main
  <2>4. CASE SwitchAway
    <3>0. UNCHANGED <<waiting, state>>
        BY <2>4 DEF SwitchAway
    <3>1. CASE SwitchToQueued
      <4>1. Head(fibers) <= workerFibers /\ \A i \in DOMAIN Tail(fibers) : Tail(fibers)[i] <= workerFibers
          BY <3>1 DEF SwitchToQueued
      <4> QED
          BY <3>0, <3>1, <4>1 DEF SwitchToQueued, Goto
    <3>2. CASE SwitchToIdle
        BY <3>0, <3>2 DEF SwitchToIdle, Goto
    <3>3. CASE SwitchToNew
      <4>1. \A t \in waiting'.timeouts : t.fiber <= workerFibers'
        <5> SUFFICES ASSUME NEW t \in waiting.timeouts PROVE t.fiber <= workerFibers + 1
            BY <3>0, <3>3 DEF SwitchToNew
        <5>1. t.fiber \in Nat
            BY TakeType, ContainerAssumption DEF TypeOK
        <5>2. t.fiber <= workerFibers /\ workerFibers \in Nat
            BY DEF Created, TypeOK
        <5> QED
            BY <5>1, <5>2
      <4>2. \A f \in Fibers : f > workerFibers' => pc'[f] = "unborn" /\ state'[f] = "Running"
          BY <3>0, <3>3 DEF SwitchToNew
      <4> QED
          BY <3>3, <4>1, <4>2 DEF SwitchToNew
    <3> QED
        BY <2>4, <3>1, <3>2, <3>3 DEF SwitchAway
  <2>5. CASE \/ Start \/ KeepRunning \/ WaitForWork \/ SpinEnd \/ TimeoutsEnd \/ RunTask
             \/ RunUntilIdleEnd \/ Relock
      BY <2>5, <1>2 DEF Start, KeepRunning, WaitForWork, SpinEnd, TimeoutsEnd, RunTask,
         RunUntilIdleEnd, Relock, Returns
  <2>6. CASE ResumeIdle \/ Resume
      BY <2>6, <1>1 DEF ResumeIdle, Resume, Unblock, Goto, Returns
  <2>7. CASE RunWait \/ RunWake \/ ThreadWait \/ ThreadWake \/ ThreadTimeOut
      BY <2>7, <1>2 DEF RunWait, RunWake, ThreadWait, ThreadWake, ThreadTimeOut, WorkWait,
         WakeUp, FallAsleep
  <2>8. CASE WaitPred
    <3>1. ASSUME Returns, UNCHANGED <<state, waiting>> PROVE Created'
        BY <1>2, <2>8, <3>1 DEF WaitPred, Returns
    <3> QED
        BY <1>3, <2>8, <3>1 DEF WaitPred
  <2> QED
      BY <1>4, <2>1, <2>2, <2>3, <2>4, <2>5, <2>6, <2>7, <2>8 DEF Loop
<1>5. CASE Task
  <2>1. ASSUME NEW tp \in TimePoints \cup {NoTime}, WaitBare(tp) PROVE Created'
      BY <1>3, <2>1, WorkerAssumption DEF WaitBare
  <2>2. ASSUME NEW tp \in TimePoints \cup {NoTime}, WaitCall(tp) \/ TaskEnds PROVE Created'
      BY <1>2, <2>2 DEF WaitCall, TaskEnds
  <2>3. ASSUME NEW t \in Tasks, SpinSteals(t) PROVE Created'
      BY <1>2, <2>3 DEF SpinSteals
  <2>4. ASSUME NEW t \in Tasks, TaskSignals(t) PROVE Created'
    <3>1. ASSUME NEW f \in Fibers, NeedsEnqueue(f) PROVE Known(f)
        BY <3>1 DEF NeedsEnqueue, Known
    <3>2. UNCHANGED <<currentFiber, idleFibers, workerFibers, pc>>
        BY <2>4 DEF TaskSignals
    <3>3. ASSUME NEW f \in Fibers, NeedsEnqueue(f), PushFiber(f) PROVE Created'
        BY <3>1, <3>2, <3>3, PushKnown
    <3>4. ASSUME UNCHANGED <<num, fibers, waiting, state>> PROVE Created'
        BY <1>1, <3>2, <3>4
    <3> QED
        BY <2>4, <3>3, <3>4 DEF TaskSignals
  <2>5. ASSUME NEW t \in Tasks, TaskEnqueues(t) PROVE Created'
      BY <1>1, <2>5 DEF TaskEnqueues
  <2> QED
      BY <1>5, <2>1, <2>2, <2>3, <2>4, <2>5 DEF Task
<1>6. ASSUME NEW e \in Externals, External(e) PROVE Created'
  <2>1. ASSUME NEW f \in Fibers, EnqueueFiber(e, f) PROVE Created'
    <3>1. UNCHANGED <<currentFiber, idleFibers, workerFibers, pc>>
        BY <2>1 DEF EnqueueFiber
    <3>2. CASE NeedsEnqueue(f)
      <4>1. Known(f)
          BY <3>2 DEF NeedsEnqueue, Known
      <4> QED
          BY <2>1, <3>1, <3>2, <4>1, PushKnown DEF EnqueueFiber
    <3>3. CASE ~NeedsEnqueue(f)
        BY <1>1, <2>1, <3>1, <3>3 DEF EnqueueFiber
    <3> QED
        BY <3>2, <3>3
  <2>2. CASE SignalNotifies(e)
      BY <2>1, <2>2 DEF SignalNotifies, Steps
  <2>3. ASSUME NEW f \in Fibers, NotifyBare(e, f) PROVE Created'
      BY <2>1, <2>3 DEF NotifyBare
  <2>4. ASSUME NEW t \in Tasks, Enqueue(e, t) \/ Signal(e, t) \/ Steal(e) \/ NotifyAdded(e)
        PROVE  Created'
      BY <1>1, <2>4 DEF Enqueue, Signal, Steal, NotifyAdded
  <2> QED
      BY <1>6, <2>2, <2>3, <2>4, WorkerAssumption DEF External
<1>7. CASE Tick \/ UNCHANGED vars
    BY <1>1, <1>7 DEF Tick, vars
<1> QED
    BY <1>4, <1>5, <1>6, <1>7 DEF Next, Terminated

LEMMA BlockedStep == IInv /\ [Next]_vars => BlockedCounted'
<1> SUFFICES ASSUME IInv, [Next]_vars PROVE BlockedCounted'
    OBVIOUS
<1> DEFINE B == {f \in Fibers : pc[f] = "blocked"}
           C == {f \in Fibers : pc'[f] = "blocked"}
<1> USE DEF IInv, TypeOK, pool, At
<1>0. IsFiniteSet(B) /\ numBlockedFibers = Cardinality(B)
    BY ContainerAssumption, FS_Subset DEF BlockedCounted
<1>1. ASSUME C = B, UNCHANGED numBlockedFibers PROVE BlockedCounted'
    BY <1>0, <1>1 DEF BlockedCounted
<1>2. ASSUME NEW l, Goto(l), l # "blocked", pc[currentFiber] # "blocked",
             UNCHANGED numBlockedFibers
      PROVE  BlockedCounted'
    BY <1>1, <1>2 DEF Goto
<1>3. ASSUME UNCHANGED pc, UNCHANGED numBlockedFibers PROVE BlockedCounted'
    BY <1>1, <1>3
<1>4. CASE Loop
  <2>1. ASSUME NEW t \in waiting.timeouts, TakeTimeout(t) PROVE BlockedCounted'
      BY <1>3, <2>1 DEF TakeTimeout
  <2>2. CASE SwitchAway
    <3>1. pc[currentFiber] = "suspend" /\ numBlockedFibers' = numBlockedFibers + 1
        BY <2>2 DEF SwitchAway
    <3>2. C = B \cup {currentFiber}
      <4>1. CASE Goto("blocked")
          BY <4>1 DEF Goto
      <4>2. CASE SwitchToNew
        <5>1. workerFibers + 1 \in Fibers /\ workerFibers + 1 # currentFiber
            BY <4>2, ContainerAssumption DEF SwitchToNew, Created
        <5>2. pc[workerFibers + 1] = "unborn"
            BY <5>1, ContainerAssumption DEF Created
        <5> QED
            BY <4>2, <5>1, <5>2 DEF SwitchToNew
      <4> QED
          BY <2>2, <4>1, <4>2 DEF SwitchAway, SwitchToQueued, SwitchToIdle
    <3>3. Cardinality(C) = Cardinality(B) + 1
        BY <1>0, <3>1, <3>2, FS_AddElement
    <3> QED
        BY <1>0, <3>1, <3>3 DEF BlockedCounted
  <2>3. CASE Resume
    <3>1. /\ pc[currentFiber] = "blocked" /\ numBlockedFibers' = numBlockedFibers - 1
          /\ Goto("task") \/ Goto("relock")
        BY <2>3 DEF Resume, Unblock, Returns
    <3>2. C = B \ {currentFiber}
        BY <3>1 DEF Goto
    <3>3. currentFiber \in B
        BY <3>1 DEF TypeOK
    <3>4. Cardinality(C) = Cardinality(B) - 1
      <4> HIDE DEF B, C
      <4> QED
          BY <1>0, <3>2, <3>3, FS_RemoveElement
    <3> QED
        BY <1>0, <3>1, <3>4 DEF BlockedCounted
  <2>4. CASE \/ Start \/ KeepRunning \/ LeaveRun \/ SpinEnd \/ RunFiber \/ RunTask
             \/ RunUntilIdleEnd \/ ResumeIdle \/ Relock \/ WaitPred
      BY <1>2, <2>4 DEF Start, KeepRunning, LeaveRun, SpinEnd, RunFiber, RunTask,
         RunUntilIdleEnd, ResumeIdle, Relock, WaitPred, Returns, Suspend
  <2>5. CASE WaitForWork \/ TimeoutsEnd
      BY <1>2, <2>5 DEF WaitForWork, TimeoutsEnd, AfterWaitForWork
  <2>6. CASE RunWait \/ RunWake \/ ThreadWait \/ ThreadWake \/ ThreadTimeOut
      BY <1>2, <2>6 DEF RunWait, RunWake, ThreadWait, ThreadWake, ThreadTimeOut, WorkWait,
         WakeUp, FallAsleep
  <2> QED
      BY <1>4, <2>1, <2>2, <2>3, <2>4, <2>5, <2>6 DEF Loop
<1>5. CASE Task
  <2>1. ASSUME NEW tp, WaitCall(tp) \/ WaitBare(tp) \/ TaskEnds PROVE BlockedCounted'
      BY <1>2, <2>1 DEF WaitCall, WaitBare, TaskEnds, Suspend, Calls
  <2>2. ASSUME NEW t \in Tasks, SpinSteals(t) PROVE BlockedCounted'
      BY <1>2, <2>2 DEF SpinSteals
  <2>3. ASSUME NEW t \in Tasks, TaskEnqueues(t) \/ TaskSignals(t) PROVE BlockedCounted'
      BY <1>3, <2>3 DEF TaskEnqueues, TaskSignals
  <2> QED
      BY <1>5, <2>1, <2>2, <2>3 DEF Task
<1>6. ASSUME NEW e \in Externals, External(e) PROVE BlockedCounted'
    BY <1>3, <1>6 DEF External, Enqueue, Signal, Steal, NotifyAdded, SignalNotifies,
       NotifyBare, EnqueueFiber
<1>7. CASE Tick \/ UNCHANGED vars
    BY <1>3, <1>7 DEF Tick, vars
<1> QED
    BY <1>4, <1>5, <1>6, <1>7 DEF Next, Terminated

-----------------------------------------------------------------------------
\* IInv, the inductive invariant.
LEMMA Inductive == Spec => []IInv
<1>1. IInv /\ [Next]_vars => IInv'
    BY TypeStep, NumStep, StackStep, CreatedStep, BlockedStep, ParkedStep, WakeStep DEF IInv
<1> QED
    BY InitIInv, <1>1, PTL DEF Spec

\* The variables of a worker keep their types.
THEOREM TypeCorrect == Spec => []TypeOK
    BY Inductive, PTL DEF IInv

\* num is the number of queued tasks and fibers, so that no queued work is
\* overlooked by waitForWork(), runUntilShutdown() and steal().
THEOREM NumIsConsistent == Spec => []NumConsistent
    BY Inductive, PTL DEF IInv

\* numBlockedFibers is the number of fibers inside suspend(), so that a worker
\* that was told to stop waits for exactly those.
THEOREM BlockedIsCounted == Spec => []BlockedCounted
    BY Inductive, PTL DEF IInv

\* The flag notifyAdded, read under the mutex but acted on after it is unlocked,
\* loses no wake-up: a thread asleep over queued work has a notification coming.
THEOREM NoWakeupIsLost == Spec => []NoLostWakeup
    BY Inductive, PTL DEF IInv

-----------------------------------------------------------------------------
(* Tasks, fibers and timers: the invariant of the whole worker. *)

\* The places inside suspend() and inside the waitForWork() it calls.
Inside == {"waitForWork", "spin", "workWait", "workSleep", "fiberTimeouts", "suspend",
           "blocked", "undefined"}

Suspended(f) == call[f] # "none" /\ pc[f] \in Inside

\* A task is on the stack of a fiber while it runs or waits there, and a stack is
\* inside wait() only at the places of wait() and suspend().
CallPlaces ==
    \A f \in Fibers :
        /\ task[f] \in Tasks => pc[f] = "task" \/ call[f] # "none"
        /\ pc[f] \in {"wait", "relock"} => call[f] = "pred"
        /\ call[f] # "none" => pc[f] \in Inside \cup {"wait", "relock"}
        /\ pc[f] \in {"suspend", "blocked"} => call[f] # "none"

\* Fiber::state is Running or Idle exactly where the stack says so.
StatePlaces ==
    \A f \in Fibers :
        /\ state[f] = "Running" <=> ~Suspended(f) /\ pc[f] # "switched"
        /\ state[f] = "Idle" <=> pc[f] = "switched"
        /\ state[f] = "Waiting" => timeout[f] # NoTime

\* A thread inside signal() keeps the user's lock, so its fiber stays in wait().
Signals ==
    /\ \A e \in Externals : step[e].at = "signal" =>
                                lock = e /\ call[step[e].fiber] = "pred"
    /\ \A f \in Fibers : pc[f] = "wait" => lock = Self

MutexHeld == mutex <=> pc[currentFiber] \in Locked

\* Worker fibers are numbered without gaps, and run from their creation.
Born ==
    /\ 0..workerFibers \subseteq Fibers
    /\ \A f \in 0..workerFibers : pc[f] # "unborn"

\* A fiber that switched away in runUntilIdle() is in idleFibers.
IdleKept == \A f \in Fibers : pc[f] = "switched" /\ f # currentFiber => f \in idleFibers

\* A worker fiber that left run() did so for good: mainFiber finishes the loop it
\* is in without finding anything to do.
Ending ==
    \A f \in Fibers : pc[f] = "ended" =>
        /\ f # Main /\ currentFiber = Main
        /\ \/ pc[Main] = "exited"
           \/ pc[Main] \in {"switched", "runUntilIdle", "runUntilShutdown"} /\ MayStop

Exited ==
    pc[Main] = "exited" =>
        /\ currentFiber = Main /\ MayStop
        /\ \A f \in Fibers : task[f] = NoTask

-----------------------------------------------------------------------------
LEMMA CallStep ==
    ASSUME IInv, CallPlaces, [Next]_vars
    PROVE  CallPlaces'
<1> USE DEF IInv, TypeOK, StackConsistent, CallPlaces, Inside, pool, stack, At
<1>1. CASE UNCHANGED Stacks
    BY <1>1 DEF Stacks
<1>2. ASSUME NEW l, Goto(l), UNCHANGED <<task, call>>,
             l \notin {"wait", "relock", "suspend", "blocked"},
             l \in Inside \/ pc[currentFiber] \notin Inside \cup {"wait", "relock"},
             pc[currentFiber] # "task"
      PROVE  CallPlaces'
    BY <1>2 DEF Goto
<1>3. ASSUME Goto(AfterWaitForWork), UNCHANGED <<task, call>>,
             pc[currentFiber] \in {"waitForWork", "fiberTimeouts"}
      PROVE  CallPlaces'
    BY <1>3, WorkerAssumption DEF Goto, AfterWaitForWork
<1>4. CASE Loop
  <2>1. ASSUME NEW t \in waiting.timeouts, TakeTimeout(t) PROVE CallPlaces'
      BY <2>1 DEF TakeTimeout
  <2>2. CASE \/ Start \/ KeepRunning \/ LeaveRun \/ SpinEnd \/ RunFiber \/ RunUntilIdleEnd
             \/ ResumeIdle
      BY <2>2, <1>2 DEF Start, KeepRunning, LeaveRun, SpinEnd, RunFiber, RunUntilIdleEnd,
         ResumeIdle
  <2>3. CASE WaitForWork \/ TimeoutsEnd
      BY <2>3, <1>2, <1>3 DEF WaitForWork, TimeoutsEnd
  <2>4. CASE RunWait \/ RunWake \/ ThreadWait \/ ThreadWake \/ ThreadTimeOut
      BY <2>4, <1>2 DEF RunWait, RunWake, ThreadWait, ThreadWake, ThreadTimeOut, WorkWait,
         WakeUp, FallAsleep
  <2>5. CASE RunTask
      BY <2>5 DEF RunTask, Goto
  <2>6. CASE SwitchAway
    <3>1. CASE Goto("blocked")
        BY <2>6, <3>1 DEF SwitchAway, Goto
    <3>2. CASE SwitchToNew
      <4>1. workerFibers + 1 \in Fibers /\ workerFibers + 1 # currentFiber
            /\ pc[workerFibers + 1] = "unborn"
          BY <3>2, ContainerAssumption DEF SwitchToNew, Created
      <4> QED
          BY <2>6, <3>2, <4>1 DEF SwitchAway, SwitchToNew
    <3> QED
        BY <2>6, <3>1, <3>2 DEF SwitchAway, SwitchToQueued, SwitchToIdle
  <2>7. ASSUME Returns PROVE CallPlaces'
      BY <2>7 DEF Returns, Goto
  <2>8. CASE Resume
    <3>1. ASSUME call[currentFiber] = "pred", Goto("relock"), UNCHANGED stack
          PROVE  CallPlaces'
        BY <3>1 DEF Goto
    <3> QED
        BY <2>7, <2>8, <3>1 DEF Resume
  <2>9. CASE Relock
    <3>1. ASSUME Goto("wait"), UNCHANGED stack PROVE CallPlaces'
        BY <2>9, <3>1 DEF Relock, Goto
    <3> QED
        BY <2>7, <2>9, <3>1 DEF Relock
  <2>10. CASE WaitPred
    <3>1. ASSUME Goto("waitForWork"), UNCHANGED stack PROVE CallPlaces'
        BY <2>10, <3>1 DEF WaitPred, Goto
    <3> QED
        BY <2>7, <2>10, <3>1 DEF WaitPred, Suspend
  <2> QED
      BY <1>4, <2>1, <2>2, <2>3, <2>4, <2>5, <2>6, <2>8, <2>9, <2>10 DEF Loop
<1>5. ASSUME NEW tp, WaitCall(tp) \/ WaitBare(tp) PROVE CallPlaces'
    BY <1>5 DEF WaitCall, WaitBare, Suspend, Calls, Goto
<1>6. CASE TaskEnds
    BY <1>6, WorkerAssumption DEF TaskEnds, Goto
<1>7. ASSUME NEW t \in Tasks, SpinSteals(t) PROVE CallPlaces'
    BY <1>7, <1>2 DEF SpinSteals
<1> QED
    BY <1>1, <1>4, <1>5, <1>6, <1>7, OthersLeaveStacks DEF Next, Task, Terminated

\* enqueue(fiber) reaches fibers inside suspend() only.
LEMMA PushedIsSuspended ==
    ASSUME CallPlaces, StatePlaces, NEW f \in Fibers, call[f] # "none", NeedsEnqueue(f)
    PROVE  Suspended(f)
    BY DEF CallPlaces, StatePlaces, NeedsEnqueue, Inside

\* What PushFiber does to the states.
LEMMA PushStates ==
    ASSUME TypeOK, CallPlaces, StatePlaces, NEW f \in Fibers, call[f] # "none",
           NeedsEnqueue(f), PushFiber(f), UNCHANGED <<pc, call, timeout>>
    PROVE  StatePlaces'
<1>1. Suspended(f) /\ pc[f] # "switched"
    BY PushedIsSuspended DEF Suspended, Inside
<1>2. state' = [state EXCEPT ![f] = "Queued"]
    BY DEF PushFiber
<1> QED
    BY <1>1, <1>2 DEF StatePlaces, Suspended, TypeOK

LEMMA StateStep ==
    ASSUME IInv, CallPlaces, StatePlaces, Signals, [Next]_vars
    PROVE  StatePlaces'
<1>0. TypeOK /\ StackConsistent
    BY DEF IInv
<1> USE <1>0 DEF pool, stack, At
<1>1. CASE UNCHANGED <<pc, call, timeout, state>>
    BY <1>1 DEF StatePlaces, Suspended
\* A step between places at which the fiber has the same state.
<1>2. ASSUME NEW l, Goto(l), UNCHANGED <<call, timeout, state>>, l # "switched",
             pc[currentFiber] # "switched",
             call[currentFiber] # "none" =>
                 (l \in Inside <=> pc[currentFiber] \in Inside)
      PROVE  StatePlaces'
    BY <1>2 DEF StatePlaces, Suspended, Goto, TypeOK
<1>3. ASSUME Goto(AfterWaitForWork), UNCHANGED <<call, timeout, state>>,
             pc[currentFiber] \in {"waitForWork", "fiberTimeouts"}
      PROVE  StatePlaces'
  <2>1. call[currentFiber] # "none" => AfterWaitForWork = "suspend"
      BY WorkerAssumption DEF AfterWaitForWork, StackConsistent, TypeOK
  <2>2. AfterWaitForWork \in {"suspend", "runUntilIdle"}
      BY DEF AfterWaitForWork
  <2> QED
      BY <1>2, <1>3, <2>1, <2>2 DEF Inside
\* The fiber returns from wait(), with the state Running.
<1>4. ASSUME NEW l \in {"task", "relock", "wait"}, Goto(l),
             \/ state' = [state EXCEPT ![currentFiber] = "Running"]
             \/ UNCHANGED state /\ state[currentFiber] = "Running",
             \A f \in Fibers : f # currentFiber =>
                 call'[f] = call[f] /\ timeout'[f] = timeout[f]
      PROVE  StatePlaces'
    BY <1>4 DEF StatePlaces, Suspended, Goto, TypeOK, Inside
<1>5. ASSUME Returns
      PROVE  Goto("task") /\ \A f \in Fibers : f # currentFiber =>
                 call'[f] = call[f] /\ timeout'[f] = timeout[f]
    BY <1>5 DEF Returns, TypeOK
<1>6. ASSUME NEW tp \in Time \cup {NoTime}, Suspend(tp), call'[currentFiber] # "none",
             timeout'[currentFiber] = tp,
             \A f \in Fibers : f # currentFiber =>
                 call'[f] = call[f] /\ timeout'[f] = timeout[f]
      PROVE  StatePlaces'
    BY <1>6 DEF StatePlaces, Suspended, Suspend, Goto, TypeOK, Inside
<1>7. CASE Loop
  <2>1. ASSUME NEW t \in waiting.timeouts, TakeTimeout(t) PROVE StatePlaces'
      BY <1>1, <2>1 DEF TakeTimeout
  <2>2. CASE Start \/ KeepRunning \/ LeaveRun \/ SpinEnd \/ RunTask \/ RunUntilIdleEnd
    <3>1. pc[currentFiber] \in {"start", "runUntilShutdown", "runUntilIdle"} =>
              call[currentFiber] = "none"
        BY DEF CallPlaces, TypeOK, Inside
    <3> QED
        BY <1>2, <2>2, <3>1 DEF Start, KeepRunning, LeaveRun, SpinEnd, RunTask,
           RunUntilIdleEnd, Inside
  <2>3. CASE WaitForWork \/ TimeoutsEnd
      BY <1>2, <1>3, <2>3 DEF WaitForWork, TimeoutsEnd, Inside
  <2>4. CASE RunWait \/ RunWake \/ ThreadWait \/ ThreadWake \/ ThreadTimeOut
    <3>1. pc[currentFiber] \in {"run", "runSleep"} => call[currentFiber] = "none"
        BY DEF CallPlaces, TypeOK, Inside
    <3> QED
        BY <1>2, <2>4, <3>1 DEF RunWait, RunWake, ThreadWait, ThreadWake, ThreadTimeOut,
           WorkWait, WakeUp, FallAsleep, Inside
  <2>5. CASE RunFiber
    <3>1. call[currentFiber] = "none"
        BY <2>5 DEF RunFiber, StackConsistent, TypeOK
    <3> QED
        BY <2>5, <3>1 DEF RunFiber, Goto, StatePlaces, Suspended, TypeOK
  <2>6. CASE ResumeIdle
    <3>1. call[currentFiber] = "none"
        BY <2>6 DEF ResumeIdle, StackConsistent, TypeOK
    <3> QED
        BY <2>6, <3>1 DEF ResumeIdle, Goto, StatePlaces, Suspended, TypeOK
  <2>7. CASE SwitchAway
    <3>1. CASE Goto("blocked")
        BY <1>2, <2>7, <3>1 DEF SwitchAway, Inside
    <3>2. CASE SwitchToNew
      <4>1. workerFibers + 1 \in Fibers /\ workerFibers + 1 # currentFiber
            /\ pc[workerFibers + 1] = "unborn" /\ state[workerFibers + 1] = "Running"
          BY <3>2, ContainerAssumption DEF SwitchToNew, Created, TypeOK, IInv
      <4>2. call[workerFibers + 1] = "none"
          BY <4>1 DEF CallPlaces, Inside
      <4> QED
          BY <2>7, <3>2, <4>1, <4>2
          DEF SwitchAway, SwitchToNew, StatePlaces, Suspended, TypeOK, Inside
    <3> QED
        BY <2>7, <3>1, <3>2 DEF SwitchAway, SwitchToQueued, SwitchToIdle
  <2>8. CASE Resume
      BY <1>4, <1>5, <2>8 DEF Resume, Unblock
  <2>9. CASE Relock
    <3>1. state[currentFiber] = "Running"
        BY <2>9 DEF Relock, StatePlaces, Suspended, TypeOK, Inside
    <3> QED
        BY <1>4, <1>5, <2>9, <3>1 DEF Relock
  <2>10. CASE WaitPred
    <3>1. state[currentFiber] = "Running" /\ call[currentFiber] = "pred"
        BY <2>10 DEF WaitPred, StatePlaces, CallPlaces, Suspended, TypeOK, Inside
    <3>2. ASSUME Suspend(timeout[currentFiber]), UNCHANGED stack PROVE StatePlaces'
        BY <1>6, <3>1, <3>2 DEF TypeOK
    <3> QED
        BY <1>4, <1>5, <2>10, <3>1, <3>2 DEF WaitPred
  <2> QED
      BY <1>7, <2>1, <2>2, <2>3, <2>4, <2>5, <2>6, <2>7, <2>8, <2>9, <2>10 DEF Loop
<1>8. ASSUME NEW tp \in TimePoints \cup {NoTime}, WaitCall(tp) \/ WaitBare(tp)
      PROVE  StatePlaces'
  <2>1. tp \in Time \cup {NoTime}
      BY WorkerAssumption
  <2>2. /\ call'[currentFiber] # "none" /\ timeout'[currentFiber] = tp
        /\ \A f \in Fibers : f # currentFiber =>
               call'[f] = call[f] /\ timeout'[f] = timeout[f]
      BY <1>8 DEF WaitCall, WaitBare, Calls, TypeOK
  <2>3. state[currentFiber] = "Running"
      BY <1>8 DEF WaitCall, WaitBare, Calls, StatePlaces, Suspended, TypeOK, Inside
  <2> QED
      BY <1>4, <1>6, <1>8, <2>1, <2>2, <2>3 DEF WaitCall, WaitBare
<1>9. CASE TaskEnds
  <2>1. call[currentFiber] = "none"
      BY <1>9 DEF TaskEnds, StackConsistent, TypeOK
  <2> QED
      BY <1>2, <1>9, <2>1 DEF TaskEnds
<1>10. ASSUME NEW t \in Tasks, TaskEnqueues(t) \/ TaskSignals(t) \/ SpinSteals(t)
       PROVE  StatePlaces'
  <2>1. ASSUME NEW f \in Fibers, Waits(f, t), NeedsEnqueue(f), PushFiber(f),
               UNCHANGED <<pc, call, timeout>>
        PROVE  StatePlaces'
      BY <2>1, PushStates DEF Waits
  <2> QED
      BY <1>1, <1>2, <1>10, <2>1 DEF TaskEnqueues, TaskSignals, SpinSteals, Inside
<1>11. ASSUME NEW e \in Externals, External(e) PROVE StatePlaces'
  <2>1. ASSUME NEW f \in Fibers, call[f] # "none", EnqueueFiber(e, f) PROVE StatePlaces'
      BY <1>1, <2>1, PushStates DEF EnqueueFiber
  <2>2. CASE SignalNotifies(e)
      BY <2>1, <2>2 DEF SignalNotifies, Signals, Steps, TypeOK
  <2>3. ASSUME NEW f \in Fibers, NotifyBare(e, f) PROVE StatePlaces'
      BY <2>1, <2>3 DEF NotifyBare
  <2> QED
      BY <1>1, <1>11, <2>2, <2>3 DEF External, Enqueue, Signal, Steal, NotifyAdded
<1>12. CASE Tick \/ UNCHANGED vars
    BY <1>1, <1>12 DEF Tick, vars
<1> QED
    BY <1>7, <1>8, <1>9, <1>10, <1>11, <1>12 DEF Next, Task, Terminated

\* A step that leaves the user's lock and the other threads alone, and that ends no
\* wait(lock, timeout, pred).
LEMMA SignalsKept ==
    ASSUME TypeOK, Signals, UNCHANGED <<lock, step>>,
           \A f \in Fibers : call[f] = "pred" => call'[f] = "pred",
           \A f \in Fibers : pc'[f] = "wait" => pc[f] = "wait"
    PROVE  Signals'
    BY DEF Signals, TypeOK, Steps

LEMMA NobodySignals ==
    ASSUME Signals, lock \notin Externals
    PROVE  \A e \in Externals : step[e].at # "signal"
    BY DEF Signals

LEMMA SignalsStep ==
    ASSUME IInv, CallPlaces, Signals, [Next]_vars
    PROVE  Signals'
<1>0. TypeOK /\ StackConsistent /\ Parked
    BY DEF IInv
<1> USE <1>0 DEF pool, stack, users, At
<1>1. ASSUME UNCHANGED <<lock, step, pc, call>> PROVE Signals'
    BY <1>1, SignalsKept
<1>2. ASSUME NEW l, Goto(l), l # "wait", UNCHANGED <<lock, step>>,
             \A f \in Fibers : call[f] = "pred" => call'[f] = "pred"
      PROVE  Signals'
    BY <1>2, SignalsKept DEF Goto, TypeOK
<1>3. ASSUME lock \notin Externals, UNCHANGED step,
             \A f \in Fibers : pc'[f] = "wait" => lock' = Self
      PROVE  Signals'
    BY <1>3, NobodySignals DEF Signals
<1>4. ASSUME lock # Self PROVE \A f \in Fibers : pc[f] # "wait"
    BY <1>4 DEF Signals
<1>5. CASE Loop
  <2>1. ASSUME NEW t \in waiting.timeouts, TakeTimeout(t) PROVE Signals'
      BY <1>1, <2>1 DEF TakeTimeout
  <2>2. CASE \/ Start \/ KeepRunning \/ LeaveRun \/ SpinEnd \/ RunFiber \/ RunUntilIdleEnd
             \/ ResumeIdle \/ RunTask
      BY <2>2, <1>2 DEF Start, KeepRunning, LeaveRun, SpinEnd, RunFiber, RunUntilIdleEnd,
         ResumeIdle, RunTask
  <2>3. CASE WaitForWork \/ TimeoutsEnd
      BY <2>3, <1>2 DEF WaitForWork, TimeoutsEnd, AfterWaitForWork
  <2>4. CASE RunWait \/ RunWake \/ ThreadWait \/ ThreadWake \/ ThreadTimeOut
      BY <2>4, <1>2 DEF RunWait, RunWake, ThreadWait, ThreadWake, ThreadTimeOut, WorkWait,
         WakeUp, FallAsleep
  <2>5. CASE SwitchAway
    <3>1. CASE Goto("blocked")
        BY <1>2, <2>5, <3>1 DEF SwitchAway
    <3>2. CASE SwitchToNew
        BY <2>5, <3>2, SignalsKept DEF SwitchAway, SwitchToNew, TypeOK
    <3> QED
        BY <2>5, <3>1, <3>2 DEF SwitchAway, SwitchToQueued, SwitchToIdle
  <2>6. CASE Resume
    <3>1. CASE call[currentFiber] = "bare" /\ Returns
        BY <1>2, <2>6, <3>1 DEF Resume, Returns, TypeOK
    <3>2. CASE Goto("relock") /\ UNCHANGED stack
        BY <1>2, <2>6, <3>2 DEF Resume
    <3> QED
        BY <2>6, <3>1, <3>2 DEF Resume
  <2>7. CASE Relock
    <3>1. lock \notin Externals /\ \A f \in Fibers : pc[f] # "wait"
        BY <1>4, <2>7, WorkerAssumption DEF Relock
    <3>2. CASE Goto("task")
        BY <1>3, <2>7, <3>1, <3>2 DEF Relock, Goto, TypeOK
    <3>3. CASE lock' = Self
        BY <1>3, <2>7, <3>1, <3>3 DEF Relock
    <3> QED
        BY <2>7, <3>2, <3>3 DEF Relock, Returns
  <2>8. CASE WaitPred
    <3>1. lock \notin Externals
        BY <2>8, WorkerAssumption DEF WaitPred, Signals, TypeOK
    <3>2. Goto("task") \/ Goto("waitForWork")
        BY <2>8 DEF WaitPred, Returns, Suspend
    <3>3. \A f \in Fibers : pc'[f] # "wait"
        BY <3>2 DEF Goto, Parked, TypeOK
    <3> QED
        BY <1>3, <2>8, <3>1, <3>3 DEF WaitPred
  <2> QED
      BY <1>5, <2>1, <2>2, <2>3, <2>4, <2>5, <2>6, <2>7, <2>8 DEF Loop
<1>6. ASSUME NEW tp, WaitBare(tp) PROVE Signals'
  <2>1. call[currentFiber] = "none"
      BY <1>6 DEF WaitBare, Calls, StackConsistent, TypeOK
  <2> QED
      BY <1>2, <1>6, <2>1 DEF WaitBare, Calls, Suspend, TypeOK
<1>7. ASSUME NEW tp, WaitCall(tp) PROVE Signals'
    BY <1>3, <1>7, WorkerAssumption DEF WaitCall
<1>8. ASSUME NEW t \in Tasks, TaskEnds \/ TaskEnqueues(t) \/ TaskSignals(t) \/ SpinSteals(t)
      PROVE  Signals'
    BY <1>1, <1>2, <1>8 DEF TaskEnds, TaskEnqueues, TaskSignals, SpinSteals
<1>9. ASSUME NEW e \in Externals, External(e) PROVE Signals'
  <2>0. UNCHANGED <<pc, call>> /\ lock \in Externals \cup {NoThread, Self}
      BY <1>9, OthersLeaveStacks DEF Stacks, TypeOK
\* The thread e goes on to a state other than signal(), and gives back its lock.
  <2>1. ASSUME NEW s, s.at # "signal", step' = [step EXCEPT ![e] = s],
               lock' = lock \/ (lock = e /\ lock' = NoThread)
        PROVE  Signals'
    <3>1. ASSUME NEW d \in Externals, step'[d].at = "signal"
          PROVE  d # e /\ step'[d] = step[d] /\ lock = d
        BY <2>1, <3>1 DEF Signals, TypeOK
    <3>2. \A f \in Fibers : pc'[f] = "wait" => lock' = Self
        BY <2>0, <2>1, WorkerAssumption DEF Signals
    <3> QED
        BY <2>0, <2>1, <3>1, <3>2 DEF Signals
  <2>2. Idling.at # "signal" /\ Notifying.at # "signal"
      BY DEF Idling, Notifying
  <2>3. ASSUME Notifies(e) PROVE Signals'
    <3>1. CASE notifyAdded
        BY <2>1, <2>2, <2>3, <3>1 DEF Notifies
    <3>2. CASE ~notifyAdded
        BY <2>1, <2>2, <2>3, <3>2 DEF Notifies
    <3> QED
        BY <3>1, <3>2
  <2>4. ASSUME NEW f \in Fibers, EnqueueFiber(e, f) PROVE Signals'
      BY <2>1, <2>2, <2>3, <2>4 DEF EnqueueFiber
  <2>5. CASE SignalNotifies(e)
      BY <2>4, <2>5 DEF SignalNotifies, Steps, TypeOK
  <2>6. CASE NotifyAdded(e)
      BY <2>1, <2>2, <2>6 DEF NotifyAdded
  <2>7. ASSUME NEW t \in Tasks, Signal(e, t) PROVE Signals'
    <3>1. lock = NoThread
        BY <2>7 DEF Signal
    <3>2. \A d \in Externals : step[d].at # "signal"
        BY <3>1, NobodySignals, WorkerAssumption
    <3>3. ASSUME NEW f \in Fibers, Waits(f, t), lock' = e,
                 step' = [step EXCEPT ![e] = [at |-> "signal", fiber |-> f]]
          PROVE  Signals'
      <4>1. \A d \in Externals : step'[d].at = "signal" => d = e /\ step'[d].fiber = f
          BY <3>2, <3>3 DEF TypeOK
      <4>2. \A g \in Fibers : pc'[g] # "wait"
          BY <1>4, <2>0, <3>1, WorkerAssumption
      <4> QED
          BY <2>0, <3>3, <4>1, <4>2 DEF Signals, Waits
    <3> QED
        BY <1>1, <2>0, <2>7, <3>3 DEF Signal
  <2> QED
      BY <1>1, <1>9, <2>3, <2>4, <2>5, <2>6, <2>7
      DEF External, Enqueue, Steal, NotifyBare
<1>10. CASE Tick \/ UNCHANGED vars
    BY <1>1, <1>10 DEF Tick, vars
<1> QED
    BY <1>5, <1>6, <1>7, <1>8, <1>9, <1>10, WorkerAssumption DEF Next, Task, Terminated

-----------------------------------------------------------------------------
(* The fiber that gets the thread. *)

\* While something is queued, or the current fiber is in suspend(), no fiber ended.
LEMMA NobodyEnded ==
    ASSUME IInv, Ending, Exited, fibers # <<>> \/ At("suspend")
    PROVE  \A f \in Fibers : pc[f] # "ended"
<1>1. fibers # <<>> => num # 0
    BY DEF IInv, NumConsistent, TypeOK
<1> QED
    BY <1>1 DEF Ending, Exited, MayStop, At

\* Where the fiber that a switch resumes stands: inside one of the two switches.
LEMMA SwitchTarget ==
    ASSUME IInv, Born, Ending, Exited, NEW g \in Fibers, g <= workerFibers,
           g # currentFiber, fibers # <<>> \/ At("suspend")
    PROVE  pc[g] \in {"blocked", "switched"}
<1>1. g \in 0..workerFibers /\ pc[g] # "unborn"
    BY ContainerAssumption DEF Born, IInv, TypeOK
<1> QED
    BY <1>1, NobodyEnded DEF IInv, Parked

LEMMA HeadFiber ==
    ASSUME IInv, fibers # <<>>
    PROVE  Head(fibers) \in Fibers /\ Head(fibers) <= workerFibers
    BY DEF IInv, TypeOK, Created

LEMMA NewFiber ==
    ASSUME IInv, SwitchToNew
    PROVE  /\ workerFibers + 1 \in Fibers /\ workerFibers + 1 # currentFiber
           /\ pc[workerFibers + 1] = "unborn" /\ state[workerFibers + 1] = "Running"
           /\ workerFibers + 1 # Main
    BY ContainerAssumption DEF IInv, Created, TypeOK, SwitchToNew, Main

\* No fiber blocks when the worker may stop.
LEMMA NobodyBlocks ==
    ASSUME IInv, MayStop, NEW f \in Fibers
    PROVE  pc[f] # "blocked"
<1>1. IsFiniteSet({g \in Fibers : pc[g] = "blocked"})
    BY ContainerAssumption, FS_Subset
<1>2. {g \in Fibers : pc[g] = "blocked"} = {}
    BY <1>1, FS_EmptySet DEF MayStop, IInv, BlockedCounted
<1> QED
    BY <1>2

\* When a worker fiber leaves run(), mainFiber stands in its own switch.
LEMMA LeaveTarget ==
    ASSUME IInv, Born, Ending, LeaveRun, currentFiber # Main
    PROVE  pc[Main] = "switched"
<1>1. Main \in 0..workerFibers /\ Main \in Fibers
    BY WorkerAssumption DEF Main, IInv, TypeOK
<1>2. pc[Main] # "unborn" /\ pc[Main] # "ended"
    BY <1>1 DEF Born, Ending
<1>3. pc[Main] # "blocked"
    BY <1>1, NobodyBlocks DEF LeaveRun
<1> QED
    BY <1>1, <1>2, <1>3 DEF IInv, Parked

LEMMA MutexStep ==
    ASSUME IInv, CallPlaces, Born, Ending, Exited, MutexHeld, [Next]_vars
    PROVE  MutexHeld'
<1>0. TypeOK
    BY DEF IInv
<1> USE <1>0 DEF MutexHeld, pool, At, Locked
<1>1. ASSUME UNCHANGED <<pc, currentFiber, mutex>> PROVE MutexHeld'
    BY <1>1
<1>2. ASSUME NEW l, Goto(l), UNCHANGED currentFiber, mutex' <=> l \in Locked
      PROVE  MutexHeld'
    BY <1>2 DEF Goto, TypeOK
<1>3. CASE Loop
  <2>1. ASSUME NEW t \in waiting.timeouts, TakeTimeout(t) PROVE MutexHeld'
      BY <1>1, <2>1 DEF TakeTimeout
  <2>2. CASE \/ Start \/ KeepRunning \/ SpinEnd \/ RunTask \/ RunUntilIdleEnd \/ ResumeIdle
      BY <2>2, <1>2 DEF Start, KeepRunning, SpinEnd, RunTask, RunUntilIdleEnd, ResumeIdle,
         Lock, Unlock
  <2>3. CASE WaitForWork \/ TimeoutsEnd
      BY <2>3, <1>2 DEF WaitForWork, TimeoutsEnd, AfterWaitForWork, Unlock
  <2>4. CASE RunWait \/ RunWake \/ ThreadWait \/ ThreadWake \/ ThreadTimeOut
      BY <2>4, <1>2 DEF RunWait, RunWake, ThreadWait, ThreadWake, ThreadTimeOut, WorkWait,
         WakeUp, FallAsleep, Lock, Unlock
  <2>5. CASE RunFiber
    <3>1. Head(fibers) \in Fibers /\ Head(fibers) <= workerFibers
        BY <2>5, HeadFiber DEF RunFiber
    <3>2. Head(fibers) # currentFiber => pc[Head(fibers)] \in {"blocked", "switched"}
        BY <2>5, <3>1, SwitchTarget DEF RunFiber
    <3>3. pc'[currentFiber'] \in Locked
        BY <2>5, <3>1, <3>2 DEF RunFiber, Goto, TypeOK
    <3> QED
        BY <2>5, <3>3 DEF RunFiber
  <2>6. CASE LeaveRun
    <3>1. CASE currentFiber = Main
        BY <1>2, <2>6, <3>1 DEF LeaveRun, Unlock
    <3>2. CASE currentFiber # Main
      <4>1. pc[Main] = "switched"
          BY <2>6, <3>2, LeaveTarget
      <4>2. currentFiber' = Main /\ mutex' = mutex /\ At("runUntilShutdown") /\ Goto("ended")
          BY <2>6, <3>2 DEF LeaveRun
      <4>3. pc'[Main] = "switched"
          BY <3>2, <4>1, <4>2, WorkerAssumption DEF Goto, TypeOK, Main
      <4> QED
          BY <4>2, <4>3
    <3> QED
        BY <3>1, <3>2
  <2>7. CASE SwitchAway
    <3>0. UNCHANGED mutex /\ pc[currentFiber] \in Locked
        BY <2>7 DEF SwitchAway
    <3>1. ASSUME NEW g \in Fibers, g <= workerFibers, currentFiber' = g, Goto("blocked")
          PROVE  MutexHeld'
      <4>1. g # currentFiber => pc[g] \in {"blocked", "switched"}
          BY <2>7, <3>1, SwitchTarget DEF SwitchAway
      <4>2. pc'[g] \in Locked
          BY <3>1, <4>1 DEF Goto, TypeOK
      <4> QED
          BY <3>0, <3>1, <4>2
    <3>2. CASE SwitchToQueued
        BY <3>1, <3>2, HeadFiber DEF SwitchToQueued
    <3>3. CASE SwitchToIdle
        BY <3>1, <3>3 DEF SwitchToIdle, IInv, Created, TypeOK
    <3>4. CASE SwitchToNew
      <4>1. pc'[currentFiber'] \in {"run", "runUntilShutdown"}
          BY <3>4, NewFiber DEF SwitchToNew, TypeOK
      <4> QED
          BY <3>0, <4>1
    <3> QED
        BY <2>7, <3>2, <3>3, <3>4 DEF SwitchAway
  <2>8. CASE Resume
      BY <2>8, <1>2 DEF Resume, Returns, Unlock
  <2>9. CASE Relock
      BY <2>9, <1>2 DEF Relock, Returns
  <2>10. CASE WaitPred
      BY <2>10, <1>2 DEF WaitPred, Returns, Suspend, Lock
  <2> QED
      BY <1>3, <2>1, <2>2, <2>3, <2>4, <2>5, <2>6, <2>7, <2>8, <2>9, <2>10 DEF Loop
<1>4. ASSUME NEW tp, WaitCall(tp) \/ WaitBare(tp) PROVE MutexHeld'
    BY <1>2, <1>4 DEF WaitCall, WaitBare, Calls, Suspend, Lock
<1>5. CASE TaskEnds
    BY <1>2, <1>5 DEF TaskEnds, Lock
<1>6. ASSUME NEW t \in Tasks, TaskEnqueues(t) \/ TaskSignals(t) \/ SpinSteals(t)
      PROVE  MutexHeld'
    BY <1>1, <1>2, <1>6 DEF TaskEnqueues, TaskSignals, SpinSteals, Lock
<1>7. ASSUME NEW e \in Externals, External(e) PROVE MutexHeld'
    BY <1>1, <1>7 DEF External, Enqueue, Signal, Steal, NotifyAdded, SignalNotifies,
       NotifyBare, EnqueueFiber
<1>8. CASE Tick \/ UNCHANGED vars
    BY <1>1, <1>8 DEF Tick, vars
<1> QED
    BY <1>3, <1>4, <1>5, <1>6, <1>7, <1>8 DEF Next, Task, Terminated

LEMMA BornStep ==
    ASSUME IInv, Born, [Next]_vars
    PROVE  Born'
<1>0. TypeOK
    BY DEF IInv
<1> USE <1>0 DEF pool
<1>1. ASSUME UNCHANGED <<pc, workerFibers>> PROVE Born'
    BY <1>1 DEF Born
<1>2. ASSUME NEW l, Goto(l), l # "unborn", UNCHANGED workerFibers PROVE Born'
    BY <1>2 DEF Born, Goto, TypeOK
<1>3. CASE SwitchAway
  <2>1. CASE SwitchToNew
    <3>1. 0..workerFibers' = 0..workerFibers \cup {workerFibers + 1}
        BY <2>1 DEF SwitchToNew, TypeOK
    <3> QED
        BY <2>1, <3>1, NewFiber DEF Born, SwitchToNew, TypeOK
  <2>2. CASE ~SwitchToNew
      BY <1>2, <1>3, <2>2 DEF SwitchAway, SwitchToQueued, SwitchToIdle
  <2> QED
      BY <2>1, <2>2
<1>4. CASE Loop
  <2>1. ASSUME NEW t \in waiting.timeouts, TakeTimeout(t) PROVE Born'
      BY <1>1, <2>1 DEF TakeTimeout
  <2>2. CASE \/ Start \/ KeepRunning \/ SpinEnd \/ RunTask \/ RunUntilIdleEnd \/ ResumeIdle
             \/ RunFiber \/ LeaveRun \/ WaitForWork \/ TimeoutsEnd
      BY <2>2, <1>2 DEF Start, KeepRunning, SpinEnd, RunTask, RunUntilIdleEnd, ResumeIdle,
         RunFiber, LeaveRun, WaitForWork, TimeoutsEnd, AfterWaitForWork
  <2>3. CASE RunWait \/ RunWake \/ ThreadWait \/ ThreadWake \/ ThreadTimeOut
      BY <2>3, <1>2 DEF RunWait, RunWake, ThreadWait, ThreadWake, ThreadTimeOut, WorkWait,
         WakeUp, FallAsleep
  <2>4. CASE Resume \/ Relock \/ WaitPred
      BY <2>4, <1>2 DEF Resume, Relock, WaitPred, Returns, Suspend
  <2> QED
      BY <1>3, <1>4, <2>1, <2>2, <2>3, <2>4 DEF Loop
<1>5. ASSUME NEW tp, WaitCall(tp) \/ WaitBare(tp) \/ TaskEnds PROVE Born'
    BY <1>2, <1>5 DEF WaitCall, WaitBare, Suspend, TaskEnds
<1>6. ASSUME NEW t \in Tasks, SpinSteals(t) PROVE Born'
    BY <1>2, <1>6 DEF SpinSteals
<1>7. CASE UNCHANGED Stacks
    BY <1>1, <1>7 DEF Stacks
<1> QED
    BY <1>4, <1>5, <1>6, <1>7, OthersLeaveStacks DEF Next, Task, Terminated

LEMMA IdleStep ==
    ASSUME IInv, IdleKept, [Next]_vars
    PROVE  IdleKept'
<1>0. TypeOK /\ Parked
    BY DEF IInv
<1> USE <1>0 DEF pool, At
<1>1. ASSUME UNCHANGED <<pc, currentFiber, idleFibers>> PROVE IdleKept'
    BY <1>1 DEF IdleKept
<1>2. ASSUME NEW l, Goto(l), UNCHANGED <<currentFiber, idleFibers>> PROVE IdleKept'
    BY <1>2 DEF IdleKept, Goto, TypeOK
<1>3. CASE Loop
  <2>1. ASSUME NEW t \in waiting.timeouts, TakeTimeout(t) PROVE IdleKept'
      BY <1>1, <2>1 DEF TakeTimeout
  <2>2. CASE RunFiber
      BY <2>2 DEF RunFiber, IdleKept, Goto, TypeOK
  <2>3. CASE LeaveRun
      BY <1>2, <2>3 DEF LeaveRun, IdleKept, Goto, TypeOK
  <2>4. CASE SwitchAway
    <3>1. CASE SwitchToQueued \/ SwitchToIdle
        BY <3>1 DEF SwitchToQueued, SwitchToIdle, IdleKept, Goto, TypeOK
    <3>2. CASE SwitchToNew
        BY <3>2 DEF SwitchToNew, IdleKept, TypeOK
    <3> QED
        BY <2>4, <3>1, <3>2 DEF SwitchAway
  <2>5. CASE \/ Start \/ KeepRunning \/ SpinEnd \/ RunTask \/ RunUntilIdleEnd \/ ResumeIdle
             \/ WaitForWork \/ TimeoutsEnd
      BY <2>5, <1>2 DEF Start, KeepRunning, SpinEnd, RunTask, RunUntilIdleEnd, ResumeIdle,
         WaitForWork, TimeoutsEnd
  <2>6. CASE RunWait \/ RunWake \/ ThreadWait \/ ThreadWake \/ ThreadTimeOut
      BY <2>6, <1>2 DEF RunWait, RunWake, ThreadWait, ThreadWake, ThreadTimeOut, WorkWait,
         WakeUp, FallAsleep
  <2>7. CASE Resume \/ Relock \/ WaitPred
      BY <2>7, <1>2 DEF Resume, Relock, WaitPred, Returns, Suspend
  <2> QED
      BY <1>3, <2>1, <2>2, <2>3, <2>4, <2>5, <2>6, <2>7 DEF Loop
<1>4. ASSUME NEW tp, WaitCall(tp) \/ WaitBare(tp) \/ TaskEnds PROVE IdleKept'
    BY <1>2, <1>4 DEF WaitCall, WaitBare, Suspend, TaskEnds
<1>5. ASSUME NEW t \in Tasks, TaskEnqueues(t) \/ TaskSignals(t) \/ SpinSteals(t)
      PROVE  IdleKept'
    BY <1>1, <1>2, <1>5 DEF TaskEnqueues, TaskSignals, SpinSteals
<1>6. ASSUME NEW e \in Externals, External(e) PROVE IdleKept'
    BY <1>1, <1>6 DEF External, Enqueue, Signal, Steal, NotifyAdded, SignalNotifies,
       NotifyBare, EnqueueFiber
<1>7. CASE Tick \/ UNCHANGED vars
    BY <1>1, <1>7 DEF Tick, vars
<1> QED
    BY <1>3, <1>4, <1>5, <1>6, <1>7 DEF Next, Task, Terminated

-----------------------------------------------------------------------------
(* The end of the worker. *)

\* The counters that MayStop reads stay as they are while the mutex is held or the
\* worker has exited, except in the worker's own steps.
LEMMA CountersKept ==
    ASSUME IInv, Signals, MutexHeld, Exited,
           pc[currentFiber] \in Locked \/ pc[Main] = "exited",
           \/ \E e \in Externals : External(e)
           \/ \E t \in Tasks : TaskEnqueues(t) \/ TaskSignals(t)
           \/ Tick
           \/ UNCHANGED vars
    PROVE  UNCHANGED <<num, numBlockedFibers, shutdown>>
<1>0. TypeOK /\ NumConsistent /\ StackConsistent
    BY DEF IInv
<1>1. pc[Main] = "exited" => /\ \A f \in Fibers : call[f] = "none"
                             /\ num = 0 /\ currentFiber = Main
    BY <1>0, WorkerAssumption DEF Exited, StackConsistent, TypeOK, MayStop
<1>2. mutex \/ pc[Main] = "exited"
    BY DEF MutexHeld
<1> USE DEF queues, history
<1>3. ASSUME NEW e \in Externals, External(e)
      PROVE  UNCHANGED <<num, numBlockedFibers, shutdown>>
  <2>1. ASSUME NEW t \in Tasks PROVE ~Enqueue(e, t)
      BY <1>2 DEF Enqueue
  <2>2. ~Steal(e)
    <3>1. num = 0 => tasks = <<>>
        BY <1>0 DEF NumConsistent, TypeOK
    <3> QED
        BY <1>1, <1>2, <3>1 DEF Steal
  <2>3. ~SignalNotifies(e)
    <3>1. step[e].at = "signal" => call[step[e].fiber] = "pred" /\ step[e].fiber \in Fibers
        BY <1>0 DEF Signals, TypeOK, Steps
    <3> QED
        BY <1>1, <1>2, <3>1 DEF SignalNotifies, EnqueueFiber
  <2>4. ASSUME NEW f \in Fibers PROVE ~NotifyBare(e, f)
      BY <1>1, <1>2 DEF NotifyBare, EnqueueFiber
  <2> QED
      BY <1>3, <2>1, <2>2, <2>3, <2>4 DEF External, Signal, NotifyAdded, Enqueue
<1>4. ASSUME NEW t \in Tasks, TaskEnqueues(t) \/ TaskSignals(t)
      PROVE  UNCHANGED <<num, numBlockedFibers, shutdown>>
    BY <1>1, <1>2, <1>4 DEF TaskEnqueues, TaskSignals, At
<1>5. CASE Tick \/ UNCHANGED vars
    BY <1>5 DEF Tick, vars
<1> QED
    BY <1>3, <1>4, <1>5

\* A fiber ends, or exits, by LeaveRun only.
LEMMA OnlyLeaveRunEnds ==
    ASSUME IInv, [Next]_vars, NEW f \in Fibers, pc'[f] \in {"ended", "exited"},
           pc[f] # pc'[f]
    PROVE  LeaveRun /\ f = currentFiber
<1>0. TypeOK
    BY DEF IInv
<1> USE <1>0
<1>1. ASSUME NEW l, Goto(l) PROVE l \in {"ended", "exited"} /\ f = currentFiber
    BY <1>1 DEF Goto, TypeOK
<1>2. CASE Loop
  <2>1. ASSUME NEW t \in waiting.timeouts, TakeTimeout(t) PROVE FALSE
      BY <2>1 DEF TakeTimeout
  <2>2. CASE \/ Start \/ KeepRunning \/ SpinEnd \/ RunTask \/ RunUntilIdleEnd \/ ResumeIdle
             \/ WaitForWork \/ TimeoutsEnd \/ RunFiber
      BY <1>1, <2>2 DEF Start, KeepRunning, SpinEnd, RunTask, RunUntilIdleEnd, ResumeIdle,
         WaitForWork, TimeoutsEnd, RunFiber, AfterWaitForWork
  <2>3. CASE RunWait \/ RunWake \/ ThreadWait \/ ThreadWake \/ ThreadTimeOut
      BY <1>1, <2>3 DEF RunWait, RunWake, ThreadWait, ThreadWake, ThreadTimeOut, WorkWait,
         WakeUp, FallAsleep
  <2>4. CASE Resume \/ Relock \/ WaitPred
      BY <1>1, <2>4 DEF Resume, Relock, WaitPred, Returns, Suspend
  <2>5. CASE SwitchAway
      BY <1>1, <2>5 DEF SwitchAway, SwitchToQueued, SwitchToIdle, SwitchToNew, TypeOK
  <2>6. CASE LeaveRun
      BY <1>1, <2>6 DEF LeaveRun
  <2> QED
      BY <1>2, <2>1, <2>2, <2>3, <2>4, <2>5, <2>6 DEF Loop
<1>3. ASSUME NEW tp, WaitCall(tp) \/ WaitBare(tp) \/ TaskEnds PROVE FALSE
    BY <1>1, <1>3 DEF WaitCall, WaitBare, Suspend, TaskEnds
<1>4. ASSUME NEW t \in Tasks, SpinSteals(t) PROVE FALSE
    BY <1>1, <1>4 DEF SpinSteals
<1>5. CASE UNCHANGED Stacks
    BY <1>5 DEF Stacks
<1> QED
    BY <1>2, <1>3, <1>4, <1>5, OthersLeaveStacks DEF Next, Task, Terminated

LEMMA EndingStep ==
    ASSUME IInv, CallPlaces, Signals, Born, MutexHeld, Ending, Exited, [Next]_vars
    PROVE  Ending'
<1>0. TypeOK /\ Parked /\ Main \in Fibers
    BY WorkerAssumption DEF IInv, Main
<1> USE <1>0 DEF pool, queues, At
\* A fiber that ended already: the steps that remain are those of mainFiber.
<1>1. ASSUME NEW f \in Fibers, pc[f] = "ended"
      PROVE  /\ pc'[f] = "ended" /\ f # Main /\ currentFiber' = Main
             /\ \/ pc'[Main] = "exited"
                \/ pc'[Main] \in {"switched", "runUntilIdle", "runUntilShutdown"} /\ MayStop'
  <2> DEFINE Goal == /\ pc'[f] = "ended" /\ currentFiber' = Main
                     /\ \/ pc'[Main] = "exited"
                        \/ /\ pc'[Main] \in {"switched", "runUntilIdle", "runUntilShutdown"}
                           /\ MayStop'
  <2>1. /\ f # Main /\ currentFiber = Main
        /\ pc[Main] \in {"exited", "switched", "runUntilIdle", "runUntilShutdown"}
        /\ MayStop
      BY <1>1 DEF Ending, Exited
  <2>2. num = 0 /\ fibers = <<>> /\ tasks = <<>>
      BY <2>1 DEF MayStop, IInv, NumConsistent, TypeOK
  <2>3. CASE \/ \E e \in Externals : External(e)
             \/ \E t \in Tasks : TaskEnqueues(t) \/ TaskSignals(t)
             \/ Tick
             \/ UNCHANGED vars
    <3>1. UNCHANGED Stacks
        BY <2>3, OthersLeaveStacks
    <3>2. UNCHANGED <<num, numBlockedFibers, shutdown>>
        BY <2>1, <2>3, CountersKept DEF Locked
    <3> QED
        BY <1>1, <2>1, <3>1, <3>2 DEF Stacks, MayStop, Ending
  <2>4. CASE LeaveRun
      BY <1>1, <2>1, <2>4 DEF LeaveRun, Goto, TypeOK
  <2>5. CASE ResumeIdle
      BY <1>1, <2>1, <2>5 DEF ResumeIdle, Goto, TypeOK, MayStop
  <2>6. CASE RunUntilIdleEnd
      BY <1>1, <2>1, <2>6 DEF RunUntilIdleEnd, Goto, TypeOK, MayStop
  <2>7. ASSUME Loop PROVE LeaveRun \/ ResumeIdle \/ RunUntilIdleEnd
      BY <2>1, <2>2, <2>7 DEF Loop, Start, KeepRunning, WaitForWork, SpinEnd, RunWait,
         RunWake, ThreadWait, ThreadWake, ThreadTimeOut, WorkWait, WakeUp, TakeTimeout,
         TimeoutsEnd, RunFiber, RunTask, SwitchAway, Resume, Relock, WaitPred
  <2>8. ASSUME NEW tp, WaitCall(tp) \/ WaitBare(tp) \/ TaskEnds PROVE FALSE
      BY <2>1, <2>8 DEF WaitCall, WaitBare, Calls, TaskEnds
  <2>9. ASSUME NEW t \in Tasks, SpinSteals(t) PROVE FALSE
      BY <2>1, <2>9 DEF SpinSteals
  <2> QED
      BY <2>1, <2>3, <2>4, <2>5, <2>6, <2>7, <2>8, <2>9 DEF Next, Task, Terminated
\* A fiber that ends with this step.
<1>2. ASSUME NEW f \in Fibers, pc'[f] = "ended", pc[f] # "ended"
      PROVE  LeaveRun /\ f = currentFiber /\ f # Main
  <2>1. LeaveRun /\ f = currentFiber
      BY <1>2, OnlyLeaveRunEnds
  <2> QED
      BY <1>2, <2>1 DEF LeaveRun, Goto, TypeOK
<1>3. ASSUME LeaveRun, currentFiber # Main
      PROVE  currentFiber' = Main /\ pc'[Main] = "switched" /\ MayStop'
  <2>1. pc[Main] = "switched"
      BY <1>3, LeaveTarget
  <2> QED
      BY <1>3, <2>1 DEF LeaveRun, Goto, TypeOK, MayStop
<1> QED
    BY <1>1, <1>2, <1>3 DEF Ending

LEMMA ExitedStep ==
    ASSUME IInv, CallPlaces, Signals, MutexHeld, Exited, [Next]_vars
    PROVE  Exited'
<1>0. TypeOK /\ Main \in Fibers /\ Parked
    BY WorkerAssumption DEF IInv, Main
<1> USE <1>0 DEF pool, queues, At
<1>1. CASE pc[Main] = "exited"
  <2>1. currentFiber = Main /\ MayStop /\ \A f \in Fibers : task[f] = NoTask
      BY <1>1 DEF Exited
  <2>2. \/ \E e \in Externals : External(e)
        \/ \E t \in Tasks : TaskEnqueues(t) \/ TaskSignals(t)
        \/ Tick
        \/ UNCHANGED vars
    <3>1. ~Loop
        BY <1>1, <2>1 DEF Loop, Start, KeepRunning, WaitForWork, SpinEnd, RunWait,
           RunWake, ThreadWait, ThreadWake, ThreadTimeOut, WorkWait, WakeUp, TakeTimeout,
           TimeoutsEnd, RunFiber, RunTask, SwitchAway, Resume, Relock, WaitPred, LeaveRun,
           RunUntilIdleEnd, ResumeIdle
    <3>2. ASSUME NEW tp, WaitCall(tp) \/ WaitBare(tp) \/ TaskEnds PROVE FALSE
        BY <1>1, <2>1, <3>2 DEF WaitCall, WaitBare, Calls, TaskEnds
    <3>3. ASSUME NEW t \in Tasks, SpinSteals(t) PROVE FALSE
        BY <1>1, <2>1, <3>3 DEF SpinSteals
    <3> QED
        BY <3>1, <3>2, <3>3 DEF Next, Task, Terminated
  <2>3. UNCHANGED <<num, numBlockedFibers, shutdown>>
      BY <1>1, <2>2, CountersKept
  <2>4. UNCHANGED Stacks
      BY <2>2, OthersLeaveStacks
  <2> QED
      BY <2>1, <2>3, <2>4 DEF Stacks, MayStop, Exited
<1>2. CASE pc[Main] # "exited" /\ pc'[Main] = "exited"
  <2>2. LeaveRun /\ currentFiber = Main
      BY <1>2, OnlyLeaveRunEnds
  <2>3. currentFiber = Main /\ At("runUntilShutdown") /\ MayStop
      BY <2>2 DEF LeaveRun
  <2>4. ASSUME NEW f \in Fibers PROVE task[f] = NoTask
    <3>1. pc[f] \notin Inside \cup {"task", "wait", "relock"}
        BY <2>3, NobodyBlocks DEF Parked, Inside
    <3> QED
        BY <3>1 DEF CallPlaces, TypeOK
  <2> QED
      BY <2>2, <2>3, <2>4 DEF LeaveRun, Exited, MayStop, stack
<1> QED
    BY <1>1, <1>2 DEF Exited

-----------------------------------------------------------------------------
(* Queues without duplicates. *)

Elements(s) == {s[i] : i \in DOMAIN s}

Distinct(s) == \A i, j \in DOMAIN s : s[i] = s[j] => i = j

LEMMA AppendElements ==
    ASSUME NEW S, NEW s \in Seq(S), NEW x \in S
    PROVE  /\ Elements(Append(s, x)) = Elements(s) \cup {x}
           /\ Distinct(s) /\ x \notin Elements(s) => Distinct(Append(s, x))
<1> DEFINE a == Append(s, x)
<1>1. /\ DOMAIN a = 1..(Len(s) + 1) /\ DOMAIN s = 1..Len(s) /\ Len(s) \in Nat
      /\ \A i \in 1..Len(s) : a[i] = s[i]
      /\ a[Len(s) + 1] = x
    OBVIOUS
<1> HIDE DEF a
<1>2. Elements(a) = Elements(s) \cup {x}
  <2>1. ASSUME NEW y \in Elements(a) PROVE y \in Elements(s) \cup {x}
      BY <1>1, <2>1 DEF Elements
  <2>2. ASSUME NEW y \in Elements(s) PROVE y \in Elements(a)
      BY <1>1, <2>2 DEF Elements
  <2>3. x \in Elements(a)
      BY <1>1 DEF Elements
  <2> QED
      BY <2>1, <2>2, <2>3
<1>3. ASSUME Distinct(s), x \notin Elements(s) PROVE Distinct(a)
    BY <1>1, <1>3 DEF Distinct, Elements
<1> QED
    BY <1>2, <1>3 DEF a

LEMMA TailElements ==
    ASSUME NEW S, NEW s \in Seq(S), s # <<>>
    PROVE  /\ Head(s) \in S /\ Head(s) \in Elements(s) /\ Tail(s) \in Seq(S)
           /\ Elements(s) = Elements(Tail(s)) \cup {Head(s)}
           /\ Distinct(s) => Distinct(Tail(s)) /\ Head(s) \notin Elements(Tail(s))
<1> DEFINE r == Tail(s)
<1>1. /\ Len(s) \in Nat /\ Len(s) # 0 /\ DOMAIN s = 1..Len(s)
      /\ DOMAIN r = 1..(Len(s) - 1)
      /\ \A i \in 1..(Len(s) - 1) : r[i] = s[i + 1]
      /\ Head(s) = s[1] /\ Head(s) \in S /\ r \in Seq(S)
    OBVIOUS
<1> HIDE DEF r
<1>2. ASSUME NEW y \in Elements(s), y # Head(s) PROVE y \in Elements(r)
  <2>1. PICK i \in DOMAIN s : y = s[i]
      BY <1>2 DEF Elements
  <2>2. i - 1 \in DOMAIN r /\ r[i - 1] = s[i]
      BY <1>1, <1>2, <2>1
  <2> QED
      BY <2>1, <2>2 DEF Elements
<1>3. ASSUME NEW y \in Elements(r) PROVE y \in Elements(s)
  <2>1. PICK i \in DOMAIN r : y = r[i]
      BY <1>3 DEF Elements
  <2>2. i + 1 \in DOMAIN s /\ r[i] = s[i + 1]
      BY <1>1, <2>1
  <2> QED
      BY <2>1, <2>2 DEF Elements
<1>4. Head(s) \in Elements(s)
    BY <1>1 DEF Elements
<1>5. ASSUME Distinct(s) PROVE Distinct(r) /\ Head(s) \notin Elements(r)
  <2>1. Distinct(r)
    <3> SUFFICES ASSUME NEW i \in DOMAIN r, NEW j \in DOMAIN r, r[i] = r[j]
                 PROVE  i = j
        BY DEF Distinct
    <3>1. i + 1 \in DOMAIN s /\ r[i] = s[i + 1] /\ i \in Int
        BY <1>1
    <3>2. j + 1 \in DOMAIN s /\ r[j] = s[j + 1] /\ j \in Int
        BY <1>1
    <3>3. i + 1 = j + 1
        BY <1>5, <3>1, <3>2 DEF Distinct
    <3> QED
        BY <3>1, <3>2, <3>3
  <2>2. ASSUME NEW i \in DOMAIN r, r[i] = Head(s) PROVE FALSE
    <3>1. i + 1 \in DOMAIN s /\ 1 \in DOMAIN s /\ s[i + 1] = s[1] /\ i + 1 # 1
        BY <1>1, <2>2
    <3> QED
        BY <1>5, <3>1 DEF Distinct
  <2> QED
      BY <2>1, <2>2 DEF Elements
<1> QED
    BY <1>1, <1>2, <1>3, <1>4, <1>5 DEF r

-----------------------------------------------------------------------------
(* Every task is in one place. *)

TasksApart ==
    /\ Distinct(tasks)
    /\ \A f, g \in Fibers : task[f] = task[g] /\ task[f] \in Tasks => f = g
    /\ \A f \in Fibers : task[f] \notin fresh \cup done \cup stolen \cup Elements(tasks)
    /\ Elements(tasks) \cap (fresh \cup done \cup stolen) = {}
    /\ fresh \cap done = {} /\ fresh \cap stolen = {} /\ done \cap stolen = {}

TasksKept ==
    \A t \in Tasks : \/ t \in fresh \cup done \cup stolen \cup Elements(tasks)
                     \/ \E f \in Fibers : task[f] = t

TasksPlaced == TasksApart /\ TasksKept

LEMMA PlacedStep ==
    ASSUME IInv, CallPlaces, TasksPlaced, [Next]_vars
    PROVE  TasksPlaced'
<1>0. TypeOK /\ StackConsistent
    BY DEF IInv
<1> DEFINE Places == <<tasks, task, fresh, done, stolen>>
<1> USE <1>0 DEF pool, stack, queues, history, At
<1>1. CASE UNCHANGED Places
    BY <1>1 DEF TasksPlaced, TasksApart, TasksKept, Elements, Distinct
<1>2. ASSUME NEW t \in fresh, PushTask(t), fresh' = fresh \ {t}, UNCHANGED <<task, done, stolen>>
      PROVE  TasksPlaced'
  <2>1. t \in Tasks /\ tasks \in Seq(Tasks) /\ t \notin Elements(tasks)
      BY DEF TypeOK, TasksPlaced, TasksApart
  <2>2. Elements(tasks') = Elements(tasks) \cup {t} /\ Distinct(tasks')
      BY <1>2, <2>1, AppendElements DEF PushTask, TasksPlaced, TasksApart
  <2> HIDE DEF history, queues, pool, stack
  <2> QED
      BY <1>2, <2>1, <2>2 DEF TasksPlaced, TasksApart, TasksKept, TypeOK
<1>3. CASE RunTask
  <2>1. task[currentFiber] = NoTask
      BY <1>3 DEF RunTask, CallPlaces, StackConsistent, TypeOK
  <2>2. /\ Head(tasks) \in Tasks /\ Head(tasks) \in Elements(tasks)
        /\ Elements(tasks) = Elements(tasks') \cup {Head(tasks)}
        /\ Distinct(tasks') /\ Head(tasks) \notin Elements(tasks')
      BY <1>3, TailElements DEF RunTask, TasksPlaced, TasksApart, TypeOK
  <2>3. /\ task' = [task EXCEPT ![currentFiber] = Head(tasks)]
        /\ UNCHANGED <<fresh, done, stolen>> /\ currentFiber \in Fibers
      BY <1>3 DEF RunTask, TypeOK
  <2>4. TasksApart'
      BY <2>1, <2>2, <2>3 DEF TasksPlaced, TasksApart, TypeOK
  <2>5. TasksKept'
    <3> SUFFICES ASSUME NEW t \in Tasks
                 PROVE  \/ t \in fresh' \cup done' \cup stolen' \cup Elements(tasks')
                        \/ \E f \in Fibers : task'[f] = t
        BY DEF TasksKept
    <3>1. CASE t = Head(tasks)
        BY <2>3, <3>1 DEF TypeOK
    <3>2. ASSUME NEW f \in Fibers, task[f] = t PROVE task'[f] = t
        BY <2>1, <2>3, <3>2, WorkerAssumption DEF TypeOK
    <3> QED
        BY <2>2, <2>3, <3>1, <3>2 DEF TasksPlaced, TasksKept
  <2> QED
      BY <2>4, <2>5 DEF TasksPlaced
<1>4. CASE TaskEnds
  <2> DEFINE t == task[currentFiber]
  <2>1. /\ task' = [task EXCEPT ![currentFiber] = NoTask] /\ done' = done \cup {t}
        /\ UNCHANGED <<fresh, stolen, tasks>> /\ currentFiber \in Fibers /\ t \in Tasks
      BY <1>4 DEF TaskEnds, TypeOK, StackConsistent
  <2>2. Elements(tasks) \subseteq Tasks /\ UNCHANGED <<Elements(tasks), Distinct(tasks)>>
      BY <2>1 DEF Elements, Distinct, TypeOK
  <2>3. TasksApart'
      BY <2>1, <2>2, WorkerAssumption DEF TasksPlaced, TasksApart, TypeOK
  <2>4. TasksKept'
      BY <2>1, <2>2 DEF TasksPlaced, TasksKept, TypeOK
  <2> QED
      BY <2>3, <2>4 DEF TasksPlaced
<1>5. ASSUME NEW e \in Externals, Steal(e) PROVE TasksPlaced'
  <2>1. /\ Head(tasks) \in Tasks /\ Head(tasks) \in Elements(tasks)
        /\ Elements(tasks) = Elements(tasks') \cup {Head(tasks)}
        /\ Distinct(tasks') /\ Head(tasks) \notin Elements(tasks')
      BY <1>5, TailElements DEF Steal, TasksPlaced, TasksApart, TypeOK
  <2>2. stolen' = stolen \cup {Head(tasks)} /\ UNCHANGED <<fresh, done, task>>
      BY <1>5 DEF Steal
  <2> QED
      BY <2>1, <2>2 DEF TasksPlaced, TasksApart, TasksKept
<1>6. CASE Loop
  <2>1. ASSUME NEW t \in waiting.timeouts, TakeTimeout(t) PROVE TasksPlaced'
      BY <1>1, <2>1 DEF TakeTimeout
  <2>2. CASE \/ Start \/ KeepRunning \/ SpinEnd \/ RunUntilIdleEnd \/ ResumeIdle
             \/ WaitForWork \/ TimeoutsEnd \/ RunFiber \/ LeaveRun
      BY <1>1, <2>2 DEF Start, KeepRunning, SpinEnd, RunUntilIdleEnd, ResumeIdle,
         WaitForWork, TimeoutsEnd, RunFiber, LeaveRun
  <2>3. CASE RunWait \/ RunWake \/ ThreadWait \/ ThreadWake \/ ThreadTimeOut
      BY <1>1, <2>3 DEF RunWait, RunWake, ThreadWait, ThreadWake, ThreadTimeOut, WorkWait,
         WakeUp, FallAsleep
  <2>4. CASE Resume \/ Relock \/ WaitPred
      BY <1>1, <2>4 DEF Resume, Relock, WaitPred, Returns
  <2>5. CASE SwitchAway
      BY <1>1, <2>5 DEF SwitchAway
  <2> QED
      BY <1>3, <1>6, <2>1, <2>2, <2>3, <2>4, <2>5 DEF Loop
<1>7. ASSUME NEW tp, WaitCall(tp) \/ WaitBare(tp) PROVE TasksPlaced'
    BY <1>1, <1>7 DEF WaitCall, WaitBare, Calls
<1>8. ASSUME NEW t \in Tasks, TaskEnqueues(t) \/ TaskSignals(t) \/ SpinSteals(t)
      PROVE  TasksPlaced'
    BY <1>1, <1>2, <1>8 DEF TaskEnqueues, TaskSignals, SpinSteals
<1>9. ASSUME NEW e \in Externals, External(e) PROVE TasksPlaced'
    BY <1>1, <1>2, <1>5, <1>9 DEF External, Enqueue, Signal, NotifyAdded, SignalNotifies,
       NotifyBare, EnqueueFiber
<1>10. CASE Tick \/ UNCHANGED vars
    BY <1>1, <1>10 DEF Tick, vars
<1> QED
    BY <1>4, <1>6, <1>7, <1>8, <1>9, <1>10 DEF Next, Task, Terminated

-----------------------------------------------------------------------------
(* Signals to waiting tasks. *)

Signalled(f) == \E e \in Externals : step[e].at = "signal" /\ step[e].fiber = f

\* A fiber whose condition is true runs, is queued, or is about to be notified.
NoSignalLost ==
    \A f \in Fibers : call[f] = "pred" /\ pred[task[f]] =>
        state[f] \in {"Running", "Queued"} \/ Signalled(f)

LEMMA SignalLostStep ==
    ASSUME IInv, CallPlaces, StatePlaces, Signals, TasksPlaced, NoSignalLost, [Next]_vars
    PROVE  NoSignalLost'
<1>0. TypeOK /\ StackConsistent
    BY DEF IInv
<1> USE <1>0 DEF pool, stack, users, At
\* A step that makes no condition true, in which no fiber stops to run while its
\* condition is true.
<1>1. ASSUME UNCHANGED step, \A t \in Tasks : pred'[t] => pred[t],
             \A f \in Fibers : call'[f] = "pred" =>
                 \/ state'[f] \in {"Running", "Queued"}
                 \/ call[f] = "pred" /\ task'[f] = task[f] /\ state'[f] = state[f]
      PROVE  NoSignalLost'
  <2>1. \A f \in Fibers : call[f] = "pred" => task[f] \in Tasks
      BY DEF StackConsistent
  <2> QED
      BY <1>1, <2>1 DEF NoSignalLost, Signalled
<1>2. CASE UNCHANGED <<step, pred, call, task, state>>
    BY <1>2 DEF NoSignalLost, Signalled
<1>3. ASSUME Returns PROVE \A f \in Fibers : call'[f] = "pred" =>
                              call[f] = "pred" /\ task'[f] = task[f]
    BY <1>3 DEF Returns, TypeOK
<1>4. CASE Loop
  <2>1. ASSUME NEW t \in waiting.timeouts, TakeTimeout(t) PROVE NoSignalLost'
      BY <1>2, <2>1 DEF TakeTimeout
  <2>2. CASE \/ Start \/ KeepRunning \/ SpinEnd \/ RunUntilIdleEnd \/ WaitForWork
             \/ TimeoutsEnd \/ LeaveRun \/ SwitchAway
      BY <1>2, <2>2 DEF Start, KeepRunning, SpinEnd, RunUntilIdleEnd, WaitForWork,
         TimeoutsEnd, LeaveRun, SwitchAway
  <2>3. CASE RunWait \/ RunWake \/ ThreadWait \/ ThreadWake \/ ThreadTimeOut
      BY <1>2, <2>3 DEF RunWait, RunWake, ThreadWait, ThreadWake, ThreadTimeOut, WorkWait,
         WakeUp, FallAsleep
  <2>4. CASE RunFiber \/ RunTask \/ ResumeIdle
    <3>1. call[currentFiber] = "none"
        BY <2>4 DEF RunFiber, RunTask, ResumeIdle, StackConsistent, TypeOK
    <3>2. /\ UNCHANGED <<step, pred, call>>
          /\ \A f \in Fibers : f # currentFiber => task'[f] = task[f] /\ state'[f] = state[f]
        BY <2>4 DEF RunFiber, RunTask, ResumeIdle, TypeOK
    <3> QED
        BY <1>1, <3>1, <3>2
  <2>5. CASE Resume
    <3>1. \A f \in Fibers : call'[f] = "pred" => call[f] = "pred" /\ task'[f] = task[f]
        BY <1>3, <2>5 DEF Resume
    <3>2. /\ UNCHANGED <<step, pred>>
          /\ \A f \in Fibers : state'[f] = state[f] \/ state'[f] = "Running"
        BY <2>5 DEF Resume, Unblock, TypeOK
    <3> QED
        BY <1>1, <3>1, <3>2
  <2>6. CASE Relock
    <3>1. \A f \in Fibers : call'[f] = "pred" => call[f] = "pred" /\ task'[f] = task[f]
        BY <1>3, <2>6 DEF Relock
    <3> QED
        BY <1>1, <2>6, <3>1 DEF Relock
  <2>7. CASE WaitPred
    <3> DEFINE t == task[currentFiber]
    <3>1. CASE pred[t]
      <4>1. /\ UNCHANGED <<step, state>> /\ \A u \in Tasks : pred'[u] => pred[u]
            /\ \A f \in Fibers : call'[f] = "pred" => call[f] = "pred" /\ task'[f] = task[f]
          BY <1>3, <2>7, <3>1 DEF WaitPred, TypeOK
      <4> QED
          BY <1>1, <4>1
    <3>2. CASE ~pred[t]
      <4>1. /\ UNCHANGED <<step, pred, call, task>>
            /\ \A f \in Fibers : f # currentFiber => state'[f] = state[f]
          BY <2>7, <3>2 DEF WaitPred, Suspend, TypeOK
      <4> QED
          BY <3>2, <4>1 DEF NoSignalLost, Signalled
    <3> QED
        BY <3>1, <3>2
  <2> QED
      BY <1>4, <2>1, <2>2, <2>3, <2>4, <2>5, <2>6, <2>7 DEF Loop
<1>5. ASSUME NEW tp, WaitCall(tp) PROVE NoSignalLost'
  <2>1. state[currentFiber] = "Running"
      BY <1>5 DEF WaitCall, Calls, StatePlaces, Suspended, Inside, TypeOK
  <2>2. /\ UNCHANGED <<step, pred, task, state>>
        /\ \A f \in Fibers : f # currentFiber => call'[f] = call[f]
      BY <1>5 DEF WaitCall, Calls, TypeOK
  <2> QED
      BY <1>1, <2>1, <2>2
<1>6. ASSUME NEW tp, WaitBare(tp) PROVE NoSignalLost'
  <2>1. /\ UNCHANGED <<step, pred, task>> /\ call'[currentFiber] = "bare"
        /\ \A f \in Fibers : f # currentFiber => call'[f] = call[f] /\ state'[f] = state[f]
      BY <1>6 DEF WaitBare, Calls, Suspend, TypeOK
  <2> QED
      BY <1>1, <2>1
<1>7. CASE TaskEnds
  <2>1. call[currentFiber] = "none"
      BY <1>7 DEF TaskEnds, StackConsistent, TypeOK
  <2>2. /\ UNCHANGED <<step, pred, call, state>>
        /\ \A f \in Fibers : f # currentFiber => task'[f] = task[f]
      BY <1>7 DEF TaskEnds, TypeOK
  <2> QED
      BY <1>1, <2>1, <2>2
\* PushFiber leaves the other fibers as they are.
<1>8. ASSUME NEW f \in Fibers, PushFiber(f)
      PROVE  state'[f] = "Queued" /\ \A g \in Fibers : g # f => state'[g] = state[g]
    BY <1>8 DEF PushFiber, TypeOK
<1>9. ASSUME NEW t \in Tasks, NEW f \in Fibers, NEW g \in Fibers, Waits(f, t), Waits(g, t)
      PROVE  f = g
    BY <1>9 DEF Waits, TasksPlaced, TasksApart
<1>10. ASSUME NEW t \in Tasks, TaskSignals(t) PROVE NoSignalLost'
  <2>1. /\ UNCHANGED <<step, call, task>>
        /\ pred' = [pred EXCEPT ![t] = TRUE]
      BY <1>10 DEF TaskSignals
  <2>2. ASSUME NEW f \in Fibers, call'[f] = "pred", pred'[task'[f]]
        PROVE  state'[f] \in {"Running", "Queued"} \/ Signalled(f)
    <3>1. task[f] \in Tasks /\ call[f] = "pred" /\ task'[f] = task[f]
        BY <2>1, <2>2 DEF StackConsistent
    <3>2. CASE task[f] = t
      <4>1. Waits(f, t)
          BY <3>1, <3>2 DEF Waits
      <4>2. ASSUME NEW g \in Fibers, Waits(g, t), PushFiber(g)
            PROVE  state'[f] = "Queued"
          BY <1>8, <1>9, <4>1, <4>2
      <4>3. ASSUME ~NeedsEnqueue(f), UNCHANGED state
            PROVE  state'[f] \in {"Running", "Queued"}
          BY <4>3 DEF NeedsEnqueue
      <4> QED
          BY <1>10, <4>1, <4>2, <4>3 DEF TaskSignals
    <3>3. CASE task[f] # t
      <4>1. state[f] \in {"Running", "Queued"} \/ Signalled(f)
          BY <2>1, <2>2, <3>1, <3>3 DEF NoSignalLost, TypeOK
      <4>2. state'[f] = state[f] \/ state'[f] = "Queued"
          BY <1>8, <1>10 DEF TaskSignals
      <4> QED
          BY <4>1, <4>2
    <3> QED
        BY <3>2, <3>3
  <2> QED
      BY <2>1, <2>2 DEF NoSignalLost, Signalled
<1>11. ASSUME NEW t \in Tasks, TaskEnqueues(t) \/ SpinSteals(t) PROVE NoSignalLost'
    BY <1>2, <1>11 DEF TaskEnqueues, SpinSteals
<1>12. ASSUME NEW e \in Externals, External(e) PROVE NoSignalLost'
\* The step of e that is replaced was no signal to a fiber, or to one that runs or
\* is queued now.
  <2>1. ASSUME NEW s, step' = [step EXCEPT ![e] = s], UNCHANGED <<pred, call, task>>,
               \A f \in Fibers : state'[f] = state[f] \/ state'[f] = "Queued",
               \/ step[e].at # "signal"
               \/ state'[step[e].fiber] \in {"Running", "Queued"}
        PROVE  NoSignalLost'
    <3> SUFFICES ASSUME NEW f \in Fibers, call'[f] = "pred", pred'[task'[f]],
                        state'[f] \notin {"Running", "Queued"}
                 PROVE  Signalled(f)'
        BY DEF NoSignalLost
    <3>1. PICK d \in Externals : step[d].at = "signal" /\ step[d].fiber = f
        BY <2>1 DEF NoSignalLost, Signalled
    <3>2. d # e
        BY <2>1, <3>1
    <3>3. step'[d] = step[d]
        BY <2>1, <3>2 DEF TypeOK
    <3> QED
        BY <3>1, <3>3 DEF Signalled
  <2>2. Idling.at # "signal"
      BY DEF Idling
  <2>3. ASSUME Notifies(e)
        PROVE  \E s : step' = [step EXCEPT ![e] = s]
      BY <2>3 DEF Notifies
  <2>4. ASSUME NEW t \in Tasks, Enqueue(e, t) PROVE NoSignalLost'
      BY <2>1, <2>2, <2>3, <2>4 DEF Enqueue
  <2>5. CASE NotifyAdded(e)
      BY <2>1, <2>5 DEF NotifyAdded
  <2>6. CASE Steal(e)
      BY <1>2, <2>6 DEF Steal
  <2>7. ASSUME NEW f \in Fibers, EnqueueFiber(e, f), step[e].at # "signal" \/ step[e].fiber = f
        PROVE  NoSignalLost'
    <3>1. UNCHANGED <<pred, call, task>>
        BY <2>7 DEF EnqueueFiber
    <3>2. CASE NeedsEnqueue(f)
        BY <1>8, <2>1, <2>3, <2>7, <3>1, <3>2 DEF EnqueueFiber
    <3>3. CASE ~NeedsEnqueue(f)
      <4>1. state[f] \in {"Running", "Queued"} /\ UNCHANGED state
            /\ step' = [step EXCEPT ![e] = Idling]
          BY <2>7, <3>3 DEF EnqueueFiber, NeedsEnqueue
      <4> QED
          BY <2>1, <2>7, <3>1, <4>1
    <3> QED
        BY <3>2, <3>3
  <2>8. CASE SignalNotifies(e)
      BY <2>7, <2>8 DEF SignalNotifies, Steps, TypeOK
  <2>9. ASSUME NEW f \in Fibers, NotifyBare(e, f) PROVE NoSignalLost'
      BY <2>2, <2>7, <2>9 DEF NotifyBare
  <2>10. ASSUME NEW t \in Tasks, Signal(e, t) PROVE NoSignalLost'
    <3>1. /\ UNCHANGED <<call, task, state>> /\ pred' = [pred EXCEPT ![t] = TRUE]
          /\ step[e] = Idling
        BY <2>10 DEF Signal
    <3> SUFFICES ASSUME NEW f \in Fibers, call'[f] = "pred", pred'[task'[f]],
                        state'[f] \notin {"Running", "Queued"}
                 PROVE  Signalled(f)'
        BY DEF NoSignalLost
    <3>2. task[f] \in Tasks /\ call[f] = "pred" /\ task'[f] = task[f]
        BY <3>1 DEF StackConsistent
    <3>3. CASE task[f] = t
      <4>1. Waits(f, t)
          BY <3>2, <3>3 DEF Waits
      <4>2. step' = [step EXCEPT ![e] = [at |-> "signal", fiber |-> f]]
          BY <1>9, <2>10, <4>1 DEF Signal
      <4>3. step'[e] = [at |-> "signal", fiber |-> f]
          BY <4>2 DEF TypeOK
      <4> QED
          BY <4>3 DEF Signalled
    <3>4. CASE task[f] # t
      <4>1. PICK d \in Externals : step[d].at = "signal" /\ step[d].fiber = f
          BY <3>1, <3>2, <3>4 DEF NoSignalLost, Signalled, TypeOK
      <4>2. d # e
          BY <2>2, <3>1, <4>1
      <4>3. step'[d] = step[d]
          BY <2>10, <4>2 DEF Signal, TypeOK
      <4> QED
          BY <4>1, <4>3 DEF Signalled
    <3> QED
        BY <3>3, <3>4
  <2> QED
      BY <1>12, <2>4, <2>5, <2>6, <2>8, <2>9, <2>10 DEF External
<1>13. CASE Tick \/ UNCHANGED vars
    BY <1>2, <1>13 DEF Tick, vars
<1> QED
    BY <1>4, <1>5, <1>6, <1>7, <1>10, <1>11, <1>12, <1>13 DEF Next, Task, Terminated

-----------------------------------------------------------------------------
(* The timers: Worker implements FiberTimeouts. *)

\* The operators of the container, as Timeouts sees them.
LEMMA SameContainer ==
    /\ Timeouts!NoTime = NoTime /\ Timeouts!Time = Time /\ Timeouts!none = none
    /\ \A w, f : Timeouts!contains(w, f) = contains(w, f)
    /\ \A w, f : Timeouts!erase(w, f) = erase(w, f)
    /\ \A w, tp, f : Timeouts!add(w, tp, f) = add(w, tp, f)
    /\ \A w, t : Timeouts!afterTake(w, t) = afterTake(w, t)
    /\ \A w, t, n : Timeouts!canTake(w, t, n) = canTake(w, t, n)
    /\ \A tp, f : Timeouts!Timeout(tp, f) = Timeout(tp, f)
    BY DEF Timeouts!NoTime, NoTime, Timeouts!Time, Time, Timeouts!none, none,
       Timeouts!contains, contains, Timeouts!erase, erase, Timeouts!add, add,
       Timeouts!afterTake, afterTake, Timeouts!canTake, canTake, Timeouts!isWaiting,
       isWaiting, Timeouts!isBegin, isBegin, Timeouts!Less, Less, Timeouts!Timeout, Timeout

\* Who is due, and under which deadline the others wait.
WhoIsDue ==
    /\ \A f \in Fibers : f \in Due <=> f \in Elements(fibers)
                                       \/ (f = currentFiber /\ pc[f] = "blocked")
    /\ Due \subseteq Fibers
    /\ Deadlines = [f \in Fibers |-> IF state[f] = "Waiting" /\ f \notin Due
                                     THEN timeout[f] ELSE NoTime]

LEMMA DueIs == WhoIsDue /\ WhoIsDue'
    BY DEF WhoIsDue, Due, Deadlines, Queued, Elements, At

\* A step after which everybody waits as before.
LEMMA TimersStutter ==
    ASSUME UNCHANGED <<waiting, now>>, Due' = Due,
           \A f \in Fibers : f \notin Due =>
               /\ state'[f] = "Waiting" <=> state[f] = "Waiting"
               /\ state[f] = "Waiting" => timeout'[f] = timeout[f]
    PROVE  UNCHANGED Timeouts!vars
<1>1. Deadlines' = Deadlines
    BY DueIs DEF WhoIsDue
<1> QED
    BY <1>1 DEF Timeouts!vars

\* A step that leaves the queue, the current fiber and whether it blocks alone.
LEMMA DueKept ==
    ASSUME UNCHANGED <<fibers, currentFiber>>,
           pc'[currentFiber] = "blocked" <=> pc[currentFiber] = "blocked"
    PROVE  Due' = Due
    BY DEF Due, Queued, At

\* The thread is switched from a fiber that does not block to the fiber g.
LEMMA TimersSwitch ==
    ASSUME NEW g \in Fibers, currentFiber' = g, pc[currentFiber] # "blocked",
           UNCHANGED <<waiting, now, timeout>>,
           \A f \in Fibers : state'[f] = "Waiting" <=> state[f] = "Waiting",
           Elements(fibers') \subseteq Elements(fibers),
           Elements(fibers) \subseteq Elements(fibers') \cup {g},
           pc'[g] # "blocked" => state[g] # "Waiting"
    PROVE  [Timeouts!Next]_(Timeouts!vars)
<1>1. \A f \in Fibers : f \in Due <=> f \in Elements(fibers)
    BY DueIs DEF WhoIsDue
<1>2. \A f \in Fibers : f \in Due' <=> f \in Elements(fibers') \/ (f = g /\ pc'[g] = "blocked")
    BY DueIs DEF WhoIsDue
<1>3. Due \subseteq Fibers /\ Due' \subseteq Fibers
    BY DueIs DEF WhoIsDue
<1>4. CASE pc'[g] = "blocked"
  <2>1. Due' = Due \cup {g}
      BY <1>1, <1>2, <1>3, <1>4
  <2>2. Deadlines' = [Deadlines EXCEPT ![g] = NoTime]
      BY <2>1, DueIs DEF WhoIsDue
  <2>3. Timeouts!Wake(g)
      BY <2>1, <2>2, SameContainer DEF Timeouts!Wake, Timeouts!BecomesDue
  <2> QED
      BY <2>3 DEF Timeouts!Next
<1>5. CASE pc'[g] # "blocked"
  <2>1. Due' = Due \/ Due' = Due \ {g}
      BY <1>1, <1>2, <1>3, <1>5
  <2>2. Deadlines' = Deadlines
      BY <2>1, <1>5, DueIs DEF WhoIsDue
  <2>3. Timeouts!Resume(g) \/ UNCHANGED Timeouts!vars
      BY <2>1, <2>2 DEF Timeouts!Resume, Timeouts!vars
  <2> QED
      BY <2>3 DEF Timeouts!Next
<1> QED
    BY <1>4, <1>5

\* enqueue(fiber) is Notify for a fiber that waits with a timeout, else Wake.
LEMMA TimersPush ==
    ASSUME TypeOK, NEW f \in Fibers, PushFiber(f),
           UNCHANGED <<now, timeout, pc, currentFiber>>
    PROVE  [Timeouts!Next]_(Timeouts!vars)
<1>1. Elements(fibers') = Elements(fibers) \cup {f}
    BY AppendElements DEF PushFiber, TypeOK
<1>2. Due' = Due \cup {f}
    BY <1>1, DueIs DEF WhoIsDue
<1>3. /\ state'[f] = "Queued" /\ \A g \in Fibers : g # f => state'[g] = state[g]
    BY DEF PushFiber, TypeOK
<1>4. Deadlines' = [Deadlines EXCEPT ![f] = NoTime]
    BY <1>2, <1>3, DueIs DEF WhoIsDue
<1>5. waiting' = erase(waiting, f) \/ UNCHANGED waiting
    BY DEF PushFiber
<1>6. Timeouts!Notify(f) \/ Timeouts!Wake(f)
    BY <1>2, <1>4, <1>5, SameContainer
    DEF Timeouts!Notify, Timeouts!Wake, Timeouts!BecomesDue
<1> QED
    BY <1>6 DEF Timeouts!Next

\* suspend(timeout) by the current fiber, which runs.
LEMMA TimersSuspend ==
    ASSUME TypeOK, NEW tp \in Time \cup {NoTime}, Suspend(tp),
           state[currentFiber] = "Running", pc[currentFiber] # "blocked",
           timeout'[currentFiber] = tp,
           \A f \in Fibers : f # currentFiber => timeout'[f] = timeout[f],
           UNCHANGED <<now, fibers, currentFiber>>
    PROVE  [Timeouts!Next]_(Timeouts!vars)
<1> DEFINE c == currentFiber
<1>1. c \in Fibers /\ pc'[c] = "waitForWork"
    BY DEF Suspend, Goto, TypeOK
<1>2. Due' = Due
    BY <1>1, DueKept
<1>3. /\ state'[c] = (IF tp = NoTime THEN "Yielded" ELSE "Waiting")
      /\ \A f \in Fibers : f # c => state'[f] = state[f]
    BY <1>1 DEF Suspend, TypeOK
<1>4. Deadlines[c] = NoTime
    BY <1>1, DueIs DEF WhoIsDue
<1>5. CASE tp = NoTime
  <2>1. Deadlines' = Deadlines
      BY <1>2, <1>3, <1>5, DueIs DEF WhoIsDue
  <2> QED
      BY <1>2, <1>5, <2>1 DEF Timeouts!vars, Suspend
<1>6. CASE tp # NoTime
  <2>1. Deadlines' = IF c \in Due THEN Deadlines ELSE [Deadlines EXCEPT ![c] = tp]
      BY <1>1, <1>2, <1>3, <1>6, DueIs DEF WhoIsDue
  <2>2. waiting' = add(waiting, tp, c) /\ tp \in Time
      BY <1>6 DEF Suspend
  <2>3. Timeouts!Suspend(c, tp)
      BY <1>2, <1>4, <2>1, <2>2, SameContainer DEF Timeouts!Suspend
  <2> QED
      BY <1>1, <2>2, <2>3, SameContainer DEF Timeouts!Next
<1> QED
    BY <1>5, <1>6

\* Every step of a worker is a step of FiberTimeouts, or leaves it alone.
LEMMA TimersStep ==
    ASSUME IInv, CallPlaces, StatePlaces, Born, Ending, Exited, [Next]_vars
    PROVE  [Timeouts!Next]_(Timeouts!vars)
<1>0. TypeOK /\ StackConsistent /\ Parked /\ currentFiber \in Fibers
    BY DEF IInv, TypeOK
<1> DEFINE Goal == [Timeouts!Next]_(Timeouts!vars)
           c == currentFiber
<1> USE <1>0 DEF pool, stack, queues, history, At
\* A step inside the stack of the current fiber.
<1>1. ASSUME UNCHANGED <<waiting, now, fibers, currentFiber, state>>,
             pc'[c] = "blocked" <=> pc[c] = "blocked",
             \A f \in Fibers : state[f] = "Waiting" => timeout'[f] = timeout[f]
      PROVE  Goal
    BY <1>1, DueKept, TimersStutter
<1>2. ASSUME UNCHANGED <<waiting, now, fibers, currentFiber, state, pc, timeout>>
      PROVE  Goal
    BY <1>1, <1>2
<1>3. ASSUME NEW l, Goto(l), l # "blocked", pc[c] # "blocked",
             UNCHANGED <<waiting, now, fibers, currentFiber, state, timeout>>
      PROVE  Goal
    BY <1>1, <1>3 DEF Goto, TypeOK
\* wait() returns to the task.
<1>4. ASSUME Returns, state[c] # "Waiting", pc[c] # "blocked",
             UNCHANGED <<waiting, now, fibers, currentFiber, state>>
      PROVE  Goal
    BY <1>1, <1>4 DEF Returns, Goto, TypeOK
<1>5. ASSUME NEW f \in Fibers, state[f] = "Waiting"
      PROVE  pc[f] \in Inside /\ (f # c => pc[f] = "blocked")
    BY <1>5 DEF StatePlaces, Suspended, Parked, Inside
<1>6. CASE Loop
  <2>1. ASSUME NEW t \in waiting.timeouts, TakeTimeout(t) PROVE Goal
    <3>1. t.fiber \in Fibers
        BY TakeType DEF TypeOK
    <3>2. Elements(fibers') = Elements(fibers) \cup {t.fiber}
        BY <2>1, <3>1, AppendElements DEF TakeTimeout, TypeOK
    <3>3. UNCHANGED <<state, timeout, pc, currentFiber, now>>
        BY <2>1 DEF TakeTimeout
    <3>4. Due' = Due \cup {t.fiber}
        BY <3>1, <3>2, <3>3, DueIs DEF WhoIsDue
    <3>5. Deadlines' = [Deadlines EXCEPT ![t.fiber] = NoTime]
        BY <3>3, <3>4, DueIs DEF WhoIsDue
    <3>6. waiting' = afterTake(waiting, t) /\ canTake(waiting, t, now)
        BY <2>1 DEF TakeTimeout
    <3>7. Timeouts!TakeExpired(t)
        BY <3>3, <3>4, <3>5, <3>6, SameContainer DEF Timeouts!TakeExpired, Timeouts!BecomesDue
    <3> QED
        BY <3>7 DEF Timeouts!Next
  <2>2. CASE Start \/ KeepRunning \/ SpinEnd \/ RunUntilIdleEnd \/ RunTask
      BY <1>3, <2>2 DEF Start, KeepRunning, SpinEnd, RunUntilIdleEnd, RunTask
  <2>3. CASE WaitForWork \/ TimeoutsEnd
      BY <1>3, <2>3 DEF WaitForWork, TimeoutsEnd, AfterWaitForWork
  <2>4. CASE RunWait \/ RunWake \/ ThreadWait \/ ThreadWake \/ ThreadTimeOut
      BY <1>3, <2>4 DEF RunWait, RunWake, ThreadWait, ThreadWake, ThreadTimeOut, WorkWait,
         WakeUp, FallAsleep
  <2>5. CASE LeaveRun
    <3>1. CASE c = Main
        BY <1>3, <2>5, <3>1 DEF LeaveRun
    <3>2. CASE c # Main
      <4>1. Main \in Fibers /\ pc[Main] = "switched"
          BY <2>5, <3>2, LeaveTarget, WorkerAssumption DEF Main
      <4>2. state[Main] # "Waiting"
          BY <1>5, <4>1 DEF Inside
      <4>3. /\ currentFiber' = Main /\ pc[c] # "blocked"
            /\ UNCHANGED <<waiting, now, timeout, state, fibers>>
          BY <2>5, <3>2 DEF LeaveRun
      <4> QED
          BY <4>1, <4>2, <4>3, TimersSwitch
    <3> QED
        BY <3>1, <3>2
  <2>6. CASE RunFiber
    <3>1. Head(fibers) \in Fibers /\ Elements(fibers) = Elements(fibers') \cup {Head(fibers)}
        BY <2>6, TailElements DEF RunFiber, TypeOK
    <3>2. /\ currentFiber' = Head(fibers) /\ pc[c] = "runUntilIdle"
          /\ pc' = [pc EXCEPT ![c] = "switched"]
          /\ state' = [state EXCEPT ![c] = "Idle"]
          /\ UNCHANGED <<waiting, now, timeout>>
        BY <2>6 DEF RunFiber, Goto
    <3>3. state[c] # "Waiting"
        BY <1>5, <3>2 DEF Inside
    <3>4. \A f \in Fibers : state'[f] = "Waiting" <=> state[f] = "Waiting"
        BY <3>2, <3>3 DEF TypeOK
    <3>5. pc'[Head(fibers)] # "blocked" => state[Head(fibers)] # "Waiting"
        BY <1>5, <3>1, <3>2, <3>3 DEF TypeOK
    <3> QED
        BY <3>1, <3>2, <3>4, <3>5, TimersSwitch
  <2>7. CASE ResumeIdle
    <3>1. state[c] # "Waiting" /\ UNCHANGED <<waiting, now, fibers, currentFiber, timeout>>
        BY <1>5, <2>7 DEF ResumeIdle, Inside
    <3>2. Due' = Due
        BY <2>7, <3>1, DueKept DEF ResumeIdle, Goto, TypeOK
    <3>3. \A f \in Fibers : state'[f] = "Waiting" <=> state[f] = "Waiting"
        BY <2>7, <3>1 DEF ResumeIdle, TypeOK
    <3> QED
        BY <3>1, <3>2, <3>3, TimersStutter
  <2>8. CASE SwitchAway
    <3>0. UNCHANGED <<waiting, now, timeout, state>> /\ pc[c] = "suspend"
        BY <2>8 DEF SwitchAway
    <3>1. ASSUME NEW g \in Fibers, currentFiber' = g, Goto("blocked"),
                 Elements(fibers') \subseteq Elements(fibers),
                 Elements(fibers) \subseteq Elements(fibers') \cup {g}
          PROVE  Goal
      <4>1. pc'[g] # "blocked" => state[g] # "Waiting"
          BY <1>5, <3>1 DEF Goto, TypeOK
      <4> QED
          BY <3>0, <3>1, <4>1, TimersSwitch
    <3>2. CASE SwitchToQueued
      <4>1. Head(fibers) \in Fibers /\ Elements(fibers) = Elements(fibers') \cup {Head(fibers)}
          BY <3>2, TailElements DEF SwitchToQueued, TypeOK
      <4> QED
          BY <3>1, <3>2, <4>1 DEF SwitchToQueued
    <3>3. CASE SwitchToIdle
        BY <3>1, <3>3 DEF SwitchToIdle, TypeOK
    <3>4. CASE SwitchToNew
      <4>1. workerFibers + 1 \in Fibers /\ state[workerFibers + 1] = "Running"
          BY <3>4, NewFiber
      <4> QED
          BY <3>0, <3>4, <4>1, TimersSwitch DEF SwitchToNew
    <3> QED
        BY <2>8, <3>2, <3>3, <3>4 DEF SwitchAway
  <2>9. CASE Resume
    <3>1. /\ pc[c] = "blocked" /\ pc'[c] # "blocked"
          /\ state' = [state EXCEPT ![c] = "Running"]
          /\ UNCHANGED <<waiting, now, fibers, currentFiber>>
          /\ \A f \in Fibers : f # c => timeout'[f] = timeout[f]
        BY <2>9 DEF Resume, Unblock, Returns, Goto, TypeOK
    <3>2. Due' = Due \/ Due' = Due \ {c}
        BY <3>1, DueIs DEF WhoIsDue
    <3>3. c \in Due
        BY <3>1, DueIs DEF WhoIsDue
    <3>4. Deadlines' = Deadlines
        BY <3>1, <3>2, <3>3, DueIs DEF WhoIsDue, TypeOK
    <3>5. Timeouts!Resume(c) \/ UNCHANGED Timeouts!vars
        BY <3>1, <3>2, <3>4 DEF Timeouts!Resume, Timeouts!vars
    <3> QED
        BY <3>5 DEF Timeouts!Next
  <2>10. CASE Relock \/ WaitPred
    <3>1. pc[c] \in {"relock", "wait"} /\ UNCHANGED <<now, fibers, currentFiber>>
        BY <2>10 DEF Relock, WaitPred
    <3>2. call[c] # "none" /\ state[c] = "Running"
        BY <3>1 DEF CallPlaces, StatePlaces, Suspended, Inside
    <3>3. ASSUME Suspend(timeout[c]), UNCHANGED stack PROVE Goal
      <4>1. timeout[c] \in Time \cup {NoTime}
          BY DEF TypeOK
      <4> QED
          BY <3>1, <3>2, <3>3, <4>1, TimersSuspend
    <3>4. ASSUME Returns, UNCHANGED <<state, waiting>> PROVE Goal
        BY <1>4, <3>1, <3>2, <3>4
    <3>5. ASSUME Goto("wait"), UNCHANGED <<stack, state, waiting>> PROVE Goal
        BY <1>3, <3>1, <3>5
    <3> QED
        BY <2>10, <3>3, <3>4, <3>5 DEF Relock, WaitPred
  <2> QED
      BY <1>6, <2>1, <2>2, <2>3, <2>4, <2>5, <2>6, <2>7, <2>8, <2>9, <2>10 DEF Loop
<1>7. ASSUME NEW tp \in TimePoints \cup {NoTime}, WaitCall(tp) \/ WaitBare(tp) PROVE Goal
  <2>1. /\ pc[c] = "task" /\ tp \in Time \cup {NoTime} /\ timeout'[c] = tp
        /\ \A f \in Fibers : f # c => timeout'[f] = timeout[f]
        /\ UNCHANGED <<now, fibers, currentFiber>>
      BY <1>7, WorkerAssumption DEF WaitCall, WaitBare, Calls, TypeOK
  <2>2. state[c] = "Running"
      BY <2>1 DEF StatePlaces, Suspended, Inside
  <2>3. CASE WaitBare(tp)
      BY <2>1, <2>2, <2>3, TimersSuspend DEF WaitBare
  <2>4. CASE WaitCall(tp)
      BY <1>1, <2>1, <2>2, <2>4 DEF WaitCall, Goto, TypeOK
  <2> QED
      BY <1>7, <2>3, <2>4
<1>8. ASSUME NEW t \in Tasks, TaskEnds \/ SpinSteals(t) PROVE Goal
    BY <1>3, <1>8 DEF TaskEnds, SpinSteals
<1>9. ASSUME NEW t \in Tasks, TaskEnqueues(t) \/ TaskSignals(t) PROVE Goal
    BY <1>2, <1>9, TimersPush DEF TaskEnqueues, TaskSignals
<1>10. ASSUME NEW e \in Externals, External(e) PROVE Goal
  <2>1. ASSUME NEW f \in Fibers, EnqueueFiber(e, f) PROVE Goal
      BY <1>2, <2>1, TimersPush DEF EnqueueFiber
  <2>2. CASE SignalNotifies(e)
      BY <2>1, <2>2 DEF SignalNotifies, Steps, TypeOK
  <2> QED
      BY <1>2, <1>10, <2>1, <2>2 DEF External, Enqueue, Signal, Steal, NotifyAdded, NotifyBare
<1>11. CASE Tick
  <2>1. UNCHANGED <<waiting, fibers, currentFiber, pc, state, timeout>>
        /\ now < MaxTime /\ now' = now + 1
      BY <1>11 DEF Tick
  <2>2. Due' = Due /\ Deadlines' = Deadlines
      BY <2>1, DueKept, DueIs DEF WhoIsDue
  <2>3. Timeouts!Tick
      BY <2>1, <2>2 DEF Timeouts!Tick
  <2> QED
      BY <2>3 DEF Timeouts!Next
<1>12. CASE UNCHANGED vars
    BY <1>2, <1>12 DEF vars
<1> QED
    BY <1>6, <1>7, <1>8, <1>9, <1>10, <1>11, <1>12, WorkerAssumption
    DEF Next, Task, Terminated

LEMMA TimersInit == Init => Timeouts!Init
<1> SUFFICES ASSUME Init PROVE Timeouts!Init
    OBVIOUS
<1>1. /\ waiting = none /\ now = 0 /\ fibers = <<>>
      /\ \A f \in Fibers : pc[f] # "blocked" /\ state[f] = "Running"
    BY DEF Init
<1>2. Elements(fibers) = {}
    BY <1>1 DEF Elements
<1>3. Due = {}
    BY <1>1, <1>2, DueIs DEF WhoIsDue
<1>4. Deadlines = [f \in Fibers |-> NoTime]
    BY <1>1, DueIs DEF WhoIsDue
<1> QED
    BY <1>1, <1>3, <1>4, SameContainer DEF Timeouts!Init

\* NoTimerLost in the words of the container, before and after a step.
TimersSet ==
    \A f \in Fibers : Deadlines[f] # NoTime =>
        Timeout(Deadlines[f], f) \in waiting.timeouts /\ contains(waiting, f)

LEMMA TimersSetIs == (NoTimerLost <=> TimersSet) /\ (NoTimerLost <=> TimersSet)'
    BY DEF NoTimerLost, Timeouts!NoTimerLost, TimersSet, Timeouts!NoTime, NoTime,
       Timeouts!contains, contains, Timeouts!Timeout, Timeout

LEMMA TimersKeptStep ==
    ASSUME waiting \in Containers, TimersSet, [Timeouts!Next]_(Timeouts!vars)
    PROVE  TimersSet'
<1> SUFFICES ASSUME NEW g \in Fibers, Deadlines'[g] # NoTime
             PROVE  /\ Timeout(Deadlines'[g], g) \in waiting'.timeouts
                    /\ contains(waiting', g)
    BY DEF TimersSet
<1> DEFINE Goal == /\ Timeout(Deadlines'[g], g) \in waiting'.timeouts
                   /\ contains(waiting', g)
<1>0. /\ Deadlines[g] # NoTime =>
             Timeout(Deadlines[g], g) \in waiting.timeouts /\ contains(waiting, g)
      /\ DOMAIN Deadlines = Fibers
    BY DEF TimersSet, Deadlines
<1> HIDE DEF Deadlines, Due
<1>1. ASSUME NEW f \in Fibers, NEW tp \in Time, Timeouts!Suspend(f, tp) PROVE Goal
  <2>1. /\ waiting' = add(waiting, tp, f)
        /\ Deadlines' = Deadlines \/ Deadlines' = [Deadlines EXCEPT ![f] = tp]
      BY <1>1, SameContainer DEF Timeouts!Suspend
  <2>2. tp # NoTime
      BY DEF Time, NoTime
  <2>3. CASE Deadlines'[g] = tp /\ g = f
      BY <2>1, <2>2, <2>3 DEF add, Containers, contains
  <2>4. CASE Deadlines'[g] = Deadlines[g]
      BY <1>0, <2>1, <2>4 DEF add, Containers, contains
  <2> QED
      BY <1>0, <2>1, <2>3, <2>4
<1>2. ASSUME NEW f \in Fibers, Timeouts!BecomesDue(f)
      PROVE  g # f /\ Deadlines'[g] = Deadlines[g]
    BY <1>0, <1>2, SameContainer DEF Timeouts!BecomesDue
<1>3. ASSUME NEW f \in Fibers, Timeouts!Notify(f) PROVE Goal
  <2>1. waiting' = erase(waiting, f) /\ g # f /\ Deadlines'[g] = Deadlines[g]
      BY <1>2, <1>3, SameContainer DEF Timeouts!Notify
  <2>2. \A tp : Timeout(tp, f) # Timeout(Deadlines[g], g)
      BY <2>1 DEF Timeout
  <2> QED
      BY <1>0, <2>1, <2>2 DEF erase, Containers, contains
<1>4. ASSUME NEW t \in waiting.timeouts, Timeouts!TakeExpired(t) PROVE Goal
  <2>1. t.fiber \in Fibers
      BY TakeType
  <2>2. waiting' = afterTake(waiting, t) /\ g # t.fiber /\ Deadlines'[g] = Deadlines[g]
      BY <1>2, <1>4, <2>1, SameContainer DEF Timeouts!TakeExpired
  <2> QED
      BY <1>0, <2>2 DEF afterTake, Containers, contains
<1>5. ASSUME NEW f \in Fibers, Timeouts!Wake(f) \/ Timeouts!Resume(f) PROVE Goal
    BY <1>0, <1>2, <1>5 DEF Timeouts!Wake, Timeouts!Resume
<1>6. CASE Timeouts!Tick \/ UNCHANGED Timeouts!vars
    BY <1>0, <1>6 DEF Timeouts!Tick, Timeouts!vars
<1> QED
    BY <1>1, <1>3, <1>4, <1>5, <1>6, SameContainer DEF Timeouts!Next

-----------------------------------------------------------------------------
(* The sleep until the first timeout. *)

\* While the thread sleeps for the loop of a fiber, a fiber that waits with a
\* timeout is not queued: the thread would have seen it before it fell asleep.
SleepOverNobody ==
    At("workSleep") => \A f \in Elements(fibers) : state[f] # "Waiting"

\* The thread gets to that sleep by ThreadWait only, and does not leave it by a
\* step of the clock or of another thread.
LEMMA OnlyThreadWaitSleeps ==
    ASSUME IInv, [Next]_vars, pc'[currentFiber'] = "workSleep"
    PROVE  \/ ThreadWait
           \/ /\ At("workSleep")
              /\ \/ \E e \in Externals : External(e)
                 \/ Tick
                 \/ UNCHANGED vars
<1>0. TypeOK /\ Parked
    BY DEF IInv
<1> USE <1>0 DEF pool, At
<1>1. ASSUME NEW l, Goto(l), UNCHANGED currentFiber PROVE l = "workSleep"
    BY <1>1 DEF Goto, TypeOK
<1>2. ASSUME NEW g \in Fibers, currentFiber' = g, pc'[g] = pc[g] PROVE pc[g] = "workSleep"
    BY <1>2
<1>3. CASE Loop
  <2>1. ASSUME NEW t \in waiting.timeouts, TakeTimeout(t) PROVE FALSE
      BY <1>0, <2>1 DEF TakeTimeout
  <2>2. CASE \/ Start \/ KeepRunning \/ SpinEnd \/ RunTask \/ RunUntilIdleEnd \/ ResumeIdle
             \/ WaitForWork \/ TimeoutsEnd
      BY <1>1, <2>2 DEF Start, KeepRunning, SpinEnd, RunTask, RunUntilIdleEnd, ResumeIdle,
         WaitForWork, TimeoutsEnd, AfterWaitForWork
  <2>3. CASE RunWait \/ RunWake \/ ThreadWake \/ ThreadTimeOut
      BY <1>1, <2>3 DEF RunWait, RunWake, ThreadWake, ThreadTimeOut, WorkWait, WakeUp,
         FallAsleep
  <2>4. CASE Resume \/ Relock \/ WaitPred
      BY <1>1, <2>4 DEF Resume, Relock, WaitPred, Returns, Suspend
  <2>5. CASE RunFiber
    <3>1. Head(fibers) \in Fibers
        BY <2>5, HeadFiber DEF RunFiber
    <3> QED
        BY <2>5, <3>1 DEF RunFiber, Goto, Parked, TypeOK
  <2>6. CASE LeaveRun
      BY <2>6, WorkerAssumption DEF LeaveRun, Goto, Parked, TypeOK, Main
  <2>7. CASE SwitchAway
    <3>1. CASE SwitchToQueued
        BY <3>1, HeadFiber DEF SwitchToQueued, Goto, Parked, TypeOK
    <3>2. CASE SwitchToIdle
        BY <3>2 DEF SwitchToIdle, Goto, Parked, TypeOK
    <3>3. CASE SwitchToNew
        BY <3>3, NewFiber DEF SwitchToNew, TypeOK
    <3> QED
        BY <2>7, <3>1, <3>2, <3>3 DEF SwitchAway
  <2> QED
      BY <1>3, <2>1, <2>2, <2>3, <2>4, <2>5, <2>6, <2>7 DEF Loop
<1>4. ASSUME NEW tp, WaitCall(tp) \/ WaitBare(tp) \/ TaskEnds PROVE FALSE
    BY <1>1, <1>4 DEF WaitCall, WaitBare, Suspend, TaskEnds
<1>5. ASSUME NEW t \in Tasks, TaskEnqueues(t) \/ TaskSignals(t) \/ SpinSteals(t) PROVE FALSE
    BY <1>1, <1>5 DEF TaskEnqueues, TaskSignals, SpinSteals
<1>6. ASSUME \/ \E e \in Externals : External(e)
             \/ Tick
             \/ UNCHANGED vars
      PROVE  At("workSleep")
    BY <1>6, OthersLeaveStacks DEF Stacks
<1> QED
    BY <1>3, <1>4, <1>5, <1>6 DEF Next, Task, Terminated

LEMMA SleepStep ==
    ASSUME IInv, StatePlaces, TimersSet, SleepOverNobody, NoOversleep, [Next]_vars
    PROVE  SleepOverNobody' /\ NoOversleep'
<1>0. TypeOK /\ NumConsistent
    BY DEF IInv
<1> USE <1>0
<1> SUFFICES ASSUME pc'[currentFiber'] = "workSleep"
             PROVE  SleepOverNobody' /\ NoOversleep'
    BY DEF SleepOverNobody, NoOversleep, At
<1>1. CASE ThreadWait
  <2>1. num = 0 /\ FallAsleep("workSleep") /\ At("workWait")
        /\ UNCHANGED <<fibers, state, timeout, waiting, currentFiber>>
    <3>1. ~WorkPredicate
        BY <1>1, <1>0 DEF ThreadWait, WorkWait, Goto, pool, TypeOK
    <3> QED
        BY <1>1, <3>1 DEF ThreadWait, WorkWait, WorkPredicate, queues, stack, pool, TypeOK
  <2>2. fibers = <<>> /\ Elements(fibers) = {}
      BY <2>1 DEF NumConsistent, TypeOK, Elements
  <2>3. ASSUME NEW f \in Fibers, state[f] = "Waiting"
        PROVE  sleepUntil' # NoTime /\ sleepUntil' <= timeout[f]
    <3> DEFINE u == Timeout(timeout[f], f)
    <3>1. f \notin Due
        BY <2>1, <2>2, DueIs DEF WhoIsDue, At
    <3>2. Deadlines[f] = timeout[f] /\ timeout[f] \in Time
        BY <2>3, <3>1, DueIs DEF WhoIsDue, StatePlaces, TypeOK
    <3>3. timeout[f] # NoTime
        BY <3>2 DEF Time, NoTime
    <3>4. u \in waiting.timeouts /\ contains(waiting, f) /\ u.timepoint = timeout[f]
        BY <3>2, <3>3 DEF TimersSet, Timeout
    <3>5. isWaiting(waiting) /\ ~isUndefined(waiting)
        BY <3>4 DEF isWaiting, isUndefined
    <3>6. PICK t \in waiting.timeouts : isBegin(waiting, t) /\ sleepUntil' = t.timepoint
        BY <2>1, <3>5 DEF FallAsleep
    <3>7. t.timepoint \in Time /\ (t = u \/ Less(t, u))
        BY <3>4, <3>6, TakeType DEF isBegin, TypeOK
    <3> QED
        BY <3>2, <3>4, <3>6, <3>7, ContainerAssumption DEF Less, Time, NoTime
  <2> QED
      BY <2>1, <2>2, <2>3 DEF SleepOverNobody, NoOversleep
<1>2. CASE /\ At("workSleep")
           /\ \/ \E e \in Externals : External(e)
              \/ Tick
              \/ UNCHANGED vars
  <2>1. UNCHANGED <<sleepUntil, timeout>>
      BY <1>2 DEF External, Enqueue, Signal, Steal, NotifyAdded, SignalNotifies, NotifyBare,
         EnqueueFiber, Tick, vars, sleep, stack
  <2>2. \/ UNCHANGED <<fibers, state>>
        \/ \E f \in Fibers : PushFiber(f)
      BY <1>2 DEF External, Enqueue, Signal, Steal, NotifyAdded, SignalNotifies, NotifyBare,
         EnqueueFiber, Tick, vars, queues, Steps, TypeOK
  <2>3. ASSUME NEW f \in Fibers, PushFiber(f)
        PROVE  /\ Elements(fibers') = Elements(fibers) \cup {f}
               /\ state'[f] = "Queued" /\ \A g \in Fibers : g # f => state'[g] = state[g]
      BY <2>3, AppendElements DEF PushFiber, TypeOK
  <2>4. Elements(fibers) \subseteq Fibers
      BY DEF Elements, TypeOK
  <2>5. \A g \in Elements(fibers') : state'[g] # "Waiting"
      BY <1>2, <2>2, <2>3, <2>4 DEF SleepOverNobody
  <2>6. \A g \in Fibers : state'[g] = "Waiting" => state[g] = "Waiting"
      BY <2>2, <2>3
  <2> QED
      BY <1>2, <2>1, <2>5, <2>6 DEF SleepOverNobody, NoOversleep
<1> QED
    BY <1>1, <1>2, OnlyThreadWaitSleeps

-----------------------------------------------------------------------------
\* SInv, the inductive invariant of this module.
SInv ==
    /\ IInv
    /\ CallPlaces /\ StatePlaces
    /\ Signals /\ NoSignalLost
    /\ MutexHeld /\ Born /\ IdleKept /\ Ending /\ Exited
    /\ TasksPlaced
    /\ TimersSet /\ SleepOverNobody /\ NoOversleep

LEMMA InitSInv == Init => SInv
<1> SUFFICES ASSUME Init PROVE SInv
    OBVIOUS
<1>1. IInv
    BY InitIInv
<1>2. /\ currentFiber = Main /\ workerFibers = 0 /\ Main \in Fibers
      /\ pc[Main] \in {"start", "task"} /\ \A f \in Fibers \ {Main} : pc[f] = "unborn"
      /\ \A f \in Fibers : state[f] = "Running" /\ call[f] = "none"
      /\ pc[Main] = "task" <=> Mode = "SingleThreaded"
    BY WorkerAssumption DEF Init, Main
<1>3. CallPlaces /\ StatePlaces
    BY <1>2, WorkerAssumption DEF CallPlaces, StatePlaces, Suspended, Inside, Init
<1>4. Signals /\ NoSignalLost
    BY <1>2, WorkerAssumption DEF Signals, NoSignalLost, Init, Idling
<1>5. MutexHeld /\ IdleKept /\ Ending /\ Exited
    BY <1>2 DEF MutexHeld, IdleKept, Ending, Exited, Locked, Init
<1>6. Born
    BY <1>2, WorkerAssumption DEF Born, Main
<1>7. TasksPlaced
  <2>1. Elements(tasks) = {} /\ Distinct(tasks)
      BY DEF Init, Elements, Distinct
  <2> QED
      BY <1>2, <2>1, WorkerAssumption DEF TasksPlaced, TasksApart, TasksKept, Init
<1>8. TimersSet
    BY <1>2, DueIs DEF WhoIsDue, TimersSet
<1>9. SleepOverNobody /\ NoOversleep
    BY <1>2 DEF SleepOverNobody, NoOversleep, At
<1> QED
    BY <1>1, <1>3, <1>4, <1>5, <1>6, <1>7, <1>8, <1>9 DEF SInv

LEMMA StepSInv == SInv /\ [Next]_vars => SInv'
<1> SUFFICES ASSUME SInv, [Next]_vars PROVE SInv'
    OBVIOUS
<1> USE DEF SInv
<1>1. IInv'
    BY TypeStep, NumStep, StackStep, CreatedStep, BlockedStep, ParkedStep, WakeStep DEF IInv
<1>2. CallPlaces' /\ StatePlaces' /\ Signals' /\ NoSignalLost'
    BY CallStep, StateStep, SignalsStep, SignalLostStep
<1>3. MutexHeld' /\ Born' /\ IdleKept' /\ Ending' /\ Exited'
    BY MutexStep, BornStep, IdleStep, EndingStep, ExitedStep
<1>4. TasksPlaced'
    BY PlacedStep
<1>5. TimersSet'
    BY TimersStep, TimersKeptStep DEF IInv, TypeOK
<1>6. SleepOverNobody' /\ NoOversleep'
    BY SleepStep
<1> QED
    BY <1>1, <1>2, <1>3, <1>4, <1>5, <1>6

LEMMA SafetyInductive == Spec => []SInv
    BY InitSInv, StepSInv, PTL DEF Spec

\* wait(lock, timeout, pred) misses no signal: whenever the user's lock is free, a
\* fiber whose condition was made true runs or is queued, timed or not.
THEOREM NoNotificationIsLost == Spec => []NoLostNotification
<1>1. SInv => NoLostNotification
    BY WorkerAssumption
    DEF SInv, IInv, StackConsistent, Signals, NoSignalLost, Signalled, NoLostNotification, Waits
<1> QED
    BY <1>1, SafetyInductive, PTL

\* A worker fiber that leaves run() and switches to mainFiber cuts no task short.
THEOREM MainCanResume == Spec => []MainIsResumable
<1>1. SInv => MainIsResumable
  <2> SUFFICES ASSUME SInv, NEW f \in Fibers, pc[f] = "ended" PROVE task[Main] = NoTask
      BY DEF MainIsResumable
  <2>1. Main \in Fibers
      BY WorkerAssumption DEF Main
  <2>2. pc[Main] \in {"exited", "switched", "runUntilIdle", "runUntilShutdown"}
      BY DEF SInv, Ending
  <2> QED
      BY <2>1, <2>2 DEF SInv, CallPlaces, Inside, IInv, TypeOK
<1> QED
    BY <1>1, SafetyInductive, PTL

\* A worker that stops leaves no queued task, no queued fiber and no task on a
\* stack, and every task it was given is done or was stolen.
THEOREM CleanStop == Spec => []StopsClean
<1>1. SInv => StopsClean
  <2> SUFFICES ASSUME SInv, pc[Main] = "exited" PROVE StopsClean
      BY DEF StopsClean
  <2>1. MayStop /\ \A f \in Fibers : task[f] = NoTask
      BY DEF SInv, Exited
  <2>2. tasks = <<>> /\ fibers = <<>>
      BY <2>1 DEF MayStop, SInv, IInv, NumConsistent, TypeOK
  <2>3. Tasks = fresh \cup done \cup stolen
    <3>1. Elements(tasks) = {}
        BY <2>2 DEF Elements
    <3> QED
        BY <2>1, <3>1, WorkerAssumption DEF SInv, TasksPlaced, TasksKept, IInv, TypeOK
  <2> QED
      BY <2>1, <2>2, <2>3 DEF StopsClean
<1> QED
    BY <1>1, SafetyInductive, PTL

\* A fiber is created by SwitchToNew only.
LEMMA CreationStep ==
    ASSUME [Next]_vars, workerFibers' # workerFibers
    PROVE  SwitchAway /\ SwitchToNew
<1> USE DEF pool
<1>1. ASSUME Loop PROVE SwitchAway /\ SwitchToNew
  <2>1. ASSUME NEW t \in waiting.timeouts PROVE ~TakeTimeout(t)
      BY DEF TakeTimeout
  <2>2. ~(\/ Start \/ KeepRunning \/ SpinEnd \/ RunTask \/ RunUntilIdleEnd \/ ResumeIdle
          \/ WaitForWork \/ TimeoutsEnd \/ RunFiber \/ LeaveRun
          \/ Resume \/ Relock \/ WaitPred)
      BY DEF Start, KeepRunning, SpinEnd, RunTask, RunUntilIdleEnd, ResumeIdle, WaitForWork,
         TimeoutsEnd, RunFiber, LeaveRun, Resume, Relock, WaitPred
  <2>3. ~(RunWait \/ RunWake \/ ThreadWait \/ ThreadWake \/ ThreadTimeOut)
      BY DEF RunWait, RunWake, ThreadWait, ThreadWake, ThreadTimeOut, WorkWait, WakeUp
  <2> QED
      BY <1>1, <2>1, <2>2, <2>3 DEF Loop, SwitchAway, SwitchToQueued, SwitchToIdle
<1>2. ASSUME NEW tp PROVE ~(WaitCall(tp) \/ WaitBare(tp) \/ TaskEnds)
    BY DEF WaitCall, WaitBare, TaskEnds
<1>3. ASSUME NEW t \in Tasks PROVE ~SpinSteals(t)
    BY DEF SpinSteals
<1>4. ~UNCHANGED Stacks
    BY DEF Stacks
<1> QED
    BY <1>1, <1>2, <1>3, <1>4, OthersLeaveStacks DEF Next, Task, Terminated

\* No fiber is created while another one could be resumed: at that moment each
\* fiber there is blocks inside a wait.
THEOREM ReusesFibers == Spec => FibersAreReused
<1>1. SInv /\ [Next]_vars => [workerFibers' # workerFibers =>
                                 \A f \in 0..workerFibers : pc'[f] = "blocked"]_vars
  <2> SUFFICES ASSUME SInv, [Next]_vars, workerFibers' # workerFibers
               PROVE  \A f \in 0..workerFibers : pc'[f] = "blocked"
      OBVIOUS
  <2>1. SwitchAway /\ SwitchToNew
      BY CreationStep DEF SInv
  <2>2. /\ At("suspend") /\ fibers = <<>> /\ idleFibers = {}
        /\ pc' = [pc EXCEPT ![currentFiber] = "blocked",
                            ![workerFibers + 1] = IF Mode = "MultiThreaded" THEN "run"
                                                  ELSE "runUntilShutdown"]
      BY <2>1 DEF SwitchAway, SwitchToNew
  <2>3. ASSUME NEW f \in 0..workerFibers PROVE pc'[f] = "blocked"
    <3>1. f \in Fibers /\ f <= workerFibers /\ f # workerFibers + 1 /\ pc \in [Fibers -> Labels]
        BY DEF SInv, Born, IInv, TypeOK
    <3>2. f # currentFiber => pc[f] \in {"blocked", "switched"}
        BY <2>2, <3>1, SwitchTarget DEF SInv
    <3>3. f # currentFiber => pc[f] # "switched"
        BY <2>2, <3>1 DEF SInv, IdleKept
    <3> QED
        BY <2>2, <3>1, <3>2, <3>3
  <2> QED
      BY <2>3
<1> QED
    BY <1>1, SafetyInductive, PTL DEF Spec, FibersAreReused

\* The container loses no timer of a fiber that waits, however timeouts,
\* notifications and switches reach that fiber.
THEOREM NoTimerIsLost == Spec => []NoTimerLost
    BY SafetyInductive, TimersSetIs, PTL DEF SInv

\* The worker's thread sleeps no longer than until the earliest timeout.
THEOREM NeverOversleeps == Spec => []NoOversleep
    BY SafetyInductive, PTL DEF SInv

\* A worker drives its container in the orders FiberTimeouts allows only.
THEOREM WorkerImplementsFiberTimeouts == Spec => ImplementsFiberTimeouts
<1>1. SInv /\ [Next]_vars => [Timeouts!Next]_(Timeouts!vars)
    BY TimersStep DEF SInv
<1> QED
    BY <1>1, TimersInit, SafetyInductive, PTL DEF Spec, ImplementsFiberTimeouts, Timeouts!Spec

-----------------------------------------------------------------------------
(* Waits without timeouts: where the fibers are. *)

\* Nothing is left of timeouts.
Untimed ==
    /\ waiting.timeouts = {}
    /\ \A f \in Fibers : timeout[f] = NoTime /\ state[f] # "Waiting"

\* A queued fiber is in work.fibers once, or was just switched to.
QueuedOnce ==
    /\ Distinct(fibers)
    /\ \A f \in Fibers : state[f] = "Queued" <=> f \in Due
    /\ At("blocked") => currentFiber \notin Elements(fibers)

\* idleFibers holds fibers that wait in RunFiber, and mainFiber when a worker
\* fiber left run().
IdleInSwitch ==
    \A f \in idleFibers : \/ pc[f] = "switched" /\ f # currentFiber
                          \/ f = Main /\ \E g \in Fibers : pc[g] = "ended"

Placed == Untimed /\ QueuedOnce /\ IdleInSwitch

LEMMA PlacedKept ==
    ASSUME UNCHANGED <<fibers, idleFibers, currentFiber>>, Placed, Ending, TypeOK,
           pc'[currentFiber] = "blocked" <=> pc[currentFiber] = "blocked",
           \A f \in Fibers : f # currentFiber => pc'[f] = pc[f],
           \A f \in Fibers : state'[f] = "Queued" <=> state[f] = "Queued"
    PROVE  QueuedOnce' /\ IdleInSwitch'
<1>1. Due' = Due
    BY DueKept
<1>2. QueuedOnce'
    BY <1>1 DEF Placed, QueuedOnce, Distinct, Elements, At
<1>3. \A g \in Fibers : pc[g] = "ended" => g # currentFiber
    BY DEF Ending
<1>4. IdleInSwitch'
    BY <1>3 DEF Placed, IdleInSwitch, TypeOK
<1> QED
    BY <1>2, <1>4

LEMMA UntimedStep ==
    ASSUME TimePoints = {}, TypeOK, Untimed, [Next]_vars
    PROVE  Untimed'
<1> USE DEF TypeOK, pool, stack, queues, history
<1>1. ASSUME UNCHANGED <<waiting, timeout>>,
             \A f \in Fibers : state'[f] = "Waiting" => state[f] = "Waiting"
      PROVE  Untimed'
    BY <1>1 DEF Untimed
<1>2. ASSUME UNCHANGED waiting, Returns,
             \A f \in Fibers : state'[f] = "Waiting" => state[f] = "Waiting"
      PROVE  Untimed'
    BY <1>2 DEF Untimed, Returns
<1>3. ASSUME NEW f \in Fibers, PushFiber(f), UNCHANGED timeout PROVE Untimed'
    BY <1>3 DEF Untimed, PushFiber
<1>4. ASSUME Suspend(NoTime),
             \A f \in Fibers : timeout'[f] = timeout[f] \/ timeout'[f] = NoTime
      PROVE  Untimed'
    BY <1>4 DEF Untimed, Suspend
<1>5. CASE Loop
  <2>1. ASSUME NEW t \in waiting.timeouts, TakeTimeout(t) PROVE FALSE
      BY DEF Untimed
  <2>2. CASE \/ Start \/ KeepRunning \/ SpinEnd \/ RunTask \/ RunUntilIdleEnd
             \/ WaitForWork \/ TimeoutsEnd \/ LeaveRun \/ RunFiber \/ ResumeIdle \/ SwitchAway
      BY <1>1, <2>2 DEF Start, KeepRunning, SpinEnd, RunTask, RunUntilIdleEnd, WaitForWork,
         TimeoutsEnd, LeaveRun, RunFiber, ResumeIdle, SwitchAway
  <2>3. CASE RunWait \/ RunWake \/ ThreadWait \/ ThreadWake \/ ThreadTimeOut
      BY <1>1, <2>3 DEF RunWait, RunWake, ThreadWait, ThreadWake, ThreadTimeOut, WorkWait,
         WakeUp, FallAsleep
  <2>4. CASE Resume
      BY <1>1, <1>2, <2>4 DEF Resume, Unblock
  <2>5. CASE Relock
      BY <1>1, <1>2, <2>5 DEF Relock
  <2>6. CASE WaitPred
    <3>1. timeout[currentFiber] = NoTime
        BY DEF Untimed
    <3> QED
        BY <1>2, <1>4, <2>6, <3>1 DEF WaitPred
  <2> QED
      BY <1>5, <2>1, <2>2, <2>3, <2>4, <2>5, <2>6 DEF Loop
<1>6. ASSUME NEW tp \in TimePoints \cup {NoTime}, WaitCall(tp) \/ WaitBare(tp)
      PROVE  Untimed'
  <2>1. tp = NoTime
      OBVIOUS
  <2>2. \A f \in Fibers : timeout'[f] = timeout[f] \/ timeout'[f] = NoTime
      BY <1>6, <2>1 DEF WaitCall, WaitBare, Calls
  <2>3. CASE WaitCall(tp)
      BY <2>2, <2>3 DEF WaitCall, Untimed
  <2>4. CASE WaitBare(tp)
      BY <1>4, <2>1, <2>2, <2>4 DEF WaitBare
  <2> QED
      BY <1>6, <2>3, <2>4
<1>7. CASE TaskEnds
    BY <1>1, <1>7 DEF TaskEnds
<1>8. ASSUME NEW t \in Tasks, TaskEnqueues(t) \/ TaskSignals(t) \/ SpinSteals(t)
      PROVE  Untimed'
    BY <1>1, <1>3, <1>8 DEF TaskEnqueues, TaskSignals, SpinSteals
<1>9. ASSUME NEW e \in Externals, External(e) PROVE Untimed'
  <2>1. ASSUME NEW f \in Fibers, EnqueueFiber(e, f) PROVE Untimed'
      BY <1>1, <1>3, <2>1 DEF EnqueueFiber
  <2>2. CASE SignalNotifies(e)
      BY <2>1, <2>2 DEF SignalNotifies, Steps
  <2> QED
      BY <1>1, <1>9, <2>1, <2>2 DEF External, Enqueue, Signal, Steal, NotifyAdded, NotifyBare
<1>10. CASE Tick \/ UNCHANGED vars
    BY <1>1, <1>10 DEF Tick, vars
<1> QED
    BY <1>5, <1>6, <1>7, <1>8, <1>9, <1>10 DEF Next, Task, Terminated

\* A queued fiber stands in the switch of suspend(), or is the current one in it.
LEMMA QueuedBlocks ==
    ASSUME SInv, Placed, NEW f \in Elements(fibers)
    PROVE  /\ f \in Fibers /\ state[f] = "Queued" /\ Suspended(f)
           /\ f # currentFiber => pc[f] = "blocked"
<1>1. f \in Fibers
    BY DEF Elements, SInv, IInv, TypeOK
<1>2. state[f] = "Queued"
    BY <1>1, DueIs DEF WhoIsDue, Placed, QueuedOnce
<1>3. Suspended(f)
    BY <1>1, <1>2 DEF SInv, StatePlaces
<1> QED
    BY <1>1, <1>2, <1>3 DEF Suspended, Inside, SInv, IInv, Parked

\* enqueue(fiber) of a fiber that needs it.
LEMMA PlacedPush ==
    ASSUME SInv, Placed, NEW f \in Fibers, NeedsEnqueue(f), PushFiber(f),
           UNCHANGED <<pc, currentFiber, idleFibers>>
    PROVE  QueuedOnce' /\ IdleInSwitch'
<1>1. f \notin Due
    BY DEF NeedsEnqueue, Placed, QueuedOnce
<1>2. f \notin Elements(fibers) /\ ~(f = currentFiber /\ pc[f] = "blocked")
    BY <1>1, DueIs DEF WhoIsDue
<1>3. Elements(fibers') = Elements(fibers) \cup {f} /\ Distinct(fibers')
    BY <1>2, AppendElements DEF PushFiber, SInv, IInv, TypeOK, Placed, QueuedOnce
<1>4. Due' = Due \cup {f}
    BY <1>3, DueIs DEF WhoIsDue
<1>5. state'[f] = "Queued" /\ \A g \in Fibers : g # f => state'[g] = state[g]
    BY DEF PushFiber, SInv, IInv, TypeOK
<1>6. QueuedOnce'
    BY <1>2, <1>3, <1>4, <1>5 DEF Placed, QueuedOnce, At
<1>7. IdleInSwitch'
    BY DEF Placed, IdleInSwitch
<1> QED
    BY <1>6, <1>7

\* The thread is switched to the fiber g, which leaves the queue if it was in it.
LEMMA PlacedSwitch ==
    ASSUME Placed, NEW g \in Fibers, currentFiber' = g, pc[currentFiber] # "blocked",
           Distinct(fibers'),
           \/ /\ pc'[g] = "blocked" /\ g \notin Elements(fibers')
              /\ Elements(fibers) = Elements(fibers') \cup {g}
           \/ pc'[g] # "blocked" /\ Elements(fibers') = Elements(fibers),
           \A f \in Fibers : state'[f] = "Queued" <=> state[f] = "Queued"
    PROVE  QueuedOnce'
<1>1. Due' = Due
    BY DueIs DEF WhoIsDue
<1> QED
    BY <1>1 DEF Placed, QueuedOnce, At

LEMMA FibersPlacedStep ==
    ASSUME SInv, Placed, [Next]_vars
    PROVE  QueuedOnce' /\ IdleInSwitch'
<1> DEFINE Goal == QueuedOnce' /\ IdleInSwitch'
           c == currentFiber
<1>0. /\ TypeOK /\ StackConsistent /\ Parked /\ c \in Fibers /\ Ending
      /\ CallPlaces /\ StatePlaces /\ Signals
    BY DEF SInv, IInv, TypeOK
<1> USE <1>0 DEF pool, stack, queues, At
<1>1. ASSUME UNCHANGED <<fibers, idleFibers, currentFiber, pc, state>> PROVE Goal
    BY <1>1, PlacedKept
<1>2. ASSUME NEW l, Goto(l), l # "blocked", pc[c] # "blocked",
             UNCHANGED <<fibers, idleFibers, currentFiber>>,
             \A f \in Fibers : state'[f] = "Queued" <=> state[f] = "Queued"
      PROVE  Goal
    BY <1>2, PlacedKept DEF Goto, TypeOK
<1>3. ASSUME NEW tp, Suspend(tp), state[c] = "Running", pc[c] # "blocked",
             UNCHANGED <<fibers, idleFibers, currentFiber>>
      PROVE  Goal
  <2>1. \A f \in Fibers : state'[f] = "Queued" <=> state[f] = "Queued"
      BY <1>3 DEF Suspend, TypeOK
  <2> QED
      BY <1>2, <1>3, <2>1 DEF Suspend
\* What the switches find in idleFibers.
<1>4. ASSUME fibers # <<>> \/ At("suspend")
      PROVE  \A f \in idleFibers : f \in Fibers /\ pc[f] = "switched" /\ f # c
    BY <1>4, NobodyEnded DEF SInv, Placed, IdleInSwitch, TypeOK
<1>5. ASSUME fibers # <<>>, fibers' = Tail(fibers)
      PROVE  /\ Head(fibers) \in Fibers
             /\ Elements(fibers) = Elements(fibers') \cup {Head(fibers)}
             /\ Distinct(fibers') /\ Head(fibers) \notin Elements(fibers')
             /\ Head(fibers) # c => pc[Head(fibers)] = "blocked"
             /\ Suspended(Head(fibers))
  <2>1. /\ Head(fibers) \in Elements(fibers)
        /\ Elements(fibers) = Elements(fibers') \cup {Head(fibers)}
        /\ Distinct(fibers') /\ Head(fibers) \notin Elements(fibers')
      BY <1>5, TailElements DEF TypeOK, Placed, QueuedOnce
  <2> QED
      BY <2>1, QueuedBlocks
<1>6. CASE Loop
  <2>1. ASSUME NEW t \in waiting.timeouts, TakeTimeout(t) PROVE FALSE
      BY DEF Placed, Untimed
  <2>2. CASE Start \/ KeepRunning \/ SpinEnd \/ RunUntilIdleEnd \/ RunTask
      BY <1>2, <2>2 DEF Start, KeepRunning, SpinEnd, RunUntilIdleEnd, RunTask
  <2>3. CASE WaitForWork \/ TimeoutsEnd
      BY <1>2, <2>3 DEF WaitForWork, TimeoutsEnd, AfterWaitForWork
  <2>4. CASE RunWait \/ RunWake \/ ThreadWait \/ ThreadWake \/ ThreadTimeOut
      BY <1>2, <2>4 DEF RunWait, RunWake, ThreadWait, ThreadWake, ThreadTimeOut, WorkWait,
         WakeUp, FallAsleep
  <2>5. CASE LeaveRun
    <3>1. CASE c = Main
        BY <1>2, <2>5, <3>1 DEF LeaveRun
    <3>2. CASE c # Main
      <4>1. Main \in Fibers /\ pc[Main] = "switched"
          BY <2>5, <3>2, LeaveTarget, WorkerAssumption DEF Main, SInv
      <4>2. /\ currentFiber' = Main /\ pc[c] = "runUntilShutdown"
            /\ pc' = [pc EXCEPT ![c] = "ended"]
            /\ UNCHANGED <<state, fibers, idleFibers>>
          BY <2>5, <3>2 DEF LeaveRun, Goto
      <4>3. pc'[Main] = "switched" /\ pc'[c] = "ended"
          BY <3>2, <4>1, <4>2 DEF TypeOK
      <4>4. QueuedOnce'
          BY <4>1, <4>2, <4>3, PlacedSwitch DEF Placed, QueuedOnce
      <4>5. IdleInSwitch'
        <5> SUFFICES ASSUME NEW f \in idleFibers, f # Main
                     PROVE  pc'[f] = "switched"
            BY <4>2, <4>3 DEF IdleInSwitch
        <5>1. pc[f] = "switched" /\ f # c /\ f \in Fibers
            BY DEF Placed, IdleInSwitch, TypeOK
        <5> QED
            BY <4>2, <5>1 DEF TypeOK
      <4> QED
          BY <4>4, <4>5
    <3> QED
        BY <3>1, <3>2
  <2>6. CASE RunFiber
    <3>1. /\ fibers # <<>> /\ fibers' = Tail(fibers) /\ currentFiber' = Head(fibers)
          /\ pc[c] = "runUntilIdle" /\ pc' = [pc EXCEPT ![c] = "switched"]
          /\ state' = [state EXCEPT ![c] = "Idle"]
          /\ idleFibers' = idleFibers \cup {c}
        BY <2>6 DEF RunFiber, Goto
    <3>2. ~Suspended(c) /\ state[c] = "Running"
        BY <3>1 DEF Suspended, Inside, StatePlaces
    <3>3. Head(fibers) # c /\ pc'[Head(fibers)] = "blocked"
        BY <1>5, <3>1, <3>2 DEF TypeOK
    <3>4. QueuedOnce'
        BY <1>5, <3>1, <3>2, <3>3, PlacedSwitch DEF TypeOK
    <3>5. IdleInSwitch'
        BY <1>4, <3>1, <3>3 DEF IdleInSwitch, TypeOK
    <3> QED
        BY <3>4, <3>5
  <2>7. CASE ResumeIdle
    <3>1. state[c] = "Idle"
        BY <2>7 DEF ResumeIdle, StatePlaces
    <3>2. \A f \in Fibers : state'[f] = "Queued" <=> state[f] = "Queued"
        BY <2>7, <3>1 DEF ResumeIdle, TypeOK
    <3> QED
        BY <1>2, <2>7, <3>2 DEF ResumeIdle
  <2>8. CASE SwitchAway
    <3>0. pc[c] = "suspend" /\ UNCHANGED state
        BY <2>8 DEF SwitchAway
    <3>1. CASE SwitchToQueued
      <4>1. /\ fibers # <<>> /\ fibers' = Tail(fibers) /\ currentFiber' = Head(fibers)
            /\ pc' = [pc EXCEPT ![c] = "blocked"] /\ UNCHANGED idleFibers
          BY <3>1 DEF SwitchToQueued, Goto
      <4>2. pc'[Head(fibers)] = "blocked"
          BY <1>5, <4>1 DEF TypeOK
      <4>3. QueuedOnce'
          BY <1>5, <3>0, <4>1, <4>2, PlacedSwitch
      <4>4. IdleInSwitch'
        <5>1. \A f \in idleFibers : pc'[f] = "switched" /\ f # Head(fibers)
            BY <1>4, <1>5, <4>1 DEF TypeOK
        <5> QED
            BY <4>1, <5>1 DEF IdleInSwitch
      <4> QED
          BY <4>3, <4>4
    <3>2. CASE SwitchToIdle
      <4>1. PICK g \in idleFibers : idleFibers' = idleFibers \ {g} /\ currentFiber' = g
          BY <3>2 DEF SwitchToIdle
      <4>2. \A f \in idleFibers : f \in Fibers /\ pc'[f] = "switched"
          BY <1>4, <3>0, <3>2 DEF SwitchToIdle, Goto, TypeOK
      <4>3. QueuedOnce'
          BY <3>0, <3>2, <4>1, <4>2, PlacedSwitch DEF SwitchToIdle, Placed, QueuedOnce
      <4>4. IdleInSwitch'
          BY <4>1, <4>2 DEF IdleInSwitch
      <4> QED
          BY <4>3, <4>4
    <3>3. CASE SwitchToNew
      <4>1. /\ workerFibers + 1 \in Fibers /\ currentFiber' = workerFibers + 1
            /\ idleFibers' = {} /\ UNCHANGED fibers /\ pc'[workerFibers + 1] # "blocked"
          BY <3>3, NewFiber DEF SwitchToNew, SInv, TypeOK
      <4>2. QueuedOnce'
          BY <3>0, <4>1, PlacedSwitch DEF Placed, QueuedOnce
      <4> QED
          BY <4>1, <4>2 DEF IdleInSwitch
    <3> QED
        BY <2>8, <3>1, <3>2, <3>3 DEF SwitchAway
  <2>9. CASE Resume
    <3>1. /\ pc[c] = "blocked" /\ state' = [state EXCEPT ![c] = "Running"]
          /\ UNCHANGED <<fibers, currentFiber, idleFibers>>
          /\ \E l \in {"task", "relock"} : pc' = [pc EXCEPT ![c] = l]
        BY <2>9 DEF Resume, Unblock, Returns, Goto
    <3>2. pc'[c] # "blocked" /\ \A f \in Fibers : f # c => pc'[f] = pc[f]
        BY <3>1 DEF TypeOK
    <3>3. c \notin Elements(fibers) /\ Distinct(fibers)
        BY <3>1 DEF Placed, QueuedOnce
    <3>4. \A f \in Fibers : f \in Due' <=> f \in Due /\ f # c
        BY <3>1, <3>2, <3>3, DueIs DEF WhoIsDue
    <3>5. QueuedOnce'
        BY <3>1, <3>2, <3>3, <3>4 DEF Placed, QueuedOnce, TypeOK
    <3>6. IdleInSwitch'
      <4>1. \A f \in Fibers : pc[f] = "ended" => f # c
          BY <3>1
      <4>2. \A f \in idleFibers : f \in Fibers
          BY DEF TypeOK
      <4> QED
          BY <3>1, <3>2, <4>1, <4>2 DEF Placed, IdleInSwitch
    <3> QED
        BY <3>5, <3>6
  <2>10. CASE Relock \/ WaitPred
    <3>1. /\ pc[c] \in {"relock", "wait"} /\ UNCHANGED <<fibers, currentFiber, idleFibers>>
        BY <2>10 DEF Relock, WaitPred
    <3>2. state[c] = "Running"
        BY <3>1 DEF CallPlaces, StatePlaces, Suspended, Inside
    <3>3. ASSUME NEW l \in {"task", "wait"}, Goto(l), UNCHANGED state PROVE Goal
        BY <1>2, <3>1, <3>3
    <3>4. ASSUME NEW tp, Suspend(tp) PROVE Goal
        BY <1>3, <3>1, <3>2, <3>4
    <3> QED
        BY <2>10, <3>3, <3>4 DEF Relock, WaitPred, Returns
  <2> QED
      BY <1>6, <2>1, <2>2, <2>3, <2>4, <2>5, <2>6, <2>7, <2>8, <2>9, <2>10 DEF Loop
<1>7. ASSUME NEW tp, WaitCall(tp) \/ WaitBare(tp) PROVE Goal
  <2>1. pc[c] = "task" /\ UNCHANGED <<fibers, currentFiber, idleFibers>>
      BY <1>7 DEF WaitCall, WaitBare, Calls
  <2>2. state[c] = "Running"
      BY <2>1 DEF StatePlaces, Suspended, Inside
  <2> QED
      BY <1>2, <1>3, <1>7, <2>1, <2>2 DEF WaitCall, WaitBare
<1>8. ASSUME NEW t \in Tasks, TaskEnds \/ SpinSteals(t) PROVE Goal
    BY <1>2, <1>8 DEF TaskEnds, SpinSteals
<1>9. ASSUME NEW t \in Tasks, TaskEnqueues(t) \/ TaskSignals(t) PROVE Goal
    BY <1>1, <1>9, PlacedPush DEF TaskEnqueues, TaskSignals
<1>10. ASSUME NEW e \in Externals, External(e) PROVE Goal
  <2>1. ASSUME NEW f \in Fibers, EnqueueFiber(e, f) PROVE Goal
      BY <1>1, <2>1, PlacedPush DEF EnqueueFiber
  <2>2. CASE SignalNotifies(e)
      BY <2>1, <2>2 DEF SignalNotifies, Steps, TypeOK
  <2> QED
      BY <1>1, <1>10, <2>1, <2>2 DEF External, Enqueue, Signal, Steal, NotifyAdded, NotifyBare
<1>11. CASE Tick \/ UNCHANGED vars
    BY <1>1, <1>11 DEF Tick, vars
<1> QED
    BY <1>6, <1>7, <1>8, <1>9, <1>10, <1>11, WorkerAssumption DEF Next, Task, Terminated

\* Without timeouts SInv and Placed are inductive.
LEMMA PlacedInductive == Spec => [](SInv /\ (TimePoints = {} => Placed))
<1>1. Init => (TimePoints = {} => Placed)
  <2> SUFFICES ASSUME Init PROVE Placed
      OBVIOUS
  <2>1. /\ fibers = <<>> /\ waiting = none /\ idleFibers = {}
        /\ \A f \in Fibers : pc[f] # "blocked" /\ state[f] = "Running" /\ timeout[f] = NoTime
      BY DEF Init
  <2>2. Elements(fibers) = {} /\ Distinct(fibers)
      BY <2>1 DEF Elements, Distinct
  <2>3. QueuedOnce
      BY <2>1, <2>2, DueIs DEF WhoIsDue, QueuedOnce, At
  <2> QED
      BY <2>1, <2>3 DEF Placed, Untimed, IdleInSwitch, none
<1>2. SInv /\ (TimePoints = {} => Placed) /\ [Next]_vars => (TimePoints = {} => Placed)'
    BY UntimedStep, FibersPlacedStep DEF Placed, SInv, IInv
<1> QED
    BY <1>1, <1>2, SafetyInductive, PTL DEF Spec

\* Without timeouts every fiber is where its state says: a queued fiber once in
\* work.fibers, an idle one in idleFibers, and only the current one runs.
THEOREM FibersArePlaced == Spec => [](TimePoints = {} => FiberPlacement)
<1>1. SInv /\ (TimePoints = {} => Placed) => (TimePoints = {} => FiberPlacement)
  <2> SUFFICES ASSUME SInv, Placed, ~SwitchUnderWay, NEW f \in 0..workerFibers
               PROVE  /\ Cardinality(Queued(f)) = IF state[f] = "Queued" THEN 1 ELSE 0
                      /\ state[f] = "Idle" => f \in idleFibers
                      /\ f \in idleFibers => state[f] = "Idle" \/ (f = Main /\ MayStop)
                      /\ state[f] = "Running" => f = currentFiber \/ pc[f] = "ended"
      BY DEF FiberPlacement
  <2>1. f \in Fibers /\ pc[f] # "unborn" /\ StatePlaces /\ IdleKept /\ Ending /\ Exited
      BY DEF SInv, Born
  <2>2. pc[currentFiber] # "blocked" /\ pc[currentFiber] # "switched"
      BY DEF SwitchUnderWay
  <2>3. state[f] = "Queued" <=> f \in Elements(fibers)
      BY <2>1, <2>2, DueIs DEF WhoIsDue, Placed, QueuedOnce
  <2>4. Cardinality(Queued(f)) = IF state[f] = "Queued" THEN 1 ELSE 0
    <3>1. CASE state[f] = "Queued"
      <4>1. PICK i \in DOMAIN fibers : fibers[i] = f
          BY <2>3, <3>1 DEF Elements
      <4>2. Queued(f) = {i}
          BY <4>1 DEF Queued, Placed, QueuedOnce, Distinct
      <4> QED
          BY <3>1, <4>2, FS_Singleton
    <3>2. CASE state[f] # "Queued"
      <4>1. Queued(f) = {}
          BY <2>3, <3>2 DEF Queued, Elements
      <4> QED
          BY <3>2, <4>1, FS_EmptySet
    <3> QED
        BY <3>1, <3>2
  <2>5. state[f] = "Idle" => f \in idleFibers
      BY <2>1, <2>2 DEF StatePlaces, IdleKept
  <2>6. f \in idleFibers => state[f] = "Idle" \/ (f = Main /\ MayStop)
    <3>1. (\E g \in Fibers : pc[g] = "ended") => MayStop
        BY <2>1 DEF Ending, Exited
    <3> QED
        BY <2>1, <3>1 DEF Placed, IdleInSwitch, StatePlaces
  <2>7. state[f] = "Running" => f = currentFiber \/ pc[f] = "ended"
    <3>1. f # currentFiber => pc[f] \in {"blocked", "switched", "ended"}
        BY <2>1 DEF SInv, IInv, Parked
    <3>2. pc[f] = "blocked" => Suspended(f)
        BY <2>1 DEF Suspended, Inside, SInv, CallPlaces
    <3> QED
        BY <2>1, <3>1, <3>2 DEF StatePlaces
  <2> QED
      BY <2>4, <2>5, <2>6, <2>7
<1> QED
    BY <1>1, PlacedInductive, PTL

-----------------------------------------------------------------------------
(* Waits without timeouts: Worker implements TaskExecutor. *)

\* What the task on the stack of f does.
Progress(f) ==
    IF state[f] = "Queued" THEN "ready"
    ELSE IF state[f] = "Yielded" THEN "suspended"
    ELSE "running"

\* The progress of a task is read off the place it is in.
StatusIs ==
    \A t \in Tasks :
        /\ t \in fresh => Status(t) = "new"
        /\ t \in stolen => Status(t) = "stolen"
        /\ t \in done => Status(t) = "done"
        /\ t \in Elements(tasks) => Status(t) = "queued"
        /\ \A f \in Fibers : task[f] = t => Status(t) = Progress(f)

LEMMA StatusOf == TasksPlaced => StatusIs
<1> SUFFICES ASSUME TasksPlaced, NEW t \in Tasks
             PROVE  /\ t \in fresh => Status(t) = "new"
                    /\ t \in stolen => Status(t) = "stolen"
                    /\ t \in done => Status(t) = "done"
                    /\ t \in Elements(tasks) => Status(t) = "queued"
                    /\ \A f \in Fibers : task[f] = t => Status(t) = Progress(f)
    BY DEF StatusIs
<1>1. (\E i \in DOMAIN tasks : tasks[i] = t) <=> t \in Elements(tasks)
    BY DEF Elements
<1>2. ASSUME NEW f \in Fibers, task[f] = t PROVE Status(t) = Progress(f)
  <2>1. t \notin fresh \cup done \cup stolen \cup Elements(tasks)
      BY <1>2 DEF TasksPlaced, TasksApart
  <2>2. \A g \in Fibers : task[g] = t => g = f
      BY <1>2 DEF TasksPlaced, TasksApart
  <2> QED
      BY <1>1, <1>2, <2>1, <2>2 DEF Status, Progress
<1> QED
    BY <1>1, <1>2 DEF Status, TasksPlaced, TasksApart

LEMMA StatusOfBoth == (TasksPlaced => StatusIs) /\ (TasksPlaced => StatusIs)'
    BY StatusOf, PTL

\* A task that stays where it is, on a stack that does the same, has the same progress.
LEMMA StatusKept ==
    ASSUME TasksPlaced, TasksPlaced', NEW t \in Tasks,
           t \in fresh => t \in fresh', t \in stolen => t \in stolen',
           t \in done => t \in done', t \in Elements(tasks) => t \in Elements(tasks'),
           \A f \in Fibers : task[f] = t => task'[f] = t /\ Progress(f)' = Progress(f)
    PROVE  Status(t)' = Status(t)
<1>1. StatusIs /\ StatusIs'
    BY StatusOfBoth
<1> QED
    BY <1>1 DEF StatusIs, TasksPlaced, TasksKept

LEMMA ExecutorBecomes ==
    ASSUME NEW t \in Tasks, NEW from, NEW to, Status(t) = from, Status(t)' = to,
           \A u \in Tasks : u # t => Status(u)' = Status(u),
           (pc[Main] = "exited")' <=> pc[Main] = "exited"
    PROVE  Executor!Becomes(t, from, to)
    BY DEF Executor!Becomes

\* Nobody changes the progress of a task, and the worker goes on.
LEMMA ExecutorStutter ==
    ASSUME TasksPlaced, TasksPlaced',
           UNCHANGED <<tasks, task, fresh, done, stolen>>,
           \A f \in Fibers : task[f] \in Tasks => Progress(f)' = Progress(f),
           (pc[Main] = "exited")' <=> pc[Main] = "exited"
    PROVE  UNCHANGED Executor!vars
<1>1. \A t \in Tasks : Status(t)' = Status(t)
    BY StatusKept
<1>2. [t \in Tasks |-> Status(t)'] = [t \in Tasks |-> Status(t)]
    BY <1>1
<1>3. (pc'[Main] = "exited") = (pc[Main] = "exited")
    OBVIOUS
<1> QED
    BY <1>2, <1>3 DEF Executor!vars

\* The task of f moves on together with the state of f.
LEMMA ExecutorMoves ==
    ASSUME TasksPlaced, TasksPlaced', NEW f \in Fibers, task[f] \in Tasks,
           UNCHANGED <<tasks, task, fresh, done, stolen>>,
           \A g \in Fibers : g # f => Progress(g)' = Progress(g),
           NEW from, from = Progress(f), NEW to, to = Progress(f)',
           (pc[Main] = "exited")' <=> pc[Main] = "exited"
    PROVE  Executor!Becomes(task[f], from, to)
<1>1. StatusIs /\ StatusIs'
    BY StatusOfBoth
<1>2. Status(task[f]) = from /\ Status(task[f])' = to
    BY <1>1 DEF StatusIs
<1>3. \A u \in Tasks : u # task[f] => Status(u)' = Status(u)
    BY StatusKept
<1> QED
    BY <1>2, <1>3, ExecutorBecomes

\* The end of FinalTask sets shutdown, nothing else does.
StopAsked == shutdown => FinalTask \in done

LEMMA StopAskedStep ==
    ASSUME StopAsked, [Next]_vars
    PROVE  StopAsked'
<1> USE DEF StopAsked, history
<1>1. CASE UNCHANGED <<shutdown, done>>
    BY <1>1
<1>2. CASE TaskEnds
    BY <1>2 DEF TaskEnds
<1>3. CASE Loop
  <2>1. ASSUME NEW t \in waiting.timeouts, TakeTimeout(t) PROVE UNCHANGED <<shutdown, done>>
      BY <2>1 DEF TakeTimeout
  <2>2. CASE \/ Start \/ KeepRunning \/ SpinEnd \/ RunTask \/ RunUntilIdleEnd \/ ResumeIdle
             \/ WaitForWork \/ TimeoutsEnd \/ RunFiber \/ LeaveRun \/ SwitchAway
      BY <1>1, <2>2 DEF Start, KeepRunning, SpinEnd, RunTask, RunUntilIdleEnd, ResumeIdle,
         WaitForWork, TimeoutsEnd, RunFiber, LeaveRun, SwitchAway
  <2>3. CASE RunWait \/ RunWake \/ ThreadWait \/ ThreadWake \/ ThreadTimeOut
      BY <1>1, <2>3 DEF RunWait, RunWake, ThreadWait, ThreadWake, ThreadTimeOut, WorkWait,
         WakeUp
  <2>4. CASE Resume \/ Relock \/ WaitPred
      BY <1>1, <2>4 DEF Resume, Relock, WaitPred
  <2> QED
      BY <1>1, <1>3, <2>1, <2>2, <2>3, <2>4 DEF Loop
<1>4. ASSUME NEW tp, WaitCall(tp) \/ WaitBare(tp) PROVE UNCHANGED <<shutdown, done>>
    BY <1>4 DEF WaitCall, WaitBare
<1>5. ASSUME NEW t, TaskEnqueues(t) \/ TaskSignals(t) \/ SpinSteals(t)
      PROVE  UNCHANGED <<shutdown, done>>
    BY <1>5 DEF TaskEnqueues, TaskSignals, SpinSteals
<1>6. ASSUME NEW e, External(e) PROVE UNCHANGED <<shutdown, done>>
    BY <1>6 DEF External, Enqueue, Signal, Steal, NotifyAdded, SignalNotifies, NotifyBare,
       EnqueueFiber
<1>7. CASE Tick \/ UNCHANGED vars
    BY <1>7 DEF Tick, vars
<1> QED
    BY <1>1, <1>2, <1>3, <1>4, <1>5, <1>6, <1>7 DEF Next, Task, Terminated

\* The worker exits by LeaveRun on mainFiber, for good.
LEMMA ExitIsFinal ==
    ASSUME SInv, [Next]_vars, ~(LeaveRun /\ currentFiber = Main)
    PROVE  (pc[Main] = "exited")' <=> pc[Main] = "exited"
<1>0. Main \in Fibers
    BY WorkerAssumption DEF Main
<1>1. pc'[Main] = "exited" => pc[Main] = "exited"
    BY <1>0, OnlyLeaveRunEnds DEF SInv
<1>2. ASSUME pc[Main] = "exited" PROVE UNCHANGED Stacks
  <2>1. pc[currentFiber] = "exited"
      BY <1>2 DEF SInv, Exited
  <2> USE <2>1 DEF At
  <2>2. ASSUME Loop PROVE FALSE
    <3>1. ASSUME NEW t \in waiting.timeouts, TakeTimeout(t) PROVE FALSE
        BY <3>1 DEF TakeTimeout
    <3>2. ~(\/ Start \/ KeepRunning \/ SpinEnd \/ RunTask \/ RunUntilIdleEnd \/ ResumeIdle
            \/ WaitForWork \/ TimeoutsEnd \/ RunFiber \/ LeaveRun \/ SwitchAway
            \/ Resume \/ Relock \/ WaitPred)
        BY DEF Start, KeepRunning, SpinEnd, RunTask, RunUntilIdleEnd, ResumeIdle,
           WaitForWork, TimeoutsEnd, RunFiber, LeaveRun, SwitchAway, Resume, Relock, WaitPred
    <3>3. ~(RunWait \/ RunWake \/ ThreadWait \/ ThreadWake \/ ThreadTimeOut)
        BY DEF RunWait, RunWake, ThreadWait, ThreadWake, ThreadTimeOut, WorkWait, WakeUp
    <3> QED
        BY <2>2, <3>1, <3>2, <3>3 DEF Loop
  <2>3. ASSUME NEW tp, WaitCall(tp) \/ WaitBare(tp) \/ TaskEnds PROVE FALSE
      BY <2>3 DEF WaitCall, WaitBare, Calls, TaskEnds
  <2>4. ASSUME NEW t, SpinSteals(t) PROVE FALSE
      BY <2>4 DEF SpinSteals
  <2>5. CASE UNCHANGED vars
      BY <2>5 DEF vars, Stacks, stack, pool
  <2> QED
      BY <2>2, <2>3, <2>4, <2>5, OthersLeaveStacks DEF Next, Task, Terminated
<1> QED
    BY <1>1, <1>2 DEF Stacks

\* The fiber that runs a task is the current one, and then none is ready to go on
\* with a stack that is switched away from.
LEMMA NobodyRuns ==
    ASSUME SInv, Placed, state[currentFiber] # "Running" \/ task[currentFiber] = NoTask
    PROVE  Executor!No("running")
<1>1. StatusIs
    BY StatusOf DEF SInv
<1>2. ASSUME NEW f \in Fibers, task[f] \in Tasks PROVE Progress(f) # "running"
  <2>1. call[f] # "none" \/ pc[f] = "task"
      BY <1>2 DEF SInv, CallPlaces
  <2>2. f # currentFiber => pc[f] = "blocked"
      BY <2>1 DEF SInv, CallPlaces, IInv, Parked, Inside
  <2>3. state[f] # "Idle"
      BY <2>1 DEF SInv, IInv, StackConsistent, StatePlaces
  <2>4. state[f] # "Running"
      BY <1>2, <2>1, <2>2, WorkerAssumption DEF SInv, StatePlaces, Suspended, Inside
  <2> QED
      BY <2>3, <2>4 DEF Progress, Placed, Untimed, SInv, IInv, TypeOK
<1>3. ASSUME NEW t \in Tasks PROVE Status(t) # "running"
    BY <1>1, <1>2 DEF StatusIs, SInv, TasksPlaced, TasksKept
<1> QED
    BY <1>3 DEF Executor!No

LEMMA NobodyReady ==
    ASSUME SInv, Placed, fibers = <<>>, ~At("blocked")
    PROVE  Executor!No("ready")
<1>1. StatusIs
    BY StatusOf DEF SInv
<1>2. ASSUME NEW f \in Fibers PROVE Progress(f) # "ready"
  <2>1. f \notin Due
      BY DueIs DEF WhoIsDue, Elements, At
  <2> QED
      BY <2>1 DEF Placed, QueuedOnce, Progress
<1>3. ASSUME NEW t \in Tasks PROVE Status(t) # "ready"
    BY <1>1, <1>2 DEF StatusIs, SInv, TasksPlaced, TasksKept
<1> QED
    BY <1>3 DEF Executor!No

\* Every step of a worker whose tasks wait without timeouts is a step of
\* TaskExecutor, or changes nothing that it sees.
LEMMA ExecutorStep ==
    ASSUME TimePoints = {}, SInv, Placed, StopAsked, SInv', [Next]_vars
    PROVE  Executor!Next \/ UNCHANGED Executor!vars
<1> DEFINE Goal == Executor!Next \/ UNCHANGED Executor!vars
           c == currentFiber
           Going == (pc[Main] = "exited")' <=> pc[Main] = "exited"
           Places == <<tasks, task, fresh, done, stolen>>
<1>0. /\ TypeOK /\ StackConsistent /\ CallPlaces /\ StatePlaces /\ Signals /\ c \in Fibers
      /\ TasksPlaced /\ TasksPlaced'
    BY DEF SInv, IInv, TypeOK
<1>a. ~(LeaveRun /\ c = Main) => Going
    BY ExitIsFinal
<1>b. StatusIs /\ StatusIs'
    BY <1>0, StatusOfBoth
<1> USE <1>0 DEF pool, stack, queues, history, At
<1>1. ASSUME UNCHANGED <<Places, state>>, Going PROVE Goal
    BY <1>1, ExecutorStutter DEF Progress
\* Only the state of f changes, as its task starts to wait, is notified or goes on.
<1>2. ASSUME NEW f \in Fibers, task[f] \in Tasks, UNCHANGED Places, Going, NEW s,
             state' = [state EXCEPT ![f] = s]
      PROVE  /\ state[f] = "Running" /\ s = "Yielded" => Goal
             /\ state[f] = "Yielded" /\ s = "Queued" => Goal
             /\ state[f] = "Queued" /\ s = "Running" /\ Executor!No("running") => Goal
  <2>1. \A g \in Fibers : g # f => Progress(g)' = Progress(g)
      BY <1>2 DEF Progress, TypeOK
  <2>2. ASSUME NEW to, Progress(f)' = to PROVE Executor!Becomes(task[f], Progress(f), to)
      BY <1>2, <2>1, <2>2, ExecutorMoves
  <2>3. state'[f] = s
      BY <1>2 DEF TypeOK
  <2>4. state[f] = "Running" /\ s = "Yielded" => Executor!Wait(task[f])
      BY <2>2, <2>3 DEF Progress, Executor!Wait
  <2>5. state[f] = "Yielded" /\ s = "Queued" => Executor!Notify(task[f])
      BY <2>2, <2>3 DEF Progress, Executor!Notify
  <2>6. state[f] = "Queued" /\ s = "Running" /\ Executor!No("running")
            => Executor!Continue(task[f])
      BY <2>2, <2>3 DEF Progress, Executor!Continue
  <2> QED
      BY <1>2, <2>4, <2>5, <2>6 DEF Executor!Next
\* The state of a fiber without a task changes.
<1>3. ASSUME task[c] \notin Tasks, UNCHANGED Places, Going, NEW s,
             state' = [state EXCEPT ![c] = s]
      PROVE  Goal
    BY <1>3, ExecutorStutter DEF Progress, TypeOK
\* Somebody hands over the task t.
<1>4. ASSUME NEW t \in fresh, PushTask(t), fresh' = fresh \ {t}, pc[Main] # "exited",
             UNCHANGED <<task, done, stolen, state>>, Going
      PROVE  Goal
  <2>1. t \in Tasks /\ Elements(tasks') = Elements(tasks) \cup {t}
      BY <1>4, AppendElements DEF PushTask, TypeOK
  <2>2. Status(t) = "new" /\ Status(t)' = "queued"
      BY <1>b, <2>1 DEF StatusIs
  <2>3. ASSUME NEW u \in Tasks, u # t PROVE Status(u)' = Status(u)
    <3>1. \A f \in Fibers : Progress(f)' = Progress(f)
        BY <1>4 DEF Progress
    <3> QED
        BY <1>4, <2>1, <2>3, <3>1, StatusKept
  <2>4. Executor!Becomes(t, "new", "queued")
      BY <1>4, <2>1, <2>2, <2>3, ExecutorBecomes
  <2> QED
      BY <1>4, <2>1, <2>4 DEF Executor!Next, Executor!Accept
\* The first task t of the queue leaves it.
<1>5. ASSUME NEW t, t = Head(tasks), tasks # <<>>, tasks' = Tail(tasks),
             UNCHANGED <<fresh, done, state>>, Going,
             stolen' = stolen \/ stolen' = stolen \cup {t},
             task' = task \/ (task' = [task EXCEPT ![c] = t] /\ task[c] = NoTask),
             NEW s, Status(t)' = s
      PROVE  Executor!Becomes(t, "queued", s)
  <2>1. /\ t \in Tasks /\ t \in Elements(tasks)
        /\ Elements(tasks) = Elements(tasks') \cup {t}
      BY <1>5, TailElements DEF TypeOK
  <2>2. Status(t) = "queued"
      BY <1>b, <2>1 DEF StatusIs
  <2>3. ASSUME NEW u \in Tasks, u # t PROVE Status(u)' = Status(u)
    <3>1. \A f \in Fibers : Progress(f)' = Progress(f)
        BY <1>5 DEF Progress
    <3>2. \A f \in Fibers : task[f] = u => task'[f] = u
        BY <1>5, WorkerAssumption DEF TypeOK
    <3> QED
        BY <1>5, <2>1, <2>3, <3>1, <3>2, StatusKept
  <2> QED
      BY <1>5, <2>1, <2>2, <2>3, ExecutorBecomes
<1>6. ASSUME NEW tp, Suspend(tp), UNCHANGED Places, pc[c] \in {"task", "wait"},
             tp = NoTime, Going
      PROVE  Goal
  <2>1. state[c] = "Running" /\ task[c] \in Tasks
      BY <1>6 DEF StatePlaces, Suspended, Inside, StackConsistent
  <2> QED
      BY <1>2, <1>6, <2>1 DEF Suspend
<1>7. ASSUME NEW f \in Fibers, NeedsEnqueue(f), PushFiber(f), call[f] # "none",
             UNCHANGED Places, Going
      PROVE  Goal
  <2>1. task[f] \in Tasks /\ state[f] = "Yielded"
      BY <1>7, PushedIsSuspended
      DEF StackConsistent, NeedsEnqueue, Suspended, Inside, StatePlaces, Placed, Untimed, TypeOK
  <2> QED
      BY <1>2, <1>7, <2>1 DEF PushFiber
<1>8. CASE Loop
  <2>1. ASSUME NEW t \in waiting.timeouts, TakeTimeout(t) PROVE Goal
      BY <1>1, <1>a, <2>1 DEF TakeTimeout, LeaveRun
  <2>2. CASE Start \/ KeepRunning \/ SpinEnd \/ RunUntilIdleEnd \/ WaitForWork \/ TimeoutsEnd
    <3>1. ~LeaveRun \/ c # Main
        BY <2>2 DEF Start, KeepRunning, SpinEnd, RunUntilIdleEnd, WaitForWork, TimeoutsEnd,
           LeaveRun
    <3> QED
        BY <1>1, <1>a, <2>2, <3>1 DEF Start, KeepRunning, SpinEnd, RunUntilIdleEnd,
           WaitForWork, TimeoutsEnd
  <2>3. CASE RunWait \/ RunWake \/ ThreadWait \/ ThreadWake \/ ThreadTimeOut
    <3>1. ~LeaveRun
        BY <2>3 DEF RunWait, RunWake, ThreadWait, ThreadWake, ThreadTimeOut, WorkWait,
           WakeUp, LeaveRun
    <3> QED
        BY <1>1, <1>a, <2>3, <3>1 DEF RunWait, RunWake, ThreadWait, ThreadWake,
           ThreadTimeOut, WorkWait, WakeUp
  <2>4. CASE LeaveRun
    <3>1. CASE c # Main
        BY <1>1, <1>a, <2>4, <3>1 DEF LeaveRun
    <3>2. CASE c = Main
      <4>1. MayStop /\ UNCHANGED <<Places, state>> /\ pc'[Main] = "exited"
          BY <2>4, <3>2 DEF LeaveRun, Goto, TypeOK
      <4>2. tasks = <<>> /\ FinalTask \in done
          BY <4>1 DEF MayStop, StopAsked, SInv, IInv, NumConsistent, TypeOK
      <4>3. \A f \in Fibers : task[f] = NoTask
          BY <4>1 DEF SInv, Exited
      <4>4. \A t \in Tasks : t \in fresh \cup done \cup stolen
          BY <4>2, <4>3, WorkerAssumption DEF TasksPlaced, TasksKept, Elements
      <4>5. /\ Status(FinalTask) = "done"
            /\ \A t \in Tasks : Status(t) \in {"new", "done", "stolen"}
          BY <1>b, <4>2, <4>4, WorkerAssumption DEF StatusIs
      <4>6. \A t \in Tasks : Status(t)' = Status(t)
          BY <4>1, StatusKept DEF Progress
      <4>7. Executor!Stop
          BY <4>1, <4>5, <4>6, WorkerAssumption DEF Executor!Stop
      <4> QED
          BY <4>7 DEF Executor!Next
    <3> QED
        BY <3>1, <3>2
  <2>5. CASE RunFiber \/ ResumeIdle
    <3>1. call[c] = "none" /\ pc[c] # "task" /\ ~LeaveRun
        BY <2>5 DEF RunFiber, ResumeIdle, StackConsistent, LeaveRun
    <3>2. task[c] \notin Tasks
        BY <3>1 DEF CallPlaces
    <3> QED
        BY <1>3, <1>a, <2>5, <3>1, <3>2 DEF RunFiber, ResumeIdle
  <2>6. CASE RunTask
    <3>1. call[c] = "none" /\ pc[c] = "runUntilIdle" /\ ~LeaveRun
        BY <2>6 DEF RunTask, StackConsistent, LeaveRun
    <3>2. task[c] = NoTask /\ state[c] = "Running"
        BY <3>1 DEF CallPlaces, StatePlaces, Suspended, TypeOK
    <3>3. Executor!No("running") /\ Executor!No("ready")
        BY <2>6, <3>1, <3>2, NobodyRuns, NobodyReady DEF RunTask
    <3>4. PICK t \in Tasks : t = Head(tasks)
        BY <2>6, TailElements DEF RunTask, TypeOK
    <3>5. Status(t)' = "running"
      <4>1. task'[c] = t /\ state'[c] = "Running"
          BY <2>6, <3>2, <3>4 DEF RunTask, TypeOK
      <4>2. Status(t)' = Progress(c)'
          BY <1>b, <2>6, <4>1 DEF StatusIs, RunTask
      <4> QED
          BY <2>6, <4>1, <4>2 DEF RunTask, Progress
    <3>6. Executor!Becomes(t, "queued", "running")
        BY <1>5, <1>a, <2>6, <3>1, <3>2, <3>4, <3>5 DEF RunTask
    <3> QED
        BY <3>3, <3>6 DEF Executor!Next, Executor!Run
  <2>7. CASE SwitchAway
      BY <1>1, <1>a, <2>7 DEF SwitchAway, LeaveRun
  <2>8. CASE Resume
    <3>1. c \in Due /\ task[c] \in Tasks /\ ~LeaveRun
        BY <2>8, DueIs DEF WhoIsDue, Resume, CallPlaces, StackConsistent, LeaveRun
    <3>2. state[c] = "Queued"
        BY <3>1 DEF Placed, QueuedOnce
    <3>3. Executor!No("running")
        BY <3>2, NobodyRuns
    <3> QED
        BY <1>2, <1>a, <2>8, <3>1, <3>2, <3>3 DEF Resume, Unblock, Returns
  <2>9. CASE Relock
      BY <1>1, <1>a, <2>9 DEF Relock, Returns, LeaveRun
  <2>10. CASE WaitPred
    <3>1. ~LeaveRun /\ timeout[c] = NoTime /\ UNCHANGED Places
        BY <2>10 DEF WaitPred, LeaveRun, Placed, Untimed, Returns
    <3> QED
        BY <1>1, <1>6, <1>a, <2>10, <3>1 DEF WaitPred
  <2> QED
      BY <1>8, <2>1, <2>2, <2>3, <2>4, <2>5, <2>6, <2>7, <2>8, <2>9, <2>10 DEF Loop
<1>9. ASSUME NEW tp \in TimePoints \cup {NoTime}, WaitCall(tp) \/ WaitBare(tp) PROVE Goal
  <2>1. ~LeaveRun /\ UNCHANGED Places
      BY <1>9 DEF WaitCall, WaitBare, Calls, LeaveRun
  <2>2. tp = NoTime
      OBVIOUS
  <2> QED
      BY <1>1, <1>6, <1>9, <1>a, <2>1, <2>2 DEF WaitCall, WaitBare, Calls
<1>10. CASE TaskEnds
  <2>0. PICK t \in Tasks : t = task[c]
      BY <1>10 DEF TaskEnds, StackConsistent
  <2>1. /\ done' = done \cup {t} /\ ~LeaveRun /\ pc[c] = "task"
        /\ task' = [task EXCEPT ![c] = NoTask] /\ UNCHANGED <<fresh, stolen, tasks, state>>
      BY <1>10, <2>0 DEF TaskEnds, LeaveRun
  <2>2. state[c] = "Running"
      BY <2>1 DEF StatePlaces, Suspended, Inside
  <2>3. Status(t) = "running" /\ Status(t)' = "done"
      BY <1>b, <2>0, <2>1, <2>2 DEF StatusIs, Progress
  <2>4. ASSUME NEW u \in Tasks, u # t PROVE Status(u)' = Status(u)
    <3>1. \A f \in Fibers : task[f] = u => task'[f] = u /\ Progress(f)' = Progress(f)
        BY <2>0, <2>1, <2>4 DEF Progress, TypeOK
    <3> QED
        BY <2>1, <2>4, <3>1, StatusKept
  <2>5. Executor!Becomes(t, "running", "done")
      BY <1>a, <2>1, <2>3, <2>4, ExecutorBecomes
  <2> QED
      BY <2>1, <2>5 DEF Executor!Next, Executor!Finish
<1>11. ASSUME NEW t \in Tasks, TaskEnqueues(t) \/ SpinSteals(t) PROVE Goal
  <2>1. pc[c] \in {"task", "spin"} /\ ~LeaveRun
      BY <1>11 DEF TaskEnqueues, SpinSteals, LeaveRun
  <2>2. pc[Main] # "exited"
      BY <2>1 DEF SInv, Exited
  <2> QED
      BY <1>4, <1>11, <1>a, <2>1, <2>2 DEF TaskEnqueues, SpinSteals
<1>12. ASSUME NEW t \in Tasks, TaskSignals(t) PROVE Goal
    BY <1>1, <1>7, <1>12, <1>a DEF TaskSignals, LeaveRun, Waits
<1>13. ASSUME NEW e \in Externals, External(e) PROVE Goal
  <2>1. Going
      BY <1>13, OthersLeaveStacks DEF Stacks
  <2>2. ASSUME NEW t \in Tasks, Enqueue(e, t) PROVE Goal
      BY <1>4, <2>1, <2>2 DEF Enqueue
  <2>3. CASE Steal(e)
    <3>1. PICK t \in Tasks : t = Head(tasks)
        BY <2>3, TailElements DEF Steal, TypeOK
    <3>2. Status(t)' = "stolen"
        BY <1>b, <2>3, <3>1 DEF StatusIs, Steal
    <3>3. /\ tasks # <<>> /\ tasks' = Tail(tasks) /\ stolen' = stolen \cup {t}
          /\ UNCHANGED <<task, fresh, done, state>>
        BY <2>3, <3>1 DEF Steal
    <3>4. Executor!Becomes(t, "queued", "stolen")
        BY <1>5, <2>1, <3>1, <3>2, <3>3
    <3> QED
        BY <3>4 DEF Executor!Next, Executor!GiveAway
  <2>4. ASSUME NEW f \in Fibers, call[f] # "none", EnqueueFiber(e, f) PROVE Goal
      BY <1>1, <1>7, <2>1, <2>4 DEF EnqueueFiber
  <2>5. CASE SignalNotifies(e)
      BY <2>4, <2>5 DEF SignalNotifies, Signals, Steps, TypeOK
  <2>6. ASSUME NEW f \in Fibers, NotifyBare(e, f) PROVE Goal
      BY <2>4, <2>6 DEF NotifyBare
  <2>7. ASSUME NEW t \in Tasks, NotifyAdded(e) \/ Signal(e, t) PROVE Goal
      BY <1>1, <2>1, <2>7 DEF NotifyAdded, Signal
  <2> QED
      BY <1>13, <2>2, <2>3, <2>5, <2>6, <2>7, WorkerAssumption DEF External
<1>14. CASE Tick
    BY <1>1, <1>14 DEF Tick
<1>15. CASE UNCHANGED vars
    BY <1>1, <1>15 DEF vars
<1> QED
    BY <1>8, <1>9, <1>10, <1>11, <1>12, <1>13, <1>14, <1>15 DEF Next, Task, Terminated

LEMMA ExecutorInit == Init => Executor!Init
<1> SUFFICES ASSUME Init PROVE Executor!Init
    OBVIOUS
<1> DEFINE Bound == IF Mode = "SingleThreaded" THEN {FinalTask} ELSE {}
<1>1. ASSUME NEW t \in Tasks PROVE Status(t) = IF t \in Bound THEN "running" ELSE "new"
  <2>1. CASE t \in fresh
      BY <2>1, WorkerAssumption DEF Init, Status
  <2>2. CASE t \notin fresh
      BY <2>2, WorkerAssumption DEF Init, Status
  <2> QED
      BY <2>1, <2>2
<1>2. (pc[Main] = "exited") = FALSE
    BY WorkerAssumption DEF Init, Main
<1> QED
    BY <1>1, <1>2 DEF Executor!Init

\* Without timeouts a worker is a TaskExecutor: tasks run one at a time and once, a
\* task that waits goes on after a notification and before a new one starts, and
\* the worker stops with nothing left.
THEOREM WorkerImplementsTaskExecutor ==
    ASSUME TimePoints = {}
    PROVE  Spec => ImplementsTaskExecutor
<1>1. Init => StopAsked
    BY DEF Init, StopAsked
<1>2. StopAsked /\ [Next]_vars => StopAsked'
    BY StopAskedStep
<1>3. SInv /\ Placed /\ StopAsked /\ SInv' /\ [Next]_vars => [Executor!Next]_(Executor!vars)
    BY ExecutorStep
<1>4. SInv /\ (TimePoints = {} => Placed) => Placed
    OBVIOUS
<1> QED
    BY <1>1, <1>2, <1>3, <1>4, ExecutorInit, PlacedInductive, PTL
    DEF Spec, ImplementsTaskExecutor, Executor!Spec
=============================================================================
