-------------------------------- MODULE Worker --------------------------------
(***************************************************************************)
(* One worker of the scheduler (src/worker.cpp): a thread that runs tasks  *)
(* on fibers, switches to another fiber when a task waits, sleeps when     *)
(* there is nothing to do and ends when it was told to stop and everything *)
(* is done.  Externals are the other threads: they hand over tasks, steal  *)
(* them, and signal the condition a waiting task waits for.                *)
(*                                                                         *)
(* Everything under work.mutex is one step at a time of the worker, with   *)
(* mutex = TRUE from the step that locks it to the step that unlocks it; a *)
(* critical section of another thread is one step that needs ~mutex.       *)
(***************************************************************************)
EXTENDS WaitingFibers, Sequences, FiniteSets

CONSTANTS
    Mode,         \* "MultiThreaded" or "SingleThreaded"
    Tasks,        \* the tasks
    FinalTask,    \* MultiThreaded: the task stop() enqueues, which sets shutdown;
                  \* SingleThreaded: the user's code from bind() to unbind()
    NoTask,       \* no task on the stack of a fiber
    SameThread,   \* the tasks with the flag SameThread
    Externals,    \* the other threads
    NoThread,     \* the user's lock is free
    Self,         \* the user's lock is held by the worker's thread
    TimePoints,   \* the timeouts a task may wait with; {} for untimed waits only
    Overloads,    \* the overloads of Worker::wait() the tasks call
    MaxWaits,     \* bound of the calls of Worker::wait()
    MaxQueue      \* bound of work.fibers

ASSUME WorkerAssumption ==
    /\ Mode \in {"MultiThreaded", "SingleThreaded"}
    /\ FinalTask \in Tasks /\ NoTask \notin Tasks
    /\ SameThread \subseteq Tasks
    /\ Mode = "MultiThreaded" => FinalTask \in SameThread
    /\ NoThread \notin Externals /\ Self \notin Externals /\ NoThread # Self
    /\ 0 \in Fibers
    /\ TimePoints \subseteq Time
    /\ Overloads \subseteq {"bare", "pred"}
    /\ MaxWaits \in Nat /\ MaxQueue \in Nat

Main == 0   \* the id of mainFiber; the others are numbered from 1

VARIABLES
    \* Worker::Work
    mutex,             \* held by the worker's thread
    num,
    numBlockedFibers,
    tasks,             \* the deque of tasks
    fibers,            \* the deque of fibers that can resume
    waiting,           \* the container of fibers that wait with a timeout
    notifyAdded,
    \* Worker
    currentFiber,
    idleFibers,
    workerFibers,      \* how many worker fibers were created: fibers 1..workerFibers
    shutdown,
    \* the sleep of the worker's thread on work.added
    awake,             \* it was notified
    sleepUntil,        \* the time point of wait_until(), or NoTime
    \* each fiber
    state,             \* Fiber::state
    pc,                \* where its stack stands
    task,              \* the task on its stack
    call,              \* the overload of Worker::wait() on its stack, or "none"
    timeout,           \* the argument of that call
    \* the users of the worker
    lock,              \* the owner of the lock the tasks wait with
    pred,              \* the condition of each task
    step,              \* each external: inside signal(), or holding a notify_one()
    fresh,             \* tasks no worker has
    done,              \* tasks that ran to their end here
    stolen,            \* tasks another worker took
    waits,             \* calls of Worker::wait() so far
    now                \* the clock

queues  == <<num, tasks, fibers>>
pool    == <<currentFiber, idleFibers, workerFibers>>
sleep   == <<notifyAdded, awake, sleepUntil>>
stack   == <<task, call, timeout>>
users   == <<lock, pred, step>>
history == <<fresh, done, stolen, waits, now>>
vars == <<mutex, queues, numBlockedFibers, waiting, pool, shutdown, sleep, state,
          pc, stack, users, history>>

-----------------------------------------------------------------------------
At(l) == pc[currentFiber] = l
Goto(l) == pc' = [pc EXCEPT ![currentFiber] = l]

Lock == ~mutex /\ mutex' = TRUE
Unlock == mutex' = FALSE

\* The fiber sleeps or spins: work.mutex is free though the stack is in run().
Sleeping == {"runSleep", "workSleep"}

\* The places at which the worker's thread holds work.mutex.
Locked == {"run", "runUntilShutdown", "waitForWork", "workWait", "fiberTimeouts",
           "suspend", "runUntilIdle", "switched", "blocked", "undefined"}

Labels == Locked \cup Sleeping \cup
          {"unborn", "start", "spin", "task", "wait", "relock", "ended", "exited"}

\* A fiber that the notify-all of an Event or a WaitGroup of task t reaches: it
\* is in ConditionVariable::waiting while its stack is in ConditionVariable::wait.
Waits(f, t) == call[f] = "pred" /\ task[f] = t

Idling    == [at |-> "idle", fiber |-> Main]
Notifying == [at |-> "notify", fiber |-> Main]
Steps == [at : {"idle", "signal", "notify"}, fiber : Fibers]

-----------------------------------------------------------------------------
Init ==
    /\ mutex = FALSE /\ num = 0 /\ numBlockedFibers = 0
    /\ tasks = <<>> /\ fibers = <<>> /\ waiting = none
    /\ currentFiber = Main /\ idleFibers = {} /\ workerFibers = 0
    /\ shutdown = FALSE
    /\ notifyAdded = TRUE /\ awake = FALSE /\ sleepUntil = NoTime
    /\ state = [f \in Fibers |-> "Running"]
    /\ pc = [f \in Fibers |-> IF f # Main THEN "unborn"
                              ELSE IF Mode = "MultiThreaded" THEN "start" ELSE "task"]
    /\ task = [f \in Fibers |-> IF f = Main /\ Mode = "SingleThreaded"
                                THEN FinalTask ELSE NoTask]
    /\ call = [f \in Fibers |-> "none"]
    /\ timeout = [f \in Fibers |-> NoTime]
    /\ lock = NoThread
    /\ pred = [t \in Tasks |-> FALSE]
    /\ step = [e \in Externals |-> Idling]
    /\ fresh = IF Mode = "MultiThreaded" THEN Tasks ELSE Tasks \ {FinalTask}
    /\ done = {} /\ stolen = {} /\ waits = 0 /\ now = 0

-----------------------------------------------------------------------------
(* Variants of the operators below that a slip in the code would give.      *)

PushTaskUncounted(t) == tasks' = Append(tasks, t) /\ UNCHANGED num

NeedsEnqueueIfTimed(f) == state[f] = "Waiting"

NeedsEnqueueAgain(f) == state[f] # "Running"

NotifiesNobody(e) ==
    /\ step' = [step EXCEPT ![e] = Idling]
    /\ lock' = IF lock = e THEN NoThread ELSE lock

MayStopOverBlocked == shutdown /\ num = 0

SuspendsRunning(tp) ==
    /\ Lock
    /\ waiting' = IF tp = NoTime THEN waiting ELSE add(waiting, tp, currentFiber)
    /\ Goto("waitForWork")
    /\ UNCHANGED state

SwitchToNewFirst ==
    /\ fibers = <<>>
    /\ workerFibers + 1 \in Fibers
    /\ workerFibers' = workerFibers + 1
    /\ currentFiber' = workerFibers + 1
    /\ pc' = [pc EXCEPT ![currentFiber] = "blocked",
                        ![workerFibers + 1] = IF Mode = "MultiThreaded" THEN "run"
                                              ELSE "runUntilShutdown"]
    /\ UNCHANGED <<num, fibers, idleFibers>>

UnblockUncounted ==
    /\ state' = [state EXCEPT ![currentFiber] = "Running"]
    /\ UNCHANGED numBlockedFibers

-----------------------------------------------------------------------------
(* Work: the queues, filled and emptied by the worker and by the others. *)

\* enqueueAndUnlock(), without the notification.
PushTask(t) ==
    /\ tasks' = Append(tasks, t)
    /\ num' = num + 1

\* enqueue(Fiber*), without the notification: a fiber that runs or is already
\* queued is left alone.
NeedsEnqueue(f) == state[f] \notin {"Running", "Queued"}

PushFiber(f) ==
    /\ Len(fibers) < MaxQueue
    /\ waiting' = IF state[f] = "Waiting" THEN erase(waiting, f) ELSE waiting
    /\ fibers' = Append(fibers, f)
    /\ state' = [state EXCEPT ![f] = "Queued"]
    /\ num' = num + 1

\* Both enqueue() read notifyAdded under the mutex and notify after they
\* unlocked it.  A signal() keeps the user's lock until it returns.
Notifies(e) ==
    /\ step' = [step EXCEPT ![e] = IF notifyAdded THEN Notifying ELSE Idling]
    /\ lock' = IF lock = e /\ ~notifyAdded THEN NoThread ELSE lock

Enqueue(e, t) ==   \* the scheduler gives tasks to MultiThreaded workers only
    /\ Mode = "MultiThreaded"
    /\ ~mutex /\ pc[Main] # "exited"
    /\ step[e] = Idling
    /\ t \in fresh
    /\ PushTask(t)
    /\ Notifies(e)
    /\ fresh' = fresh \ {t}
    /\ UNCHANGED <<mutex, numBlockedFibers, fibers, waiting, pool, shutdown, sleep,
                   state, pc, stack, pred, done, stolen, waits, now>>

NotifyAdded(e) ==
    /\ step[e].at = "notify"
    /\ awake' = (awake \/ pc[currentFiber] \in Sleeping)
    /\ step' = [step EXCEPT ![e] = Idling]
    /\ lock' = IF lock = e THEN NoThread ELSE lock
    /\ UNCHANGED <<mutex, queues, numBlockedFibers, waiting, pool, shutdown,
                   notifyAdded, sleepUntil, state, pc, stack, pred, history>>

\* steal(), called by the worker of another thread.
Steal(e) ==
    /\ Mode = "MultiThreaded"
    /\ ~mutex
    /\ step[e] = Idling
    /\ tasks # <<>> /\ Head(tasks) \notin SameThread
    /\ num' = num - 1
    /\ tasks' = Tail(tasks)
    /\ stolen' = stolen \cup {Head(tasks)}
    /\ UNCHANGED <<mutex, numBlockedFibers, fibers, waiting, pool, shutdown, sleep,
                   state, pc, stack, users, fresh, done, waits, now>>

-----------------------------------------------------------------------------
(* Other threads that make a condition true (Event::signal, WaitGroup::done) *)
(* or notify a fiber directly (Fiber::notify).                               *)

Signal(e, t) ==
    /\ step[e] = Idling
    /\ lock = NoThread
    /\ \E f \in Fibers : task[f] = t
    /\ ~pred[t]
    /\ pred' = [pred EXCEPT ![t] = TRUE]
    /\ \/ /\ \A f \in Fibers : ~Waits(f, t)
          /\ UNCHANGED <<lock, step>>
       \/ \E f \in Fibers :
             /\ Waits(f, t)
             /\ lock' = e
             /\ step' = [step EXCEPT ![e] = [at |-> "signal", fiber |-> f]]
    /\ UNCHANGED <<mutex, queues, numBlockedFibers, waiting, pool, shutdown, sleep,
                   state, pc, stack, history>>

\* Fiber::notify() of f by e, the body of enqueue(Fiber*).
EnqueueFiber(e, f) ==
    /\ ~mutex
    /\ \/ /\ NeedsEnqueue(f)
          /\ PushFiber(f)
          /\ Notifies(e)
       \/ /\ ~NeedsEnqueue(f)
          /\ step' = [step EXCEPT ![e] = Idling]
          /\ lock' = IF lock = e THEN NoThread ELSE lock
          /\ UNCHANGED <<num, fibers, waiting, state>>
    /\ UNCHANGED <<mutex, numBlockedFibers, tasks, pool, shutdown, sleep, pc, stack,
                   pred, history>>

SignalNotifies(e) == step[e].at = "signal" /\ EnqueueFiber(e, step[e].fiber)

NotifyBare(e, f) == step[e] = Idling /\ call[f] = "bare" /\ EnqueueFiber(e, f)

-----------------------------------------------------------------------------
(* Work::wait(): the worker's thread sleeps on work.added.                  *)

RunPredicate == num > 0 \/ isWaiting(waiting) \/ shutdown
WorkPredicate == num > 0 \/ (shutdown /\ numBlockedFibers = 0)

\* Falls asleep on a false predicate.  first() is read when Work::wait() is
\* called; a predicate that is false again after a wake-up means that no fiber
\* was enqueued meanwhile, so first() has not changed.
FallAsleep(l) ==
    /\ Unlock
    /\ Goto(l)
    /\ notifyAdded' = TRUE
    /\ awake' = FALSE
    /\ \/ /\ isUndefined(waiting)
          /\ sleepUntil' \in Time
       \/ \E t \in waiting.timeouts :
             /\ isWaiting(waiting) /\ isBegin(waiting, t)
             /\ sleepUntil' = t.timepoint
       \/ /\ ~isWaiting(waiting)
          /\ sleepUntil' = NoTime

WorkWait(here, asleep, predicate, next) ==
    /\ At(here)
    /\ \/ /\ predicate
          /\ Goto(next)
          /\ notifyAdded' = FALSE
          /\ UNCHANGED <<mutex, awake, sleepUntil>>
       \/ /\ ~predicate
          /\ FallAsleep(asleep)
    /\ UNCHANGED <<queues, numBlockedFibers, waiting, pool, shutdown, state, stack,
                   users, history>>

\* A notified or a spurious wake-up evaluates the predicate again.
WakeUp(here, asleep) ==
    /\ At(asleep)
    /\ Lock
    /\ Goto(here)
    /\ awake' = FALSE
    /\ UNCHANGED <<queues, numBlockedFibers, waiting, pool, shutdown, notifyAdded,
                   sleepUntil, state, stack, users, history>>

\* wait_until() returns at its time point, whatever the predicate says.  run()
\* never sleeps with a time point: its predicate holds when somebody waits.
ThreadTimeOut ==
    /\ At("workSleep")
    /\ sleepUntil # NoTime /\ sleepUntil <= now
    /\ Lock
    /\ Goto("fiberTimeouts")
    /\ notifyAdded' = FALSE
    /\ awake' = FALSE
    /\ UNCHANGED <<queues, numBlockedFibers, waiting, pool, shutdown, sleepUntil,
                   state, stack, users, history>>

RunWait    == WorkWait("run", "runSleep", RunPredicate, "runUntilShutdown")
RunWake    == WakeUp("run", "runSleep")
ThreadWait    == WorkWait("workWait", "workSleep", WorkPredicate, "fiberTimeouts")
ThreadWake    == WakeUp("workWait", "workSleep")

-----------------------------------------------------------------------------
(* The loops of a fiber that runs tasks: run(), runUntilShutdown(),         *)
(* waitForWork(), runUntilIdle().  waitForWork() is also called by          *)
(* suspend(), on the stack of a task.                                       *)

Start ==   \* the body of the worker's thread, MultiThreaded only
    /\ At("start")
    /\ Lock
    /\ Goto("run")
    /\ UNCHANGED <<queues, numBlockedFibers, waiting, pool, shutdown, sleep, state,
                   stack, users, history>>

MayStop == shutdown /\ num = 0 /\ numBlockedFibers = 0

KeepRunning ==
    /\ At("runUntilShutdown") /\ ~MayStop
    /\ Goto("waitForWork")
    /\ UNCHANGED <<mutex, queues, numBlockedFibers, waiting, pool, shutdown, sleep,
                   state, stack, users, history>>

\* runUntilShutdown() returns: run() switches to mainFiber, on which the thread
\* of the worker ends (or, SingleThreaded, stop() returns).
LeaveRun ==
    /\ At("runUntilShutdown") /\ MayStop
    /\ \/ /\ currentFiber = Main
          /\ Goto("exited")
          /\ Unlock
          /\ UNCHANGED currentFiber
       \/ /\ currentFiber # Main
          /\ Goto("ended")
          /\ currentFiber' = Main
          /\ UNCHANGED mutex
    /\ UNCHANGED <<queues, numBlockedFibers, waiting, idleFibers, workerFibers,
                   shutdown, sleep, state, stack, users, history>>

AfterWaitForWork == IF task[currentFiber] = NoTask THEN "runUntilIdle" ELSE "suspend"

WaitForWork ==
    /\ At("waitForWork")
    /\ \/ /\ num > 0
          /\ Goto(AfterWaitForWork)
          /\ UNCHANGED mutex
       \/ /\ num = 0 /\ Mode = "MultiThreaded"
          /\ Goto("spin")
          /\ Unlock
       \/ /\ num = 0 /\ Mode = "SingleThreaded"
          /\ Goto("workWait")
          /\ UNCHANGED mutex
    /\ UNCHANGED <<queues, numBlockedFibers, waiting, pool, shutdown, sleep, state,
                   stack, users, history>>

\* spinForWorkAndLock() sees num > 0 or gives up after a while.
SpinEnd ==
    /\ At("spin")
    /\ Lock
    /\ Goto("workWait")
    /\ UNCHANGED <<queues, numBlockedFibers, waiting, pool, shutdown, sleep, state,
                   stack, users, history>>

\* spinForWorkAndLock() steals t from another worker.
SpinSteals(t) ==
    /\ At("spin")
    /\ Lock
    /\ t \in fresh \ SameThread
    /\ PushTask(t)
    /\ fresh' = fresh \ {t}
    /\ Goto("workWait")
    /\ UNCHANGED <<numBlockedFibers, fibers, waiting, pool, shutdown, sleep, state,
                   stack, users, done, stolen, waits, now>>

\* One turn of enqueueFiberTimeouts() for which take() returns a fiber.  It does
\* not set the state of the fiber.
TakeTimeout(t) ==
    /\ At("fiberTimeouts")
    /\ canTake(waiting, t, now)
    /\ Len(fibers) < MaxQueue
    /\ waiting' = afterTake(waiting, t)
    /\ fibers' = Append(fibers, t.fiber)
    /\ num' = num + 1
    /\ UNCHANGED <<mutex, numBlockedFibers, tasks, pool, shutdown, sleep, state, pc,
                   stack, users, history>>

\* take() returns nullptr and waitForWork() returns.  An undefined begin() gives
\* either a time point not yet reached or a wild pointer, which crashes.
TimeoutsEnd ==
    /\ At("fiberTimeouts")
    /\ ~ \E t \in waiting.timeouts : canTake(waiting, t, now)
    /\ \/ Goto(AfterWaitForWork)
       \/ isUndefined(waiting) /\ Goto("undefined")
    /\ UNCHANGED <<mutex, queues, numBlockedFibers, waiting, pool, shutdown, sleep,
                   state, stack, users, history>>

RunFiber ==
    /\ At("runUntilIdle") /\ fibers # <<>>
    /\ num' = num - 1
    /\ fibers' = Tail(fibers)
    /\ state' = [state EXCEPT ![currentFiber] = "Idle"]
    /\ idleFibers' = idleFibers \cup {currentFiber}
    /\ currentFiber' = Head(fibers)
    /\ Goto("switched")
    /\ UNCHANGED <<mutex, numBlockedFibers, tasks, waiting, workerFibers, shutdown,
                   sleep, stack, users, history>>

RunTask ==
    /\ At("runUntilIdle") /\ fibers = <<>> /\ tasks # <<>>
    /\ num' = num - 1
    /\ tasks' = Tail(tasks)
    /\ task' = [task EXCEPT ![currentFiber] = Head(tasks)]
    /\ Goto("task")
    /\ Unlock
    /\ UNCHANGED <<numBlockedFibers, fibers, waiting, pool, shutdown, sleep, state,
                   call, timeout, users, history>>

RunUntilIdleEnd ==
    /\ At("runUntilIdle") /\ fibers = <<>> /\ tasks = <<>>
    /\ Goto("runUntilShutdown")
    /\ UNCHANGED <<mutex, queues, numBlockedFibers, waiting, pool, shutdown, sleep,
                   state, stack, users, history>>

\* switchToFiber() of RunFiber returns.
ResumeIdle ==
    /\ At("switched")
    /\ state' = [state EXCEPT ![currentFiber] = "Running"]
    /\ Goto("runUntilIdle")
    /\ UNCHANGED <<mutex, queues, numBlockedFibers, waiting, pool, shutdown, sleep,
                   stack, users, history>>

-----------------------------------------------------------------------------
(* A task: it may enqueue tasks, signal, wait, and ends.                    *)

TaskEnqueues(t) ==
    /\ At("task")
    /\ ~mutex
    /\ t \in fresh \ {FinalTask}
    /\ PushTask(t)
    /\ fresh' = fresh \ {t}
    /\ UNCHANGED <<mutex, numBlockedFibers, fibers, waiting, pool, shutdown, sleep,
                   state, pc, stack, users, done, stolen, waits, now>>

\* The task makes the condition of t true; it holds the user's lock throughout.
\* Its own thread does not sleep, so the notification of work.added is lost.
TaskSignals(t) ==
    /\ At("task")
    /\ ~mutex /\ lock = NoThread
    /\ \E f \in Fibers : task[f] = t
    /\ ~pred[t]
    /\ pred' = [pred EXCEPT ![t] = TRUE]
    /\ \/ \E f \in Fibers : Waits(f, t) /\ NeedsEnqueue(f) /\ PushFiber(f)
       \/ /\ \A f \in Fibers : ~(Waits(f, t) /\ NeedsEnqueue(f))
          /\ UNCHANGED <<num, fibers, waiting, state>>
    /\ UNCHANGED <<mutex, numBlockedFibers, tasks, pool, shutdown, sleep, pc, stack,
                   lock, step, history>>

\* The end of a task; the end of FinalTask sets shutdown (stop()).
TaskEnds ==
    /\ At("task")
    /\ Lock
    /\ LET t == task[currentFiber]
       IN  /\ done' = done \cup {t}
           /\ shutdown' = (shutdown \/ t = FinalTask)
           /\ Goto(IF t = FinalTask /\ Mode = "SingleThreaded"
                   THEN "runUntilShutdown" ELSE "runUntilIdle")
    /\ task' = [task EXCEPT ![currentFiber] = NoTask]
    /\ UNCHANGED <<queues, numBlockedFibers, waiting, pool, sleep, state, call,
                   timeout, users, fresh, stolen, waits, now>>

\* The task calls Worker::wait() of the overload o with the timeout tp.
Calls(o, tp) ==
    /\ At("task")
    /\ waits < MaxWaits /\ waits' = waits + 1
    /\ task[currentFiber] = FinalTask => Mode = "SingleThreaded"
    /\ o \in Overloads
    /\ call' = [call EXCEPT ![currentFiber] = o]
    /\ timeout' = [timeout EXCEPT ![currentFiber] = tp]
    /\ UNCHANGED task

Returns ==
    /\ Goto("task")
    /\ call' = [call EXCEPT ![currentFiber] = "none"]
    /\ timeout' = [timeout EXCEPT ![currentFiber] = NoTime]
    /\ UNCHANGED task

\* suspend() up to waitForWork(): the fiber can be notified from here on.
Suspend(tp) ==
    /\ Lock
    /\ state' = [state EXCEPT ![currentFiber] = IF tp = NoTime THEN "Yielded"
                                                ELSE "Waiting"]
    /\ waiting' = IF tp = NoTime THEN waiting ELSE add(waiting, tp, currentFiber)
    /\ Goto("waitForWork")

\* wait(timeout)
WaitBare(tp) ==
    /\ Calls("bare", tp)
    /\ Suspend(tp)
    /\ UNCHANGED <<queues, numBlockedFibers, pool, shutdown, sleep, users, fresh,
                   done, stolen, now>>

\* wait(lock, timeout, pred), under the user's lock
WaitCall(tp) ==
    /\ Calls("pred", tp)
    /\ lock = NoThread /\ lock' = Self
    /\ Goto("wait")
    /\ UNCHANGED <<mutex, queues, numBlockedFibers, waiting, pool, shutdown, sleep,
                   state, pred, step, fresh, done, stolen, now>>

\* A true condition is reset by the waiter (Event::wait, Mode::Auto).  work.mutex
\* is locked before the user's lock is released.
WaitPred ==
    /\ At("wait")
    /\ LET t == task[currentFiber]
       IN  \/ /\ pred[t]
              /\ pred' = [pred EXCEPT ![t] = FALSE]
              /\ Returns
              /\ UNCHANGED <<mutex, state, waiting>>
           \/ /\ ~pred[t]
              /\ Suspend(timeout[currentFiber])
              /\ UNCHANGED <<pred, stack>>
    /\ lock' = NoThread
    /\ UNCHANGED <<queues, numBlockedFibers, pool, shutdown, sleep, step, history>>

\* suspend() after waitForWork(): another fiber gets the thread, a queued one
\* first, then an idle one, then a new one.
SwitchToQueued ==
    /\ fibers # <<>>
    /\ num' = num - 1
    /\ fibers' = Tail(fibers)
    /\ currentFiber' = Head(fibers)
    /\ Goto("blocked")
    /\ UNCHANGED <<idleFibers, workerFibers>>

SwitchToIdle ==
    /\ fibers = <<>>
    /\ \E f \in idleFibers : idleFibers' = idleFibers \ {f} /\ currentFiber' = f
    /\ Goto("blocked")
    /\ UNCHANGED <<num, fibers, workerFibers>>

SwitchToNew ==   \* createWorkerFiber(); the new fiber starts in run()
    /\ fibers = <<>> /\ idleFibers = {}
    /\ workerFibers + 1 \in Fibers
    /\ workerFibers' = workerFibers + 1
    /\ currentFiber' = workerFibers + 1
    /\ pc' = [pc EXCEPT ![currentFiber] = "blocked",
                        ![workerFibers + 1] = IF Mode = "MultiThreaded" THEN "run"
                                              ELSE "runUntilShutdown"]
    /\ UNCHANGED <<num, fibers, idleFibers>>

SwitchAway ==
    /\ At("suspend")
    /\ numBlockedFibers' = numBlockedFibers + 1
    /\ SwitchToQueued \/ SwitchToIdle \/ SwitchToNew
    /\ UNCHANGED <<mutex, tasks, waiting, shutdown, sleep, state, stack, users,
                   history>>

\* switchToFiber() of SwitchAway returns, and so does suspend().
Unblock ==
    /\ numBlockedFibers' = numBlockedFibers - 1
    /\ state' = [state EXCEPT ![currentFiber] = "Running"]

Resume ==
    /\ At("blocked")
    /\ Unblock
    /\ Unlock
    /\ \/ call[currentFiber] = "bare" /\ Returns
       \/ call[currentFiber] = "pred" /\ Goto("relock") /\ UNCHANGED stack
    /\ UNCHANGED <<queues, waiting, pool, shutdown, sleep, users, history>>

\* wait(lock, timeout, pred) locks the user's lock and looks at the clock before
\* it evaluates the condition again.
Relock ==
    /\ At("relock")
    /\ lock = NoThread
    /\ LET tp == timeout[currentFiber]
       IN  \/ /\ tp # NoTime /\ tp <= now
              /\ Returns
              /\ UNCHANGED lock
           \/ /\ tp = NoTime \/ now < tp
              /\ Goto("wait")
              /\ lock' = Self
              /\ UNCHANGED stack
    /\ UNCHANGED <<mutex, queues, numBlockedFibers, waiting, pool, shutdown, sleep,
                   state, pred, step, history>>

\* enqueueFiberTimeouts() reads the clock once, before its loop.
Tick ==
    /\ TimePoints # {} /\ now < MaxTime
    /\ ~At("fiberTimeouts")
    /\ now' = now + 1
    /\ UNCHANGED <<mutex, queues, numBlockedFibers, waiting, pool, shutdown, sleep,
                   state, pc, stack, users, fresh, done, stolen, waits>>

-----------------------------------------------------------------------------
Loop ==
    \/ Start \/ KeepRunning \/ LeaveRun \/ WaitForWork \/ SpinEnd
    \/ RunWait \/ RunWake
    \/ ThreadWait \/ ThreadWake \/ ThreadTimeOut
    \/ \E t \in waiting.timeouts : TakeTimeout(t)
    \/ TimeoutsEnd
    \/ RunFiber \/ RunTask \/ RunUntilIdleEnd \/ ResumeIdle
    \/ SwitchAway \/ Resume \/ Relock \/ WaitPred

Task ==
    \/ \E t \in Tasks : TaskEnqueues(t) \/ TaskSignals(t) \/ SpinSteals(t)
    \/ \E tp \in TimePoints \cup {NoTime} : WaitCall(tp) \/ WaitBare(tp)
    \/ TaskEnds

External(e) ==
    \/ \E t \in Tasks : Enqueue(e, t) \/ Signal(e, t)
    \/ Steal(e)
    \/ NotifyAdded(e)
    \/ SignalNotifies(e)
    \/ \E f \in Fibers : NotifyBare(e, f)

\* The thread of the worker has ended, or the process crashed.
Terminated ==
    /\ pc[Main] = "exited" \/ At("undefined")
    /\ UNCHANGED vars

Next ==
    \/ Loop
    \/ Task
    \/ \E e \in Externals : External(e)
    \/ Tick
    \/ Terminated

Spec == Init /\ [][Next]_vars

-----------------------------------------------------------------------------
(* Fairness: the threads run, notifications arrive, and a thread that asks   *)
(* for a mutex gets it when the mutex is free again and again (strong        *)
(* fairness, spurious wake-ups can take it in between).  A task that runs    *)
(* ends, what it waits for is signalled in the end, and stop() is called.    *)
(* Nothing forces a spurious wake-up, a theft, or a task to wait.            *)

Fairness ==
    /\ WF_vars(Loop /\ ~RunWake /\ ~ThreadWake)
    /\ WF_vars((RunWake \/ ThreadWake) /\ awake)
    /\ SF_vars(TaskEnds)
    /\ \A e \in Externals : WF_vars(NotifyAdded(e)) /\ SF_vars(SignalNotifies(e))
    /\ \A t \in Tasks : SF_vars(\E e \in Externals : Signal(e, t))
    /\ \A f \in Fibers : SF_vars(\E e \in Externals : NotifyBare(e, f))
    /\ SF_vars(\E e \in Externals : Enqueue(e, FinalTask))

FairSpec == Spec /\ Fairness

-----------------------------------------------------------------------------
(* Properties *)

\* The variables keep their types.
TypeOK ==
    /\ mutex \in BOOLEAN /\ num \in Nat /\ numBlockedFibers \in Nat
    /\ tasks \in Seq(Tasks) /\ fibers \in Seq(Fibers) /\ waiting \in Containers
    /\ notifyAdded \in BOOLEAN /\ awake \in BOOLEAN /\ sleepUntil \in Time \cup {NoTime}
    /\ currentFiber \in Fibers /\ idleFibers \subseteq Fibers
    /\ workerFibers \in Nat /\ shutdown \in BOOLEAN
    /\ state \in [Fibers -> {"Idle", "Waiting", "Yielded", "Queued", "Running"}]
    /\ pc \in [Fibers -> Labels]
    /\ task \in [Fibers -> Tasks \cup {NoTask}]
    /\ call \in [Fibers -> {"none", "bare", "pred"}]
    /\ timeout \in [Fibers -> Time \cup {NoTime}]
    /\ lock \in Externals \cup {NoThread, Self}
    /\ pred \in [Tasks -> BOOLEAN]
    /\ step \in [Externals -> Steps]
    /\ fresh \subseteq Tasks /\ done \subseteq Tasks /\ stolen \subseteq Tasks
    /\ waits \in Nat /\ now \in Time

\* worker.hpp:134 says of num: tasks.size() + fibers.size().  A num that is too
\* low lets the worker sleep or stop over queued work, one too high keeps it busy
\* for ever; it moves in eight places of worker.cpp.
NumConsistent == num = Len(tasks) + Len(fibers)

\* numBlockedFibers, which keeps runUntilShutdown() from returning, counts the
\* fibers whose stack is inside the switch of suspend().
BlockedCounted ==
    numBlockedFibers = Cardinality({f \in Fibers : pc[f] = "blocked"})

\* No wake-up is lost between the unlock of work.mutex in enqueue() and its
\* notify_one(): when the worker sleeps on work that is queued it was notified,
\* or some thread is about to notify it.
NoLostWakeup ==
    pc[currentFiber] \in Sleeping /\ num > 0 /\ ~awake =>
        \E e \in Externals : step[e].at = "notify"

\* No signal is lost between the predicate of wait(lock, timeout, pred) and the
\* switch of suspend(): when the user's lock is free, a fiber whose condition is
\* true runs or is queued.
NoLostNotification ==
    lock = NoThread =>
        \A f \in Fibers, t \in Tasks : Waits(f, t) /\ pred[t] =>
                                      state[f] \in {"Running", "Queued"}

Queued(f) == {i \in DOMAIN fibers : fibers[i] = f}

\* Unless a switch is under way, each fiber is where its state says, and nowhere
\* else: a queued fiber once in work.fibers, an idle one in idleFibers, a yielded
\* one in neither, and only the current fiber runs.  The exception is mainFiber
\* when a worker fiber has left run(): nobody took it from idleFibers.
SwitchUnderWay == pc[currentFiber] \in {"switched", "blocked"}

FiberPlacement ==
    ~SwitchUnderWay =>
        \A f \in 0..workerFibers :
            /\ Cardinality(Queued(f)) = IF state[f] = "Queued" THEN 1 ELSE 0
            /\ state[f] = "Idle" => f \in idleFibers
            /\ f \in idleFibers => state[f] = "Idle" \/ (f = Main /\ MayStop)
            /\ state[f] = "Running" => f = currentFiber \/ pc[f] = "ended"

\* run() of a worker fiber switches to mainFiber without looking at what it does:
\* no task is cut short, for mainFiber then has none on its stack.
MainIsResumable == \A f \in Fibers : pc[f] = "ended" => task[Main] = NoTask

\* A worker stops with nothing left behind: no queued task or fiber, no fiber
\* with a task on its stack, and every task it was given done or stolen.
StopsClean ==
    pc[Main] = "exited" =>
        /\ tasks = <<>> /\ fibers = <<>>
        /\ \A f \in Fibers : task[f] = NoTask
        /\ Tasks = fresh \cup done \cup stolen

\* A new fiber is created only when every fiber there is blocks inside a wait, so
\* a worker never has more fibers than tasks that wait at once, plus one.
FibersAreReused ==
    [][workerFibers' # workerFibers =>
          \A f \in 0..workerFibers : pc'[f] = "blocked"]_vars

\* The sleep of the worker's thread ends by the earliest timeout of a fiber that
\* waits, so no wait oversleeps because of what the others did in between.
NoOversleep ==
    At("workSleep") => \A f \in Fibers : state[f] = "Waiting" =>
                          sleepUntil # NoTime /\ sleepUntil <= timeout[f]

\* Tasks run one at a time and once, resume only after a notification and before
\* new tasks start, and the worker stops with nothing left: TaskExecutor, with
\* the progress of a task read from the queues and from the state of its fiber.
Status(t) ==
    IF t \in fresh THEN "new"
    ELSE IF t \in stolen THEN "stolen"
    ELSE IF t \in done THEN "done"
    ELSE IF \E i \in DOMAIN tasks : tasks[i] = t THEN "queued"
    ELSE IF \E f \in Fibers : task[f] = t /\ state[f] = "Queued" THEN "ready"
    ELSE IF \E f \in Fibers : task[f] = t /\ state[f] = "Yielded" THEN "suspended"
    ELSE "running"

Executor == INSTANCE TaskExecutor WITH
    Bound   <- IF Mode = "SingleThreaded" THEN {FinalTask} ELSE {},
    status  <- [t \in Tasks |-> Status(t)],
    stopped <- pc[Main] = "exited"

ImplementsTaskExecutor == Executor!Spec

\* enqueueFiberTimeouts() queues a fiber and leaves its state Waiting: its wait
\* with a timeout is over when it is queued, and when it was switched to.
Due == {f \in Fibers : Queued(f) # {} \/ (f = currentFiber /\ At("blocked"))}

Deadlines ==
    [f \in Fibers |-> IF state[f] = "Waiting" /\ f \notin Due THEN timeout[f] ELSE NoTime]

Timeouts == INSTANCE FiberTimeouts WITH until <- Deadlines, due <- Due

\* The worker drives its container in the orders FiberTimeouts allows, and in no
\* other: a fiber that waits with a timeout is in it under one deadline at a time,
\* although timeouts, notifications and switches reach the fiber independently.
ImplementsFiberTimeouts == Timeouts!Spec

\* No timer of a waiting task is lost, whatever was erased or taken before.
NoTimerLost == Timeouts!NoTimerLost

\* worker.hpp:188 says that the fibers of a worker are idle, queued, waiting or
\* current, each counted once: there are no more entries in work.fibers than fibers.
QueueWithinPool == Len(fibers) <= workerFibers + 1

\* Every task handed to the worker ends or is stolen: no fiber is forgotten, and
\* no wait outlives the signal it waits for.
TasksEnd == \A t \in Tasks : t \notin fresh ~> t \in done \cup stolen

\* stop() returns: the worker's thread ends after FinalTask did.
StopReturns == FinalTask \in done ~> pc[Main] = "exited"
=============================================================================
