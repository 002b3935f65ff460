------------------------------- MODULE Scheduler -------------------------------
(***************************************************************************)
(* The scheduler (src/scheduler.cpp): the worker threads 0..Count-1, the   *)
(* users' threads with the SingleThreaded workers they bind, and the       *)
(* thread that owns the scheduler and destroys it.  A worker is cut down   *)
(* to what the others see of it: its queue of tasks, the mutex of its      *)
(* Work, and whether it runs a task, spins, sleeps or has ended; the fibers *)
(* of a worker and the waits of tasks are those of module Worker.          *)
(***************************************************************************)
EXTENDS Integers, Sequences, FiniteSets

CONSTANTS
    Count,        \* cfg.workerThread.count
    Users,        \* the threads that are not workers
    Tasks,        \* the tasks
    SameThread,   \* those with the flag SameThread
    Stop,         \* the task Worker::stop() enqueues
    NoTask,
    IndexBound    \* the counters are unsigned: they wrap around at this value

Workers == 0..(Count - 1)
Threads == Workers \cup Users

ASSUME SchedulerAssumption ==
    /\ Count \in Nat
    /\ Users \cap Workers = {}
    /\ SameThread \subseteq Tasks
    /\ Stop \notin Tasks /\ NoTask \notin Tasks /\ Stop # NoTask
    /\ IndexBound \in Nat \ {0}

VARIABLES
    \* Scheduler
    spinningWorkers,        \* a worker or -1 in each slot
    nextSpinningWorkerIdx,
    nextEnqueueIndex,
    byTid,                  \* the users' threads that are bound
    \* each worker, one for each thread
    tasks,                  \* Worker::Work::tasks
    shutdown,
    running,                \* the task on its stack
    at,                     \* where its thread stands
    \* locals of the calls under way
    hand,                   \* the task that enqueue() places, or that was stolen
    index,                  \* i, then idx
    \* the thread in ~Scheduler()
    owner, turn,
    \* history
    fresh,                  \* tasks not scheduled yet
    done,
    dropped,                \* tasks enqueue() returned without placing
    home,                   \* the thread that scheduled each task
    order,                  \* the SameThread tasks in the order they were scheduled
    orphaned                \* tasks pushed to a worker that has ended

stack == <<spinningWorkers, nextSpinningWorkerIdx>>
locals == <<hand, index>>
destructor == <<owner, turn>>
history == <<fresh, dropped, home, order, orphaned>>
vars == <<stack, nextEnqueueIndex, byTid, tasks, shutdown, running, at, locals,
          destructor, done, history>>

\* The places at which a thread holds the mutex of its own worker.
Locked == {"loop", "push", "idle"}
Labels == Locked \cup {"run", "spin", "stolen", "asleep", "task", "exited",
                       "choose", "pop", "lock", "unbind"}

Goto(th, l) == at' = [at EXCEPT ![th] = l]
HasWorker(th) == th \in Workers \cup byTid

Init ==
    /\ spinningWorkers = [w \in Workers |-> -1]
    /\ nextSpinningWorkerIdx = 0 /\ nextEnqueueIndex = 0
    /\ byTid = {}
    /\ tasks = [th \in Threads |-> <<>>]
    /\ shutdown = [th \in Threads |-> FALSE]
    /\ running = [th \in Threads |-> NoTask]
    /\ at = [th \in Threads |-> IF th \in Workers THEN "run" ELSE "task"]
    /\ hand = [th \in Threads |-> NoTask]
    /\ index = [th \in Threads |-> 0]
    /\ owner = "alive" /\ turn = Count - 1
    /\ fresh = Tasks /\ done = {} /\ dropped = {} /\ orphaned = {}
    /\ home = [t \in Tasks |-> NoTask] /\ order = <<>>

-----------------------------------------------------------------------------
(* Variants of the operators below that a slip in the code would give.      *)

CanStealAny(v) == at[v] \notin Locked /\ tasks[v] # <<>> /\ Head(tasks[v]) # Stop

TakeStolenCopy(w, v) ==
    /\ hand' = [hand EXCEPT ![w] = Head(tasks[v])]
    /\ UNCHANGED tasks

MayLeaveWithTasks(th) == shutdown[th]

ByTidEmptyBefore(u) == u \notin byTid

DownSigned(n) == n - 1

-----------------------------------------------------------------------------
(* Scheduler::enqueue() *)

\* The unsigned counters wrap around at both ends.
Up(n)   == (n + 1) % IndexBound
Down(n) == (n + IndexBound - 1) % IndexBound

Submit(th, t) ==
    /\ fresh' = fresh \ {t}
    /\ home' = [home EXCEPT ![t] = th]
    /\ order' = IF t \in SameThread THEN Append(order, t) ELSE order
    /\ UNCHANGED orphaned

\* A thread that is bound, a task, or, while nobody destroys the scheduler, any
\* other thread calls enqueue().
Calls(th, t) ==
    /\ at[th] = "task" /\ running[th] # Stop
    /\ HasWorker(th) \/ owner = "alive"
    /\ t \in fresh
    /\ Submit(th, t)

StaysHere(t) == t \in SameThread \/ Count = 0

EnqueueHere(th, t) ==
    /\ Calls(th, t)
    /\ StaysHere(t)
    /\ \/ /\ HasWorker(th)
          /\ tasks' = [tasks EXCEPT ![th] = Append(@, t)]
          /\ UNCHANGED dropped
       \/ /\ ~HasWorker(th)
          /\ dropped' = dropped \cup {t}
          /\ UNCHANGED tasks
    /\ UNCHANGED <<stack, nextEnqueueIndex, byTid, shutdown, running, at, locals,
                   destructor, done>>

EnqueueAnywhere(th, t) ==
    /\ Calls(th, t)
    /\ ~StaysHere(t)
    /\ hand' = [hand EXCEPT ![th] = t]
    /\ Goto(th, "choose")
    /\ UNCHANGED <<stack, nextEnqueueIndex, byTid, tasks, shutdown, running, index,
                   destructor, done, dropped>>

\* One turn of the loop of enqueue(): the slot on top of the spinning workers,
\* then what is in it or the next worker in turn, then tryLock().
Choose(th) ==
    /\ at[th] = "choose"
    /\ nextSpinningWorkerIdx' = Down(nextSpinningWorkerIdx)
    /\ index' = [index EXCEPT ![th] = nextSpinningWorkerIdx' % Count]
    /\ Goto(th, "pop")
    /\ UNCHANGED <<spinningWorkers, nextEnqueueIndex, byTid, tasks, shutdown, running,
                   hand, destructor, done, history>>

Pop(th) ==
    /\ at[th] = "pop"
    /\ spinningWorkers' = [spinningWorkers EXCEPT ![index[th]] = -1]
    /\ \/ /\ spinningWorkers[index[th]] >= 0
          /\ index' = [index EXCEPT ![th] = spinningWorkers[index[th]]]
          /\ UNCHANGED nextEnqueueIndex
       \/ /\ spinningWorkers[index[th]] < 0
          /\ index' = [index EXCEPT ![th] = nextEnqueueIndex % Count]
          /\ nextEnqueueIndex' = Up(nextEnqueueIndex)
    /\ Goto(th, "lock")
    /\ UNCHANGED <<nextSpinningWorkerIdx, byTid, tasks, shutdown, running, hand,
                   destructor, done, history>>

PushTask(th) ==
    /\ at[th] = "lock" /\ at[index[th]] \notin Locked
    /\ tasks' = [tasks EXCEPT ![index[th]] = Append(@, hand[th])]
    /\ hand' = [hand EXCEPT ![th] = NoTask]
    /\ orphaned' = IF at[index[th]] = "exited" THEN orphaned \cup {hand[th]}
                   ELSE orphaned
    /\ Goto(th, "task")
    /\ UNCHANGED <<stack, nextEnqueueIndex, byTid, shutdown, running, index,
                   destructor, done, dropped, fresh, home, order>>

\* Another thread has the mutex, for longer or just now.
TryLockFails(th) ==
    /\ at[th] = "lock"
    /\ Goto(th, "choose")
    /\ UNCHANGED <<stack, nextEnqueueIndex, byTid, tasks, shutdown, running, locals,
                   destructor, done, history>>

-----------------------------------------------------------------------------
(* The thread of a worker, as far as the scheduler goes.                    *)

\* run() and waitForWork() sleep until there is work or the worker is to stop.
Wake(w) ==
    /\ \/ at[w] = "run" /\ Goto(w, "loop")
       \/ at[w] = "asleep" /\ Goto(w, "idle")
    /\ tasks[w] # <<>> \/ shutdown[w]
    /\ UNCHANGED <<stack, nextEnqueueIndex, byTid, tasks, shutdown, running, locals,
                   destructor, done, history>>

\* runUntilShutdown(), of a bound thread too: it calls stop() in unbind().
MayLeave(th) == shutdown[th] /\ tasks[th] = <<>>

Leave(th) ==
    /\ at[th] = "loop" /\ MayLeave(th)
    /\ Goto(th, IF th \in Workers THEN "exited" ELSE "unbind")
    /\ UNCHANGED <<stack, nextEnqueueIndex, byTid, tasks, shutdown, running, locals,
                   destructor, done, history>>

HasWork(th) ==
    /\ at[th] = "loop" /\ tasks[th] # <<>>
    /\ Goto(th, "idle")
    /\ UNCHANGED <<stack, nextEnqueueIndex, byTid, tasks, shutdown, running, locals,
                   destructor, done, history>>

\* onBeginSpinning() is two steps: the counter, then the slot.
BeginSpinning(w) ==
    /\ at[w] = "loop" /\ ~MayLeave(w) /\ tasks[w] = <<>>
    /\ index' = [index EXCEPT ![w] = nextSpinningWorkerIdx % Count]
    /\ nextSpinningWorkerIdx' = Up(nextSpinningWorkerIdx)
    /\ Goto(w, "push")
    /\ UNCHANGED <<spinningWorkers, nextEnqueueIndex, byTid, tasks, shutdown, running,
                   hand, destructor, done, history>>

PushSpinning(w) ==
    /\ at[w] = "push"
    /\ spinningWorkers' = [spinningWorkers EXCEPT ![index[w]] = w]
    /\ Goto(w, "spin")
    /\ UNCHANGED <<nextSpinningWorkerIdx, nextEnqueueIndex, byTid, tasks, shutdown,
                   running, locals, destructor, done, history>>

CanSteal(v) ==
    /\ at[v] \notin Locked
    /\ tasks[v] # <<>> /\ Head(tasks[v]) \notin SameThread \cup {Stop}

TakeStolen(w, v) ==
    /\ hand' = [hand EXCEPT ![w] = Head(tasks[v])]
    /\ tasks' = [tasks EXCEPT ![v] = Tail(@)]

\* stealWork() and steal(); the thief pushes the task to its own queue in a
\* second step, and keeps its mutex until it runs a task.
Steal(w, v) ==
    /\ at[w] = "spin"
    /\ v # w /\ CanSteal(v)
    /\ TakeStolen(w, v)
    /\ Goto(w, "stolen")
    /\ UNCHANGED <<stack, nextEnqueueIndex, byTid, shutdown, running, index,
                   destructor, done, history>>

PushStolen(w) ==
    /\ at[w] = "stolen"
    /\ tasks' = [tasks EXCEPT ![w] = Append(@, hand[w])]
    /\ hand' = [hand EXCEPT ![w] = NoTask]
    /\ Goto(w, "idle")
    /\ UNCHANGED <<stack, nextEnqueueIndex, byTid, shutdown, running, index,
                   destructor, done, history>>

\* The spinning ends by itself or because of a task; Wake tells them apart.
SpinEnds(w) ==
    /\ at[w] = "spin"
    /\ Goto(w, "asleep")
    /\ UNCHANGED <<stack, nextEnqueueIndex, byTid, tasks, shutdown, running, locals,
                   destructor, done, history>>

Take(th) == [task |-> Head(tasks[th]), rest |-> Tail(tasks[th])]

RunTask(th) ==
    /\ at[th] = "idle" /\ tasks[th] # <<>>
    /\ running' = [running EXCEPT ![th] = Take(th).task]
    /\ tasks' = [tasks EXCEPT ![th] = Take(th).rest]
    /\ Goto(th, "task")
    /\ UNCHANGED <<stack, nextEnqueueIndex, byTid, shutdown, locals, destructor, done,
                   history>>

TaskEnds(th) ==
    /\ at[th] = "task" /\ running[th] # NoTask
    /\ running' = [running EXCEPT ![th] = NoTask]
    /\ \/ /\ running[th] = Stop
          /\ shutdown' = [shutdown EXCEPT ![th] = TRUE]
          /\ UNCHANGED done
       \/ /\ running[th] # Stop
          /\ done' = done \cup {running[th]}
          /\ UNCHANGED shutdown
    /\ Goto(th, "idle")
    /\ UNCHANGED <<stack, nextEnqueueIndex, byTid, tasks, locals, destructor,
                   history>>

IdleEnds(th) ==
    /\ at[th] = "idle" /\ tasks[th] = <<>>
    /\ Goto(th, "loop")
    /\ UNCHANGED <<stack, nextEnqueueIndex, byTid, tasks, shutdown, running, locals,
                   destructor, done, history>>

-----------------------------------------------------------------------------
(* bind(), unbind() and ~Scheduler() *)

UserCode(u) == at[u] = "task" /\ running[u] = NoTask

Bind(u) ==
    /\ UserCode(u) /\ u \notin byTid
    /\ owner = "alive"
    /\ byTid' = byTid \cup {u}
    /\ shutdown' = [shutdown EXCEPT ![u] = FALSE]
    /\ UNCHANGED <<stack, nextEnqueueIndex, tasks, running, at, locals, destructor,
                   done, history>>

Unbind(u) ==   \* up to the loop of stop()
    /\ UserCode(u) /\ u \in byTid
    /\ shutdown' = [shutdown EXCEPT ![u] = TRUE]
    /\ Goto(u, "loop")
    /\ UNCHANGED <<stack, nextEnqueueIndex, byTid, tasks, running, locals, destructor,
                   done, history>>

ByTidEmpty(u) == byTid \ {u} = {}

Unbound(u) ==   \* the rest of unbind(), under the mutex of byTid
    /\ at[u] = "unbind"
    /\ byTid' = byTid \ {u}
    /\ owner' = IF ByTidEmpty(u) /\ owner = "sleeping" THEN "unbinding" ELSE owner
    /\ Goto(u, "task")
    /\ UNCHANGED <<stack, nextEnqueueIndex, tasks, shutdown, running, locals, turn,
                   done, history>>

\* The program destroys the scheduler when no thread that is not bound uses it.
Destroy ==
    /\ owner = "alive"
    /\ \A u \in Users \ byTid : at[u] = "task"
    /\ owner' = "unbinding"
    /\ UNCHANGED <<stack, nextEnqueueIndex, byTid, tasks, shutdown, running, at, locals,
                   turn, done, history>>

WaitUnbind ==
    /\ owner = "unbinding"
    /\ owner' = IF byTid = {} THEN "stopping" ELSE "sleeping"
    /\ UNCHANGED <<stack, nextEnqueueIndex, byTid, tasks, shutdown, running, at, locals,
                   turn, done, history>>

SpuriousWake ==
    /\ owner = "sleeping" /\ owner' = "unbinding"
    /\ UNCHANGED <<stack, nextEnqueueIndex, byTid, tasks, shutdown, running, at, locals,
                   turn, done, history>>

StopWorker ==
    /\ owner = "stopping" /\ turn >= 0
    /\ at[turn] \notin Locked
    /\ tasks' = [tasks EXCEPT ![turn] = Append(@, Stop)]
    /\ owner' = "joining"
    /\ UNCHANGED <<stack, nextEnqueueIndex, byTid, shutdown, running, at, locals, turn,
                   done, history>>

Join ==
    /\ owner = "joining" /\ at[turn] = "exited"
    /\ turn' = turn - 1
    /\ owner' = "stopping"
    /\ UNCHANGED <<stack, nextEnqueueIndex, byTid, tasks, shutdown, running, at, locals,
                   done, history>>

Destroyed ==
    /\ owner = "stopping" /\ turn < 0
    /\ owner' = "destroyed"
    /\ UNCHANGED <<stack, nextEnqueueIndex, byTid, tasks, shutdown, running, at, locals,
                   turn, done, history>>

-----------------------------------------------------------------------------
EnqueueLoop(th) == Choose(th) \/ Pop(th) \/ PushTask(th) \/ TryLockFails(th)

Run(th) == Leave(th) \/ HasWork(th) \/ RunTask(th) \/ TaskEnds(th) \/ IdleEnds(th)

Spin(w) ==
    \/ Wake(w) \/ BeginSpinning(w) \/ PushSpinning(w)
    \/ \E v \in Workers : Steal(w, v)
    \/ PushStolen(w) \/ SpinEnds(w)

Destructor == Destroy \/ WaitUnbind \/ SpuriousWake \/ StopWorker \/ Join \/ Destroyed

Terminated == owner = "destroyed" /\ UNCHANGED vars

Next ==
    \/ \E th \in Threads, t \in Tasks : EnqueueHere(th, t) \/ EnqueueAnywhere(th, t)
    \/ \E th \in Threads : EnqueueLoop(th) \/ Run(th)
    \/ \E w \in Workers : Spin(w)
    \/ \E u \in Users : Bind(u) \/ Unbind(u) \/ Unbound(u)
    \/ Destructor
    \/ Terminated

Spec == Init /\ [][Next]_vars

-----------------------------------------------------------------------------
(* Fairness: every thread runs; a thread that calls tryLock() again and again *)
(* gets the mutex in the end; bound threads unbind and the owner destroys the *)
(* scheduler.  Nothing forces a theft or a spurious wake-up.                  *)

Fairness ==
    /\ \A th \in Threads : WF_vars(EnqueueLoop(th)) /\ SF_vars(PushTask(th))
    /\ \A th \in Threads : WF_vars(Run(th))
    /\ \A w \in Workers : WF_vars(Wake(w) \/ BeginSpinning(w) \/ PushSpinning(w)
                                  \/ PushStolen(w) \/ SpinEnds(w))
    /\ \A u \in Users : WF_vars(Unbind(u) \/ Unbound(u))
    /\ WF_vars(Destroy \/ WaitUnbind \/ StopWorker \/ Join \/ Destroyed)

FairSpec == Spec /\ Fairness

-----------------------------------------------------------------------------
(* Properties *)

Items == Tasks \cup {Stop}

\* The variables keep their types; spinningWorkers only holds workers.
TypeOK ==
    /\ spinningWorkers \in [Workers -> Workers \cup {-1}]
    /\ nextSpinningWorkerIdx \in 0..(IndexBound - 1)
    /\ nextEnqueueIndex \in 0..(IndexBound - 1)
    /\ byTid \subseteq Users
    /\ tasks \in [Threads -> Seq(Items)]
    /\ shutdown \in [Threads -> BOOLEAN]
    /\ running \in [Threads -> Items \cup {NoTask}]
    /\ at \in [Threads -> Labels]
    /\ hand \in [Threads -> Tasks \cup {NoTask}]
    /\ index \in [Threads -> Workers \cup {0}]
    /\ owner \in {"alive", "unbinding", "sleeping", "stopping", "joining", "destroyed"}
    /\ turn \in Workers \cup {-1}
    /\ fresh \subseteq Tasks /\ done \subseteq Tasks /\ dropped \subseteq Tasks
    /\ orphaned \subseteq Tasks
    /\ home \in [Tasks -> Threads \cup {NoTask}]
    /\ order \in Seq(SameThread)

\* Where task t is: in a queue, in the hands of enqueue() or of a thief, on a
\* stack, or in one of the sets of the history.
Places(t) ==
    (UNION {{<<th, i>> : i \in {j \in DOMAIN tasks[th] : tasks[th][j] = t}} : th \in Threads})
    \cup {<<th, 0>> : th \in {h \in Threads : hand[h] = t}}
    \cup {<<th, -1>> : th \in {h \in Threads : running[h] = t}}
    \cup (IF t \in fresh THEN {"fresh"} ELSE {})
    \cup (IF t \in done THEN {"done"} ELSE {})
    \cup (IF t \in dropped THEN {"dropped"} ELSE {})

\* No task is lost or duplicated: whatever threads enqueue, steal and stop at the
\* same time, each task is in one place, so it runs at most once.
TaskInOnePlace == \A t \in Tasks : Cardinality(Places(t)) = 1

\* task.hpp:15: a SameThread task runs on the thread that scheduled it, however
\* busy that thread is and however idle the thieves are.
RunsWhereScheduled ==
    \A th \in Threads, t \in SameThread : running[th] = t => home[t] = th

\* The SameThread tasks of a thread start in the order it scheduled them: steal()
\* stops at the first one instead of skipping it.
StartsInOrder ==
    \A i, j \in DOMAIN order :
        i < j /\ home[order[i]] = home[order[j]] /\ order[j] \in done
        => order[i] \in done \cup dropped

\* When ~Scheduler() returns, every task that was pushed to a worker whose thread
\* had not ended is done, whoever stole it and whichever worker stopped first.
OnlyOrphansLost ==
    owner = "destroyed" =>
        /\ Tasks \ done \subseteq fresh \cup dropped \cup orphaned
        /\ \A th \in Threads : running[th] = NoTask

\* hello_task.cpp:49: "All tasks are guaranteed to complete before the scheduler
\* is destructed."
AllTasksComplete == owner = "destroyed" => Tasks = fresh \cup done \cup dropped

\* Every task that enqueue() does not drop runs, wherever it was pushed and whoever
\* steals it, unless it was pushed to a worker that had ended.
EveryTaskRuns ==
    \A t \in Tasks : t \notin fresh \cup dropped ~> t \in done \cup orphaned

\* ~Scheduler() returns once the bound threads have called unbind().
DestructorReturns == owner = "unbinding" ~> owner = "destroyed"
=============================================================================
