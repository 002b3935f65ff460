# hfts in TLA+

hfts is a C++ library that runs tasks on fibers: a `Scheduler` owns worker threads,
each `Worker` runs tasks on a pool of fibers and switches to another fiber when a task
waits, and `Event`, `WaitGroup` and `ConditionVariable` make tasks (and ordinary
threads) wait for each other. This directory holds TLA+ modules of that machinery, the
TLC runs that check them on small instances, and TLAPS proofs of the invariants that
matter most for instances of every size.

    tlc -config MCWorker.cfg MCWorker      # one run; PROJECT.json lists all of them
    tlapm WorkerProofs.tla                 # one module of proofs

Line numbers are those of the sources under `src/`; `PROJECT.json` maps every
definition to the lines it stands for.

## 1. Inventory

| Component | State | Operations | Talks to |
|---|---|---|---|
| **Worker** `src/worker.cpp`, `worker.hpp` | `work.mutex`; `num`, `numBlockedFibers`, `notifyAdded`; the deques `tasks`, `fibers`; `waiting`; `currentFiber`, `idleFibers`, `workerFibers`; `shutdown` | `start`, `stop`, `run`, `runUntilShutdown`, `waitForWork`, `spinForWorkAndLock`, `runUntilIdle`, `enqueueFiberTimeouts`, `suspend`, both `wait`, both `enqueue`, `steal` | scheduler (to steal), fibers (switch), other threads (enqueue, steal) |
| **WaitingFibers** `waitingfiber.hpp` | the ordered set `timeouts` and the map `fibers` | `add`, `erase`, `take`, `first`, `contains` | worker, under `work.mutex` |
| **Fiber** `fiber.cpp` | state `Idle`/`Yielded`/`Waiting`/`Queued`/`Running` | `wait`, `notify`, `switchTo`, `current` | its worker |
| **Scheduler** `scheduler.cpp` | `spinningWorkers` and its index, `nextEnqueueIndex`, `byTid` | constructor, destructor, `enqueue`, `stealWork`, `onBeginSpinning`, `bind`, `unbind` | all workers; users' threads |
| **ConditionVariable** `conditionvariable.hpp` | list `waiting`, `waitingNum`, a `std::condition_variable` | `wait`, `wait_for/until`, `notify_one`, `notify_all` | fibers or threads; the lock of its user |
| **Event** `event.hpp` | `mutex`, `cv`, `signalled`, `deps` | `signal`, `wait`, timed waits, `test`, `clear`, `any` | condition variable, derived events |
| **WaitGroup** `waitgroup.hpp` | atomic `count`, `mutex`, `cv` | `add`, `done`, `wait` | condition variable |
| **Mutex, lock** `mutex.hpp` | a `std::mutex` | lock, unlock, tryLock, waits | everybody |
| **Task** `task.hpp` | a function, flag `SameThread` | call | worker, scheduler |
| **Containers** `containers.hpp` | `vector` (count, capacity, inline or heap storage), `list` (free list in blocks) | push_back, reserve, resize, free, the assignments; emplace_front, erase | condition variable, event, affinity |
| **Allocators** `memory.hpp`, `memory.cpp` | nothing; `TrackedAllocator` counts and bytes | allocate, free, guard pages, make_unique/shared | containers, fibers |
| **Thread, Affinity** `thread.cpp`, `thread.hpp` | the vector of cores; the `Impl` a handle owns and its `std::thread` | add, remove, all, policies; construct, move, assign, join, destroy | scheduler configuration; the operating system |
| **OSFiber, thread-locals, defer, tsa** | registers, `thread_local` | switch | fiber, worker |
| **Examples, benchmark** `example/` | outputs, wait group, gate; the queue, `pending` and `shutdown` of `PlainThreadPool` | schedule tasks, wait, sum up, return | scheduler, wait group, event |

What makes each component correct, and what is hard about it:

* **Worker.** No task is lost, run twice or run at the same time as another of the
  same worker; a fiber resumes exactly once for each notification and before new tasks
  start; the worker never sleeps over queued work and never stops over unfinished
  work. Hard: `suspend()` runs the worker's loop *on the stack of the waiting task*,
  so a fiber may be notified and queued while it is still the current one; `enqueue`
  notifies after it unlocked; `num`, `numBlockedFibers` move on many stacks.
* **WaitingFibers.** A fiber that waits has a timer under its current deadline;
  `take()` returns only fibers whose deadline passed. Hard: two containers that must
  agree.
* **Scheduler.** A task is in one place however many threads push, spin and steal; a
  `SameThread` task runs where it was scheduled; the destructor returns. Hard: the
  stack of spinning workers is updated without a lock, `tryLock` fails, workers are
  stopped one after the other while others still enqueue.
* **ConditionVariable, Event, WaitGroup.** No waiter misses a signal, a signal of an
  Auto event serves one waiter, a `WaitGroup` leaves nobody behind. Hard: notified is
  not resumed, `notify_one()` may pick a fiber that was notified before, `done()`
  decrements outside the mutex, `signal()` nests locks.
* **Containers, Affinity, allocators.** Functional correctness against sequences and
  sets, storage freed once with the request it was made with, blocks that fit their
  data; sequential code, where the hard part is a long mix of legal calls.
* **Thread.** The `Impl` lives as long as the thread that reads it, whichever handle
  owns it by then.
* **Examples, benchmark.** What `main` sums up is complete, what tasks captured is
  still there, and the program returns. Hard: `done()` after the counter is zero runs
  against the end of the scope; the items are cut in unsigned arithmetic.

## 2. Modules

    WaitingFibers ─┬─ FiberTimeouts ── FiberTimeoutsProofs
                   └─ Worker ── MCWorker, WorkerProofs
    TaskExecutor, FiberTimeouts  (Worker implements both)
    Scheduler ── SchedulerProofs
    ConditionVariable ─┬─ Event ── MCEvent, EventProofs
                       └─ WaitGroup ── WaitGroupProofs
    List ── ListProofs          StableList  (List implements it)
    Memory ── Vector ── Thread ── MCThread, ThreadProofs
    Benchmark ── MCBenchmark, BenchmarkProofs

**WaitingFibers** is the data type alone: `add`, `erase`, `canTake`/`afterTake`,
`isBegin` (what `begin()` of the ordered set returns), `isUndefined` (when `first()`
follows a map entry that is not there). `take()` leaves its node in `timeouts` and
`erase()` leaves its entry in the map, as the code does. **FiberTimeouts** is what
the container promises under the calls a worker makes: `until` is the deadline of every
fiber that really waits, and `due` are the fibers that will be resumed anyway. A fiber
can be queued twice, by its timeout and by a late notification; resumed for the first
entry it may suspend again while the second is still in the queue. It then needs no
timer, since the second entry resumes it, and its new node may be erased or taken at
any time. That needs three waits to happen, which is why `worker_timed` has three.
`Worker!ImplementsFiberTimeouts` says that the worker makes its calls in no other
order, which is what makes the proofs about `FiberTimeouts` say something of the
worker; it is proved, too.

**Worker** is one worker in either mode with the fibers on its thread. `pc[f]` is
where the stack of fiber `f` stands, so a suspended task keeps its place in
`suspend()` while the thread goes on elsewhere. `mutex` is `work.mutex` as held by the
worker's thread; a critical section of another thread is one step that needs it free.
A fiber switch is one step: nothing else can run on that thread. `Externals` are the
other threads: they enqueue (and notify after the unlock, a step of its own), steal,
signal what a task waits for with the user's lock held, and notify fibers. Time is a
small counter that advances anywhere except inside `enqueueFiberTimeouts()`, which
reads the clock once. `SpinEnd` stands for the whole spinning loop, with the unlocked
read of `num` and the second read under the mutex.

**TaskExecutor** is what a worker promises, with no threads, fibers or locks: a
status for each task. `Worker!ImplementsTaskExecutor` maps the queues and the states of
the fibers to it; every step of `Worker` is a step of `TaskExecutor` or stutters.

**Scheduler** composes `Count` worker threads, users' threads that bind and unbind,
and the thread in the destructor. A worker is reduced to what the others see of it: a
queue, a mutex, and whether it runs, spins, sleeps or has ended. Critical sections are
single steps, except where a worker keeps its mutex over several (`Locked`): there
`tryLock()` fails and thieves wait. Fibers and waits are left to `Worker`. The
sleep of a worker is a wait until there is work or it shall stop, which is justified by
`NoLostWakeup` of `Worker` (proved). `TryLockFails` is always possible, because
`std::mutex::try_lock` may fail spuriously. The unsigned counters wrap at `IndexBound`.

**ConditionVariable** has no behaviour of its own; it gives `Enter`, `Exit`, `Sleep`,
`Wakes`, `NotifyOne`, `NotifyAll` over the list of fibers, the threads and
`waitingNum`; `Exit` erases the caller's own element of the list. A process is running,
suspended, or notified and ready; that a
notification of a fiber is neither lost nor taken twice is again what `Worker` shows.
**Event** adds the two modes, `test`, `clear`, nested `signal()` (a stack of
frames, each holding its mutex) and `any()`, an event of the list at a time.
**WaitGroup** makes every read of the counter a step, since it moves outside the mutex.

**List** is `containers::list`, which keeps the fibers of a condition variable: the
three pointers of each entry, the list in use and the free list, growth, and which
entries hold a constructed element. **StableList** is what `ConditionVariable` relies
on, a sequence with a front insertion and erasure by an iterator that stays valid.
`FirstGrow` stands for the 8 entries of the first allocation.

**Memory** is the arithmetic of the allocators on addresses: `alignUp`, the block that
`alignedMalloc()` and `pagedMalloc()` ask the system for, where data, saved pointer and
guard pages stand in it, what `free()` reads back and gives back, the counters of
`TrackedAllocator`, and where the stack of a new fiber begins. The bytes of a saved
pointer are in a memory (`savePointer`, `loadPointer`) that its owner and others write
between `allocate()` and `free()`. **Vector** is `containers::vector` as operators on its value:
`count`, `capacity`, the cells of its storage with an object or without, its allocation
and the statistics of the allocator behind it. An operation that touches an object or a
cell that is not there makes the vector `broken`, which stands for undefined behaviour:
nothing is done with it afterwards. **Thread** has `Affinity` objects over such vectors
with every operation of `thread.hpp`, and `Thread` handles with their `Impl`, from the
constructor through moves and assignments to `join()`; `terminated` is
`std::terminate()`, which the destructor of a `std::thread` calls when it was not joined.

**Benchmark** is the seven programs of `benchmark.cpp`, `hello_task.cpp` and
`fractal.cpp` in one state machine, told apart by a record: scheduler or
`PlainThreadPool`, with a gate in the task or without, `WaitGroup` captured by value or
by reference, items cut into chunks or one task each. The pool's threads are modelled
with their condition variables; of the scheduler only what it promises (at most so many
tasks at a time, in any order). `outputs` says how far a task has written its result,
`scope` whether the locals of `main` still exist. The numbers come out of
`parseUnsigned`, which wraps a negative number as `strtoull` does.

## 3. Runs

| Run | Bounds | What it shows |
|---|---|---|
| `worker_untimed` | 3 tasks, 3 fibers, 2 other threads, 3 waits | The counters, wake-ups and notifications of the worker, where fibers may be, fiber reuse, and the refinement of `TaskExecutor`. |
| `worker_single` | 3 tasks, 4 fibers, 1 other thread, 4 waits | The same refinement for a bound thread, where the user's code itself waits on `mainFiber`, which can always be resumed. |
| `worker_timed` | 3 tasks, 3 fibers, 1 other thread, 3 waits, 2 deadlines, clock 0..2, queue 3 | The refinement of `FiberTimeouts`; with the stale nodes no timer is lost, no wait oversleeps, and the worker stops clean. |
| `worker_live` | 3 tasks, 1 other thread, 2 waits | Every task ends or is stolen; `stop()` returns. |
| `worker_pool` (violation) | 3 fibers, queue bound 4 | `enqueueFiberTimeouts()` queues the same fiber over and over. |
| `scheduler` | 2 workers, 1 user, 3 tasks, 1 of them SameThread, index bound 2 | Tasks are in one place and at home; only tasks pushed to an ended worker are lost; the others run, and the destructor returns. |
| `scheduler_all_complete` (violation) | 2 workers, 2 tasks | The destructor returns with a task that never ran. |
| `event` | Manual, Auto and derived event, 2 fibers, 2 threads, 6 calls | No missed signal, one wait per signal, `any()` misses nothing, nobody waits for mutexes in a circle. |
| `list` | 4 entries allocated in steps of 1, 1 and 2, 2 values | Each entry is in one of the two lists, and the list implements a stable list. |
| `waitgroup` | count 2, 2 adds, 3 waits, 2 fibers, 2 threads | Nobody is left behind; every wait returns. |
| `thread` | 2 affinities of up to 4 cores, inline capacity 1, 2 handles, 1 `Impl` | Storage is accounted for; a vector breaks only by an assignment to one in use; `remove()` of one core is exact; the `Impl` outlives its thread. |
| `benchmark` | 3 workers, up to 5 tasks, 64 and 32 bit types of 32 and 5 values, numbers at their edges and negated | Checksums agree, what is captured is there but for the last `done()`, and the programs return. |

*Why the bounds are enough.* The interesting cases of a worker need one fiber that is
suspended, one that is notified and one that runs the loop: three fibers (four where
the user's code takes one), and two tasks plus the one that stops the worker. A second
other thread lets a thief or a notifier run between the unlock and the notification of
the first. Two workers suffice for a thief and a victim, and for a worker that has
ended while the other still enqueues; `IndexBound` 2 makes the unsigned counters
wrap. Two fibers and two threads on each event give a waiter that was notified next to
one that was not, in both kinds. A vector with an inline capacity of 1 that grows to at least 3 goes
through inline storage, the first and a second allocation within four cores, and one
handle more than there are `Impl`s is enough to move and overwrite. Five tasks on
three workers fill the pool and leave a queue, and `UInt32` 5 lets the counter of the
`WaitGroup` be cut off, which `Fits` excludes by name. The bounds are constants named
`Max...`, `...Bound`; the proofs do not depend on them.

*Deadlock* is checked except where the system may stop: `WaitGroup` when all calls are
over, `List` after its destructor, `Thread` after `std::terminate()`, `Benchmark` when
`main` has returned (and where numbers beyond `Fits` leave it waiting), and the timed
worker, whose queue bound `MaxQueue` cuts off the endless loop that `worker_pool` shows.
Terminated and quiescent states have a stuttering action of their own elsewhere.

*Fairness.* Threads run (weak fairness of the steps a thread can always take). A
thread that asks for a mutex gets it when the mutex is free again and again (strong
fairness: a spurious wake-up, a thief or a second caller can take it in between); the
same for `tryLock()` in a loop. A task that runs ends, what it waits for is signalled,
and somebody calls `stop()` / destroys the scheduler; a bound thread unbinds. In
`Benchmark` weak fairness of `main`, of each task and of each thread of the pool is
enough, because no step there loses its enabledness to another thread for good. The
progress of threads is what the C++ standard asks of an implementation; that a mutex
does not starve a thread is an assumption about the implementation (true of futex-based
ones in practice); the rest is the user's part of the contract. Never forced: a spurious wake-up, a theft, a wait, a
`tryLock()` that fails, a thread outside that wakes without being notified. Otherwise a
lost notification could hide behind a spurious wake-up.

*Mutants.* Each property of a passing run is violated when one definition is replaced
by a slip of the kind listed at the top of its module (`NotifiesNobody`,
`CanStealAny`, `ExitStays`, ...); `PROJECT.json` pairs them.

## 4. Proofs

| Theorem | Property | For every |
|---|---|---|
| `FiberTimeoutsProofs!TypeCorrect`, `TimersKept`, `FirstIsNotLate` | `TypeOK`, `NoTimerLost`, `FirstNotLate` | set of fibers and bound of time |
| `WorkerProofs!TypeCorrect`, `NumIsConsistent`, `BlockedIsCounted`, `NoWakeupIsLost` | `TypeOK`, `NumConsistent`, `BlockedCounted`, `NoLostWakeup` | number of tasks, fibers, threads and waits, both modes, timed or not |
| `WorkerProofs!NoNotificationIsLost`, `MainCanResume`, `CleanStop`, `ReusesFibers` | `NoLostNotification`, `MainIsResumable`, `StopsClean`, `FibersAreReused` | the same |
| `WorkerProofs!NoTimerIsLost`, `NeverOversleeps`, `WorkerImplementsFiberTimeouts` | `NoTimerLost`, `NoOversleep`, `ImplementsFiberTimeouts` | the same |
| `WorkerProofs!FibersArePlaced`, `WorkerImplementsTaskExecutor` | `FiberPlacement`, `ImplementsTaskExecutor` | the same, where nobody waits with a timeout |
| `SchedulerProofs!TypeCorrect`, `RunAtHome`, `StartInOrder` | `TypeOK`, `RunsWhereScheduled`, `StartsInOrder` | number of workers, users and tasks, width of the counters |
| `SchedulerProofs!TasksInOnePlace`, `NothingElseIsLost` | `TaskInOnePlace`, `OnlyOrphansLost` | the same |
| `EventProofs!TypeCorrect`, `WaitersAreCounted`, `SignalsServeOne`, `NoSignalIsMissed`, `AnySeesEverySignal`, `LocksDoNotCircle` | `TypeOK`, `WaitersCounted`, `OneWaitPerSignal`, `NoMissedSignal`, `AnyMissesNothing`, `NoLockCircle` | set of events, fibers and threads, list of `any()`, number of calls |
| `WaitGroupProofs!TypeCorrect`, `NobodyIsStuck` | `TypeOK`, `NoStuckWaiter` | number of fibers, threads and calls |
| `ThreadProofs!AlignUp`, `AlignedBlock`, `GuardedBlock`, `FreeReturnsBlock`, `StackPointerInside` | (lemmas on the operators of `Memory`) | address, size, alignment, page and pointer size |
| `ThreadProofs!VectorsFreeWhatTheyAllocate`, `VectorsBreakByAssignment`, `RemoveTakesTheListed` | `LedgerMatches`, `OnlyReassignmentBreaks`, `RemoveIsExactForOne` | set of affinities, lists of cores, size of inline storage and first growth |
| `ThreadProofs!ThreadsAreOutlived` | `ImplOutlivesThread` | set of handles and `Impl`s |
| `ListProofs!EntriesInOneList`, `KeepsIteratorsValid` | `EachInOneList`, `ImplementsStableList` | number of entries, size of the first allocation, values |
| `BenchmarkProofs!ChunksShareTheItems`, `ChecksumsAlwaysAgree`, `CapturesOutliveTasks` | `ItemsShared`, `ChecksumsAgree`, `OnlyLastDoneOverruns` | program, number of items, workers and tasks, chunk size; within `Fits` as the properties say |

Assumptions are the named `ASSUME`s of the modules (`ContainerAssumption`,
`WorkerAssumption`, `CvAssumption`, `EventAssumption`, `GroupAssumption`,
`SchedulerAssumption`, `MemoryAssumption`, `VectorAssumption`, `ThreadAssumption`,
`ListAssumption`, `BenchmarkAssumption`): the constants are the
sets their comments say, sets of processes are finite, and the special values are
distinct. TLC evaluates each. The one hypothesis of a theorem beyond them is
`TimePoints = {}` in the last two of the worker, and it is needed: a fiber that timed
out is queued with the state `Waiting`, maybe twice, so its state no longer says where
it is (section 5).

* *Timers.* A fiber that waits has a node under its current deadline and an entry in the
  map, and an older node of it can only make `first()` earlier; inductive once `due`
  says for which fibers the worker may take the node away. The same step is then taken
  in the words of the worker (`TimersStep`): each of its actions is a call of the
  container or leaves `waiting`, the deadlines and who is due alone.
  `SleepOverNobody` (a thread that sleeps has nobody in the queue whose state is
  `Waiting`) turns that into `NoOversleep`.
* *Worker, counters.* The invariant is `IInv`: the types; `StackConsistent` (a stack in a
  wait has a task, `mainFiber` exists, unborn fibers have no stack); `NumConsistent`;
  `Created` (fibers above `workerFibers` are unborn) and `BlockedCounted`, with the
  cardinality lemmas; `Parked` (a fiber that is not current stands at a switch, so only
  the current one can be at a place that holds or waits for the mutex);
  `SleepAsksForNotify` (who sleeps has set `notifyAdded`) and `NoLostWakeup`. The last
  needs the two before it: `enqueue` reads `notifyAdded` under the mutex, and the
  worker that sleeps must be the current fiber that set it. A step lemma per action
  group, one conjunct at a time.
* *Worker, tasks and fibers.* `SInv` adds to `IInv` what the other properties lean on.
  `CallPlaces` and `StatePlaces` read a fiber's call and its `Fiber::state` off the place
  where its stack stands. `Signals` (who signals keeps the user's lock, so the fiber stays
  in `wait()`) gives `NoSignalLost`, of which `NoLostNotification` is the case that
  nobody signals. `Ending` (when a worker fiber leaves `run()`, nothing is left to do
  and `mainFiber` can only finish its own loop) gives `MainIsResumable` and, with
  `BlockedCounted` and `TasksPlaced` (a task is in one of the sets, in the queue or on one
  stack), `StopsClean`. `Born`, `IdleKept` and `MutexHeld` say that a switch finds a fiber
  to switch to, and that other threads do nothing inside a critical section;
  `FibersAreReused` follows from `IdleKept`. For the refinement of `TaskExecutor`
  `Placed` says that the queue of fibers is a bijection with those in the state `Queued`.
* *ConditionVariable, Event.* `WaitersCounted` is inductive with the places of the calls
  (`CallPlaces`) and with `MutexHeld`: a caller of `Enter`, `Exit` or notify holds the lock.
  `Unmissed` says that a suspended waiter of a signalled Auto event always has another
  one ahead of it that was notified or evaluates the event; it survives `notify_one()`
  on a fiber that was notified before, because that fiber still is the other one.
  `Derived` splits a nested `signal()` at its frames: the event of `any()` was raised, or
  the frame that will raise it is on a stack. `OneBuilds` and `Unused` keep the event of
  `any()` to its builder until the list is through. For `OneWaitPerSignal` a signal is
  there, or was taken once, or was cleared: the number of successful waits plus the
  signal still there never exceeds the number of raises. For `NoLockCircle`, `HeldInCalls`
  says that a mutex is held by a call that is under way (the converse of `MutexHeld`),
  and `AnyIsLast` that nothing is derived from the event of `any()`: who holds a mutex
  and waits for one waits for that event's, and who holds that one waits for none.
* *WaitGroup.* A process between two evaluations of the counter holds the mutex, so a
  `done()` that took the counter to zero in the meantime still waits for the mutex; it
  then reaches everybody inside `wait()`, and its early return is sound because
  `waitingNum` counts exactly those inside. The types follow, with the bounds of the
  calls.
* *Scheduler.* Four parts on top of the types. `Steady` says what a thread has in its
  hands at the places where it uses it: a worker's index, a task that may go anywhere.
  `Placed` says that every task in a queue, on a stack or in a hand has been scheduled,
  and that a `SameThread` task among them is with its own thread and in no hand; a
  thief that met one at the front of a queue would break it. `Sorted` says of two
  `SameThread` tasks of one thread that the earlier is over, or in front of the later;
  it needs that a push appends and that `steal()` takes the front only, which moves
  every other task one place without passing one. `StartsInOrder` is proved and in no
  run, as the proof covers what a run would. `InOne` says of a task that it is in one of
  the six kinds of places and there once; it needs `HandsEmpty`, since a thief or a
  caller that had something in its hand would overwrite it. `Ending` follows the
  destructor: no user is bound, the workers above `turn` have ended, one that ends does so
  with an empty queue, and what it gets after that is orphaned or `Stop`. At the end no
  hand and no stack holds anything, which leaves `OnlyOrphansLost`.
* *Memory, Benchmark.* Arithmetic, from the two bounds of a division with remainder:
  `alignUp` is the first multiple not below its argument, hence data and saved pointer
  end inside the block. So the bytes behind the data are the ones nobody may write, and
  `alignedFree()` reads one pointer from them, the base of the block
  (`PointerReadBack`). `StackPointerInside` keeps the cast of the stack's size to
  `uint32_t`: the stack pointer never lies above the stack, and it is inside exactly
  when the size that is left has 16 bytes. The chunk of an
  item is its quotient; two chunks are apart by a whole chunk. The programs: `Counting`
  (the counter is the number of tasks whose `done()` is not through, and one `done()` at
  most finds zero) and `InHand` (`pending` is the number of tasks the pool was given and
  has not dropped) say when main may go on; `Written` and `InOrder` what it then finds.
  That the chunks cover every item needs the least multiple above a number; it comes
  from the well-foundedness of the naturals.
* *Vector, Thread.* `pushed` and `removed` are recursive functions on the numbers up to
  the length, and what they compute is shown by an induction over a set of numbers: it
  is all of them, because none is the least that is missing (`Induction`, from the
  well-foundedness of the naturals, since the library's induction theorems take an
  operator as a parameter). `Accounted` ties the ledger to the storage and survives every
  operation, on broken vectors too; with the types of the handles that is `ThreadInv`,
  and `LedgerMatches` and `ImplOutlivesThread` follow. `Full` adds that the first `count`
  cells are there and hold cores, `Tight` that the storage has `capacity` cells;
  `UsableAreFull` says that a vector is full or broken, and `Outcome` what a step may make
  of one: it stays sound, or it was assigned to and had elements or storage on the heap.
  `std::sort` is a permutation because `rank` is a bijection. `remove()` fills a hole at
  its scan, so each core that is not listed keeps the number of its occurrences, and a
  single listed one is found and not brought back.
* *List.* `Holding(used, spare)` says that following the pointers from `head` runs through
  the sequence `used` and from `free` through `spare`, back as well as forth, and that the
  two share the entries. An entry that is unlinked from one and linked to the front of
  the other keeps this (`Moved`, for both directions), and so does an allocation
  (`Grown`). `ChainFound` then says that `Walk` finds just these sequences, by the same
  induction; with that each operation is an action of `StableList` or stutters.

Only model-checked, and why:

* Liveness under fairness (`TasksEnd`, `StopReturns`, `EveryTaskRuns`,
  `DestructorReturns`, `WaitsEnd`, `Returns`): needs `ENABLED`, which the provers cannot do.
* That the exclusions are needed: `OnlyReassignmentBreaks` and `RemoveIsExactForOne` are
  proved as they stand; that an assignment does break a vector, and that `remove()` of two
  cores does miss one, are behaviours of the model which TLC reaches.

## 5. Findings and divergences

With a run:

* `take()` (`waitingfiber.hpp:67`) leaves the node of the fiber it returns, so it
  returns the fiber again, against `waitingfiber.hpp:20`; `enqueueFiberTimeouts()`
  (`worker.cpp:307`) takes the same node without end while another fiber keeps the
  container non-empty, and the queue outgrows the pool. (`worker_pool`)
* The destructor of the scheduler stops workers in turn, and a task of a worker not
  stopped yet may be pushed to one that has ended, although `hello_task.cpp:49` says
  all tasks complete. (`scheduler_all_complete`)

Met while modelling, part of the models, without a run of their own:

* `erase()` (`waitingfiber.hpp:85`) leaves the entry of the map: `contains()` stays
  true, and `first()` may follow an entry that is not there (label `undefined`).
* A fiber that timed out is queued with the state `Waiting`, against the comment at
  `worker.cpp:183`; a late notification queues it twice.
* `waiting` may exceed `numBlockedFibers`, against `worker.hpp:137`.
* `Scheduler::enqueue()` returns without a trace when the thread has no worker
  (`scheduler.cpp:96`), against `scheduler.hpp:70`; such tasks are in `dropped`.
* A stolen task can be stolen again, against `worker.hpp:118-119`.
* `waitForWork()` skips the timeouts while `num > 0` (`worker.cpp:250`): a worker that
  always has tasks never wakes a fiber that timed out.
* The timed waits of `Event` and `ConditionVariable` on fibers do not link, because
  `fiber.cpp` keeps the bodies of `Fiber`'s templates.
* `vector::free()` (`containers.hpp:147`) keeps `capacity` and `count`: an assignment to
  a vector on the heap finds `elements` null under the old capacity, and one to a vector
  with elements makes `reserve()` move objects that were destroyed. An affinity assigned
  to itself is emptied or broken. `OnlyReassignmentBreaks` says that nothing else does.
* `Affinity::remove()` (`thread.cpp:245`) does not look at the core it moved into the
  hole, so it may keep cores it should remove; `RemoveIsExactForOne` says when it cannot.
* `Affinity::all()` (`thread.cpp:146`) counts the cores the process may use and then
  numbers them from 0, against "all the cores available to the process"
  (`thread.hpp:85`).
* `Thread::operator=` (`thread.cpp:447`) over a thread that was not joined terminates
  the program, and `~Thread()` leaks its `Impl`, which is why the thread may go on.
* `OSFiber::createFiber()` (`osfiberm.hpp:121`) cuts the size of the stack to `uint32_t`:
  a stack of 2^32 bytes or more is used from its size modulo 2^32 downwards, and one of
  exactly 2^32 begins at its lower end. `StackPointerInside` says which sizes are safe.
* `make_unique_n()` constructs the first object of the n it allocates. (Not in a model.)
* The benchmarks capture their `WaitGroup` by reference, so the last `done()` may lock
  and notify after `main` left the scope (`OnlyLastDoneOverruns`); the examples capture
  it by value, as `hello_task.cpp:29` asks.
* The number of chunks is computed with an addition that may overflow and is cut to 32
  bits for the `WaitGroup`, and `strtoull` accepts "-1"; `Fits` names the numbers for
  which `ChecksumsAgree` and `Returns` hold.

## 6. Not modelled

* *Below the library.* The other registers of a new fiber and the assembler switch (a switch is atomic on its
  thread); `mmap`, `mprotect`, `malloc` themselves and their failure; `std::mutex`,
  `std::condition_variable` and `std::thread` beyond what C++ says of them; the Windows
  variants of threads, fibers and pages.
* *No state to speak of.* Moving and calling `std::function`; the macros for thread-local
  variables; `defer` and the annotations for thread-safety analysis; naming threads,
  `numLogicalCPUs()`, printing, the image of `fractal.cpp`, the numeric work of a task
  and most of the command line; the setters and getters of the configuration.
* *Not reachable today.* The timed waits of `Event` and `ConditionVariable` with fibers do
  not link; those of `Worker`, which they would call, are in the model.
* *Misuse.* `WaitGroup::done()` called more often than `add()`, `join()` of an empty
  handle and the like: the environments of the models keep the contract. Overflow of
  `waitingNum` and of `num` needs more waiters than memory holds.
* *Endless supply.* The tasks of `Worker` and `Scheduler` are finitely many, so that a
  timer starves behind tasks for ever, or a task is stolen for ever, is not shown.
* *The worker's destructor*, and the construction of objects by `create()`,
  `make_unique()` and `StlAllocator`.

## 7. Plan

Done: all components with state and control of their own; every invariant and every
action property that a run checks is a theorem, and so are the refinements
`ImplementsTaskExecutor`, `ImplementsFiberTimeouts` and `ImplementsStableList`.

1. *Prove more.* `Worker`: which parts of `TaskExecutor` hold with timeouts (a task runs
   once and no task is lost already do: `TasksPlaced`). `ConditionVariable` over the
   operations of `StableList`, so that `List` stands under it.
2. *Model more.* Several waiters with timeouts on one condition variable, once they
   link, and a worker whose users schedule without end, for the starvation of timers.
