------------------------------ MODULE Benchmark ------------------------------
(***************************************************************************)
(* The programs that use the scheduler (example/benchmark.cpp,             *)
(* hello_task.cpp, fractal.cpp): a main thread that schedules a task per   *)
(* chunk of its items, waits for all of them, sums up what they wrote and  *)
(* leaves the scope of what they captured.  Half of the benchmarks do so   *)
(* on a scheduler, a WaitGroup and an Event, the others on PlainThreadPool *)
(* and a std::condition_variable.  A task runs in these stages:            *)
(*   none, queued, work, [gate, parked, after,] done, [notify,] end        *)
(***************************************************************************)
EXTENDS Integers, FiniteSets

CONSTANTS
    Workers,         \* the threads of the pool; as many workers of the scheduler
    Numbers,         \* the numbers a command line gives
    UInt64,          \* 2^64
    UInt32,          \* 2^32
    MaxTasks         \* bound of the tasks of a program

ASSUME BenchmarkAssumption ==
    /\ IsFiniteSet(Workers) /\ Workers # {}
    /\ Numbers \subseteq Nat
    /\ UInt64 \in Nat \ {0} /\ UInt32 \in Nat \ {0} /\ MaxTasks \in Nat

\* What tells the programs apart: the pool or the scheduler, tasks that wait for a
\* gate, a WaitGroup captured by value or by reference, items in chunks.
Program(pool, gate, byValue, chunked) ==
    [pool |-> pool, gate |-> gate, byValue |-> byValue, chunked |-> chunked]

runTaskBenchmark              == Program(FALSE, FALSE, FALSE, FALSE)
runPlainPoolTaskBenchmark     == Program(TRUE, FALSE, FALSE, FALSE)
runFiberBlockingBenchmark     == Program(FALSE, TRUE, FALSE, FALSE)
runPlainPoolBlockingBenchmark == Program(TRUE, TRUE, FALSE, FALSE)
runParallelReduce             == Program(FALSE, FALSE, FALSE, TRUE)
hello_task                    == Program(FALSE, TRUE, TRUE, FALSE)
fractal                       == Program(FALSE, FALSE, TRUE, FALSE)

Programs == {runTaskBenchmark, runPlainPoolTaskBenchmark, runFiberBlockingBenchmark,
             runPlainPoolBlockingBenchmark, runParallelReduce, hello_task, fractal}

VARIABLES
    program, reduceItems, chunkSize,   \* fixed at the start
    main,        \* where the main thread stands
    scheduled,   \* how many tasks it has scheduled
    at,          \* the stage of each task
    outputs,     \* what each task has written: "zero", "half" or "full"
    count,       \* the counter of the WaitGroup
    gate,        \* the Event is signalled; released
    scope,       \* outputs, WaitGroup and gate of the main thread are alive
    loop,        \* where each thread of the pool stands
    hand,        \* the task it holds, {} for none
    pending,
    shutdown

input == <<program, reduceItems, chunkSize>>
pool == <<loop, hand, pending, shutdown>>
vars == <<input, main, scheduled, at, outputs, count, gate, scope, pool>>

Tasks == 0..(MaxTasks - 1)

-----------------------------------------------------------------------------
(* Pure parts *)

\* strtoull() negates what follows a '-' in 64 bits, and stays at its maximum.
parseUnsigned(negative, number) ==
    IF number >= UInt64 THEN UInt64 - 1
    ELSE IF negative THEN (UInt64 - number) % UInt64 ELSE number

Parsed == {parseUnsigned(s, n) : s \in BOOLEAN, n \in Numbers} \ {0}

chunkCountDown(items, chunk) == items \div chunk   \* the last chunk is forgotten

chunkCount(items, chunk) == ((items + chunk - 1) % UInt64) \div chunk

\* The items of one task, from begin up to end.
chunkRange(items, chunk, t) ==
    LET end == (t * chunk + chunk) % UInt64
    IN  (t * chunk)..((IF end < items THEN end ELSE items) - 1)

taskCount == chunkCount(reduceItems, chunkSize)

\* Neither the number of chunks nor the counter of the WaitGroup was cut off.
Fits == reduceItems + chunkSize - 1 < UInt64 /\ taskCount < UInt32

-----------------------------------------------------------------------------
Init ==
    /\ program \in Programs
    /\ reduceItems \in Parsed
    /\ chunkSize \in IF program.chunked THEN Parsed ELSE {1}
    /\ taskCount <= MaxTasks
    /\ program.chunked \/ Fits
    /\ main = "schedule"
    /\ scheduled = 0
    /\ at = [t \in Tasks |-> "none"]
    /\ outputs = [t \in Tasks |-> "zero"]
    /\ count = taskCount % UInt32
    /\ gate = FALSE
    /\ scope = TRUE
    /\ loop = [w \in Workers |-> IF program.pool THEN "awake" ELSE "gone"]
    /\ hand = [w \in Workers |-> {}]
    /\ pending = 0
    /\ shutdown = FALSE

Queued == {t \in Tasks : at[t] = "queued"}
Running == {t \in Tasks : at[t] \in {"work", "gate", "after", "done", "notify"}}

MainGoes(from, to) == main = from /\ main' = to

-----------------------------------------------------------------------------
(* Slips the code could have. *)

AllDoneButOne == IF program.pool THEN pending = 0 ELSE count <= 1
wakesOne == \E w \in Workers : loop' = [loop EXCEPT ![w] = IF @ = "asleep" THEN "awake" ELSE @]

-----------------------------------------------------------------------------
(* The main thread *)

\* hfts::schedule(), or enqueue() up to the unlock.
Schedule ==
    /\ scheduled < taskCount
    /\ MainGoes("schedule", IF program.pool THEN "notify" ELSE "schedule")
    /\ scheduled' = scheduled + 1
    /\ at' = [at EXCEPT ![scheduled] = "queued"]
    /\ pending' = IF program.pool THEN pending + 1 ELSE pending
    /\ UNCHANGED <<input, outputs, count, gate, scope, loop, hand, shutdown>>

\* ready.notify_one()
NotifyOne ==
    /\ MainGoes("notify", "schedule")
    /\ IF \E w \in Workers : loop[w] = "asleep"
       THEN \E w \in Workers : loop[w] = "asleep" /\ loop' = [loop EXCEPT ![w] = "awake"]
       ELSE UNCHANGED loop
    /\ UNCHANGED <<input, scheduled, at, outputs, count, gate, scope, hand, pending, shutdown>>

Scheduled ==
    /\ scheduled = taskCount
    /\ MainGoes("schedule", IF program.gate THEN "release" ELSE "wait")
    /\ UNCHANGED <<input, scheduled, at, outputs, count, gate, scope, pool>>

Unparked == [t \in Tasks |-> IF at[t] = "parked" THEN "gate" ELSE at[t]]

\* gate.signal() wakes the tasks under its mutex, gateCv.notify_all() after it.
Release ==
    /\ MainGoes("release", IF program.pool THEN "notify_all" ELSE "wait")
    /\ gate' = TRUE
    /\ at' = IF program.pool THEN at ELSE Unparked
    /\ UNCHANGED <<input, scheduled, outputs, count, scope, pool>>

NotifyGate ==
    /\ MainGoes("notify_all", "wait")
    /\ at' = Unparked
    /\ UNCHANGED <<input, scheduled, outputs, count, gate, scope, pool>>

AllDone == IF program.pool THEN pending = 0 ELSE count = 0

\* wg.wait(), waitUntilIdle(): the predicate, under the mutex.
Wait ==
    /\ MainGoes("wait", IF AllDone THEN "sum" ELSE "asleep")
    /\ UNCHANGED <<input, scheduled, at, outputs, count, gate, scope, pool>>

\* sumValues(), return: the scope of the tasks' captures ends.
Leave ==
    /\ MainGoes("sum", IF program.pool THEN "shutdown" ELSE "join")
    /\ scope' = FALSE
    /\ UNCHANGED <<input, scheduled, at, outputs, count, gate, pool>>

Shutdown ==
    /\ MainGoes("shutdown", "notify_ready")
    /\ shutdown' = TRUE
    /\ UNCHANGED <<input, scheduled, at, outputs, count, gate, scope, loop, hand, pending>>

wakesAll == loop' = [w \in Workers |-> IF loop[w] = "asleep" THEN "awake" ELSE loop[w]]

NotifyReady ==
    /\ MainGoes("notify_ready", "join")
    /\ wakesAll
    /\ UNCHANGED <<input, scheduled, at, outputs, count, gate, scope, hand, pending, shutdown>>

\* The threads of the pool are joined, or ~Scheduler() waits for its tasks.
Join ==
    /\ MainGoes("join", "returned")
    /\ \A w \in Workers : loop[w] = "gone"
    /\ program.pool \/ Queued \cup Running = {}
    /\ UNCHANGED <<input, scheduled, at, outputs, count, gate, scope, pool>>

MainWoken == IF main = "asleep" THEN "wait" ELSE main

-----------------------------------------------------------------------------
(* The tasks *)

Goes(t, from, to) == at[t] = from /\ at' = [at EXCEPT ![t] = to]

Writes(t, x) == outputs' = [outputs EXCEPT ![t] = x]

\* A worker of the scheduler is free to start a task.  A parked one needs none, and
\* goes on when it is woken (which may be sooner than its worker has time for it).
FreeWorker == ~program.pool /\ Cardinality(Running) < Cardinality(Workers)

\* scheduler.hpp promises no order between tasks.
Start(t) ==
    /\ FreeWorker
    /\ Goes(t, "queued", "work")
    /\ UNCHANGED <<input, main, scheduled, outputs, count, gate, scope, pool>>

Work(t) ==
    /\ Goes(t, "work", IF program.gate THEN "gate" ELSE "done")
    /\ Writes(t, IF program.gate THEN "half" ELSE "full")
    /\ UNCHANGED <<input, main, scheduled, count, gate, scope, pool>>

\* gate.wait(), gateCv.wait(): the predicate, under the mutex.
WaitGate(t) ==
    /\ Goes(t, "gate", IF gate THEN "after" ELSE "parked")
    /\ UNCHANGED <<input, main, scheduled, outputs, count, gate, scope, pool>>

After(t) ==
    /\ Goes(t, "after", "done")
    /\ Writes(t, "full")
    /\ UNCHANGED <<input, main, scheduled, count, gate, scope, pool>>

\* --data->count of wg.done(); on the pool the task just returns.
Done(t) ==
    /\ Goes(t, "done", IF ~program.pool /\ count = 1 THEN "notify" ELSE "end")
    /\ count' = IF program.pool THEN count ELSE (count - 1) % UInt32
    /\ UNCHANGED <<input, main, scheduled, outputs, gate, scope, pool>>

\* The rest of wg.done(), on the Data of wg.
Notify(t) ==
    /\ Goes(t, "notify", "end")
    /\ main' = MainWoken
    /\ UNCHANGED <<input, scheduled, outputs, count, gate, scope, pool>>

-----------------------------------------------------------------------------
(* workerLoop() of the pool *)

First == CHOOSE t \in Queued : \A s \in Queued : t <= s

Take(w) ==
    /\ loop[w] = "awake" /\ hand[w] = {}
    /\ IF Queued # {}
       THEN /\ hand' = [hand EXCEPT ![w] = {First}]
            /\ at' = [at EXCEPT ![First] = "work"]
            /\ UNCHANGED loop
       ELSE /\ loop' = [loop EXCEPT ![w] = IF shutdown THEN "gone" ELSE "asleep"]
            /\ UNCHANGED <<hand, at>>
    /\ UNCHANGED <<input, main, scheduled, outputs, count, gate, scope, pending, shutdown>>

\* pending--, with the notification of drained under the mutex.
Drop(w) ==
    /\ hand[w] # {} /\ \A t \in hand[w] : at[t] = "end"
    /\ hand' = [hand EXCEPT ![w] = {}]
    /\ pending' = pending - 1
    /\ main' = IF pending' = 0 THEN MainWoken ELSE main
    /\ UNCHANGED <<input, scheduled, at, outputs, count, gate, scope, loop, shutdown>>

\* The condition variables of the library may wake anybody.
Spurious ==
    /\ program.pool
    /\ \/ \E w \in Workers :
             /\ loop[w] = "asleep" /\ loop' = [loop EXCEPT ![w] = "awake"]
             /\ UNCHANGED <<at, main>>
       \/ \E t \in Tasks : Goes(t, "parked", "gate") /\ UNCHANGED <<loop, main>>
       \/ MainGoes("asleep", "wait") /\ UNCHANGED <<at, loop>>
    /\ UNCHANGED <<input, scheduled, outputs, count, gate, scope, hand, pending, shutdown>>

-----------------------------------------------------------------------------
MainNext ==
    \/ Schedule \/ NotifyOne \/ Scheduled \/ Release \/ NotifyGate \/ Wait
    \/ Leave \/ Shutdown \/ NotifyReady \/ Join

TaskNext(t) ==
    Start(t) \/ Work(t) \/ WaitGate(t) \/ After(t) \/ Done(t) \/ Notify(t)

Next ==
    \/ MainNext \/ Spurious
    \/ \E t \in Tasks : TaskNext(t)
    \/ \E w \in Workers : Take(w) \/ Drop(w)

Spec == Init /\ [][Next]_vars

\* The operating system runs every thread; the scheduler runs every task.
Fairness ==
    /\ WF_vars(MainNext)
    /\ \A t \in Tasks : WF_vars(TaskNext(t))
    /\ \A w \in Workers : WF_vars(Take(w) \/ Drop(w))

FairSpec == Spec /\ Fairness

-----------------------------------------------------------------------------
(* Properties *)

\* Every item is in the chunk of exactly one task.
ItemsShared(items, chunk) ==
    \A i \in 0..(items - 1) :
        \E t \in 0..(chunkCount(items, chunk) - 1) :
            \A s \in 0..(chunkCount(items, chunk) - 1) :
                i \in chunkRange(items, chunk, s) <=> s = t

\* benchmark.cpp:632, 676, 703: no "checksum-mismatch" is printed: when the main thread
\* sums up, every item was worked on by exactly one task, and the task was through
\* with it, if the numbers on the command line are not beyond what the types hold.
ChecksumsAgree ==
    main = "sum" /\ Fits =>
        /\ \A t \in 0..(taskCount - 1) : outputs[t] = "full"
        /\ ItemsShared(reduceItems, chunkSize)

\* What a task captured is there as long as it uses it.  The exception is a WaitGroup
\* captured by reference (benchmark.cpp:367, 438, 534), which the last done() notifies
\* when main may have seen the zero and returned; nothing else runs by then.  The
\* examples capture it by value ("All hfts primitives are capture-by-value",
\* hello_task.cpp:29), which keeps its Data.
OnlyLastDoneOverruns ==
    Fits => \A t \in Tasks :
        /\ at[t] \in {"queued", "work", "gate", "parked", "after", "done"} => scope
        /\ at[t] = "notify" =>
              \/ scope \/ program.byValue
              \/ \A s \in Tasks \ {t} : at[s] \in {"none", "end"}

\* Every program returns: no wake-up is lost between the predicates and the
\* notifications of main, tasks and pool, and the pool's destructor ends.
Returns == Fits => <>(main = "returned")
=============================================================================
