--------------------------- MODULE BenchmarkProofs ---------------------------
(***************************************************************************)
(* Proofs about the programs, for every number of items, workers and tasks *)
(* that the types of the code can hold: the chunks of runParallelReduce()  *)
(* share the items, the checksums agree, and what a task captured is there *)
(* as long as it uses it, but for the last done().                         *)
(***************************************************************************)
EXTENDS Benchmark, FiniteSetTheorems, WellFoundedInduction, TLAPS

\* Multiples of a number, as the solver needs them.
LEMMA Quotient ==
  ASSUME NEW x \in Nat, NEW c \in Nat \ {0}
  PROVE  x \div c \in Nat /\ c * (x \div c) <= x /\ x < c * (x \div c) + c
  BY SMT

LEMMA Multiples ==
  ASSUME NEW c \in Nat, NEW x \in Nat, NEW y \in Nat, x < y
  PROVE  c * x \in Nat /\ c * y \in Nat /\ c * x + c <= c * y
  <1> DEFINE d == y - x - 1
  <1>1. d \in Nat /\ y = x + 1 + d
    OBVIOUS
  <1> HIDE DEF d
  <1>2. c * y = c * x + c + c * d /\ c * x \in Nat /\ c * d \in Nat
    BY <1>1
  <1> QED
    BY <1>2

\* benchmark.cpp:515: the chunks share the items out, each item to one task, as
\* long as the sum that rounds up to whole chunks does not overflow.
THEOREM ChunksShareTheItems ==
  ASSUME NEW items \in Nat, NEW chunk \in Nat \ {0}, items + chunk - 1 < UInt64
  PROVE  ItemsShared(items, chunk)
  <1> DEFINE n == chunkCount(items, chunk)
  <1>1. /\ UInt64 \in Nat /\ n \in Nat /\ chunk * n \in Nat
        /\ items <= chunk * n /\ chunk * n <= items + chunk - 1
    <2> DEFINE sum == items + chunk - 1
    <2>1. sum \in Nat /\ UInt64 \in Nat \ {0} /\ sum < UInt64 /\ items = sum + 1 - chunk
      BY BenchmarkAssumption
    <2>2. n = sum \div chunk
      BY <2>1 DEF chunkCount
    <2> HIDE DEF n, sum
    <2>3. n \in Nat /\ chunk * n <= sum /\ sum < chunk * n + chunk
      BY <2>1, <2>2, Quotient
    <2>4. chunk * n \in Nat
      BY <2>3
    <2> QED
      BY <2>1, <2>3, <2>4 DEF sum
  <1> HIDE DEF n
  <1>2. ASSUME NEW s \in 0..(n - 1), NEW i \in 0..(items - 1)
        PROVE  i \in chunkRange(items, chunk, s) <=> chunk * s <= i /\ i < chunk * s + chunk
    <2>1. s \in Nat /\ chunk * s \in Nat /\ chunk * s + chunk <= chunk * n
      BY <1>1, Multiples
    <2> DEFINE first == chunk * s
    <2>2. s * chunk = first
      OBVIOUS
    <2>3. first \in Nat /\ first + chunk < UInt64
      BY <1>1, <2>1
    <2> HIDE DEF first
    <2>4. (first + chunk) % UInt64 = first + chunk
      BY <1>1, <2>3
    <2>5. chunkRange(items, chunk, s)
          = first..((IF first + chunk < items THEN first + chunk ELSE items) - 1)
      BY <2>2, <2>4 DEF chunkRange
    <2>6. i \in chunkRange(items, chunk, s) <=> first <= i /\ i < first + chunk
      BY <2>3, <2>5
    <2> QED
      BY <2>6 DEF first
  <1>3. ASSUME NEW i \in 0..(items - 1)
        PROVE  \E t \in 0..(n - 1) :
                  \A s \in 0..(n - 1) : i \in chunkRange(items, chunk, s) <=> s = t
    <2> DEFINE t == i \div chunk
    <2>1. t \in Nat /\ chunk * t <= i /\ i < chunk * t + chunk
      BY Quotient
    <2> HIDE DEF t
    <2>2. t < n
      <3>1. CASE n < t
        BY <1>1, <2>1, <3>1, Multiples
      <3>2. CASE n = t
        BY <1>1, <2>1, <3>2
      <3> QED
        BY <1>1, <2>1, <3>1, <3>2
    <2>3. ASSUME NEW s \in 0..(n - 1), s # t
          PROVE  ~(chunk * s <= i /\ i < chunk * s + chunk)
      <3>1. CASE s < t
        <4>1. chunk * s + chunk <= chunk * t
          BY <2>1, <3>1, Multiples
        <4> QED
          BY <2>1, <4>1, Multiples
      <3>2. CASE t < s
        <4>1. chunk * t + chunk <= chunk * s
          BY <2>1, <3>2, Multiples
        <4> QED
          BY <2>1, <4>1, Multiples
      <3> QED
        BY <2>1, <2>3, <3>1, <3>2
    <2>4. t \in 0..(n - 1)
      BY <1>1, <2>1, <2>2
    <2>5. \A s \in 0..(n - 1) : i \in chunkRange(items, chunk, s) <=> s = t
      BY <1>2, <2>1, <2>3, <2>4
    <2> QED
      BY <2>4, <2>5
  <1> QED
    BY <1>3 DEF n, ItemsShared

-----------------------------------------------------------------------------
(* The invariant of a program with its pool or its scheduler. *)

Stages == {"none", "queued", "work", "gate", "parked", "after", "done", "notify", "end"}
Middle == {"work", "gate", "parked", "after", "done"}

Typed ==
  /\ program.pool \in BOOLEAN /\ program.gate \in BOOLEAN
  /\ reduceItems \in Nat \ {0} /\ chunkSize \in Nat \ {0} /\ taskCount \in 0..MaxTasks
  /\ at \in [Tasks -> Stages]
  /\ outputs \in [Tasks -> {"zero", "half", "full"}]
  /\ scheduled \in 0..taskCount
  /\ scope \in BOOLEAN
  /\ hand \in [Workers -> SUBSET Tasks]

\* Main schedules the tasks in order, all of them before it goes on.
InOrder ==
  /\ \A t \in Tasks : at[t] = "none" <=> scheduled <= t
  /\ main \notin {"schedule", "notify"} => scheduled = taskCount

\* A task that is through has written.
Written == \A t \in Tasks : at[t] \in {"done", "notify", "end"} => outputs[t] = "full"

\* The tasks whose done() has not decremented the counter.
Left == {t \in 0..(taskCount - 1) : at[t] \notin {"notify", "end"}}

\* The counter of the WaitGroup tells how many are left; one done() finds the last.
Counting ==
  ~program.pool =>
    /\ main # "notify" /\ \A w \in Workers : loop[w] = "gone" /\ hand[w] = {}
    /\ Fits => /\ count = Cardinality(Left)
               /\ \A t \in Tasks : at[t] = "notify" =>
                     Left = {} /\ \A s \in Tasks : at[s] = "notify" => s = t

\* The tasks that the pool has been given and has not dropped.
Held == {t \in Tasks : at[t] = "queued" \/ \E w \in Workers : t \in hand[w]}

\* pending tells how many they are; a thread of the pool holds each task it runs.
InHand ==
  program.pool =>
    /\ pending = Cardinality(Held)
    /\ \A t \in Tasks : at[t] \in Middle => \E w \in Workers : t \in hand[w]
    /\ \A t \in Tasks : at[t] # "notify"
    /\ \A w \in Workers, t \in Tasks : t \in hand[w] =>
          hand[w] = {t} /\ at[t] \notin {"none", "queued"}
    /\ \A v, w \in Workers, t \in Tasks : t \in hand[v] /\ t \in hand[w] => v = w

\* Main is past the wait, with every task through, when its scope ends.
Past == main \in {"sum", "shutdown", "notify_ready", "join", "returned"}

Over ==
  /\ Fits /\ Past => Left = {}
  /\ ~scope => Past

IInv == Typed /\ InOrder /\ Written /\ Counting /\ InHand /\ Over

LEMMA TasksFinite ==
  /\ \A S : S \subseteq Tasks => IsFiniteSet(S)
  /\ IsFiniteSet(Held) /\ Cardinality(Held) \in Nat
  <1>1. IsFiniteSet(Tasks)
    BY BenchmarkAssumption, FS_Interval DEF Tasks
  <1> QED
    BY <1>1, FS_Subset, FS_CardinalityType DEF Held

LEMMA LeftFinite ==
  ASSUME Typed
  PROVE  Left \subseteq Tasks /\ IsFiniteSet(Left) /\ Cardinality(Left) \in Nat
  <1>1. Left \subseteq Tasks
    BY BenchmarkAssumption DEF Typed, Left, Tasks
  <1> QED
    BY <1>1, TasksFinite, FS_CardinalityType

\* A set of numbers has a least one: the front of the pool's queue exists.
LEMMA LeastNumber ==
  ASSUME NEW T \in SUBSET Nat, T # {}
  PROVE  \E x \in T : \A y \in T : x <= y
  <1> DEFINE R == {ss \in Nat \X Nat : ss[1] < ss[2]}
  <1>1. IsWellFoundedOn(R, Nat)
    BY NatLessThanWellFounded DEF OpToRel
  <1>2. PICK x \in T : \A y \in T : <<y, x>> \notin R
    <2> HIDE DEF R
    <2> QED
      BY <1>1, WFMin
  <1>3. ASSUME NEW y \in T PROVE x <= y
    <2>1. y \in Nat /\ x \in Nat /\ (y < x => <<y, x>> \in R)
      OBVIOUS
    <2> HIDE DEF R
    <2> QED
      BY <1>2, <2>1
  <1> QED
    BY <1>3

LEMMA FirstIsQueued ==
  ASSUME Queued # {} PROVE First \in Queued
  <1>1. Queued \in SUBSET Nat
    BY DEF Queued, Tasks
  <1> QED
    BY <1>1, LeastNumber DEF First

LEMMA InitIInv == Init => IInv
  <1> SUFFICES ASSUME Init PROVE IInv
    OBVIOUS
  <1> USE BenchmarkAssumption DEF Init
  <1>1. /\ program.pool \in BOOLEAN /\ program.gate \in BOOLEAN
    <2>1. \A a, b, c, d \in BOOLEAN : /\ Program(a, b, c, d).pool \in BOOLEAN
                                     /\ Program(a, b, c, d).gate \in BOOLEAN
      BY DEF Program
    <2>2. PICK a, b, c, d \in BOOLEAN : program = Program(a, b, c, d)
      <3> HIDE DEF Program
      <3> QED
        BY DEF Programs, runTaskBenchmark, runPlainPoolTaskBenchmark,
               runFiberBlockingBenchmark, runPlainPoolBlockingBenchmark, runParallelReduce,
               hello_task, fractal
    <2> QED
      BY <2>1, <2>2
  <1>2. reduceItems \in Nat \ {0} /\ chunkSize \in Nat \ {0}
    BY DEF Parsed, parseUnsigned
  <1>3. taskCount \in 0..MaxTasks
    <2>1. (reduceItems + chunkSize - 1) % UInt64 \in Nat
      BY <1>2
    <2>2. ((reduceItems + chunkSize - 1) % UInt64) \div chunkSize \in Nat
      BY <1>2, <2>1, Quotient
    <2>3. taskCount \in Nat
      BY <2>2 DEF taskCount, chunkCount
    <2> HIDE DEF taskCount
    <2> QED
      BY <2>3
  <1> HIDE DEF taskCount
  <1>4. Typed
    BY <1>1, <1>2, <1>3 DEF Typed, Stages
  <1>5. InOrder /\ Written
    BY DEF InOrder, Written, Tasks
  <1>6. Left = 0..(taskCount - 1) /\ Cardinality(Left) = taskCount
    <2>1. Left = 0..(taskCount - 1)
      BY <1>3 DEF Left, Tasks
    <2>2. 0 \in Int /\ taskCount - 1 \in Int
      BY <1>3
    <2>3. Cardinality(0..(taskCount - 1)) = IF 0 > taskCount - 1 THEN 0 ELSE taskCount - 1 - 0 + 1
      BY <2>2, FS_Interval
    <2> QED
      BY <1>3, <2>1, <2>3
  <1>7. Counting
    BY <1>3, <1>6 DEF Counting, Fits
  <1>8. Held = {} /\ Cardinality({}) = 0
    BY FS_EmptySet DEF Held
  <1>9. InHand
    BY <1>8 DEF InHand, Middle
  <1>10. Over
    BY DEF Over, Past
  <1> QED
    BY <1>4, <1>5, <1>7, <1>9, <1>10 DEF IInv

\* A step that moves main, or tasks between the stages in which they run.
LEMMA StagesMove ==
  ASSUME IInv, UNCHANGED <<input, scheduled, count, hand, pending>>,
         at' \in [Tasks -> Stages],
         \A t \in Tasks : at'[t] = at[t] \/ (at[t] \in Middle /\ at'[t] \in Middle),
         outputs' \in [Tasks -> {"zero", "half", "full"}], Written',
         scope' \in BOOLEAN,
         main' \notin {"schedule", "notify"} => scheduled = taskCount,
         ~program.pool => main' # "notify" /\ \A w \in Workers : loop'[w] = "gone",
         Fits /\ Past' => Left = {},
         ~scope' => Past'
  PROVE  IInv'
  <1> USE DEF IInv
  <1>1. taskCount' = taskCount /\ Fits' = Fits /\ program' = program
    BY DEF taskCount, Fits, input
  <1>2. Left' = Left
    <2>1. \A t \in 0..(taskCount - 1) : t \in Tasks
      BY BenchmarkAssumption DEF Typed, Tasks
    <2>2. \A t \in Tasks : at[t] \in {"notify", "end"} <=> at'[t] \in {"notify", "end"}
      BY DEF Middle
    <2> QED
      BY <1>1, <2>1, <2>2 DEF Left
  <1>3. Held' = Held
    BY DEF Held, Middle
  <1>4. Typed'
    BY <1>1 DEF Typed, input
  <1>5. InOrder'
    BY <1>1 DEF InOrder, Middle
  <1>6. Counting'
    BY <1>1, <1>2 DEF Counting, Middle
  <1>7. InHand'
    BY <1>1, <1>3 DEF InHand, Middle
  <1>8. Over'
    BY <1>1, <1>2 DEF Over
  <1> QED
    BY <1>4, <1>5, <1>6, <1>7, <1>8

\* What a step that leaves main alone need not show again.
LEMMA MainStays ==
  ASSUME IInv, UNCHANGED <<main, scope>>
  PROVE  /\ scope' \in BOOLEAN
         /\ main' \notin {"schedule", "notify"} => scheduled = taskCount
         /\ ~program.pool => main' # "notify"
         /\ Fits /\ Past' => Left = {}
         /\ ~scope' => Past'
  BY DEF IInv, Typed, InOrder, Counting, Over, Past

\* Main sees that all tasks are through.
LEMMA WaitIInv ==
  ASSUME IInv, Wait PROVE IInv'
  <1> USE DEF IInv
  <1>1. /\ main = "wait" /\ main' = IF AllDone THEN "sum" ELSE "asleep"
        /\ UNCHANGED <<input, scheduled, at, outputs, count, gate, scope, pool>>
    BY DEF Wait, MainGoes
  <1>2. scheduled = taskCount
    BY <1>1 DEF InOrder
  <1>3. AllDone /\ Fits => Left = {}
    <2> SUFFICES ASSUME AllDone, Fits PROVE Left = {}
      OBVIOUS
    <2>1. CASE ~program.pool
      <3>1. Cardinality(Left) = 0
        BY <2>1 DEF AllDone, Counting
      <3> QED
        BY <3>1, LeftFinite, FS_EmptySet
    <2>2. CASE program.pool
      <3>1. Cardinality(Held) = 0
        BY <2>2 DEF AllDone, InHand
      <3>2. Held = {}
        BY <3>1, TasksFinite, FS_EmptySet
      <3>3. \A t \in Left : t \in Tasks /\ at[t] # "none" /\ at[t] \in Stages
        <4>1. \A t \in Left : t \in Tasks /\ ~(taskCount <= t)
          BY LeftFinite DEF Left, Typed
        <4> QED
          BY <1>2, <4>1 DEF InOrder, Typed
      <3>4. \A t \in Left : at[t] = "queued" \/ at[t] \in Middle
        BY <3>3 DEF Left, Middle, Stages
      <3> QED
        BY <2>2, <3>2, <3>3, <3>4 DEF InHand, Held
    <2> QED
      BY <2>1, <2>2
  <1>4. Past' => AllDone
    BY <1>1 DEF Past
  <1>5. scope' => scope
    BY <1>1
  <1>6. scope
    BY <1>1 DEF Over, Past
  <1> QED
    BY <1>1, <1>2, <1>3, <1>4, <1>6, StagesMove DEF Typed, Written, Counting, pool

\* The other steps of main that schedule no task.
LEMMA MainIInv ==
  ASSUME IInv, NotifyOne \/ Scheduled \/ Release \/ NotifyGate \/ Leave \/ Shutdown
               \/ NotifyReady \/ Join
  PROVE  IInv'
  <1> USE DEF IInv
  <1>1. UNCHANGED <<input, scheduled, outputs, count, hand, pending>>
    BY DEF NotifyOne, Scheduled, Release, NotifyGate, Leave, Shutdown, NotifyReady, Join, pool
  <1>2. Unparked \in [Tasks -> Stages] /\ \A t \in Tasks :
            Unparked[t] = at[t] \/ (at[t] \in Middle /\ Unparked[t] \in Middle)
    BY DEF Typed, Unparked, Stages, Middle
  <1>3. at' = at \/ at' = Unparked
    BY DEF NotifyOne, Scheduled, Release, NotifyGate, Leave, Shutdown, NotifyReady, Join
  <1>4. /\ at' \in [Tasks -> Stages]
        /\ \A t \in Tasks : at'[t] = at[t] \/ (at[t] \in Middle /\ at'[t] \in Middle)
    BY <1>2, <1>3 DEF Typed
  <1>5. \A t \in Tasks : at'[t] \in {"done", "notify", "end"} => at[t] = at'[t]
    BY <1>3 DEF Unparked
  <1>6. Written'
    BY <1>1, <1>5 DEF Written
  <1>7. scope' \in BOOLEAN
    BY DEF NotifyOne, Scheduled, Release, NotifyGate, Leave, Shutdown, NotifyReady, Join, Typed
  <1>8. main' \notin {"schedule", "notify"} => scheduled = taskCount
    BY DEF NotifyOne, Scheduled, Release, NotifyGate, Leave, Shutdown, NotifyReady, Join,
           MainGoes, InOrder
  <1>9. ~program.pool => main' # "notify" /\ \A w \in Workers : loop'[w] = "gone"
    <2>1. main' # "notify"
      BY DEF NotifyOne, Scheduled, Release, NotifyGate, Leave, Shutdown, NotifyReady, Join,
             MainGoes
    <2>2. ~program.pool => ~NotifyOne
      BY DEF NotifyOne, MainGoes, Counting
    <2>3. UNCHANGED loop \/ wakesAll \/ NotifyOne
      BY DEF Scheduled, Release, NotifyGate, Leave, Shutdown, NotifyReady, Join, pool
    <2> QED
      BY <2>1, <2>2, <2>3 DEF wakesAll, Counting
  <1>10. Past' => Past
    BY DEF NotifyOne, Scheduled, Release, NotifyGate, Leave, Shutdown, NotifyReady, Join,
           MainGoes, Past
  <1>11. ~scope' => Past'
    <2>1. ~scope' => Past
      BY DEF NotifyOne, Scheduled, Release, NotifyGate, Leave, Shutdown, NotifyReady, Join,
             MainGoes, Over, Past
    <2>2. Past => Past'
      BY DEF NotifyOne, Scheduled, Release, NotifyGate, Leave, Shutdown, NotifyReady, Join,
             MainGoes, Past
    <2> QED
      BY <2>1, <2>2
  <1> QED
    BY <1>1, <1>4, <1>6, <1>7, <1>8, <1>9, <1>10, <1>11, StagesMove DEF Typed, Over

\* Main hands out the next task.
LEMMA ScheduleIInv ==
  ASSUME IInv, Schedule PROVE IInv'
  <1> USE DEF IInv
  <1>0. PICK k : k = scheduled
    OBVIOUS
  <1>1. /\ k < taskCount /\ main = "schedule"
        /\ main' = IF program.pool THEN "notify" ELSE "schedule"
        /\ scheduled' = k + 1 /\ at' = [at EXCEPT ![k] = "queued"]
        /\ pending' = IF program.pool THEN pending + 1 ELSE pending
        /\ UNCHANGED <<input, outputs, count, gate, scope, loop, hand, shutdown>>
    BY <1>0 DEF Schedule, MainGoes
  <1>2. taskCount' = taskCount /\ Fits' = Fits /\ program' = program
    BY <1>1 DEF taskCount, Fits, input
  <1>3. k \in Tasks /\ k \in 0..(taskCount - 1) /\ taskCount \in Nat /\ MaxTasks \in Nat
    BY <1>0, <1>1, BenchmarkAssumption DEF Typed, Tasks
  <1>4. at[k] = "none"
    BY <1>0, <1>3 DEF InOrder, Typed
  <1>5. /\ at' \in [Tasks -> Stages] /\ at'[k] = "queued"
        /\ \A t \in Tasks : t # k => at'[t] = at[t]
    BY <1>1, <1>3 DEF Typed, Stages
  <1>6. Typed'
    BY <1>0, <1>1, <1>2, <1>3, <1>5 DEF Typed, input
  <1>7. InOrder'
    <2>1. ASSUME NEW t \in Tasks PROVE at'[t] = "none" <=> k + 1 <= t
      <3>1. at[t] = "none" <=> k <= t
        BY <1>0 DEF InOrder
      <3>2. t \in Nat /\ k \in Nat
        BY <1>3, BenchmarkAssumption DEF Tasks
      <3> QED
        BY <1>5, <3>1, <3>2
    <2> QED
      BY <1>1, <2>1 DEF InOrder
  <1>8. Written'
    BY <1>1, <1>5 DEF Written
  <1>9. Left' = Left /\ Left # {}
    <2>1. \A t \in 0..(taskCount - 1) : t \in Tasks
      BY <1>3, BenchmarkAssumption DEF Typed, Tasks
    <2> QED
      BY <1>2, <1>3, <1>4, <1>5, <2>1 DEF Left
  <1>10. Counting'
    BY <1>1, <1>2, <1>5, <1>9 DEF Counting
  <1>11. InHand'
    <2> SUFFICES ASSUME program.pool PROVE InHand'
      BY <1>2 DEF InHand
    <2>1. k \notin Held
      BY <1>3, <1>4 DEF Held, InHand
    <2>2. Held' = Held \cup {k}
      BY <1>1, <1>3, <1>4, <1>5 DEF Held
    <2>3. pending' = Cardinality(Held')
      BY <1>1, <2>1, <2>2, TasksFinite, FS_AddElement DEF InHand
    <2> QED
      BY <1>1, <1>2, <1>3, <1>4, <1>5, <2>3 DEF InHand, Middle
  <1>12. Over'
    BY <1>1 DEF Over, Past
  <1> QED
    BY <1>6, <1>7, <1>8, <1>10, <1>11, <1>12

\* A task between being started and its done().
LEMMA WorkIInv ==
  ASSUME IInv, NEW t \in Tasks, Work(t) \/ WaitGate(t) \/ After(t)
  PROVE  IInv'
  <1> USE DEF IInv
  <1>1. /\ UNCHANGED <<input, main, scheduled, count, scope, pool>>
        /\ at[t] \in Middle /\ \E l \in Middle : at' = [at EXCEPT ![t] = l]
    BY DEF Work, WaitGate, After, Goes, Middle
  <1>2. /\ at' \in [Tasks -> Stages] /\ at'[t] \in Middle
        /\ \A s \in Tasks : s # t => at'[s] = at[s]
    BY <1>1 DEF Typed, Stages, Middle
  <1>3. /\ outputs' \in [Tasks -> {"zero", "half", "full"}]
        /\ \A s \in Tasks : s # t => outputs'[s] = outputs[s]
    BY DEF Work, WaitGate, After, Writes, Typed
  <1>4. at'[t] = "done" => outputs'[t] = "full"
    <2>1. CASE Work(t)
      BY <2>1 DEF Work, Goes, Writes, Typed
    <2>2. CASE WaitGate(t)
      BY <2>2 DEF WaitGate, Goes, Typed
    <2>3. CASE After(t)
      BY <2>3 DEF After, Writes, Typed
    <2> QED
      BY <2>1, <2>2, <2>3
  <1>5. Written'
    BY <1>2, <1>3, <1>4 DEF Written, Middle
  <1> QED
    BY <1>1, <1>2, <1>3, <1>5, MainStays, StagesMove DEF Counting, pool

\* A worker of the scheduler starts a task.
LEMMA StartIInv ==
  ASSUME IInv, NEW t \in Tasks, Start(t)
  PROVE  IInv'
  <1> USE DEF IInv
  <1>1. /\ ~program.pool /\ at[t] = "queued" /\ at' = [at EXCEPT ![t] = "work"]
        /\ UNCHANGED <<input, main, scheduled, outputs, count, gate, scope, pool>>
    BY DEF Start, FreeWorker, Goes
  <1>2. taskCount' = taskCount /\ Fits' = Fits /\ program' = program
    BY <1>1 DEF taskCount, Fits, input
  <1>3. /\ at' \in [Tasks -> Stages] /\ at'[t] = "work"
        /\ \A s \in Tasks : s # t => at'[s] = at[s]
    BY <1>1 DEF Typed, Stages
  <1>4. Left' = Left
    <2>1. \A s \in 0..(taskCount - 1) : s \in Tasks
      BY BenchmarkAssumption DEF Typed, Tasks
    <2> QED
      BY <1>1, <1>2, <1>3, <2>1 DEF Left
  <1>5. Typed'
    BY <1>1, <1>2, <1>3 DEF Typed, input, pool
  <1>6. InOrder' /\ Written'
    BY <1>1, <1>2, <1>3 DEF InOrder, Written
  <1>7. Counting'
    BY <1>1, <1>2, <1>3, <1>4 DEF Counting, pool
  <1>8. InHand' /\ Over'
    BY <1>1, <1>2, <1>4 DEF InHand, Over, Past
  <1> QED
    BY <1>5, <1>6, <1>7, <1>8

\* done(): the last one finds the counter at one, whatever the order.
LEMMA DoneIInv ==
  ASSUME IInv, NEW t \in Tasks, Done(t)
  PROVE  IInv'
  <1> USE DEF IInv
  <1>1. /\ at[t] = "done"
        /\ at' = [at EXCEPT ![t] = IF ~program.pool /\ count = 1 THEN "notify" ELSE "end"]
        /\ count' = IF program.pool THEN count ELSE (count - 1) % UInt32
        /\ UNCHANGED <<input, main, scheduled, outputs, gate, scope, pool>>
    BY DEF Done, Goes
  <1>2. taskCount' = taskCount /\ Fits' = Fits /\ program' = program
    BY <1>1 DEF taskCount, Fits, input
  <1>3. /\ at' \in [Tasks -> Stages] /\ at'[t] \in {"notify", "end"}
        /\ \A s \in Tasks : s # t => at'[s] = at[s]
        /\ at'[t] = "notify" => ~program.pool /\ count = 1
        /\ ~program.pool /\ count = 1 => at'[t] = "notify"
    BY <1>1 DEF Typed, Stages
  <1>4. t \in Left /\ Left' = Left \ {t}
    <2>1. \A s \in 0..(taskCount - 1) : s \in Tasks
      BY BenchmarkAssumption DEF Typed, Tasks
    <2>2. ~(scheduled <= t)
      BY <1>1 DEF InOrder
    <2>3. t \in 0..(taskCount - 1)
      BY <2>2, BenchmarkAssumption DEF Typed, Tasks
    <2> QED
      BY <1>1, <1>2, <1>3, <2>1, <2>3 DEF Left
  <1>5. Typed'
    BY <1>1, <1>2, <1>3 DEF Typed, input, pool
  <1>6. InOrder' /\ Written'
    BY <1>1, <1>2, <1>3 DEF InOrder, Written
  <1>7. Counting'
    <2> SUFFICES ASSUME ~program.pool PROVE Counting'
      BY <1>2 DEF Counting
    <2>1. main' # "notify" /\ \A w \in Workers : loop'[w] = "gone" /\ hand'[w] = {}
      BY <1>1 DEF Counting, pool
    <2>2. ASSUME Fits
          PROVE  /\ count' = Cardinality(Left')
                 /\ \A s \in Tasks : at'[s] = "notify" =>
                       Left' = {} /\ \A r \in Tasks : at'[r] = "notify" => r = s
      <3>1. count = Cardinality(Left) /\ \A s \in Tasks : at[s] # "notify"
        BY <1>4, <2>2 DEF Counting
      <3>2. Cardinality(Left') = count - 1 /\ Cardinality(Left') \in Nat /\ IsFiniteSet(Left')
        <4>1. Cardinality(Left \ {t}) = Cardinality(Left) - 1 /\ IsFiniteSet(Left \ {t})
          BY <1>4, LeftFinite, FS_RemoveElement
        <4>2. Cardinality(Left \ {t}) \in Nat
          BY <4>1, FS_CardinalityType
        <4> QED
          BY <1>4, <3>1, <4>1, <4>2
      <3>3. count <= taskCount
        <4>1. Left \subseteq 0..(taskCount - 1) /\ taskCount \in Nat
          BY DEF Left, Typed
        <4>2. /\ IsFiniteSet(0..(taskCount - 1))
              /\ Cardinality(0..(taskCount - 1)) <= taskCount
          <5> HIDE DEF taskCount
          <5>1. 0 \in Int /\ taskCount - 1 \in Int
            BY <4>1
          <5>2. /\ IsFiniteSet(0..(taskCount - 1))
                /\ Cardinality(0..(taskCount - 1))
                      = IF 0 > taskCount - 1 THEN 0 ELSE taskCount - 1 - 0 + 1
            BY <5>1, FS_Interval
          <5> QED
            BY <4>1, <5>2
        <4>3. Cardinality(Left) <= Cardinality(0..(taskCount - 1))
          BY <4>1, <4>2, FS_Subset
        <4>4. Cardinality(0..(taskCount - 1)) \in Nat
          BY <4>2, FS_CardinalityType
        <4> QED
          BY <3>1, <4>1, <4>2, <4>3, <4>4, LeftFinite
      <3>4. count \in Nat /\ taskCount \in Nat /\ UInt32 \in Nat \ {0} /\ taskCount < UInt32
        BY <2>2, <3>1, LeftFinite, BenchmarkAssumption DEF Fits, Typed
      <3>5. count' = count - 1
        <4> HIDE DEF taskCount
        <4> QED
          BY <1>1, <3>2, <3>3, <3>4
      <3>6. at'[t] = "notify" => Left' = {}
        BY <1>3, <3>2, FS_EmptySet
      <3> QED
        BY <1>3, <3>1, <3>2, <3>5, <3>6
    <2> QED
      BY <1>2, <2>1, <2>2 DEF Counting
  <1>8. InHand'
    <2>1. program.pool => Held' = Held
      BY <1>1, <1>3 DEF Held, pool
    <2> QED
      BY <1>1, <1>2, <1>3, <2>1 DEF InHand, Middle, pool
  <1>9. Over'
    BY <1>1, <1>2, <1>4 DEF Over, Past
  <1> QED
    BY <1>5, <1>6, <1>7, <1>8, <1>9

\* The last done() wakes main.
LEMMA NotifyIInv ==
  ASSUME IInv, NEW t \in Tasks, Notify(t)
  PROVE  IInv'
  <1> USE DEF IInv
  <1>1. /\ at[t] = "notify" /\ at' = [at EXCEPT ![t] = "end"]
        /\ main' = IF main = "asleep" THEN "wait" ELSE main
        /\ UNCHANGED <<input, scheduled, outputs, count, gate, scope, pool>>
    BY DEF Notify, Goes, MainWoken
  <1>2. /\ taskCount' = taskCount /\ Fits' = Fits /\ program' = program
        /\ ~program.pool
    BY <1>1 DEF taskCount, Fits, input, InHand
  <1>3. /\ at' \in [Tasks -> Stages] /\ at'[t] = "end"
        /\ \A s \in Tasks : s # t => at'[s] = at[s]
    BY <1>1 DEF Typed, Stages
  <1>4. Left' = Left
    <2>1. \A s \in 0..(taskCount - 1) : s \in Tasks
      BY BenchmarkAssumption DEF Typed, Tasks
    <2> QED
      BY <1>1, <1>2, <1>3, <2>1 DEF Left
  <1>5. Typed'
    BY <1>1, <1>2, <1>3 DEF Typed, input, pool
  <1>6. InOrder' /\ Written'
    BY <1>1, <1>2, <1>3 DEF InOrder, Written
  <1>7. Counting'
    BY <1>1, <1>2, <1>3, <1>4 DEF Counting, pool
  <1>8. InHand' /\ Over'
    BY <1>1, <1>2, <1>4 DEF InHand, Over, Past
  <1> QED
    BY <1>5, <1>6, <1>7, <1>8

\* A thread of the pool takes the first task, or sleeps, or ends.
LEMMA TakeIInv ==
  ASSUME IInv, NEW w \in Workers, Take(w)
  PROVE  IInv'
  <1> USE DEF IInv
  <1>1. /\ loop[w] = "awake" /\ hand[w] = {}
        /\ UNCHANGED <<input, main, scheduled, outputs, count, gate, scope, pending, shutdown>>
    BY DEF Take
  <1>2. program.pool
    BY <1>1 DEF Counting
  <1>3. CASE UNCHANGED <<hand, at>>
    <2>1. Written'
      BY <1>1, <1>3 DEF Written
    <2> QED
      BY <1>1, <1>2, <1>3, <2>1, MainStays, StagesMove DEF Typed
  <1>4. CASE /\ Queued # {}
             /\ hand' = [hand EXCEPT ![w] = {First}] /\ at' = [at EXCEPT ![First] = "work"]
             /\ UNCHANGED loop
    <2>1. PICK f : f = First
      OBVIOUS
    <2>2. f \in Tasks /\ at[f] = "queued"
      BY <1>4, <2>1, FirstIsQueued DEF Queued
    <2>3. /\ at' \in [Tasks -> Stages] /\ at'[f] = "work"
          /\ \A s \in Tasks : s # f => at'[s] = at[s]
      BY <1>4, <2>1, <2>2 DEF Typed, Stages
    <2>4. /\ hand' \in [Workers -> SUBSET Tasks] /\ hand'[w] = {f}
          /\ \A v \in Workers : v # w => hand'[v] = hand[v]
      BY <1>4, <2>1, <2>2 DEF Typed
    <2>5. taskCount' = taskCount /\ Fits' = Fits /\ program' = program
      BY <1>1 DEF taskCount, Fits, input
    <2>6. Typed'
      BY <1>1, <2>3, <2>4, <2>5 DEF Typed, input
    <2>7. InOrder' /\ Written'
      BY <1>1, <2>2, <2>3, <2>5 DEF InOrder, Written
    <2>8. Counting'
      BY <1>2, <2>5 DEF Counting
    <2>9. \A v \in Workers : f \notin hand[v]
      BY <1>2, <2>2 DEF InHand
    <2>10. Held' = Held
      <3>1. \A s \in Tasks : s \in Held' <=> s \in Held
        <4> SUFFICES ASSUME NEW s \in Tasks PROVE s \in Held' <=> s \in Held
          OBVIOUS
        <4>1. CASE s = f
          BY <2>2, <2>4, <4>1 DEF Held
        <4>2. CASE s # f
          BY <1>1, <2>3, <2>4, <4>2 DEF Held
        <4> QED
          BY <4>1, <4>2
      <3> QED
        BY <3>1 DEF Held
    <2>11. InHand'
      <3>1. ASSUME NEW s \in Tasks, at'[s] \in Middle PROVE \E v \in Workers : s \in hand'[v]
        <4>1. CASE s = f
          BY <2>4, <4>1
        <4>2. CASE s # f
          BY <1>1, <1>2, <2>3, <2>4, <3>1, <4>2 DEF InHand
        <4> QED
          BY <4>1, <4>2
      <3>2. \A s \in Tasks : at'[s] # "notify"
        BY <1>2, <2>3 DEF InHand
      <3>3. \A v \in Workers, s \in Tasks : s \in hand'[v] =>
                hand'[v] = {s} /\ at'[s] \notin {"none", "queued"}
        BY <1>2, <2>3, <2>4 DEF InHand
      <3>4. \A u, v \in Workers, s \in Tasks : s \in hand'[u] /\ s \in hand'[v] => u = v
        BY <1>2, <2>4, <2>9 DEF InHand
      <3> QED
        BY <1>1, <1>2, <2>10, <3>1, <3>2, <3>3, <3>4 DEF InHand
    <2>12. Over'
      <3>1. Past' = Past /\ (Left = {} => Left' = {})
        <4>1. \A s \in 0..(taskCount - 1) : s \in Tasks
          BY BenchmarkAssumption DEF Typed, Tasks
        <4>2. Left' \subseteq Left
          BY <2>2, <2>3, <2>5, <4>1 DEF Left
        <4> QED
          BY <1>1, <4>2 DEF Past
      <3> QED
        BY <1>1, <2>5, <3>1 DEF Over
    <2> QED
      BY <2>6, <2>7, <2>8, <2>11, <2>12
  <1> QED
    BY <1>3, <1>4 DEF Take

\* It is through with its task: pending goes down, and main is woken by the last.
LEMMA DropIInv ==
  ASSUME IInv, NEW w \in Workers, Drop(w)
  PROVE  IInv'
  <1> USE DEF IInv
  <1>1. /\ hand[w] # {} /\ \A t \in hand[w] : at[t] = "end"
        /\ hand' = [hand EXCEPT ![w] = {}] /\ pending' = pending - 1
        /\ main' = main \/ (main = "asleep" /\ main' = "wait")
        /\ UNCHANGED <<input, scheduled, at, outputs, count, gate, scope, loop, shutdown>>
    BY DEF Drop, MainWoken
  <1>2. program.pool
    BY <1>1 DEF Counting
  <1>3. taskCount' = taskCount /\ Fits' = Fits /\ program' = program /\ Left' = Left
    BY <1>1 DEF taskCount, Fits, input, Left
  <1>4. PICK t \in Tasks : hand[w] = {t} /\ at[t] = "end"
    <2>1. PICK t \in hand[w] : TRUE
      BY <1>1
    <2>2. t \in Tasks
      BY DEF Typed
    <2> QED
      BY <1>1, <1>2, <2>1, <2>2 DEF InHand
  <1>5. /\ hand' \in [Workers -> SUBSET Tasks] /\ hand'[w] = {}
        /\ \A v \in Workers : v # w => hand'[v] = hand[v]
    BY <1>1 DEF Typed
  <1>6. Typed' /\ InOrder' /\ Written'
    BY <1>1, <1>3, <1>5 DEF Typed, InOrder, Written, input
  <1>7. Counting'
    BY <1>2, <1>3 DEF Counting
  <1>8. Held' = Held \ {t} /\ t \in Held
    <2>1. \A v \in Workers : v # w => t \notin hand[v]
      BY <1>2, <1>4 DEF InHand
    <2>2. ASSUME NEW s \in Tasks PROVE s \in Held' <=> s \in Held /\ s # t
      <3>1. CASE s = t
        BY <1>1, <1>4, <1>5, <2>1, <3>1 DEF Held
      <3>2. CASE s # t
        BY <1>1, <1>4, <1>5, <3>2 DEF Held
      <3> QED
        BY <3>1, <3>2
    <2> QED
      BY <1>4, <2>2 DEF Held
  <1>9. InHand'
    <2>1. pending' = Cardinality(Held')
      BY <1>1, <1>2, <1>8, TasksFinite, FS_RemoveElement DEF InHand
    <2>2. ASSUME NEW s \in Tasks, at[s] \in Middle PROVE \E v \in Workers : s \in hand'[v]
      BY <1>2, <1>4, <1>5, <2>2 DEF InHand, Middle
    <2> QED
      BY <1>1, <1>2, <1>3, <1>5, <2>1, <2>2 DEF InHand
  <1>10. Over'
    BY <1>1, <1>3 DEF Over, Past
  <1> QED
    BY <1>6, <1>7, <1>9, <1>10

LEMMA SpuriousIInv ==
  ASSUME IInv, Spurious PROVE IInv'
  <1> USE DEF IInv
  <1>1. /\ program.pool
        /\ UNCHANGED <<input, scheduled, outputs, count, gate, scope, hand, pending, shutdown>>
        /\ \/ UNCHANGED <<at, main>>
           \/ UNCHANGED main /\ \E t \in Tasks : at[t] = "parked" /\ at' = [at EXCEPT ![t] = "gate"]
           \/ UNCHANGED at /\ main = "asleep" /\ main' = "wait"
    BY DEF Spurious, Goes, MainGoes
  <1>2. /\ at' \in [Tasks -> Stages]
        /\ \A t \in Tasks : at'[t] = at[t] \/ (at[t] \in Middle /\ at'[t] = "gate")
    BY <1>1 DEF Typed, Stages, Middle
  <1>3. Written'
    BY <1>1, <1>2 DEF Written
  <1>4. /\ main' \notin {"schedule", "notify"} => scheduled = taskCount
        /\ Past' = Past /\ scope' \in BOOLEAN
    BY <1>1 DEF InOrder, Past, Typed
  <1>5. "gate" \in Middle
    BY DEF Middle
  <1> QED
    BY <1>1, <1>2, <1>3, <1>4, <1>5, StagesMove DEF Typed, Over

LEMMA NextIInv == IInv /\ [Next]_vars => IInv'
  <1> SUFFICES ASSUME IInv, [Next]_vars PROVE IInv'
    OBVIOUS
  <1>1. CASE UNCHANGED vars
    <2>1. Written' /\ \A w \in Workers : loop'[w] = loop[w]
      BY <1>1 DEF IInv, Written, vars, pool
    <2> QED
      BY <1>1, <2>1, MainStays, StagesMove DEF IInv, Typed, Counting, vars, pool
  <1> QED
    BY <1>1, ScheduleIInv, WaitIInv, MainIInv, SpuriousIInv, WorkIInv, StartIInv, DoneIInv,
       NotifyIInv, TakeIInv, DropIInv
    DEF Next, MainNext, TaskNext

\* benchmark.cpp:632, 676, 703: for every pool, every number of tasks and every command
\* line that the types hold, main sums up when every task is through, and each item
\* was in exactly one of them.
THEOREM ChecksumsAlwaysAgree == Spec => []ChecksumsAgree
  <1>1. IInv => ChecksumsAgree
    <2> SUFFICES ASSUME IInv, main = "sum", Fits
                 PROVE  /\ \A t \in 0..(taskCount - 1) : outputs[t] = "full"
                        /\ ItemsShared(reduceItems, chunkSize)
      BY DEF ChecksumsAgree
    <2>1. Left = {}
      BY DEF IInv, Over, Past
    <2>2. \A t \in 0..(taskCount - 1) : t \in Tasks
      BY BenchmarkAssumption DEF IInv, Typed, Tasks
    <2>3. \A t \in 0..(taskCount - 1) : outputs[t] = "full"
      BY <2>1, <2>2 DEF Left, IInv, Written
    <2>4. ItemsShared(reduceItems, chunkSize)
      BY ChunksShareTheItems DEF Fits, IInv, Typed
    <2> QED
      BY <2>3, <2>4
  <1> QED
    BY <1>1, InitIInv, NextIInv, PTL DEF Spec

\* benchmark.cpp:367, 438, 534: no task uses what it captured after main has left the
\* scope, except the last done() on a WaitGroup captured by reference, and then no
\* other task is left.
THEOREM CapturesOutliveTasks == Spec => []OnlyLastDoneOverruns
  <1>1. IInv => OnlyLastDoneOverruns
    <2> SUFFICES ASSUME IInv, Fits, NEW t \in Tasks, ~scope
                 PROVE  /\ at[t] \notin {"queued", "work", "gate", "parked", "after", "done"}
                        /\ at[t] = "notify" => \A s \in Tasks \ {t} : at[s] \in {"none", "end"}
      BY DEF OnlyLastDoneOverruns
    <2>1. Left = {}
      BY DEF IInv, Over
    <2>2. ASSUME NEW s \in Tasks PROVE at[s] \in {"none", "notify", "end"}
      <3>1. CASE s \in 0..(taskCount - 1)
        BY <2>1, <3>1 DEF Left
      <3>2. CASE s \notin 0..(taskCount - 1)
        <4>1. scheduled <= s
          BY <3>2, BenchmarkAssumption DEF IInv, Typed, Tasks
        <4> QED
          BY <4>1 DEF IInv, InOrder
      <3> QED
        BY <3>1, <3>2
    <2>3. at[t] = "notify" => \A s \in Tasks : at[s] = "notify" => s = t
      BY DEF IInv, Counting, InHand
    <2> QED
      BY <2>2, <2>3
  <1> QED
    BY <1>1, InitIInv, NextIInv, PTL DEF Spec
=============================================================================
