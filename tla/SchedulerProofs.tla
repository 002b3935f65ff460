---------------------------- MODULE SchedulerProofs ----------------------------
(***************************************************************************)
(* Proofs, for every number of workers, users and tasks, that tasks with   *)
(* the flag SameThread run where they were scheduled and start in the      *)
(* order in which they were scheduled, whatever is stolen, that a task is  *)
(* in one place at a time, that only tasks pushed to workers that had      *)
(* ended are lost by the destructor, and that the variables of the         *)
(* scheduler keep their types.                                             *)
(***************************************************************************)
EXTENDS Scheduler, TLAPS, FiniteSetTheorems

\* What a thread has in its hands at the places where it uses it.
Steady ==
    /\ owner = "joining" => turn \in Workers
    /\ \A th \in Threads :
          /\ at[th] \notin {"task", "choose", "pop", "lock"} => running[th] = NoTask
          /\ at[th] \in {"choose", "pop", "lock"} =>
                Count > 0 /\ hand[th] \in Tasks \ SameThread
          /\ at[th] = "stolen" => hand[th] \in Tasks \ SameThread
          /\ at[th] \in {"pop", "lock", "push"} => index[th] \in Workers

\* The tasks in queues, on stacks and in hands are not fresh; a SameThread task is
\* in no hand, and otherwise with the thread that scheduled it.
Belongs(t, th) == t \notin fresh /\ (t \in SameThread => home[t] = th)

Placed ==
    /\ \A th \in Threads :
          /\ \A k \in 1..Len(tasks[th]) : Belongs(tasks[th][k], th)
          /\ Belongs(running[th], th)
          /\ hand[th] \notin fresh \cup SameThread
    /\ done \cap fresh = {}

Over(t) == t \in done \cup dropped

\* Of two SameThread tasks of a thread, the earlier one is over before the later one
\* starts, and until then ahead of it.
Ahead(s, t) ==
    /\ t \in done => Over(s)
    /\ t = running[home[t]] => Over(s)
    /\ \A k \in 1..Len(tasks[home[t]]) : tasks[home[t]][k] = t =>
          \/ Over(s) \/ running[home[t]] = s
          \/ \E l \in 1..(k - 1) : tasks[home[t]][l] = s

Somewhere(t) ==
    \/ Over(t) \/ running[home[t]] = t
    \/ \E k \in 1..Len(tasks[home[t]]) : tasks[home[t]][k] = t

Sorted ==
    \A i \in 1..Len(order) :
        /\ order[i] \notin fresh /\ home[order[i]] \in Threads
        /\ Somewhere(order[i])
        /\ \A j \in 1..Len(order) :
              i < j /\ home[order[i]] = home[order[j]] => Ahead(order[i], order[j])

-----------------------------------------------------------------------------
\* A counter that wraps around chooses one of the workers.
LEMMA Modulo ==
  ASSUME NEW n \in Nat, NEW m \in Nat, m > 0
  PROVE  n % m \in 0..(m - 1)
  OBVIOUS

LEMMA InitInd == Init => TypeOK /\ Steady /\ Placed /\ Sorted
  <1> SUFFICES ASSUME Init PROVE TypeOK /\ Steady /\ Placed /\ Sorted
    OBVIOUS
  <1> USE SchedulerAssumption
  <1>1. TypeOK
    BY DEF Init, TypeOK, Threads, Workers, Items, Labels, Locked
  <1>2. Steady
    BY DEF Init, Steady, Threads, Workers
  <1>3. Placed
    BY DEF Init, Placed, Belongs
  <1>4. Sorted
    BY DEF Init, Sorted
  <1> QED
    BY <1>1, <1>2, <1>3, <1>4
-----------------------------------------------------------------------------
\* Types, and what threads have in their hands, are kept by every step.
LEMMA NextTyped == TypeOK /\ Steady /\ [Next]_vars => TypeOK' /\ Steady'
  <1> SUFFICES ASSUME TypeOK, Steady, [Next]_vars PROVE TypeOK' /\ Steady'
    OBVIOUS
  <1> USE SchedulerAssumption DEF Goto
  <1> DEFINE Good == TypeOK' /\ Steady'
  <1>1. ASSUME NEW th \in Threads, NEW t \in Tasks, EnqueueHere(th, t) PROVE Good
    <2>1. tasks' \in [Threads -> Seq(Items)]
      <3>1. tasks[th] \in Seq(Items) /\ t \in Items
        BY DEF TypeOK, Items
      <3>2. Append(tasks[th], t) \in Seq(Items)
        BY <3>1
      <3>3. tasks' = tasks \/ tasks' = [tasks EXCEPT ![th] = Append(tasks[th], t)]
        BY <1>1 DEF EnqueueHere
      <3> QED
        BY <3>2, <3>3 DEF TypeOK
    <2>2. order' \in Seq(SameThread)
      BY <1>1 DEF EnqueueHere, Calls, Submit, TypeOK
    <2>3. home' \in [Tasks -> Threads \cup {NoTask}] /\ fresh' \subseteq Tasks
      BY <1>1 DEF EnqueueHere, Calls, Submit, TypeOK
    <2>4. Steady'
      BY <1>1 DEF EnqueueHere, Calls, Submit, Steady, locals, destructor
    <2> QED
      BY <1>1, <2>1, <2>2, <2>3, <2>4
      DEF EnqueueHere, Calls, Submit, TypeOK, stack, locals, destructor
  <1>2. ASSUME NEW th \in Threads, NEW t \in Tasks, EnqueueAnywhere(th, t) PROVE Good
    <2>1. Count > 0 /\ t \notin SameThread
      BY <1>2 DEF EnqueueAnywhere, StaysHere
    <2>2. fresh' \subseteq Tasks /\ order' = order /\ home' \in [Tasks -> Threads \cup {NoTask}]
      BY <1>2, <2>1 DEF EnqueueAnywhere, Calls, Submit, TypeOK
    <2>3. Steady'
      BY <1>2, <2>1 DEF EnqueueAnywhere, Steady, TypeOK, destructor
    <2>4. at' \in [Threads -> Labels] /\ hand' \in [Threads -> Tasks \cup {NoTask}]
      BY <1>2 DEF EnqueueAnywhere, TypeOK, Labels
    <2> QED
      BY <1>2, <2>2, <2>3, <2>4 DEF EnqueueAnywhere, Calls, Submit, TypeOK, stack, destructor, Labels
  <1>3. ASSUME NEW th \in Threads, Choose(th) PROVE Good
    <2>1. Count \in Nat /\ Count > 0 /\ nextSpinningWorkerIdx + IndexBound - 1 \in Nat
      BY <1>3 DEF Choose, TypeOK, Steady
    <2>2. nextSpinningWorkerIdx' \in 0..(IndexBound - 1)
      <3> DEFINE n == nextSpinningWorkerIdx + IndexBound - 1
      <3>1. n \in Nat /\ IndexBound \in Nat /\ IndexBound > 0
        BY <2>1
      <3>2. nextSpinningWorkerIdx' = n % IndexBound
        BY <1>3 DEF Choose, Down
      <3> HIDE DEF n
      <3>3. n % IndexBound \in 0..(IndexBound - 1)
        BY <3>1, Modulo
      <3> QED
        BY <3>2, <3>3
    <2>3. nextSpinningWorkerIdx' % Count \in Workers
      <3> DEFINE n == nextSpinningWorkerIdx'
      <3>1. n \in Nat
        BY <2>2
      <3> HIDE DEF n
      <3>2. n % Count \in 0..(Count - 1)
        BY <2>1, <3>1, Modulo
      <3> QED
        BY <3>2 DEF Workers, n
    <2>4. index' \in [Threads -> Workers \cup {0}] /\ index'[th] \in Workers
      BY <1>3, <2>3 DEF Choose, TypeOK
    <2>5. at' \in [Threads -> Labels] /\ at' = [at EXCEPT ![th] = "pop"]
      BY <1>3 DEF Choose, TypeOK, Labels
    <2>6. Steady'
      BY <1>3, <2>4, <2>5 DEF Choose, Steady, TypeOK, destructor
    <2> QED
      BY <1>3, <2>2, <2>4, <2>5, <2>6 DEF Choose, TypeOK, destructor, history
  <1>4. ASSUME NEW th \in Threads, Pop(th) PROVE Good
    <2>1. /\ index' \in [Threads -> Workers \cup {0}] /\ index'[th] \in Workers
          /\ nextEnqueueIndex' \in 0..(IndexBound - 1)
      <3>1. Count > 0 /\ Count \in Nat /\ index[th] \in Workers /\ nextEnqueueIndex \in Nat
        BY <1>4 DEF Pop, TypeOK, Steady
      <3>2. spinningWorkers[index[th]] >= 0 => spinningWorkers[index[th]] \in Workers
        BY <3>1 DEF TypeOK
      <3>3. nextEnqueueIndex % Count \in Workers
        BY <3>1, Modulo DEF Workers
      <3>4. Up(nextEnqueueIndex) \in 0..(IndexBound - 1)
        BY <3>1, Modulo DEF Up
      <3> QED
        BY <1>4, <3>2, <3>3, <3>4, SMTT(30) DEF Pop, TypeOK
    <2>2. spinningWorkers' \in [Workers -> Workers \cup {-1}]
      BY <1>4 DEF Pop, TypeOK
    <2>3. at' = [at EXCEPT ![th] = "lock"] /\ at' \in [Threads -> Labels]
      BY <1>4 DEF Pop, TypeOK, Labels
    <2>4. Steady'
      BY <1>4, <2>1, <2>3 DEF Pop, Steady, TypeOK, destructor
    <2> QED
      BY <1>4, <2>1, <2>2, <2>3, <2>4 DEF Pop, TypeOK, destructor, history
  <1>5. ASSUME NEW th \in Threads, PushTask(th) PROVE Good
    <2>1. /\ at[th] = "lock" /\ index[th] \in Threads /\ hand[th] \in Tasks
          /\ hand' = [hand EXCEPT ![th] = NoTask] /\ at' = [at EXCEPT ![th] = "task"]
          /\ tasks' = [tasks EXCEPT ![index[th]] = Append(@, hand[th])]
      BY <1>5 DEF PushTask, Goto, Steady, Threads
    <2>2. tasks' \in [Threads -> Seq(Items)]
      BY <2>1 DEF TypeOK, Items
    <2>3. /\ hand' \in [Threads -> Tasks \cup {NoTask}] /\ at' \in [Threads -> Labels]
          /\ orphaned' \subseteq Tasks
      BY <1>5, <2>1 DEF PushTask, TypeOK, Labels
    <2>4. Steady'
      BY <1>5, <2>1 DEF PushTask, TypeOK, Steady, destructor
    <2> QED
      BY <1>5, <2>2, <2>3, <2>4 DEF PushTask, TypeOK, stack, destructor
  <1>6. ASSUME NEW th \in Threads, TryLockFails(th) PROVE Good
    BY <1>6 DEF TryLockFails, TypeOK, Steady,
       stack, locals, destructor, history, Threads, Workers, Items, Labels, Locked
  <1>7. ASSUME NEW th \in Threads, Leave(th) PROVE Good
    BY <1>7 DEF Leave, MayLeave, TypeOK, Steady,
       stack, locals, destructor, history, Threads, Workers, Items, Labels, Locked
  <1>8. ASSUME NEW th \in Threads, HasWork(th) PROVE Good
    BY <1>8 DEF HasWork, TypeOK, Steady,
       stack, locals, destructor, history, Threads, Workers, Items, Labels, Locked
  <1>9. ASSUME NEW th \in Threads, RunTask(th) PROVE Good
    <2>1. tasks[th] \in Seq(Items) /\ tasks[th] # <<>>
      BY <1>9 DEF RunTask, TypeOK
    <2>2. Take(th).task \in Items /\ Take(th).rest \in Seq(Items)
      BY <2>1 DEF Take
    <2>3. tasks' \in [Threads -> Seq(Items)] /\ running' \in [Threads -> Items \cup {NoTask}]
      BY <1>9, <2>2 DEF RunTask, TypeOK
    <2>4. Steady'
      BY <1>9 DEF RunTask, Steady, TypeOK, locals, destructor
    <2> QED
      BY <1>9, <2>3, <2>4 DEF RunTask, TypeOK, stack, locals, destructor, history, Labels, Locked
  <1>10. ASSUME NEW th \in Threads, TaskEnds(th) PROVE Good
    <2>1. /\ running' \in [Threads -> Items \cup {NoTask}] /\ done' \subseteq Tasks
          /\ shutdown' \in [Threads -> BOOLEAN] /\ at' \in [Threads -> Labels]
      BY <1>10 DEF TaskEnds, TypeOK, Items, Labels, Locked
    <2>2. Steady'
      BY <1>10 DEF TaskEnds, TypeOK, Steady, locals, destructor
    <2> QED
      BY <1>10, <2>1, <2>2 DEF TaskEnds, TypeOK, stack, locals, destructor, history
  <1>11. ASSUME NEW th \in Threads, IdleEnds(th) PROVE Good
    BY <1>11 DEF IdleEnds, TypeOK, Steady,
       stack, locals, destructor, history, Threads, Workers, Items, Labels, Locked
  <1>12. ASSUME NEW w \in Workers, Wake(w) PROVE Good
    <2>1. at' \in [Threads -> Labels] /\ at'[w] \in {"loop", "idle"}
      <3>1. w \in Threads /\ at \in [Threads -> Labels] /\ {"loop", "idle"} \subseteq Labels
        BY DEF TypeOK, Threads, Labels, Locked
      <3>2. at' = [at EXCEPT ![w] = "loop"] \/ at' = [at EXCEPT ![w] = "idle"]
        BY <1>12 DEF Wake
      <3> QED
        BY <3>1, <3>2
    <2>2. Steady'
      BY <1>12, <2>1 DEF Wake, Steady, TypeOK, locals, destructor, Threads
    <2> QED
      BY <1>12, <2>1, <2>2 DEF Wake, TypeOK, stack, locals, destructor, history
  <1>13. ASSUME NEW w \in Workers, BeginSpinning(w) PROVE Good
    <2>1. nextSpinningWorkerIdx \in Nat /\ Count \in Nat /\ Count > 0
      BY DEF TypeOK, Workers
    <2>2. nextSpinningWorkerIdx % Count \in Workers /\ Up(nextSpinningWorkerIdx) \in 0..(IndexBound - 1)
      BY <2>1, Modulo DEF Up, Workers
    <2>3. at' = [at EXCEPT ![w] = "push"] /\ at' \in [Threads -> Labels] /\ w \in Threads
      BY <1>13 DEF BeginSpinning, TypeOK, Labels, Locked, Threads
    <2>4. index' \in [Threads -> Workers \cup {0}] /\ index'[w] \in Workers
      BY <1>13, <2>2, <2>3 DEF BeginSpinning, TypeOK
    <2>5. Steady'
      BY <1>13, <2>3, <2>4 DEF BeginSpinning, Steady, TypeOK, destructor
    <2> QED
      BY <1>13, <2>2, <2>3, <2>4, <2>5 DEF BeginSpinning, TypeOK, destructor, history
  <1>14. ASSUME NEW w \in Workers, PushSpinning(w) PROVE Good
    BY <1>14 DEF PushSpinning, TypeOK, Steady,
       stack, locals, destructor, history, Threads, Workers, Items, Labels, Locked
  <1>15. ASSUME NEW w \in Workers, PushStolen(w) PROVE Good
    <2>1. w \in Threads /\ hand[w] \in Tasks
      BY <1>15 DEF PushStolen, Steady, Threads
    <2>2. tasks' \in [Threads -> Seq(Items)]
      BY <1>15, <2>1 DEF PushStolen, TypeOK, Items
    <2>3. Steady'
      BY <1>15, <2>1 DEF PushStolen, Steady, TypeOK, destructor
    <2> QED
      BY <1>15, <2>1, <2>2, <2>3 DEF PushStolen, TypeOK, stack, destructor, history, Labels, Locked
  <1>16. ASSUME NEW w \in Workers, SpinEnds(w) PROVE Good
    BY <1>16 DEF SpinEnds, TypeOK, Steady,
       stack, locals, destructor, history, Threads, Workers, Items, Labels, Locked
  <1>17. ASSUME NEW w \in Workers, NEW v \in Workers, Steal(w, v) PROVE Good
    <2>1. w \in Threads /\ v \in Threads /\ tasks[v] \in Seq(Items) /\ tasks[v] # <<>>
      BY <1>17 DEF Steal, CanSteal, TypeOK, Threads
    <2>2. Head(tasks[v]) \in Tasks \ SameThread /\ Tail(tasks[v]) \in Seq(Items)
      BY <1>17, <2>1 DEF Steal, CanSteal, Items
    <2>3. tasks' \in [Threads -> Seq(Items)] /\ hand' \in [Threads -> Tasks \cup {NoTask}]
          /\ hand'[w] \in Tasks \ SameThread
      BY <1>17, <2>1, <2>2 DEF Steal, TakeStolen, TypeOK
    <2>4. Steady'
      BY <1>17, <2>1, <2>3 DEF Steal, TakeStolen, Steady, TypeOK, destructor
    <2> QED
      BY <1>17, <2>1, <2>3, <2>4 DEF Steal, TypeOK, stack, destructor, history, Labels
  <1>18. ASSUME NEW u \in Users, Bind(u) PROVE Good
    BY <1>18 DEF Bind, UserCode, TypeOK, Steady,
       stack, locals, destructor, history, Threads, Workers, Items, Labels, Locked
  <1>19. ASSUME NEW u \in Users, Unbind(u) PROVE Good
    BY <1>19 DEF Unbind, UserCode, TypeOK, Steady,
       stack, locals, destructor, history, Threads, Workers, Items, Labels, Locked
  <1>20. ASSUME NEW u \in Users, Unbound(u) PROVE Good
    BY <1>20 DEF Unbound, UserCode, ByTidEmpty, TypeOK, Steady,
       stack, locals, destructor, history, Threads, Workers, Items, Labels, Locked
  <1>21. ASSUME Destroy PROVE Good
    BY <1>21 DEF Destroy, TypeOK, Steady, stack, locals, destructor, history, Threads, Workers, Items, Labels, Locked
  <1>22. ASSUME WaitUnbind PROVE Good
    BY <1>22 DEF WaitUnbind, TypeOK, Steady, stack, locals, destructor, history, Threads, Workers, Items, Labels, Locked
  <1>23. ASSUME SpuriousWake PROVE Good
    BY <1>23 DEF SpuriousWake, TypeOK, Steady, stack, locals, destructor, history, Threads, Workers, Items, Labels, Locked
  <1>24. ASSUME StopWorker PROVE Good
    <2>1. turn \in Workers /\ turn \in Threads
      BY <1>24 DEF StopWorker, TypeOK, Threads, Workers
    <2>2. tasks' \in [Threads -> Seq(Items)]
      BY <1>24, <2>1 DEF StopWorker, TypeOK, Items
    <2>3. Steady'
      BY <1>24, <2>1 DEF StopWorker, Steady, locals
    <2> QED
      BY <1>24, <2>2, <2>3 DEF StopWorker, TypeOK, stack, locals, history
  <1>25. ASSUME Join PROVE Good
    <2>1. turn' \in Workers \cup {-1}
      BY <1>25 DEF Join, TypeOK, Workers, Steady, Threads
    <2>2. Steady'
      BY <1>25 DEF Join, Steady, locals
    <2> QED
      BY <1>25, <2>1, <2>2 DEF Join, TypeOK, stack, locals, history
  <1>26. ASSUME Destroyed PROVE Good
    BY <1>26 DEF Destroyed, TypeOK, Steady, stack, locals, destructor, history, Threads, Workers, Items, Labels, Locked
  <1>27. CASE UNCHANGED vars
    BY <1>27 DEF vars, TypeOK, Steady, stack, locals, destructor, history
  <1> QED
    BY <1>1, <1>2, <1>3, <1>4, <1>5, <1>6, <1>7, <1>8, <1>9, <1>10, <1>11, <1>12, <1>13, <1>14, <1>15, <1>16, <1>17, <1>18, <1>19, <1>20, <1>21, <1>22, <1>23, <1>24, <1>25, <1>26, <1>27
    DEF Next, EnqueueLoop, Run, Spin, Destructor, Terminated

\* The variables keep their types.
THEOREM TypeCorrect == Spec => []TypeOK
  <1>1. Init => TypeOK /\ Steady
    BY InitInd
  <1>2. TypeOK /\ Steady /\ [Next]_vars => TypeOK' /\ Steady'
    BY NextTyped
  <1> QED
    BY <1>1, <1>2, PTL DEF Spec

-----------------------------------------------------------------------------
\* The steps that move no task.
placement == <<tasks, running, hand, fresh, done, dropped, home, order>>

LEMMA Quiet ==
  ASSUME Placed, Sorted, UNCHANGED placement
  PROVE  Placed' /\ Sorted'
  BY DEF placement, Placed, Sorted, Belongs, Somewhere, Ahead, Over

\* Every other step is one of these.
LEMMA Moves ==
  ASSUME [Next]_vars
  PROVE  \/ UNCHANGED placement
         \/ \E th \in Threads, t \in Tasks : EnqueueHere(th, t) \/ EnqueueAnywhere(th, t)
         \/ \E th \in Threads : PushTask(th) \/ RunTask(th) \/ TaskEnds(th)
         \/ \E w \in Workers : PushStolen(w) \/ \E v \in Workers : Steal(w, v)
         \/ StopWorker
  <1> USE DEF placement, history, locals
  <1>1. ASSUME NEW th \in Threads, Choose(th) \/ Pop(th) \/ TryLockFails(th) PROVE UNCHANGED placement
    BY <1>1 DEF Choose, Pop, TryLockFails
  <1>2. ASSUME NEW th \in Threads, Leave(th) \/ HasWork(th) \/ IdleEnds(th) PROVE UNCHANGED placement
    BY <1>2 DEF Leave, HasWork, IdleEnds
  <1>3. ASSUME NEW w \in Workers, Wake(w) \/ BeginSpinning(w) \/ PushSpinning(w) \/ SpinEnds(w)
        PROVE  UNCHANGED placement
    BY <1>3 DEF Wake, BeginSpinning, PushSpinning, SpinEnds
  <1>4. ASSUME NEW u \in Users, Bind(u) \/ Unbind(u) \/ Unbound(u) PROVE UNCHANGED placement
    BY <1>4 DEF Bind, Unbind, Unbound
  <1>5. ASSUME Destroy \/ WaitUnbind \/ SpuriousWake \/ Join \/ Destroyed PROVE UNCHANGED placement
    BY <1>5 DEF Destroy, WaitUnbind, SpuriousWake, Join, Destroyed
  <1>6. CASE UNCHANGED vars
    BY <1>6 DEF vars
  <1> QED
    BY <1>1, <1>2, <1>3, <1>4, <1>5, <1>6
    DEF Next, EnqueueLoop, Run, Spin, Destructor, Terminated

\* A queue with another task at its end, and one without its head.
LEMMA AppendFacts ==
  ASSUME NEW S, NEW s \in Seq(S), NEW e \in S
  PROVE  /\ Len(Append(s, e)) = Len(s) + 1 /\ Len(s) \in Nat
         /\ \A k \in 1..Len(s) : Append(s, e)[k] = s[k]
         /\ Append(s, e)[Len(s) + 1] = e
  OBVIOUS

LEMMA TailFacts ==
  ASSUME NEW S, NEW s \in Seq(S), s # <<>>
  PROVE  /\ Len(s) \in Nat /\ Len(s) > 0 /\ Len(Tail(s)) = Len(s) - 1
         /\ \A k \in 1..(Len(s) - 1) : Tail(s)[k] = s[k + 1]
         /\ Head(s) = s[1]
  OBVIOUS

\* A step that keeps the SameThread tasks that are not fresh in their order.
Kept ==
    /\ \A s \in SameThread \ fresh :
          /\ s \notin fresh' /\ home'[s] = home[s]
          /\ home[s] \in Threads /\ Somewhere(s) => Somewhere(s)'
    /\ \A s, e \in SameThread \ fresh :
          home[e] \in Threads /\ home[s] = home[e] /\ Ahead(s, e) => Ahead(s, e)'

LEMMA SortedKept ==
  ASSUME TypeOK, Sorted, Kept, order' = order
  PROVE  Sorted'
  <1>1. \A i \in 1..Len(order) : order[i] \in SameThread \ fresh
    BY SchedulerAssumption DEF TypeOK, Sorted
  <1> QED
    BY <1>1 DEF Sorted, Kept

\* Tasks by their places in the order.
LEMMA SomewhereAt ==
  ASSUME NEW i, NEW s, order'[i] = s, Somewhere(s)'
  PROVE  Somewhere(order[i])'
  BY DEF Somewhere, Over

LEMMA AheadAt ==
  ASSUME NEW i, NEW j, NEW s, NEW e, order'[i] = s, order'[j] = e, Ahead(s, e)'
  PROVE  Ahead(order[i], order[j])'
  BY DEF Ahead, Over

\* enqueue() puts the task behind those that its thread scheduled before.
LEMMA EnqueueHereInd ==
  ASSUME TypeOK, Placed, Sorted, NEW th \in Threads, NEW t \in Tasks, EnqueueHere(th, t)
  PROVE  Placed' /\ Sorted'
  <1> USE SchedulerAssumption DEF TypeOK
  <1> DEFINE q == tasks[th]
  <1>1. /\ t \in fresh /\ fresh' = fresh \ {t}
        /\ home' = [home EXCEPT ![t] = th]
        /\ order' = IF t \in SameThread THEN Append(order, t) ELSE order
        /\ done' = done /\ running' = running /\ hand' = hand
    BY DEF EnqueueHere, Calls, Submit, locals
  <1>2. \/ tasks' = [tasks EXCEPT ![th] = Append(q, t)] /\ dropped' = dropped
        \/ tasks' = tasks /\ dropped' = dropped \cup {t}
    BY DEF EnqueueHere
  <1>3. \A e : e \notin fresh /\ e \in Tasks => home'[e] = home[e] /\ e # t
    BY <1>1
  <1>4. /\ home'[t] = th /\ t \notin done
        /\ \A h \in Threads : running[h] # t /\ \A k \in 1..Len(tasks[h]) : tasks[h][k] # t
    BY <1>1 DEF Placed, Belongs
  <1>5. \A h \in Threads : /\ Len(tasks[h]) \in Nat
                           /\ Len(tasks'[h]) \in {Len(tasks[h]), Len(tasks[h]) + 1}
                           /\ \A k \in 1..Len(tasks[h]) : tasks'[h][k] = tasks[h][k]
                           /\ Len(tasks'[h]) = Len(tasks[h]) + 1 =>
                                 h = th /\ tasks'[h][Len(tasks[h]) + 1] = t /\ dropped' = dropped
    <2>1. \A h \in Threads : tasks[h] \in Seq(Items) /\ Len(tasks[h]) \in Nat
      OBVIOUS
    <2>2. t \in Items
      BY DEF Items
    <2>3. CASE tasks' = tasks
      BY <2>1, <2>3
    <2>4. CASE tasks' = [tasks EXCEPT ![th] = Append(q, t)] /\ dropped' = dropped
      <3>1. tasks'[th] = Append(q, t) /\ \A h \in Threads \ {th} : tasks'[h] = tasks[h]
        BY <2>4
      <3>2. /\ Len(tasks'[th]) = Len(q) + 1 /\ tasks'[th][Len(q) + 1] = t
            /\ \A k \in 1..Len(q) : tasks'[th][k] = q[k]
        BY <2>1, <2>2, <3>1, AppendFacts
      <3> QED
        BY <2>1, <2>4, <3>1, <3>2
    <2> QED
      BY <1>2, <2>3, <2>4
  <1>6. Placed'
    <2>1. ASSUME NEW h \in Threads, NEW k \in 1..Len(tasks'[h]) PROVE Belongs(tasks[h][k], h)'
      <3>1. CASE k \in 1..Len(tasks[h])
        BY <1>1, <1>3, <1>5, <3>1 DEF Placed, Belongs
      <3>2. CASE k \notin 1..Len(tasks[h])
        BY <1>1, <1>4, <1>5, <2>1, <3>2 DEF Belongs
      <3> QED
        BY <3>1, <3>2
    <2> QED
      BY <1>1, <1>3, <2>1 DEF Placed, Belongs
  <1> DEFINE n == Len(order)
  <1>7. ASSUME NEW s \in Tasks \ fresh PROVE s # t /\ s \notin fresh' /\ home'[s] = home[s]
    BY <1>1
  <1>8. ASSUME NEW s \in Tasks \ fresh, home[s] \in Threads, Somewhere(s) PROVE Somewhere(s)'
    BY <1>1, <1>2, <1>5, <1>7, <1>8 DEF Somewhere, Over
  <1>9. ASSUME NEW s \in Tasks \ fresh, NEW e \in Tasks \ fresh,
               home[e] \in Threads, Ahead(s, e)
        PROVE  Ahead(s, e)'
    <2>1. home'[e] = home[e] /\ e # t
      BY <1>7
    <2> DEFINE h == home[e]
    <2>2. /\ h \in Threads /\ Len(tasks[h]) \in Nat
          /\ \A k \in 1..Len(tasks[h]) : tasks'[h][k] = tasks[h][k]
          /\ \/ Len(tasks'[h]) = Len(tasks[h])
             \/ Len(tasks'[h]) = Len(tasks[h]) + 1 /\ tasks'[h][Len(tasks[h]) + 1] = t
      BY <1>5, <1>9
    <2>3. home'[e] = h
      BY <2>1
    <2> HIDE DEF h
    <2>4. ASSUME NEW k \in 1..Len(tasks'[h]), tasks'[h][k] = e
          PROVE  k \in 1..Len(tasks[h]) /\ tasks[h][k] = e
      BY <2>1, <2>2, <2>4
    <2>5. Over(s) => Over(s)'
      BY <1>1, <1>2 DEF Over
    <2>6. /\ e \in done => Over(s)
          /\ e = running[h] => Over(s)
          /\ \A k \in 1..Len(tasks[h]) : tasks[h][k] = e =>
                \/ Over(s) \/ running[h] = s
                \/ \E l \in 1..(k - 1) : tasks[h][l] = s
      BY <1>9 DEF Ahead, h
    <2>7. ASSUME NEW k \in 1..Len(tasks'[h]), tasks'[h][k] = e
          PROVE  \/ Over(s) \/ running[h] = s
                 \/ \E l \in 1..(k - 1) : tasks'[h][l] = s
      <3>1. k \in 1..Len(tasks[h]) /\ tasks[h][k] = e
        BY <2>4, <2>7
      <3>2. ASSUME NEW l \in 1..(k - 1), tasks[h][l] = s
            PROVE  tasks'[h][l] = s
        <4>1. k \in Nat /\ k <= Len(tasks[h]) /\ Len(tasks[h]) \in Nat
          BY <2>2, <3>1
        <4>2. l \in 1..Len(tasks[h])
          BY <3>2, <4>1
        <4> QED
          BY <2>2, <3>2, <4>2
      <3>3. \/ Over(s) \/ running[h] = s
            \/ \E l \in 1..(k - 1) : tasks[h][l] = s
        BY <2>6, <3>1
      <3> QED
        BY <3>2, <3>3
    <2> QED
      BY <1>1, <2>3, <2>5, <2>6, <2>7 DEF Ahead
  <1>10. Kept
    BY <1>7, <1>8, <1>9 DEF Kept
  <1>11. ASSUME t \in SameThread
         PROVE  /\ t \notin fresh' /\ home'[t] \in Threads /\ Somewhere(t)'
                /\ \A s \in Tasks \ fresh :
                      Somewhere(s) /\ home'[s] = home'[t] => Ahead(s, t)'
    <2>1. Somewhere(t)'
      BY <1>1, <1>2, <1>4, <1>5 DEF Somewhere, Over
    <2>2. ASSUME NEW s \in Tasks \ fresh, Somewhere(s), home'[s] = home'[t]
          PROVE  Ahead(s, t)'
      <3>1. home[s] = th /\ home'[t] = th
        BY <1>4, <1>7, <2>2
      <3>2. /\ Len(q) \in Nat /\ \A k \in 1..Len(q) : tasks'[th][k] = q[k] /\ q[k] # t
            /\ \/ Len(tasks'[th]) = Len(q)
               \/ Len(tasks'[th]) = Len(q) + 1 /\ dropped' = dropped
        BY <1>4, <1>5
      <3>3. \/ Over(s) \/ running[th] = s
            \/ \E k \in 1..Len(q) : q[k] = s
        BY <2>2, <3>1 DEF Somewhere
      <3>4. Over(s) => Over(s)'
        BY <1>1, <1>2 DEF Over
      <3> HIDE DEF q
      <3>5. ASSUME NEW k \in 1..Len(tasks'[th]), tasks'[th][k] = t
            PROVE  \/ Over(s) \/ running[th] = s
                   \/ \E l \in 1..(k - 1) : tasks'[th][l] = s
        <4>1. k \in Nat /\ k >= 1 /\ k <= Len(tasks'[th])
          BY <3>2, <3>5
        <4>2. ~(k <= Len(q))
          BY <3>2, <3>5, <4>1
        <4>3. k = Len(q) + 1
          BY <3>2, <4>1, <4>2
        <4>4. \A l \in 1..Len(q) : l \in 1..(k - 1) /\ tasks'[th][l] = q[l]
          BY <3>2, <4>3
        <4> QED
          BY <3>3, <4>4
      <3> QED
        BY <1>1, <1>4, <3>1, <3>4, <3>5 DEF Ahead
    <2> QED
      BY <1>1, <1>4, <2>1, <2>2
  <1>12. Sorted'
    <2>1. CASE t \notin SameThread
      BY <1>1, <1>10, <2>1, SortedKept
    <2>2. CASE t \in SameThread
      <3>1. n \in Nat /\ Len(order') = n + 1 /\ order'[n + 1] = t /\ \A i \in 1..n : order'[i] = order[i]
        BY <1>1, <2>2, AppendFacts
      <3>2. \A i \in 1..n : order[i] \in SameThread \ fresh /\ home[order[i]] \in Threads /\ Somewhere(order[i])
        BY DEF Sorted
      <3>3. ASSUME NEW i \in 1..(n + 1)
            PROVE  /\ order'[i] \notin fresh' /\ home'[order'[i]] \in Threads
                   /\ Somewhere(order[i])'
        <4>1. CASE i \in 1..n
          <5>1. PICK s : s = order[i]
            OBVIOUS
          <5>2. /\ order'[i] = s /\ s \in SameThread \ fresh
                /\ home[s] \in Threads /\ Somewhere(s)
            BY <3>1, <3>2, <4>1, <5>1
          <5>3. s \notin fresh' /\ home'[s] = home[s] /\ Somewhere(s)'
            BY <1>10, <5>2 DEF Kept
          <5> QED
            BY <5>2, <5>3, SomewhereAt
        <4>2. CASE i = n + 1
          <5>1. order'[i] = t
            BY <3>1, <4>2
          <5> QED
            BY <1>11, <2>2, <5>1, SomewhereAt
        <4> QED
          BY <3>1, <4>1, <4>2
      <3>4. ASSUME NEW i \in 1..(n + 1), NEW j \in 1..(n + 1), i < j,
                   home'[order'[i]] = home'[order'[j]]
            PROVE  Ahead(order[i], order[j])'
        <4>1. i \in 1..n /\ order'[i] = order[i]
          BY <3>1, <3>4
        <4>2. CASE j \in 1..n
          <5>1. PICK s, e : s = order[i] /\ e = order[j]
            OBVIOUS
          <5>2. /\ order'[i] = s /\ s \in SameThread \ fresh
                /\ order'[j] = e /\ e \in SameThread \ fresh /\ home[e] \in Threads
            BY <3>1, <3>2, <4>1, <4>2, <5>1
          <5>3. home[s] = home[e]
            BY <1>7, <3>4, <5>2
          <5>4. Ahead(s, e)
            BY <3>4, <4>1, <4>2, <5>1, <5>3 DEF Sorted
          <5>5. Ahead(s, e)'
            BY <1>10, <5>2, <5>3, <5>4 DEF Kept
          <5> QED
            BY <5>2, <5>5, AheadAt
        <4>3. CASE j = n + 1
          <5>1. PICK s : s = order[i]
            OBVIOUS
          <5>2. /\ order'[j] = t /\ order'[i] = s
                /\ s \in SameThread \ fresh /\ Somewhere(s)
            BY <3>1, <3>2, <4>1, <4>3, <5>1
          <5>3. home'[s] = home'[t]
            BY <3>4, <5>2
          <5>4. Ahead(s, t)'
            BY <1>11, <2>2, <5>2, <5>3, SMTT(30)
          <5> QED
            BY <5>2, <5>4, AheadAt
        <4>4. j \in 1..n \/ j = n + 1
          <5>1. n \in Nat
            BY <3>1
          <5> HIDE DEF n
          <5> QED
            BY <5>1
        <4> QED
          BY <4>2, <4>3, <4>4
      <3> QED
        BY <3>1, <3>3, <3>4 DEF Sorted
    <2> QED
      BY <2>1, <2>2
  <1> QED
    BY <1>6, <1>12

LEMMA EnqueueAnywhereInd ==
  ASSUME TypeOK, Placed, Sorted, NEW th \in Threads, NEW t \in Tasks, EnqueueAnywhere(th, t)
  PROVE  Placed' /\ Sorted'
  <1> USE SchedulerAssumption
  <1>1. /\ t \in fresh /\ fresh' = fresh \ {t} /\ t \notin SameThread
        /\ home' = [home EXCEPT ![t] = th] /\ order' = order
        /\ hand' = [hand EXCEPT ![th] = t]
        /\ UNCHANGED <<tasks, running, done, dropped>>
    BY DEF EnqueueAnywhere, Calls, Submit, StaysHere
  <1>2. \A s \in SameThread : home'[s] = home[s] /\ (s \notin fresh => s \notin fresh')
    BY <1>1 DEF TypeOK
  <1>3. Placed'
    BY <1>1, <1>2 DEF Placed, Belongs, TypeOK
  <1>4. Kept
    BY <1>1, <1>2 DEF Kept, Somewhere, Ahead, Over
  <1> QED
    BY <1>1, <1>3, <1>4, SortedKept

\* enqueue(), a thief and stop() put something else than a SameThread task at the
\* end of a queue.
LEMMA Appended ==
  ASSUME TypeOK, Placed, Sorted, NEW h \in Threads, NEW x \in Items \ SameThread, x \notin fresh,
         tasks' = [tasks EXCEPT ![h] = Append(@, x)],
         \A th \in Threads : hand'[th] \notin fresh \cup SameThread,
         UNCHANGED <<running, fresh, done, dropped, home, order>>
  PROVE  Placed' /\ Sorted'
  <1>1. \A th \in Threads : tasks[th] \in Seq(Items) /\ Len(tasks[th]) \in Nat
    BY DEF TypeOK
  <1>2. \A th \in Threads :
           /\ \A k \in 1..Len(tasks[th]) : k \in 1..Len(tasks'[th]) /\ tasks'[th][k] = tasks[th][k]
           /\ \A k \in 1..Len(tasks'[th]) :
                 k \in 1..Len(tasks[th]) \/ tasks'[th][k] = x
    <2>1. tasks'[h] = Append(tasks[h], x) /\ \A th \in Threads \ {h} : tasks'[th] = tasks[th]
      BY DEF TypeOK
    <2>2. /\ Len(tasks'[h]) = Len(tasks[h]) + 1 /\ tasks'[h][Len(tasks[h]) + 1] = x
          /\ \A k \in 1..Len(tasks[h]) : tasks'[h][k] = tasks[h][k]
      BY <1>1, <2>1, AppendFacts
    <2> QED
      BY <1>1, <2>1, <2>2
  <1>3. Placed'
    BY <1>2 DEF Placed, Belongs
  <1>4. ASSUME NEW s \in SameThread, home[s] \in Threads, Somewhere(s)
        PROVE  Somewhere(s)'
    BY <1>2, <1>4 DEF Somewhere, Over
  <1>5. ASSUME NEW s \in SameThread, NEW e \in SameThread, home[e] \in Threads, Ahead(s, e)
        PROVE  Ahead(s, e)'
    <2>1. ASSUME NEW k \in 1..Len(tasks'[home[e]]), tasks'[home[e]][k] = e
          PROVE  \/ Over(s) \/ running[home[e]] = s
                 \/ \E l \in 1..(k - 1) : tasks'[home[e]][l] = s
      <3>1. k \in 1..Len(tasks[home[e]]) /\ tasks[home[e]][k] = e
        BY <1>2, <1>5, <2>1
      <3>2. ASSUME NEW l \in 1..(k - 1), tasks[home[e]][l] = s
            PROVE  tasks'[home[e]][l] = s
        <4>1. l \in 1..Len(tasks[home[e]])
          BY <1>1, <1>5, <3>1
        <4> QED
          BY <1>2, <1>5, <3>2, <4>1
      <3>3. \/ Over(s) \/ running[home[e]] = s
            \/ \E l \in 1..(k - 1) : tasks[home[e]][l] = s
        BY <1>5, <3>1 DEF Ahead
      <3> QED
        BY <3>2, <3>3
    <2> QED
      BY <1>5, <2>1 DEF Ahead, Over
  <1>6. Kept
    BY <1>4, <1>5 DEF Kept
  <1> QED
    BY <1>3, <1>6, SortedKept

\* A task is taken from the front of a queue, by a thief, who leaves SameThread
\* tasks alone, or to be run by a thread that runs nothing.
LEMMA Taken ==
  ASSUME TypeOK, Placed, Sorted, NEW h \in Threads, tasks[h] # <<>>,
         tasks' = [tasks EXCEPT ![h] = Tail(@)],
         UNCHANGED <<fresh, done, dropped, home, order>>,
         \A th \in Threads : hand'[th] \notin fresh \cup SameThread,
         \/ running' = running /\ Head(tasks[h]) \notin SameThread
         \/ running[h] = NoTask /\ running' = [running EXCEPT ![h] = Head(tasks[h])]
  PROVE  Placed' /\ Sorted'
  <1> DEFINE q == tasks[h]
  <1> USE SchedulerAssumption
  <1>1. \A th \in Threads : tasks[th] \in Seq(Items) /\ Len(tasks[th]) \in Nat
    BY DEF TypeOK
  <1>2. /\ Len(q) > 0 /\ Head(q) = q[1] /\ Len(tasks'[h]) = Len(q) - 1
        /\ \A k \in 1..(Len(q) - 1) : tasks'[h][k] = q[k + 1]
        /\ \A th \in Threads \ {h} : tasks'[th] = tasks[th]
    <2>1. tasks'[h] = Tail(q) /\ \A th \in Threads \ {h} : tasks'[th] = tasks[th]
      BY DEF TypeOK
    <2>2. /\ Len(q) > 0 /\ Len(Tail(q)) = Len(q) - 1 /\ Head(q) = q[1]
          /\ \A k \in 1..(Len(q) - 1) : Tail(q)[k] = q[k + 1]
      <3>1. q \in Seq(Items) /\ q # <<>>
        BY <1>1
      <3> HIDE DEF q
      <3> QED
        BY <3>1, TailFacts
    <2> QED
      BY <2>1, <2>2
  <1>3. /\ \A k \in 1..Len(tasks'[h]) : k + 1 \in 1..Len(q) /\ tasks'[h][k] = q[k + 1]
        /\ \A k \in 1..Len(q) : k = 1 \/ (k - 1 \in 1..Len(tasks'[h]) /\ tasks'[h][k - 1] = q[k])
        /\ 1 \in 1..Len(q)
    BY <1>1, <1>2
  <1>4. \A th \in Threads :
           \/ running'[th] = running[th]
           \/ (th = h /\ running[th] = NoTask /\ running'[th] = q[1])
    <2>1. CASE running' = running
      BY <2>1
    <2>2. CASE running[h] = NoTask /\ running' = [running EXCEPT ![h] = Head(q)]
      BY <1>2, <2>2 DEF TypeOK
    <2> QED
      BY <2>1, <2>2
  <1>5. \A s \in SameThread : q[1] = s => running' = [running EXCEPT ![h] = s] /\ running'[h] = s /\ running[h] = NoTask
    BY <1>2 DEF TypeOK
  <1> HIDE DEF q
  <1>6. Placed'
    <2>1. ASSUME NEW th \in Threads, NEW k \in 1..Len(tasks'[th]) PROVE Belongs(tasks'[th][k], th)
      BY <1>2, <1>3, <2>1 DEF Placed, q
    <2>2. ASSUME NEW th \in Threads PROVE Belongs(running'[th], th)
      BY <1>3, <1>4 DEF Placed, q
    <2> QED
      BY <2>1, <2>2 DEF Placed, Belongs
  <1>7. ASSUME NEW s \in SameThread, home[s] \in Threads, Somewhere(s)
        PROVE  Somewhere(s)'
    <2>1. s # NoTask
      OBVIOUS
    <2>2. CASE home[s] = h
      <3>1. CASE Over(s) \/ running[h] = s
        BY <1>4, <2>1, <2>2, <3>1 DEF Somewhere, Over
      <3>2. ASSUME NEW k \in 1..Len(q), q[k] = s PROVE Somewhere(s)'
        <4>1. CASE k = 1
          BY <1>5, <2>2, <3>2, <4>1 DEF Somewhere
        <4>2. CASE k # 1
          <5>1. k - 1 \in 1..Len(tasks'[h]) /\ tasks'[h][k - 1] = s
            BY <1>3, <3>2, <4>2
          <5> QED
            BY <2>2, <5>1 DEF Somewhere
        <4> QED
          BY <4>1, <4>2
      <3> QED
        BY <1>7, <2>2, <3>1, <3>2 DEF Somewhere, q
    <2>3. CASE home[s] # h
      BY <1>2, <1>4, <1>7, <2>1, <2>3 DEF Somewhere, Over
    <2> QED
      BY <2>2, <2>3
  <1>8. ASSUME NEW s \in SameThread, NEW e \in SameThread, home[e] \in Threads, Ahead(s, e)
        PROVE  Ahead(s, e)'
    <2>1. s # NoTask /\ e # NoTask
      OBVIOUS
    <2>2. Over(s) = Over(s)'
      BY DEF Over
    <2>3. CASE home[e] # h
      BY <1>2, <1>4, <1>8, <2>1, <2>2, <2>3 DEF Ahead
    <2>4. CASE home[e] = h
      <3>1. /\ e \in done => Over(s)
            /\ e = running[h] => Over(s)
            /\ \A k \in 1..Len(q) : q[k] = e =>
                  \/ Over(s) \/ running[h] = s
                  \/ \E l \in 1..(k - 1) : q[l] = s
        BY <1>8, <2>4 DEF Ahead, q
      <3>2. e = running'[h] => Over(s)
        <4>1. CASE running'[h] = running[h]
          BY <3>1, <4>1
        <4>2. CASE running[h] = NoTask /\ running'[h] = q[1]
          BY <1>3, <2>1, <3>1, <4>2
        <4> QED
          BY <1>4, <4>1, <4>2
      <3>3. ASSUME NEW k \in 1..Len(tasks'[h]), tasks'[h][k] = e
            PROVE  \/ Over(s) \/ running'[h] = s
                   \/ \E l \in 1..(k - 1) : tasks'[h][l] = s
        <4>1. k + 1 \in 1..Len(q) /\ q[k + 1] = e /\ k \in Nat
          BY <1>3, <3>3
        <4>2. \/ Over(s) \/ running[h] = s
              \/ \E l \in 1..k : q[l] = s
          BY <3>1, <4>1
        <4>3. ASSUME running[h] = s PROVE running'[h] = s
          BY <1>4, <2>1, <4>3
        <4>4. ASSUME NEW l \in 1..k, q[l] = s
              PROVE  running'[h] = s \/ \E m \in 1..(k - 1) : tasks'[h][m] = s
          <5>1. CASE l = 1
            BY <1>5, <4>4, <5>1
          <5>2. CASE l # 1
            <6>1. l \in 1..Len(q) /\ l - 1 \in 1..(k - 1)
              BY <4>1, <5>2, <1>1 DEF q
            <6> QED
              BY <1>3, <4>4, <5>2, <6>1
          <5> QED
            BY <5>1, <5>2
        <4> QED
          BY <4>2, <4>3, <4>4
      <3> QED
        BY <2>2, <2>4, <3>1, <3>2, <3>3 DEF Ahead
    <2> QED
      BY <2>3, <2>4
  <1>9. Kept
    BY <1>7, <1>8 DEF Kept
  <1> QED
    BY <1>6, <1>9, SortedKept

LEMMA TaskEndsInd ==
  ASSUME TypeOK, Placed, Sorted, NEW h \in Threads, TaskEnds(h)
  PROVE  Placed' /\ Sorted'
  <1> USE SchedulerAssumption
  <1>1. /\ running' = [running EXCEPT ![h] = NoTask] /\ running[h] # NoTask
        /\ \/ running[h] = Stop /\ done' = done
           \/ running[h] # Stop /\ done' = done \cup {running[h]}
        /\ UNCHANGED <<tasks, hand, fresh, dropped, home, order>>
    BY DEF TaskEnds, locals, history
  <1>2. \A th \in Threads : running'[th] = IF th = h THEN NoTask ELSE running[th]
    BY <1>1 DEF TypeOK
  <1>3. Belongs(running[h], h)
    BY DEF Placed
  <1>4. Placed'
    BY <1>1, <1>2, <1>3 DEF Placed, Belongs, TypeOK
  <1>5. ASSUME NEW s \in SameThread PROVE (Over(s) => Over(s)') /\ (running[h] = s => Over(s)')
    BY <1>1 DEF Over
  <1>6. ASSUME NEW s \in SameThread, home[s] \in Threads, Somewhere(s)
        PROVE  Somewhere(s)'
    BY <1>1, <1>2, <1>5, <1>6 DEF Somewhere
  <1>7. ASSUME NEW s \in SameThread, NEW e \in SameThread, home[e] \in Threads, Ahead(s, e)
        PROVE  Ahead(s, e)'
    <2>1. e \in done' => Over(s)'
      <3>1. CASE e \in done
        BY <1>5, <1>7, <3>1 DEF Ahead
      <3>2. CASE e = running[h]
        BY <1>3, <1>5, <1>7, <3>2 DEF Ahead, Belongs
      <3> QED
        BY <1>1, <3>1, <3>2
    <2>2. e = running'[home[e]] => Over(s)'
      BY <1>2, <1>5, <1>7 DEF Ahead
    <2>3. ASSUME NEW k \in 1..Len(tasks[home[e]]), tasks[home[e]][k] = e
          PROVE  \/ Over(s)' \/ running'[home[e]] = s
                 \/ \E l \in 1..(k - 1) : tasks[home[e]][l] = s
      BY <1>2, <1>5, <1>7, <2>3 DEF Ahead
    <2> QED
      BY <1>1, <2>1, <2>2, <2>3 DEF Ahead
  <1>8. Kept
    BY <1>1, <1>6, <1>7 DEF Kept
  <1> QED
    BY <1>1, <1>4, <1>8, SortedKept

-----------------------------------------------------------------------------
LEMMA NextPlaced ==
  ASSUME TypeOK, Steady, Placed, Sorted, [Next]_vars
  PROVE  Placed' /\ Sorted'
  <1> USE SchedulerAssumption
  <1>1. ASSUME NEW th \in Threads, PushTask(th) PROVE Placed' /\ Sorted'
    <2>1. /\ index[th] \in Threads /\ hand[th] \in Items \ SameThread /\ hand[th] \notin fresh
      BY <1>1 DEF PushTask, Steady, Placed, Threads, Items
    <2>2. tasks' = [tasks EXCEPT ![index[th]] = Append(@, hand[th])]
          /\ UNCHANGED <<running, fresh, done, dropped, home, order>>
      BY <1>1 DEF PushTask
    <2>3. \A h \in Threads : hand'[h] \notin fresh \cup SameThread
      BY <1>1 DEF PushTask, Placed, TypeOK
    <2> QED
      BY <2>1, <2>2, <2>3, Appended
  <1>2. ASSUME NEW w \in Workers, PushStolen(w) PROVE Placed' /\ Sorted'
    <2>1. /\ w \in Threads /\ hand[w] \in Items \ SameThread /\ hand[w] \notin fresh
      BY <1>2 DEF PushStolen, Steady, Placed, Threads, Items
    <2>2. tasks' = [tasks EXCEPT ![w] = Append(@, hand[w])]
          /\ UNCHANGED <<running, fresh, done, dropped, home, order>>
      BY <1>2 DEF PushStolen, history
    <2>3. \A h \in Threads : hand'[h] \notin fresh \cup SameThread
      BY <1>2 DEF PushStolen, Placed, TypeOK
    <2> QED
      BY <2>1, <2>2, <2>3, Appended
  <1>3. ASSUME StopWorker PROVE Placed' /\ Sorted'
    <2>1. turn \in Threads /\ Stop \in Items \ SameThread /\ Stop \notin fresh
      BY <1>3 DEF StopWorker, TypeOK, Threads, Workers, Items
    <2>2. tasks' = [tasks EXCEPT ![turn] = Append(@, Stop)]
          /\ UNCHANGED <<running, fresh, done, dropped, home, order, hand>>
      BY <1>3 DEF StopWorker, history, locals
    <2>3. \A h \in Threads : hand'[h] \notin fresh \cup SameThread
      BY <2>2 DEF Placed
    <2> QED
      BY <2>1, <2>2, <2>3, Appended
  <1>4. ASSUME NEW w \in Workers, NEW v \in Workers, Steal(w, v) PROVE Placed' /\ Sorted'
    <2>1. /\ v \in Threads /\ tasks[v] # <<>> /\ Head(tasks[v]) \notin SameThread
          /\ tasks' = [tasks EXCEPT ![v] = Tail(@)]
          /\ hand' = [hand EXCEPT ![w] = Head(tasks[v])]
          /\ UNCHANGED <<running, fresh, done, dropped, home, order>>
      BY <1>4 DEF Steal, CanSteal, TakeStolen, Threads, history
    <2>2. Head(tasks[v]) \notin fresh
      <3>1. tasks[v] \in Seq(Items)
        BY <2>1 DEF TypeOK
      <3>2. 1 \in 1..Len(tasks[v]) /\ Head(tasks[v]) = tasks[v][1]
        BY <2>1, <3>1, TailFacts
      <3> QED
        BY <2>1, <3>2 DEF Placed, Belongs
    <2>3. \A h \in Threads : hand'[h] \notin fresh \cup SameThread
      BY <2>1, <2>2 DEF Placed, TypeOK
    <2> QED
      BY <2>1, <2>3, Taken
  <1>5. ASSUME NEW th \in Threads, RunTask(th) PROVE Placed' /\ Sorted'
    <2>1. /\ tasks[th] # <<>> /\ tasks' = [tasks EXCEPT ![th] = Tail(@)]
          /\ running' = [running EXCEPT ![th] = Head(tasks[th])]
          /\ UNCHANGED <<hand, fresh, done, dropped, home, order>>
      BY <1>5 DEF RunTask, Take, history, locals
    <2>2. running[th] = NoTask
      BY <1>5 DEF RunTask, Steady
    <2>3. \A h \in Threads : hand'[h] \notin fresh \cup SameThread
      BY <2>1 DEF Placed
    <2> QED
      BY <2>1, <2>2, <2>3, Taken
  <1> QED
    BY <1>1, <1>2, <1>3, <1>4, <1>5, Moves, Quiet, EnqueueHereInd, EnqueueAnywhereInd, TaskEndsInd

\* A task with the flag SameThread runs on the thread that scheduled it.
THEOREM RunAtHome == Spec => []RunsWhereScheduled
  <1>1. Init => TypeOK /\ Steady /\ Placed /\ Sorted
    BY InitInd
  <1>2. TypeOK /\ Steady /\ Placed /\ Sorted /\ [Next]_vars
        => TypeOK' /\ Steady' /\ Placed' /\ Sorted'
    BY NextTyped, NextPlaced
  <1>3. Placed => RunsWhereScheduled
    BY DEF Placed, Belongs, RunsWhereScheduled
  <1> QED
    BY <1>1, <1>2, <1>3, PTL DEF Spec

\* The SameThread tasks of a thread start in the order it scheduled them.
THEOREM StartInOrder == Spec => []StartsInOrder
  <1>1. Init => TypeOK /\ Steady /\ Placed /\ Sorted
    BY InitInd
  <1>2. TypeOK /\ Steady /\ Placed /\ Sorted /\ [Next]_vars
        => TypeOK' /\ Steady' /\ Placed' /\ Sorted'
    BY NextTyped, NextPlaced
  <1>3. TypeOK /\ Sorted => StartsInOrder
    <2>1. TypeOK => DOMAIN order = 1..Len(order)
      BY DEF TypeOK
    <2> QED
      BY <2>1 DEF Sorted, Ahead, Over, StartsInOrder
  <1> QED
    BY <1>1, <1>2, <1>3, PTL DEF Spec

-----------------------------------------------------------------------------
(* Where each task is, and what is left when the scheduler is destroyed.      *)

\* A hand holds a task only where a call has one to place.
HandsEmpty ==
    \A th \in Threads : at[th] \notin {"choose", "pop", "lock", "stolen"} => hand[th] = NoTask

InQueue(t) == \E th \in Threads : \E i \in DOMAIN tasks[th] : tasks[th][i] = t
InHand(t)  == \E th \in Threads : hand[th] = t
OnStack(t) == \E th \in Threads : running[th] = t

OnceQueued(t) ==
    \A th, g \in Threads : \A i \in DOMAIN tasks[th], j \in DOMAIN tasks[g] :
        tasks[th][i] = t /\ tasks[g][j] = t => th = g /\ i = j
OnceIn(f, t) == \A th, g \in Threads : f[th] = t /\ f[g] = t => th = g

ExactlyOne(a, b, c, d, e, f) ==
    /\ a \/ b \/ c \/ d \/ e \/ f
    /\ a => ~b /\ ~c /\ ~d /\ ~e /\ ~f
    /\ b => ~c /\ ~d /\ ~e /\ ~f
    /\ c => ~d /\ ~e /\ ~f
    /\ d => ~e /\ ~f
    /\ e => ~f

\* Task t is in one place.
InOne(t) ==
    /\ OnceQueued(t) /\ OnceIn(hand, t) /\ OnceIn(running, t)
    /\ ExactlyOne(InQueue(t), InHand(t), OnStack(t), t \in fresh, t \in done, t \in dropped)

\* A thread that is not bound keeps no task; ~Scheduler() waits for those that are, and
\* joins the workers from the last to the first; a worker ends with an empty queue, and
\* what it is given after that is orphaned.
Ending ==
    /\ \A u \in Users \ byTid :
          /\ tasks[u] = <<>> /\ running[u] = NoTask
          /\ at[u] \in {"task", "choose", "pop", "lock"}
          /\ owner # "alive" => at[u] = "task"
    /\ \A u \in Users : /\ at[u] = "unbind" => tasks[u] = <<>>
                        /\ at[u] \notin {"run", "spin", "push", "stolen", "asleep", "exited"}
    /\ owner \in {"stopping", "joining", "destroyed"} => byTid = {}
    /\ \A w \in Workers : turn < w => at[w] = "exited"
    /\ owner = "destroyed" => turn = -1
    /\ \A w \in Workers : at[w] = "exited" =>
          \A i \in DOMAIN tasks[w] : tasks[w][i] \in orphaned \cup {Stop}
    /\ \A w \in Workers : at[w] # "unbind"

\* What a step keeps that leaves the queues, the hands or the stacks alone.
LEMMA Unmoved ==
  ASSUME NEW t
  PROVE  /\ tasks' = tasks => (InQueue(t)' <=> InQueue(t)) /\ (OnceQueued(t)' <=> OnceQueued(t))
         /\ hand' = hand => (InHand(t)' <=> InHand(t)) /\ (OnceIn(hand, t)' <=> OnceIn(hand, t))
         /\ running' = running => (OnStack(t)' <=> OnStack(t)) /\ (OnceIn(running, t)' <=> OnceIn(running, t))
  BY DEF InQueue, OnceQueued, InHand, OnStack, OnceIn

\* A queue gets another task x at its end.
LEMMA Pushed ==
  ASSUME TypeOK, NEW h \in Threads, NEW x \in Items,
         tasks' = [tasks EXCEPT ![h] = Append(@, x)]
  PROVE  /\ \A t : t # x => (InQueue(t)' <=> InQueue(t)) /\ (OnceQueued(t) => OnceQueued(t)')
         /\ InQueue(x)' /\ (~InQueue(x) => OnceQueued(x)')
  <1> DEFINE n == Len(tasks[h])
  <1>1. \A th \in Threads : tasks[th] \in Seq(Items) /\ Len(tasks[th]) \in Nat
    BY DEF TypeOK
  <1>2. tasks'[h] = Append(tasks[h], x) /\ \A th \in Threads \ {h} : tasks'[th] = tasks[th]
    BY DEF TypeOK
  <1>3. /\ Len(tasks'[h]) = n + 1 /\ tasks'[h][n + 1] = x
        /\ \A k \in 1..n : tasks'[h][k] = tasks[h][k]
    BY <1>1, <1>2, AppendFacts
  <1>5. \A th \in Threads : DOMAIN tasks[th] = 1..Len(tasks[th]) /\ DOMAIN tasks'[th] = 1..Len(tasks'[th])
    <2>1. \A th \in Threads : tasks'[th] \in Seq(Items)
      BY <1>1, <1>2
    <2> QED
      BY <1>1, <2>1
  <1>4. \A th \in Threads :
           /\ \A k \in DOMAIN tasks[th] : k \in DOMAIN tasks'[th] /\ tasks'[th][k] = tasks[th][k]
           /\ \A k \in DOMAIN tasks'[th] :
                 \/ k \in DOMAIN tasks[th]
                 \/ th = h /\ k = n + 1 /\ tasks'[th][k] = x
    BY <1>1, <1>2, <1>3, <1>5
  <1>9. n + 1 \in DOMAIN tasks'[h]
    BY <1>1, <1>3, <1>5
  <1> HIDE DEF n
  <1>6. ASSUME NEW t, t # x
        PROVE  (InQueue(t)' <=> InQueue(t)) /\ (OnceQueued(t) => OnceQueued(t)')
    <2>1. InQueue(t)' <=> InQueue(t)
      BY <1>4, <1>6 DEF InQueue
    <2>2. OnceQueued(t) => OnceQueued(t)'
      BY <1>4, <1>6 DEF OnceQueued
    <2> QED
      BY <2>1, <2>2
  <1>7. InQueue(x)'
    BY <1>3, <1>9 DEF InQueue
  <1>8. ~InQueue(x) => OnceQueued(x)'
    BY <1>4 DEF InQueue, OnceQueued
  <1> QED
    BY <1>6, <1>7, <1>8

\* A queue loses its head x.
LEMMA Popped ==
  ASSUME TypeOK, NEW h \in Threads, tasks[h] # <<>>, NEW x, x = Head(tasks[h]),
         tasks' = [tasks EXCEPT ![h] = Tail(@)]
  PROVE  /\ \A t : t # x => (InQueue(t)' <=> InQueue(t)) /\ (OnceQueued(t) => OnceQueued(t)')
         /\ InQueue(x) /\ (OnceQueued(x) => ~InQueue(x)' /\ OnceQueued(x)')
         /\ x \in Items
  <1> DEFINE n == Len(tasks[h])
  <1>1. \A th \in Threads : tasks[th] \in Seq(Items) /\ Len(tasks[th]) \in Nat
    BY DEF TypeOK
  <1>2. tasks'[h] = Tail(tasks[h]) /\ \A th \in Threads \ {h} : tasks'[th] = tasks[th]
    BY DEF TypeOK
  <1>3. /\ n > 0 /\ Len(tasks'[h]) = n - 1 /\ tasks[h][1] = x /\ x \in Items
        /\ \A k \in 1..(n - 1) : tasks'[h][k] = tasks[h][k + 1]
    <2>1. PICK q : q = tasks[h]
      OBVIOUS
    <2>2. /\ Len(q) > 0 /\ Len(Tail(q)) = Len(q) - 1 /\ Head(q) = q[1]
          /\ \A k \in 1..(Len(q) - 1) : Tail(q)[k] = q[k + 1]
      BY <1>1, <2>1, TailFacts
    <2>3. x \in Items
      <3>1. 1 \in 1..Len(q) /\ q \in Seq(Items)
        BY <1>1, <2>1, <2>2
      <3> QED
        BY <2>1, <2>2, <3>1
    <2> QED
      BY <1>2, <2>1, <2>2, <2>3
  <1>12. \A th \in Threads : DOMAIN tasks[th] = 1..Len(tasks[th]) /\ DOMAIN tasks'[th] = 1..Len(tasks'[th])
    <2>1. Tail(tasks[h]) \in Seq(Items)
      BY <1>1
    <2>2. \A th \in Threads : tasks'[th] \in Seq(Items)
      BY <1>1, <1>2, <2>1
    <2> QED
      BY <1>1, <2>2
  <1> DEFINE from(th, k) == IF th = h THEN k + 1 ELSE k
  <1>4. \A th \in Threads : \A k \in DOMAIN tasks'[th] :
           /\ from(th, k) \in DOMAIN tasks[th] /\ tasks'[th][k] = tasks[th][from(th, k)]
           /\ th = h => from(th, k) # 1
    BY <1>1, <1>2, <1>3, <1>12
  <1>5. \A th \in Threads : \A k \in DOMAIN tasks[th] :
           \/ th = h /\ k = 1
           \/ \E j \in DOMAIN tasks'[th] : tasks'[th][j] = tasks[th][k]
    <2>1. ASSUME NEW th \in Threads, NEW k \in DOMAIN tasks[th], ~(th = h /\ k = 1)
          PROVE  \E j \in DOMAIN tasks'[th] : tasks'[th][j] = tasks[th][k]
      <3>1. CASE th # h
        BY <1>2, <3>1
      <3>2. CASE th = h
        <4>1. k - 1 \in DOMAIN tasks'[th] /\ tasks'[th][k - 1] = tasks[th][k]
          BY <1>1, <1>3, <1>12, <2>1, <3>2
        <4> QED
          BY <4>1
      <3> QED
        BY <3>1, <3>2
    <2> QED
      BY <2>1
  <1>6. 1 \in DOMAIN tasks[h]
    BY <1>1, <1>3, <1>12
  <1>7. \A th, g \in Threads : \A i \in DOMAIN tasks'[th], j \in DOMAIN tasks'[g] :
           th = g /\ from(th, i) = from(g, j) => i = j
    BY <1>1, <1>2, <1>3, <1>12
  <1> HIDE DEF n, from
  <1>8. ASSUME NEW t, t # x
        PROVE  InQueue(t)' <=> InQueue(t)
    <2>1. InQueue(t)' => InQueue(t)
      BY <1>4 DEF InQueue
    <2>2. InQueue(t) => InQueue(t)'
      <3>1. ASSUME NEW th \in Threads, NEW k \in DOMAIN tasks[th], tasks[th][k] = t
            PROVE  \E j \in DOMAIN tasks'[th] : tasks'[th][j] = t
        <4>1. ~(th = h /\ k = 1)
          BY <1>3, <1>8, <3>1
        <4> QED
          BY <1>5, <3>1, <4>1
      <3> QED
        BY <3>1 DEF InQueue
    <2> QED
      BY <2>1, <2>2
  <1>9. ASSUME NEW t, OnceQueued(t)
        PROVE  OnceQueued(t)'
    <2> SUFFICES ASSUME NEW th \in Threads, NEW g \in Threads,
                        NEW i \in DOMAIN tasks'[th], NEW j \in DOMAIN tasks'[g],
                        tasks'[th][i] = t, tasks'[g][j] = t
                 PROVE  th = g /\ i = j
      BY DEF OnceQueued
    <2>1. th = g /\ from(th, i) = from(g, j)
      BY <1>4, <1>9 DEF OnceQueued
    <2> QED
      BY <1>7, <2>1
  <1>10. InQueue(x)
    BY <1>3, <1>6 DEF InQueue
  <1>11. OnceQueued(x) => ~InQueue(x)'
    BY <1>3, <1>4, <1>6 DEF InQueue, OnceQueued
  <1> QED
    BY <1>3, <1>8, <1>9, <1>10, <1>11

\* A hand or a stack is filled with x, or emptied of x.
Holds(f, t) == \E th \in Threads : f[th] = t

LEMMA Filled ==
  ASSUME NEW f, NEW g, NEW h \in Threads, NEW x,
         f[h] = NoTask, g[h] = x, \A th \in Threads \ {h} : g[th] = f[th]
  PROVE  /\ \A t \in Tasks : t # x => (Holds(g, t) <=> Holds(f, t)) /\ (OnceIn(f, t) => OnceIn(g, t))
         /\ Holds(g, x) /\ (~Holds(f, x) => OnceIn(g, x))
  BY SchedulerAssumption DEF Holds, OnceIn

LEMMA Emptied ==
  ASSUME NEW f, NEW g, NEW h \in Threads, NEW x,
         f[h] = x, g[h] = NoTask, \A th \in Threads \ {h} : g[th] = f[th]
  PROVE  /\ \A t \in Tasks : t # x => (Holds(g, t) <=> Holds(f, t)) /\ (OnceIn(f, t) => OnceIn(g, t))
         /\ Holds(f, x) /\ (x \in Tasks /\ OnceIn(f, x) => OnceIn(g, x) /\ ~Holds(g, x))
  BY SchedulerAssumption DEF Holds, OnceIn

\* A step that puts no task in a hand but where a call has one to place.
LEMMA NextHandsEmpty ==
  ASSUME TypeOK, Steady, HandsEmpty, [Next]_vars
  PROVE  HandsEmpty'
  <1> USE SchedulerAssumption DEF Goto, TypeOK, HandsEmpty
  <1>1. ASSUME NEW th \in Threads, NEW t \in Tasks, EnqueueHere(th, t) PROVE HandsEmpty'
    BY <1>1 DEF EnqueueHere, locals
  <1>2. ASSUME NEW th \in Threads, NEW t \in Tasks, EnqueueAnywhere(th, t) PROVE HandsEmpty'
    BY <1>2 DEF EnqueueAnywhere
  <1>3. ASSUME NEW th \in Threads, EnqueueLoop(th) PROVE HandsEmpty'
    BY <1>3 DEF EnqueueLoop, Choose, Pop, PushTask, TryLockFails, locals
  <1>4. ASSUME NEW th \in Threads, Run(th) PROVE HandsEmpty'
    BY <1>4 DEF Run, Leave, HasWork, RunTask, TaskEnds, IdleEnds, locals
  <1>5. ASSUME NEW w \in Workers, Spin(w) PROVE HandsEmpty'
    <2>1. w \in Threads
      BY DEF Threads
    <2>2. CASE Wake(w) \/ BeginSpinning(w) \/ PushSpinning(w) \/ PushStolen(w) \/ SpinEnds(w)
      BY <2>1, <2>2 DEF Wake, BeginSpinning, PushSpinning, PushStolen, SpinEnds, locals
    <2>3. ASSUME NEW v \in Workers, Steal(w, v) PROVE HandsEmpty'
      BY <2>1, <2>3 DEF Steal, TakeStolen
    <2> QED
      BY <1>5, <2>2, <2>3 DEF Spin
  <1>6. ASSUME NEW u \in Users, Bind(u) \/ Unbind(u) \/ Unbound(u) PROVE HandsEmpty'
    BY <1>6 DEF Bind, Unbind, Unbound, UserCode, locals, Threads
  <1>7. ASSUME Destructor PROVE HandsEmpty'
    BY <1>7 DEF Destructor, Destroy, WaitUnbind, SpuriousWake, StopWorker, Join, Destroyed, locals
  <1>8. CASE UNCHANGED vars
    BY <1>8 DEF vars, locals
  <1> QED
    BY <1>1, <1>2, <1>3, <1>4, <1>5, <1>6, <1>7, <1>8 DEF Next, Terminated

\* The places of the tasks, and what keeps each of them in one.
spots == <<tasks, hand, running, fresh, done, dropped>>

LEMMA StillInOne ==
  ASSUME NEW t, InOne(t), UNCHANGED spots
  PROVE  InOne(t)'
  BY Unmoved DEF InOne, ExactlyOne, spots

AllInOne == \A t \in Tasks : InOne(t)

\* enqueue() puts a fresh task into the caller's queue, its hand, or drops it.
LEMMA SubmittedInOne ==
  ASSUME TypeOK, HandsEmpty, AllInOne, NEW th \in Threads, NEW x \in Tasks,
         EnqueueHere(th, x) \/ EnqueueAnywhere(th, x)
  PROVE  AllInOne'
  <1>1. /\ x \in fresh /\ fresh' = fresh \ {x} /\ running' = running /\ done' = done
        /\ at[th] = "task"
    BY DEF EnqueueHere, EnqueueAnywhere, Calls, Submit
  <1>2. \/ hand' = hand /\ dropped' = dropped /\ tasks' = [tasks EXCEPT ![th] = Append(@, x)]
        \/ hand' = hand /\ dropped' = dropped \cup {x} /\ tasks' = tasks
        \/ dropped' = dropped /\ tasks' = tasks /\ hand' = [hand EXCEPT ![th] = x]
    BY DEF EnqueueHere, EnqueueAnywhere, locals
  <1>3. InOne(x) /\ ~InQueue(x) /\ ~InHand(x)
    BY <1>1 DEF AllInOne, InOne, ExactlyOne
  <1>4. hand[th] = NoTask /\ hand \in [Threads -> Tasks \cup {NoTask}] /\ x \in Items
    BY <1>1 DEF HandsEmpty, TypeOK, Items
  <1>5. CASE hand' = hand /\ dropped' = dropped /\ tasks' = [tasks EXCEPT ![th] = Append(@, x)]
    <2>1. ASSUME NEW t \in Tasks PROVE InOne(t)'
      BY <1>1, <1>3, <1>4, <1>5, Pushed, Unmoved DEF AllInOne, InOne, ExactlyOne
    <2> QED
      BY <2>1 DEF AllInOne
  <1>6. CASE hand' = hand /\ dropped' = dropped \cup {x} /\ tasks' = tasks
    <2>1. ASSUME NEW t \in Tasks PROVE InOne(t)'
      BY <1>1, <1>3, <1>6, Unmoved DEF AllInOne, InOne, ExactlyOne
    <2> QED
      BY <2>1 DEF AllInOne
  <1>7. CASE dropped' = dropped /\ tasks' = tasks /\ hand' = [hand EXCEPT ![th] = x]
    <2>1. /\ \A t \in Tasks : t # x =>
                (InHand(t)' <=> InHand(t)) /\ (OnceIn(hand, t) => OnceIn(hand', t))
          /\ InHand(x)' /\ OnceIn(hand', x)
      <3>1. hand'[th] = x /\ \A g \in Threads \ {th} : hand'[g] = hand[g]
        BY <1>4, <1>7
      <3>2. /\ \A t \in Tasks : t # x =>
                  (Holds(hand', t) <=> Holds(hand, t)) /\ (OnceIn(hand, t) => OnceIn(hand', t))
            /\ Holds(hand', x) /\ (~Holds(hand, x) => OnceIn(hand', x))
        BY <1>4, <3>1, Filled
      <3> QED
        BY <1>3, <3>2 DEF InHand, Holds
    <2>2. ASSUME NEW t \in Tasks PROVE InOne(t)'
      <3>1. OnceIn(hand, t)' <=> OnceIn(hand', t)
        BY DEF OnceIn
      <3> QED
        BY <1>1, <1>3, <1>7, <2>1, <3>1, Unmoved DEF AllInOne, InOne, ExactlyOne
    <2> QED
      BY <2>2 DEF AllInOne
  <1> QED
    BY <1>2, <1>5, <1>6, <1>7

\* The task in a hand goes to the end of a queue.
LEMMA PlacedInOne ==
  ASSUME TypeOK, AllInOne, NEW th \in Threads, NEW h \in Threads, hand[th] \in Tasks,
         tasks' = [tasks EXCEPT ![h] = Append(@, hand[th])],
         hand' = [hand EXCEPT ![th] = NoTask],
         UNCHANGED <<running, fresh, done, dropped>>
  PROVE  AllInOne'
  <1>1. PICK x \in Tasks : x = hand[th]
    OBVIOUS
  <1>2. hand \in [Threads -> Tasks \cup {NoTask}] /\ x \in Items
    BY DEF TypeOK, Items
  <1>3. /\ \A t \in Tasks : t # x =>
              (InHand(t)' <=> InHand(t)) /\ (OnceIn(hand, t) => OnceIn(hand', t))
        /\ InHand(x) /\ (OnceIn(hand, x) => OnceIn(hand', x) /\ ~InHand(x)')
    <2>1. x \in Tasks /\ hand[th] = x /\ hand'[th] = NoTask /\ \A g \in Threads \ {th} : hand'[g] = hand[g]
      BY <1>1, <1>2
    <2>2. /\ \A t \in Tasks : t # x =>
                (Holds(hand', t) <=> Holds(hand, t)) /\ (OnceIn(hand, t) => OnceIn(hand', t))
          /\ Holds(hand, x)
          /\ (x \in Tasks /\ OnceIn(hand, x) => OnceIn(hand', x) /\ ~Holds(hand', x))
      BY <2>1, SchedulerAssumption DEF Holds, OnceIn
    <2> QED
      BY <2>1, <2>2 DEF InHand, Holds
  <1>4. InOne(x) /\ ~InQueue(x)
    BY <1>1, <1>3 DEF AllInOne, InOne, ExactlyOne
  <1>5. tasks' = [tasks EXCEPT ![h] = Append(@, x)]
    BY <1>1
  <1>6. /\ \A t : t # x => (InQueue(t)' <=> InQueue(t)) /\ (OnceQueued(t) => OnceQueued(t)')
        /\ InQueue(x)' /\ OnceQueued(x)'
    BY <1>2, <1>4, <1>5, Pushed
  <1>7. ASSUME NEW t \in Tasks PROVE InOne(t)'
    <2>1. OnceIn(hand, t)' <=> OnceIn(hand', t)
      BY DEF OnceIn
    <2> QED
      BY <1>3, <1>4, <1>6, <2>1, Unmoved DEF AllInOne, InOne, ExactlyOne
  <1> QED
    BY <1>7 DEF AllInOne

\* A thief takes the head of a queue into its hand.
LEMMA StolenInOne ==
  ASSUME TypeOK, HandsEmpty, AllInOne, NEW w \in Workers, NEW v \in Workers, Steal(w, v)
  PROVE  AllInOne'
  <1>1. /\ w \in Threads /\ v \in Threads /\ tasks[v] # <<>>
        /\ tasks' = [tasks EXCEPT ![v] = Tail(@)]
        /\ hand' = [hand EXCEPT ![w] = Head(tasks[v])]
        /\ UNCHANGED <<running, fresh, done, dropped>>
        /\ hand[w] = NoTask /\ Head(tasks[v]) # Stop
    BY DEF Steal, CanSteal, TakeStolen, Threads, history, HandsEmpty
  <1>2. PICK x : x = Head(tasks[v])
    OBVIOUS
  <1>3. /\ \A t : t # x => (InQueue(t)' <=> InQueue(t)) /\ (OnceQueued(t) => OnceQueued(t)')
        /\ InQueue(x) /\ (OnceQueued(x) => ~InQueue(x)' /\ OnceQueued(x)')
        /\ x \in Tasks
    BY <1>1, <1>2, Popped DEF Items
  <1>4. InOne(x) /\ ~InHand(x)
    BY <1>3 DEF AllInOne, InOne, ExactlyOne
  <1>5. /\ \A t \in Tasks : t # x =>
              (InHand(t)' <=> InHand(t)) /\ (OnceIn(hand, t) => OnceIn(hand', t))
        /\ InHand(x)' /\ OnceIn(hand', x)
    <2>1. hand \in [Threads -> Tasks \cup {NoTask}] /\ hand' = [hand EXCEPT ![w] = x]
      BY <1>1, <1>2 DEF TypeOK
    <2> QED
      <3>1. w \in Threads /\ hand[w] = NoTask /\ hand'[w] = x /\ \A g \in Threads \ {w} : hand'[g] = hand[g]
        BY <1>1, <2>1
      <3>2. /\ \A t \in Tasks : t # x =>
                  (Holds(hand', t) <=> Holds(hand, t)) /\ (OnceIn(hand, t) => OnceIn(hand', t))
            /\ Holds(hand', x) /\ (~Holds(hand, x) => OnceIn(hand', x))
        BY <3>1, Filled
      <3> QED
        BY <1>4, <3>2 DEF InHand, Holds
  <1>6. ASSUME NEW t \in Tasks PROVE InOne(t)'
    <2>1. OnceIn(hand, t)' <=> OnceIn(hand', t)
      BY DEF OnceIn
    <2> QED
      BY <1>1, <1>3, <1>4, <1>5, <2>1, Unmoved DEF AllInOne, InOne, ExactlyOne
  <1> QED
    BY <1>6 DEF AllInOne

\* A thread runs the head of its queue, which may be Stop.
LEMMA RunInOne ==
  ASSUME TypeOK, Steady, AllInOne, NEW th \in Threads, RunTask(th)
  PROVE  AllInOne'
  <1>1. /\ tasks[th] # <<>> /\ tasks' = [tasks EXCEPT ![th] = Tail(@)]
        /\ running' = [running EXCEPT ![th] = Head(tasks[th])]
        /\ UNCHANGED <<hand, fresh, done, dropped>>
        /\ running[th] = NoTask
    BY DEF RunTask, Take, history, locals, Steady
  <1>2. PICK x : x = Head(tasks[th])
    OBVIOUS
  <1>3. /\ \A t : t # x => (InQueue(t)' <=> InQueue(t)) /\ (OnceQueued(t) => OnceQueued(t)')
        /\ InQueue(x) /\ (OnceQueued(x) => ~InQueue(x)' /\ OnceQueued(x)')
    BY <1>1, <1>2, Popped
  <1>4. x \in Tasks => InOne(x) /\ ~OnStack(x)
    BY <1>3 DEF AllInOne, InOne, ExactlyOne
  <1>5. /\ \A t \in Tasks : t # x =>
              (OnStack(t)' <=> OnStack(t)) /\ (OnceIn(running, t) => OnceIn(running', t))
        /\ x \in Tasks => OnStack(x)' /\ OnceIn(running', x)
    <2>1. running \in [Threads -> Items \cup {NoTask}] /\ running' = [running EXCEPT ![th] = x]
      BY <1>1, <1>2 DEF TypeOK
    <2> QED
      <3>1. running[th] = NoTask /\ running'[th] = x /\ \A g \in Threads \ {th} : running'[g] = running[g]
        BY <1>1, <2>1
      <3>2. /\ \A t \in Tasks : t # x =>
                  (Holds(running', t) <=> Holds(running, t)) /\ (OnceIn(running, t) => OnceIn(running', t))
            /\ Holds(running', x) /\ (~Holds(running, x) => OnceIn(running', x))
        BY <3>1, Filled
      <3> QED
        BY <1>4, <3>2 DEF OnStack, Holds
  <1>6. ASSUME NEW t \in Tasks PROVE InOne(t)'
    <2>1. OnceIn(running, t)' <=> OnceIn(running', t)
      BY DEF OnceIn
    <2> QED
      BY <1>1, <1>3, <1>4, <1>5, <2>1, Unmoved DEF AllInOne, InOne, ExactlyOne
  <1> QED
    BY <1>6 DEF AllInOne

\* A task that ends is done; that is not counted for Stop.
LEMMA EndedInOne ==
  ASSUME TypeOK, AllInOne, NEW th \in Threads, TaskEnds(th)
  PROVE  AllInOne'
  <1>1. /\ running' = [running EXCEPT ![th] = NoTask] /\ running[th] # NoTask
        /\ \/ running[th] = Stop /\ done' = done
           \/ running[th] # Stop /\ done' = done \cup {running[th]}
        /\ UNCHANGED <<tasks, hand, fresh, dropped>>
    BY DEF TaskEnds, locals, history
  <1>2. PICK x : x = running[th]
    OBVIOUS
  <1>3. running \in [Threads -> Items \cup {NoTask}] /\ x \in Tasks \cup {Stop}
    BY <1>1, <1>2 DEF TypeOK, Items
  <1>4. /\ \A t \in Tasks : t # x =>
              (OnStack(t)' <=> OnStack(t)) /\ (OnceIn(running, t) => OnceIn(running', t))
        /\ OnStack(x)
        /\ x \in Tasks /\ OnceIn(running, x) => OnceIn(running', x) /\ ~OnStack(x)'
    <2>1. running'[th] = NoTask /\ \A g \in Threads \ {th} : running'[g] = running[g]
      BY <1>1, <1>3
    <2>2. /\ \A t \in Tasks : t # x =>
                (Holds(running', t) <=> Holds(running, t)) /\ (OnceIn(running, t) => OnceIn(running', t))
          /\ Holds(running, x)
          /\ (x \in Tasks /\ OnceIn(running, x) => OnceIn(running', x) /\ ~Holds(running', x))
      BY <1>2, <2>1, Emptied
    <2> QED
      BY <2>2 DEF OnStack, Holds
  <1>5. done' = IF x \in Tasks THEN done \cup {x} ELSE done
    BY <1>1, <1>2, <1>3, SchedulerAssumption
  <1>6. ASSUME NEW t \in Tasks PROVE InOne(t)'
    <2>1. OnceIn(running, t)' <=> OnceIn(running', t)
      BY DEF OnceIn
    <2> QED
      BY <1>1, <1>4, <1>5, <2>1, Unmoved DEF AllInOne, InOne, ExactlyOne
  <1> QED
    BY <1>6 DEF AllInOne

\* stop() pushes something that is no task.
LEMMA StopInOne ==
  ASSUME TypeOK, AllInOne, StopWorker
  PROVE  AllInOne'
  <1> USE SchedulerAssumption
  <1>1. /\ turn \in Threads /\ Stop \in Items /\ Stop \notin Tasks
        /\ tasks' = [tasks EXCEPT ![turn] = Append(@, Stop)]
        /\ UNCHANGED <<running, hand, fresh, done, dropped>>
    BY DEF StopWorker, TypeOK, Threads, Workers, Items, history, locals
  <1>2. \A t : t # Stop => (InQueue(t)' <=> InQueue(t)) /\ (OnceQueued(t) => OnceQueued(t)')
    BY <1>1, Pushed
  <1> QED
    BY <1>1, <1>2, Unmoved DEF AllInOne, InOne, ExactlyOne

LEMMA NextInOne ==
  ASSUME TypeOK, Steady, HandsEmpty, AllInOne, [Next]_vars
  PROVE  AllInOne'
  <1>1. CASE UNCHANGED placement
    BY <1>1, StillInOne DEF AllInOne, placement, spots
  <1>2. ASSUME NEW th \in Threads, PushTask(th) PROVE AllInOne'
    <2>1. /\ index[th] \in Threads /\ hand[th] \in Tasks
          /\ tasks' = [tasks EXCEPT ![index[th]] = Append(@, hand[th])]
          /\ hand' = [hand EXCEPT ![th] = NoTask]
          /\ UNCHANGED <<running, fresh, done, dropped>>
      BY <1>2 DEF PushTask, Steady, Threads
    <2> QED
      BY <2>1, PlacedInOne
  <1>3. ASSUME NEW w \in Workers, PushStolen(w) PROVE AllInOne'
    <2>1. /\ w \in Threads /\ hand[w] \in Tasks
          /\ tasks' = [tasks EXCEPT ![w] = Append(@, hand[w])]
          /\ hand' = [hand EXCEPT ![w] = NoTask]
          /\ UNCHANGED <<running, fresh, done, dropped>>
      BY <1>3 DEF PushStolen, Steady, Threads, history
    <2> QED
      BY <2>1, PlacedInOne
  <1> QED
    BY <1>1, <1>2, <1>3, Moves, SubmittedInOne, StolenInOne, RunInOne, EndedInOne, StopInOne

-----------------------------------------------------------------------------
\* What is in a queue after an append, and after the head is taken.
LEMMA AppendedItems ==
  ASSUME NEW S, NEW s \in Seq(S), NEW x \in S, NEW i \in DOMAIN Append(s, x)
  PROVE  Append(s, x)[i] = x \/ (i \in DOMAIN s /\ Append(s, x)[i] = s[i])
  OBVIOUS

LEMMA TailItems ==
  ASSUME NEW S, NEW s \in Seq(S), s # <<>>, NEW i \in DOMAIN Tail(s)
  PROVE  i + 1 \in DOMAIN s /\ Tail(s)[i] = s[i + 1]
  OBVIOUS

LEMMA InitEnding == Init => HandsEmpty /\ AllInOne /\ Ending
  <1> SUFFICES ASSUME Init PROVE HandsEmpty /\ AllInOne /\ Ending
    OBVIOUS
  <1> USE SchedulerAssumption
  <1>1. HandsEmpty
    BY DEF Init, HandsEmpty
  <1>2. AllInOne
    BY DEF Init, AllInOne, InOne, ExactlyOne, OnceQueued, OnceIn, InQueue, InHand, OnStack
  <1>3. Ending
    <2>1. \A th \in Threads : tasks[th] = <<>> /\ running[th] = NoTask
      BY DEF Init
    <2>2. \A w \in Workers : at[w] = "run" /\ ~(turn < w)
      BY DEF Init, Threads, Workers
    <2>3. \A u \in Users : at[u] = "task"
      BY DEF Init, Threads, Workers
    <2>4. owner = "alive"
      BY DEF Init
    <2> QED
      BY <2>1, <2>2, <2>3, <2>4 DEF Ending, Threads
  <1> QED
    BY <1>1, <1>2, <1>3

\* The calls of enqueue().
LEMMA EnqueueEnding ==
  ASSUME TypeOK, Steady, Ending, NEW th \in Threads,
         \/ \E t \in Tasks : EnqueueHere(th, t) \/ EnqueueAnywhere(th, t)
         \/ EnqueueLoop(th)
  PROVE  Ending'
  <1> USE SchedulerAssumption DEF Goto
  <1>1. ASSUME NEW t \in Tasks, EnqueueHere(th, t) PROVE Ending'
    <2>1. /\ at[th] = "task"
          /\ \/ HasWorker(th) /\ tasks' = [tasks EXCEPT ![th] = Append(@, t)]
             \/ tasks' = tasks
          /\ UNCHANGED <<byTid, running, at, owner, turn, orphaned>>
      BY <1>1 DEF EnqueueHere, Calls, Submit, destructor, locals
    <2>2. CASE tasks' = tasks
      BY <2>1, <2>2 DEF Ending
    <2>3. CASE HasWorker(th) /\ tasks' = [tasks EXCEPT ![th] = Append(@, t)]
      <3>1. \A h \in Threads \ {th} : tasks'[h] = tasks[h]
        BY <2>3 DEF TypeOK
      <3>2. \A u \in Users \ byTid : u \in Threads \ {th}
        BY <2>3 DEF HasWorker, Threads, TypeOK
      <3>3. \A w \in Threads : at[w] \in {"exited", "unbind"} => tasks'[w] = tasks[w]
        BY <2>1, <3>1
      <3> QED
        BY <2>1, <3>1, <3>2, <3>3 DEF Ending, Threads
    <2> QED
      BY <2>1, <2>2, <2>3
  <1>2. ASSUME NEW t \in Tasks, EnqueueAnywhere(th, t) PROVE Ending'
    <2>1. /\ at[th] = "task" /\ at' = [at EXCEPT ![th] = "choose"]
          /\ HasWorker(th) \/ owner = "alive"
          /\ UNCHANGED <<byTid, running, tasks, owner, turn, orphaned>>
      BY <1>2 DEF EnqueueAnywhere, Calls, Submit, destructor
    <2> QED
      BY <2>1 DEF Ending, HasWorker, Threads, TypeOK
  <1>3. ASSUME Choose(th) \/ Pop(th) \/ TryLockFails(th) PROVE Ending'
    <2>1. /\ at[th] \in {"choose", "pop", "lock"}
          /\ \E l \in {"choose", "pop", "lock"} : at' = [at EXCEPT ![th] = l]
          /\ UNCHANGED <<byTid, running, tasks, owner, turn, orphaned>>
      BY <1>3 DEF Choose, Pop, TryLockFails, destructor, history
    <2> QED
      BY <2>1 DEF Ending, Threads, TypeOK
  <1>4. ASSUME PushTask(th) PROVE Ending'
    <2>1. /\ at[th] = "lock" /\ at' = [at EXCEPT ![th] = "task"] /\ index[th] \in Workers
          /\ hand[th] \in Items
          /\ UNCHANGED <<byTid, running, owner, turn>>
      BY <1>4 DEF PushTask, Steady, destructor, Items
    <2>2. \A w \in Workers : at'[w] = "exited" => at[w] = "exited"
      BY <2>1 DEF TypeOK, Threads
    <2>3. PICK h \in Workers, x \in Items :
             /\ h = index[th] /\ x = hand[th]
             /\ tasks' = [tasks EXCEPT ![h] = Append(@, x)]
             /\ orphaned' = IF at[h] = "exited" THEN orphaned \cup {x} ELSE orphaned
      BY <1>4, <2>1 DEF PushTask
    <2>4. /\ tasks'[h] = Append(tasks[h], x) /\ \A g \in Threads \ {h} : tasks'[g] = tasks[g]
          /\ tasks[h] \in Seq(Items) /\ h \in Threads
      BY <2>3 DEF TypeOK, Threads
    <2>5. ASSUME NEW w \in Workers, at[w] = "exited"
          PROVE  \A i \in DOMAIN tasks'[w] : tasks'[w][i] \in orphaned' \cup {Stop}
      <3>1. \A i \in DOMAIN tasks[w] : tasks[w][i] \in orphaned' \cup {Stop}
        BY <2>3, <2>5 DEF Ending
      <3>2. CASE w = h
        <4>1. ASSUME NEW i \in DOMAIN tasks'[w] PROVE tasks'[w][i] \in orphaned' \cup {Stop}
          <5>1. tasks'[w][i] = x \/ (i \in DOMAIN tasks[w] /\ tasks'[w][i] = tasks[w][i])
            BY <2>4, <3>2, <4>1, AppendedItems
          <5>2. x \in orphaned'
            BY <2>3, <2>5, <3>2
          <5> QED
            BY <3>1, <5>1, <5>2
        <4> QED
          BY <4>1
      <3>3. CASE w # h
        BY <2>4, <3>1, <3>3 DEF Threads
      <3> QED
        BY <3>2, <3>3
    <2>6. \A u \in Users : u \in Threads \ {h} /\ tasks'[u] = tasks[u]
      BY <2>3, <2>4 DEF Threads
    <2> QED
      BY <2>1, <2>2, <2>5, <2>6 DEF Ending, Threads, TypeOK
  <1> QED
    BY <1>1, <1>2, <1>3, <1>4 DEF EnqueueLoop

\* The thread of a worker, or of a user in stop().
LEMMA RunEnding ==
  ASSUME TypeOK, Steady, Ending, NEW th \in Threads, Run(th)
  PROVE  Ending'
  <1> USE SchedulerAssumption DEF Goto
  <1>1. CASE Leave(th)
    <2>1. /\ at[th] = "loop" /\ tasks[th] = <<>>
          /\ at' = [at EXCEPT ![th] = IF th \in Workers THEN "exited" ELSE "unbind"]
          /\ UNCHANGED <<byTid, running, tasks, owner, turn, orphaned>>
      BY <1>1 DEF Leave, MayLeave, destructor, history
    <2>2. \A i \in DOMAIN tasks[th] : FALSE
      BY <2>1
    <2> QED
      BY <2>1, <2>2 DEF Ending, Threads, TypeOK
  <1>2. CASE HasWork(th) \/ IdleEnds(th)
    <2>1. /\ at[th] \in {"loop", "idle"}
          /\ \E l \in {"loop", "idle"} : at' = [at EXCEPT ![th] = l]
          /\ UNCHANGED <<byTid, running, tasks, owner, turn, orphaned>>
      BY <1>2 DEF HasWork, IdleEnds, destructor, history
    <2> QED
      BY <2>1 DEF Ending, Threads, TypeOK
  <1>3. CASE RunTask(th)
    <2>1. /\ at[th] = "idle" /\ at' = [at EXCEPT ![th] = "task"]
          /\ \A g \in Threads \ {th} : tasks'[g] = tasks[g] /\ running'[g] = running[g]
          /\ UNCHANGED <<byTid, owner, turn, orphaned>>
      BY <1>3 DEF RunTask, destructor, history, TypeOK
    <2>2. \A u \in Users \ byTid : u \in Threads \ {th}
      BY <2>1 DEF Ending, Threads
    <2> QED
      BY <2>1, <2>2 DEF Ending, Threads, TypeOK
  <1>4. CASE TaskEnds(th)
    <2>1. /\ at[th] = "task" /\ at' = [at EXCEPT ![th] = "idle"] /\ running[th] # NoTask
          /\ \A g \in Threads \ {th} : running'[g] = running[g]
          /\ UNCHANGED <<byTid, tasks, owner, turn, orphaned>>
      BY <1>4 DEF TaskEnds, destructor, history, TypeOK
    <2>2. \A u \in Users \ byTid : u \in Threads \ {th}
      BY <2>1 DEF Ending, Threads
    <2> QED
      BY <2>1, <2>2 DEF Ending, Threads, TypeOK
  <1> QED
    BY <1>1, <1>2, <1>3, <1>4 DEF Run

LEMMA SpinEnding ==
  ASSUME TypeOK, Steady, Ending, NEW w \in Workers, Spin(w)
  PROVE  Ending'
  <1> USE SchedulerAssumption DEF Goto
  <1>1. CASE Wake(w) \/ BeginSpinning(w) \/ PushSpinning(w) \/ SpinEnds(w)
    <2>1. /\ at[w] # "exited"
          /\ \E l \in {"loop", "idle", "push", "spin", "asleep"} : at' = [at EXCEPT ![w] = l]
          /\ UNCHANGED <<byTid, running, tasks, owner, turn, orphaned>>
      BY <1>1 DEF Wake, BeginSpinning, PushSpinning, SpinEnds, destructor, history
    <2> QED
      BY <2>1 DEF Ending, Threads, TypeOK
  <1>2. CASE PushStolen(w)
    <2>1. /\ at[w] = "stolen" /\ at' = [at EXCEPT ![w] = "idle"]
          /\ \A g \in Threads \ {w} : tasks'[g] = tasks[g]
          /\ UNCHANGED <<byTid, running, owner, turn, orphaned>>
      BY <1>2 DEF PushStolen, destructor, history, TypeOK, Threads
    <2>2. \A u \in Users : u \in Threads \ {w}
      BY DEF Threads
    <2> QED
      BY <2>1, <2>2 DEF Ending, Threads, TypeOK
  <1>3. ASSUME NEW v \in Workers, Steal(w, v) PROVE Ending'
    <2>1. /\ at[w] = "spin" /\ at' = [at EXCEPT ![w] = "stolen"]
          /\ tasks' = [tasks EXCEPT ![v] = Tail(@)] /\ tasks[v] # <<>>
          /\ UNCHANGED <<byTid, running, owner, turn, orphaned>>
      BY <1>3 DEF Steal, CanSteal, TakeStolen, destructor, history
    <2>2. /\ tasks'[v] = Tail(tasks[v]) /\ \A g \in Threads \ {v} : tasks'[g] = tasks[g]
          /\ tasks[v] \in Seq(Items)
      BY <2>1 DEF TypeOK, Threads
    <2>3. \A x \in Workers : at'[x] = "exited" => at[x] = "exited"
      BY <2>1 DEF TypeOK, Threads
    <2>4. ASSUME NEW x \in Workers, at[x] = "exited"
          PROVE  \A i \in DOMAIN tasks'[x] : tasks'[x][i] \in orphaned \cup {Stop}
      <3>1. CASE x = v
        <4>1. ASSUME NEW i \in DOMAIN tasks'[x] PROVE tasks'[x][i] \in orphaned \cup {Stop}
          <5>1. i + 1 \in DOMAIN tasks[x] /\ tasks'[x][i] = tasks[x][i + 1]
            <6>1. tasks[v] \in Seq(Items) /\ tasks[v] # <<>> /\ i \in DOMAIN Tail(tasks[v])
              BY <2>1, <2>2, <3>1, <4>1
            <6>2. i + 1 \in DOMAIN tasks[v] /\ Tail(tasks[v])[i] = tasks[v][i + 1]
              BY <6>1, TailItems
            <6> QED
              BY <2>2, <3>1, <6>2
          <5> QED
            BY <2>4, <5>1 DEF Ending
        <4> QED
          BY <4>1
      <3>2. CASE x # v
        BY <2>2, <2>4, <3>2 DEF Ending, Threads
      <3> QED
        BY <3>1, <3>2
    <2>5. \A u \in Users : tasks'[u] = tasks[u]
      BY <2>2 DEF Threads
    <2> QED
      BY <2>1, <2>3, <2>4, <2>5 DEF Ending, Threads, TypeOK
  <1> QED
    BY <1>1, <1>2, <1>3 DEF Spin

\* bind(), unbind() and ~Scheduler().
LEMMA DestructorEnding ==
  ASSUME TypeOK, Steady, Ending,
         \/ \E u \in Users : Bind(u) \/ Unbind(u) \/ Unbound(u)
         \/ Destructor
  PROVE  Ending'
  <1> USE SchedulerAssumption DEF Goto
  <1>1. ASSUME NEW u \in Users, Bind(u) PROVE Ending'
    BY <1>1 DEF Bind, Ending, UserCode, locals, history, destructor
  <1>2. ASSUME NEW u \in Users, Unbind(u) PROVE Ending'
    BY <1>2 DEF Unbind, Ending, UserCode, locals, history, destructor, Threads, TypeOK
  <1>3. ASSUME NEW u \in Users, Unbound(u) PROVE Ending'
    <2>1. /\ at[u] = "unbind" /\ at' = [at EXCEPT ![u] = "task"] /\ byTid' = byTid \ {u}
          /\ owner' = IF ByTidEmpty(u) /\ owner = "sleeping" THEN "unbinding" ELSE owner
          /\ UNCHANGED <<running, tasks, turn, orphaned>>
      BY <1>3 DEF Unbound, history
    <2>2. tasks[u] = <<>> /\ running[u] = NoTask /\ u \in Threads
      BY <2>1 DEF Ending, Steady, Threads
    <2> QED
      BY <2>1, <2>2 DEF Ending, Threads, TypeOK
  <1>4. CASE Destroy
    <2>1. /\ \A u \in Users \ byTid : at[u] = "task"
          /\ owner' = "unbinding"
          /\ UNCHANGED <<byTid, running, tasks, at, turn, orphaned>>
      BY <1>4 DEF Destroy, history
    <2> QED
      BY <2>1 DEF Ending
  <1>5. CASE WaitUnbind \/ SpuriousWake
    BY <1>5 DEF WaitUnbind, SpuriousWake, Ending, history
  <1>6. CASE StopWorker
    <2>1. /\ turn \in Workers /\ tasks' = [tasks EXCEPT ![turn] = Append(@, Stop)]
          /\ owner = "stopping" /\ owner' = "joining"
          /\ UNCHANGED <<byTid, running, at, turn, orphaned>>
      BY <1>6 DEF StopWorker, TypeOK, Workers, history
    <2>2. /\ tasks'[turn] = Append(tasks[turn], Stop) /\ \A g \in Threads \ {turn} : tasks'[g] = tasks[g]
          /\ tasks[turn] \in Seq(Items) /\ Stop \in Items
      BY <2>1 DEF TypeOK, Threads, Items
    <2>3. ASSUME NEW w \in Workers, at[w] = "exited"
          PROVE  \A i \in DOMAIN tasks'[w] : tasks'[w][i] \in orphaned \cup {Stop}
      <3>1. CASE w = turn
        <4>1. ASSUME NEW i \in DOMAIN tasks'[w] PROVE tasks'[w][i] \in orphaned \cup {Stop}
          <5>1. tasks'[w][i] = Stop \/ (i \in DOMAIN tasks[w] /\ tasks'[w][i] = tasks[w][i])
            BY <2>2, <3>1, <4>1, AppendedItems
          <5> QED
            BY <2>3, <5>1 DEF Ending
        <4> QED
          BY <4>1
      <3>2. CASE w # turn
        BY <2>2, <2>3, <3>2 DEF Ending, Threads
      <3> QED
        BY <3>1, <3>2
    <2>4. \A u \in Users : tasks'[u] = tasks[u]
      BY <2>1, <2>2 DEF Threads
    <2> QED
      BY <2>1, <2>3, <2>4 DEF Ending
  <1>7. CASE Join
    <2>1. /\ turn \in Workers /\ at[turn] = "exited" /\ turn' = turn - 1
          /\ owner = "joining" /\ owner' = "stopping"
          /\ UNCHANGED <<byTid, running, tasks, at, orphaned>>
      BY <1>7 DEF Join, Steady, history
    <2>2. \A w \in Workers : turn' < w => at[w] = "exited"
      BY <2>1 DEF Ending, Workers
    <2> QED
      BY <2>1, <2>2 DEF Ending
  <1>8. CASE Destroyed
    <2>1. turn = -1
      BY <1>8 DEF Destroyed, TypeOK, Workers
    <2> QED
      BY <1>8, <2>1 DEF Destroyed, Ending, history
  <1> QED
    BY <1>1, <1>2, <1>3, <1>4, <1>5, <1>6, <1>7, <1>8 DEF Destructor

LEMMA NextEnding ==
  ASSUME TypeOK, Steady, Ending, [Next]_vars
  PROVE  Ending'
  <1>1. CASE UNCHANGED vars
    BY <1>1 DEF vars, Ending, destructor, history
  <1> QED
    BY <1>1, EnqueueEnding, RunEnding, SpinEnding, DestructorEnding DEF Next, Terminated

-----------------------------------------------------------------------------
\* A task that is in one of the six kinds of places, and there once, has one place.
LEMMA OnePlace ==
  ASSUME NEW t, InOne(t)
  PROVE  Cardinality(Places(t)) = 1
  <1> DEFINE
        Q == UNION {{<<th, i>> : i \in {j \in DOMAIN tasks[th] : tasks[th][j] = t}} : th \in Threads}
        H == {<<th, 0>> : th \in {h \in Threads : hand[h] = t}}
        R == {<<th, -1>> : th \in {h \in Threads : running[h] = t}}
        F == IF t \in fresh THEN {"fresh"} ELSE {}
        D == IF t \in done THEN {"done"} ELSE {}
        P == IF t \in dropped THEN {"dropped"} ELSE {}
  <1>1. Places(t) = Q \cup H \cup R \cup F \cup D \cup P
    BY DEF Places
  <1>2. /\ ~InQueue(t) => Q = {}
        /\ InQueue(t) => \E x : Q = {x}
    <2>1. ASSUME NEW th \in Threads, NEW i \in DOMAIN tasks[th], tasks[th][i] = t
          PROVE  Q = {<<th, i>>}
      <3>1. <<th, i>> \in Q
        BY <2>1
      <3>2. ASSUME NEW x \in Q PROVE x = <<th, i>>
        <4>1. PICK g \in Threads : x \in {<<g, k>> : k \in {j \in DOMAIN tasks[g] : tasks[g][j] = t}}
          OBVIOUS
        <4>2. PICK j \in DOMAIN tasks[g] : tasks[g][j] = t /\ x = <<g, j>>
          BY <4>1
        <4>3. g = th /\ j = i
          BY <2>1, <4>2 DEF InOne, OnceQueued
        <4> QED
          BY <4>2, <4>3
      <3> HIDE DEF Q
      <3> QED
        BY <3>1, <3>2
    <2>2. ASSUME ~InQueue(t) PROVE Q = {}
      <3>1. ASSUME NEW x \in Q PROVE FALSE
        <4>1. PICK g \in Threads : x \in {<<g, k>> : k \in {j \in DOMAIN tasks[g] : tasks[g][j] = t}}
          OBVIOUS
        <4>2. PICK j \in DOMAIN tasks[g] : tasks[g][j] = t
          BY <4>1
        <4> QED
          BY <2>2, <4>2 DEF InQueue
      <3> HIDE DEF Q
      <3> QED
        BY <3>1
    <2> HIDE DEF Q
    <2> QED
      BY <2>1, <2>2 DEF InQueue
  <1>3. /\ ~InHand(t) => H = {}
        /\ InHand(t) => \E x : H = {x}
    <2>1. ASSUME ~InHand(t) PROVE H = {}
      BY <2>1 DEF InHand
    <2>2. ASSUME InHand(t) PROVE \E x : H = {x}
      <3>1. PICK h \in Threads : hand[h] = t
        BY <2>2 DEF InHand
      <3>2. \A g \in Threads : hand[g] = t => g = h
        BY <3>1 DEF InOne, OnceIn
      <3>3. H = {<<h, 0>>}
        BY <3>1, <3>2
      <3> QED
        BY <3>3
    <2> QED
      BY <2>1, <2>2
  <1>4. /\ ~OnStack(t) => R = {}
        /\ OnStack(t) => \E x : R = {x}
    <2>1. ASSUME ~OnStack(t) PROVE R = {}
      BY <2>1 DEF OnStack
    <2>2. ASSUME OnStack(t) PROVE \E x : R = {x}
      <3>1. PICK h \in Threads : running[h] = t
        BY <2>2 DEF OnStack
      <3>2. \A g \in Threads : running[g] = t => g = h
        BY <3>1 DEF InOne, OnceIn
      <3>3. R = {<<h, -1>>}
        BY <3>1, <3>2
      <3> QED
        BY <3>3
    <2> QED
      BY <2>1, <2>2
  <1>5. /\ t \notin fresh => F = {}
        /\ t \in fresh => \E x : F = {x}
    OBVIOUS
  <1>6. /\ t \notin done => D = {}
        /\ t \in done => \E x : D = {x}
    OBVIOUS
  <1>7. /\ t \notin dropped => P = {}
        /\ t \in dropped => \E x : P = {x}
    OBVIOUS
  <1> HIDE DEF Q, H, R, F, D, P
  <1>8. ExactlyOne(InQueue(t), InHand(t), OnStack(t), t \in fresh, t \in done, t \in dropped)
    BY DEF InOne
  <1>9. PICK x : Q \cup H \cup R \cup F \cup D \cup P = {x}
    <2>1. CASE InQueue(t)
      <3>1. H = {} /\ R = {} /\ F = {} /\ D = {} /\ P = {} /\ \E x : Q = {x}
        BY <1>2, <1>3, <1>4, <1>5, <1>6, <1>7, <1>8, <2>1 DEF ExactlyOne
      <3> QED
        BY <3>1
    <2>2. CASE InHand(t)
      <3>1. Q = {} /\ R = {} /\ F = {} /\ D = {} /\ P = {} /\ \E x : H = {x}
        BY <1>2, <1>3, <1>4, <1>5, <1>6, <1>7, <1>8, <2>2 DEF ExactlyOne
      <3> QED
        BY <3>1
    <2>3. CASE OnStack(t)
      <3>1. Q = {} /\ H = {} /\ F = {} /\ D = {} /\ P = {} /\ \E x : R = {x}
        BY <1>2, <1>3, <1>4, <1>5, <1>6, <1>7, <1>8, <2>3 DEF ExactlyOne
      <3> QED
        BY <3>1
    <2>4. CASE t \in fresh
      <3>1. Q = {} /\ H = {} /\ R = {} /\ D = {} /\ P = {} /\ \E x : F = {x}
        BY <1>2, <1>3, <1>4, <1>5, <1>6, <1>7, <1>8, <2>4 DEF ExactlyOne
      <3> QED
        BY <3>1
    <2>5. CASE t \in done
      <3>1. Q = {} /\ H = {} /\ R = {} /\ F = {} /\ P = {} /\ \E x : D = {x}
        BY <1>2, <1>3, <1>4, <1>5, <1>6, <1>7, <1>8, <2>5 DEF ExactlyOne
      <3> QED
        BY <3>1
    <2>6. CASE t \in dropped
      <3>1. Q = {} /\ H = {} /\ R = {} /\ F = {} /\ D = {} /\ \E x : P = {x}
        BY <1>2, <1>3, <1>4, <1>5, <1>6, <1>7, <1>8, <2>6 DEF ExactlyOne
      <3> QED
        BY <3>1
    <2> QED
      BY <1>8, <2>1, <2>2, <2>3, <2>4, <2>5, <2>6 DEF ExactlyOne
  <1> QED
    BY <1>1, <1>9, FS_Singleton

\* What is not done when the scheduler is destroyed is in the queue of a worker that had
\* ended: no hand and no stack holds anything, and the queues of users are empty.
LEMMA LeftAtTheEnd ==
  ASSUME TypeOK, Steady, HandsEmpty, AllInOne, Ending
  PROVE  OnlyOrphansLost
  <1> SUFFICES ASSUME owner = "destroyed"
               PROVE  /\ Tasks \ done \subseteq fresh \cup dropped \cup orphaned
                      /\ \A th \in Threads : running[th] = NoTask
    BY DEF OnlyOrphansLost
  <1> USE SchedulerAssumption
  <1>1. byTid = {} /\ turn = -1
    BY DEF Ending
  <1>2. \A w \in Workers : at[w] = "exited"
    BY <1>1 DEF Ending, Workers
  <1>3. \A u \in Users : at[u] = "task" /\ tasks[u] = <<>> /\ running[u] = NoTask
    BY <1>1 DEF Ending
  <1>4. \A th \in Threads : running[th] = NoTask /\ hand[th] = NoTask
    BY <1>2, <1>3 DEF Steady, HandsEmpty, Threads
  <1>5. ASSUME NEW t \in Tasks, t \notin done PROVE t \in fresh \cup dropped \cup orphaned
    <2>1. ~InHand(t) /\ ~OnStack(t)
      BY <1>4 DEF InHand, OnStack
    <2>2. ASSUME InQueue(t) PROVE t \in orphaned
      <3>1. PICK th \in Threads : \E i \in DOMAIN tasks[th] : tasks[th][i] = t
        BY <2>2 DEF InQueue
      <3>2. th \in Workers
        BY <1>3, <3>1 DEF Threads
      <3> QED
        BY <1>2, <3>1, <3>2 DEF Ending
    <2> QED
      BY <1>5, <2>1, <2>2 DEF AllInOne, InOne, ExactlyOne
  <1> QED
    BY <1>4, <1>5

LEMMA PlacesInd == Spec => [](TypeOK /\ Steady /\ HandsEmpty /\ AllInOne /\ Ending)
  <1>1. Init => TypeOK /\ Steady /\ HandsEmpty /\ AllInOne /\ Ending
    BY InitInd, InitEnding
  <1>2. TypeOK /\ Steady /\ HandsEmpty /\ AllInOne /\ Ending /\ [Next]_vars
        => TypeOK' /\ Steady' /\ HandsEmpty' /\ AllInOne' /\ Ending'
    BY NextTyped, NextHandsEmpty, NextInOne, NextEnding
  <1> QED
    BY <1>1, <1>2, PTL DEF Spec

\* Whatever threads enqueue, steal, run and stop at the same time, a task is in one
\* place: enqueue(), a theft and the end of a worker neither lose nor double it.
THEOREM TasksInOnePlace == Spec => []TaskInOnePlace
  <1>1. AllInOne => TaskInOnePlace
    BY OnePlace DEF AllInOne, TaskInOnePlace
  <1> QED
    BY <1>1, PlacesInd, PTL

\* When ~Scheduler() returns, what is not done was never scheduled, was dropped by
\* enqueue(), or was pushed to a worker that had ended.
THEOREM NothingElseIsLost == Spec => []OnlyOrphansLost
  <1> QED
    BY LeftAtTheEnd, PlacesInd, PTL
=============================================================================
