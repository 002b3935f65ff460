---------------------------- MODULE WaitGroupProofs ----------------------------
(***************************************************************************)
(* Proof that no wait() of a WaitGroup is left behind (NoStuckWaiter), for *)
(* every number of fibers and threads, every initial count and every bound *)
(* of the calls.  notify_all() reaches whoever is inside wait(), and its   *)
(* early return is sound because waitingNum counts exactly those.  The     *)
(* types follow, the counters within their bounds included.                *)
(***************************************************************************)
EXTENDS WaitGroup, FiniteSetTheorems, SequenceTheorems, TLAPS

Places == {"idle", "check", "park", "asleep", "notify"}

Typed ==
    /\ lock \in [Cvs -> Processes \cup {Nobody}]
    /\ on \in [Processes -> Cvs \cup {Nowhere}]
    /\ status \in [Processes -> {"running", "suspended", "ready"}]
    /\ waiting \in [Cvs -> Seq(Fibers)]
    /\ waitingNum \in [Cvs -> Int]
    /\ count \in Nat
    /\ at \in [Processes -> Places]

\* A process between two evaluations of the counter holds the mutex.
MutexHeld == \A p \in Processes : at[p] \in {"check", "park"} => lock[Group] = p

\* Only a process asleep in wait() is suspended; who waits is counted by the wait().
Asleep ==
    \A p \in Processes :
        /\ status[p] = "suspended" => at[p] = "asleep"
        /\ at[p] \in {"check", "park", "asleep"} => on[p] = Group

Inside == {p \in Processes : on[p] = Group}

Counted == waitingNum[Group] = Cardinality(Inside)

IInv == Typed /\ MutexHeld /\ Asleep /\ Counted /\ NoStuckWaiter

-----------------------------------------------------------------------------
\* The constructor establishes the invariant.
LEMMA InitIInv == Init => IInv
  <1> SUFFICES ASSUME Init PROVE IInv
    OBVIOUS
  <1>1. Typed /\ MutexHeld /\ Asleep /\ NoStuckWaiter
    BY GroupAssumption, CvAssumption
    DEF Init, CvInit, Typed, MutexHeld, Asleep, NoStuckWaiter, Places
  <1>2. Inside = {}
    BY GroupAssumption, CvAssumption DEF Init, CvInit, Inside
  <1>3. Counted
    BY <1>2, FS_EmptySet, GroupAssumption, CvAssumption DEF Init, CvInit, Counted
  <1> QED
    BY <1>1, <1>3 DEF IInv

\* The set of processes inside wait() is finite.
LEMMA InsideFinite == IsFiniteSet(Inside)
  <1>1. IsFiniteSet(Processes)
    BY FS_Union, CvAssumption DEF Processes
  <1> QED
    BY <1>1, FS_Subset DEF Inside

\* Entering and leaving wait() keep the list typed and the count of those inside.
LEMMA EnterCounted ==
  ASSUME Typed, Counted, NEW p \in Processes, Enter(p, Group)
  PROVE  /\ Counted' /\ waiting' \in [Cvs -> Seq(Fibers)]
         /\ waitingNum' \in [Cvs -> Int]
         /\ on' = [on EXCEPT ![p] = Group]
  <1> USE GroupAssumption, CvAssumption DEF Typed
  <1>1. CASE on[p] = Group /\ UNCHANGED <<on, waiting, waitingNum>>
    BY <1>1 DEF Counted, Inside
  <1>2. CASE /\ on[p] = Nowhere
             /\ on' = [on EXCEPT ![p] = Group]
             /\ waitingNum' = [waitingNum EXCEPT ![Group] = @ + 1]
             /\ waiting' = IF p \in Fibers THEN [waiting EXCEPT ![Group] = <<p>> \o @]
                           ELSE waiting
    <2>1. Inside' = Inside \cup {p} /\ p \notin Inside
      BY <1>2 DEF Inside
    <2>2. Cardinality(Inside') = Cardinality(Inside) + 1
      BY <2>1, InsideFinite, FS_AddElement
    <2>3. waiting' \in [Cvs -> Seq(Fibers)]
      <3>1. p \in Fibers => <<p>> \o waiting[Group] \in Seq(Fibers)
        BY ConcatProperties
      <3> QED
        BY <1>2, <3>1
    <2> QED
      BY <1>2, <2>2, <2>3 DEF Counted
  <1> QED
    BY <1>1, <1>2 DEF Enter

LEMMA ExitCounted ==
  ASSUME Typed, Counted, NEW p \in Processes, on[p] = Group, Exit(p)
  PROVE  /\ Counted' /\ waiting' \in [Cvs -> Seq(Fibers)]
         /\ waitingNum' \in [Cvs -> Int]
         /\ on' = [on EXCEPT ![p] = Nowhere]
  <1> USE GroupAssumption, CvAssumption DEF Typed
  <1>1. /\ on' = [on EXCEPT ![p] = Nowhere]
        /\ waitingNum' = [waitingNum EXCEPT ![Group] = @ - 1]
        /\ \/ UNCHANGED waiting
           \/ \E i \in DOMAIN waiting[Group] :
                 waiting' = [waiting EXCEPT ![Group] = RemoveAt(@, i)]
    BY DEF Exit
  <1>2. Inside' = Inside \ {p} /\ p \in Inside
    BY <1>1 DEF Inside
  <1>3. Cardinality(Inside') = Cardinality(Inside) - 1
    BY <1>2, InsideFinite, FS_RemoveElement
  <1>4. waiting' \in [Cvs -> Seq(Fibers)]
    <2>1. ASSUME NEW i \in DOMAIN waiting[Group]
          PROVE  RemoveAt(waiting[Group], i) \in Seq(Fibers)
      <3>1. PICK s \in Seq(Fibers) : s = waiting[Group]
        OBVIOUS
      <3>2. i \in 1..Len(s) /\ Len(s) \in Nat
        BY <3>1
      <3>3. /\ SubSeq(s, 1, i - 1) \in Seq(Fibers)
            /\ SubSeq(s, i + 1, Len(s)) \in Seq(Fibers)
        BY <3>2, SubSeqProperties
      <3> QED
        BY <3>1, <3>3, ConcatProperties DEF RemoveAt
    <2> QED
      BY <1>1, <2>1
  <1> QED
    BY <1>1, <1>3, <1>4 DEF Counted

\* Every step of a call preserves the invariant.
LEMMA NextIInv == IInv /\ [Next]_vars => IInv'
  <1> SUFFICES ASSUME IInv, [Next]_vars PROVE IInv'
    OBVIOUS
  <1> USE GroupAssumption, CvAssumption DEF IInv, Typed, Places
  <1>1. CASE UNCHANGED vars
    BY <1>1 DEF vars, cvVars, MutexHeld, Asleep, Counted, Inside, NoStuckWaiter
  <1>2. ASSUME NEW p \in Processes, Add(p) PROVE IInv'
    <2>1. count' \in Nat /\ count' # 0 /\ UNCHANGED <<cvVars, at>>
      BY <1>2 DEF Add
    <2> QED
      BY <2>1 DEF cvVars, MutexHeld, Asleep, Counted, Inside, NoStuckWaiter
  <1>3. ASSUME NEW p \in Processes, Done(p) PROVE IInv'
    <2>1. /\ at[p] = "idle" /\ count' \in Nat /\ UNCHANGED cvVars
          /\ \/ count' = 0 /\ at' = [at EXCEPT ![p] = "notify"]
             \/ count' # 0 /\ UNCHANGED at
      BY <1>3 DEF Done, ReachedZero, Goto
    <2> QED
      BY <2>1 DEF cvVars, MutexHeld, Asleep, Counted, Inside, NoStuckWaiter
  <1>4. ASSUME NEW p \in Processes, DoneNotifies(p) PROVE IInv'
    \* The mutex is free, so nobody is between evaluating the counter and suspending;
    \* whoever is suspended is inside wait() and is notified.
    <2>1. /\ at[p] = "notify" /\ lock[Group] = Nobody
          /\ status' = [q \in Processes |->
                           IF waitingNum[Group] # 0 /\ on[q] = Group
                           THEN Notified(q) ELSE status[q]]
          /\ at' = [at EXCEPT ![p] = "idle"]
          /\ UNCHANGED <<lock, waiting, waitingNum, on, count>>
      BY <1>4 DEF DoneNotifies, HasMutex, NotifyAll, Goto
    <2>2. \A q \in Processes : on[q] = Group => waitingNum[Group] # 0
      <3>1. Inside # {} => Cardinality(Inside) # 0
        BY InsideFinite, FS_EmptySet
      <3> QED
        BY <3>1 DEF Counted, Inside
    <2>3. \A q \in Processes : at[q] # "park"
      BY <2>1 DEF MutexHeld
    <2>4. \A q \in Processes : /\ status'[q] # "suspended"
                               /\ status'[q] \in {"running", "ready"}
      BY <2>2, <2>1 DEF Notified, Asleep
    <2>5. status' \in [Processes -> {"running", "suspended", "ready"}]
      BY <2>1, <2>4
    <2> QED
      BY <2>1, <2>3, <2>4, <2>5 DEF MutexHeld, Asleep, Counted, Inside, NoStuckWaiter
  <1>5. ASSUME NEW p \in Processes, Wait(p) PROVE IInv'
    <2>1. CASE UNCHANGED <<cvVars, at>>
      BY <1>5, <2>1 DEF Wait, cvVars, MutexHeld, Asleep, Counted, Inside, NoStuckWaiter
    <2>2. CASE /\ at[p] = "idle" /\ count # 0 /\ lock[Group] = Nobody
               /\ lock' = [lock EXCEPT ![Group] = p]
               /\ Enter(p, Group)
               /\ at' = [at EXCEPT ![p] = "check"]
               /\ UNCHANGED <<status, count>>
      <3>1. /\ Counted' /\ waiting' \in [Cvs -> Seq(Fibers)]
            /\ waitingNum' \in [Cvs -> Int]
            /\ on' = [on EXCEPT ![p] = Group]
        BY <2>2, EnterCounted
      <3>2. /\ on' \in [Processes -> Cvs \cup {Nowhere}] /\ on'[p] = Group
            /\ \A q \in Processes : q # p => on'[q] = on[q]
        BY <3>1
      <3> QED
        BY <2>2, <3>1, <3>2 DEF MutexHeld, Asleep, NoStuckWaiter
    <2> QED
      BY <1>5, <2>1, <2>2 DEF Wait, HasMutex, Locks, Goto
  <1>6. ASSUME NEW p \in Processes, Check(p) PROVE IInv'
    <2>1. at[p] = "check" /\ UNCHANGED <<status, count>> /\ status[p] # "suspended"
      BY <1>6 DEF Check, Asleep
    <2>2. CASE /\ lock' = [lock EXCEPT ![Group] = Nobody]
               /\ Exit(p)
               /\ at' = [at EXCEPT ![p] = "idle"]
      <3>1. /\ Counted' /\ waiting' \in [Cvs -> Seq(Fibers)]
            /\ waitingNum' \in [Cvs -> Int]
            /\ on' = [on EXCEPT ![p] = Nowhere]
        BY <2>1, <2>2, ExitCounted DEF Asleep
      <3> QED
        BY <2>1, <2>2, <3>1 DEF MutexHeld, Asleep, NoStuckWaiter
    <2>3. CASE /\ count # 0 /\ UNCHANGED <<lock, waiting, waitingNum, on>>
               /\ at' = [at EXCEPT ![p] = "park"]
      BY <2>1, <2>3 DEF MutexHeld, Asleep, Counted, Inside, NoStuckWaiter
    <2> QED
      BY <1>6, <2>2, <2>3 DEF Check, Unlocks, Goto
  <1>7. ASSUME NEW p \in Processes, Park(p) PROVE IInv'
    \* A counter that reached zero since the evaluation has a done() that waits for
    \* the mutex and will notify p.
    <2>1. /\ at[p] = "park"
          /\ status' = [status EXCEPT ![p] = "suspended"]
          /\ lock' = [lock EXCEPT ![Group] = Nobody]
          /\ at' = [at EXCEPT ![p] = "asleep"]
          /\ UNCHANGED <<waiting, waitingNum, on, count>>
      BY <1>7 DEF Park, Sleep, Unlocks, Goto
    <2>2. count = 0 => \E q \in Processes : q # p /\ at[q] = "notify"
      BY <2>1 DEF NoStuckWaiter
    <2>3. on[p] = Group
      BY <2>1 DEF Asleep
    <2> QED
      BY <2>1, <2>2, <2>3 DEF MutexHeld, Asleep, Counted, Inside, NoStuckWaiter
  <1>8. ASSUME NEW p \in Processes, Wake(p) PROVE IInv'
    <2>1. /\ at[p] = "asleep" /\ on[p] = Group /\ lock[Group] = Nobody
          /\ status' = [status EXCEPT ![p] = "running"]
          /\ lock' = [lock EXCEPT ![Group] = p]
          /\ at' = [at EXCEPT ![p] = "check"]
          /\ UNCHANGED <<waiting, waitingNum, on, count>>
      BY <1>8 DEF Wake, Wakes, Locks, Goto, Asleep
    <2> QED
      BY <2>1 DEF MutexHeld, Asleep, Counted, Inside, NoStuckWaiter
  <1> QED
    BY <1>1, <1>2, <1>3, <1>4, <1>5, <1>6, <1>7, <1>8 DEF Next

\* waitgroup.hpp:50-63: for all numbers of fibers, threads and calls, a wait() is
\* never left suspended over a counter at zero with no done() about to notify it,
\* although done() decrements the counter outside the mutex.
THEOREM NobodyIsStuck == Spec => []NoStuckWaiter
  <1>1. IInv => NoStuckWaiter
    BY DEF IInv
  <1> QED
    BY <1>1, InitIInv, NextIInv, PTL DEF Spec

\* The bounds of the model: the counter never passes what was added, and is never
\* taken below zero.
Bounds ==
    /\ adds \in 0..MaxAdds /\ waits \in 0..MaxWaits
    /\ count \in 0..(Initial + adds)

LEMMA BoundsHold == Spec => []Bounds
  <1> USE GroupAssumption DEF Bounds
  <1>1. Init => Bounds
    BY DEF Init
  <1>2. Bounds /\ [Next]_vars => Bounds'
    <2> SUFFICES ASSUME Bounds, [Next]_vars PROVE Bounds'
      OBVIOUS
    <2>1. CASE UNCHANGED <<count, adds, waits>>
      BY <2>1
    <2>2. ASSUME NEW p \in Processes, Add(p) PROVE Bounds'
      BY <2>2 DEF Add
    <2>3. ASSUME NEW p \in Processes, Done(p) PROVE Bounds'
      BY <2>3 DEF Done
    <2>4. ASSUME NEW p \in Processes, Wait(p) PROVE Bounds'
      BY <2>4 DEF Wait
    <2>5. ASSUME NEW p \in Processes, DoneNotifies(p) \/ Check(p) \/ Park(p) \/ Wake(p)
          PROVE  Bounds'
      BY <2>1, <2>5 DEF DoneNotifies, Check, Park, Wake
    <2> QED
      BY <2>1, <2>2, <2>3, <2>4, <2>5 DEF Next, vars
  <1> QED
    BY <1>1, <1>2, PTL DEF Spec

\* The variables of the group and of its condition variable keep their types:
\* waitingNum is never taken below zero.
THEOREM TypeCorrect == Spec => []TypeOK
  <1>1. IInv /\ Bounds => TypeOK
    <2> SUFFICES ASSUME IInv, Bounds PROVE TypeOK
      OBVIOUS
    <2>1. waitingNum[Group] \in Nat
      BY InsideFinite, FS_CardinalityType DEF IInv, Counted
    <2>2. waitingNum \in [Cvs -> Nat]
      BY <2>1, GroupAssumption DEF IInv, Typed
    <2>3. count \in 0..(Initial + MaxAdds)
      BY GroupAssumption DEF Bounds
    <2> QED
      BY <2>2, <2>3 DEF IInv, Typed, Bounds, TypeOK, CvTypeOK, Places
  <1> QED
    BY <1>1, InitIInv, NextIInv, BoundsHold, PTL DEF Spec
=============================================================================
