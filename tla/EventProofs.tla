------------------------------ MODULE EventProofs ------------------------------
(***************************************************************************)
(* Proofs about Event and the ConditionVariable it waits on, for every set *)
(* of processes and events, every list given to any() and every number of  *)
(* calls: no signal of an Auto event lets two wait()s through, no wait()   *)
(* misses a signal, waitingNum counts who waits, and any() misses no       *)
(* signal while it goes through its list.                                  *)
(***************************************************************************)
EXTENDS Event, FiniteSetTheorems, SequenceTheorems, TLAPS

Counters ==
    /\ signalled \in [Events -> BOOLEAN]
    /\ raises \in [Events -> Nat]
    /\ grants \in [Events -> Nat]

\* A signal is either still there or was taken by one wait() or test(), or cleared.
SignalsTaken ==
    \A e \in AutoEvents : grants[e] + (IF signalled[e] THEN 1 ELSE 0) <= raises[e]

CInv == Counters /\ SignalsTaken

-----------------------------------------------------------------------------
LEMMA InitCInv == Init => CInv
  BY EventAssumption DEF Init, CInv, Counters, SignalsTaken

\* Taking a signal that is there keeps the balance.
LEMMA ConsumeCInv ==
  ASSUME CInv, NEW e, signalled[e], Consume(e), UNCHANGED raises
  PROVE  CInv'
  <1> USE EventAssumption DEF CInv, Counters, SignalsTaken
  <1>1. /\ signalled' = [signalled EXCEPT ![e] = e \notin AutoEvents]
        /\ grants' = [grants EXCEPT ![e] = @ + 1]
    BY DEF Consume
  <1>2. CASE e \in Events
    <2>1. Counters'
      <3>1. signalled' \in [Events -> BOOLEAN]
        BY <1>1, <1>2
      <3>2. grants' \in [Events -> Nat]
        BY <1>1, <1>2
      <3> QED
        BY <3>1, <3>2
    <2>2. ASSUME NEW f \in AutoEvents
          PROVE  grants'[f] + (IF signalled'[f] THEN 1 ELSE 0) <= raises'[f]
      <3>1. f \in Events /\ grants[f] \in Nat /\ raises[f] \in Nat
        OBVIOUS
      <3>2. CASE f = e
        <4>1. ~signalled'[f] /\ grants'[f] = grants[f] + 1
          BY <1>1, <1>2, <3>2, <2>2
        <4>2. grants[f] + 1 <= raises[f]
          BY <3>2
        <4> QED
          BY <3>1, <4>1, <4>2
      <3>3. CASE f # e
        <4>1. signalled'[f] = signalled[f] /\ grants'[f] = grants[f]
          BY <1>1, <3>1, <3>3
        <4> QED
          BY <3>1, <4>1
      <3> QED
        BY <3>2, <3>3
    <2> QED
      BY <2>1, <2>2
  <1>3. CASE e \notin Events
    <2>1. signalled' = signalled /\ grants' = grants
      BY <1>1, <1>3
    <2> QED
      BY <2>1
  <1> QED
    BY <1>2, <1>3

\* Raising a signal that is not there keeps it too.
LEMMA RaiseCInv ==
  ASSUME CInv, NEW e, ~signalled[e],
         signalled' = [signalled EXCEPT ![e] = TRUE],
         raises' = [raises EXCEPT ![e] = @ + 1],
         UNCHANGED grants
  PROVE  CInv'
  <1> USE EventAssumption DEF CInv, Counters, SignalsTaken
  <1>1. CASE e \in Events
    <2>1. Counters'
      BY <1>1
    <2>2. ASSUME NEW f \in AutoEvents
          PROVE  grants'[f] + (IF signalled'[f] THEN 1 ELSE 0) <= raises'[f]
      <3>1. f \in Events /\ grants'[f] = grants[f]
            /\ grants[f] \in Nat /\ raises[f] \in Nat
        OBVIOUS
      <3>2. CASE f = e
        <4>1. raises'[f] = raises[f] + 1 /\ grants[f] <= raises[f]
          BY <1>1, <3>2
        <4> QED
          BY <3>1, <4>1
      <3>3. CASE f # e
        <4>1. signalled'[f] = signalled[f] /\ raises'[f] = raises[f]
          BY <3>1, <3>3
        <4> QED
          BY <3>1, <4>1
      <3> QED
        BY <3>2, <3>3
    <2> QED
      BY <2>1, <2>2
  <1>2. CASE e \notin Events
    <2>1. signalled' = signalled /\ raises' = raises
      BY <1>2
    <2> QED
      BY <2>1
  <1> QED
    BY <1>1, <1>2

\* wait() evaluates the signal under the mutex and takes it in the same step.
LEMMA EvaluateCInv ==
  ASSUME CInv, NEW p \in Processes, NEW e, Evaluate(p, e), UNCHANGED raises
  PROVE  CInv'
  <1>1. CASE signalled[e] /\ Consume(e)
    BY <1>1, ConsumeCInv
  <1>2. CASE UNCHANGED <<signalled, grants>>
    BY <1>2 DEF CInv, Counters, SignalsTaken
  <1> QED
    BY <1>1, <1>2 DEF Evaluate

LEMMA NextCInv == CInv /\ [Next]_vars => CInv'
  <1> SUFFICES ASSUME CInv, [Next]_vars PROVE CInv'
    OBVIOUS
  <1>1. CASE UNCHANGED <<signalled, raises, grants>>
    BY <1>1 DEF CInv, Counters, SignalsTaken
  <1>2. ASSUME NEW p \in Processes, NEW e \in Events, Wait(p, e) PROVE CInv'
    BY <1>2, EvaluateCInv DEF Wait
  <1>3. ASSUME NEW p \in Processes, NEW e \in Events, Test(p, e) PROVE CInv'
    BY <1>3, ConsumeCInv DEF Test
  <1>4. ASSUME NEW p \in Processes, NEW e \in Events, Clear(p, e) PROVE CInv'
    BY <1>4, EventAssumption DEF Clear, CInv, Counters, SignalsTaken
  <1>5. ASSUME NEW p \in Processes, NEW e \in Events, Signal(p, e) PROVE CInv'
    BY <1>5, RaiseCInv DEF Signal, Raise
  <1>6. ASSUME NEW p \in Processes, Check(p) PROVE CInv'
    BY <1>6, EvaluateCInv DEF Check
  <1>7. ASSUME NEW p \in Processes, SignalDep(p) PROVE CInv'
    <2> DEFINE d == Head(Top(p).left)
    <2>1. CASE Raise(p, d) /\ UNCHANGED grants
      <3>1. /\ ~signalled[d]
            /\ signalled' = [signalled EXCEPT ![d] = TRUE]
            /\ raises' = [raises EXCEPT ![d] = @ + 1]
        BY <2>1 DEF Raise
      <3> HIDE DEF d
      <3> QED
        BY <2>1, <3>1, RaiseCInv
    <2>2. CASE UNCHANGED <<signalled, raises, grants>>
      BY <2>2, <1>1
    <2> QED
      BY <1>7, <2>1, <2>2 DEF SignalDep
  <1>8. ASSUME NEW p \in Processes, AnyPush(p) PROVE CInv'
    <2>1. CASE UNCHANGED <<signalled, raises, grants>>
      BY <2>1, <1>1
    <2>2. CASE /\ signalled' = [signalled EXCEPT ![AnyEvent] = TRUE]
               /\ raises' = [raises EXCEPT ![AnyEvent] =
                                IF signalled[AnyEvent] THEN @ ELSE @ + 1]
               /\ UNCHANGED grants
      BY <2>2, EventAssumption DEF CInv, Counters, SignalsTaken
    <2> QED
      BY <1>8, <2>1, <2>2 DEF AnyPush
  <1>9. ASSUME NEW p \in Processes,
               Wake(p) \/ SignalReturns(p) \/ AnyCall(p) \/ AnyLock(p)
        PROVE  CInv'
    BY <1>9, <1>1 DEF Wake, SignalReturns, AnyCall, AnyLock
  <1> QED
    BY <1>1, <1>2, <1>3, <1>4, <1>5, <1>6, <1>7, <1>8, <1>9
    DEF Next, Quiescent, vars

\* event.hpp:19: one signal() of an Auto event lets a single wait() or test() through,
\* however many fibers and threads it wakes and through whatever any() raised it.
THEOREM SignalsServeOne == Spec => []OneWaitPerSignal
  <1>1. CInv => OneWaitPerSignal
    BY EventAssumption DEF CInv, Counters, SignalsTaken, OneWaitPerSignal
  <1> QED
    BY <1>1, InitCInv, NextCInv, PTL DEF Spec

-----------------------------------------------------------------------------
(* The list of a condition variable. *)

LEMMA InFront ==
  ASSUME NEW S, NEW s \in Seq(S), NEW x \in S
  PROVE  /\ <<x>> \o s \in Seq(S) /\ Len(<<x>> \o s) = Len(s) + 1
         /\ ToSet(<<x>> \o s) = ToSet(s) \cup {x}
         /\ IsInjective(s) /\ x \notin ToSet(s) => IsInjective(<<x>> \o s)
  <1> DEFINE r == <<x>> \o s
  <1>1. /\ r \in Seq(S) /\ Len(r) = Len(s) + 1 /\ Len(s) \in Nat
        /\ DOMAIN r = 1..(Len(s) + 1) /\ DOMAIN s = 1..Len(s)
        /\ r[1] = x /\ \A i \in 1..Len(s) : r[i + 1] = s[i]
    OBVIOUS
  <1> HIDE DEF r
  <1>2. \A i \in DOMAIN r : i = 1 \/ (i - 1 \in DOMAIN s /\ r[i] = s[i - 1])
    BY <1>1
  <1>3. ToSet(r) = ToSet(s) \cup {x}
    <2>1. ASSUME NEW y \in ToSet(r) PROVE y \in ToSet(s) \cup {x}
      BY <1>1, <1>2 DEF ToSet
    <2>2. ASSUME NEW y \in ToSet(s) PROVE y \in ToSet(r)
      <3>1. PICK i \in DOMAIN s : y = s[i]
        BY DEF ToSet
      <3>2. i + 1 \in DOMAIN r /\ r[i + 1] = y
        BY <1>1, <3>1
      <3> QED
        BY <3>2 DEF ToSet
    <2>3. 1 \in DOMAIN r
      BY <1>1
    <2> QED
      BY <1>1, <2>1, <2>2, <2>3 DEF ToSet
  <1>4. ASSUME IsInjective(s), x \notin ToSet(s) PROVE IsInjective(r)
    <2> SUFFICES ASSUME NEW i \in DOMAIN r, NEW j \in DOMAIN r, r[i] = r[j], i # j
                 PROVE  FALSE
      BY DEF IsInjective
    <2>1. i \in Int /\ j \in Int
      BY <1>1
    <2>2. i # 1 /\ j # 1
      BY <1>1, <1>2, <1>4 DEF ToSet
    <2>3. i - 1 = j - 1
      BY <1>2, <1>4, <2>2 DEF IsInjective
    <2> QED
      BY <2>1, <2>3
  <1> QED
    BY <1>1, <1>3, <1>4 DEF r

LEMMA Erased ==
  ASSUME NEW S, NEW s \in Seq(S), NEW k \in DOMAIN s
  PROVE  /\ RemoveAt(s, k) \in Seq(S) /\ Len(RemoveAt(s, k)) = Len(s) - 1
         /\ IsInjective(s) => /\ ToSet(RemoveAt(s, k)) = ToSet(s) \ {s[k]}
                              /\ IsInjective(RemoveAt(s, k))
  <1> DEFINE r == RemoveAt(s, k)
             At(i) == IF i < k THEN i ELSE i + 1
  <1>0. k \in 1..Len(s) /\ Len(s) \in Nat /\ DOMAIN s = 1..Len(s)
    OBVIOUS
  <1> DEFINE a == SubSeq(s, 1, k - 1)
             b == SubSeq(s, k + 1, Len(s))
  <1>1. a \in Seq(S) /\ Len(a) = k - 1 /\ \A i \in 1..(k - 1) : a[i] = s[i]
    BY <1>0
  <1>a. b \in Seq(S) /\ Len(b) = Len(s) - k /\ \A i \in 1..(Len(s) - k) : b[i] = s[i + k]
    BY <1>0
  <1>b. r = a \o b
    BY DEF RemoveAt
  <1> HIDE DEF a, b, r
  <1>c. /\ r \in Seq(S) /\ Len(r) = Len(a) + Len(b)
        /\ \A i \in 1..(Len(a) + Len(b)) :
               r[i] = IF i <= Len(a) THEN a[i] ELSE b[i - Len(a)]
    BY <1>1, <1>a, <1>b, ConcatProperties
  <1>2. r \in Seq(S) /\ Len(r) = Len(s) - 1 /\ DOMAIN r = 1..(Len(s) - 1)
    BY <1>0, <1>1, <1>a, <1>c
  <1>3. \A i \in 1..(Len(s) - 1) : r[i] = s[At(i)]
    <2> SUFFICES ASSUME NEW i \in 1..(Len(s) - 1) PROVE r[i] = s[At(i)]
      OBVIOUS
    <2>1. CASE i < k
      BY <1>0, <1>1, <1>a, <1>c, <2>1
    <2>2. CASE ~(i < k)
      <3>1. i - (k - 1) \in 1..(Len(s) - k) /\ i - (k - 1) + k = i + 1
        BY <1>0, <2>2
      <3>2. r[i] = b[i - (k - 1)]
        BY <1>0, <1>1, <1>a, <1>c, <2>2
      <3> QED
        BY <1>a, <2>2, <3>1, <3>2
    <2> QED
      BY <2>1, <2>2
  <1>4. ASSUME IsInjective(s)
        PROVE  ToSet(r) = ToSet(s) \ {s[k]} /\ IsInjective(r)
    <2>1. \A i \in DOMAIN r : At(i) \in DOMAIN s /\ At(i) # k /\ i \in Int
      BY <1>0, <1>2
    <2>2. ASSUME NEW y \in ToSet(r) PROVE y \in ToSet(s) \ {s[k]}
      <3>1. PICK i \in DOMAIN r : y = r[i]
        BY DEF ToSet
      <3>2. y = s[At(i)] /\ At(i) \in DOMAIN s /\ At(i) # k
        BY <1>2, <1>3, <2>1, <3>1
      <3> QED
        BY <1>4, <3>2 DEF ToSet, IsInjective
    <2>3. ASSUME NEW y \in ToSet(s) \ {s[k]} PROVE y \in ToSet(r)
      <3>1. PICK j \in DOMAIN s : y = s[j] /\ j # k
        BY DEF ToSet
      <3>2. \E i \in DOMAIN r : At(i) = j
        <4>1. CASE j < k
          BY <1>0, <1>2, <4>1
        <4>2. CASE ~(j < k)
          <5>1. j - 1 \in DOMAIN r /\ At(j - 1) = j
            BY <1>0, <1>2, <3>1, <4>2
          <5> QED
            BY <5>1
        <4> QED
          BY <4>1, <4>2
      <3> QED
        BY <1>2, <1>3, <3>1, <3>2 DEF ToSet
    <2>4. ASSUME NEW i \in DOMAIN r, NEW j \in DOMAIN r, r[i] = r[j] PROVE i = j
      <3>1. At(i) = At(j)
        BY <1>2, <1>3, <1>4, <2>1, <2>4 DEF IsInjective
      <3> QED
        BY <2>1, <3>1, <1>0
    <2> QED
      BY <2>2, <2>3, <2>4 DEF IsInjective
  <1> QED
    BY <1>2, <1>4 DEF r

-----------------------------------------------------------------------------
(* Entering and leaving wait(). *)

FibersIn(c) == {p \in Fibers : on[p] = c}
ThreadsIn(c) == {p \in Outside : on[p] = c}

Counted(c) ==
  /\ waitingNum[c] = Len(waiting[c]) + Cardinality(ThreadsIn(c))
  /\ ToSet(waiting[c]) = FibersIn(c)
  /\ IsInjective(waiting[c])

LEMMA CountedIs ==
    /\ WaitersCounted <=> \A c \in Cvs : Counted(c)
    /\ (WaitersCounted <=> \A c \in Cvs : Counted(c))'
  BY DEF WaitersCounted, Counted, FibersIn, ThreadsIn

LEMMA ThreadsFinite ==
  ASSUME NEW c PROVE IsFiniteSet(ThreadsIn(c)) /\ Cardinality(ThreadsIn(c)) \in Nat
  BY CvAssumption, FS_Subset, FS_CardinalityType DEF ThreadsIn

\* The part of CvTypeOK that wait() changes.
ListsTyped ==
  /\ waiting \in [Cvs -> Seq(Fibers)]
  /\ waitingNum \in [Cvs -> Nat]
  /\ on \in [Processes -> Cvs \cup {Nowhere}]

LEMMA ListsKept ==
  ASSUME UNCHANGED <<on, waiting, waitingNum>>, ListsTyped, WaitersCounted
  PROVE  ListsTyped' /\ WaitersCounted'
  <1>1. ASSUME NEW c \in Cvs PROVE Counted(c)'
    <2>1. FibersIn(c)' = FibersIn(c) /\ ThreadsIn(c)' = ThreadsIn(c)
      BY DEF FibersIn, ThreadsIn
    <2> QED
      BY <2>1, CountedIs DEF Counted
  <1> QED
    BY <1>1, CountedIs DEF ListsTyped

LEMMA EnterCounted ==
  ASSUME ListsTyped, WaitersCounted, NEW p \in Processes, NEW c \in Cvs, Enter(p, c)
  PROVE  /\ ListsTyped' /\ WaitersCounted'
         /\ on' = [on EXCEPT ![p] = c] /\ on[p] \in {c, Nowhere}
  <1> USE CvAssumption DEF ListsTyped, Processes
  <1>1. CASE on[p] = c /\ UNCHANGED <<on, waiting, waitingNum>>
    BY <1>1, ListsKept
  <1>2. CASE /\ on[p] = Nowhere
             /\ on' = [on EXCEPT ![p] = c]
             /\ waitingNum' = [waitingNum EXCEPT ![c] = @ + 1]
             /\ waiting' = IF p \in Fibers THEN [waiting EXCEPT ![c] = <<p>> \o @] ELSE waiting
    <2>1. ASSUME NEW d \in Cvs, d # c PROVE Counted(d)'
      <3>1. FibersIn(d)' = FibersIn(d) /\ ThreadsIn(d)' = ThreadsIn(d)
        BY <1>2, <2>1 DEF FibersIn, ThreadsIn
      <3> QED
        BY <1>2, <2>1, <3>1, CountedIs DEF Counted
    <2>2. CASE p \in Fibers
      <3>1. /\ waiting'[c] = <<p>> \o waiting[c] /\ waiting[c] \in Seq(Fibers)
            /\ waitingNum'[c] = waitingNum[c] + 1
        BY <1>2, <2>2
      <3>2. FibersIn(c)' = FibersIn(c) \cup {p} /\ ThreadsIn(c)' = ThreadsIn(c)
            /\ p \notin FibersIn(c)
        BY <1>2, <2>2 DEF FibersIn, ThreadsIn
      <3>3. /\ waiting'[c] \in Seq(Fibers) /\ Len(waiting'[c]) = Len(waiting[c]) + 1
            /\ ToSet(waiting'[c]) = ToSet(waiting[c]) \cup {p}
            /\ IsInjective(waiting[c]) /\ p \notin ToSet(waiting[c])
                   => IsInjective(waiting'[c])
        BY <2>2, <3>1, InFront
      <3>4. Counted(c)'
        <4>1. waitingNum[c] = Len(waiting[c]) + Cardinality(ThreadsIn(c))
              /\ Len(waiting[c]) \in Nat /\ Cardinality(ThreadsIn(c)) \in Nat
          BY <3>1, CountedIs, ThreadsFinite DEF Counted
        <4>2. waitingNum'[c] = Len(waiting'[c]) + Cardinality(ThreadsIn(c)')
          BY <3>1, <3>2, <3>3, <4>1
        <4> QED
          BY <3>2, <3>3, <4>2, CountedIs DEF Counted
      <3>5. ListsTyped'
        BY <1>2, <2>2, <3>1, <3>3
      <3> QED
        BY <1>2, <2>1, <3>4, <3>5, CountedIs
    <2>3. CASE p \notin Fibers
      <3>1. UNCHANGED waiting /\ waitingNum'[c] = waitingNum[c] + 1 /\ p \in Outside
        BY <1>2, <2>3
      <3>2. FibersIn(c)' = FibersIn(c) /\ ThreadsIn(c)' = ThreadsIn(c) \cup {p}
            /\ p \notin ThreadsIn(c)
        BY <1>2, <2>3, <3>1 DEF FibersIn, ThreadsIn
      <3>3. Cardinality(ThreadsIn(c)') = Cardinality(ThreadsIn(c)) + 1
        BY <3>2, ThreadsFinite, FS_AddElement
      <3>4. Counted(c)'
        <4>1. waitingNum[c] = Len(waiting[c]) + Cardinality(ThreadsIn(c))
              /\ Len(waiting[c]) \in Nat /\ Cardinality(ThreadsIn(c)) \in Nat
          BY CountedIs, ThreadsFinite DEF Counted
        <4>2. waitingNum'[c] = Len(waiting'[c]) + Cardinality(ThreadsIn(c)')
          BY <3>1, <3>3, <4>1
        <4> QED
          BY <3>1, <3>2, <4>2, CountedIs DEF Counted
      <3> QED
        BY <1>2, <2>1, <3>1, <3>4, CountedIs
    <2> QED
      BY <2>2, <2>3, <1>2
  <1> QED
    BY <1>1, <1>2 DEF Enter

LEMMA ExitCounted ==
  ASSUME ListsTyped, WaitersCounted, NEW p \in Processes, Exit(p)
  PROVE  ListsTyped' /\ WaitersCounted' /\ on' = [on EXCEPT ![p] = Nowhere]
  <1> USE CvAssumption DEF ListsTyped, Processes
  <1>1. CASE on[p] = Nowhere /\ UNCHANGED <<on, waiting, waitingNum>>
    BY <1>1, ListsKept
  <1>2. CASE on[p] # Nowhere
    <2> DEFINE c == on[p]
    <2>0. PICK d \in Cvs : d = on[p]
      BY <1>2
    <2>1. /\ on' = [on EXCEPT ![p] = Nowhere]
          /\ waitingNum' = [waitingNum EXCEPT ![d] = @ - 1]
          /\ \/ p \in Outside /\ UNCHANGED waiting
             \/ \E i \in DOMAIN waiting[d] :
                  /\ waiting[d][i] = p
                  /\ waiting' = [waiting EXCEPT ![d] = RemoveAt(@, i)]
      BY <1>2, <2>0 DEF Exit
    <2>2. ASSUME NEW e \in Cvs, e # d PROVE Counted(e)'
      <3>1. FibersIn(e)' = FibersIn(e) /\ ThreadsIn(e)' = ThreadsIn(e)
        BY <2>0, <2>1, <2>2 DEF FibersIn, ThreadsIn
      <3> QED
        BY <2>1, <2>2, <3>1, CountedIs DEF Counted
    <2>3. /\ waitingNum[d] = Len(waiting[d]) + Cardinality(ThreadsIn(d))
          /\ Len(waiting[d]) \in Nat /\ Cardinality(ThreadsIn(d)) \in Nat
          /\ waitingNum'[d] = waitingNum[d] - 1
      BY <2>1, CountedIs, ThreadsFinite DEF Counted
    <2>4. CASE p \in Outside /\ UNCHANGED waiting
      <3>1. FibersIn(d)' = FibersIn(d) /\ ThreadsIn(d)' = ThreadsIn(d) \ {p}
            /\ p \in ThreadsIn(d)
        BY <2>0, <2>1, <2>4 DEF FibersIn, ThreadsIn
      <3>2. Cardinality(ThreadsIn(d)') = Cardinality(ThreadsIn(d)) - 1
            /\ Cardinality(ThreadsIn(d)') \in Nat
        BY <3>1, ThreadsFinite, FS_RemoveElement, FS_CardinalityType
      <3>3. Counted(d)'
        <4>1. waitingNum'[d] = Len(waiting'[d]) + Cardinality(ThreadsIn(d)')
          BY <2>3, <2>4, <3>2
        <4> QED
          BY <2>4, <3>1, <4>1, CountedIs DEF Counted
      <3>4. waitingNum'[d] \in Nat
        BY <2>3, <3>2
      <3> QED
        BY <2>1, <2>2, <2>4, <3>3, <3>4, CountedIs
    <2>5. ASSUME NEW i \in DOMAIN waiting[d], waiting[d][i] = p,
                 waiting' = [waiting EXCEPT ![d] = RemoveAt(@, i)]
          PROVE  ListsTyped' /\ WaitersCounted'
      <3>1. waiting[d] \in Seq(Fibers) /\ p \in Fibers /\ p \notin Outside
        BY <2>5
      <3>2. FibersIn(d)' = FibersIn(d) \ {p} /\ ThreadsIn(d)' = ThreadsIn(d)
        BY <2>0, <2>1, <3>1 DEF FibersIn, ThreadsIn
      <3>3. /\ waiting'[d] \in Seq(Fibers) /\ Len(waiting'[d]) = Len(waiting[d]) - 1
            /\ IsInjective(waiting[d]) => /\ ToSet(waiting'[d]) = ToSet(waiting[d]) \ {p}
                                          /\ IsInjective(waiting'[d])
        BY <2>5, <3>1, Erased
      <3>4. Len(waiting'[d]) \in Nat
        BY <3>3
      <3>5. Counted(d)'
        <4>1. waitingNum'[d] = Len(waiting'[d]) + Cardinality(ThreadsIn(d)')
          BY <2>3, <3>2, <3>3
        <4> QED
          BY <3>2, <3>3, <4>1, CountedIs DEF Counted
      <3>6. waitingNum'[d] \in Nat
        BY <2>3, <3>3, <3>4
      <3> QED
        BY <2>1, <2>2, <2>5, <3>3, <3>5, <3>6, CountedIs
    <2> QED
      BY <2>1, <2>4, <2>5
  <1> QED
    BY <1>1, <1>2 DEF Exit

-----------------------------------------------------------------------------
(* The invariant. *)

FrameSet == [event : Events, left : Seq({AnyEvent})]

FramesTyped == frames \in [Processes -> Seq(FrameSet)]

\* Where a process is tells what it waits on, how it waits, and what is on its stack.
CallPlaces ==
  \A p \in Processes :
    /\ on[p] # Nowhere <=> at[p] \in {"asleep", "check"}
    /\ status[p] # "running" <=> at[p] = "asleep"
    /\ frames[p] # <<>> <=> at[p] = "signal"

\* Who holds which mutex: nobody takes one from under a call.
Holds(p) ==
  /\ at[p] = "check" => lock[on[p]] = p
  /\ at[p] = "anyPush" => lock[Listed[built + 1]] = p
  /\ \A i \in DOMAIN frames[p] : lock[frames[p][i].event] = p
  /\ \A i, j \in DOMAIN frames[p] : frames[p][i].event = frames[p][j].event => i = j

MutexHeld == \A p \in Processes : Holds(p)

\* One process at a time builds the event of any(), which nobody waits for yet.
Builds(p) == at[p] \in {"any", "anyPush"}

OneBuilds ==
  /\ \A p \in Processes : Builds(p) => built < Len(Listed)
  /\ \A p, q \in Processes : Builds(p) /\ Builds(q) => p = q

Unused == built < Len(Listed) => \A p \in Processes : on[p] # AnyEvent

\* Who is suspended on an event that is signalled is suspended on an Auto event that
\* another process is about to take: it was notified, or evaluates the event already.
Unmissed ==
  \A e \in Events : signalled[e] /\ Suspended(e) # {} =>
      /\ e \in AutoEvents
      /\ \E p \in Processes : on[p] = e /\ status[p] # "suspended"

\* An event that any() has been through is derived from; when it is signalled, the
\* event of any() was signalled, or the signal() of it has that yet to do.
Derives(e) ==
  \E p \in Processes : \E i \in DOMAIN frames[p] :
      frames[p][i].event = e /\ frames[p][i].left # <<>>

Derived ==
  /\ \A i \in 1..built : deps[Listed[i]] # <<>>
  /\ signalled[AnyEvent] => raises[AnyEvent] > 0
  /\ \A i \in 1..built : signalled[Listed[i]] =>
         raises[AnyEvent] > 0 \/ Derives(Listed[i])

IInv ==
  /\ TypeOK /\ FramesTyped /\ Counters
  /\ WaitersCounted /\ CallPlaces /\ MutexHeld /\ OneBuilds /\ Unused
  /\ Unmissed /\ Derived

LEMMA InitIInv == Init => IInv
  <1> SUFFICES ASSUME Init PROVE IInv
    OBVIOUS
  <1> USE EventAssumption, CvAssumption DEF Init, CvInit, Processes
  <1>1. TypeOK /\ FramesTyped /\ Counters
    BY DEF TypeOK, CvTypeOK, FramesTyped, Counters
  <1>2. WaitersCounted
    <2>1. ASSUME NEW c \in Cvs PROVE Counted(c)
      <3>1. FibersIn(c) = {} /\ ThreadsIn(c) = {} /\ ToSet(waiting[c]) = {}
        BY DEF FibersIn, ThreadsIn, ToSet
      <3> QED
        BY <3>1, FS_EmptySet DEF Counted, IsInjective
    <2> QED
      BY <2>1, CountedIs
  <1>3. CallPlaces
    BY DEF CallPlaces
  <1>4. MutexHeld
    BY DEF MutexHeld, Holds
  <1>5. OneBuilds /\ Unused
    BY DEF OneBuilds, Unused, Builds, Events
  <1>6. Unmissed /\ Derived
    BY DEF Unmissed, Derived
  <1> QED
    BY <1>1, <1>2, <1>3, <1>4, <1>5, <1>6 DEF IInv

-----------------------------------------------------------------------------
(* What the parts of an action do. *)

\* notify_one() and notify_all() change suspended processes into ready ones only.
LEMMA NotifyStatus ==
  ASSUME CvTypeOK, NEW e \in Events, Notify(e)
  PROVE  /\ status' \in [Processes -> {"running", "suspended", "ready"}]
         /\ \A p \in Processes : \/ status'[p] = status[p]
                                 \/ status[p] = "suspended" /\ status'[p] = "ready"
  <1> USE DEF CvTypeOK, Notified, Processes, Events
  <1>1. CASE NotifyOne(e)
    <2>1. CASE waiting[e] # <<>>
      <3>1. Head(waiting[e]) \in Fibers
        BY <2>1
      <3> QED
        BY <1>1, <2>1, <3>1 DEF NotifyOne
    <2>2. CASE waiting[e] = <<>>
      BY <1>1, <2>2 DEF NotifyOne
    <2> QED
      BY <2>1, <2>2
  <1>2. CASE NotifyAll(e)
    BY <1>2 DEF NotifyAll
  <1> QED
    BY <1>1, <1>2 DEF Notify

\* The element on top of a stack.
LEMMA TopOf ==
  ASSUME NEW S, NEW s \in Seq(S), s # <<>>
  PROVE  /\ Last(s) \in S /\ Last(s) = s[Len(s)] /\ Len(s) \in DOMAIN s
         /\ Front(s) \in Seq(S) /\ Len(Front(s)) = Len(s) - 1
         /\ \A i \in 1..(Len(s) - 1) : Front(s)[i] = s[i]
  <1>1. Len(s) \in Nat \ {0} /\ DOMAIN s = 1..Len(s) /\ s[Len(s)] \in S
    OBVIOUS
  <1>2. \A i \in 1..(Len(s) - 1) : s[i] \in S
    OBVIOUS
  <1> DEFINE r == SubSeq(s, 1, Len(s) - 1)
  <1>3. /\ r \in Seq(S) /\ Len(r) = Len(s) - 1
        /\ \A i \in 1..(Len(s) - 1) : r[i] = s[i]
    BY <1>1, <1>2, SubSeqProperties
  <1> QED
    BY <1>1, <1>3 DEF Last, Front

\* signal() goes on to the next derived event, which is the one of any().
LEMMA NextDep ==
  ASSUME FramesTyped, CallPlaces, NEW p \in Processes, at[p] = "signal", Top(p).left # <<>>,
         NEW rest,
         rest = Append(Front(frames[p]), [Top(p) EXCEPT !.left = Tail(@)])
  PROVE  /\ Head(Top(p).left) = AnyEvent
         /\ rest \in Seq(FrameSet) /\ Len(rest) = Len(frames[p])
         /\ \A i \in DOMAIN frames[p] : rest[i].event = frames[p][i].event
  <1> DEFINE s == frames[p]
  <1>1. s \in Seq(FrameSet) /\ s # <<>>
    BY DEF FramesTyped, CallPlaces
  <1>2. /\ Top(p) \in FrameSet /\ Top(p) = s[Len(s)]
        /\ Front(s) \in Seq(FrameSet) /\ Len(Front(s)) = Len(s) - 1
        /\ \A i \in 1..(Len(s) - 1) : Front(s)[i] = s[i]
    BY <1>1, TopOf DEF Top
  <1>3. Head(Top(p).left) = AnyEvent /\ Tail(Top(p).left) \in Seq({AnyEvent})
    BY <1>2 DEF FrameSet
  <1> DEFINE t == [Top(p) EXCEPT !.left = Tail(@)]
  <1>4. t \in FrameSet /\ t.event = Top(p).event
    BY <1>2, <1>3 DEF FrameSet
  <1> HIDE DEF s, t
  <1>5. /\ rest \in Seq(FrameSet) /\ Len(rest) = Len(s)
        /\ \A i \in 1..(Len(s) - 1) : rest[i] = s[i]
        /\ rest[Len(s)] = t /\ DOMAIN s = 1..Len(s) /\ Len(s) \in Nat
    BY <1>1, <1>2, <1>4 DEF s, t
  <1>6. ASSUME NEW i \in DOMAIN s PROVE rest[i].event = s[i].event
    <2>1. CASE i = Len(s)
      BY <1>2, <1>4, <1>5, <2>1
    <2>2. CASE i # Len(s)
      BY <1>5, <2>2
    <2> QED
      BY <2>1, <2>2
  <1> QED
    BY <1>3, <1>5, <1>6 DEF s

\* p evaluates the event e, with the mutex of it.
LEMMA EvaluateTyped ==
  ASSUME TypeOK, WaitersCounted, NEW p \in Processes, NEW e \in Events, Evaluate(p, e)
  PROVE  /\ CvTypeOK' /\ WaitersCounted' /\ lock' = [lock EXCEPT ![e] = Nobody]
         /\ signalled' \in [Events -> BOOLEAN]
         /\ at' \in [Processes -> {"idle", "check", "asleep", "signal", "any", "anyPush"}]
  <1> USE DEF TypeOK, CvTypeOK, Events
  <1>1. ListsTyped /\ lock' = [lock EXCEPT ![e] = Nobody]
    BY DEF ListsTyped, Evaluate, Sleep, Unlocks
  <1>2. CASE Exit(p) /\ Consume(e) /\ Goto(p, "idle") /\ UNCHANGED status
    <2>1. ListsTyped' /\ WaitersCounted'
      BY <1>1, <1>2, ExitCounted
    <2> QED
      BY <1>1, <1>2, <2>1 DEF ListsTyped, Consume, Goto
  <1>3. CASE Enter(p, e) /\ Sleep(p, e) /\ Goto(p, "asleep") /\ UNCHANGED signalled
    <2>1. ListsTyped' /\ WaitersCounted'
      BY <1>1, <1>3, EnterCounted
    <2> QED
      BY <1>1, <1>3, <2>1 DEF ListsTyped, Sleep, Goto
  <1> QED
    BY <1>2, <1>3 DEF Evaluate

-----------------------------------------------------------------------------
(* Types, call places and mutexes, one step per action. *)

Structure ==
  /\ TypeOK /\ FramesTyped /\ WaitersCounted
  /\ CallPlaces /\ MutexHeld /\ OneBuilds /\ Unused

\* Types of a step that leaves the lists alone.
LEMMA ListsStay ==
  ASSUME TypeOK, WaitersCounted, UNCHANGED <<on, waiting, waitingNum>>,
         lock' \in [Cvs -> Processes \cup {Nobody}],
         status' \in [Processes -> {"running", "suspended", "ready"}]
  PROVE  CvTypeOK' /\ WaitersCounted'
  <1>1. ListsTyped
    BY DEF TypeOK, CvTypeOK, ListsTyped
  <1> QED
    BY <1>1, ListsKept DEF CvTypeOK, TypeOK, ListsTyped

\* A step that leaves the processes where they are.
LEMMA PlacesStay ==
  ASSUME IInv, UNCHANGED <<lock, on, status, at, frames, built>>
  PROVE  CallPlaces' /\ MutexHeld' /\ OneBuilds' /\ Unused'
  BY DEF IInv, CallPlaces, MutexHeld, Holds, OneBuilds, Unused, Builds

\* A process that a step passes by keeps the mutexes that it holds.
LEMMA StillHolds ==
  ASSUME IInv, NEW q \in Processes,
         at'[q] = at[q], on'[q] = on[q], frames'[q] = frames[q],
         at[q] = "anyPush" => built' = built,
         \A c \in Cvs : lock[c] = q => lock'[c] = q
  PROVE  Holds(q)'
  <1>1. Holds(q)
    BY DEF IInv, MutexHeld
  <1>2. at[q] = "check" => on[q] \in Cvs
    BY DEF IInv, CallPlaces, TypeOK, CvTypeOK
  <1>3. at[q] = "anyPush" => Listed[built + 1] \in Cvs
    BY EventAssumption DEF IInv, OneBuilds, Builds, TypeOK, Events
  <1>4. \A i \in DOMAIN frames[q] : frames[q][i].event \in Cvs
    <2>1. frames[q] \in Seq(FrameSet)
      BY DEF IInv, FramesTyped
    <2>2. \A i \in DOMAIN frames[q] : frames[q][i] \in FrameSet
      BY <2>1
    <2> QED
      BY <2>2 DEF FrameSet, Events
  <1> QED
    BY <1>1, <1>2, <1>3, <1>4 DEF Holds

LEMMA EvaluateStructure ==
  ASSUME IInv, NEW p \in Processes, NEW e \in Events, Evaluate(p, e),
         UNCHANGED <<deps, frames, built>>, calls' \in 0..MaxCalls,
         \/ at[p] = "idle" /\ lock[e] = Nobody /\ Usable(e)
         \/ at[p] = "check" /\ on[p] = e
  PROVE  Structure'
  <1> USE CvAssumption DEF IInv, Events
  <1>0. TypeOK /\ CvTypeOK
    BY DEF TypeOK
  <1>1. /\ CvTypeOK' /\ WaitersCounted' /\ lock' = [lock EXCEPT ![e] = Nobody]
        /\ signalled' \in [Events -> BOOLEAN]
        /\ at' \in [Processes -> {"idle", "check", "asleep", "signal", "any", "anyPush"}]
    BY EvaluateTyped
  <1>2. TypeOK' /\ FramesTyped'
    BY <1>1 DEF TypeOK, FramesTyped
  <1>3. /\ status[p] = "running" /\ frames[p] = <<>> /\ ~Builds(p)
        /\ lock[e] = Nobody \/ lock[e] = p
    BY DEF CallPlaces, MutexHeld, Holds, Builds
  <1>4. \/ /\ on' = [on EXCEPT ![p] = Nowhere] /\ at' = [at EXCEPT ![p] = "idle"]
           /\ UNCHANGED status
        \/ /\ on' = [on EXCEPT ![p] = e] /\ at' = [at EXCEPT ![p] = "asleep"]
           /\ status' = [status EXCEPT ![p] = "suspended"]
    <2>1. ListsTyped
      BY <1>0 DEF ListsTyped, CvTypeOK
    <2>2. ASSUME Exit(p) PROVE on' = [on EXCEPT ![p] = Nowhere]
      BY <2>1, <2>2, ExitCounted
    <2>3. ASSUME Enter(p, e) PROVE on' = [on EXCEPT ![p] = e]
      BY <2>1, <2>3, EnterCounted
    <2> QED
      BY <2>2, <2>3 DEF Evaluate, Sleep, Goto
  <1>5. CallPlaces'
    BY <1>0, <1>3, <1>4 DEF CallPlaces, TypeOK, CvTypeOK
  <1>6. \A q \in Processes : q # p => on'[q] = on[q] /\ at'[q] = at[q] /\ at'[p] # "check"
    BY <1>0, <1>4 DEF TypeOK, CvTypeOK
  <1>7. MutexHeld'
    <2>1. Holds(p)'
      <3>1. at'[p] \notin {"check", "anyPush"}
        BY <1>0, <1>4 DEF TypeOK
      <3> QED
        BY <1>3, <3>1 DEF Holds
    <2>2. ASSUME NEW q \in Processes, q # p PROVE Holds(q)'
      <3>1. \A c : lock[c] = q => lock'[c] = q
        BY <1>0, <1>1, <1>3, <2>2 DEF CvTypeOK
      <3> QED
        BY <1>6, <2>2, <3>1, StillHolds
    <2> QED
      BY <2>1, <2>2 DEF MutexHeld
  <1>8. OneBuilds'
    <2>1. \A q \in Processes : Builds(q)' => Builds(q)
      BY <1>0, <1>4 DEF Builds, TypeOK
    <2> QED
      BY <2>1 DEF OneBuilds
  <1>9. Unused'
    <2> SUFFICES ASSUME built < Len(Listed), NEW q \in Processes PROVE on'[q] # AnyEvent
      BY DEF Unused
    <2>1. on[q] # AnyEvent /\ on \in [Processes -> Cvs \cup {Nowhere}] /\ AnyEvent # Nowhere
      BY <1>0, EventAssumption DEF Unused, CvTypeOK
    <2>2. built \in Int /\ Len(Listed) \in Int
      BY <1>0, EventAssumption DEF TypeOK
    <2>3. e # AnyEvent
      BY <2>2 DEF Usable, Unused
    <2> QED
      BY <1>4, <2>1, <2>3
  <1> QED
    BY <1>1, <1>2, <1>5, <1>7, <1>8, <1>9 DEF Structure

\* p raises the signal of e, and has the mutex of it from here on.
LEMMA RaiseMutex ==
  ASSUME IInv, NEW p \in Processes, NEW e \in Events, Raise(p, e)
  PROVE  /\ lock[e] = Nobody /\ lock' = [lock EXCEPT ![e] = p]
         /\ lock' \in [Cvs -> Processes \cup {Nobody}]
         /\ status' \in [Processes -> {"running", "suspended", "ready"}]
         /\ \A q \in Processes : \/ status'[q] = status[q]
                                 \/ status[q] = "suspended" /\ status'[q] = "ready"
         /\ signalled' \in [Events -> BOOLEAN]
         /\ \A q \in Processes, c \in Cvs : lock[c] = q => c # e /\ lock'[c] = q
  <1>1. CvTypeOK /\ signalled \in [Events -> BOOLEAN]
    BY DEF IInv, TypeOK
  <1> QED
    BY <1>1, NotifyStatus, CvAssumption DEF Raise, Locks, CvTypeOK, Events

LEMMA SignalStructure ==
  ASSUME IInv, NEW p \in Processes, NEW e \in Events, Signal(p, e)
  PROVE  Structure'
  <1> USE CvAssumption DEF IInv, Events
  <1>0. TypeOK /\ CvTypeOK
    BY DEF TypeOK
  <1>1. /\ at[p] = "idle" /\ calls' \in 0..MaxCalls /\ Raise(p, e)
        /\ frames' = [frames EXCEPT ![p] = <<Frame(e)>>]
        /\ at' = [at EXCEPT ![p] = "signal"]
        /\ UNCHANGED <<waiting, waitingNum, on, deps, built, grants>>
    BY <1>0, EventAssumption DEF Signal, Calls, Goto, TypeOK
  <1>2. Frame(e) \in FrameSet /\ Frame(e).event = e
    BY <1>0 DEF Frame, FrameSet, TypeOK
  <1>3. FramesTyped'
    BY <1>1, <1>2 DEF FramesTyped
  <1>4. CvTypeOK' /\ WaitersCounted'
    BY <1>0, <1>1, RaiseMutex, ListsStay
  <1>5. TypeOK'
    BY <1>0, <1>1, <1>4, RaiseMutex DEF TypeOK
  <1>6. CallPlaces'
    <2>1. frames'[p] # <<>> /\ \A q \in Processes : q # p => frames'[q] = frames[q]
      BY <1>1 DEF FramesTyped
    <2>2. at'[p] = "signal" /\ \A q \in Processes : q # p => at'[q] = at[q]
      BY <1>0, <1>1 DEF TypeOK
    <2>3. on[p] = Nowhere /\ status'[p] = "running"
      BY <1>1, RaiseMutex DEF CallPlaces
    <2>4. \A q \in Processes : status'[q] # "running" <=> status[q] # "running"
      BY <1>1, RaiseMutex
    <2> QED
      BY <1>1, <2>1, <2>2, <2>3, <2>4 DEF CallPlaces
  <1>7. MutexHeld'
    <2>1. Holds(p)'
      <3>1. frames'[p] = <<Frame(e)>> /\ at'[p] = "signal" /\ lock'[e] = p
        BY <1>0, <1>1, RaiseMutex DEF FramesTyped, TypeOK, CvTypeOK
      <3> QED
        BY <1>2, <3>1 DEF Holds
    <2>2. ASSUME NEW q \in Processes, q # p PROVE Holds(q)'
      <3>1. frames'[q] = frames[q] /\ at'[q] = at[q]
        BY <1>0, <1>1, <2>2 DEF FramesTyped, TypeOK
      <3> QED
        BY <1>1, <3>1, RaiseMutex, StillHolds
    <2> QED
      BY <2>1, <2>2 DEF MutexHeld
  <1>8. OneBuilds' /\ Unused'
    BY <1>0, <1>1 DEF OneBuilds, Unused, Builds, TypeOK
  <1> QED
    BY <1>3, <1>4, <1>5, <1>6, <1>7, <1>8 DEF Structure

LEMMA SignalDepStructure ==
  ASSUME IInv, NEW p \in Processes, SignalDep(p)
  PROVE  Structure'
  <1> USE CvAssumption, EventAssumption DEF IInv, Events
  <1>0. TypeOK /\ CvTypeOK
    BY DEF TypeOK
  <1>1. PICK rest : rest = Append(Front(frames[p]), [Top(p) EXCEPT !.left = Tail(@)])
    OBVIOUS
  <1>2. /\ at[p] = "signal" /\ Head(Top(p).left) = AnyEvent
        /\ rest \in Seq(FrameSet) /\ Len(rest) = Len(frames[p])
        /\ \A i \in DOMAIN frames[p] : rest[i].event = frames[p][i].event
    <2>1. at[p] = "signal" /\ Top(p).left # <<>>
      BY DEF SignalDep
    <2> QED
      BY <1>1, <2>1, NextDep
  <1>3. UNCHANGED <<waiting, waitingNum, on, deps, at, built, calls>>
    BY DEF SignalDep
  <1>4. /\ frames[p] \in Seq(FrameSet) /\ frames[p] # <<>>
        /\ DOMAIN frames[p] = DOMAIN rest /\ DOMAIN rest = 1..Len(rest)
        /\ Len(rest) \in Nat \ {0}
    BY <1>2 DEF FramesTyped, CallPlaces
  <1>5. Holds(p) /\ on[p] = Nowhere
    BY <1>2 DEF MutexHeld, CallPlaces
  <1>6. CASE /\ Raise(p, AnyEvent)
             /\ frames' = [frames EXCEPT ![p] = Append(rest, Frame(AnyEvent))]
    <2>0. PICK top : top = Frame(AnyEvent)
      OBVIOUS
    <2>1. top \in FrameSet /\ top.event = AnyEvent
      BY <1>0, <2>0 DEF Frame, FrameSet, TypeOK
    <2>2. FramesTyped'
      BY <1>2, <1>6, <2>0, <2>1 DEF FramesTyped
    <2>3. CvTypeOK' /\ WaitersCounted'
      BY <1>0, <1>3, <1>6, RaiseMutex, ListsStay
    <2>4. TypeOK'
      BY <1>0, <1>3, <1>6, <2>3, RaiseMutex DEF TypeOK
    <2>5. /\ frames'[p] = Append(rest, top) /\ frames'[p] # <<>>
          /\ \A q \in Processes : q # p => frames'[q] = frames[q]
      BY <1>2, <1>6, <2>0, <2>1 DEF FramesTyped
    <2>6. CallPlaces'
      <3>1. \A q \in Processes : status'[q] # "running" <=> status[q] # "running"
        BY <1>6, RaiseMutex
      <3> QED
        BY <1>2, <1>3, <2>5, <3>1 DEF CallPlaces
    <2>7. Holds(p)'
      <3>1. PICK s : s = frames'[p]
        OBVIOUS
      <3>2. /\ DOMAIN s = 1..(Len(rest) + 1) /\ s[Len(rest) + 1] = top
            /\ \A i \in 1..Len(rest) : s[i] = rest[i]
        BY <1>2, <2>1, <2>5, <3>1
      <3>3. \A i \in 1..Len(rest) : lock[s[i].event] = p /\ s[i].event \in Cvs
        <4>1. \A i \in DOMAIN frames[p] : frames[p][i] \in FrameSet
          BY <1>4
        <4>2. \A i \in DOMAIN frames[p] : frames[p][i].event \in Cvs
          BY <4>1 DEF FrameSet
        <4>3. \A i \in DOMAIN frames[p] : lock[frames[p][i].event] = p
          BY <1>5 DEF Holds
        <4> QED
          BY <1>2, <1>4, <3>2, <4>2, <4>3
      <3>4. \A i \in 1..Len(rest) : s[i].event # AnyEvent /\ lock'[s[i].event] = p
        BY <1>6, <3>3, RaiseMutex
      <3>5. lock'[AnyEvent] = p
        BY <1>0, <1>6, RaiseMutex DEF CvTypeOK
      <3>6. \A i \in DOMAIN s : i = Len(rest) + 1 \/ i \in 1..Len(rest)
        BY <1>4, <3>2
      <3>7. \A i \in DOMAIN s : lock'[s[i].event] = p
        BY <2>1, <3>2, <3>4, <3>5, <3>6
      <3>8. ASSUME NEW i \in DOMAIN s, NEW j \in DOMAIN s, s[i].event = s[j].event
            PROVE  i = j
        <4>1. CASE i \in 1..Len(rest) /\ j \in 1..Len(rest)
          BY <1>2, <1>4, <1>5, <3>2, <3>8, <4>1 DEF Holds
        <4> QED
          BY <2>1, <3>2, <3>4, <3>6, <3>8, <4>1
      <3> QED
        BY <1>2, <1>3, <3>1, <3>7, <3>8 DEF Holds
    <2>8. ASSUME NEW q \in Processes, q # p PROVE Holds(q)'
      BY <1>3, <1>6, <2>5, <2>8, RaiseMutex, StillHolds
    <2>9. OneBuilds' /\ Unused'
      BY <1>3 DEF OneBuilds, Unused, Builds
    <2> QED
      BY <2>2, <2>3, <2>4, <2>6, <2>7, <2>8, <2>9 DEF Structure, MutexHeld
  <1>7. CASE /\ frames' = [frames EXCEPT ![p] = rest]
             /\ UNCHANGED <<lock, signalled, raises, status>>
    <2>1. FramesTyped'
      BY <1>2, <1>7 DEF FramesTyped
    <2>2. CvTypeOK' /\ WaitersCounted'
      BY <1>0, <1>3, <1>7, ListsStay DEF CvTypeOK
    <2>3. TypeOK'
      BY <1>0, <1>3, <1>7, <2>2 DEF TypeOK
    <2>4. /\ frames'[p] = rest /\ frames'[p] # <<>>
          /\ \A q \in Processes : q # p => frames'[q] = frames[q]
      BY <1>2, <1>4, <1>7 DEF FramesTyped
    <2>5. CallPlaces'
      BY <1>2, <1>3, <1>7, <2>4 DEF CallPlaces
    <2>6. Holds(p)'
      BY <1>2, <1>3, <1>4, <1>5, <1>7, <2>4 DEF Holds
    <2>7. ASSUME NEW q \in Processes, q # p PROVE Holds(q)'
      BY <1>3, <1>7, <2>4, <2>7, StillHolds
    <2>8. OneBuilds' /\ Unused'
      BY <1>3 DEF OneBuilds, Unused, Builds
    <2> QED
      BY <2>1, <2>2, <2>3, <2>5, <2>6, <2>7, <2>8 DEF Structure, MutexHeld
  <1> QED
    BY <1>1, <1>2, <1>6, <1>7 DEF SignalDep

LEMMA SignalReturnsStructure ==
  ASSUME IInv, NEW p \in Processes, SignalReturns(p)
  PROVE  Structure'
  <1> USE CvAssumption, EventAssumption DEF IInv, Events
  <1>0. TypeOK /\ CvTypeOK
    BY DEF TypeOK
  <1>1. PICK s : s = frames[p]
    OBVIOUS
  <1>2. /\ at[p] = "signal" /\ s \in Seq(FrameSet) /\ s # <<>>
        /\ on[p] = Nowhere /\ status[p] = "running" /\ Holds(p)
    BY <1>1 DEF SignalReturns, FramesTyped, CallPlaces, MutexHeld
  <1>3. /\ Last(s) \in FrameSet /\ Last(s) = s[Len(s)] /\ Len(s) \in DOMAIN s
        /\ Front(s) \in Seq(FrameSet) /\ Len(Front(s)) = Len(s) - 1
        /\ \A i \in 1..(Len(s) - 1) : Front(s)[i] = s[i]
    BY <1>2, TopOf
  <1>4. PICK t : t = Front(s)
    OBVIOUS
  <1>5. PICK e : e = Last(s).event
    OBVIOUS
  <1>6. /\ lock' = [lock EXCEPT ![e] = Nobody]
        /\ frames' = [frames EXCEPT ![p] = t]
        /\ at' = [at EXCEPT ![p] = IF Len(s) = 1 THEN "idle" ELSE "signal"]
        /\ UNCHANGED <<waiting, waitingNum, on, status, signalled, deps, built, calls>>
    BY <1>1, <1>4, <1>5 DEF SignalReturns, Unlocks, Goto, Top
  <1>7. /\ e \in Cvs /\ lock[e] = p
        /\ t \in Seq(FrameSet) /\ DOMAIN t = 1..(Len(s) - 1) /\ DOMAIN s = 1..Len(s)
        /\ Len(s) \in Nat /\ t = <<>> <=> Len(s) = 1
        /\ \A i \in DOMAIN t : i \in DOMAIN s /\ i # Len(s) /\ t[i] = s[i]
    <2>1. e \in Cvs
      BY <1>3, <1>5 DEF FrameSet
    <2>2. lock[e] = p
      BY <1>1, <1>2, <1>3, <1>5 DEF Holds
    <2>3. t \in Seq(FrameSet) /\ Len(t) = Len(s) - 1 /\ Len(s) \in Nat /\ DOMAIN s = 1..Len(s)
      BY <1>2, <1>3, <1>4
    <2>4. DOMAIN t = 1..Len(t) /\ (t = <<>> <=> Len(t) = 0)
      <3>1. t \in Seq(FrameSet)
        BY <2>3
      <3> QED
        BY <3>1, EmptySeq
    <2>5. DOMAIN t = 1..(Len(s) - 1) /\ (t = <<>> <=> Len(s) = 1)
      BY <2>3, <2>4
    <2> QED
      BY <1>3, <1>4, <2>1, <2>2, <2>3, <2>5
  <1>8. CvTypeOK' /\ WaitersCounted'
    <2>1. lock' \in [Cvs -> Processes \cup {Nobody}] /\ status' = status
      BY <1>0, <1>6 DEF CvTypeOK
    <2> QED
      BY <1>0, <1>6, <2>1, ListsStay DEF CvTypeOK
  <1>9. TypeOK' /\ FramesTyped'
    BY <1>0, <1>6, <1>7, <1>8 DEF TypeOK, FramesTyped
  <1>10. /\ frames'[p] = t /\ \A q \in Processes : q # p => frames'[q] = frames[q]
         /\ at'[p] = IF Len(s) = 1 THEN "idle" ELSE "signal"
         /\ \A q \in Processes : q # p => at'[q] = at[q]
    BY <1>0, <1>6 DEF TypeOK, FramesTyped
  <1>11. CallPlaces'
    BY <1>2, <1>6, <1>7, <1>10 DEF CallPlaces
  <1>12. Holds(p)'
    <2>1. \A i \in DOMAIN t : lock[t[i].event] = p /\ t[i].event # e
      <3> SUFFICES ASSUME NEW i \in DOMAIN t
                   PROVE  lock[s[i].event] = p /\ s[i].event # s[Len(s)].event
        BY <1>3, <1>5, <1>7
      <3>1. i \in DOMAIN s /\ i # Len(s) /\ Len(s) \in DOMAIN s
        BY <1>3, <1>7
      <3> QED
        BY <1>1, <1>2, <3>1 DEF Holds
    <2>2. \A i \in DOMAIN t : lock'[t[i].event] = p
      BY <1>0, <1>6, <2>1 DEF CvTypeOK
    <2>3. \A i, j \in DOMAIN t : t[i].event = t[j].event => i = j
      BY <1>1, <1>2, <1>7 DEF Holds
    <2> QED
      BY <1>10, <2>2, <2>3 DEF Holds
  <1>13. ASSUME NEW q \in Processes, q # p PROVE Holds(q)'
    <2>1. \A c \in Cvs : lock[c] = q => lock'[c] = q
      BY <1>0, <1>6, <1>7, <1>13 DEF CvTypeOK
    <2> QED
      BY <1>6, <1>10, <1>13, <2>1, StillHolds
  <1>14. OneBuilds' /\ Unused'
    BY <1>2, <1>6, <1>10 DEF OneBuilds, Unused, Builds
  <1> QED
    BY <1>8, <1>9, <1>11, <1>12, <1>13, <1>14 DEF Structure, MutexHeld

LEMMA WakeStructure ==
  ASSUME IInv, NEW p \in Processes, Wake(p)
  PROVE  Structure'
  <1> USE CvAssumption, EventAssumption DEF IInv, Events
  <1>0. TypeOK /\ CvTypeOK
    BY DEF TypeOK
  <1>1. /\ at[p] = "asleep" /\ lock[on[p]] = Nobody
        /\ lock' = [lock EXCEPT ![on[p]] = p] /\ status' = [status EXCEPT ![p] = "running"]
        /\ at' = [at EXCEPT ![p] = "check"]
        /\ UNCHANGED <<waiting, waitingNum, on, signalled, deps, frames, built, calls, raises,
                       grants>>
    BY DEF Wake, Wakes, Locks, Goto
  <1>2. on[p] \in Cvs /\ frames[p] = <<>>
    BY <1>0, <1>1 DEF CallPlaces, CvTypeOK
  <1>3. CvTypeOK' /\ WaitersCounted'
    <2>1. /\ lock' \in [Cvs -> Processes \cup {Nobody}]
          /\ status' \in [Processes -> {"running", "suspended", "ready"}]
      BY <1>0, <1>1, <1>2 DEF CvTypeOK
    <2> QED
      BY <1>0, <1>1, <2>1, ListsStay
  <1>4. TypeOK' /\ FramesTyped'
    BY <1>0, <1>1, <1>3 DEF TypeOK, FramesTyped
  <1>5. CallPlaces'
    BY <1>0, <1>1, <1>2 DEF CallPlaces, TypeOK, CvTypeOK
  <1>6. Holds(p)'
    BY <1>0, <1>1, <1>2 DEF Holds, TypeOK, CvTypeOK
  <1>7. ASSUME NEW q \in Processes, q # p PROVE Holds(q)'
    <2>1. at'[q] = at[q] /\ \A c \in Cvs : lock[c] = q => lock'[c] = q
      BY <1>0, <1>1, <1>2, <1>7 DEF TypeOK, CvTypeOK
    <2> QED
      BY <1>1, <2>1, StillHolds
  <1>8. OneBuilds' /\ Unused'
    BY <1>0, <1>1 DEF OneBuilds, Unused, Builds, TypeOK
  <1> QED
    BY <1>3, <1>4, <1>5, <1>6, <1>7, <1>8 DEF Structure, MutexHeld

LEMMA TestStructure ==
  ASSUME IInv, NEW p \in Processes, NEW e \in Events, Test(p, e) \/ Clear(p, e)
  PROVE  Structure'
  <1>0. TypeOK /\ CvTypeOK /\ WaitersCounted /\ FramesTyped
    BY DEF IInv, TypeOK
  <1>1. /\ UNCHANGED <<cvVars, deps, at, frames, built>>
        /\ signalled' \in [Events -> BOOLEAN] /\ calls' \in 0..MaxCalls
    <2>1. /\ UNCHANGED <<cvVars, deps, at, frames, built>>
          /\ calls < MaxCalls /\ calls' = calls + 1
      BY DEF Test, Clear, Calls
    <2>2. signalled' \in [Events -> BOOLEAN]
      BY <1>0 DEF Test, Clear, Consume, TypeOK
    <2>3. calls' \in 0..MaxCalls
      BY <1>0, <2>1, EventAssumption DEF TypeOK
    <2> QED
      BY <2>1, <2>2, <2>3
  <1>2. CvTypeOK' /\ WaitersCounted'
    BY <1>0, <1>1, ListsStay DEF CvTypeOK, cvVars
  <1>3. TypeOK' /\ FramesTyped'
    BY <1>0, <1>1, <1>2 DEF TypeOK, FramesTyped
  <1> QED
    BY <1>1, <1>2, <1>3, PlacesStay DEF Structure, cvVars

LEMMA AnyCallStructure ==
  ASSUME IInv, NEW p \in Processes, AnyCall(p)
  PROVE  Structure'
  <1> USE CvAssumption, EventAssumption DEF IInv, Events
  <1>0. TypeOK /\ CvTypeOK
    BY DEF TypeOK
  <1>1. /\ at[p] = "idle" /\ built = 0 /\ at' = [at EXCEPT ![p] = "any"]
        /\ \A q \in Processes : ~Builds(q)
        /\ calls' \in 0..MaxCalls /\ Listed # <<>>
        /\ UNCHANGED <<lock, waiting, waitingNum, on, status, signalled, deps, frames, built>>
    BY <1>0 DEF AnyCall, Building, Builds, Goto, cvVars, TypeOK
  <1>2. CvTypeOK' /\ WaitersCounted'
    BY <1>0, <1>1, ListsStay DEF CvTypeOK
  <1>3. TypeOK' /\ FramesTyped'
    BY <1>0, <1>1, <1>2 DEF TypeOK, FramesTyped
  <1>4. at'[p] = "any" /\ \A q \in Processes : q # p => at'[q] = at[q]
    BY <1>0, <1>1 DEF TypeOK
  <1>5. CallPlaces'
    BY <1>1, <1>4 DEF CallPlaces
  <1>6. Holds(p)'
    BY <1>1, <1>4 DEF Holds, MutexHeld
  <1>7. ASSUME NEW q \in Processes, q # p PROVE Holds(q)'
    BY <1>1, <1>4, <1>7, StillHolds
  <1>8. Len(Listed) > 0
    <2>1. Len(Listed) \in Nat /\ Len(Listed) # 0
      BY <1>1, EmptySeq
    <2> QED
      BY <2>1
  <1>9. OneBuilds' /\ Unused'
    BY <1>1, <1>4, <1>8 DEF OneBuilds, Unused, Builds
  <1> QED
    BY <1>2, <1>3, <1>5, <1>6, <1>7, <1>9 DEF Structure, MutexHeld

LEMMA AnyLockStructure ==
  ASSUME IInv, NEW p \in Processes, AnyLock(p)
  PROVE  Structure'
  <1> USE CvAssumption, EventAssumption DEF IInv, Events
  <1>0. TypeOK /\ CvTypeOK
    BY DEF TypeOK
  <1>1. PICK s : s = Listed[built + 1]
    OBVIOUS
  <1>2. /\ at[p] = "any" /\ lock[s] = Nobody
        /\ lock' = [lock EXCEPT ![s] = p] /\ at' = [at EXCEPT ![p] = "anyPush"]
        /\ UNCHANGED <<waiting, waitingNum, on, status, signalled, deps, frames, built, calls,
                       raises, grants>>
    BY <1>1 DEF AnyLock, Locks, Goto
  <1>3. s \in Cvs
    BY <1>0, <1>1, <1>2 DEF OneBuilds, Builds, TypeOK
  <1>4. CvTypeOK' /\ WaitersCounted'
    <2>1. lock' \in [Cvs -> Processes \cup {Nobody}]
      BY <1>0, <1>2 DEF CvTypeOK
    <2> QED
      BY <1>0, <1>2, <2>1, ListsStay DEF CvTypeOK
  <1>5. TypeOK' /\ FramesTyped'
    BY <1>0, <1>2, <1>4 DEF TypeOK, FramesTyped
  <1>6. at'[p] = "anyPush" /\ \A q \in Processes : q # p => at'[q] = at[q]
    BY <1>0, <1>2 DEF TypeOK
  <1>7. CallPlaces'
    BY <1>2, <1>6 DEF CallPlaces
  <1>8. Holds(p)'
    <2>1. frames'[p] = <<>> /\ lock'[s] = p
      BY <1>0, <1>2, <1>3 DEF CallPlaces, CvTypeOK
    <2> QED
      BY <1>1, <1>2, <1>6, <2>1 DEF Holds
  <1>9. ASSUME NEW q \in Processes, q # p PROVE Holds(q)'
    <2>1. \A c \in Cvs : lock[c] = q => lock'[c] = q
      BY <1>0, <1>2 DEF CvTypeOK
    <2> QED
      BY <1>2, <1>6, <1>9, <2>1, StillHolds
  <1>10. OneBuilds' /\ Unused'
    BY <1>2, <1>6 DEF OneBuilds, Unused, Builds
  <1> QED
    BY <1>4, <1>5, <1>7, <1>8, <1>9, <1>10 DEF Structure, MutexHeld

LEMMA AnyPushStructure ==
  ASSUME IInv, NEW p \in Processes, AnyPush(p)
  PROVE  Structure'
  <1> USE CvAssumption, EventAssumption DEF IInv, Events
  <1>0. TypeOK /\ CvTypeOK
    BY DEF TypeOK
  <1>1. PICK s : s = Listed[built + 1]
    OBVIOUS
  <1>2. /\ at[p] = "anyPush"
        /\ signalled' \in [Cvs -> BOOLEAN]
        /\ lock' = [lock EXCEPT ![s] = Nobody] /\ built' = built + 1
        /\ deps' = [deps EXCEPT ![s] = Append(@, AnyEvent)]
        /\ at' = [at EXCEPT ![p] = IF built + 1 = Len(Listed) THEN "idle" ELSE "any"]
        /\ UNCHANGED <<waiting, waitingNum, on, status, frames, calls>>
    BY <1>0, <1>1 DEF AnyPush, Links, Unlocks, Goto, TypeOK
  <1>3. /\ s \in Cvs /\ lock[s] = p /\ built < Len(Listed)
        /\ built \in Nat /\ Len(Listed) \in Nat
    BY <1>0, <1>1, <1>2 DEF OneBuilds, Builds, TypeOK, MutexHeld, Holds
  <1>4. CvTypeOK' /\ WaitersCounted'
    <2>1. lock' \in [Cvs -> Processes \cup {Nobody}]
      BY <1>0, <1>2 DEF CvTypeOK
    <2> QED
      BY <1>0, <1>2, <2>1, ListsStay DEF CvTypeOK
  <1>5. TypeOK' /\ FramesTyped'
    <2>1. deps' \in [Cvs -> Seq({AnyEvent})]
      <3>1. deps[s] \in Seq({AnyEvent}) /\ deps \in [Cvs -> Seq({AnyEvent})]
        BY <1>0, <1>3 DEF TypeOK
      <3>2. Append(deps[s], AnyEvent) \in Seq({AnyEvent})
        BY <3>1
      <3> QED
        BY <1>2, <3>1, <3>2
    <2>2. built' \in 0..Len(Listed)
      BY <1>2, <1>3
    <2>3. at' \in [Processes -> {"idle", "check", "asleep", "signal", "any", "anyPush"}]
      BY <1>0, <1>2 DEF TypeOK
    <2> QED
      BY <1>0, <1>2, <1>4, <2>1, <2>2, <2>3 DEF TypeOK, FramesTyped
  <1>6. /\ at'[p] = IF built + 1 = Len(Listed) THEN "idle" ELSE "any"
        /\ \A q \in Processes : q # p => at'[q] = at[q]
    BY <1>0, <1>2 DEF TypeOK
  <1>7. CallPlaces'
    BY <1>2, <1>6 DEF CallPlaces
  <1>8. Holds(p)'
    <2>1. frames'[p] = <<>>
      BY <1>2 DEF CallPlaces
    <2> QED
      BY <1>6, <2>1 DEF Holds
  <1>9. ASSUME NEW q \in Processes, q # p PROVE Holds(q)'
    <2>1. \A c \in Cvs : lock[c] = q => lock'[c] = q
      BY <1>0, <1>2, <1>3, <1>9 DEF CvTypeOK
    <2>2. at[q] # "anyPush"
      BY <1>2, <1>9 DEF OneBuilds, Builds
    <2> QED
      BY <1>2, <1>6, <1>9, <2>1, <2>2, StillHolds
  <1>10. OneBuilds'
    <2>1. \A q \in Processes : Builds(q)' => Builds(q) /\ q = p /\ built + 1 # Len(Listed)
      BY <1>2, <1>6 DEF OneBuilds, Builds
    <2>2. built + 1 # Len(Listed) => built' < Len(Listed)
      BY <1>2, <1>3
    <2> QED
      BY <2>1, <2>2 DEF OneBuilds
  <1>11. Unused'
    BY <1>2, <1>3 DEF Unused
  <1> QED
    BY <1>4, <1>5, <1>7, <1>8, <1>9, <1>10, <1>11 DEF Structure, MutexHeld

LEMMA StructureStep == IInv /\ [Next]_vars => Structure'
  <1> SUFFICES ASSUME IInv, [Next]_vars PROVE Structure'
    OBVIOUS
  <1>1. ASSUME NEW p \in Processes, NEW e \in Events, Wait(p, e) PROVE Structure'
    <2>1. calls' \in 0..MaxCalls
      BY <1>1, EventAssumption DEF Wait, Calls, IInv, TypeOK
    <2> QED
      BY <1>1, <2>1, EvaluateStructure DEF Wait, Calls
  <1>2. ASSUME NEW p \in Processes, Check(p) PROVE Structure'
    <2>1. calls' \in 0..MaxCalls /\ on[p] \in Events
      BY <1>2 DEF Check, IInv, TypeOK, CvTypeOK, CallPlaces, Events
    <2> QED
      BY <1>2, <2>1, EvaluateStructure DEF Check
  <1>3. CASE UNCHANGED vars
    <2>1. TypeOK /\ CvTypeOK /\ WaitersCounted /\ FramesTyped
      BY DEF IInv, TypeOK
    <2>2. CvTypeOK' /\ WaitersCounted'
      BY <1>3, <2>1, ListsStay DEF CvTypeOK, vars, cvVars
    <2>3. TypeOK' /\ FramesTyped'
      BY <1>3, <2>1, <2>2 DEF TypeOK, FramesTyped, vars
    <2> QED
      BY <1>3, <2>2, <2>3, PlacesStay DEF Structure, vars, cvVars
  <1> QED
    BY <1>1, <1>2, <1>3, SignalStructure, SignalDepStructure, SignalReturnsStructure,
       WakeStructure, TestStructure, AnyCallStructure, AnyLockStructure, AnyPushStructure
    DEF Next, Quiescent

-----------------------------------------------------------------------------
(* No wait() misses a signal. *)

\* waitingNum and the list tell who is inside wait().
LEMMA NobodyInside ==
  ASSUME CvTypeOK, WaitersCounted, NEW c \in Cvs
  PROVE  /\ waitingNum[c] = 0 => \A p \in Processes : on[p] # c
         /\ waiting[c] = <<>> => \A p \in Fibers : on[p] # c
         /\ waiting[c] # <<>> => Head(waiting[c]) \in Fibers /\ on[Head(waiting[c])] = c
  <1>1. /\ waitingNum[c] = Len(waiting[c]) + Cardinality(ThreadsIn(c))
        /\ ToSet(waiting[c]) = FibersIn(c)
        /\ waiting[c] \in Seq(Fibers) /\ Len(waiting[c]) \in Nat
    BY CountedIs DEF Counted, CvTypeOK
  <1>2. waiting[c] = <<>> => FibersIn(c) = {}
    BY <1>1 DEF ToSet
  <1>3. waitingNum[c] = 0 => waiting[c] = <<>> /\ ThreadsIn(c) = {}
    <2>1. waitingNum[c] = 0 => Len(waiting[c]) = 0 /\ Cardinality(ThreadsIn(c)) = 0
      BY <1>1, ThreadsFinite
    <2>2. Len(waiting[c]) = 0 => waiting[c] = <<>>
      BY <1>1, EmptySeq
    <2> QED
      BY <2>1, <2>2, ThreadsFinite, FS_EmptySet
  <1>4. waiting[c] # <<>> => Head(waiting[c]) \in ToSet(waiting[c])
    <2>1. waiting[c] # <<>> => 1 \in DOMAIN waiting[c] /\ Head(waiting[c]) = waiting[c][1]
      BY <1>1
    <2> QED
      BY <2>1 DEF ToSet
  <1> QED
    BY <1>1, <1>2, <1>3, <1>4 DEF FibersIn, ThreadsIn, Processes

LEMMA UnmissedStays ==
  ASSUME IInv, \A f \in Events : signalled'[f] => signalled[f],
         \A q \in Processes : /\ on'[q] = on[q]
                              /\ status'[q] = "suspended" => status[q] = "suspended"
  PROVE  Unmissed'
  <1> SUFFICES ASSUME NEW f \in Events, signalled'[f], Suspended(f)' # {}
               PROVE  /\ f \in AutoEvents
                      /\ \E q \in Processes : on'[q] = f /\ status'[q] # "suspended"
    BY DEF Unmissed
  <1>1. Suspended(f)' \subseteq Suspended(f)
    BY DEF Suspended
  <1> QED
    BY <1>1 DEF IInv, Unmissed

LEMMA EvaluateUnmissed ==
  ASSUME IInv, NEW p \in Processes, NEW e \in Events, Evaluate(p, e),
         status[p] # "suspended", on[p] \in {e, Nowhere}
  PROVE  Unmissed'
  <1>0. /\ ListsTyped /\ WaitersCounted /\ Unmissed
        /\ on \in [Processes -> Cvs \cup {Nowhere}]
        /\ status \in [Processes -> {"running", "suspended", "ready"}]
        /\ signalled \in [Events -> BOOLEAN]
    BY DEF IInv, TypeOK, CvTypeOK, ListsTyped
  <1> SUFFICES ASSUME NEW f \in Events, signalled'[f], Suspended(f)' # {}
               PROVE  /\ f \in AutoEvents
                      /\ \E q \in Processes : on'[q] = f /\ status'[q] # "suspended"
    BY DEF Unmissed
  <1>1. CASE signalled[e] /\ Exit(p) /\ Consume(e) /\ UNCHANGED status
    <2>1. on' = [on EXCEPT ![p] = Nowhere]
      BY <1>0, <1>1, ExitCounted
    <2>2. signalled' = [signalled EXCEPT ![e] = e \notin AutoEvents]
      BY <1>1 DEF Consume
    <2>3. Suspended(f)' \subseteq Suspended(f)
      BY <1>0, <1>1, <2>1, CvAssumption DEF Suspended, Events
    <2>4. signalled[f] /\ f \in AutoEvents
      BY <1>0, <1>1, <2>2, <2>3 DEF Unmissed
    <2>5. f # e
      BY <1>0, <2>2, <2>4
    <2>6. PICK q \in Processes : on[q] = f /\ status[q] # "suspended"
      BY <1>0, <2>3, <2>4 DEF Unmissed
    <2>7. q # p
      BY <2>5, <2>6, CvAssumption DEF Events
    <2> QED
      BY <1>0, <1>1, <2>1, <2>4, <2>6, <2>7
  <1>2. CASE /\ ~signalled[e] /\ Enter(p, e) /\ Sleep(p, e) /\ UNCHANGED signalled
    <2>1. on' = [on EXCEPT ![p] = e] /\ on[p] \in {e, Nowhere} /\ f # e
      BY <1>0, <1>2, EnterCounted DEF Events
    <2>2. status' = [status EXCEPT ![p] = "suspended"]
      BY <1>2 DEF Sleep
    <2>3. Suspended(f)' \subseteq Suspended(f)
      BY <1>0, <2>1, <2>2 DEF Suspended
    <2>4. PICK q \in Processes : on[q] = f /\ status[q] # "suspended" /\ f \in AutoEvents
      BY <1>0, <1>2, <2>3 DEF Unmissed
    <2>5. q # p
      BY <2>1, <2>4, CvAssumption DEF Events
    <2> QED
      BY <1>0, <2>1, <2>2, <2>4, <2>5
  <1> QED
    BY <1>1, <1>2 DEF Evaluate

\* notify_one() or notify_all() leaves a waiter that will see the signal, or none at all.
LEMMA RaiseUnmissed ==
  ASSUME IInv, NEW p \in Processes, NEW e \in Events, Raise(p, e), UNCHANGED on
  PROVE  Unmissed'
  <1>0. /\ CvTypeOK /\ WaitersCounted /\ Unmissed
        /\ signalled' = [signalled EXCEPT ![e] = TRUE]
        /\ signalled \in [Events -> BOOLEAN]
        /\ status \in [Processes -> {"running", "suspended", "ready"}]
        /\ Notify(e)
    BY DEF IInv, TypeOK, CvTypeOK, Raise
  <1> SUFFICES ASSUME NEW f \in Events, signalled'[f], Suspended(f)' # {}
               PROVE  /\ f \in AutoEvents
                      /\ \E q \in Processes : on'[q] = f /\ status'[q] # "suspended"
    BY DEF Unmissed
  <1>1. \A q \in Processes : \/ status'[q] = status[q]
                             \/ status[q] = "suspended" /\ status'[q] = "ready"
    BY RaiseMutex
  <1>2. CASE f # e
    <2>1. signalled[f] /\ Suspended(f)' \subseteq Suspended(f)
      BY <1>0, <1>1, <1>2 DEF Suspended
    <2>2. PICK q \in Processes : on[q] = f /\ status[q] # "suspended" /\ f \in AutoEvents
      BY <1>0, <2>1 DEF Unmissed
    <2> QED
      BY <1>1, <2>2
  <1>3. CASE f = e
    <2>1. PICK s \in Processes : on[s] = e /\ status'[s] = "suspended" /\ status[s] = "suspended"
      BY <1>1, <1>3 DEF Suspended
    <2>2. waitingNum[e] # 0
      BY <1>0, <2>1, NobodyInside DEF Events
    <2>3. CASE e \notin AutoEvents
      <3>1. status'[s] = "ready"
        BY <1>0, <2>1, <2>2, <2>3 DEF Notify, NotifyAll, Notified
      <3> QED
        BY <2>1, <3>1
    <2>4. CASE e \in AutoEvents
      <3>1. NotifyOne(e)
        BY <1>0, <2>4 DEF Notify
      <3>2. CASE waiting[e] # <<>>
        <4>1. PICK h : h = Head(waiting[e])
          OBVIOUS
        <4>2. h \in Processes /\ on[h] = e
          BY <1>0, <3>2, <4>1, NobodyInside DEF Processes, Events
        <4>3. status' = [status EXCEPT ![h] = Notified(h)]
          BY <2>2, <3>1, <3>2, <4>1 DEF NotifyOne
        <4>4. status'[h] # "suspended"
          BY <1>0, <4>2, <4>3 DEF Notified
        <4> QED
          BY <1>3, <2>4, <4>2, <4>4
      <3>3. CASE waiting[e] = <<>>
        <4>1. s \in Outside
          BY <1>0, <2>1, <3>3, NobodyInside DEF Processes, Events
        <4>2. \E t \in Outside : on[t] = e /\ status' = [status EXCEPT ![t] = "ready"]
          BY <2>1, <2>2, <3>1, <3>3, <4>1 DEF NotifyOne
        <4>3. PICK t \in Outside : on[t] = e /\ status' = [status EXCEPT ![t] = "ready"]
          BY <4>2
        <4>4. t \in Processes /\ status'[t] = "ready"
          BY <1>0, <4>3 DEF Processes
        <4> QED
          BY <1>3, <2>4, <4>3, <4>4
      <3> QED
        BY <3>2, <3>3
    <2> QED
      BY <2>3, <2>4
  <1> QED
    BY <1>2, <1>3

LEMMA UnmissedStep == IInv /\ [Next]_vars => Unmissed'
  <1> SUFFICES ASSUME IInv, [Next]_vars PROVE Unmissed'
    OBVIOUS
  <1>1. ASSUME NEW p \in Processes, NEW e \in Events, Wait(p, e) PROVE Unmissed'
    <2>1. status[p] # "suspended" /\ on[p] = Nowhere
      BY <1>1 DEF Wait, Calls, IInv, CallPlaces
    <2> QED
      BY <1>1, <2>1, EvaluateUnmissed DEF Wait
  <1>2. ASSUME NEW p \in Processes, Check(p) PROVE Unmissed'
    <2>1. status[p] # "suspended" /\ on[p] \in Events
      BY <1>2 DEF Check, IInv, TypeOK, CvTypeOK, CallPlaces, Events
    <2> QED
      BY <1>2, <2>1, EvaluateUnmissed DEF Check
  <1>3. ASSUME NEW p \in Processes, Wake(p) PROVE Unmissed'
    <2>1. /\ UNCHANGED <<on, signalled>> /\ status' = [status EXCEPT ![p] = "running"]
          /\ status \in [Processes -> {"running", "suspended", "ready"}]
      BY <1>3 DEF Wake, Wakes, IInv, TypeOK, CvTypeOK
    <2>2. \A q \in Processes : status'[q] = "suspended" => status[q] = "suspended"
      BY <2>1
    <2> QED
      BY <2>1, <2>2, UnmissedStays
  <1>4. ASSUME NEW p \in Processes, NEW e \in Events, Test(p, e) \/ Clear(p, e)
        PROVE  Unmissed'
    <2>1. /\ UNCHANGED <<on, status>> /\ signalled[e]
          /\ \E b \in BOOLEAN : signalled' = [signalled EXCEPT ![e] = b]
          /\ signalled \in [Events -> BOOLEAN]
      BY <1>4 DEF Test, Clear, Consume, cvVars, IInv, TypeOK
    <2>2. \A f \in Events : signalled'[f] => signalled[f]
      BY <2>1
    <2> QED
      BY <2>1, <2>2, UnmissedStays
  <1>5. ASSUME NEW p \in Processes, NEW e \in Events, Signal(p, e) PROVE Unmissed'
    BY <1>5, RaiseUnmissed DEF Signal
  <1>6. ASSUME NEW p \in Processes, SignalDep(p) PROVE Unmissed'
    <2>1. at[p] = "signal" /\ Top(p).left # <<>> /\ UNCHANGED on
      BY <1>6 DEF SignalDep
    <2>2. Head(Top(p).left) = AnyEvent
      BY <2>1, NextDep DEF IInv
    <2>3. Raise(p, AnyEvent) \/ UNCHANGED <<signalled, status>>
      BY <1>6, <2>2 DEF SignalDep
    <2>4. ASSUME UNCHANGED <<signalled, status>> PROVE Unmissed'
      BY <2>1, <2>4, UnmissedStays
    <2> QED
      BY <2>1, <2>3, <2>4, RaiseUnmissed, EventAssumption
  <1>7. ASSUME NEW p \in Processes, AnyPush(p) PROVE Unmissed'
    <2>1. /\ UNCHANGED <<on, status>> /\ at[p] = "anyPush"
          /\ \/ signalled' = [signalled EXCEPT ![AnyEvent] = TRUE]
             \/ UNCHANGED signalled
      BY <1>7 DEF AnyPush
    <2>2. \A q \in Processes : on[q] # AnyEvent
      BY <2>1 DEF IInv, Unused, OneBuilds, Builds
    <2> SUFFICES ASSUME NEW f \in Events, signalled'[f], Suspended(f)' # {}
                 PROVE  /\ f \in AutoEvents
                        /\ \E q \in Processes : on'[q] = f /\ status'[q] # "suspended"
      BY DEF Unmissed
    <2>3. Suspended(f)' = Suspended(f) /\ f # AnyEvent
      BY <2>1, <2>2 DEF Suspended
    <2>4. signalled[f]
      BY <2>1, <2>3 DEF IInv, TypeOK
    <2> QED
      BY <2>1, <2>3, <2>4 DEF IInv, Unmissed
  <1>8. CASE UNCHANGED <<on, status, signalled>>
    BY <1>8, UnmissedStays
  <1>9. ASSUME NEW p \in Processes, SignalReturns(p) \/ AnyCall(p) \/ AnyLock(p)
        PROVE  Unmissed'
    BY <1>8, <1>9 DEF SignalReturns, AnyCall, AnyLock, cvVars
  <1> QED
    BY <1>1, <1>2, <1>3, <1>4, <1>5, <1>6, <1>7, <1>8, <1>9
    DEF Next, Quiescent, vars, cvVars

-----------------------------------------------------------------------------
(* any() misses no signal. *)

LEMMA DerivedStays ==
  ASSUME IInv, UNCHANGED <<built, deps>>, raises'[AnyEvent] = raises[AnyEvent],
         \A f \in Events : signalled'[f] => signalled[f],
         \A f : Derives(f) => Derives(f)'
  PROVE  Derived'
  <1>1. built \in 0..Len(Listed) /\ \A i \in 1..built : Listed[i] \in Events
    BY EventAssumption DEF IInv, TypeOK
  <1> QED
    BY <1>1, EventAssumption DEF IInv, Derived

LEMMA DerivedRaised ==
  ASSUME IInv, UNCHANGED <<built, deps>>, raises'[AnyEvent] > 0
  PROVE  Derived'
  BY DEF IInv, Derived

\* What a signal of e adds to the counters.
LEMMA RaiseCounts ==
  ASSUME IInv, NEW p \in Processes, NEW e \in Events, Raise(p, e)
  PROVE  /\ signalled' = [signalled EXCEPT ![e] = TRUE]
         /\ raises'[e] > 0 /\ \A f \in Events : f # e => raises'[f] = raises[f]
  BY DEF IInv, Counters, Raise

LEMMA DerivedStep == IInv /\ [Next]_vars => Derived'
  <1> SUFFICES ASSUME IInv, [Next]_vars PROVE Derived'
    OBVIOUS
  <1> USE EventAssumption
  <1>0. /\ signalled \in [Events -> BOOLEAN] /\ raises \in [Events -> Nat]
        /\ built \in 0..Len(Listed) /\ Len(Listed) \in Nat
        /\ \A i \in 1..Len(Listed) : Listed[i] \in Events \ {AnyEvent}
    BY DEF IInv, TypeOK, Counters
  <1>a. ASSUME UNCHANGED frames, NEW f PROVE Derives(f) => Derives(f)'
    BY <1>a DEF Derives
  <1>1. ASSUME NEW p \in Processes, NEW e \in Events, Evaluate(p, e),
               UNCHANGED <<built, deps, raises, frames>>
        PROVE  Derived'
    <2>1. \A f \in Events : signalled'[f] => signalled[f]
      BY <1>0, <1>1 DEF Evaluate, Consume
    <2> QED
      BY <1>1, <1>a, <2>1, DerivedStays
  <1>2. ASSUME NEW p \in Processes, Check(p) PROVE Derived'
    <2>1. on[p] \in Events
      BY <1>2 DEF Check, IInv, TypeOK, CvTypeOK, CallPlaces, Events
    <2> QED
      BY <1>1, <1>2, <2>1 DEF Check
  <1>3. ASSUME NEW p \in Processes, NEW e \in Events, Test(p, e) \/ Clear(p, e)
        PROVE  Derived'
    <2>1. /\ UNCHANGED <<built, deps, raises, frames>> /\ signalled[e]
          /\ \E b \in BOOLEAN : signalled' = [signalled EXCEPT ![e] = b]
      BY <1>3 DEF Test, Clear, Consume
    <2>2. \A f \in Events : signalled'[f] => signalled[f]
      BY <1>0, <2>1
    <2> QED
      BY <1>a, <2>1, <2>2, DerivedStays
  <1>4. ASSUME NEW p \in Processes, NEW e \in Events, Signal(p, e) PROVE Derived'
    <2>1. /\ Raise(p, e) /\ UNCHANGED <<built, deps>>
          /\ frames' = [frames EXCEPT ![p] = <<Frame(e)>>] /\ at[p] = "idle"
      BY <1>4 DEF Signal, Calls
    <2>2. CASE e = AnyEvent
      BY <2>1, <2>2, RaiseCounts, DerivedRaised
    <2>3. CASE e # AnyEvent
      <3>1. /\ frames'[p] = <<Frame(e)>> /\ frames[p] = <<>>
            /\ \A q \in Processes : q # p => frames'[q] = frames[q]
        BY <2>1 DEF IInv, FramesTyped, CallPlaces
      <3>2. \A f : Derives(f) => Derives(f)'
        BY <3>1 DEF Derives
      <3>3. deps[e] # <<>> => Derives(e)'
        <4>1. 1 \in DOMAIN frames'[p] /\ frames'[p][1] = Frame(e)
          BY <3>1
        <4>2. Frame(e).event = e /\ Frame(e).left = deps[e]
          BY DEF Frame
        <4> QED
          BY <4>1, <4>2 DEF Derives
      <3>4. /\ raises'[AnyEvent] = raises[AnyEvent]
            /\ \A f \in Events : f # e => signalled'[f] = signalled[f]
        BY <1>0, <2>1, <2>3, RaiseCounts
      <3>5. ASSUME NEW i \in 1..built
            PROVE  /\ deps'[Listed[i]] # <<>>
                   /\ signalled'[Listed[i]] =>
                          raises'[AnyEvent] > 0 \/ Derives(Listed[i])'
        <4>1. PICK f \in Events : f = Listed[i]
          BY <1>0
        <4>2. deps[f] # <<>> /\ (signalled[f] => raises[AnyEvent] > 0 \/ Derives(f))
          BY <4>1 DEF IInv, Derived
        <4>3. deps'[f] # <<>> /\ (signalled'[f] => raises'[AnyEvent] > 0 \/ Derives(f)')
          BY <2>1, <3>2, <3>3, <3>4, <4>2
        <4> QED
          BY <4>1, <4>3
      <3>6. signalled'[AnyEvent] => raises'[AnyEvent] > 0
        BY <2>3, <3>4 DEF IInv, Derived
      <3> QED
        BY <2>1, <3>5, <3>6 DEF Derived
    <2> QED
      BY <2>2, <2>3
  <1>5. ASSUME NEW p \in Processes, SignalDep(p) PROVE Derived'
    <2>1. at[p] = "signal" /\ Top(p).left # <<>> /\ UNCHANGED <<built, deps>>
      BY <1>5 DEF SignalDep
    <2>2. Head(Top(p).left) = AnyEvent
      BY <2>1, NextDep DEF IInv
    <2>3. Raise(p, AnyEvent) \/ (signalled[AnyEvent] /\ UNCHANGED raises)
      BY <1>5, <2>2 DEF SignalDep
    <2>4. raises'[AnyEvent] > 0
      BY <2>3, RaiseCounts DEF IInv, Derived
    <2> QED
      BY <2>1, <2>4, DerivedRaised
  <1>6. ASSUME NEW p \in Processes, SignalReturns(p) PROVE Derived'
    <2>1. PICK s : s = frames[p]
      OBVIOUS
    <2>2. PICK t : t = Front(s)
      OBVIOUS
    <2>3. /\ at[p] = "signal" /\ Last(s).left = <<>>
          /\ frames' = [frames EXCEPT ![p] = t]
          /\ UNCHANGED <<built, deps, raises, signalled>>
      BY <1>6, <2>1, <2>2 DEF SignalReturns, Top
    <2>4. s \in Seq(FrameSet) /\ s # <<>> /\ frames \in [Processes -> Seq(FrameSet)]
      BY <2>1, <2>3 DEF IInv, FramesTyped, CallPlaces
    <2>5. /\ Last(s) = s[Len(s)] /\ t \in Seq(FrameSet) /\ Len(t) = Len(s) - 1
          /\ \A i \in 1..(Len(s) - 1) : t[i] = s[i]
      BY <2>2, <2>4, TopOf
    <2>6. /\ DOMAIN t = 1..(Len(s) - 1) /\ DOMAIN s = 1..Len(s) /\ Len(s) \in Nat
      BY <2>4, <2>5
    <2>7. frames'[p] = t /\ \A q \in Processes : q # p => frames'[q] = frames[q]
      BY <2>3, <2>4
    <2>8. ASSUME NEW f, Derives(f) PROVE Derives(f)'
      <3>1. PICK q \in Processes : \E i \in DOMAIN frames[q] :
               frames[q][i].event = f /\ frames[q][i].left # <<>>
        BY <2>8 DEF Derives
      <3>2. CASE q = p
        <4>1. PICK i \in DOMAIN s : s[i].event = f /\ s[i].left # <<>>
          BY <2>1, <3>1, <3>2
        <4>2. i \in DOMAIN t /\ t[i] = s[i]
          BY <2>3, <2>5, <2>6, <4>1
        <4> QED
          BY <2>7, <4>1, <4>2 DEF Derives
      <3>3. CASE q # p
        BY <2>7, <3>1, <3>3 DEF Derives
      <3> QED
        BY <3>2, <3>3
    <2> QED
      BY <2>3, <2>8, DerivedStays
  <1>7. ASSUME NEW p \in Processes, AnyPush(p) PROVE Derived'
    <2>1. PICK s : s = Listed[built + 1]
      OBVIOUS
    <2>2. /\ \/ /\ signalled[s] /\ signalled' = [signalled EXCEPT ![AnyEvent] = TRUE]
                /\ raises' = [raises EXCEPT ![AnyEvent] =
                                  IF signalled[AnyEvent] THEN @ ELSE @ + 1]
             \/ ~signalled[s] /\ UNCHANGED <<signalled, raises>>
          /\ deps' = [deps EXCEPT ![s] = Append(@, AnyEvent)]
          /\ built' = built + 1 /\ at[p] = "anyPush" /\ UNCHANGED frames
      BY <1>7, <2>1 DEF AnyPush, FoundSignalled, Links
    <2>3. built < Len(Listed) /\ s \in Events /\ built \in Nat
      BY <1>0, <2>1, <2>2 DEF IInv, OneBuilds, Builds
    <2>4. \A i \in 1..built : deps[Listed[i]] # <<>>
      BY DEF IInv, Derived
    <2>5. deps'[s] # <<>> /\ \A f \in Events : deps[f] # <<>> => deps'[f] # <<>>
      <3>1. deps \in [Events -> Seq({AnyEvent})]
        BY DEF IInv, TypeOK
      <3>2. Append(deps[s], AnyEvent) # <<>>
        <4>1. deps[s] \in Seq({AnyEvent})
          BY <2>3, <3>1
        <4> QED
          BY <4>1, AppendProperties
      <3> QED
        BY <2>2, <2>3, <3>1, <3>2
    <2>6. \A i \in 1..built' : i \in 1..built \/ i = built + 1
      BY <2>2, <2>3
    <2>7. \A i \in 1..built' : deps'[Listed[i]] # <<>>
      <3>1. \A i \in 1..built : Listed[i] \in Events
        BY <1>0
      <3> QED
        BY <2>1, <2>4, <2>5, <2>6, <3>1
    <2>8. CASE signalled[s]
      <3>1. raises'[AnyEvent] > 0
        BY <1>0, <2>2, <2>8 DEF IInv, Derived
      <3> QED
        BY <2>7, <3>1 DEF Derived
    <2>9. CASE ~signalled[s]
      BY <1>a, <2>1, <2>2, <2>6, <2>7, <2>9 DEF IInv, Derived
    <2> QED
      BY <2>8, <2>9
  <1>8. CASE UNCHANGED <<built, deps, raises, signalled, frames>>
    BY <1>8, <1>a, DerivedStays
  <1>9. ASSUME NEW p \in Processes, Wake(p) \/ AnyCall(p) \/ AnyLock(p)
        PROVE  Derived'
    BY <1>8, <1>9 DEF Wake, AnyCall, AnyLock
  <1>10. ASSUME NEW p \in Processes, NEW e \in Events, Wait(p, e) PROVE Derived'
    BY <1>1, <1>10 DEF Wait
  <1> QED
    BY <1>2, <1>3, <1>4, <1>5, <1>6, <1>7, <1>8, <1>9, <1>10 DEF Next, Quiescent, vars

-----------------------------------------------------------------------------
LEMMA CountersHold == Spec => []Counters
  <1>1. CInv => Counters
    BY DEF CInv
  <1> QED
    BY <1>1, InitCInv, NextCInv, PTL DEF Spec

LEMMA IInvHolds == Spec => []IInv
  <1>1. IInv /\ Counters' /\ [Next]_vars => IInv'
    BY StructureStep, UnmissedStep, DerivedStep DEF IInv, Structure
  <1> QED
    BY <1>1, InitIInv, CountersHold, PTL DEF Spec

\* The variables of the events and their condition variables keep their types, the
\* unsigned waitingNum among them.
THEOREM TypeCorrect == Spec => []TypeOK
  <1>1. IInv => TypeOK
    BY DEF IInv
  <1> QED
    BY <1>1, IInvHolds, PTL

\* conditionvariable.hpp:51-55: whoever enters and leaves wait() in whatever order,
\* waitingNum counts the fibers of the list and the threads together.
THEOREM WaitersAreCounted == Spec => []WaitersCounted
  <1>1. IInv => WaitersCounted
    BY DEF IInv
  <1> QED
    BY <1>1, IInvHolds, PTL

\* No wait() misses a signal, of a Manual event or of an Auto event, whoever signals,
\* tests or clears meanwhile: somebody awake will see it, or nobody is suspended.
THEOREM NoSignalIsMissed == Spec => []NoMissedSignal
  <1>1. IInv => NoMissedSignal
    <2> SUFFICES ASSUME IInv, NEW e \in Events, lock[e] = Nobody, signalled[e],
                        Suspended(e) # {}
                 PROVE  /\ e \in AutoEvents
                        /\ \E p \in Processes : on[p] = e /\ status[p] = "ready"
      BY DEF NoMissedSignal
    <2>1. PICK p \in Processes : on[p] = e /\ status[p] # "suspended" /\ e \in AutoEvents
      BY DEF IInv, Unmissed
    <2>2. CASE status[p] = "running"
      <3>1. at[p] = "check"
        BY <2>1, <2>2, CvAssumption DEF IInv, CallPlaces, Events
      <3>2. lock[e] = p
        BY <2>1, <3>1 DEF IInv, MutexHeld, Holds
      <3> QED
        BY <3>2, CvAssumption
    <2>3. CASE status[p] # "running"
      BY <2>1, <2>3 DEF IInv, TypeOK, CvTypeOK
    <2> QED
      BY <2>2, <2>3
  <1> QED
    BY <1>1, IInvHolds, PTL

\* any() misses no signal of an event that it has been through, also not one raised
\* while it goes through its list.
THEOREM AnySeesEverySignal == Spec => []AnyMissesNothing
  <1>1. IInv => AnyMissesNothing
    <2> SUFFICES ASSUME IInv, NEW i \in 1..built, lock[Listed[i]] = Nobody,
                        signalled[Listed[i]], ~(raises[AnyEvent] > 0)
                 PROVE  FALSE
      BY DEF AnyMissesNothing
    <2>1. PICK p \in Processes : \E j \in DOMAIN frames[p] :
             frames[p][j].event = Listed[i]
      BY DEF IInv, Derived, Derives
    <2>2. lock[Listed[i]] = p
      BY <2>1 DEF IInv, MutexHeld, Holds
    <2> QED
      BY <2>2, CvAssumption
  <1> QED
    BY <1>1, IInvHolds, PTL

-----------------------------------------------------------------------------
(* The mutexes nest, but in no circle. *)

\* A mutex is held by a call only: converse of Holds.
HeldBy(e, p) ==
  \/ at[p] = "check" /\ on[p] = e
  \/ at[p] = "anyPush" /\ Listed[built + 1] = e
  \/ \E i \in DOMAIN frames[p] : frames[p][i].event = e

HeldInCalls == \A e \in Events : \A p \in Processes : lock[e] = p => HeldBy(e, p)

\* Nothing is derived from the event of any(): its signal() goes on to no other.
AnyIsLast ==
  /\ deps[AnyEvent] = <<>>
  /\ \A p \in Processes : \A i \in DOMAIN frames[p] :
        frames[p][i].event = AnyEvent => i = Len(frames[p]) /\ frames[p][i].left = <<>>

LInv == HeldInCalls /\ AnyIsLast

LEMMA InitLInv == Init => LInv
  BY EventAssumption, CvAssumption
  DEF Init, CvInit, Events, LInv, HeldInCalls, AnyIsLast

\* Who keeps its place and its frames keeps its claim.
LEMMA ClaimStays ==
  ASSUME NEW q, NEW e, HeldBy(e, q), at'[q] = at[q], on'[q] = on[q], frames'[q] = frames[q],
         at[q] = "anyPush" => built' = built
  PROVE  HeldBy(e, q)'
  BY DEF HeldBy

LEMMA AnyIsLastStays ==
  ASSUME AnyIsLast, UNCHANGED <<deps, frames>>
  PROVE  AnyIsLast'
  BY DEF AnyIsLast

LEMMA LockStep ==
  ASSUME IInv, LInv, NEW p \in Processes, NEW e \in Events, NEW v,
         lock' = [lock EXCEPT ![e] = v], v = Nobody \/ (v = p /\ HeldBy(e, p)'),
         \A f \in Events : f # e /\ HeldBy(f, p) => HeldBy(f, p)',
         \A q \in Processes : q # p => /\ at'[q] = at[q] /\ on'[q] = on[q]
                                       /\ frames'[q] = frames[q]
                                       /\ (at[q] = "anyPush" => built' = built)
  PROVE  HeldInCalls'
  <1> SUFFICES ASSUME NEW f \in Events, NEW q \in Processes, lock'[f] = q
               PROVE  HeldBy(f, q)'
    BY DEF HeldInCalls
  <1>1. lock \in [Events -> Processes \cup {Nobody}] /\ Nobody \notin Processes
    BY CvAssumption DEF IInv, TypeOK, CvTypeOK, Events
  <1>2. CASE f = e
    BY <1>1, <1>2
  <1>3. CASE f # e
    <2>1. lock[f] = q
      BY <1>1, <1>3
    <2>2. HeldBy(f, q)
      BY <2>1 DEF LInv, HeldInCalls
    <2> QED
      BY <1>3, <2>2, ClaimStays
  <1> QED
    BY <1>2, <1>3

\* A step that leaves the mutexes alone.
LEMMA NoLockStep ==
  ASSUME IInv, LInv, UNCHANGED lock,
         \A f \in Events, q \in Processes : HeldBy(f, q) => HeldBy(f, q)'
  PROVE  HeldInCalls'
  BY DEF LInv, HeldInCalls

\* p evaluates the event e, in wait() or when it is awake again.
LEMMA EvaluateLInv ==
  ASSUME IInv, LInv, NEW p \in Processes, NEW e \in Events, Evaluate(p, e),
         at[p] = "idle" \/ (at[p] = "check" /\ on[p] = e), UNCHANGED <<deps, frames, built>>
  PROVE  LInv'
  <1>1. /\ ListsTyped /\ WaitersCounted
        /\ at \in [Processes -> {"idle", "check", "asleep", "signal", "any", "anyPush"}]
    BY DEF IInv, TypeOK, CvTypeOK, ListsTyped
  <1>2. lock' = [lock EXCEPT ![e] = Nobody]
    BY DEF Evaluate, Sleep, Unlocks
  <1>3. \A q \in Processes : q # p => at'[q] = at[q] /\ on'[q] = on[q]
    <2>1. \E c : on' = [on EXCEPT ![p] = c]
      BY <1>1, ExitCounted, EnterCounted DEF Evaluate, Events
    <2>2. \E l : at' = [at EXCEPT ![p] = l]
      BY DEF Evaluate, Goto
    <2> QED
      BY <1>1, <2>1, <2>2 DEF ListsTyped
  <1>4. \A f \in Events : f # e => ~HeldBy(f, p)
    BY DEF HeldBy, IInv, CallPlaces
  <1>5. HeldInCalls'
    BY <1>2, <1>3, <1>4, LockStep
  <1> QED
    BY <1>5, AnyIsLastStays DEF LInv

LEMMA SignalLInv ==
  ASSUME IInv, LInv, NEW p \in Processes, NEW e \in Events, Signal(p, e)
  PROVE  LInv'
  <1> USE DEF IInv
  <1>1. /\ at[p] = "idle" /\ lock' = [lock EXCEPT ![e] = p] /\ UNCHANGED <<on, deps, built>>
        /\ frames' = [frames EXCEPT ![p] = <<Frame(e)>>]
        /\ at' = [at EXCEPT ![p] = "signal"]
    BY DEF Signal, Calls, Raise, Locks, Goto
  <1>2. /\ frames'[p] = <<Frame(e)>> /\ frames[p] = <<>>
        /\ \A q \in Processes : q # p => frames'[q] = frames[q] /\ at'[q] = at[q]
    BY <1>1 DEF FramesTyped, CallPlaces, TypeOK
  <1>3. DOMAIN frames'[p] = {1} /\ frames'[p][1] = Frame(e) /\ Len(frames'[p]) = 1
    BY <1>2
  <1>4. HeldInCalls'
    <2>1. HeldBy(e, p)'
      BY <1>3 DEF HeldBy, Frame
    <2>2. \A f \in Events : ~HeldBy(f, p)
      BY <1>1, <1>2 DEF HeldBy
    <2> QED
      BY <1>1, <1>2, <2>1, <2>2, LockStep
  <1>5. AnyIsLast'
    <2>1. Frame(e).event = e /\ Frame(e).left = deps[e] /\ deps[AnyEvent] = <<>>
      BY DEF Frame, LInv, AnyIsLast
    <2>2. \A i \in DOMAIN frames'[p] : frames'[p][i].event = AnyEvent =>
              i = Len(frames'[p]) /\ frames'[p][i].left = <<>>
      BY <1>3, <2>1
    <2> QED
      BY <1>1, <1>2, <2>2 DEF LInv, AnyIsLast
  <1> QED
    BY <1>4, <1>5 DEF LInv

LEMMA SignalDepLInv ==
  ASSUME IInv, LInv, NEW p \in Processes, SignalDep(p)
  PROVE  LInv'
  <1> USE EventAssumption DEF IInv
  <1>1. PICK rest : rest = Append(Front(frames[p]), [Top(p) EXCEPT !.left = Tail(@)])
    OBVIOUS
  <1>2. /\ at[p] = "signal" /\ Top(p).left # <<>>
        /\ UNCHANGED <<on, deps, at, built>>
    BY DEF SignalDep
  <1>3. /\ Head(Top(p).left) = AnyEvent
        /\ rest \in Seq(FrameSet) /\ Len(rest) = Len(frames[p])
        /\ \A i \in DOMAIN frames[p] : rest[i].event = frames[p][i].event
    BY <1>1, <1>2, NextDep
  <1>4. /\ frames[p] \in Seq(FrameSet) /\ frames[p] # <<>>
        /\ Top(p) = frames[p][Len(frames[p])]
    BY <1>2, TopOf DEF FramesTyped, CallPlaces, Top
  <1>5. /\ DOMAIN rest = 1..Len(rest) /\ DOMAIN frames[p] = 1..Len(rest) /\ Len(rest) \in Nat
    BY <1>3, <1>4
  <1>6. \A i \in 1..Len(rest) : rest[i].event # AnyEvent
    BY <1>2, <1>3, <1>4, <1>5 DEF LInv, AnyIsLast
  <1>7. CASE /\ Raise(p, AnyEvent)
             /\ frames' = [frames EXCEPT ![p] = Append(rest, Frame(AnyEvent))]
    <2>0. PICK top : top = Frame(AnyEvent)
      OBVIOUS
    <2>1. /\ top.event = AnyEvent /\ top.left = <<>>
      BY <2>0 DEF Frame, LInv, AnyIsLast
    <2>2. /\ frames'[p] = Append(rest, top)
          /\ \A q \in Processes : q # p => frames'[q] = frames[q]
      BY <1>7, <2>0 DEF FramesTyped
    <2>3. PICK s : s = frames'[p]
      OBVIOUS
    <2>4. /\ DOMAIN s = 1..(Len(rest) + 1) /\ Len(s) = Len(rest) + 1
          /\ s[Len(rest) + 1] = top
          /\ \A i \in 1..Len(rest) : s[i] = rest[i]
      BY <1>3, <1>5, <2>2, <2>3
    <2>5. HeldInCalls'
      <3>1. lock' = [lock EXCEPT ![AnyEvent] = p]
        BY <1>7 DEF Raise, Locks
      <3>2. HeldBy(AnyEvent, p)'
        BY <1>5, <2>1, <2>3, <2>4 DEF HeldBy
      <3>3. ASSUME NEW f \in Events, HeldBy(f, p) PROVE HeldBy(f, p)'
        <4>1. PICK i \in 1..Len(rest) : frames[p][i].event = f
          BY <1>2, <1>5, <3>3 DEF HeldBy
        <4>2. i \in DOMAIN s /\ s[i].event = f
          BY <1>3, <1>5, <2>4, <4>1
        <4> QED
          BY <2>3, <4>2 DEF HeldBy
      <3> QED
        BY <1>2, <2>2, <3>1, <3>2, <3>3, LockStep
    <2>6. \A i \in DOMAIN s : s[i].event = AnyEvent => i = Len(s) /\ s[i].left = <<>>
      BY <1>5, <1>6, <2>1, <2>4
    <2>7. AnyIsLast'
      BY <1>2, <2>2, <2>3, <2>6 DEF LInv, AnyIsLast
    <2> QED
      BY <2>5, <2>7 DEF LInv
  <1>8. CASE frames' = [frames EXCEPT ![p] = rest] /\ UNCHANGED lock
    <2>1. frames'[p] = rest /\ \A q \in Processes : q # p => frames'[q] = frames[q]
      BY <1>8 DEF FramesTyped
    <2>2. HeldInCalls'
      <3>1. ASSUME NEW f \in Events, NEW q \in Processes, HeldBy(f, q) PROVE HeldBy(f, q)'
        <4>1. CASE q = p
          <5>1. PICK i \in 1..Len(rest) : frames[p][i].event = f
            BY <1>2, <1>5, <3>1, <4>1 DEF HeldBy
          <5>2. i \in DOMAIN rest /\ rest[i].event = f
            BY <1>3, <1>5, <5>1
          <5> QED
            BY <2>1, <4>1, <5>2 DEF HeldBy
        <4>2. CASE q # p
          BY <1>2, <2>1, <3>1, <4>2, ClaimStays
        <4> QED
          BY <4>1, <4>2
      <3> QED
        BY <1>8, <3>1, NoLockStep
    <2>3. AnyIsLast'
      BY <1>2, <1>5, <1>6, <2>1 DEF LInv, AnyIsLast
    <2> QED
      BY <2>2, <2>3 DEF LInv
  <1> QED
    BY <1>1, <1>3, <1>7, <1>8 DEF SignalDep

LEMMA SignalReturnsLInv ==
  ASSUME IInv, LInv, NEW p \in Processes, SignalReturns(p)
  PROVE  LInv'
  <1> USE DEF IInv
  <1>1. PICK s : s = frames[p]
    OBVIOUS
  <1>2. PICK t : t = Front(s)
    OBVIOUS
  <1>3. PICK e : e = Last(s).event
    OBVIOUS
  <1>4. /\ at[p] = "signal" /\ UNCHANGED <<on, deps, built>>
        /\ lock' = [lock EXCEPT ![e] = Nobody]
        /\ frames' = [frames EXCEPT ![p] = t]
        /\ \E l : at' = [at EXCEPT ![p] = l]
    BY <1>1, <1>2, <1>3 DEF SignalReturns, Top, Unlocks, Goto
  <1>5. /\ s \in Seq(FrameSet) /\ s # <<>> /\ frames \in [Processes -> Seq(FrameSet)]
        /\ \A q \in Processes : q # p => at'[q] = at[q]
    BY <1>1, <1>4 DEF FramesTyped, CallPlaces, TypeOK
  <1>6. /\ Last(s) \in FrameSet /\ Last(s) = s[Len(s)]
        /\ t \in Seq(FrameSet) /\ Len(t) = Len(s) - 1
        /\ \A i \in 1..(Len(s) - 1) : t[i] = s[i]
    BY <1>2, <1>5, TopOf
  <1>7. DOMAIN t = 1..(Len(s) - 1) /\ DOMAIN s = 1..Len(s) /\ Len(s) \in Nat
    BY <1>5, <1>6
  <1>8. frames'[p] = t /\ \A q \in Processes : q # p => frames'[q] = frames[q]
    BY <1>4, <1>5
  <1>9. e \in Events
    BY <1>3, <1>6 DEF FrameSet
  <1>10. ASSUME NEW f \in Events, f # e, HeldBy(f, p) PROVE HeldBy(f, p)'
    <2>1. PICK i \in DOMAIN s : s[i].event = f
      BY <1>1, <1>4, <1>10 DEF HeldBy
    <2>2. i \in DOMAIN t /\ t[i] = s[i]
      BY <1>3, <1>6, <1>7, <1>10, <2>1
    <2> QED
      BY <1>8, <2>1, <2>2 DEF HeldBy
  <1>11. HeldInCalls'
    BY <1>4, <1>5, <1>8, <1>9, <1>10, LockStep
  <1>12. \A i \in DOMAIN t : t[i].event # AnyEvent
    BY <1>1, <1>6, <1>7 DEF LInv, AnyIsLast
  <1>13. AnyIsLast'
    BY <1>4, <1>8, <1>12 DEF LInv, AnyIsLast
  <1> QED
    BY <1>11, <1>13 DEF LInv

LEMMA WakeLInv ==
  ASSUME IInv, LInv, NEW p \in Processes, Wake(p)
  PROVE  LInv'
  <1> USE DEF IInv
  <1>1. /\ at[p] = "asleep" /\ UNCHANGED <<on, deps, frames, built>>
        /\ lock' = [lock EXCEPT ![on[p]] = p] /\ at' = [at EXCEPT ![p] = "check"]
    BY DEF Wake, Wakes, Locks, Goto
  <1>2. /\ on[p] \in Events /\ frames[p] = <<>> /\ at'[p] = "check"
        /\ \A q \in Processes : q # p => at'[q] = at[q]
    BY <1>1 DEF CallPlaces, TypeOK, CvTypeOK, Events
  <1>3. HeldBy(on[p], p)'
    BY <1>1, <1>2 DEF HeldBy
  <1>4. \A f \in Events : ~HeldBy(f, p)
    BY <1>1, <1>2 DEF HeldBy
  <1>5. HeldInCalls'
    BY <1>1, <1>2, <1>3, <1>4, LockStep
  <1> QED
    BY <1>1, <1>5, AnyIsLastStays DEF LInv

LEMMA AnyLockLInv ==
  ASSUME IInv, LInv, NEW p \in Processes, AnyLock(p)
  PROVE  LInv'
  <1> USE EventAssumption DEF IInv
  <1>1. PICK s : s = Listed[built + 1]
    OBVIOUS
  <1>2. /\ at[p] = "any" /\ UNCHANGED <<on, deps, frames, built>>
        /\ lock' = [lock EXCEPT ![s] = p] /\ at' = [at EXCEPT ![p] = "anyPush"]
    BY <1>1 DEF AnyLock, Locks, Goto
  <1>3. /\ frames[p] = <<>> /\ at'[p] = "anyPush"
        /\ \A q \in Processes : q # p => at'[q] = at[q]
    BY <1>2 DEF CallPlaces, TypeOK
  <1>4. s \in Events
    BY <1>1, <1>2 DEF OneBuilds, Builds, TypeOK
  <1>5. HeldBy(s, p)'
    BY <1>1, <1>2, <1>3 DEF HeldBy
  <1>6. \A f \in Events : ~HeldBy(f, p)
    BY <1>2, <1>3 DEF HeldBy
  <1>7. HeldInCalls'
    BY <1>2, <1>3, <1>4, <1>5, <1>6, LockStep
  <1> QED
    BY <1>2, <1>7, AnyIsLastStays DEF LInv

LEMMA AnyPushLInv ==
  ASSUME IInv, LInv, NEW p \in Processes, AnyPush(p)
  PROVE  LInv'
  <1> USE EventAssumption DEF IInv
  <1>1. PICK s : s = Listed[built + 1]
    OBVIOUS
  <1>2. /\ at[p] = "anyPush" /\ UNCHANGED <<on, frames>>
        /\ lock' = [lock EXCEPT ![s] = Nobody]
        /\ deps' = [deps EXCEPT ![s] = Append(@, AnyEvent)]
        /\ \E l : at' = [at EXCEPT ![p] = l]
    BY <1>1 DEF AnyPush, Links, Unlocks, Goto
  <1>3. /\ frames[p] = <<>>
        /\ \A q \in Processes : q # p => at'[q] = at[q] /\ at[q] # "anyPush"
    BY <1>2 DEF CallPlaces, TypeOK, OneBuilds, Builds
  <1>4. s \in Events \ {AnyEvent}
    BY <1>1, <1>2 DEF OneBuilds, Builds, TypeOK
  <1>5. \A f \in Events : f # s => ~HeldBy(f, p)
    BY <1>1, <1>2, <1>3 DEF HeldBy
  <1>6. HeldInCalls'
    BY <1>2, <1>3, <1>4, <1>5, LockStep
  <1>7. deps'[AnyEvent] = deps[AnyEvent]
    BY <1>2, <1>4 DEF TypeOK
  <1>8. AnyIsLast'
    BY <1>2, <1>7 DEF LInv, AnyIsLast
  <1> QED
    BY <1>6, <1>8 DEF LInv

LEMMA LInvStep == IInv /\ LInv /\ [Next]_vars => LInv'
  <1> SUFFICES ASSUME IInv, LInv, [Next]_vars PROVE LInv'
    OBVIOUS
  <1>1. ASSUME NEW p \in Processes, NEW e \in Events, Wait(p, e) PROVE LInv'
    BY <1>1, EvaluateLInv DEF Wait, Calls
  <1>2. ASSUME NEW p \in Processes, Check(p) PROVE LInv'
    <2>1. on[p] \in Events
      BY <1>2 DEF Check, IInv, TypeOK, CvTypeOK, CallPlaces, Events
    <2> QED
      BY <1>2, <2>1, EvaluateLInv DEF Check
  <1>3. ASSUME UNCHANGED <<lock, on, at, frames, built, deps>> PROVE LInv'
    BY <1>3, AnyIsLastStays, NoLockStep DEF LInv, HeldBy
  <1>4. ASSUME NEW p \in Processes, AnyCall(p) PROVE LInv'
    <2>1. /\ at[p] = "idle" /\ at' = [at EXCEPT ![p] = "any"]
          /\ UNCHANGED <<lock, on, frames, built, deps>>
      BY <1>4 DEF AnyCall, Goto, cvVars
    <2>2. \A f, q : HeldBy(f, q) => HeldBy(f, q)'
      BY <2>1 DEF HeldBy, IInv, TypeOK
    <2> QED
      BY <2>1, <2>2, AnyIsLastStays, NoLockStep DEF LInv
  <1>5. ASSUME NEW p \in Processes, NEW e \in Events, Test(p, e) \/ Clear(p, e) PROVE LInv'
    BY <1>3, <1>5 DEF Test, Clear, cvVars
  <1> QED
    BY <1>1, <1>2, <1>3, <1>4, <1>5, SignalLInv, SignalDepLInv, SignalReturnsLInv,
       WakeLInv, AnyLockLInv, AnyPushLInv
    DEF Next, Quiescent, vars, cvVars

\* Who waits for a mutex while it holds one waits for that of the event of any(); who
\* holds that one waits for none.  So there is no circle, for whatever calls and list.
LEMMA NoCircle == IInv /\ LInv => NoLockCircle
  <1> SUFFICES ASSUME IInv, LInv, NEW S \in (SUBSET Processes) \ {{}},
                      \A p \in S : \E e \in Wanted(p) : lock[e] \in S
               PROVE  FALSE
    BY DEF NoLockCircle
  <1> USE EventAssumption DEF IInv
  <1>1. ASSUME NEW p \in S PROVE Wanted(p) \subseteq Events
    <2>1. at[p] \in {"asleep", "any", "anyPush", "signal"} =>
              \/ at[p] = "asleep" /\ on[p] \in Events
              \/ at[p] \in {"any", "anyPush"} /\ Listed[built + 1] \in Events
              \/ at[p] = "signal" /\ (Top(p).left # <<>> => Head(Top(p).left) = AnyEvent)
      <3>1. at[p] = "asleep" => on[p] \in Events
        BY DEF CallPlaces, TypeOK, CvTypeOK, Events
      <3>2. at[p] \in {"any", "anyPush"} => Listed[built + 1] \in Events
        BY DEF OneBuilds, Builds, TypeOK
      <3>3. at[p] = "signal" /\ Top(p).left # <<>> => Head(Top(p).left) = AnyEvent
        BY NextDep
      <3> QED
        BY <3>1, <3>2, <3>3
    <2> QED
      BY <2>1 DEF Wanted
  <1>2. ASSUME NEW q \in S, NEW e \in Events, lock[e] = q
        PROVE  e # AnyEvent /\ Wanted(q) = {AnyEvent}
    <2>1. q \in Processes /\ HeldBy(e, q) /\ Wanted(q) # {}
      BY <1>2 DEF LInv, HeldInCalls
    <2>2. CASE at[q] = "check"
      BY <2>1, <2>2 DEF Wanted
    <2>3. CASE at[q] = "anyPush"
      <3>1. frames[q] = <<>> /\ e = Listed[built + 1]
        BY <2>1, <2>3 DEF HeldBy, CallPlaces
      <3>2. Listed[built + 1] # AnyEvent
        BY <2>1, <2>3 DEF OneBuilds, Builds, TypeOK
      <3> QED
        BY <2>1, <2>3, <3>1, <3>2 DEF Wanted
    <2>4. CASE at[q] = "signal"
      <3>1. Top(q).left # <<>>
        BY <2>1, <2>4 DEF Wanted
      <3>2. Wanted(q) = {AnyEvent}
        BY <2>1, <2>4, <3>1, NextDep DEF Wanted
      <3>3. /\ frames[q] \in Seq(FrameSet) /\ frames[q] # <<>>
            /\ Top(q) = frames[q][Len(frames[q])]
        BY <2>1, <2>4, TopOf DEF FramesTyped, CallPlaces, Top
      <3>4. \A i \in DOMAIN frames[q] : frames[q][i].event # AnyEvent
        BY <2>1, <3>1, <3>3 DEF LInv, AnyIsLast
      <3>5. \E i \in DOMAIN frames[q] : frames[q][i].event = e
        BY <2>1, <2>4 DEF HeldBy
      <3> QED
        BY <3>2, <3>4, <3>5
    <2>5. at[q] \in {"check", "anyPush", "signal"}
      BY <2>1 DEF HeldBy, CallPlaces
    <2> QED
      BY <2>2, <2>3, <2>4, <2>5
  <1>3. PICK p \in S : TRUE
    OBVIOUS
  <1>4. PICK e \in Events : lock[e] \in S
    BY <1>1, <1>3
  <1>5. lock[AnyEvent] \in S
    BY <1>2, <1>4
  <1> QED
    BY <1>2, <1>5

\* event.hpp:141-143, 231-233: signal() and any() lock one event after another and
\* never wait for each other in a circle, whoever calls them on whichever events.
THEOREM LocksDoNotCircle == Spec => []NoLockCircle
  <1>1. LInv /\ IInv /\ [Next]_vars => LInv'
    BY LInvStep
  <1> QED
    BY <1>1, InitLInv, IInvHolds, NoCircle, PTL DEF Spec
=============================================================================
