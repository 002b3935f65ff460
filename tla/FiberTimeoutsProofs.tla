------------------------- MODULE FiberTimeoutsProofs -------------------------
(***************************************************************************)
(* Proof that no wait loses its timer.                                     *)
(***************************************************************************)
EXTENDS FiberTimeouts, TLAPS

LEMMA NodeType ==
    ASSUME waiting \in Containers, NEW t \in waiting.timeouts
    PROVE  t \in [timepoint : Time, fiber : Fibers]
    BY DEF Containers

LEMMA TypeStep == TypeOK /\ [Next]_vars => TypeOK'
<1> SUFFICES ASSUME TypeOK, [Next]_vars PROVE TypeOK'
    OBVIOUS
<1> USE DEF TypeOK
<1>1. ASSUME NEW f \in Fibers, NEW tp \in Time, Suspend(f, tp) PROVE TypeOK'
    BY <1>1 DEF Suspend, add, Timeout, Containers
<1>2. ASSUME NEW f \in Fibers, Notify(f) PROVE TypeOK'
    BY <1>2 DEF Notify, BecomesDue, erase, Containers
<1>3. ASSUME NEW t \in waiting.timeouts, TakeExpired(t) PROVE TypeOK'
    BY <1>3, NodeType DEF TakeExpired, BecomesDue, afterTake, Containers
<1>6. ASSUME NEW f \in Fibers, Wake(f) \/ Resume(f) PROVE TypeOK'
    BY <1>6 DEF Wake, Resume, BecomesDue
<1>4. CASE Tick
    BY <1>4, ContainerAssumption DEF Tick, Time
<1>5. CASE UNCHANGED vars
    BY <1>5 DEF vars
<1> QED
    BY <1>1, <1>2, <1>3, <1>4, <1>5, <1>6 DEF Next

LEMMA TimerStep == TypeOK /\ NoTimerLost /\ [Next]_vars => NoTimerLost'
<1> SUFFICES ASSUME TypeOK, NoTimerLost, [Next]_vars, NEW g \in Fibers, until'[g] # NoTime
             PROVE  /\ Timeout(until'[g], g) \in waiting'.timeouts
                    /\ contains(waiting', g)
    BY DEF NoTimerLost
<1> DEFINE Goal == /\ Timeout(until'[g], g) \in waiting'.timeouts
                   /\ contains(waiting', g)
<1> USE DEF contains
<1>0. /\ waiting \in Containers /\ until \in [Fibers -> Time \cup {NoTime}]
      /\ until[g] # NoTime => /\ Timeout(until[g], g) \in waiting.timeouts
                              /\ contains(waiting, g)
    BY DEF TypeOK, NoTimerLost
<1>1. ASSUME NEW f \in Fibers, NEW tp \in Time, Suspend(f, tp) PROVE Goal
  <2>1. waiting' = add(waiting, tp, f)
      BY <1>1 DEF Suspend
  <2>2. tp # NoTime
      BY DEF Time, NoTime
  <2>3. CASE until' = [until EXCEPT ![f] = tp] /\ g = f
      BY <1>0, <2>1, <2>2, <2>3 DEF add, Containers
  <2>4. CASE until'[g] = until[g]
      BY <1>0, <2>1, <2>4 DEF add, Containers
  <2> QED
      BY <1>0, <1>1, <2>3, <2>4 DEF Suspend
<1>2. ASSUME NEW f \in Fibers, BecomesDue(f) PROVE g # f /\ until'[g] = until[g]
    BY <1>0, <1>2 DEF BecomesDue
<1>3. ASSUME NEW f \in Fibers, Notify(f) PROVE Goal
  <2>1. waiting' = erase(waiting, f) /\ g # f /\ until'[g] = until[g]
      BY <1>2, <1>3 DEF Notify
  <2>2. \A tp : Timeout(tp, f) # Timeout(until[g], g)
      BY <2>1 DEF Timeout
  <2> QED
      BY <1>0, <2>1, <2>2 DEF erase, Containers
<1>4. ASSUME NEW t \in waiting.timeouts, TakeExpired(t) PROVE Goal
  <2>1. t.fiber \in Fibers
      BY <1>0, NodeType
  <2>2. waiting' = afterTake(waiting, t) /\ g # t.fiber /\ until'[g] = until[g]
      BY <1>2, <1>4, <2>1 DEF TakeExpired
  <2> QED
      BY <1>0, <2>2 DEF afterTake, Containers
<1>5. ASSUME NEW f \in Fibers, Wake(f) \/ Resume(f) PROVE Goal
    BY <1>0, <1>2, <1>5 DEF Wake, Resume
<1>6. CASE Tick \/ UNCHANGED vars
    BY <1>0, <1>6 DEF Tick, vars
<1> QED
    BY <1>1, <1>3, <1>4, <1>5, <1>6 DEF Next

LEMMA InitTypes == Init => TypeOK /\ NoTimerLost
<1> SUFFICES ASSUME Init PROVE TypeOK /\ NoTimerLost
    OBVIOUS
<1> QED
    BY ContainerAssumption DEF Init, TypeOK, NoTimerLost, Time, none, Containers

\* The container and what surrounds it keep their types.
THEOREM TypeCorrect == Spec => []TypeOK
    BY InitTypes, TypeStep, PTL DEF Spec

\* Whatever add, erase and take leave behind in the container (stale nodes, stale
\* entries of the map), a fiber that waits has its timer in it.
THEOREM TimersKept == Spec => []NoTimerLost
    BY InitTypes, TypeStep, TimerStep, PTL DEF Spec

\* Hence the first time point in the container is not later than any deadline, so
\* a worker that sleeps until then does not oversleep.
THEOREM FirstIsNotLate == Spec => []FirstNotLate
<1>1. TypeOK /\ NoTimerLost => FirstNotLate
  <2> SUFFICES ASSUME TypeOK, NoTimerLost,
                      NEW f \in Fibers, until[f] # NoTime,
                      NEW t \in waiting.timeouts, isBegin(waiting, t)
               PROVE  t.timepoint <= until[f]
      BY DEF FirstNotLate
  <2> DEFINE u == Timeout(until[f], f)
  <2>1. u \in waiting.timeouts /\ u.timepoint = until[f]
      BY DEF NoTimerLost, Timeout
  <2>2. t = u \/ Less(t, u)
      BY <2>1 DEF isBegin
  <2>3. t.timepoint \in Time /\ until[f] \in Time
      BY NodeType DEF TypeOK
  <2> QED
      BY <2>1, <2>2, <2>3, ContainerAssumption DEF Less, Time
<1> QED
    BY <1>1, TypeCorrect, TimersKept, PTL
=============================================================================
