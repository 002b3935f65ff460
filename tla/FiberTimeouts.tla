---------------------------- MODULE FiberTimeouts ----------------------------
(***************************************************************************)
(* WaitingFibers driven the way Worker drives it: suspend(timeout) adds    *)
(* the running fiber, enqueue(fiber) erases a waiting fiber that is        *)
(* notified, enqueueFiberTimeouts() takes the expired ones.  The variable  *)
(* until is what a timer queue promises: the deadline of every fiber that  *)
(* really waits.  A fiber that was queued (perhaps twice, by its timeout   *)
(* and by a notification) is due until nothing of that is left to resume   *)
(* it, and needs no timer, even if it suspends again meanwhile.            *)
(***************************************************************************)
EXTENDS WaitingFibers

VARIABLES
    waiting,   \* the container
    until,     \* the deadline of each fiber that waits, else NoTime
    due,       \* the fibers that will be resumed anyway
    now        \* the clock

vars == <<waiting, until, due, now>>

Init ==
    /\ waiting = none
    /\ until = [f \in Fibers |-> NoTime]
    /\ due = {}
    /\ now = 0

\* Worker::suspend(timeout) by a fiber that runs, so that does not wait yet.
Suspend(f, tp) ==
    /\ until[f] = NoTime
    /\ waiting' = add(waiting, tp, f)
    /\ until' = IF f \in due THEN until ELSE [until EXCEPT ![f] = tp]
    /\ UNCHANGED <<due, now>>

BecomesDue(f) ==
    /\ until' = [until EXCEPT ![f] = NoTime]
    /\ due' = due \cup {f}
    /\ UNCHANGED now

\* Worker::enqueue(fiber) of a fiber in state Waiting.
Notify(f) == BecomesDue(f) /\ waiting' = erase(waiting, f)

\* One turn of Worker::enqueueFiberTimeouts() for which take() returns a fiber.
TakeExpired(t) ==
    /\ canTake(waiting, t, now)
    /\ BecomesDue(t.fiber)
    /\ waiting' = afterTake(waiting, t)

\* A fiber in another state is queued, or one is switched to that was left in
\* idleFibers by an entry too many.
Wake(f) == BecomesDue(f) /\ UNCHANGED waiting

\* The switch to a fiber takes the last entry of it.
Resume(f) ==
    /\ due' = due \ {f}
    /\ UNCHANGED <<waiting, until, now>>

Tick ==
    /\ now < MaxTime
    /\ now' = now + 1
    /\ UNCHANGED <<waiting, until, due>>

Next ==
    \/ \E f \in Fibers, tp \in Time : Suspend(f, tp)
    \/ \E f \in Fibers : Notify(f) \/ Wake(f) \/ Resume(f)
    \/ \E t \in waiting.timeouts : TakeExpired(t)
    \/ Tick

Spec == Init /\ [][Next]_vars

-----------------------------------------------------------------------------
\* The container, the deadlines and the clock keep their types.
TypeOK ==
    /\ waiting \in Containers
    /\ until \in [Fibers -> Time \cup {NoTime}]
    /\ due \subseteq Fibers
    /\ now \in Time

\* No wait loses its timer: whatever was erased or taken before, a fiber that
\* waits has a node under its current deadline in timeouts (the node that ends
\* the sleep of the worker), and operator bool() reports somebody waiting.
NoTimerLost ==
    \A f \in Fibers : until[f] # NoTime =>
        /\ Timeout(until[f], f) \in waiting.timeouts
        /\ contains(waiting, f)

\* first(), which bounds the sleep of Worker::Work::wait(), is never later than
\* the deadline of a fiber that waits, so no worker sleeps through a timeout.
FirstNotLate ==
    \A f \in Fibers : until[f] # NoTime =>
        \A t \in waiting.timeouts : isBegin(waiting, t) => t.timepoint <= until[f]
=============================================================================
