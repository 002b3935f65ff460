---------------------------- MODULE WaitingFibers ----------------------------
(***************************************************************************)
(* The container of fibers that wait with a timeout                        *)
(* (include/hfts/waitingfiber.hpp).  A value w of the container is a       *)
(* record: w.timeouts is the ordered set of Timeout nodes, w.fibers the    *)
(* map from a fiber to the time point of its entry, NoTime for no entry.   *)
(***************************************************************************)
EXTENDS Integers, FiniteSets

CONSTANTS
    Fibers,   \* the fibers of one worker, numbered as Worker numbers them
    MaxTime   \* bound of the clock and of every time point

ASSUME ContainerAssumption ==
    Fibers \subseteq Nat /\ IsFiniteSet(Fibers) /\ MaxTime \in Nat

Time == 0..MaxTime
NoTime == -1   \* no time point: a null timeout, an absent entry of the map

Timeout(tp, f) == [timepoint |-> tp, fiber |-> f]

Containers == [timeouts : SUBSET [timepoint : Time, fiber : Fibers],
               fibers   : [Fibers -> Time \cup {NoTime}]]

none == [timeouts |-> {}, fibers |-> [f \in Fibers |-> NoTime]]

\* operator< orders by time point, then by the address of the fiber.
Less(a, b) ==
    \/ a.timepoint < b.timepoint
    \/ a.timepoint = b.timepoint /\ a.fiber < b.fiber

contains(w, f) == w.fibers[f] # NoTime

\* operator bool() looks at the map only.
isWaiting(w) == \E f \in Fibers : contains(w, f)

-----------------------------------------------------------------------------
(* Variants of the operations that a slip in the code would give. *)

isBeginLast(w, t) == t \in w.timeouts /\ \A u \in w.timeouts : t = u \/ Less(u, t)

addOnce(w, tp, f) ==
    IF contains(w, f) THEN w
    ELSE [timeouts |-> w.timeouts \cup {Timeout(tp, f)},
          fibers   |-> [w.fibers EXCEPT ![f] = tp]]

-----------------------------------------------------------------------------
\* t is the node timeouts.begin() refers to.  When timeouts is empty there is
\* none, and the code that dereferences begin() is undefined.
isBegin(w, t) == t \in w.timeouts /\ \A u \in w.timeouts : t = u \/ Less(t, u)

\* emplace() leaves an entry of the map alone when the fiber already has one.
add(w, tp, f) ==
    [timeouts |-> w.timeouts \cup {Timeout(tp, f)},
     fibers   |-> IF contains(w, f) THEN w.fibers
                  ELSE [w.fibers EXCEPT ![f] = tp]]

\* The node is removed under the time point of the map; the map keeps its entry.
erase(w, f) ==
    IF contains(w, f)
    THEN [w EXCEPT !.timeouts = @ \ {Timeout(w.fibers[f], f)}]
    ELSE w

\* take(now) returns the fiber of node t and leaves afterTake(w, t); it returns
\* nullptr when no t allows it.  The map loses the entry, timeouts keeps t.
canTake(w, t, now) == isWaiting(w) /\ isBegin(w, t) /\ t.timepoint <= now
afterTake(w, t) == [w EXCEPT !.fibers[t.fiber] = NoTime]

\* operator bool() is true and begin() is end(): take() and first() read
\* through an iterator that refers to no node.
isUndefined(w) == isWaiting(w) /\ w.timeouts = {}
=============================================================================
