--------------------------------- MODULE Event ---------------------------------
(***************************************************************************)
(* hfts::Event (include/hfts/event.hpp): fibers and threads wait for,      *)
(* signal, test and clear events; one of them builds an event with         *)
(* Event::any() out of the others.  signal() holds the mutex of the event  *)
(* while it signals the events derived from it.  The timed waits cannot be *)
(* linked (fiber.cpp keeps the bodies of Fiber's templates) and are out.   *)
(***************************************************************************)
EXTENDS ConditionVariable

CONSTANTS
    AutoEvents, \* the events with Mode::Auto; the others are Manual
    AnyEvent,   \* the event that any() returns
    Listed,     \* the events it is built from, in order
    MaxCalls    \* bound of the calls of all processes together

Events == Cvs

ASSUME EventAssumption ==
    /\ AutoEvents \subseteq Events /\ AnyEvent \in Events
    /\ Listed \in Seq(Events \ {AnyEvent})
    /\ MaxCalls \in Nat

VARIABLES
    signalled,
    deps,       \* the events derived from each event
    at,         \* "idle", "check", "asleep", "signal", "any" or "anyPush"
    frames,     \* the calls of signal() on the stack, the outermost first
    built,      \* how many events any() has been through
    calls,
    raises,     \* how often each event was signalled
    grants      \* how often a wait() or test() on each event succeeded

vars == <<cvVars, signalled, deps, at, frames, built, calls, raises, grants>>

Init ==
    /\ CvInit
    /\ signalled = [e \in Events |-> FALSE]
    /\ deps = [e \in Events |-> <<>>]
    /\ at = [p \in Processes |-> "idle"]
    /\ frames = [p \in Processes |-> <<>>]
    /\ built = 0 /\ calls = 0
    /\ raises = [e \in Events |-> 0]
    /\ grants = [e \in Events |-> 0]

Goto(p, l) == at' = [at EXCEPT ![p] = l]

\* The event returned by any() is used once any() has returned.
Usable(e) == e = AnyEvent => built = Len(Listed)

Calls(p, e) ==
    /\ at[p] = "idle"
    /\ Usable(e)
    /\ calls < MaxCalls /\ calls' = calls + 1

-----------------------------------------------------------------------------
(* Variants of the operators below that a slip in the code would give.      *)

ConsumeNot(e) ==
    /\ grants' = [grants EXCEPT ![e] = @ + 1]
    /\ UNCHANGED signalled

FoundSignalledNever(s) == FALSE

LinksItself(s) == deps' = [deps EXCEPT ![s] = Append(@, s)]

-----------------------------------------------------------------------------
(* wait(), test(), clear() *)

Consume(e) ==
    /\ signalled' = [signalled EXCEPT ![e] = e \notin AutoEvents]
    /\ grants' = [grants EXCEPT ![e] = @ + 1]

\* p holds the mutex of e: returns, or suspends until it is notified.
Evaluate(p, e) ==
    \/ /\ signalled[e]
       /\ Exit(p)
       /\ Consume(e)
       /\ Unlocks(e)
       /\ Goto(p, "idle")
       /\ UNCHANGED status
    \/ /\ ~signalled[e]
       /\ Enter(p, e)
       /\ Sleep(p, e)
       /\ Goto(p, "asleep")
       /\ UNCHANGED <<signalled, grants>>

Wait(p, e) ==
    /\ Calls(p, e)
    /\ lock[e] = Nobody
    /\ Evaluate(p, e)
    /\ UNCHANGED <<deps, frames, built, raises>>

Wake(p) ==
    /\ at[p] = "asleep"
    /\ Wakes(p)
    /\ Goto(p, "check")
    /\ UNCHANGED <<waiting, waitingNum, on, signalled, deps, frames, built, calls, raises,
                   grants>>

Check(p) ==
    /\ at[p] = "check"
    /\ Evaluate(p, on[p])
    /\ UNCHANGED <<deps, frames, built, calls, raises>>

Test(p, e) ==
    /\ Calls(p, e)
    /\ lock[e] = Nobody /\ signalled[e]
    /\ Consume(e)
    /\ UNCHANGED <<cvVars, deps, at, frames, built, raises>>

Clear(p, e) ==
    /\ Calls(p, e)
    /\ lock[e] = Nobody /\ signalled[e]
    /\ signalled' = [signalled EXCEPT ![e] = FALSE]
    /\ UNCHANGED <<cvVars, deps, at, frames, built, raises, grants>>

-----------------------------------------------------------------------------
(* signal() *)

Notify(e) == IF e \in AutoEvents THEN NotifyOne(e) ELSE NotifyAll(e)

\* p locks e and raises its signal; the lock is kept while the frame is there.
Raise(p, e) ==
    /\ Locks(p, e)
    /\ ~signalled[e]
    /\ signalled' = [signalled EXCEPT ![e] = TRUE]
    /\ raises' = [raises EXCEPT ![e] = @ + 1]
    /\ Notify(e)

Frame(e) == [event |-> e, left |-> deps[e]]

Signal(p, e) ==   \* of an event that is signalled: returns with nothing done
    /\ Calls(p, e)
    /\ Raise(p, e)
    /\ frames' = [frames EXCEPT ![p] = <<Frame(e)>>]
    /\ Goto(p, "signal")
    /\ UNCHANGED <<waiting, waitingNum, on, deps, built, grants>>

Top(p) == Last(frames[p])

SignalDep(p) ==
    /\ at[p] = "signal" /\ Top(p).left # <<>>
    /\ LET d    == Head(Top(p).left)
           rest == Append(Front(frames[p]), [Top(p) EXCEPT !.left = Tail(@)])
       IN  \/ /\ Raise(p, d)
              /\ frames' = [frames EXCEPT ![p] = Append(rest, Frame(d))]
           \/ /\ lock[d] = Nobody /\ signalled[d]
              /\ frames' = [frames EXCEPT ![p] = rest]
              /\ UNCHANGED <<lock, signalled, raises, status>>
    /\ UNCHANGED <<waiting, waitingNum, on, deps, at, built, calls, grants>>

SignalReturns(p) ==
    /\ at[p] = "signal" /\ Top(p).left = <<>>
    /\ Unlocks(Top(p).event)
    /\ frames' = [frames EXCEPT ![p] = Front(@)]
    /\ Goto(p, IF Len(frames[p]) = 1 THEN "idle" ELSE "signal")
    /\ UNCHANGED <<waiting, waitingNum, on, status, signalled, deps, built, calls, raises,
                   grants>>

-----------------------------------------------------------------------------
(* any(): one process goes through the list, an event at a time.            *)

Building == \E p \in Processes : at[p] \in {"any", "anyPush"}

AnyCall(p) ==   \* of an empty list: returns with nothing done
    /\ at[p] = "idle" /\ built = 0 /\ ~Building
    /\ Listed # <<>>
    /\ calls < MaxCalls /\ calls' = calls + 1
    /\ Goto(p, "any")
    /\ UNCHANGED <<cvVars, signalled, deps, frames, built, raises, grants>>

AnyLock(p) ==
    /\ at[p] = "any"
    /\ Locks(p, Listed[built + 1])
    /\ Goto(p, "anyPush")
    /\ UNCHANGED <<waiting, waitingNum, on, status, signalled, deps, frames, built, calls,
                   raises, grants>>

FoundSignalled(s) == signalled[s]

Links(s) == deps' = [deps EXCEPT ![s] = Append(@, AnyEvent)]

AnyPush(p) ==
    /\ at[p] = "anyPush"
    /\ LET s == Listed[built + 1]
       IN  /\ \/ /\ FoundSignalled(s) /\ lock[AnyEvent] = Nobody
                 /\ signalled' = [signalled EXCEPT ![AnyEvent] = TRUE]
                 /\ raises' = [raises EXCEPT ![AnyEvent] = IF signalled[AnyEvent] THEN @ ELSE @ + 1]
              \/ /\ ~FoundSignalled(s)
                 /\ UNCHANGED <<signalled, raises>>
           /\ Links(s)
           /\ Unlocks(s)
    /\ built' = built + 1
    /\ Goto(p, IF built' = Len(Listed) THEN "idle" ELSE "any")
    /\ UNCHANGED <<waiting, waitingNum, on, status, frames, calls, grants>>

-----------------------------------------------------------------------------
\* No call is under way but waits for events that are not signalled.
Quiescent ==
    /\ calls = MaxCalls
    /\ \A p \in Processes : at[p] = "idle" \/ (at[p] = "asleep" /\ status[p] = "suspended")
    /\ UNCHANGED vars

Next ==
    \/ \E p \in Processes :
          \/ \E e \in Events : Wait(p, e) \/ Test(p, e) \/ Clear(p, e) \/ Signal(p, e)
          \/ Wake(p) \/ Check(p)
          \/ SignalDep(p) \/ SignalReturns(p)
          \/ AnyCall(p) \/ AnyLock(p) \/ AnyPush(p)
    \/ Quiescent

Spec == Init /\ [][Next]_vars

-----------------------------------------------------------------------------
(* Properties *)

\* The variables keep their types.
TypeOK ==
    /\ CvTypeOK
    /\ signalled \in [Events -> BOOLEAN]
    /\ deps \in [Events -> Seq({AnyEvent})]
    /\ at \in [Processes -> {"idle", "check", "asleep", "signal", "any", "anyPush"}]
    /\ built \in 0..Len(Listed) /\ calls \in 0..MaxCalls

Suspended(e) == {p \in Processes : on[p] = e /\ status[p] = "suspended"}

\* No wait() misses a signal: nobody stays suspended for a Manual event that is
\* signalled, nor for an Auto event unless another waiter is about to take the
\* signal; fibers, threads, notify_one() on the front and test() in between.
NoMissedSignal ==
    \A e \in Events : lock[e] = Nobody /\ signalled[e] /\ Suspended(e) # {} =>
        /\ e \in AutoEvents
        /\ \E p \in Processes : on[p] = e /\ status[p] = "ready"

\* event.hpp:19: a signal() of an Auto event unblocks a single, possibly future,
\* wait() or test(), however many were notified.
OneWaitPerSignal == \A e \in AutoEvents : grants[e] <= raises[e]

\* any() misses no signal while it goes through the list: once it derives its event
\* from e, a signalled e has signalled it.
AnyMissesNothing ==
    \A i \in 1..built : LET e == Listed[i]
                        IN  lock[e] = Nobody /\ signalled[e] => raises[AnyEvent] > 0

\* The event whose mutex a call of p needs to go on, if it needs one.
Wanted(p) ==
    CASE at[p] = "asleep"  -> {on[p]}
      [] at[p] = "any"     -> {Listed[built + 1]}
      [] at[p] = "anyPush" -> IF FoundSignalled(Listed[built + 1]) THEN {AnyEvent} ELSE {}
      [] at[p] = "signal"  -> IF Top(p).left = <<>> THEN {} ELSE {Head(Top(p).left)}
      [] OTHER             -> {}

\* signal() and any() take a second mutex while they hold one: no processes wait for
\* mutexes in a circle, each for one that the next of them holds, nor does a process
\* wait for its own.
NoLockCircle ==
    \A S \in (SUBSET Processes) \ {{}} :
        \E p \in S : \A e \in Wanted(p) : lock[e] \notin S
=============================================================================
