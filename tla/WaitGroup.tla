------------------------------- MODULE WaitGroup -------------------------------
(***************************************************************************)
(* hfts::WaitGroup (include/hfts/waitgroup.hpp).  done() decrements the    *)
(* counter without the mutex and takes the mutex to notify only after      *)
(* that; wait() evaluates the counter under the mutex, twice before it     *)
(* suspends, so the counter may move between every two steps of a wait().  *)
(***************************************************************************)
EXTENDS ConditionVariable

CONSTANTS
    Group,     \* the only user object: Cvs = {Group}
    Initial,   \* initialCount
    MaxAdds,   \* bound of the calls of add()
    MaxWaits   \* bound of the calls of wait()

ASSUME GroupAssumption ==
    /\ Cvs = {Group}
    /\ Initial \in Nat /\ MaxAdds \in Nat /\ MaxWaits \in Nat

VARIABLES
    count,
    at,        \* "idle", "check", "park", "asleep" or "notify"
    adds,
    waits

vars == <<cvVars, count, at, adds, waits>>

Init ==
    /\ CvInit
    /\ count = Initial
    /\ at = [p \in Processes |-> "idle"]
    /\ adds = 0 /\ waits = 0

Goto(p, l) == at' = [at EXCEPT ![p] = l]

-----------------------------------------------------------------------------
(* Variants of the operators below that a slip in the code would give.      *)

HasMutexNot == TRUE

-----------------------------------------------------------------------------
Add(p) ==
    /\ at[p] = "idle"
    /\ adds < MaxAdds /\ adds' = adds + 1
    /\ count' = count + 1
    /\ UNCHANGED <<cvVars, at, waits>>

ReachedZero == count = 1

\* The caller of done() owns a unit of the counter: it does not pass zero.
Done(p) ==
    /\ at[p] = "idle" /\ count > 0
    /\ count' = count - 1
    /\ IF ReachedZero THEN Goto(p, "notify") ELSE UNCHANGED at
    /\ UNCHANGED <<cvVars, adds, waits>>

HasMutex == lock[Group] = Nobody

\* done() goes on under the mutex, and returns true.
DoneNotifies(p) ==
    /\ at[p] = "notify"
    /\ HasMutex
    /\ NotifyAll(Group)
    /\ Goto(p, "idle")
    /\ UNCHANGED <<lock, waiting, waitingNum, on, count, adds, waits>>

\* wait() of the group returns at once, or enters the wait() of cv with the mutex.
Wait(p) ==
    /\ at[p] = "idle"
    /\ waits < MaxWaits /\ waits' = waits + 1
    /\ HasMutex
    /\ \/ /\ count = 0
          /\ UNCHANGED <<cvVars, at>>
       \/ /\ count # 0
          /\ Locks(p, Group)
          /\ Enter(p, Group)
          /\ Goto(p, "check")
          /\ UNCHANGED status
    /\ UNCHANGED <<count, adds>>

Check(p) ==
    /\ at[p] = "check"
    /\ \/ /\ count = 0
          /\ Exit(p)
          /\ Unlocks(Group)
          /\ Goto(p, "idle")
       \/ /\ count # 0
          /\ Goto(p, "park")
          /\ UNCHANGED <<lock, waiting, waitingNum, on>>
    /\ UNCHANGED <<status, count, adds, waits>>

Park(p) ==
    /\ at[p] = "park"
    /\ Sleep(p, Group)
    /\ Goto(p, "asleep")
    /\ UNCHANGED <<waiting, waitingNum, on, count, adds, waits>>

Wake(p) ==
    /\ at[p] = "asleep"
    /\ Wakes(p)
    /\ Goto(p, "check")
    /\ UNCHANGED <<waiting, waitingNum, on, count, adds, waits>>

Next == \E p \in Processes :
    \/ Add(p) \/ Done(p) \/ DoneNotifies(p)
    \/ Wait(p) \/ Check(p) \/ Park(p) \/ Wake(p)

\* Every unit of the counter is given back, by whoever owns it; a process inside a
\* call goes on, and gets a mutex that is free again and again.  A thread need not
\* wake unless it was notified.
Fairness ==
    /\ WF_vars(\E p \in Processes : Done(p))
    /\ \A p \in Processes :
          /\ WF_vars(Check(p) \/ Park(p))
          /\ SF_vars(DoneNotifies(p))
          /\ SF_vars(Wake(p) /\ status[p] = "ready")

Spec == Init /\ [][Next]_vars
FairSpec == Spec /\ Fairness

-----------------------------------------------------------------------------
(* Properties *)

\* The variables keep their types.
TypeOK ==
    /\ CvTypeOK
    /\ count \in 0..(Initial + MaxAdds)
    /\ at \in [Processes -> {"idle", "check", "park", "asleep", "notify"}]
    /\ adds \in 0..MaxAdds /\ waits \in 0..MaxWaits

\* Once the counter is zero and every done() that took it there has notified, nobody
\* stays suspended, or is about to suspend on a value of the counter that is over.
NoStuckWaiter ==
    count = 0 /\ (\A p \in Processes : at[p] # "notify") =>
        \A p \in Processes : at[p] # "park" /\ status[p] # "suspended"

\* Every wait() returns when all units of the counter are given back (which takes a
\* process that is not itself in wait(): MaxWaits is below the number of processes).
WaitsEnd == \A p \in Processes : on[p] = Group ~> on[p] = Nowhere
=============================================================================
