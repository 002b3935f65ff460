----------------------------- MODULE TaskExecutor -----------------------------
(***************************************************************************)
(* What one worker promises to those who give it tasks, without threads,   *)
(* fibers and locks: tasks run one at a time, each at most once; a task    *)
(* that waits gives way until it is notified, and then goes before tasks   *)
(* that have not started; the worker stops when it was told to and only    *)
(* with nothing left.  (The contract described in include/hfts/worker.hpp; *)
(* Worker implements it when tasks wait without timeouts.)                 *)
(***************************************************************************)
CONSTANTS
    Tasks,
    FinalTask,   \* in Tasks: the task whose end tells the worker to stop
    Bound        \* {} or {FinalTask}: the tasks that run from the start

VARIABLES
    status,      \* the progress of each task
    stopped      \* the worker has stopped

vars == <<status, stopped>>

Init ==
    /\ status = [t \in Tasks |-> IF t \in Bound THEN "running" ELSE "new"]
    /\ stopped = FALSE

Becomes(t, from, to) ==
    /\ status[t] = from
    /\ status' = [status EXCEPT ![t] = to]
    /\ UNCHANGED stopped

No(s) == \A t \in Tasks : status[t] # s

Accept(t)   == ~stopped /\ Becomes(t, "new", "queued")
GiveAway(t) == Becomes(t, "queued", "stolen")
Run(t)      == No("running") /\ No("ready") /\ Becomes(t, "queued", "running")
Wait(t)     == Becomes(t, "running", "suspended")
Notify(t)   == Becomes(t, "suspended", "ready")
Continue(t) == No("running") /\ Becomes(t, "ready", "running")
Finish(t)   == Becomes(t, "running", "done")

Stop ==
    /\ status[FinalTask] = "done"
    /\ \A t \in Tasks : status[t] \in {"new", "done", "stolen"}
    /\ stopped' = TRUE
    /\ UNCHANGED status

Next ==
    \/ \E t \in Tasks :
          \/ Accept(t) \/ GiveAway(t) \/ Run(t) \/ Wait(t)
          \/ Notify(t) \/ Continue(t) \/ Finish(t)
    \/ Stop

Spec == Init /\ [][Next]_vars
=============================================================================
