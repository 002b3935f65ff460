--------------------------- MODULE ConditionVariable ---------------------------
(***************************************************************************)
(* hfts::ConditionVariable (include/hfts/conditionvariable.hpp), with the  *)
(* lock of its user: fibers wait in the list waiting, threads outside the  *)
(* scheduler on a std::condition_variable.  What Worker does for a fiber   *)
(* that waits is cut down to three states: it runs, it is suspended, or it *)
(* was notified and will run (module Worker shows that a notification is   *)
(* neither lost nor taken twice).  Event and WaitGroup extend this module; *)
(* both change and notify a condition variable under its user's lock only. *)
(***************************************************************************)
EXTENDS Integers, Sequences, SequencesExt, FiniteSets

CONSTANTS
    Fibers,    \* the fibers that call
    Outside,   \* the threads outside the scheduler that call
    Cvs,       \* the condition variables, one for each user object
    Nobody,    \* the lock is free
    Nowhere    \* the process does not wait

Processes == Fibers \cup Outside

ASSUME CvAssumption ==
    /\ Fibers \cap Outside = {}
    /\ IsFiniteSet(Fibers) /\ IsFiniteSet(Outside)
    /\ Nobody \notin Processes /\ Nowhere \notin Cvs

VARIABLES
    lock,      \* the owner of the lock of each user object
    waiting,   \* the list of fibers of each condition variable
    waitingNum,
    on,        \* the condition variable in whose wait() a process is
    status     \* "running", "suspended" or "ready"

cvVars == <<lock, waiting, waitingNum, on, status>>

CvInit ==
    /\ lock = [c \in Cvs |-> Nobody]
    /\ waiting = [c \in Cvs |-> <<>>]
    /\ waitingNum = [c \in Cvs |-> 0]
    /\ on = [p \in Processes |-> Nowhere]
    /\ status = [p \in Processes |-> "running"]

CvTypeOK ==
    /\ lock \in [Cvs -> Processes \cup {Nobody}]
    /\ waiting \in [Cvs -> Seq(Fibers)]
    /\ waitingNum \in [Cvs -> Nat]
    /\ on \in [Processes -> Cvs \cup {Nowhere}]
    /\ status \in [Processes -> {"running", "suspended", "ready"}]

Locks(p, c) == lock[c] = Nobody /\ lock' = [lock EXCEPT ![c] = p]
Unlocks(c) == lock' = [lock EXCEPT ![c] = Nobody]

-----------------------------------------------------------------------------
(* Variants of the operators below that a slip in the code would give.      *)

NotifyOneThreadFirst(c) ==
    \/ \E p \in Outside :
          on[p] = c /\ status' = [status EXCEPT ![p] = "ready"]
    \/ /\ \A p \in Outside : on[p] # c
       /\ UNCHANGED status

ExitStays(p) ==
    /\ on' = [on EXCEPT ![p] = Nowhere]
    /\ waitingNum' = [c \in Cvs |-> waitingNum[c] - (IF on[p] = c THEN 1 ELSE 0)]
    /\ UNCHANGED waiting

ExitCountsTwice(p) ==
    /\ on' = [on EXCEPT ![p] = Nowhere]
    /\ waiting' = [c \in Cvs |-> Remove(waiting[c], p)]
    /\ waitingNum' = [c \in Cvs |-> waitingNum[c] - (IF on[p] = c THEN 2 ELSE 0)]

NotifyAllFibers(c) ==
    status' = [p \in Processes |->
                  IF p \in Fibers /\ on[p] = c /\ status[p] = "suspended"
                  THEN "ready" ELSE status[p]]

-----------------------------------------------------------------------------
\* wait() on a condition that is false counts the caller and puts a fiber at the
\* front of the list.  A caller that evaluates it again is there already.
Enter(p, c) ==
    \/ /\ on[p] = Nowhere
       /\ on' = [on EXCEPT ![p] = c]
       /\ waitingNum' = [waitingNum EXCEPT ![c] = @ + 1]
       /\ waiting' = IF p \in Fibers THEN [waiting EXCEPT ![c] = <<p>> \o @] ELSE waiting
    \/ /\ on[p] = c
       /\ UNCHANGED <<on, waiting, waitingNum>>

\* The condition is true: a caller that had entered takes itself out, a fiber by
\* erasing its element of the list.
Exit(p) ==
    \/ /\ on[p] = Nowhere
       /\ UNCHANGED <<on, waiting, waitingNum>>
    \/ /\ on[p] # Nowhere
       /\ on' = [on EXCEPT ![p] = Nowhere]
       /\ waitingNum' = [waitingNum EXCEPT ![on[p]] = @ - 1]
       /\ \/ p \in Outside /\ UNCHANGED waiting
          \/ \E i \in DOMAIN waiting[on[p]] :
                /\ waiting[on[p]][i] = p
                /\ waiting' = [waiting EXCEPT ![on[p]] = RemoveAt(@, i)]

\* The fiber is suspended, or the thread sleeps, and the lock is released.
Sleep(p, c) ==
    /\ status' = [status EXCEPT ![p] = "suspended"]
    /\ Unlocks(c)

\* It was notified (a thread may also wake spuriously) and has the lock again.
Wakes(p) ==
    /\ status[p] = "ready" \/ (status[p] = "suspended" /\ p \in Outside)
    /\ status' = [status EXCEPT ![p] = "running"]
    /\ Locks(p, on[p])

Notified(p) == IF status[p] = "suspended" THEN "ready" ELSE status[p]

\* notify_one() notifies the fiber at the front, which may have been notified
\* before; only when no fiber waits it notifies a thread.
NotifyOne(c) ==
    \/ /\ waitingNum[c] # 0 /\ waiting[c] # <<>>
       /\ status' = [status EXCEPT ![Head(waiting[c])] = Notified(Head(waiting[c]))]
    \/ /\ waitingNum[c] # 0 /\ waiting[c] = <<>>
       /\ \E p \in Outside :
             /\ on[p] = c /\ status[p] = "suspended"
             /\ status' = [status EXCEPT ![p] = "ready"]
    \/ /\ waitingNum[c] = 0 \/ waiting[c] = <<>>
       /\ waitingNum[c] # 0 => \A p \in Outside : on[p] = c => status[p] # "suspended"
       /\ UNCHANGED status

NotifyAll(c) ==
    status' = [p \in Processes |->
                  IF waitingNum[c] # 0 /\ on[p] = c THEN Notified(p) ELSE status[p]]

-----------------------------------------------------------------------------
\* conditionvariable.hpp:51-55: waitingNum is the length of the list and the threads
\* together, so notify_one() and notify_all() may return early when it is zero; the
\* list holds the fibers inside wait(), each once, so they notify nobody else.
WaitersCounted ==
    \A c \in Cvs :
        LET inside(S) == {p \in S : on[p] = c}
        IN  /\ waitingNum[c] = Len(waiting[c]) + Cardinality(inside(Outside))
            /\ ToSet(waiting[c]) = inside(Fibers)
            /\ IsInjective(waiting[c])
=============================================================================
