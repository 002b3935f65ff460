-------------------------------- MODULE Thread --------------------------------
(***************************************************************************)
(* Threads and their affinities (src/thread.cpp, include/hfts/thread.hpp)  *)
(* on a system with pthreads: Affinity objects over vectors of cores,      *)
(* their policies, and Thread handles, each the owner of an Impl that the  *)
(* operating system's thread reads until its function returns.             *)
(***************************************************************************)
EXTENDS Vector, FiniteSets

CONSTANTS
    Objects,    \* variables of type Affinity
    Handles,    \* variables of type Thread
    Impls,      \* the Thread::Impl objects
    Null,       \* a handle without an Impl
    Available,  \* CPU_COUNT of the cores the process may use
    ThreadIds,  \* the ids a policy is asked for
    Lists,      \* the lists of cores a program writes down
    MaxCount    \* bound of the cores in an affinity

Owners == Objects \cup Impls

ASSUME ThreadAssumption ==
    /\ Objects \cap Impls = {} /\ Null \notin Impls
    /\ Available \in Nat /\ ThreadIds \subseteq Nat
    /\ \A l \in Lists : l \in Seq(Nat)
    /\ NoObject \notin Nat
    /\ MaxCount \in Nat

VARIABLES
    cores,       \* the vector inside each Affinity object and inside each Impl
    impl,        \* the Impl of each handle
    os,          \* where the thread of each Impl stands
    terminated   \* std::terminate() was called

vars == <<cores, impl, os, terminated>>
threads == <<impl, os, terminated>>

Init ==
    /\ cores = [o \in Owners |-> Gone(NoStats)]
    /\ impl = [h \in Handles |-> Null]
    /\ os = [i \in Impls |-> "none"]
    /\ terminated = FALSE

Core == 0   \* Core(), which resize() would construct

\* An affinity the program may use: a broken one has no defined behaviour.
Usable(o) == ~terminated /\ cores[o].alive /\ ~cores[o].broken
Free(o) == ~terminated /\ ~cores[o].alive
Bounded(v) == v.count <= MaxCount

Becomes(o, v) ==
    /\ Bounded(v)
    /\ cores' = [cores EXCEPT ![o] = v]
    /\ UNCHANGED threads

-----------------------------------------------------------------------------
(* Slips the code could have. *)

removedAll(v, other) ==   \* the hole is filled after the resize
    LET after[i \in 0..v.count] ==
            IF i = 0 THEN v
            ELSE LET w == after[i - 1]
                     u == resize(w, w.count - 1, Core)
                 IN  IF i <= w.count /\ w.cells[i] \in Range(objects(other))
                     THEN IF i <= u.count THEN construct(u, i, u.cells[u.count]) ELSE u
                     ELSE w
    IN  after[v.count]

-----------------------------------------------------------------------------
(* Affinity: pure parts *)

\* std::sort(): the place of s[i] is the number of elements that are not behind it.
rank(s, i) == Cardinality({j \in DOMAIN s : s[j] < s[i] \/ (s[j] = s[i] /\ j <= i)})
inOrder(s) == [k \in DOMAIN s |-> s[CHOOSE i \in DOMAIN s : rank(s, i) = k]]

sorted(v) ==
    IF v.broken THEN v
    ELSE LET s == inOrder(objects(v))
         IN  [v EXCEPT !.cells = [i \in DOMAIN @ |-> IF i \in DOMAIN s THEN s[i] ELSE @[i]]]

\* The vector is reserved before the cores are pushed.
listed(list) == pushed(reserve(Empty, Len(list)), list, {})

\* all() numbers the cores from 0, whichever ones the process may use.
all == pushed(Empty, [i \in 1..Available |-> i - 1], {})

\* oneOf(affinity)->get(threadId); anyOf(affinity)->get(threadId) is a copy.
oneOf(v, threadId) ==
    IF v.count = 0 THEN copied(v) ELSE listed(<<v.cells[(threadId % v.count) + 1]>>)

\* The set holds the cores from before the loop.
added(v, other) == sorted(pushed(v, objects(other), Range(objects(v))))

\* The last core is moved into the hole, and the loop goes on behind it.
removedAt(v, i) == resize(construct(v, i, v.cells[v.count]), v.count - 1, Core)

removed(v, other) ==
    LET after[i \in 0..v.count] ==
            IF i = 0 THEN v
            ELSE LET w == after[i - 1]
                 IN  IF i <= w.count /\ w.cells[i] \in Range(objects(other))
                     THEN removedAt(w, i)
                     ELSE w
    IN  sorted(after[v.count])

-----------------------------------------------------------------------------
(* Affinity: operations *)

Construct(o) ==
    Free(o) /\ \E v \in {Empty, all} \cup {listed(l) : l \in Lists} : Becomes(o, v)

Copy(o, p) ==   \* Affinity(const Affinity&, Allocator*), anyOf()->get()
    Free(o) /\ Usable(p) /\ Becomes(o, copied(cores[p]))

GetOneOf(o, p, threadId) ==
    Free(o) /\ Usable(p) /\ Becomes(o, oneOf(cores[p], threadId))

AddCores(o, p) == Usable(o) /\ Usable(p) /\ Becomes(o, added(cores[o], cores[p]))
RemoveCores(o, p) == Usable(o) /\ Usable(p) /\ Becomes(o, removed(cores[o], cores[p]))

\* Affinity(Affinity&&): the source keeps its storage.
Move(o, p) ==
    /\ Free(o) /\ Usable(p)
    /\ cores' = [cores EXCEPT ![o] = copied(cores[p]), ![p] = resize(@, 0, Core)]
    /\ UNCHANGED threads

\* operator=(Affinity&&).  An affinity may be assigned to itself.
Assign(o, p) ==
    /\ Usable(o) /\ Usable(p)
    /\ LET source == IF o = p THEN free_(cores[o]) ELSE cores[p]
           target == assign(cores[o], source)
       IN  cores' = IF o = p THEN [cores EXCEPT ![o] = target]
                    ELSE [cores EXCEPT ![o] = target, ![p] = resize(@, 0, Core)]
    /\ UNCHANGED threads

Destroy(o) == Usable(o) /\ Becomes(o, destroyed(cores[o]))

-----------------------------------------------------------------------------
(* Thread *)

\* Thread(Affinity&&, Func&&): the Impl takes the cores, then starts the thread.
Start(h, i, o) ==
    /\ Usable(o) /\ impl[h] = Null /\ os[i] = "none" /\ ~cores[i].alive
    /\ cores' = [cores EXCEPT ![i] = copied(cores[o]), ![o] = resize(@, 0, Core)]
    /\ impl' = [impl EXCEPT ![h] = i]
    /\ os' = [os EXCEPT ![i] = "born"]
    /\ UNCHANGED terminated

\* Thread(Func&&)
StartAll(h, i) ==
    /\ ~terminated /\ impl[h] = Null /\ os[i] = "none" /\ ~cores[i].alive
    /\ cores' = [cores EXCEPT ![i] = copied(all)]
    /\ impl' = [impl EXCEPT ![h] = i]
    /\ os' = [os EXCEPT ![i] = "born"]
    /\ UNCHANGED terminated

\* The new thread: setAffinity(), then func().
Pin(i) ==
    /\ ~terminated /\ os[i] = "born"
    /\ os' = [os EXCEPT ![i] = "running"]
    /\ UNCHANGED <<cores, impl, terminated>>

Finish(i) ==
    /\ ~terminated /\ os[i] = "running"
    /\ os' = [os EXCEPT ![i] = "ended"]
    /\ UNCHANGED <<cores, impl, terminated>>

JoinableAtOnce(i) == os[i] # "none"   \* what a join() that does not wait would take
Joinable(i) == os[i] = "ended"

\* join() of a handle without an Impl is undefined, so nobody calls it.
Join(h) ==
    /\ ~terminated /\ impl[h] # Null
    /\ Joinable(impl[h])
    /\ os' = [os EXCEPT ![impl[h]] = IF @ = "ended" THEN "none" ELSE @]
    /\ cores' = [cores EXCEPT ![impl[h]] = destroyed(@)]
    /\ impl' = [impl EXCEPT ![h] = Null]
    /\ UNCHANGED terminated

\* Thread(Thread&&)
MoveHandle(h, g) ==
    /\ ~terminated /\ impl[h] = Null
    /\ impl' = [impl EXCEPT ![h] = impl[g], ![g] = Null]
    /\ UNCHANGED <<cores, os, terminated>>

\* operator=(Thread&&): the std::thread of an Impl was never joined, so deleting
\* the Impl terminates the program.  A handle assigned to itself keeps nothing.
AssignHandle(h, g) ==
    /\ ~terminated
    /\ IF impl[h] # Null
       THEN terminated' = TRUE /\ UNCHANGED impl
       ELSE /\ impl' = [impl EXCEPT ![g] = Null, ![h] = impl[g]]
            /\ UNCHANGED terminated
    /\ UNCHANGED <<cores, os>>

\* ~Thread() does not look at the Impl, which is leaked.
DropHandle(h) ==
    /\ ~terminated /\ impl[h] # Null
    /\ impl' = [impl EXCEPT ![h] = Null]
    /\ UNCHANGED <<cores, os, terminated>>

-----------------------------------------------------------------------------
Next ==
    \/ \E o \in Objects : Construct(o) \/ Destroy(o)
    \/ \E o, p \in Objects :
          \/ Copy(o, p) \/ Move(o, p) \/ Assign(o, p) \/ AddCores(o, p) \/ RemoveCores(o, p)
          \/ \E threadId \in ThreadIds : GetOneOf(o, p, threadId)
    \/ \E h \in Handles, i \in Impls :
          \/ StartAll(h, i)
          \/ \E o \in Objects : Start(h, i, o)
    \/ \E i \in Impls : Pin(i) \/ Finish(i)
    \/ \E h \in Handles : Join(h) \/ DropHandle(h)
    \/ \E h, g \in Handles : MoveHandle(h, g) \/ AssignHandle(h, g)

Spec == Init /\ [][Next]_vars

-----------------------------------------------------------------------------
(* Properties *)

\* memory.hpp:106: every allocation is freed once and with the request it was made
\* with, through growth, moves, copies and assignments: the tracker of a vector
\* that is gone stands at zero, the tracker of one that is in use at its storage.
LedgerMatches ==
    \A o \in Owners :
        LET v == cores[o]
        IN  v.ledger = IF v.allocation = NoAllocation THEN NoStats
                       ELSE [count |-> 1, bytes |-> ElementType.size * v.capacity]

\* containers.hpp:147: no sequence of operations touches an object or a cell that
\* is not there, or leaves a vector whose capacity is not that of its storage,
\* except one that assigns to a vector which has elements, or storage from the
\* heap: free() drops them without telling reserve().
Sound(v) == ~v.broken /\ (v.alive => Len(v.cells) = v.capacity)

OnlyReassignmentBreaks ==
    [][\A o \in Owners : Sound(cores[o]) /\ ~Sound(cores'[o]) =>
          /\ cores[o].count > 0 \/ OnHeap(cores[o])
          /\ \E p \in Objects : Assign(o, p)]_vars

\* thread.hpp:102: what remove() keeps of what it should remove it keeps because
\* two holes, or a hole and a listed last core, met: with a single core to remove
\* the result is exact, and the cores that are not listed stay in every case.
Occurs(c, v) == Cardinality({i \in 1..v.count : v.cells[i] = c})

RemoveIsExactForOne ==
    [][\A o, p \in Objects : RemoveCores(o, p) =>
          LET hit == {c \in Range(objects(cores[o])) : Occurs(c, cores[p]) > 0}
              one == Cardinality({i \in 1..cores[o].count : cores[o].cells[i] \in hit}) <= 1
          IN  \A c \in Nat \cap (Range(objects(cores[o])) \cup Range(objects(cores'[o]))) :
                 IF c \notin hit THEN Occurs(c, cores'[o]) = Occurs(c, cores[o])
                 ELSE one => Occurs(c, cores'[o]) = 0]_vars

\* A thread never outlives what it reads: its Impl is alive until func() returned,
\* and no two handles own one Impl, so join() deletes it once.
ImplOutlivesThread ==
    /\ \A i \in Impls : os[i] # "none" => cores[i].alive
    /\ \A h, g \in Handles : h # g /\ impl[h] = impl[g] => impl[h] = Null
=============================================================================
