---------------------------------- MODULE List ----------------------------------
(***************************************************************************)
(* containers::list (include/hfts/containers.hpp:338-544), the list of     *)
(* waiting fibers of a ConditionVariable.  Entries are numbered in the     *)
(* order they were allocated; they are linked in one of two lists, that of *)
(* head or that of free, and their memory is kept until the destructor.    *)
(***************************************************************************)
EXTENDS Integers, Sequences, SequencesExt

CONSTANTS
    Values,
    FirstGrow,    \* the entries of the first allocation, 8 in the code
    MaxEntries    \* bound of capacity

ASSUME ListAssumption == FirstGrow \in Nat \ {0} /\ MaxEntries \in Nat

Entries == 1..MaxEntries
null == 0

VARIABLES
    next, prev, data,   \* the fields of each entry
    head, free,
    size_, capacity,
    alive,              \* the entries with a constructed element in data
    destroyed           \* the destructor has run

links == <<next, prev, head, free>>
vars == <<links, data, size_, capacity, alive, destroyed>>

Init ==
    /\ next = [e \in Entries |-> null] /\ prev = [e \in Entries |-> null]
    /\ data \in [Entries -> {null}]
    /\ head = null /\ free = null
    /\ size_ = 0 /\ capacity = 0
    /\ alive = {} /\ destroyed = FALSE

-----------------------------------------------------------------------------
(* Variants of the operators below that a slip in the code would give.      *)

linkOneWay(l, entry, list) == [next |-> [l.next EXCEPT ![entry] = list], prev |-> l.prev]

unlinkKeepsNext(l, entry) ==
    [next |-> [e \in Entries |-> IF l.prev[entry] # null /\ e = l.prev[entry]
                                 THEN l.next[entry] ELSE l.next[e]],
     prev |-> [e \in Entries |-> IF e = entry THEN null
                                 ELSE IF l.next[entry] # null /\ e = l.next[entry]
                                 THEN l.prev[entry] ELSE l.prev[e]]]

-----------------------------------------------------------------------------
(* link() and unlink() of an entry, as functions of l, the links of all     *)
(* entries, and of list, the first entry of the list.                       *)

Links == [next |-> next, prev |-> prev]

unlink(l, entry) ==
    [next |-> [e \in Entries |-> IF e = entry THEN null
                                 ELSE IF e = l.prev[entry] THEN l.next[entry] ELSE l.next[e]],
     prev |-> [e \in Entries |-> IF e = entry THEN null
                                 ELSE IF e = l.next[entry] THEN l.prev[entry] ELSE l.prev[e]]]

link(l, entry, list) ==
    [next |-> IF list = null THEN l.next ELSE [l.next EXCEPT ![entry] = list],
     prev |-> [e \in Entries |-> IF e = list THEN entry ELSE l.prev[e]]]

\* The first entry of a list when entry is taken out of it.
without(l, entry, list) == IF list = entry THEN l.next[entry] ELSE list

\* The links and the size after grow(count): the new entries are pushed on the
\* empty list free one by one, so the last of them comes first.
grown(count) ==
    LET new == (capacity + 1)..(capacity + count)
    IN  [next |-> [e \in Entries |-> IF e \in new THEN (IF e = capacity + 1 THEN null ELSE e - 1)
                                     ELSE next[e]],
         prev |-> [e \in Entries |-> IF e \in new THEN (IF e = capacity + count THEN null ELSE e + 1)
                                     ELSE prev[e]]]

-----------------------------------------------------------------------------
\* entry is the first of free, which has the links l.
EmplaceIn(l, entry, v) ==
    LET linked == link(unlink(l, entry), entry, head)
    IN  /\ next' = linked.next /\ prev' = linked.prev
        /\ head' = entry
        /\ free' = without(l, entry, entry)
        /\ data' = [data EXCEPT ![entry] = v]
        /\ alive' = alive \cup {entry}
        /\ size_' = size_ + 1

emplace_front(v) ==
    /\ ~destroyed
    /\ \/ /\ free # null
          /\ EmplaceIn(Links, free, v)
          /\ UNCHANGED capacity
       \/ /\ free = null
          /\ LET count == IF capacity < FirstGrow THEN FirstGrow ELSE capacity
             IN  /\ capacity + count <= MaxEntries
                 /\ capacity' = capacity + count
                 /\ EmplaceIn(grown(count), capacity + count, v)
    /\ UNCHANGED destroyed

Destroys(entry) == alive' = alive \ {entry}

\* The user erases an iterator that emplace_front() returned, once.
erase(entry) ==
    /\ ~destroyed
    /\ entry \in alive
    /\ LET linked == link(unlink(Links, entry), entry, free)
       IN  next' = linked.next /\ prev' = linked.prev
    /\ head' = without(Links, entry, head)
    /\ free' = entry
    /\ Destroys(entry)
    /\ size_' = size_ - 1
    /\ UNCHANGED <<data, capacity, destroyed>>

\* The entries from first on, along next; stops after capacity of them.
Walk(first) ==
    LET at[i \in 1..(capacity + 1)] ==
            IF i = 1 THEN first ELSE IF at[i - 1] = null THEN null ELSE next[at[i - 1]]
    IN  [i \in {j \in 1..(capacity + 1) : at[j] # null} |-> at[i]]

Destructor ==
    /\ ~destroyed /\ destroyed' = TRUE
    /\ alive' = alive \ ToSet(Walk(head))
    /\ UNCHANGED <<links, data, size_, capacity>>

Next ==
    \/ \E v \in Values : emplace_front(v)
    \/ \E entry \in Entries : erase(entry)
    \/ Destructor

Spec == Init /\ [][Next]_vars

-----------------------------------------------------------------------------
(* Properties *)

\* However entries went back and forth, each is in exactly one of the two lists, so
\* none is lost, handed out twice or reached in a cycle, and prev undoes next; size_
\* counts those in use, and exactly those hold a constructed element, so that none is
\* destroyed twice and the destructor leaves none behind.
EachInOneList ==
    LET used == Walk(head)   spare == Walk(free)
    IN  /\ size_ = Len(used) /\ Len(used) + Len(spare) = capacity
        /\ ToSet(used) \cup ToSet(spare) = 1..capacity
        /\ \A s \in {used, spare} : \A i \in DOMAIN s :
              prev[s[i]] = IF i = 1 THEN null ELSE s[i - 1]
        /\ alive = IF destroyed THEN {} ELSE ToSet(used)

\* containers.hpp:333: a list whose iterators stay valid; the value of an element
\* does not change while others come and go.
Abstract == INSTANCE StableList WITH
    Iterators <- Entries,
    items <- Walk(head),
    value <- [e \in ToSet(Walk(head)) |-> data[e]]

ImplementsStableList == Abstract!Spec
=============================================================================
