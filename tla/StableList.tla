------------------------------ MODULE StableList ------------------------------
(***************************************************************************)
(* What containers::list promises to ConditionVariable: a sequence whose   *)
(* elements are added at the front and removed by the iterator that        *)
(* emplace_front() returned; iterators and values of the others stay as    *)
(* they are, whatever is added and removed in between.                     *)
(***************************************************************************)
EXTENDS SequencesExt

CONSTANTS
    Iterators,
    Values

VARIABLES
    items,    \* the iterators of the elements, the front first
    value     \* the value of each element that is in the list

vars == <<items, value>>

Init == items = <<>> /\ value = <<>>

EmplaceFront(it, v) ==
    /\ it \notin ToSet(items)
    /\ items' = <<it>> \o items
    /\ value' = [i \in ToSet(items') |-> IF i = it THEN v ELSE value[i]]

Erase(it) ==
    /\ \E k \in DOMAIN items : items[k] = it /\ items' = RemoveAt(items, k)
    /\ value' = [i \in ToSet(items') |-> value[i]]

Next == \E it \in Iterators : Erase(it) \/ \E v \in Values : EmplaceFront(it, v)

Spec == Init /\ [][Next]_vars
=============================================================================
