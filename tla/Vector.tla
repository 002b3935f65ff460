-------------------------------- MODULE Vector --------------------------------
(***************************************************************************)
(* containers::vector<T, BASE_CAPACITY> (include/hfts/containers.hpp) as   *)
(* operators on its value v, and the allocator it was given, which tracks  *)
(* what the vector allocates.  v.cells is the storage elements points to:  *)
(* in each cell an object, or NoObject where none was constructed or it    *)
(* was destroyed; no cell at all when elements is nullptr.  v.broken is    *)
(* set by what the code may not do: construct at a cell that is not there, *)
(* or destroy, copy or move an object that is not there.  Cells are        *)
(* counted from 1.                                                         *)
(***************************************************************************)
EXTENDS Memory, Sequences, SequencesExt

CONSTANTS
    BaseCapacity,   \* BASE_CAPACITY
    MinGrowth,      \* the smallest capacity reserve() allocates
    ElementType,    \* the size and the alignment of T
    NoObject

ASSUME VectorAssumption ==
    /\ BaseCapacity \in Nat \ {0}
    /\ MinGrowth \in Nat \ {0}
    /\ ElementType \in [size : Nat \ {0}, alignment : Nat \ {0}]

NoAllocation == [size |-> 0]

\* No vector: what the destructor leaves is the count of its allocator.
Gone(ledger) ==
    [alive |-> FALSE, count |-> 0, capacity |-> 0, cells |-> <<>>,
     allocation |-> NoAllocation, ledger |-> ledger, broken |-> FALSE]

Empty ==
    [alive |-> TRUE, count |-> 0, capacity |-> BaseCapacity,
     cells |-> [i \in 1..BaseCapacity |-> NoObject],
     allocation |-> NoAllocation, ledger |-> NoStats, broken |-> FALSE]

OnHeap(v) == v.allocation # NoAllocation
objects(v) == [i \in 1..v.count |-> IF i \in DOMAIN v.cells THEN v.cells[i] ELSE NoObject]

construct(v, i, x) ==
    IF i \in DOMAIN v.cells /\ x # NoObject
    THEN [v EXCEPT !.cells[i] = x]
    ELSE [v EXCEPT !.broken = TRUE]

\* An object in each cell of the domain of x.
constructEach(v, x) ==
    IF \A i \in DOMAIN x : i \in DOMAIN v.cells /\ x[i] # NoObject
    THEN [v EXCEPT !.cells = [i \in DOMAIN @ |-> IF i \in DOMAIN x THEN x[i] ELSE @[i]]]
    ELSE [v EXCEPT !.broken = TRUE]

destroy(v, first, last) ==
    IF \A i \in first..last : i \in DOMAIN v.cells /\ v.cells[i] # NoObject
    THEN [v EXCEPT !.cells = [i \in DOMAIN @ |-> IF i \in first..last THEN NoObject ELSE @[i]]]
    ELSE [v EXCEPT !.broken = TRUE]

(* Slips the code could have. *)

freeElements(v) == destroy(v, 1, v.count)   \* the allocation is forgotten

\* free() leaves count and capacity alone, and elements alone unless it was
\* allocated.
free_(v) ==
    LET w == destroy(v, 1, v.count)
    IN  IF ~OnHeap(v) THEN w
        ELSE [w EXCEPT !.ledger = uncounted(@, v.allocation),
                       !.allocation = NoAllocation,
                       !.cells = <<>>]

reserve(v, n) ==
    IF n <= v.capacity THEN v
    ELSE LET capacity == IF n * 2 < MinGrowth THEN MinGrowth ELSE n * 2
             req      == request(ElementType, capacity, "Vector")
             grown    == [i \in 1..capacity |->
                             IF i \in DOMAIN objects(v) THEN objects(v)[i] ELSE NoObject]
         IN  [free_(v) EXCEPT !.capacity = capacity,
                              !.cells = grown,
                              !.allocation = req,
                              !.ledger = counted(@, req)]

constructBack(v, x) ==   \* push_back() does not reserve
    [construct(v, v.count + 1, x) EXCEPT !.count = @ + 1]

\* push_back() and emplace_back().
push_back(v, x) ==
    LET w == reserve(v, v.count + 1)
    IN  [construct(w, w.count + 1, x) EXCEPT !.count = @ + 1]

\* push_back() of each element of the sequence xs that is not in the set skip.
pushed(v, xs, skip) ==
    LET after[n \in 0..Len(xs)] ==
            IF n = 0 THEN v
            ELSE IF xs[n] \in skip THEN after[n - 1] ELSE push_back(after[n - 1], xs[n])
    IN  after[Len(xs)]

\* x is the value T() gives.
resize(v, n, x) ==
    LET w == reserve(v, n)
    IN  [IF n < w.count THEN destroy(w, n + 1, w.count)
         ELSE constructEach(w, [i \in (w.count + 1)..n |-> x])
         EXCEPT !.count = n]

\* The three operator= construct copies or moved objects from those of other.
assign(v, other) ==
    LET w == reserve(free_(v), other.count)
    IN  constructEach([w EXCEPT !.count = other.count], objects(other))

\* The constructor from another vector, and the destructor.
copied(other) == assign(Empty, other)
destroyed(v) == Gone(free_(v).ledger)
=============================================================================
