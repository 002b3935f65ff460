------------------------------ MODULE ListProofs ------------------------------
(***************************************************************************)
(* Proofs about List, for any sizes of its allocations: following the      *)
(* pointers finds two sequences that share the entries among them, and     *)
(* the one of head is a list whose iterators stay valid.                   *)
(***************************************************************************)
EXTENDS List, SequenceTheorems, WellFoundedInduction, TLAPS

Nodes == Entries \cup {null}
LinkType == [next : [Entries -> Nodes], prev : [Entries -> Nodes]]

\* The pointers from first on run through s, and back.
Chain(l, first, s) ==
    /\ s \in Seq(Entries)
    /\ first = IF Len(s) = 0 THEN null ELSE s[1]
    /\ \A i \in 1..Len(s) :
          /\ l.next[s[i]] = IF i = Len(s) THEN null ELSE s[i + 1]
          /\ l.prev[s[i]] = IF i = 1 THEN null ELSE s[i - 1]

Once(s) == \A i, j \in 1..Len(s) : s[i] = s[j] => i = j

\* Each of the entries 1..n is in one of the two lists, at one place.
Shared(used, spare, n) ==
    /\ Once(used) /\ Once(spare)
    /\ \A i \in 1..Len(used), j \in 1..Len(spare) : used[i] # spare[j]
    /\ Len(used) + Len(spare) = n
    /\ ToSet(used) \cup ToSet(spare) = 1..n

TwoLists(l, h, f, used, spare, n) ==
    Chain(l, h, used) /\ Chain(l, f, spare) /\ Shared(used, spare, n)

LEMMA SeqFacts ==
    ASSUME NEW S, NEW s \in Seq(S)
    PROVE  /\ Len(s) \in Nat /\ DOMAIN s = 1..Len(s)
           /\ \A i \in 1..Len(s) : s[i] \in S
    OBVIOUS

LEMMA InSet ==
    ASSUME NEW S, NEW s \in Seq(S), NEW x
    PROVE  x \in ToSet(s) <=> \E i \in 1..Len(s) : s[i] = x
    BY SeqFacts DEF ToSet

LEMMA EntryFacts == null \notin Entries /\ MaxEntries \in Nat
    BY ListAssumption DEF null, Entries

-----------------------------------------------------------------------------
(* Walk() follows the pointers. *)

LEMMA Induction ==
    ASSUME NEW S \in SUBSET Nat, 0 \in S, \A n \in S : n + 1 \in S
    PROVE  S = Nat
<1> DEFINE R == {ss \in Nat \X Nat : ss[1] < ss[2]}
<1> SUFFICES ASSUME Nat \ S # {} PROVE FALSE
    OBVIOUS
<1>1. IsWellFoundedOn(R, Nat)
    BY NatLessThanWellFounded DEF OpToRel
<1>2. PICK x \in Nat \ S : \A y \in Nat \ S : <<y, x>> \notin R
    <2> HIDE DEF R
    <2>1. Nat \ S \subseteq Nat
        OBVIOUS
    <2> QED
        BY <1>1, <2>1, WFMin
<1>3. x - 1 \in Nat /\ (x - 1) + 1 = x /\ x - 1 < x
    BY <1>2
<1>4. x - 1 \in S
    BY <1>2, <1>3
<1> QED
    BY <1>2, <1>3, <1>4

\* Walk(), of the pointers next in a list with the entries 1..n.
Found(nx, n, first) ==
    LET at[i \in 1..(n + 1)] ==
            IF i = 1 THEN first ELSE IF at[i - 1] = null THEN null ELSE nx[at[i - 1]]
    IN  [i \in {j \in 1..(n + 1) : at[j] # null} |-> at[i]]

LEMMA WalkFinds == \A first : Walk(first) = Found(next, capacity, first)
    BY DEF Walk, Found

LEMMA ChainFound ==
    ASSUME NEW l, NEW n \in Nat, NEW first, NEW s, Chain(l, first, s), Len(s) <= n
    PROVE  Found(l.next, n, first) = s
<1> DEFINE Is(f) == f = [i \in 1..(n + 1) |->
                            IF i = 1 THEN first
                            ELSE IF f[i - 1] = null THEN null ELSE l.next[f[i - 1]]]
           F == CHOOSE f : Is(f)
           g == [i \in 1..(n + 1) |-> IF i <= Len(s) THEN s[i] ELSE null]
<1>0. /\ s \in Seq(Entries) /\ Len(s) \in Nat /\ DOMAIN s = 1..Len(s)
      /\ \A i \in 1..Len(s) : s[i] \in Entries
    BY SeqFacts DEF Chain
<1>1. Is(g)
    <2>1. ASSUME NEW i \in 1..(n + 1)
          PROVE  g[i] = IF i = 1 THEN first
                        ELSE IF g[i - 1] = null THEN null ELSE l.next[g[i - 1]]
        <3>1. CASE i = 1
            <4>1. g[1] = IF Len(s) = 0 THEN null ELSE s[1]
                BY <1>0
            <4>2. g[1] = first
                BY <4>1 DEF Chain
            <4> HIDE DEF g
            <4> QED
                BY <3>1, <4>2
        <3>2. CASE i # 1
            <4>1. i - 1 \in 1..(n + 1) /\ (i - 1) + 1 = i
                BY <3>2
            <4>2. g[i - 1] = IF i - 1 <= Len(s) THEN s[i - 1] ELSE null
                BY <4>1
            <4>3. CASE i - 1 <= Len(s)
                <5>1. i - 1 \in 1..Len(s)
                    BY <4>1, <4>3
                <5>2. g[i - 1] = s[i - 1] /\ s[i - 1] # null
                    BY <1>0, <4>2, <4>3, <5>1, EntryFacts
                <5>3. l.next[s[i - 1]] = IF i - 1 = Len(s) THEN null ELSE s[i]
                    BY <4>1, <5>1 DEF Chain
                <5>4. g[i] = IF i - 1 = Len(s) THEN null ELSE s[i]
                    BY <1>0, <4>3
                <5> HIDE DEF g
                <5> QED
                    BY <3>2, <5>2, <5>3, <5>4
            <4>4. CASE ~(i - 1 <= Len(s))
                <5>1. ~(i <= Len(s))
                    BY <1>0, <4>4
                <5> QED
                    BY <3>2, <4>2, <4>4, <5>1
            <4> QED
                BY <4>3, <4>4
        <3> QED
            BY <3>1, <3>2
    <2>2. g = [i \in 1..(n + 1) |-> g[i]]
        OBVIOUS
    <2> HIDE DEF g
    <2> QED
        BY <2>1, <2>2
<1>2. Is(F)
    <2> HIDE DEF Is, g
    <2> QED
        BY <1>1
<1> HIDE DEF F
<1> DEFINE S == {m \in Nat : m < n + 1 => F[m + 1] = g[m + 1]}
<1>3. S = Nat
    <2>1. ASSUME NEW i \in 1..(n + 1)
          PROVE  /\ F[i] = IF i = 1 THEN first
                           ELSE IF F[i - 1] = null THEN null ELSE l.next[F[i - 1]]
                 /\ g[i] = IF i = 1 THEN first
                           ELSE IF g[i - 1] = null THEN null ELSE l.next[g[i - 1]]
        <3> HIDE DEF g
        <3> QED
            BY <1>1, <1>2
    <2> HIDE DEF g, Is
    <2>2. 0 \in S
        <3>1. 1 \in 1..(n + 1) /\ 0 + 1 = 1
            OBVIOUS
        <3> QED
            BY <2>1, <3>1
    <2>3. ASSUME NEW m \in S PROVE m + 1 \in S
        <3> SUFFICES ASSUME m + 1 < n + 1 PROVE F[(m + 1) + 1] = g[(m + 1) + 1]
            OBVIOUS
        <3>1. (m + 1) + 1 \in 1..(n + 1) /\ ((m + 1) + 1) - 1 = m + 1 /\ (m + 1) + 1 # 1
            OBVIOUS
        <3>2. F[m + 1] = g[m + 1]
            OBVIOUS
        <3> QED
            BY <2>1, <3>1, <3>2
    <2>4. S \subseteq Nat
        OBVIOUS
    <2> HIDE DEF S
    <2> QED
        BY <2>2, <2>3, <2>4, Induction
<1>4. \A i \in 1..(n + 1) : F[i] = g[i]
    <2> SUFFICES ASSUME NEW i \in 1..(n + 1) PROVE F[i] = g[i]
        OBVIOUS
    <2>1. i - 1 \in Nat /\ i - 1 < n + 1 /\ (i - 1) + 1 = i
        OBVIOUS
    <2> HIDE DEF g
    <2> QED
        BY <1>3, <2>1
<1>5. Found(l.next, n, first) = [i \in {j \in 1..(n + 1) : F[j] # null} |-> F[i]]
    BY DEF Found, F
<1>6. {j \in 1..(n + 1) : F[j] # null} = 1..Len(s)
    BY <1>0, <1>4, EntryFacts
<1>7. \A i \in 1..Len(s) : F[i] = s[i]
    BY <1>0, <1>4
<1>8. s = [i \in 1..Len(s) |-> s[i]]
    BY <1>0
<1> QED
    BY <1>5, <1>6, <1>7, <1>8

-----------------------------------------------------------------------------
(* An entry moves from one list to the front of the other. *)

LEMMA Removed ==
    ASSUME NEW S, NEW s \in Seq(S), NEW k \in 1..Len(s)
    PROVE  LET r == RemoveAt(s, k)
           IN  /\ r \in Seq(S) /\ Len(r) = Len(s) - 1
               /\ \A i \in 1..Len(r) : r[i] = IF i < k THEN s[i] ELSE s[i + 1]
<1> DEFINE r == RemoveAt(s, k)
           a == SubSeq(s, 1, k - 1)
           b == SubSeq(s, k + 1, Len(s))
<1>0. Len(s) \in Nat /\ k \in Nat /\ k >= 1 /\ k <= Len(s)
    OBVIOUS
<1>1. a \in Seq(S) /\ Len(a) = k - 1 /\ \A i \in 1..(k - 1) : a[i] = s[i]
    BY <1>0
<1>2. b \in Seq(S) /\ Len(b) = Len(s) - k /\ \A i \in 1..(Len(s) - k) : b[i] = s[i + k]
    BY <1>0
<1>3. r = a \o b
    BY DEF RemoveAt
<1> HIDE DEF a, b, r
<1>4. /\ r \in Seq(S) /\ Len(r) = Len(a) + Len(b)
      /\ \A i \in 1..(Len(a) + Len(b)) :
             r[i] = IF i <= Len(a) THEN a[i] ELSE b[i - Len(a)]
    BY <1>1, <1>2, <1>3, ConcatProperties
<1>5. Len(r) = Len(s) - 1
    BY <1>0, <1>1, <1>2, <1>4
<1>6. ASSUME NEW i \in 1..Len(r) PROVE r[i] = IF i < k THEN s[i] ELSE s[i + 1]
    <2>1. CASE i < k
        <3>1. i <= Len(a) /\ i \in 1..(k - 1)
            BY <1>0, <1>1, <2>1
        <3> QED
            BY <1>1, <1>4, <2>1, <3>1
    <2>2. CASE ~(i < k)
        <3>1. i - (k - 1) \in 1..(Len(s) - k) /\ i - (k - 1) + k = i + 1
            BY <1>0, <1>5, <2>2
        <3>2. r[i] = b[i - (k - 1)]
            BY <1>0, <1>1, <1>2, <1>4, <1>5, <2>2
        <3> QED
            BY <1>2, <2>2, <3>1, <3>2
    <2> QED
        BY <2>1, <2>2
<1> QED
    BY <1>4, <1>5, <1>6 DEF r

LEMMA RemovedOnce ==
    ASSUME NEW S, NEW s \in Seq(S), NEW k \in 1..Len(s), Once(s)
    PROVE  LET r == RemoveAt(s, k)
           IN  Once(r) /\ ToSet(r) = ToSet(s) \ {s[k]}
<1> DEFINE r == RemoveAt(s, k)
           At(i) == IF i < k THEN i ELSE i + 1
<1>0. Len(s) \in Nat /\ k \in Nat /\ k >= 1 /\ k <= Len(s)
    OBVIOUS
<1>1. r \in Seq(S) /\ Len(r) = Len(s) - 1 /\ \A i \in 1..Len(r) : r[i] = s[At(i)]
    BY Removed
<1> HIDE DEF r
<1>2. \A i \in 1..Len(r) : At(i) \in 1..Len(s) /\ At(i) # k /\ i \in Int
    BY <1>0, <1>1
<1>3. Once(r)
    BY <1>1, <1>2 DEF Once
<1>4. ASSUME NEW y \in ToSet(r) PROVE y \in ToSet(s) \ {s[k]}
    <2>1. PICK i \in 1..Len(r) : r[i] = y
        BY <1>1, InSet
    <2>2. y = s[At(i)] /\ At(i) \in 1..Len(s) /\ At(i) # k
        BY <1>1, <1>2, <2>1
    <2>3. y # s[k]
        BY <2>2 DEF Once
    <2> QED
        BY <2>2, <2>3, InSet
<1>5. ASSUME NEW y \in ToSet(s) \ {s[k]} PROVE y \in ToSet(r)
    <2>1. PICK j \in 1..Len(s) : s[j] = y /\ j # k
        BY InSet
    <2>2. \E i \in 1..Len(r) : At(i) = j
        <3>1. CASE j < k
            BY <1>0, <1>1, <3>1
        <3>2. CASE ~(j < k)
            <4>1. j - 1 \in 1..Len(r) /\ At(j - 1) = j
                BY <1>0, <1>1, <2>1, <3>2
            <4> QED
                BY <4>1
        <3> QED
            BY <3>1, <3>2
    <2>3. PICK i \in 1..Len(r) : At(i) = j
        BY <2>2
    <2>4. r[i] = y
        BY <1>1, <2>1, <2>3
    <2> HIDE DEF At
    <2> QED
        BY <1>1, <2>4, InSet
<1> QED
    BY <1>3, <1>4, <1>5 DEF r

LEMMA Pushed ==
    ASSUME NEW S, NEW s \in Seq(S), NEW x \in S
    PROVE  LET p == <<x>> \o s
           IN  /\ p \in Seq(S) /\ Len(p) = Len(s) + 1 /\ p[1] = x
               /\ \A i \in 1..Len(p) : i # 1 => i - 1 \in 1..Len(s) /\ p[i] = s[i - 1]
               /\ ToSet(p) = ToSet(s) \cup {x}
               /\ (Once(s) /\ x \notin ToSet(s)) => Once(p)
<1> DEFINE p == <<x>> \o s
<1>1. <<x>> \in Seq(S) /\ Len(<<x>>) = 1 /\ <<x>>[1] = x /\ Len(s) \in Nat
    OBVIOUS
<1>2. /\ p \in Seq(S) /\ Len(p) = Len(s) + 1
      /\ \A i \in 1..Len(p) : p[i] = IF i <= 1 THEN <<x>>[i] ELSE s[i - 1]
    BY <1>1, ConcatProperties
<1> HIDE DEF p
<1>3. p[1] = x
    BY <1>1, <1>2
<1>4. \A i \in 1..Len(p) : i # 1 => i - 1 \in 1..Len(s) /\ p[i] = s[i - 1]
    BY <1>1, <1>2
<1>5. 1 \in 1..Len(p)
    BY <1>1, <1>2
<1>6. ASSUME NEW y PROVE y \in ToSet(p) <=> y \in ToSet(s) \cup {x}
    <2>1. ASSUME NEW i \in 1..Len(p), p[i] = y PROVE y \in ToSet(s) \cup {x}
        BY <1>3, <1>4, <2>1, InSet
    <2>2. ASSUME NEW j \in 1..Len(s), s[j] = y PROVE y \in ToSet(p)
        <3>1. j + 1 \in 1..Len(p) /\ j + 1 # 1 /\ (j + 1) - 1 = j
            BY <1>1, <1>2
        <3>2. p[j + 1] = y
            BY <1>4, <2>2, <3>1
        <3> QED
            BY <1>2, <3>1, <3>2, InSet
    <2>3. x \in ToSet(p)
        BY <1>2, <1>3, <1>5, InSet
    <2>4. y \in ToSet(p) => y \in ToSet(s) \cup {x}
        BY <1>2, <2>1, InSet
    <2>5. y \in ToSet(s) => y \in ToSet(p)
        BY <2>2, InSet
    <2> QED
        BY <2>3, <2>4, <2>5
<1>7. ASSUME Once(s), x \notin ToSet(s) PROVE Once(p)
    <2> SUFFICES ASSUME NEW i \in 1..Len(p), NEW j \in 1..Len(p), p[i] = p[j] PROVE i = j
        BY DEF Once
    <2>1. CASE i = 1 \/ j = 1
        BY <1>3, <1>4, <1>7, <2>1, InSet
    <2>2. CASE i # 1 /\ j # 1
        <3>1. i - 1 = j - 1
            BY <1>4, <1>7, <2>2 DEF Once
        <3> QED
            BY <3>1
    <2> QED
        BY <2>1, <2>2
<1>8. ToSet(p) = ToSet(s) \cup {x}
    BY <1>6
<1> QED
    BY <1>2, <1>3, <1>4, <1>7, <1>8 DEF p

\* What link() after unlink() sets.
LEMMA LinkUnlink ==
    ASSUME NEW l \in LinkType, NEW entry \in Entries, NEW list \in Nodes,
           list # entry, l.prev[entry] # entry
    PROVE  LET linked == link(unlink(l, entry), entry, list)
           IN  /\ linked \in LinkType
               /\ \A e \in Entries :
                     /\ linked.next[e] = IF e = entry THEN list
                                         ELSE IF e = l.prev[entry] THEN l.next[entry]
                                         ELSE l.next[e]
                     /\ linked.prev[e] = IF e = list THEN entry
                                         ELSE IF e = entry THEN null
                                         ELSE IF e = l.next[entry] THEN l.prev[entry]
                                         ELSE l.prev[e]
<1> DEFINE u == unlink(l, entry)
           linked == link(u, entry, list)
<1>0. /\ l.next \in [Entries -> Nodes] /\ l.prev \in [Entries -> Nodes]
      /\ \A e \in Entries : l.next[e] \in Nodes /\ l.prev[e] \in Nodes
      /\ null \in Nodes /\ entry \in Nodes /\ null \notin Entries
    BY EntryFacts DEF LinkType, Nodes
<1>1. /\ u.next = [e \in Entries |-> IF e = entry THEN null
                      ELSE IF e = l.prev[entry] THEN l.next[entry] ELSE l.next[e]]
      /\ u.prev = [e \in Entries |-> IF e = entry THEN null
                      ELSE IF e = l.next[entry] THEN l.prev[entry] ELSE l.prev[e]]
    BY DEF unlink
<1> HIDE DEF u
<1>2. u.next \in [Entries -> Nodes] /\ u.prev \in [Entries -> Nodes]
    BY <1>0, <1>1
<1>3. /\ linked.next = IF list = null THEN u.next ELSE [u.next EXCEPT ![entry] = list]
      /\ linked.prev = [e \in Entries |-> IF e = list THEN entry ELSE u.prev[e]]
      /\ linked = [next |-> linked.next, prev |-> linked.prev]
    BY DEF link
<1> HIDE DEF linked
<1>4. linked.next \in [Entries -> Nodes] /\ linked.prev \in [Entries -> Nodes]
    BY <1>0, <1>2, <1>3
<1>5. linked \in LinkType
    BY <1>3, <1>4 DEF LinkType
<1>6. ASSUME NEW e \in Entries
      PROVE  linked.next[e] = IF e = entry THEN list
                              ELSE IF e = l.prev[entry] THEN l.next[entry]
                              ELSE l.next[e]
    <2>1. u.next[e] = IF e = entry THEN null
                      ELSE IF e = l.prev[entry] THEN l.next[entry] ELSE l.next[e]
        BY <1>1
    <2>2. linked.next[e] = IF e = entry /\ list # null THEN list ELSE u.next[e]
        BY <1>2, <1>3
    <2> QED
        BY <2>1, <2>2
<1>7. ASSUME NEW e \in Entries
      PROVE  linked.prev[e] = IF e = list THEN entry
                              ELSE IF e = entry THEN null
                              ELSE IF e = l.next[entry] THEN l.prev[entry]
                              ELSE l.prev[e]
    <2>1. u.prev[e] = IF e = entry THEN null
                      ELSE IF e = l.next[entry] THEN l.prev[entry] ELSE l.prev[e]
        BY <1>1
    <2> QED
        BY <1>3, <2>1
<1> QED
    BY <1>5, <1>6, <1>7 DEF linked, u

LEMMA Moved ==
    ASSUME NEW l \in LinkType, NEW h, NEW f, NEW used, NEW spare, NEW n,
           TwoLists(l, h, f, used, spare, n), NEW k \in 1..Len(used)
    PROVE  LET entry == used[k]
               linked == link(unlink(l, entry), entry, f)
           IN  /\ linked \in LinkType
               /\ TwoLists(linked, without(l, entry, h), entry,
                           RemoveAt(used, k), <<entry>> \o spare, n)
<1> DEFINE entry == used[k]
           linked == link(unlink(l, entry), entry, f)
           r == RemoveAt(used, k)
           p == <<entry>> \o spare
<1>1. /\ used \in Seq(Entries) /\ spare \in Seq(Entries)
      /\ Len(used) \in Nat /\ Len(spare) \in Nat /\ k \in Nat /\ k >= 1 /\ k <= Len(used)
      /\ \A i \in 1..Len(used) : used[i] \in Entries
      /\ \A i \in 1..Len(spare) : spare[i] \in Entries
      /\ entry \in Entries
    BY SeqFacts DEF TwoLists, Chain
<1>2. /\ h = used[1]
      /\ f = IF Len(spare) = 0 THEN null ELSE spare[1]
    BY <1>1 DEF TwoLists, Chain
<1>3. \A i \in 1..Len(used) :
          /\ l.next[used[i]] = IF i = Len(used) THEN null ELSE used[i + 1]
          /\ l.prev[used[i]] = IF i = 1 THEN null ELSE used[i - 1]
    BY DEF TwoLists, Chain
<1>4. \A i \in 1..Len(spare) :
          /\ l.next[spare[i]] = IF i = Len(spare) THEN null ELSE spare[i + 1]
          /\ l.prev[spare[i]] = IF i = 1 THEN null ELSE spare[i - 1]
    BY DEF TwoLists, Chain
<1>5. /\ Once(used) /\ Once(spare) /\ Len(used) + Len(spare) = n
      /\ ToSet(used) \cup ToSet(spare) = 1..n
      /\ \A i \in 1..Len(used), j \in 1..Len(spare) : used[i] # spare[j]
    BY DEF TwoLists, Shared
<1>6. /\ l.next[entry] = IF k = Len(used) THEN null ELSE used[k + 1]
      /\ l.prev[entry] = IF k = 1 THEN null ELSE used[k - 1]
    BY <1>3
<1>7. f \in Nodes /\ f # entry
    <2>1. CASE Len(spare) = 0
        BY <1>1, <1>2, <2>1, EntryFacts DEF Nodes
    <2>2. CASE Len(spare) # 0
        <3>1. 1 \in 1..Len(spare) /\ f = spare[1]
            BY <1>1, <1>2, <2>2
        <3> QED
            BY <1>1, <1>5, <3>1 DEF Nodes
    <2> QED
        BY <2>1, <2>2
<1>8. l.prev[entry] # entry
    <2>1. k # 1 => k - 1 \in 1..Len(used) /\ k - 1 # k
        BY <1>1
    <2>2. k # 1 => used[k - 1] # used[k]
        BY <1>5, <2>1 DEF Once
    <2> QED
        BY <1>1, <1>6, <2>2, EntryFacts
<1>9. /\ linked \in LinkType
      /\ \A e \in Entries :
            /\ linked.next[e] = IF e = entry THEN f
                                ELSE IF e = l.prev[entry] THEN l.next[entry]
                                ELSE l.next[e]
            /\ linked.prev[e] = IF e = f THEN entry
                                ELSE IF e = entry THEN null
                                ELSE IF e = l.next[entry] THEN l.prev[entry]
                                ELSE l.prev[e]
    BY <1>1, <1>7, <1>8, LinkUnlink
<1>10. /\ r \in Seq(Entries) /\ Len(r) = Len(used) - 1
       /\ \A i \in 1..Len(r) : r[i] = IF i < k THEN used[i] ELSE used[i + 1]
    BY <1>1, Removed
<1>11. Once(r) /\ ToSet(r) = ToSet(used) \ {entry}
    BY <1>1, <1>5, RemovedOnce
<1>12. entry \in ToSet(used) /\ entry \notin ToSet(spare)
    BY <1>1, <1>5, InSet
<1>13. /\ p \in Seq(Entries) /\ Len(p) = Len(spare) + 1 /\ p[1] = entry
       /\ \A i \in 1..Len(p) : i # 1 => i - 1 \in 1..Len(spare) /\ p[i] = spare[i - 1]
       /\ ToSet(p) = ToSet(spare) \cup {entry}
       /\ Once(p)
    BY <1>1, <1>5, <1>12, Pushed
<1>14. \A i \in 1..Len(used) : i # k => used[i] # entry
    BY <1>5 DEF Once
<1> HIDE DEF linked, r, p, entry
<1>15. Chain(linked, without(l, entry, h), r)
    <2>1. without(l, entry, h) = IF Len(r) = 0 THEN null ELSE r[1]
        <3>1. CASE k = 1
            <4>1. h = entry
                BY <1>2, <3>1 DEF entry
            <4>2. Len(r) # 0 => r[1] = used[2] /\ 1 # Len(used)
                BY <1>1, <1>10, <3>1
            <4>3. Len(r) = 0 => k = Len(used)
                BY <1>1, <1>10, <3>1
            <4> QED
                BY <1>6, <3>1, <4>1, <4>2, <4>3 DEF without
        <3>2. CASE k # 1
            <4>1. 1 \in 1..Len(used) /\ 1 \in 1..Len(r) /\ 1 < k /\ Len(r) # 0
                BY <1>1, <1>10, <3>2
            <4>2. r[1] = used[1] /\ h # entry
                BY <1>2, <1>10, <1>14, <3>2, <4>1
            <4> QED
                BY <1>2, <4>1, <4>2 DEF without
        <3> QED
            BY <3>1, <3>2
    <2>2. ASSUME NEW i \in 1..Len(r)
          PROVE  /\ linked.next[r[i]] = IF i = Len(r) THEN null ELSE r[i + 1]
                 /\ linked.prev[r[i]] = IF i = 1 THEN null ELSE r[i - 1]
        <3> DEFINE a == IF i < k THEN i ELSE i + 1
        <3>1. r[i] = used[a] /\ a \in 1..Len(used) /\ a # k /\ a \in Nat /\ i \in Nat
            BY <1>1, <1>10
        <3>2. r[i] \in Entries /\ r[i] # entry
            BY <1>1, <1>14, <3>1
        <3>3. r[i] # f
            <4>1. Len(spare) # 0 => 1 \in 1..Len(spare)
                BY <1>1
            <4> QED
                BY <1>2, <1>5, <3>1, <3>2, <4>1, EntryFacts
        <3>4. k # 1 => k - 1 \in 1..Len(used)
            BY <1>1
        <3>5. k # Len(used) => k + 1 \in 1..Len(used)
            BY <1>1
        <3>6. r[i] = l.prev[entry] <=> k # 1 /\ a = k - 1
            BY <1>5, <1>6, <3>1, <3>2, <3>4, EntryFacts DEF Once
        <3>7. r[i] = l.next[entry] <=> k # Len(used) /\ a = k + 1
            BY <1>5, <1>6, <3>1, <3>2, <3>5, EntryFacts DEF Once
        <3>8. /\ linked.next[r[i]] = IF k # 1 /\ a = k - 1 THEN l.next[entry]
                                     ELSE l.next[r[i]]
              /\ linked.prev[r[i]] = IF k # Len(used) /\ a = k + 1 THEN l.prev[entry]
                                     ELSE l.prev[r[i]]
            BY <1>9, <3>2, <3>3, <3>6, <3>7
        <3>9. /\ l.next[r[i]] = IF a = Len(used) THEN null ELSE used[a + 1]
              /\ l.prev[r[i]] = IF a = 1 THEN null ELSE used[a - 1]
            BY <1>3, <3>1
        <3>10. i # Len(r) => r[i + 1] = IF i + 1 < k THEN used[i + 1] ELSE used[(i + 1) + 1]
            BY <1>1, <1>10
        <3>11. i # 1 => r[i - 1] = IF i - 1 < k THEN used[i - 1] ELSE used[(i - 1) + 1]
            BY <1>1, <1>10
        <3>12. linked.next[r[i]] = IF i = Len(r) THEN null ELSE r[i + 1]
            <4>1. CASE i + 1 < k
                <5>1. a = i /\ a # k - 1 /\ i # Len(r) /\ a # Len(used)
                    BY <1>1, <1>10, <3>1, <4>1
                <5> QED
                    BY <3>8, <3>9, <3>10, <4>1, <5>1
            <4>2. CASE i + 1 = k
                <5>1. a = i /\ a = k - 1 /\ k # 1 /\ ~(i + 1 < k) /\ (i + 1) + 1 = k + 1
                    BY <1>1, <3>1, <4>2
                <5>2. k = Len(used) <=> i = Len(r)
                    BY <1>1, <1>10, <3>1, <4>2
                <5> QED
                    BY <1>6, <3>8, <3>10, <5>1, <5>2
            <4>3. CASE i >= k
                <5>1. a = i + 1 /\ a # k - 1 /\ ~(i + 1 < k) /\ (i + 1) + 1 = a + 1
                    BY <1>1, <3>1, <4>3
                <5>2. a = Len(used) <=> i = Len(r)
                    BY <1>1, <1>10, <3>1, <5>1
                <5> QED
                    BY <3>8, <3>9, <3>10, <5>1, <5>2
            <4> QED
                BY <1>1, <3>1, <4>1, <4>2, <4>3
        <3>13. linked.prev[r[i]] = IF i = 1 THEN null ELSE r[i - 1]
            <4>1. CASE i < k
                <5>1. a = i /\ a # k + 1 /\ i - 1 < k
                    BY <1>1, <3>1, <4>1
                <5> QED
                    BY <3>8, <3>9, <3>11, <5>1
            <4>2. CASE i = k
                <5>1. a = k + 1 /\ k # Len(used) /\ i - 1 < k
                    BY <1>1, <3>1, <4>2
                <5> QED
                    BY <1>6, <3>8, <3>11, <4>2, <5>1
            <4>3. CASE i > k
                <5>1. a = i + 1 /\ a # k + 1 /\ ~(i - 1 < k) /\ i # 1 /\ a # 1
                    BY <1>1, <3>1, <4>3
                <5>2. (i - 1) + 1 = a - 1
                    BY <3>1, <5>1
                <5> QED
                    BY <3>8, <3>9, <3>11, <5>1, <5>2
            <4> QED
                BY <1>1, <3>1, <4>1, <4>2, <4>3
        <3> QED
            BY <3>12, <3>13
    <2> QED
        BY <1>10, <2>1, <2>2 DEF Chain
<1>16. Chain(linked, entry, p)
    <2>1. Len(p) # 0
        BY <1>1, <1>13
    <2>2. ASSUME NEW i \in 1..Len(p)
          PROVE  /\ linked.next[p[i]] = IF i = Len(p) THEN null ELSE p[i + 1]
                 /\ linked.prev[p[i]] = IF i = 1 THEN null ELSE p[i - 1]
        <3>1. i # Len(p) => i + 1 \in 1..Len(p) /\ i + 1 # 1 /\ (i + 1) - 1 = i
            BY <1>1, <1>13
        <3>2. i # Len(p) => p[i + 1] = spare[i]
            BY <1>13, <3>1
        <3>3. CASE i = 1
            <4>1. linked.next[entry] = f /\ linked.prev[entry] = null
                BY <1>1, <1>7, <1>9 DEF entry
            <4>2. i = Len(p) <=> Len(spare) = 0
                BY <1>1, <1>13, <3>3
            <4> QED
                BY <1>2, <1>13, <3>2, <3>3, <4>1, <4>2
        <3>4. CASE i # 1
            <4> DEFINE j == i - 1
            <4>1. j \in 1..Len(spare) /\ p[i] = spare[j] /\ j + 1 = i
                BY <1>13, <3>4
            <4>2. p[i] \in Entries /\ p[i] # entry
                BY <1>1, <1>12, <4>1, InSet
            <4>3. \A m \in 1..Len(used) : p[i] # used[m]
                BY <1>5, <4>1
            <4>4. p[i] # l.prev[entry] /\ p[i] # l.next[entry]
                <5>1. (k # 1 => k - 1 \in 1..Len(used)) /\ (k # Len(used) => k + 1 \in 1..Len(used))
                    BY <1>1
                <5> QED
                    BY <1>6, <4>2, <4>3, <5>1, EntryFacts
            <4>5. p[i] = f <=> j = 1
                <5>1. Len(spare) # 0 /\ 1 \in 1..Len(spare)
                    BY <1>1, <4>1
                <5> QED
                    BY <1>2, <1>5, <4>1, <5>1 DEF Once
            <4>6. /\ linked.next[p[i]] = l.next[p[i]]
                  /\ linked.prev[p[i]] = IF j = 1 THEN entry ELSE l.prev[p[i]]
                BY <1>9, <4>2, <4>4, <4>5
            <4>7. /\ l.next[p[i]] = IF j = Len(spare) THEN null ELSE spare[i]
                  /\ l.prev[p[i]] = IF j = 1 THEN null ELSE spare[j - 1]
                <5> HIDE DEF j
                <5> QED
                    BY <1>4, <4>1
            <4>8. linked.next[p[i]] = IF i = Len(p) THEN null ELSE p[i + 1]
                <5>1. i = Len(p) <=> j = Len(spare)
                    BY <1>1, <1>13, <4>1
                <5> HIDE DEF j
                <5> QED
                    BY <3>2, <4>6, <4>7, <5>1
            <4>9. linked.prev[p[i]] = p[i - 1]
                <5>1. j = 1 => p[i - 1] = entry
                    BY <1>13
                <5>2. j # 1 => j \in 1..Len(p) /\ p[j] = spare[j - 1]
                    BY <1>1, <1>13, <4>1
                <5> QED
                    BY <4>6, <4>7, <5>1, <5>2
            <4> QED
                BY <3>4, <4>8, <4>9
        <3> QED
            BY <3>3, <3>4
    <2> QED
        BY <1>13, <2>1, <2>2 DEF Chain
<1>17. Shared(r, p, n)
    <2>1. ASSUME NEW i \in 1..Len(r), NEW j \in 1..Len(p), r[i] = p[j] PROVE FALSE
        <3>1. r[i] \in ToSet(r) /\ r[i] \in ToSet(p)
            BY <1>10, <1>13, <2>1, InSet
        <3>2. r[i] \in ToSet(used) /\ r[i] \in ToSet(spare)
            BY <1>11, <1>13, <3>1
        <3>3. PICK a \in 1..Len(used) : used[a] = r[i]
            BY <1>1, <3>2, InSet
        <3>4. PICK b \in 1..Len(spare) : spare[b] = r[i]
            BY <1>1, <3>2, InSet
        <3> QED
            BY <1>5, <3>3, <3>4
    <2>2. Len(r) + Len(p) = n
        BY <1>1, <1>5, <1>10, <1>13
    <2>3. ToSet(r) \cup ToSet(p) = 1..n
        BY <1>5, <1>11, <1>12, <1>13
    <2> QED
        BY <1>11, <1>13, <2>1, <2>2, <2>3 DEF Shared
<1> QED
    BY <1>9, <1>15, <1>16, <1>17 DEF TwoLists, linked, r, p, entry

-----------------------------------------------------------------------------
(* emplace_front() and erase(), as functions of the links. *)

LEMMA Swapped ==
    ASSUME NEW l, NEW h, NEW f, NEW used, NEW spare, NEW n,
           TwoLists(l, h, f, used, spare, n)
    PROVE  TwoLists(l, f, h, spare, used, n)
<1>1. used \in Seq(Entries) /\ spare \in Seq(Entries)
    BY DEF TwoLists, Chain
<1>2. Len(used) \in Nat /\ Len(spare) \in Nat
    BY <1>1
<1>3. Shared(spare, used, n)
    <2>1. Len(spare) + Len(used) = n
        BY <1>2 DEF TwoLists, Shared
    <2> QED
        BY <2>1 DEF TwoLists, Shared
<1> QED
    BY <1>3 DEF TwoLists

\* The first entry of free moves to the front of the list of head.
LEMMA MovedToHead ==
    ASSUME NEW l \in LinkType, NEW h, NEW f, NEW used, NEW spare, NEW n,
           TwoLists(l, h, f, used, spare, n), f # null
    PROVE  LET linked == link(unlink(l, f), f, h)
           IN  /\ linked \in LinkType /\ f \in Entries /\ f \notin ToSet(used)
               /\ TwoLists(linked, f, without(l, f, f), <<f>> \o used, RemoveAt(spare, 1), n)
<1>1. /\ spare \in Seq(Entries) /\ used \in Seq(Entries) /\ Len(spare) \in Nat
      /\ f = IF Len(spare) = 0 THEN null ELSE spare[1]
    BY SeqFacts DEF TwoLists, Chain
<1>2. 1 \in 1..Len(spare) /\ f = spare[1]
    BY <1>1
<1>3. TwoLists(l, f, h, spare, used, n)
    BY Swapped
<1> DEFINE linked == link(unlink(l, f), f, h)
<1>4. /\ linked \in LinkType
      /\ TwoLists(linked, without(l, f, f), f, RemoveAt(spare, 1), <<f>> \o used, n)
    BY <1>2, <1>3, Moved
<1>5. TwoLists(linked, f, without(l, f, f), <<f>> \o used, RemoveAt(spare, 1), n)
    BY <1>4, Swapped
<1>6. f \in Entries
    BY <1>1, <1>2, SeqFacts
<1>7. f \notin ToSet(used)
    BY <1>1, <1>2, InSet DEF TwoLists, Shared
<1> QED
    BY <1>4, <1>5, <1>6, <1>7

\* The entries of a new allocation are free, the last of them first.
LEMMA Grown ==
    ASSUME Links \in LinkType, capacity \in Nat, NEW count \in Nat \ {0},
           capacity + count <= MaxEntries, NEW used, NEW spare,
           TwoLists(Links, head, null, used, spare, capacity)
    PROVE  /\ grown(count) \in LinkType
           /\ \E s : TwoLists(grown(count), head, capacity + count, used, s, capacity + count)
<1> DEFINE n == capacity + count
           new == (capacity + 1)..n
           l == grown(count)
           s == [i \in 1..count |-> n + 1 - i]
<1>1. /\ l.next = [e \in Entries |-> IF e \in new THEN (IF e = capacity + 1 THEN null ELSE e - 1)
                                     ELSE next[e]]
      /\ l.prev = [e \in Entries |-> IF e \in new THEN (IF e = n THEN null ELSE e + 1)
                                     ELSE prev[e]]
      /\ l = [next |-> l.next, prev |-> l.prev]
    BY DEF grown
<1>2. next \in [Entries -> Nodes] /\ prev \in [Entries -> Nodes]
    BY DEF Links, LinkType
<1> HIDE DEF l
<1>3. \A e \in new : e \in Entries /\ e \in Nat
    BY EntryFacts DEF Entries
<1>4. l \in LinkType
    <2>1. ASSUME NEW e \in new PROVE (e # capacity + 1 => e - 1 \in new) /\ (e # n => e + 1 \in new)
        OBVIOUS
    <2>2. l.next \in [Entries -> Nodes] /\ l.prev \in [Entries -> Nodes]
        BY <1>1, <1>2, <1>3, <2>1 DEF Nodes
    <2> QED
        BY <1>1, <2>2 DEF LinkType
<1>5. /\ used \in Seq(Entries) /\ spare \in Seq(Entries)
      /\ Len(used) \in Nat /\ Len(spare) \in Nat
      /\ \A i \in 1..Len(used) : used[i] \in Entries
      /\ \A i \in 1..Len(spare) : spare[i] \in Entries
    BY SeqFacts DEF TwoLists, Chain
<1>6. Len(spare) = 0 /\ Len(used) = capacity /\ ToSet(used) = 1..capacity
    <2>1. null = IF Len(spare) = 0 THEN null ELSE spare[1]
        BY DEF TwoLists, Chain
    <2>2. Len(spare) = 0
        BY <1>5, <2>1, EntryFacts
    <2>3. ToSet(spare) = {}
        <3>1. ~ \E i \in 1..Len(spare) : TRUE
            BY <2>2
        <3>2. ASSUME NEW x PROVE x \notin ToSet(spare)
            BY <1>5, <3>1, InSet
        <3> QED
            BY <3>2
    <2> QED
        BY <1>5, <2>2, <2>3 DEF TwoLists, Shared
<1>7. \A i \in 1..Len(used) : used[i] \in 1..capacity
    BY <1>5, <1>6, InSet
<1>8. Chain(l, head, used)
    <2>1. ASSUME NEW i \in 1..Len(used)
          PROVE  l.next[used[i]] = next[used[i]] /\ l.prev[used[i]] = prev[used[i]]
        <3>1. used[i] \in Entries /\ used[i] \notin new
            BY <1>5, <1>7
        <3> QED
            BY <1>1, <3>1
    <2> QED
        BY <2>1 DEF TwoLists, Chain, Links
<1>9. /\ s \in Seq(Entries) /\ Len(s) = count
      /\ \A i \in 1..count : s[i] = n + 1 - i /\ s[i] \in new
    <2>1. \A i \in 1..count : s[i] = n + 1 - i /\ s[i] \in new
        OBVIOUS
    <2>2. s \in [1..count -> Entries]
        BY <1>3, <2>1
    <2> HIDE DEF s
    <2> QED
        BY <2>1, <2>2
<1> HIDE DEF s
<1>10. Chain(l, n, s)
    <2>1. n = IF Len(s) = 0 THEN null ELSE s[1]
        BY <1>9
    <2>2. ASSUME NEW i \in 1..Len(s)
          PROVE  /\ l.next[s[i]] = IF i = Len(s) THEN null ELSE s[i + 1]
                 /\ l.prev[s[i]] = IF i = 1 THEN null ELSE s[i - 1]
        <3>1. s[i] = n + 1 - i /\ s[i] \in new /\ s[i] \in Entries
            BY <1>3, <1>9
        <3>2. (i # Len(s) => s[i + 1] = n + 1 - (i + 1)) /\ (i # 1 => s[i - 1] = n + 1 - (i - 1))
            BY <1>9
        <3>3. /\ l.next[s[i]] = IF s[i] = capacity + 1 THEN null ELSE s[i] - 1
              /\ l.prev[s[i]] = IF s[i] = n THEN null ELSE s[i] + 1
            BY <1>1, <3>1
        <3>4. (s[i] = capacity + 1 <=> i = Len(s)) /\ (s[i] = n <=> i = 1)
            BY <1>9, <3>1
        <3> QED
            BY <1>9, <3>1, <3>2, <3>3, <3>4
    <2> QED
        BY <1>9, <2>1, <2>2 DEF Chain
<1>11. Shared(used, s, n)
    <2>1. Once(s)
        BY <1>9 DEF Once
    <2>2. \A i \in 1..Len(used), j \in 1..Len(s) : used[i] # s[j]
        BY <1>7, <1>9
    <2>3. ToSet(s) = new
        <3>1. ASSUME NEW y PROVE y \in ToSet(s) <=> y \in new
            <4>1. ASSUME y \in new PROVE y \in ToSet(s)
                <5>1. n + 1 - y \in 1..count /\ n + 1 - (n + 1 - y) = y
                    BY <4>1
                <5>2. s[n + 1 - y] = y
                    BY <1>9, <5>1
                <5> QED
                    BY <1>9, <5>1, <5>2, InSet
            <4> QED
                BY <1>9, <4>1, InSet
        <3> QED
            BY <3>1
    <2>4. ToSet(used) \cup ToSet(s) = 1..n
        BY <1>6, <2>3
    <2> QED
        BY <1>6, <1>9, <2>1, <2>2, <2>4 DEF TwoLists, Shared
<1> QED
    BY <1>4, <1>8, <1>10, <1>11 DEF TwoLists, l

-----------------------------------------------------------------------------
(* The invariant. *)

\* used and spare are what the two lists hold, and what the counts say.
Holding(used, spare) ==
    /\ TwoLists(Links, head, free, used, spare, capacity)
    /\ size_ = Len(used)
    /\ alive = IF destroyed THEN {} ELSE ToSet(used)

ListInv ==
    /\ Links \in LinkType
    /\ data = [e \in Entries |-> data[e]]
    /\ capacity \in Nat /\ destroyed \in BOOLEAN
    /\ \E used, spare : Holding(used, spare)

\* Following the pointers finds them.
LEMMA WalksAre ==
    ASSUME capacity \in Nat, NEW used, NEW spare, Holding(used, spare)
    PROVE  Walk(head) = used /\ Walk(free) = spare
<1>1. /\ Chain(Links, head, used) /\ Chain(Links, free, spare)
      /\ Len(used) + Len(spare) = capacity
      /\ Links.next = next
    BY DEF Holding, TwoLists, Shared, Links
<1>2. Len(used) \in Nat /\ Len(spare) \in Nat
    BY <1>1, SeqFacts DEF Chain
<1>3. Len(used) <= capacity /\ Len(spare) <= capacity
    BY <1>1, <1>2
<1>4. Found(next, capacity, head) = used /\ Found(next, capacity, free) = spare
    BY <1>1, <1>3, ChainFound
<1> QED
    BY <1>4, WalkFinds

LEMMA WalksThen ==
    ASSUME capacity' \in Nat, NEW used, NEW spare, Holding(used, spare)'
    PROVE  Walk(head)' = used
<1>1. /\ Chain(Links', head', used)
      /\ Len(used) + Len(spare) = capacity' /\ spare \in Seq(Entries)
      /\ Links'.next = next'
    BY DEF Holding, TwoLists, Shared, Links, Chain
<1>2. Len(used) \in Nat /\ Len(spare) \in Nat
    BY <1>1, SeqFacts DEF Chain
<1>3. Found(next', capacity', head') = used
    <2>1. Len(used) <= capacity'
        BY <1>1, <1>2
    <2> QED
        BY <1>1, <2>1, ChainFound
<1>4. Walk(head)' = Found(next', capacity', head')
    BY DEF Walk, Found
<1> QED
    BY <1>3, <1>4

LEMMA Holds == ListInv => Holding(Walk(head), Walk(free))
<1> SUFFICES ASSUME ListInv PROVE Holding(Walk(head), Walk(free))
    OBVIOUS
<1>1. PICK used, spare : Holding(used, spare)
    BY DEF ListInv
<1> QED
    BY <1>1, WalksAre DEF ListInv

LEMMA InitInv == Init => ListInv
<1> SUFFICES ASSUME Init PROVE ListInv
    OBVIOUS
<1>1. Links \in LinkType
    <2>1. null \in Nodes
        BY DEF Nodes
    <2> QED
        BY <2>1 DEF Init, Links, LinkType
<1>2. data = [e \in Entries |-> data[e]]
    BY DEF Init
<1>3. Holding(<<>>, <<>>)
    <2>1. <<>> \in Seq(Entries) /\ Len(<<>>) = 0
        OBVIOUS
    <2>2. ToSet(<<>>) = {} /\ 1..0 = {}
        <3>1. ~ \E i \in 1..0 : TRUE
            OBVIOUS
        <3>2. ASSUME NEW x PROVE x \notin ToSet(<<>>)
            BY <2>1, <3>1, InSet
        <3> QED
            BY <3>1, <3>2
    <2>3. Chain(Links, null, <<>>)
        BY <2>1 DEF Chain
    <2>4. Shared(<<>>, <<>>, 0)
        BY <2>1, <2>2 DEF Shared, Once
    <2> QED
        BY <2>1, <2>2, <2>3, <2>4 DEF Init, Holding, TwoLists
<1>4. capacity \in Nat /\ destroyed \in BOOLEAN
    BY DEF Init
<1> QED
    BY <1>1, <1>2, <1>3, <1>4 DEF ListInv

\* What EmplaceIn() does with the links l of n entries, entry the first free of them.
LEMMA EmplaceInKeeps ==
    ASSUME NEW l \in LinkType, NEW n \in Nat, NEW entry, NEW used, NEW spare, NEW v,
           ListInv, TwoLists(l, head, entry, used, spare, n), entry # null,
           EmplaceIn(l, entry, v), capacity' = n,
           ~destroyed, destroyed' = destroyed, size_ = Len(used), alive = ToSet(used)
    PROVE  /\ ListInv'
           /\ entry \in Entries /\ entry \notin ToSet(used)
           /\ Walk(head)' = <<entry>> \o used
           /\ data' = [data EXCEPT ![entry] = v]
<1> DEFINE linked == link(unlink(l, entry), entry, head)
           rest == without(l, entry, entry)
           after == <<entry>> \o used
<1>1. /\ linked \in LinkType /\ entry \in Entries /\ entry \notin ToSet(used)
      /\ TwoLists(linked, entry, rest, after, RemoveAt(spare, 1), n)
    BY MovedToHead
<1>2. /\ next' = linked.next /\ prev' = linked.prev /\ head' = entry /\ free' = rest
      /\ data' = [data EXCEPT ![entry] = v] /\ alive' = alive \cup {entry}
      /\ size_' = size_ + 1
    BY DEF EmplaceIn
<1>3. used \in Seq(Entries)
    BY DEF TwoLists, Chain
<1>4. Len(after) = Len(used) + 1 /\ ToSet(after) = ToSet(used) \cup {entry}
    BY <1>1, <1>3, Pushed
<1> HIDE DEF linked, rest, after
<1>5. Links' = linked
    BY <1>1, <1>2 DEF Links, LinkType
<1>6. Holding(after, RemoveAt(spare, 1))'
    <2>1. TwoLists(Links', head', free', after, RemoveAt(spare, 1), capacity')
        BY <1>1, <1>2, <1>5
    <2>2. size_' = Len(after) /\ alive' = ToSet(after) /\ ~destroyed'
        BY <1>2, <1>4
    <2> QED
        BY <2>1, <2>2 DEF Holding
<1>7. data' = [e \in Entries |-> data'[e]]
    BY <1>2 DEF ListInv
<1>8. capacity' \in Nat /\ destroyed' \in BOOLEAN
    BY DEF ListInv
<1>9. ListInv'
    BY <1>1, <1>5, <1>6, <1>7, <1>8 DEF ListInv
<1>10. Walk(head)' = after
    BY <1>6, <1>8, WalksThen
<1> QED
    BY <1>1, <1>2, <1>9, <1>10 DEF after

LEMMA EmplaceKeeps ==
    ASSUME ListInv, NEW v, emplace_front(v)
    PROVE  /\ ListInv'
           /\ \E entry \in Entries :
                 /\ entry \notin ToSet(Walk(head))
                 /\ Walk(head)' = <<entry>> \o Walk(head)
                 /\ data' = [data EXCEPT ![entry] = v]
<1> DEFINE used == Walk(head)
           spare == Walk(free)
<1>1. /\ TwoLists(Links, head, free, used, spare, capacity)
      /\ size_ = Len(used) /\ alive = ToSet(used)
      /\ ~destroyed /\ destroyed' = destroyed
    BY Holds DEF Holding, emplace_front
<1>2. Links \in LinkType /\ capacity \in Nat
    BY DEF ListInv
<1>3. CASE free # null
    <2>1. EmplaceIn(Links, free, v) /\ capacity' = capacity
        BY <1>3 DEF emplace_front
    <2> QED
        BY <1>1, <1>2, <1>3, <2>1, EmplaceInKeeps
<1>4. CASE free = null
    <2> DEFINE count == IF capacity < FirstGrow THEN FirstGrow ELSE capacity
    <2>1. /\ capacity + count <= MaxEntries /\ capacity' = capacity + count
          /\ EmplaceIn(grown(count), capacity + count, v)
        BY <1>4 DEF emplace_front
    <2>2. count \in Nat \ {0}
        BY <1>2, ListAssumption
    <2> HIDE DEF count, used, spare
    <2>3. /\ grown(count) \in LinkType
          /\ \E s : TwoLists(grown(count), head, capacity + count, used, s, capacity + count)
        BY <1>1, <1>2, <1>4, <2>1, <2>2, Grown
    <2>4. PICK s : TwoLists(grown(count), head, capacity + count, used, s, capacity + count)
        BY <2>3
    <2>5. capacity + count \in Nat /\ capacity + count # null
        BY <1>2, <2>2 DEF null
    <2>6. /\ ListInv'
          /\ capacity + count \in Entries /\ capacity + count \notin ToSet(used)
          /\ Walk(head)' = <<capacity + count>> \o used
          /\ data' = [data EXCEPT ![capacity + count] = v]
        BY <1>1, <2>1, <2>3, <2>4, <2>5, EmplaceInKeeps
    <2> QED
        BY <2>6 DEF used
<1> QED
    BY <1>3, <1>4

LEMMA EraseKeeps ==
    ASSUME ListInv, NEW entry, erase(entry)
    PROVE  /\ ListInv'
           /\ \E k \in 1..Len(Walk(head)) :
                 Walk(head)[k] = entry /\ Walk(head)' = RemoveAt(Walk(head), k)
           /\ data' = data
<1>0. PICK used, spare : used = Walk(head) /\ spare = Walk(free)
    OBVIOUS
<1> DEFINE linked == link(unlink(Links, entry), entry, free)
<1>1. /\ TwoLists(Links, head, free, used, spare, capacity)
      /\ size_ = Len(used) /\ alive = ToSet(used)
      /\ ~destroyed /\ destroyed' = destroyed /\ entry \in alive
    BY <1>0, Holds DEF Holding, erase
<1>2. /\ next' = linked.next /\ prev' = linked.prev
      /\ head' = without(Links, entry, head) /\ free' = entry
      /\ alive' = alive \ {entry} /\ size_' = size_ - 1
      /\ data' = data /\ capacity' = capacity
    BY DEF erase, Destroys
<1>3. Links \in LinkType /\ capacity \in Nat
    BY DEF ListInv
<1>4. used \in Seq(Entries) /\ spare \in Seq(Entries) /\ Once(used)
    BY <1>1 DEF TwoLists, Chain, Shared
<1>5. PICK k \in 1..Len(used) : used[k] = entry
    BY <1>1, <1>4, InSet
<1> DEFINE after == RemoveAt(used, k)
           more == <<entry>> \o spare
<1>6. /\ linked \in LinkType
      /\ TwoLists(linked, without(Links, entry, head), entry, after, more, capacity)
    BY <1>1, <1>3, <1>5, Moved
<1>7. Len(after) = Len(used) - 1 /\ ToSet(after) = ToSet(used) \ {entry}
    BY <1>4, <1>5, Removed, RemovedOnce
<1> HIDE DEF linked, after, more
<1>8. Links' = linked
    BY <1>2, <1>6 DEF Links, LinkType
<1>9. Holding(after, more)'
    <2>1. TwoLists(Links', head', free', after, more, capacity')
        BY <1>2, <1>6, <1>8
    <2>2. size_' = Len(after) /\ alive' = ToSet(after) /\ ~destroyed'
        BY <1>1, <1>2, <1>7
    <2> QED
        BY <2>1, <2>2 DEF Holding
<1>10. data' = [e \in Entries |-> data'[e]]
    BY <1>2 DEF ListInv
<1>11. ListInv'
    BY <1>1, <1>2, <1>3, <1>6, <1>8, <1>9, <1>10 DEF ListInv
<1>12. Walk(head)' = after
    BY <1>2, <1>3, <1>9, WalksThen
<1> QED
    BY <1>0, <1>2, <1>5, <1>11, <1>12 DEF after

LEMMA DestructorKeeps ==
    ASSUME ListInv, Destructor
    PROVE  ListInv' /\ Walk(head)' = Walk(head) /\ data' = data
<1>0. PICK used, spare : used = Walk(head) /\ spare = Walk(free)
    OBVIOUS
<1>1. /\ TwoLists(Links, head, free, used, spare, capacity)
      /\ size_ = Len(used) /\ alive = ToSet(used)
    BY <1>0, Holds DEF Holding, Destructor
<1>2. /\ next' = next /\ prev' = prev /\ head' = head /\ free' = free /\ data' = data
      /\ size_' = size_ /\ capacity' = capacity
      /\ destroyed' = TRUE /\ alive' = alive \ ToSet(used)
    BY <1>0 DEF Destructor, links
<1>3. Links' = Links
    BY <1>2 DEF Links
<1>4. Holding(used, spare)'
    <2>1. TwoLists(Links', head', free', used, spare, capacity')
        BY <1>1, <1>2, <1>3
    <2>2. size_' = Len(used) /\ alive' = {} /\ destroyed'
        BY <1>1, <1>2
    <2> QED
        BY <2>1, <2>2 DEF Holding
<1>5. Links' \in LinkType /\ capacity' \in Nat /\ destroyed' \in BOOLEAN
    BY <1>2, <1>3 DEF ListInv
<1>6. data' = [e \in Entries |-> data'[e]]
    BY <1>2 DEF ListInv
<1>7. ListInv'
    BY <1>4, <1>5, <1>6 DEF ListInv
<1>8. Walk(head)' = used
    BY <1>4, <1>5, WalksThen
<1> QED
    BY <1>0, <1>2, <1>7, <1>8

LEMMA StutterKeeps ==
    ASSUME ListInv, UNCHANGED vars
    PROVE  ListInv' /\ Walk(head)' = Walk(head) /\ data' = data
<1>1. /\ next' = next /\ prev' = prev /\ head' = head /\ free' = free /\ data' = data
      /\ size_' = size_ /\ capacity' = capacity /\ alive' = alive /\ destroyed' = destroyed
    BY DEF vars, links
<1>2. Links' = Links
    BY <1>1 DEF Links
<1>3. PICK used, spare : Holding(used, spare)
    BY DEF ListInv
<1>4. Holding(used, spare)'
    BY <1>1, <1>2, <1>3 DEF Holding
<1>5. ListInv'
    <2>1. Links' \in LinkType /\ data' = [e \in Entries |-> data'[e]] /\ capacity' \in Nat
          /\ destroyed' \in BOOLEAN
        BY <1>1, <1>2 DEF ListInv
    <2> QED
        BY <1>4, <2>1 DEF ListInv
<1>6. Walk(head)' = Walk(head)
    BY <1>1, WalkFinds DEF Walk
<1> QED
    BY <1>1, <1>5, <1>6

LEMMA ListAlways == Spec => []ListInv
<1>1. ListInv /\ [Next]_vars => ListInv'
    <2> SUFFICES ASSUME ListInv, [Next]_vars PROVE ListInv'
        OBVIOUS
    <2>1. ASSUME NEW v \in Values, emplace_front(v) PROVE ListInv'
        BY <2>1, EmplaceKeeps
    <2>2. ASSUME NEW entry \in Entries, erase(entry) PROVE ListInv'
        BY <2>2, EraseKeeps
    <2>3. CASE Destructor
        BY <2>3, DestructorKeeps
    <2>4. CASE UNCHANGED vars
        BY <2>4, StutterKeeps
    <2> QED
        BY <2>1, <2>2, <2>3, <2>4 DEF Next
<1> QED
    BY <1>1, InitInv, PTL DEF Spec

-----------------------------------------------------------------------------
(* The theorems. *)

\* EachInOneList: whatever went back and forth, every entry is in one of the two lists
\* of containers::list, at one place, and its element exists while it is in use.
THEOREM EntriesInOneList == Spec => []EachInOneList
<1>1. ListInv => EachInOneList
    <2> SUFFICES ASSUME ListInv PROVE EachInOneList
        OBVIOUS
    <2> DEFINE used == Walk(head)
               spare == Walk(free)
    <2>1. Holding(used, spare)
        BY Holds
    <2>2. /\ used \in Seq(Entries) /\ spare \in Seq(Entries)
          /\ \A i \in 1..Len(used) : prev[used[i]] = IF i = 1 THEN null ELSE used[i - 1]
          /\ \A i \in 1..Len(spare) : prev[spare[i]] = IF i = 1 THEN null ELSE spare[i - 1]
        BY <2>1 DEF Holding, TwoLists, Chain, Links
    <2>3. /\ Len(used) + Len(spare) = capacity
          /\ ToSet(used) \cup ToSet(spare) = 1..capacity
          /\ size_ = Len(used) /\ alive = IF destroyed THEN {} ELSE ToSet(used)
        BY <2>1 DEF Holding, TwoLists, Shared
    <2> HIDE DEF used, spare
    <2>4. DOMAIN used = 1..Len(used) /\ DOMAIN spare = 1..Len(spare)
        BY <2>2, SeqFacts
    <2>5. \A s \in {used, spare} : \A i \in DOMAIN s :
              prev[s[i]] = IF i = 1 THEN null ELSE s[i - 1]
        BY <2>2, <2>4
    <2> QED
        BY <2>3, <2>5 DEF EachInOneList, used, spare
<1> QED
    BY <1>1, ListAlways, PTL

\* ImplementsStableList: containers.hpp:333, a list whose iterators stay valid; every
\* operation adds at the front, takes out the element of its iterator, or leaves the list
\* alone, and touches no other element.
THEOREM KeepsIteratorsValid == Spec => ImplementsStableList
<1> DEFINE items == Walk(head)
           value == [e \in ToSet(Walk(head)) |-> data[e]]
<1>1. Init => Abstract!Init
    <2> SUFFICES ASSUME Init PROVE Abstract!Init
        OBVIOUS
    <2>1. Holding(Walk(head), Walk(free)) /\ size_ = 0
        BY InitInv, Holds DEF Init
    <2>2. items \in Seq(Entries) /\ Len(items) = 0
        BY <2>1 DEF Holding, TwoLists, Chain
    <2>3. items = <<>>
        BY <2>2
    <2>4. ToSet(items) = {}
        <3>1. ~ \E i \in 1..0 : TRUE
            OBVIOUS
        <3>2. ASSUME NEW x PROVE x \notin ToSet(items)
            BY <2>2, <3>1, InSet
        <3> QED
            BY <3>2
    <2>5. value = <<>>
        BY <2>4
    <2> QED
        BY <2>3, <2>5 DEF Abstract!Init
<1>2. ListInv /\ [Next]_vars => [Abstract!Next]_(Abstract!vars)
    <2> SUFFICES ASSUME ListInv, [Next]_vars PROVE [Abstract!Next]_(Abstract!vars)
        OBVIOUS
    <2>1. ASSUME NEW v \in Values, emplace_front(v) PROVE Abstract!Next
        <3>1. PICK entry \in Entries :
                  /\ entry \notin ToSet(items)
                  /\ items' = <<entry>> \o items
                  /\ data' = [data EXCEPT ![entry] = v]
            BY <2>1, EmplaceKeeps
        <3>2. items \in Seq(Entries)
            BY Holds DEF Holding, TwoLists, Chain
        <3>3. ToSet(items') = ToSet(items) \cup {entry} /\ ToSet(items) \subseteq Entries
            <4> HIDE DEF items
            <4>1. ToSet(<<entry>> \o items) = ToSet(items) \cup {entry}
                BY <3>2, Pushed
            <4>2. ToSet(items) \subseteq Entries
                BY <3>2, InSet, SeqFacts
            <4> QED
                BY <3>1, <4>1, <4>2
        <3>4. \A i \in ToSet(items') : data'[i] = IF i = entry THEN v ELSE value[i]
            <4>1. data = [e \in Entries |-> data[e]]
                BY DEF ListInv
            <4>2. \A i \in ToSet(items) : value[i] = data[i]
                OBVIOUS
            <4> HIDE DEF items, value
            <4> QED
                BY <3>1, <3>3, <4>1, <4>2
        <3>5. value' = [i \in ToSet(items') |-> IF i = entry THEN v ELSE value[i]]
            <4>1. value' = [i \in ToSet(items') |-> data'[i]]
                OBVIOUS
            <4> HIDE DEF items, value
            <4> QED
                BY <3>4, <4>1
        <3>6. Abstract!EmplaceFront(entry, v)
            BY <3>1, <3>5 DEF Abstract!EmplaceFront, Abstract!ToSet, ToSet
        <3> QED
            BY <3>6 DEF Abstract!Next
    <2>2. ASSUME NEW entry \in Entries, erase(entry) PROVE Abstract!Next
        <3>1. /\ \E k \in 1..Len(items) : items[k] = entry /\ items' = RemoveAt(items, k)
              /\ data' = data
            BY <2>2, EraseKeeps
        <3>2. items \in Seq(Entries) /\ Once(items) /\ DOMAIN items = 1..Len(items)
            BY Holds DEF Holding, TwoLists, Chain, Shared
        <3>3. PICK k \in DOMAIN items : items[k] = entry /\ items' = RemoveAt(items, k)
            BY <3>1, <3>2
        <3>4. ToSet(items') \subseteq ToSet(items)
            <4> HIDE DEF items
            <4>1. ToSet(RemoveAt(items, k)) = ToSet(items) \ {items[k]}
                BY <3>2, RemovedOnce
            <4> QED
                BY <3>3, <4>1
        <3>5. value' = [i \in ToSet(items') |-> value[i]]
            <4>1. value' = [i \in ToSet(items') |-> data'[i]]
                OBVIOUS
            <4>2. \A i \in ToSet(items) : value[i] = data[i]
                OBVIOUS
            <4> HIDE DEF items, value
            <4> QED
                BY <3>1, <3>4, <4>1, <4>2
        <3>6. Abstract!Erase(entry)
            BY <3>3, <3>5 DEF Abstract!Erase, Abstract!ToSet, Abstract!RemoveAt, ToSet, RemoveAt
        <3> QED
            BY <3>6 DEF Abstract!Next
    <2>3. ASSUME Walk(head)' = Walk(head), data' = data PROVE UNCHANGED Abstract!vars
        BY <2>3 DEF Abstract!vars
    <2>4. CASE Destructor
        BY <2>3, <2>4, DestructorKeeps
    <2>5. CASE UNCHANGED vars
        BY <2>3, <2>5, StutterKeeps
    <2> QED
        BY <2>1, <2>2, <2>4, <2>5 DEF Next
<1> QED
    BY <1>1, <1>2, ListAlways, PTL DEF Spec, ImplementsStableList, Abstract!Spec
=============================================================================
