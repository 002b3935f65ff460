----------------------------- MODULE ThreadProofs -----------------------------
(***************************************************************************)
(* Proofs about Thread and the modules below it: the arithmetic of Memory  *)
(* for every address, size and alignment, what a vector owes its           *)
(* allocator, and the life of threads, for any number of affinities,       *)
(* handles and cores.                                                      *)
(***************************************************************************)
EXTENDS Thread, FiniteSetTheorems, WellFoundedInduction, TLAPS

-----------------------------------------------------------------------------
(* Memory: what the callers of allocate() and free() rely on. *)

Requests == [size : Nat, alignment : Nat \ {0}, useGuards : BOOLEAN]

\* The bytes [first, last) lie in the memory that came from the system.
InBlock(b, first, last) == b.base <= first /\ last <= b.base + b.length

\* Division with the divisor's multiple named: what the solver needs of \div.
LEMMA Division ==
    ASSUME NEW x \in Nat, NEW a \in Nat \ {0}
    PROVE  /\ x \div a \in Nat /\ a * (x \div a) \in Nat
           /\ a * (x \div a) <= x /\ x < a * (x \div a) + a
BY SMT

\* alignUp() (memory.hpp:21) returns the first multiple that is not below val.
THEOREM AlignUp ==
    ASSUME NEW val \in Nat, NEW alignment \in Nat \ {0}
    PROVE  /\ alignUp(val, alignment) \in Nat
           /\ val <= alignUp(val, alignment)
           /\ alignUp(val, alignment) < val + alignment
           /\ \E k \in Nat : alignUp(val, alignment) = alignment * k
<1> DEFINE x == val + alignment - 1
           k == x \div alignment
           up == alignment * k
<1>1. x \in Nat
  OBVIOUS
<1>2. k \in Nat /\ up \in Nat /\ up <= x /\ x < up + alignment
  BY <1>1, Division
<1>3. alignUp(val, alignment) = up
  BY DEF alignUp
<1>4. \E m \in Nat : up = alignment * m
  BY <1>2
<1>5. x = val + alignment - 1
  OBVIOUS
<1> HIDE DEF x, k, up
<1>6. up \in Nat /\ val <= up /\ up < val + alignment
  BY <1>2, <1>5
<1> QED
  BY <1>3, <1>4, <1>6, Zenon

\* alignedMalloc() (memory.cpp:162) asks malloc() for enough: the data and the
\* saved pointer behind it are inside the block, for every address it may return.
THEOREM AlignedBlock ==
    ASSUME NEW mem \in Nat, NEW alignment \in Nat \ {0}, NEW size \in Nat
    PROVE  LET b == alignedMalloc(mem, alignment, size)
           IN  /\ InBlock(b, b.ptr, b.ptr + size)
               /\ InBlock(b, b.saved, b.saved + PointerSize)
               /\ b.ptr + size <= b.saved
<1>1. /\ alignUp(mem, alignment) \in Nat
      /\ mem <= alignUp(mem, alignment)
      /\ alignUp(mem, alignment) < mem + alignment
  BY AlignUp
<1>2. PointerSize \in Nat
  BY MemoryAssumption
<1> QED
  BY <1>1, <1>2 DEF alignedMalloc, InBlock

\* The pages that pagedMalloc() asks for hold the data, whatever its size.
LEMMA Pages ==
    ASSUME NEW size \in Nat
    PROVE  /\ numRequestedPages(size) \in Nat
           /\ numRequestedPages(size) * PageSize \in Nat
           /\ size <= numRequestedPages(size) * PageSize
<1>1. PageSize \in Nat \ {0}
  BY MemoryAssumption
<1> DEFINE q == (size + PageSize - 1) \div PageSize
<1>2. /\ q \in Nat /\ PageSize * q \in Nat
      /\ size + PageSize - 1 < PageSize * q + PageSize
  BY <1>1, Division
<1>3. numRequestedPages(size) = q
  BY DEF numRequestedPages
<1> HIDE DEF q
<1>4. q * PageSize = PageSize * q
  BY <1>1, <1>2
<1> QED
  BY <1>1, <1>2, <1>3, <1>4

\* pagedMalloc() (memory.cpp:112) as DefaultAllocator calls it: the page before
\* the data and the page after its last page are the guards, both mapped, and no
\* byte of the data lies in a guard.
THEOREM GuardedBlock ==
    ASSUME NEW mem \in Nat, NEW size \in Nat,
           NEW g \in guardPages(mem, size, TRUE, TRUE)
    PROVE  LET b == pagedMalloc(mem, size, TRUE, TRUE)
           IN  /\ InBlock(b, b.ptr, b.ptr + size)
               /\ InBlock(b, g, g + PageSize)
               /\ g + PageSize = b.ptr \/ b.ptr + size <= g
<1>1. PageSize \in Nat \ {0}
  BY MemoryAssumption
<1> DEFINE n == numRequestedPages(size)
           p == n * PageSize
<1>2. n \in Nat /\ p \in Nat /\ size <= p
  BY Pages
<1>3. numTotalPages(size, TRUE, TRUE) * PageSize = p + PageSize + PageSize
  <2>1. numTotalPages(size, TRUE, TRUE) = n + 2
    BY <1>2 DEF numTotalPages, One
  <2>2. numTotalPages(size, TRUE, TRUE) * PageSize = (n + 2) * PageSize
    BY <2>1, Zenon
  <2>3. (n + 2) * PageSize = n * PageSize + PageSize + PageSize
    BY <1>1, <1>2
  <2> QED
    BY <2>2, <2>3, Zenon
<1>4. One(TRUE) * PageSize = PageSize
  BY <1>1 DEF One
<1>5. g = mem \/ g = mem + PageSize + p
  BY <1>4 DEF guardPages
<1> DEFINE b == pagedMalloc(mem, size, TRUE, TRUE)
<1>6. b = [base |-> mem, length |-> p + PageSize + PageSize, ptr |-> mem + PageSize,
           saved |-> NoAddress]
  BY <1>3, <1>4, Zenon DEF pagedMalloc
<1> HIDE DEF n, p, b
<1>7. /\ b.base = mem /\ b.length = p + PageSize + PageSize
      /\ b.ptr = mem + PageSize
  BY <1>6
<1>8. /\ InBlock(b, b.ptr, b.ptr + size)
      /\ InBlock(b, g, g + PageSize)
      /\ g + PageSize = b.ptr \/ b.ptr + size <= g
  BY <1>1, <1>2, <1>5, <1>7 DEF InBlock
<1> QED
  BY <1>8 DEF b

\* Two memories hold the same bytes at the addresses of S.
AgreeOn(S, m1, m2) == \A a \in S : m1[a] = m2[a]

\* The pointer that alignedMalloc() leaves behind the data is what alignedFree()
\* reads there, as long as its bytes are not written.
LEMMA PointerReadBack ==
    ASSUME NEW at \in Nat, NEW p \in Nat, NEW before, DOMAIN before = Nat, NEW after,
           AgreeOn(at..(at + PointerSize - 1), after, savePointer(before, at, p))
    PROVE  loadPointer(after, at) = p
<1>1. PointerSize \in Nat \ {0}
  BY MemoryAssumption
<1> DEFINE Reads(q) == \A k \in 0..(PointerSize - 1) : after[at + k] = <<q, k>>
<1>2. ASSUME NEW k \in 0..(PointerSize - 1) PROVE after[at + k] = <<p, k>>
  <2>1. at + k \in at..(at + PointerSize - 1) /\ at + k \in Nat /\ (at + k) - at = k
    BY <1>1
  <2> QED
    BY <2>1 DEF AgreeOn, savePointer
<1>3. Reads(p)
  BY <1>2
<1>4. ASSUME NEW q \in Nat, Reads(q) PROVE q = p
  <2>1. 0 \in 0..(PointerSize - 1)
    BY <1>1
  <2>2. <<q, 0>> = <<p, 0>>
    BY <1>2, <1>4, <2>1
  <2> QED
    BY <2>2
<1>5. loadPointer(after, at) = CHOOSE q \in Nat : Reads(q)
  BY DEF loadPointer
<1> HIDE DEF Reads
<1> QED
  BY <1>3, <1>4, <1>5

\* free() gives back what allocate() took from the system, and for pages as many
\* of them, when it is called with an equal request (memory.hpp:106).  Meanwhile the
\* caller may write its data and others any memory outside the block.
THEOREM FreeReturnsBlock ==
    ASSUME NEW mem \in Nat, NEW r \in Requests,
           NEW before, DOMAIN before = Nat, NEW after,
           LET b == allocate(mem, r)
               block == b.base..(b.base + b.length - 1)
               data == b.ptr..(b.ptr + r.size - 1)
           IN  AgreeOn(block \ data, after, written(before, b))
    PROVE  LET b == allocate(mem, r)
               given == free(b.ptr, r, after)
           IN  /\ given.base = b.base
               /\ r.useGuards => given.length = b.length
<1>1. PageSize \in Nat \ {0} /\ r.size \in Nat
  BY MemoryAssumption DEF Requests
<1>2. CASE r.useGuards
  <2> DEFINE b == pagedMalloc(mem, r.size, TRUE, TRUE)
             total == numTotalPages(r.size, TRUE, TRUE) * PageSize
  <2>1. allocate(mem, r) = b
    BY <1>2 DEF allocate
  <2>2. b.base = mem /\ b.ptr = mem + 1 * PageSize
    BY DEF pagedMalloc, One
  <2>3. b.length = total
    BY DEF pagedMalloc
  <2>4. free(b.ptr, r, after) =
          [base |-> b.ptr - 1 * PageSize, length |-> total]
    BY <1>2 DEF free, pagedFree, One
  <2> HIDE DEF b, total
  <2>5. b.ptr - 1 * PageSize = mem
    BY <1>1, <2>2
  <2>6. /\ free(b.ptr, r, after).base = b.base
        /\ free(b.ptr, r, after).length = b.length
    BY <2>2, <2>3, <2>4, <2>5
  <2> QED
    BY <2>1, <2>6, Zenon
<1>3. CASE ~r.useGuards /\ r.alignment > 1
  <2> DEFINE b == alignedMalloc(mem, r.alignment, r.size)
  <2>1. allocate(mem, r) = b
    BY <1>3 DEF allocate
  <2>2. b.base = mem /\ b.saved = b.ptr + r.size /\ b.ptr \in Nat
    BY AlignUp DEF alignedMalloc, Requests
  <2>3. InBlock(b, b.saved, b.saved + PointerSize)
    BY AlignedBlock DEF Requests
  <2>4. PointerSize \in Nat \ {0} /\ b.length \in Nat
    BY MemoryAssumption DEF alignedMalloc, Requests
  <2>5. free(b.ptr, r, after).base = loadPointer(after, b.ptr + r.size)
    BY <1>3 DEF free
  <2> DEFINE outside == (b.base..(b.base + b.length - 1)) \ (b.ptr..(b.ptr + r.size - 1))
  <2>6. AgreeOn(outside, after, written(before, b))
    BY <2>1
  <2>7. written(before, b) = savePointer(before, b.saved, mem)
    BY <1>1, <2>2 DEF written, NoAddress
  <2> HIDE DEF b
  <2>8. AgreeOn(b.saved..(b.saved + PointerSize - 1), after,
                savePointer(before, b.saved, mem))
    <3>1. b.saved..(b.saved + PointerSize - 1) \subseteq outside
      BY <1>1, <2>2, <2>3, <2>4 DEF InBlock
    <3> QED
      BY <2>6, <2>7, <3>1 DEF AgreeOn
  <2>9. b.saved \in Nat
    BY <1>1, <2>2
  <2>10. loadPointer(after, b.saved) = mem
    BY <2>8, <2>9, PointerReadBack
  <2> QED
    BY <1>3, <2>1, <2>2, <2>5, <2>10
<1>4. CASE ~r.useGuards /\ ~(r.alignment > 1)
  BY <1>4 DEF allocate, free
<1> QED
  BY <1>2, <1>3, <1>4

\* The stack pointer OSFiber::createFiber() starts with is a multiple of 16 that does
\* not lie above the stack.  It is inside the stack exactly when the size has 16 bytes
\* left after the cast to uint32_t; else the stack begins where it should end.  A size
\* below 2^32 wastes fewer than 16 bytes.
THEOREM StackPointerInside ==
    ASSUME NEW mem \in Nat, NEW stackSize \in Nat
    PROVE  LET fiber == createFiber(mem, stackSize)
               stack == fiber.stack
           IN  /\ fiber.SP % 16 = 0
               /\ stack.ptr <= fiber.SP /\ fiber.SP <= stack.ptr + stackSize
               /\ stack.ptr < fiber.SP <=> 16 <= stackSize % UInt32
               /\ stackSize < UInt32 => stack.ptr + stackSize < fiber.SP + 16
<1> DEFINE b == alignedMalloc(mem, 16, stackSize)
           n == stackSize % UInt32
<1>1. createFiber(mem, stackSize) = [stack |-> b, SP |-> stackPointer(b.ptr, n)]
  <2>1. request([size |-> stackSize, alignment |-> 16], 1, "Stack") =
            [size |-> stackSize, alignment |-> 16, useGuards |-> FALSE, usage |-> "Stack"]
    <3>1. [size |-> stackSize, alignment |-> 16].size * 1 = stackSize
      OBVIOUS
    <3>2. [size |-> stackSize, alignment |-> 16].alignment = 16
      OBVIOUS
    <3> QED
      BY <3>1, <3>2, Zenon DEF request
  <2>2. allocate(mem, [size |-> stackSize, alignment |-> 16, useGuards |-> FALSE,
                       usage |-> "Stack"]) = b
    BY DEF allocate
  <2> QED
    BY <2>1, <2>2, Zenon DEF createFiber
<1>2. PICK k \in Nat : b.ptr = 16 * k
  <2>1. b.ptr = alignUp(mem, 16)
    BY DEF alignedMalloc
  <2>2. 16 \in Nat \ {0}
    OBVIOUS
  <2> HIDE DEF b
  <2> QED
    BY <2>1, <2>2, AlignUp
<1>3. /\ n \in Nat /\ n <= stackSize
      /\ stackSize < UInt32 => n = stackSize
  BY MemoryAssumption
<1> DEFINE x == b.ptr + n
           m == x \div 16
<1>4. stackPointer(b.ptr, n) = 16 * m
  <2>1. x \in Nat
    BY <1>2, <1>3
  <2> QED
    BY <2>1 DEF stackPointer
<1>5. m \in Nat /\ 16 * m <= x /\ x < 16 * m + 16
  <2>1. x \in Nat /\ 16 \in Nat \ {0}
    BY <1>2, <1>3
  <2> HIDE DEF x
  <2> QED
    BY <2>1, Division
<1>6. x = 16 * k + n
  BY <1>2
<1>7. createFiber(mem, stackSize).stack.ptr = 16 * k
  BY <1>1, <1>2
<1>8. createFiber(mem, stackSize).SP = 16 * m
  BY <1>1, <1>4
<1> HIDE DEF b, n, x, m
<1>9. (16 * m) % 16 = 0
  BY <1>5
<1>10. /\ 16 * k <= 16 * m /\ 16 * m <= 16 * k + stackSize
       /\ 16 * k < 16 * m <=> 16 <= n
       /\ stackSize < UInt32 => 16 * k + stackSize < 16 * m + 16
  BY <1>3, <1>5, <1>6, MemoryAssumption
<1> QED
  BY <1>7, <1>8, <1>9, <1>10 DEF n

-----------------------------------------------------------------------------
(* Induction, and the two loops that are written as recursive functions. *)

LEMMA Induction ==
    ASSUME NEW S \in SUBSET Nat, 0 \in S, \A n \in S : n + 1 \in S
    PROVE  S = Nat
<1> DEFINE R == {ss \in Nat \X Nat : ss[1] < ss[2]}
<1> SUFFICES ASSUME Nat \ S # {} PROVE FALSE
    OBVIOUS
<1>1. IsWellFoundedOn(R, Nat)
    BY NatLessThanWellFounded DEF OpToRel
<1>2. PICK x \in Nat \ S : \A y \in Nat \ S : <<y, x>> \notin R
    <2> HIDE DEF R
    <2>1. Nat \ S \subseteq Nat
        OBVIOUS
    <2> QED
        BY <1>1, <2>1, WFMin
<1>3. x - 1 \in Nat /\ (x - 1) + 1 = x /\ x - 1 < x
    BY <1>2
<1>4. x - 1 \in S
    BY <1>2, <1>3
<1> QED
    BY <1>2, <1>3, <1>4

\* f[n] is the vector after the first n elements.
IsPushing(f, v, xs, skip) ==
    /\ f[0] = v
    /\ \A n \in 1..Len(xs) :
          f[n] = IF xs[n] \in skip THEN f[n - 1] ELSE push_back(f[n - 1], xs[n])

LEMMA PushedRecursion ==
    ASSUME NEW v, NEW xs, NEW skip, Len(xs) \in Nat
    PROVE  \E f : IsPushing(f, v, xs, skip) /\ pushed(v, xs, skip) = f[Len(xs)]
<1> DEFINE Is(f, m) ==
               f = [n \in 0..m |->
                       IF n = 0 THEN v
                       ELSE IF xs[n] \in skip THEN f[n - 1] ELSE push_back(f[n - 1], xs[n])]
           S == {m \in Nat : \E f : Is(f, m)}
<1>1. S = Nat
    <2>1. 0 \in S
        <3> DEFINE g == [n \in 0..0 |-> v]
        <3>1. Is(g, 0)
            OBVIOUS
        <3> QED
            BY <3>1
    <2>2. ASSUME NEW m \in S PROVE m + 1 \in S
        <3>1. PICK f : Is(f, m)
            OBVIOUS
        <3> DEFINE g == [n \in 0..(m + 1) |->
                            IF n = m + 1
                            THEN IF xs[n] \in skip THEN f[m] ELSE push_back(f[m], xs[n])
                            ELSE f[n]]
        <3>2. ASSUME NEW n \in 0..(m + 1)
              PROVE  g[n] = IF n = 0 THEN v
                            ELSE IF xs[n] \in skip THEN g[n - 1] ELSE push_back(g[n - 1], xs[n])
            <4>1. CASE n = m + 1
                <5>1. n - 1 = m /\ m \in 0..(m + 1) /\ m # m + 1 /\ n # 0
                    BY <4>1
                <5>2. g[n - 1] = f[m]
                    BY <5>1
                <5> QED
                    BY <4>1, <5>1, <5>2
            <4>2. CASE n # m + 1
                <5>1. n \in 0..m
                    BY <4>2
                <5>2. g[n] = f[n]
                    BY <4>2
                <5>3. n # 0 => n - 1 \in 0..(m + 1) /\ n - 1 # m + 1
                    BY <5>1
                <5>4. n # 0 => g[n - 1] = f[n - 1]
                    BY <5>3
                <5>5. f[n] = IF n = 0 THEN v
                             ELSE IF xs[n] \in skip THEN f[n - 1] ELSE push_back(f[n - 1], xs[n])
                    BY <3>1, <5>1
                <5> HIDE DEF g
                <5> QED
                    BY <5>2, <5>4, <5>5
            <4> QED
                BY <4>1, <4>2
        <3>3. g = [n \in 0..(m + 1) |-> g[n]]
            OBVIOUS
        <3>4. Is(g, m + 1)
            <4> HIDE DEF g
            <4> QED
                BY <3>2, <3>3
        <3>5. m + 1 \in Nat
            OBVIOUS
        <3> HIDE DEF Is
        <3>6. \E h : Is(h, m + 1)
            BY <3>4
        <3> QED
            BY <3>5, <3>6
    <2> HIDE DEF S
    <2>3. S \subseteq Nat
        BY DEF S
    <2> QED
        BY <2>1, <2>2, <2>3, Induction
<1> DEFINE F == CHOOSE f : Is(f, Len(xs))
<1>2. Is(F, Len(xs))
    <2>1. \E f : Is(f, Len(xs))
        BY <1>1
    <2> HIDE DEF Is
    <2> QED
        BY <2>1
<1>3. pushed(v, xs, skip) = F[Len(xs)]
    BY Zenon DEF pushed
<1> HIDE DEF F
<1>4. F[0] = v
    <2>1. 0 \in 0..Len(xs)
        OBVIOUS
    <2> QED
        BY <1>2, <2>1
<1>5. ASSUME NEW n \in 1..Len(xs)
      PROVE  F[n] = IF xs[n] \in skip THEN F[n - 1] ELSE push_back(F[n - 1], xs[n])
    <2>1. n \in 0..Len(xs) /\ n # 0
        OBVIOUS
    <2> QED
        BY <1>2, <2>1
<1>6. IsPushing(F, v, xs, skip)
    BY <1>4, <1>5, Zenon DEF IsPushing
<1> QED
    BY <1>3, <1>6

IsRemoving(f, v, other) ==
    /\ f[0] = v
    /\ \A n \in 1..v.count :
          f[n] = IF n <= f[n - 1].count /\ f[n - 1].cells[n] \in Range(objects(other))
                 THEN removedAt(f[n - 1], n) ELSE f[n - 1]

LEMMA RemovedRecursion ==
    ASSUME NEW v, NEW other, v.count \in Nat
    PROVE  \E f : IsRemoving(f, v, other) /\ removed(v, other) = sorted(f[v.count])
<1> DEFINE Step(w, n) == IF n <= w.count /\ w.cells[n] \in Range(objects(other))
                         THEN removedAt(w, n) ELSE w
           Is(f, m) == f = [n \in 0..m |-> IF n = 0 THEN v ELSE Step(f[n - 1], n)]
           S == {m \in Nat : \E f : Is(f, m)}
<1>1. S = Nat
    <2> HIDE DEF Step
    <2>1. 0 \in S
        <3> DEFINE g == [n \in 0..0 |-> v]
        <3>1. Is(g, 0)
            OBVIOUS
        <3> QED
            BY <3>1
    <2>2. ASSUME NEW m \in S PROVE m + 1 \in S
        <3>1. PICK f : Is(f, m)
            OBVIOUS
        <3> DEFINE g == [n \in 0..(m + 1) |-> IF n = m + 1 THEN Step(f[m], n) ELSE f[n]]
        <3>2. ASSUME NEW n \in 0..(m + 1)
              PROVE  g[n] = IF n = 0 THEN v ELSE Step(g[n - 1], n)
            <4>1. CASE n = m + 1
                <5>1. n - 1 = m /\ m \in 0..(m + 1) /\ m # m + 1 /\ n # 0
                    BY <4>1
                <5>2. g[n - 1] = f[m]
                    BY <5>1
                <5> QED
                    BY <4>1, <5>1, <5>2
            <4>2. CASE n # m + 1
                <5>1. n \in 0..m
                    BY <4>2
                <5>2. g[n] = f[n]
                    BY <4>2
                <5>3. n # 0 => n - 1 \in 0..(m + 1) /\ n - 1 # m + 1
                    BY <5>1
                <5>4. n # 0 => g[n - 1] = f[n - 1]
                    BY <5>3
                <5>5. f[n] = IF n = 0 THEN v ELSE Step(f[n - 1], n)
                    BY <3>1, <5>1
                <5> HIDE DEF g
                <5> QED
                    BY <5>2, <5>4, <5>5
            <4> QED
                BY <4>1, <4>2
        <3>3. g = [n \in 0..(m + 1) |-> g[n]]
            OBVIOUS
        <3>4. Is(g, m + 1)
            <4> HIDE DEF g
            <4> QED
                BY <3>2, <3>3
        <3>5. m + 1 \in Nat
            OBVIOUS
        <3> HIDE DEF Is
        <3>6. \E h : Is(h, m + 1)
            BY <3>4
        <3> QED
            BY <3>5, <3>6
    <2> HIDE DEF S
    <2>3. S \subseteq Nat
        BY DEF S
    <2> QED
        BY <2>1, <2>2, <2>3, Induction
<1> DEFINE F == CHOOSE f : Is(f, v.count)
<1>2. Is(F, v.count)
    <2>1. \E f : Is(f, v.count)
        BY <1>1
    <2> HIDE DEF Is
    <2> QED
        BY <2>1
<1>3. removed(v, other) = sorted(F[v.count])
    BY Zenon DEF removed
<1> HIDE DEF F, Step
<1>4. F[0] = v
    <2>1. 0 \in 0..v.count
        OBVIOUS
    <2> QED
        BY <1>2, <2>1
<1>5. ASSUME NEW n \in 1..v.count PROVE F[n] = Step(F[n - 1], n)
    BY <1>2
<1>6. IsRemoving(F, v, other)
    BY <1>4, <1>5, Zenon DEF IsRemoving, Step
<1> QED
    BY <1>3, <1>6

-----------------------------------------------------------------------------
(* Vector: what an operation leaves to the allocator. *)

IsVector(v) ==
    /\ v = [alive |-> v.alive, count |-> v.count, capacity |-> v.capacity, cells |-> v.cells,
            allocation |-> v.allocation, ledger |-> v.ledger, broken |-> v.broken]
    /\ v.count \in Nat /\ v.capacity \in Nat

Storage(capacity) == request(ElementType, capacity, "Vector")

\* The allocator counts the storage of v, and nothing else.
Accounted(v) ==
    /\ IsVector(v)
    /\ v.allocation \in {NoAllocation, Storage(v.capacity)}
    /\ v.ledger = IF v.allocation = NoAllocation THEN NoStats
                  ELSE [count |-> 1, bytes |-> ElementType.size * v.capacity]

LEMMA StorageIsAllocation ==
    ASSUME NEW n \in Nat
    PROVE  /\ Storage(n) # NoAllocation
           /\ Storage(n).size = ElementType.size * n
           /\ ElementType.size * n \in Int
<1>1. DOMAIN Storage(n) = {"size", "alignment", "useGuards", "usage"}
    BY DEF Storage, request
<1>2. DOMAIN NoAllocation = {"size"}
    BY DEF NoAllocation
<1>3. ElementType.size \in Nat
    BY VectorAssumption
<1>4. ElementType.size * n \in Int
    BY <1>3
<1>5. Storage(n).size = ElementType.size * n
    BY DEF Storage, request
<1> QED
    BY <1>1, <1>2, <1>4, <1>5

\* construct(), destroy() and sort() do not allocate.
Same(w, v) ==
    /\ Accounted(w) /\ w.alive = v.alive /\ w.count = v.count
    /\ w.allocation = v.allocation /\ w.ledger = v.ledger

LEMMA AccountedCells ==
    ASSUME NEW v, Accounted(v), NEW c, NEW b
    PROVE  Same([v EXCEPT !.cells = c], v) /\ Same([v EXCEPT !.broken = b], v) /\ Same(v, v)
    BY DEF Accounted, IsVector, Same

LEMMA AccountedCount ==
    ASSUME NEW v, Accounted(v), NEW n \in Nat
    PROVE  /\ Accounted([v EXCEPT !.count = n])
           /\ [v EXCEPT !.count = n].alive = v.alive
           /\ [v EXCEPT !.count = n].count = n
    BY DEF Accounted, IsVector

LEMMA ConstructAccounted ==
    ASSUME NEW v, Accounted(v), NEW i, NEW x
    PROVE  Same(construct(v, i, x), v)
<1>1. [v EXCEPT !.cells[i] = x] = [v EXCEPT !.cells = [v.cells EXCEPT ![i] = x]]
    OBVIOUS
<1> QED
    BY <1>1, AccountedCells DEF construct

LEMMA ConstructEachAccounted ==
    ASSUME NEW v, Accounted(v), NEW x
    PROVE  Same(constructEach(v, x), v)
<1> DEFINE c == [i \in DOMAIN v.cells |-> IF i \in DOMAIN x THEN x[i] ELSE v.cells[i]]
<1>1. \/ constructEach(v, x) = [v EXCEPT !.cells = c]
      \/ constructEach(v, x) = [v EXCEPT !.broken = TRUE]
    BY DEF constructEach
<1> HIDE DEF c
<1>2. Same([v EXCEPT !.cells = c], v) /\ Same([v EXCEPT !.broken = TRUE], v) /\ Same(v, v)
    BY AccountedCells
<1> QED
    BY <1>1, <1>2, Zenon

LEMMA DestroyAccounted ==
    ASSUME NEW v, Accounted(v), NEW first, NEW last
    PROVE  Same(destroy(v, first, last), v)
<1> DEFINE c == [i \in DOMAIN v.cells |-> IF i \in first..last THEN NoObject ELSE v.cells[i]]
<1>1. \/ destroy(v, first, last) = [v EXCEPT !.cells = c]
      \/ destroy(v, first, last) = [v EXCEPT !.broken = TRUE]
    BY DEF destroy
<1> HIDE DEF c
<1>2. Same([v EXCEPT !.cells = c], v) /\ Same([v EXCEPT !.broken = TRUE], v) /\ Same(v, v)
    BY AccountedCells
<1> QED
    BY <1>1, <1>2, Zenon

LEMMA SortedAccounted ==
    ASSUME NEW v, Accounted(v)
    PROVE  Same(sorted(v), v)
<1> DEFINE s == inOrder(objects(v))
           c == [i \in DOMAIN v.cells |-> IF i \in DOMAIN s THEN s[i] ELSE v.cells[i]]
<1>1. sorted(v) = v \/ sorted(v) = [v EXCEPT !.cells = c]
    BY DEF sorted
<1> HIDE DEF c
<1>2. Same([v EXCEPT !.cells = c], v) /\ Same([v EXCEPT !.broken = TRUE], v) /\ Same(v, v)
    BY AccountedCells
<1> QED
    BY <1>1, <1>2, Zenon

LEMMA FreeAccounted ==
    ASSUME NEW v, Accounted(v)
    PROVE  /\ Accounted(free_(v))
           /\ free_(v).alive = v.alive /\ free_(v).count = v.count
           /\ free_(v).allocation = NoAllocation /\ free_(v).ledger = NoStats
<1> DEFINE w == destroy(v, 1, v.count)
<1>1. Same(w, v)
    BY DestroyAccounted
<1>2. CASE v.allocation = NoAllocation
    <2>1. free_(v) = w
        BY <1>2 DEF free_, OnHeap
    <2> HIDE DEF w
    <2> QED
        BY <1>1, <1>2, <2>1 DEF Same, Accounted
<1>3. CASE v.allocation # NoAllocation
    <2>1. free_(v) = [w EXCEPT !.ledger = uncounted(w.ledger, v.allocation),
                               !.allocation = NoAllocation, !.cells = <<>>]
        BY <1>3 DEF free_, OnHeap
    <2> HIDE DEF w
    <2>2. /\ v.allocation.size = ElementType.size * v.capacity
          /\ ElementType.size * v.capacity \in Int
        BY <1>3, StorageIsAllocation DEF Accounted, IsVector
    <2>3. w.ledger = [count |-> 1, bytes |-> ElementType.size * v.capacity]
        BY <1>1, <1>3 DEF Same, Accounted
    <2>4. uncounted(w.ledger, v.allocation) = NoStats
        BY <2>2, <2>3 DEF uncounted, NoStats
    <2> QED
        BY <1>1, <2>1, <2>4 DEF Same, Accounted, IsVector
<1> QED
    BY <1>2, <1>3

LEMMA ReserveAccounted ==
    ASSUME NEW v, Accounted(v), NEW n \in Nat
    PROVE  /\ Accounted(reserve(v, n))
           /\ reserve(v, n).alive = v.alive /\ reserve(v, n).count = v.count
<1>1. CASE n <= v.capacity
    BY <1>1 DEF reserve
<1>2. CASE ~(n <= v.capacity)
    <2> DEFINE capacity == IF n * 2 < MinGrowth THEN MinGrowth ELSE n * 2
               grown == [i \in 1..capacity |->
                            IF i \in DOMAIN objects(v) THEN objects(v)[i] ELSE NoObject]
               w == free_(v)
    <2>1. reserve(v, n) = [w EXCEPT !.capacity = capacity, !.cells = grown,
                                    !.allocation = Storage(capacity),
                                    !.ledger = counted(w.ledger, Storage(capacity))]
        BY <1>2 DEF reserve, Storage
    <2>2. capacity \in Nat
        BY VectorAssumption
    <2>3. /\ Accounted(w) /\ w.alive = v.alive /\ w.count = v.count /\ w.ledger = NoStats
        BY FreeAccounted
    <2> HIDE DEF capacity, grown, w
    <2>4. counted(NoStats, Storage(capacity)) =
            [count |-> 1, bytes |-> ElementType.size * capacity]
        BY <2>2, StorageIsAllocation DEF counted, NoStats
    <2> QED
        BY <2>1, <2>2, <2>3, <2>4, StorageIsAllocation DEF Accounted, IsVector
<1> QED
    BY <1>1, <1>2

LEMMA PushBackAccounted ==
    ASSUME NEW v, Accounted(v), NEW x
    PROVE  Accounted(push_back(v, x)) /\ push_back(v, x).alive = v.alive
<1> DEFINE w == reserve(v, v.count + 1)
           u == construct(w, w.count + 1, x)
<1>1. v.count + 1 \in Nat
    BY DEF Accounted, IsVector
<1>2. Accounted(w) /\ w.alive = v.alive
    BY <1>1, ReserveAccounted
<1>3. Accounted(u) /\ u.alive = v.alive
    BY <1>2, ConstructAccounted DEF Same
<1>4. push_back(v, x) = [u EXCEPT !.count = u.count + 1]
    BY DEF push_back
<1> HIDE DEF u
<1>5. u.count + 1 \in Nat
    BY <1>3 DEF Accounted, IsVector
<1> QED
    BY <1>3, <1>4, <1>5, AccountedCount

LEMMA ResizeAccounted ==
    ASSUME NEW v, Accounted(v), NEW n \in Nat, NEW x
    PROVE  Accounted(resize(v, n, x)) /\ resize(v, n, x).alive = v.alive
<1> DEFINE w == reserve(v, n)
           u == IF n < w.count THEN destroy(w, n + 1, w.count)
                ELSE constructEach(w, [i \in (w.count + 1)..n |-> x])
<1>1. Accounted(w) /\ w.alive = v.alive
    BY ReserveAccounted
<1>2. Accounted(u) /\ u.alive = v.alive
    BY <1>1, DestroyAccounted, ConstructEachAccounted DEF Same
<1>3. resize(v, n, x) = [u EXCEPT !.count = n]
    BY DEF resize
<1> HIDE DEF u
<1> QED
    BY <1>2, <1>3, AccountedCount

LEMMA AssignAccounted ==
    ASSUME NEW v, Accounted(v), NEW other, other.count \in Nat
    PROVE  Accounted(assign(v, other)) /\ assign(v, other).alive = v.alive
<1> DEFINE w == reserve(free_(v), other.count)
           u == [w EXCEPT !.count = other.count]
<1>1. Accounted(w) /\ w.alive = v.alive
    BY FreeAccounted, ReserveAccounted
<1>2. Accounted(u) /\ u.alive = v.alive
    BY <1>1, AccountedCount
<1>3. assign(v, other) = constructEach(u, objects(other))
    BY DEF assign
<1> HIDE DEF u
<1> QED
    BY <1>2, <1>3, ConstructEachAccounted DEF Same

LEMMA EmptyAccounted == Accounted(Empty) /\ Empty.alive
    BY VectorAssumption DEF Empty, Accounted, IsVector

LEMMA CopiedAccounted ==
    ASSUME NEW other, Accounted(other)
    PROVE  Accounted(copied(other)) /\ copied(other).alive
<1>1. other.count \in Nat
    BY DEF Accounted, IsVector
<1> QED
    BY <1>1, EmptyAccounted, AssignAccounted DEF copied

LEMMA DestroyedAccounted ==
    ASSUME NEW v, Accounted(v)
    PROVE  Accounted(destroyed(v)) /\ ~destroyed(v).alive
    BY FreeAccounted DEF destroyed, Gone, Accounted, IsVector

LEMMA PushedAccounted ==
    ASSUME NEW v, Accounted(v), NEW xs, Len(xs) \in Nat, NEW skip
    PROVE  Accounted(pushed(v, xs, skip)) /\ pushed(v, xs, skip).alive = v.alive
<1>1. PICK f : IsPushing(f, v, xs, skip) /\ pushed(v, xs, skip) = f[Len(xs)]
    BY PushedRecursion
<1> DEFINE S == {n \in Nat : n <= Len(xs) => Accounted(f[n]) /\ f[n].alive = v.alive}
<1>2. S = Nat
    <2>1. 0 \in S
        BY <1>1 DEF IsPushing
    <2>2. ASSUME NEW n \in S PROVE n + 1 \in S
        <3> SUFFICES ASSUME n + 1 <= Len(xs)
                     PROVE  Accounted(f[n + 1]) /\ f[n + 1].alive = v.alive
            OBVIOUS
        <3>1. n + 1 \in 1..Len(xs) /\ (n + 1) - 1 = n /\ n <= Len(xs)
            OBVIOUS
        <3>2. Accounted(f[n]) /\ f[n].alive = v.alive
            BY <3>1
        <3>3. f[n + 1] \in {f[n], push_back(f[n], xs[n + 1])}
            BY <1>1, <3>1 DEF IsPushing
        <3> QED
            BY <3>2, <3>3, PushBackAccounted
    <2>3. S \subseteq Nat
        OBVIOUS
    <2> HIDE DEF S
    <2> QED
        BY <2>1, <2>2, <2>3, Induction
<1>3. Len(xs) \in S
    BY <1>2
<1> QED
    BY <1>1, <1>3

-----------------------------------------------------------------------------
(* The vectors of affinities. *)

LEMMA ObjectsLength == ASSUME NEW v, v.count \in Nat PROVE Len(objects(v)) = v.count
    BY DEF objects

LEMMA AllAccounted == Accounted(all) /\ all.alive
<1>1. Len([i \in 1..Available |-> i - 1]) \in Nat
    BY ThreadAssumption
<1> QED
    BY <1>1, EmptyAccounted, PushedAccounted DEF all

LEMMA ListedAccounted ==
    ASSUME NEW list, Len(list) \in Nat
    PROVE  Accounted(listed(list)) /\ listed(list).alive
    BY EmptyAccounted, ReserveAccounted, PushedAccounted DEF listed

LEMMA OneOfAccounted ==
    ASSUME NEW v, Accounted(v), NEW threadId
    PROVE  Accounted(oneOf(v, threadId))
<1> DEFINE list == <<v.cells[(threadId % v.count) + 1]>>
<1>1. Len(list) \in Nat
    OBVIOUS
<1>2. oneOf(v, threadId) = copied(v) \/ oneOf(v, threadId) = listed(list)
    BY DEF oneOf
<1> HIDE DEF list
<1> QED
    BY <1>1, <1>2, CopiedAccounted, ListedAccounted

LEMMA AddedAccounted ==
    ASSUME NEW v, Accounted(v), NEW other, Accounted(other)
    PROVE  Accounted(added(v, other))
<1>1. Len(objects(other)) \in Nat
    BY ObjectsLength DEF Accounted, IsVector
<1> QED
    BY <1>1, PushedAccounted, SortedAccounted DEF added, Same

LEMMA RemovedAtAccounted ==
    ASSUME NEW v, Accounted(v), NEW i \in Nat \ {0}, i <= v.count
    PROVE  Accounted(removedAt(v, i))
<1> DEFINE w == construct(v, i, v.cells[v.count])
<1>1. Accounted(w)
    BY ConstructAccounted DEF Same
<1>2. v.count - 1 \in Nat
    BY DEF Accounted, IsVector
<1>3. removedAt(v, i) = resize(w, v.count - 1, Core)
    BY DEF removedAt
<1> HIDE DEF w
<1> QED
    BY <1>1, <1>2, <1>3, ResizeAccounted

LEMMA RemovedAccounted ==
    ASSUME NEW v, Accounted(v), NEW other
    PROVE  Accounted(removed(v, other))
<1>0. v.count \in Nat
    BY DEF Accounted, IsVector
<1>1. PICK f : IsRemoving(f, v, other) /\ removed(v, other) = sorted(f[v.count])
    BY <1>0, RemovedRecursion
<1> DEFINE S == {n \in Nat : n <= v.count => Accounted(f[n])}
<1>2. S = Nat
    <2>1. 0 \in S
        BY <1>1 DEF IsRemoving
    <2>2. ASSUME NEW n \in S PROVE n + 1 \in S
        <3> SUFFICES ASSUME n + 1 <= v.count PROVE Accounted(f[n + 1])
            OBVIOUS
        <3>1. n + 1 \in 1..v.count /\ (n + 1) - 1 = n /\ n <= v.count
            BY <1>0
        <3>2. Accounted(f[n])
            BY <3>1
        <3>3. f[n + 1] = IF n + 1 <= f[n].count /\ f[n].cells[n + 1] \in Range(objects(other))
                         THEN removedAt(f[n], n + 1) ELSE f[n]
            BY <1>1, <3>1 DEF IsRemoving
        <3>4. n + 1 \in Nat \ {0}
            OBVIOUS
        <3> QED
            BY <3>2, <3>3, <3>4, RemovedAtAccounted
    <2>3. S \subseteq Nat
        OBVIOUS
    <2> HIDE DEF S
    <2> QED
        BY <2>1, <2>2, <2>3, Induction
<1>3. Accounted(f[v.count])
    BY <1>0, <1>2
<1> QED
    BY <1>1, <1>3, SortedAccounted DEF Same

-----------------------------------------------------------------------------
(* Thread: the ledger of every vector, and who owns an Impl. *)

VectorsAccounted ==
    /\ cores = [o \in Owners |-> cores[o]]
    /\ \A o \in Owners : Accounted(cores[o])

OsStates == {"none", "born", "running", "ended"}

HandlesType ==
    /\ impl \in [Handles -> Impls \cup {Null}]
    /\ os \in [Impls -> OsStates]

\* The Impl of a handle is alive, so that a new thread never gets the same one.
OwnedAreAlive == \A h \in Handles : impl[h] # Null => cores[impl[h]].alive

ThreadInv == VectorsAccounted /\ HandlesType /\ OwnedAreAlive /\ ImplOutlivesThread

LEMMA OwnersApart ==
    /\ Objects \subseteq Owners /\ Impls \subseteq Owners
    /\ \A o \in Objects : o \notin Impls
    /\ Null \notin Impls
    BY ThreadAssumption DEF Owners

LEMMA ThreadInit == Init => ThreadInv
<1> SUFFICES ASSUME Init PROVE ThreadInv
    OBVIOUS
<1>1. Accounted(Gone(NoStats))
    BY DEF Gone, Accounted, IsVector
<1>2. VectorsAccounted
    BY <1>1 DEF Init, VectorsAccounted
<1>3. HandlesType
    BY DEF Init, HandlesType, OsStates
<1> QED
    BY <1>2, <1>3, OwnersApart DEF Init, ThreadInv, OwnedAreAlive, ImplOutlivesThread

\* What a step that changes only vectors of affinities leaves as it is.
LEMMA ObjectsOnly ==
    ASSUME ThreadInv, UNCHANGED threads, \A i \in Impls : cores'[i] = cores[i]
    PROVE  HandlesType' /\ OwnedAreAlive' /\ ImplOutlivesThread'
    BY DEF ThreadInv, threads, HandlesType, OwnedAreAlive, ImplOutlivesThread

LEMMA BecomesStep ==
    ASSUME ThreadInv, NEW o \in Objects, NEW v, Accounted(v), Becomes(o, v)
    PROVE  ThreadInv'
<1>1. cores' = [cores EXCEPT ![o] = v] /\ UNCHANGED threads
    BY DEF Becomes
<1>2. VectorsAccounted'
    BY <1>1, OwnersApart DEF ThreadInv, VectorsAccounted
<1>3. \A i \in Impls : cores'[i] = cores[i]
    BY <1>1, OwnersApart DEF ThreadInv, VectorsAccounted
<1> QED
    BY <1>1, <1>2, <1>3, ObjectsOnly DEF ThreadInv

\* The vector that was moved from is emptied.
LEMMA EmptiedAccounted ==
    ASSUME NEW v, Accounted(v) PROVE Accounted(resize(v, 0, Core))
<1>1. 0 \in Nat
    OBVIOUS
<1> QED
    BY <1>1, ResizeAccounted

LEMMA AffinityStep ==
    ASSUME ThreadInv,
           NEW o \in Objects, NEW p \in Objects,
           \/ Construct(o) \/ Destroy(o) \/ Copy(o, p) \/ Move(o, p) \/ Assign(o, p)
           \/ AddCores(o, p) \/ RemoveCores(o, p)
           \/ \E threadId \in ThreadIds : GetOneOf(o, p, threadId)
    PROVE  ThreadInv'
<1>0. Accounted(cores[o]) /\ Accounted(cores[p])
    BY OwnersApart DEF ThreadInv, VectorsAccounted
<1>1. CASE Construct(o)
    <2>1. PICK v \in {Empty, all} \cup {listed(l) : l \in Lists} : Becomes(o, v)
        BY <1>1 DEF Construct
    <2>2. ASSUME NEW l \in Lists PROVE Accounted(listed(l))
        <3>1. Len(l) \in Nat
            BY ThreadAssumption
        <3> QED
            BY <3>1, ListedAccounted
    <2>3. Accounted(v)
        BY <2>2, EmptyAccounted, AllAccounted
    <2> QED
        BY <2>1, <2>3, BecomesStep
<1>2. CASE Destroy(o)
    BY <1>0, <1>2, DestroyedAccounted, BecomesStep DEF Destroy
<1>3. CASE Copy(o, p)
    BY <1>0, <1>3, CopiedAccounted, BecomesStep DEF Copy
<1>4. CASE Move(o, p)
    <2>1. /\ cores' = [cores EXCEPT ![o] = copied(cores[p]), ![p] = resize(cores[p], 0, Core)]
          /\ UNCHANGED threads
        BY <1>4 DEF Move, Free, Usable
    <2>2. Accounted(copied(cores[p])) /\ Accounted(resize(cores[p], 0, Core))
        BY <1>0, CopiedAccounted, EmptiedAccounted
    <2>3. VectorsAccounted'
        BY <2>1, <2>2, OwnersApart DEF ThreadInv, VectorsAccounted
    <2>4. \A i \in Impls : cores'[i] = cores[i]
        BY <2>1, OwnersApart DEF ThreadInv, VectorsAccounted
    <2> QED
        BY <2>1, <2>3, <2>4, ObjectsOnly DEF ThreadInv
<1>5. CASE Assign(o, p)
    <2> DEFINE source == IF o = p THEN free_(cores[o]) ELSE cores[p]
               target == assign(cores[o], source)
    <2>1. /\ cores' = IF o = p THEN [cores EXCEPT ![o] = target]
                      ELSE [cores EXCEPT ![o] = target, ![p] = resize(cores[p], 0, Core)]
          /\ UNCHANGED threads
        BY <1>5 DEF Assign
    <2>2. Accounted(source)
        BY <1>0, FreeAccounted
    <2> HIDE DEF source
    <2>3. Accounted(target)
        BY <1>0, <2>2, AssignAccounted DEF Accounted, IsVector
    <2>4. Accounted(resize(cores[p], 0, Core))
        BY <1>0, EmptiedAccounted
    <2> HIDE DEF target
    <2>5. VectorsAccounted'
        BY <2>1, <2>3, <2>4, OwnersApart DEF ThreadInv, VectorsAccounted
    <2>6. \A i \in Impls : cores'[i] = cores[i]
        BY <2>1, OwnersApart DEF ThreadInv, VectorsAccounted
    <2> QED
        BY <2>1, <2>5, <2>6, ObjectsOnly DEF ThreadInv
<1>6. CASE AddCores(o, p)
    BY <1>0, <1>6, AddedAccounted, BecomesStep DEF AddCores
<1>7. CASE RemoveCores(o, p)
    BY <1>0, <1>7, RemovedAccounted, BecomesStep DEF RemoveCores
<1>8. ASSUME NEW threadId \in ThreadIds, GetOneOf(o, p, threadId) PROVE ThreadInv'
    BY <1>0, <1>8, OneOfAccounted, BecomesStep DEF GetOneOf
<1> QED
    BY <1>1, <1>2, <1>3, <1>4, <1>5, <1>6, <1>7, <1>8

\* A handle that owned nothing gets an Impl that no handle owned.
LEMMA StartStep ==
    ASSUME ThreadInv, NEW h \in Handles, NEW i \in Impls,
           StartAll(h, i) \/ \E o \in Objects : Start(h, i, o)
    PROVE  ThreadInv'
<1>1. /\ impl[h] = Null /\ ~cores[i].alive
      /\ impl' = [impl EXCEPT ![h] = i]
      /\ os' = [os EXCEPT ![i] = "born"]
    BY DEF StartAll, Start
<1>2. /\ VectorsAccounted'
      /\ cores'[i].alive
      /\ \A j \in Impls \ {i} : cores'[j] = cores[j]
    <2>1. CASE StartAll(h, i)
        <3>1. cores' = [cores EXCEPT ![i] = copied(all)]
            BY <2>1 DEF StartAll
        <3>2. Accounted(copied(all)) /\ copied(all).alive
            BY AllAccounted, CopiedAccounted
        <3> QED
            BY <3>1, <3>2, OwnersApart DEF ThreadInv, VectorsAccounted
    <2>2. ASSUME NEW o \in Objects, Start(h, i, o)
          PROVE  /\ VectorsAccounted'
                 /\ cores'[i].alive
                 /\ \A j \in Impls \ {i} : cores'[j] = cores[j]
        <3>1. Accounted(cores[o]) /\ o # i
            BY OwnersApart DEF ThreadInv, VectorsAccounted
        <3>2. cores' = [cores EXCEPT ![i] = copied(cores[o]), ![o] = resize(cores[o], 0, Core)]
            BY <2>2, <3>1 DEF Start
        <3>3. /\ Accounted(copied(cores[o])) /\ copied(cores[o]).alive
              /\ Accounted(resize(cores[o], 0, Core))
            BY <3>1, CopiedAccounted, EmptiedAccounted
        <3> QED
            BY <3>1, <3>2, <3>3, OwnersApart DEF ThreadInv, VectorsAccounted
    <2> QED
        BY <2>1, <2>2
<1>3. \A g \in Handles : impl[g] # i
    BY <1>1, OwnersApart DEF ThreadInv, OwnedAreAlive
<1>4. HandlesType'
    BY <1>1 DEF ThreadInv, HandlesType, OsStates
<1>5. OwnedAreAlive'
    BY <1>1, <1>2, <1>3 DEF ThreadInv, HandlesType, OwnedAreAlive
<1>6. ImplOutlivesThread'
    BY <1>1, <1>2, <1>3 DEF ThreadInv, HandlesType, ImplOutlivesThread
<1> QED
    BY <1>2, <1>4, <1>5, <1>6 DEF ThreadInv

LEMMA ThreadStep ==
    ASSUME ThreadInv, NEW i \in Impls, Pin(i) \/ Finish(i)
    PROVE  ThreadInv'
    BY DEF ThreadInv, Pin, Finish, VectorsAccounted, HandlesType, OsStates, OwnedAreAlive,
           ImplOutlivesThread

LEMMA JoinStep ==
    ASSUME ThreadInv, NEW h \in Handles, Join(h)
    PROVE  ThreadInv'
<1> DEFINE i == impl[h]
<1>1. /\ i \in Impls /\ i \in Owners
      /\ os[i] = "ended"
      /\ cores' = [cores EXCEPT ![i] = destroyed(cores[i])]
      /\ os' = [os EXCEPT ![i] = "none"]
      /\ impl' = [impl EXCEPT ![h] = Null]
    BY OwnersApart DEF ThreadInv, HandlesType, Join, Joinable
<1>2. Accounted(destroyed(cores[i]))
    BY <1>1, DestroyedAccounted DEF ThreadInv, VectorsAccounted
<1>3. VectorsAccounted'
    BY <1>1, <1>2 DEF ThreadInv, VectorsAccounted
<1>4. HandlesType'
    BY <1>1 DEF ThreadInv, HandlesType, OsStates
<1>5. \A g \in Handles \ {h} : impl[g] # i
    BY <1>1, OwnersApart DEF ThreadInv, ImplOutlivesThread
<1>6. \A j \in Impls \ {i} : cores'[j] = cores[j] /\ os'[j] = os[j]
    BY <1>1, OwnersApart DEF ThreadInv, VectorsAccounted, HandlesType
<1> HIDE DEF i
<1>7. OwnedAreAlive'
    BY <1>1, <1>5, <1>6 DEF ThreadInv, HandlesType, OwnedAreAlive
<1>8. ImplOutlivesThread'
    BY <1>1, <1>6 DEF ThreadInv, HandlesType, ImplOutlivesThread
<1> QED
    BY <1>3, <1>4, <1>7, <1>8 DEF ThreadInv

LEMMA HandleStep ==
    ASSUME ThreadInv, NEW h \in Handles, NEW g \in Handles,
           DropHandle(h) \/ MoveHandle(h, g) \/ AssignHandle(h, g)
    PROVE  ThreadInv'
<1>1. UNCHANGED <<cores, os>>
    BY DEF DropHandle, MoveHandle, AssignHandle
<1>2. VectorsAccounted'
    BY <1>1 DEF ThreadInv, VectorsAccounted
<1>3. \/ impl' = impl
      \/ impl' = [impl EXCEPT ![h] = Null]
      \/ impl[h] = Null /\ impl' = [impl EXCEPT ![h] = impl[g], ![g] = Null]
      \/ impl[h] = Null /\ impl' = [impl EXCEPT ![g] = Null, ![h] = impl[g]]
    BY DEF DropHandle, MoveHandle, AssignHandle
<1>4. /\ HandlesType'
      /\ OwnedAreAlive'
      /\ ImplOutlivesThread'
    BY <1>1, <1>3 DEF ThreadInv, HandlesType, OwnedAreAlive, ImplOutlivesThread
<1> QED
    BY <1>2, <1>4 DEF ThreadInv

LEMMA ThreadInductive == ThreadInv /\ [Next]_vars => ThreadInv'
<1> SUFFICES ASSUME ThreadInv, [Next]_vars PROVE ThreadInv'
    OBVIOUS
<1>1. CASE Next
    BY <1>1, AffinityStep, StartStep, ThreadStep, JoinStep, HandleStep DEF Next
<1>2. CASE UNCHANGED vars
    BY <1>2 DEF vars, ThreadInv, VectorsAccounted, HandlesType, OwnedAreAlive,
                ImplOutlivesThread
<1> QED
    BY <1>1, <1>2

LEMMA ThreadInvariant == Spec => []ThreadInv
    BY ThreadInit, ThreadInductive, PTL DEF Spec

\* Whatever affinities a program builds, moves, merges and destroys, no vector
\* leaks its storage, frees it twice or with another request (memory.hpp:106).
THEOREM VectorsFreeWhatTheyAllocate == Spec => []LedgerMatches
<1>1. ThreadInv => LedgerMatches
    BY DEF ThreadInv, VectorsAccounted, Accounted, LedgerMatches
<1> QED
    BY <1>1, ThreadInvariant, PTL

\* However handles are moved, assigned and dropped, join() deletes an Impl once and
\* never while its thread reads it (thread.cpp:413).
THEOREM ThreadsAreOutlived == Spec => []ImplOutlivesThread
<1>1. ThreadInv => ImplOutlivesThread
    BY DEF ThreadInv
<1> QED
    BY <1>1, ThreadInvariant, PTL

-----------------------------------------------------------------------------
(* Vector: where the objects are.  A vector is full when its storage holds *)
(* the objects it counts, tight when it has the capacity it believes in.   *)

Cell == Nat \cup {NoObject}

Full(v) ==
    /\ Accounted(v)
    /\ ~v.broken
    /\ v.cells \in Seq(Cell)
    /\ v.count <= Len(v.cells) /\ Len(v.cells) <= v.capacity
    /\ \A i \in 1..v.count : v.cells[i] # NoObject

Tight(v) == Len(v.cells) = v.capacity

\* What an operation on v leaves: tight if v was, and never a gap unnoticed.
Keeps(w, v) == /\ Accounted(w)
               /\ Full(w) \/ (w.broken /\ ~Tight(v))
               /\ Tight(v) => Tight(w)

LEMMA CellsSeq ==
    ASSUME NEW S, NEW n \in Nat, NEW c \in [1..n -> S]
    PROVE  c \in Seq(S) /\ Len(c) = n /\ DOMAIN c = 1..n
    OBVIOUS

LEMMA SeqCells ==
    ASSUME NEW S, NEW c \in Seq(S)
    PROVE  /\ Len(c) \in Nat /\ DOMAIN c = 1..Len(c)
           /\ \A i \in 1..Len(c) : c[i] \in S
    OBVIOUS

LEMMA CellsField ==
    ASSUME NEW v, Accounted(v), NEW c
    PROVE  /\ [v EXCEPT !.cells = c].cells = c
           /\ [v EXCEPT !.cells = c].broken = v.broken
           /\ [v EXCEPT !.cells = c].capacity = v.capacity
           /\ [v EXCEPT !.cells = c].count = v.count
           /\ Accounted([v EXCEPT !.cells = c])
    BY DEF Accounted, IsVector

LEMMA CountField ==
    ASSUME NEW v, Accounted(v), NEW n \in Nat
    PROVE  /\ [v EXCEPT !.count = n].cells = v.cells
           /\ [v EXCEPT !.count = n].broken = v.broken
           /\ [v EXCEPT !.count = n].capacity = v.capacity
           /\ [v EXCEPT !.count = n].count = n
           /\ Accounted([v EXCEPT !.count = n])
    BY DEF Accounted, IsVector

LEMMA BrokenField ==
    ASSUME NEW v, Accounted(v)
    PROVE  [v EXCEPT !.broken = TRUE].broken
    BY DEF Accounted, IsVector

\* construct() writes one cell if it is there, and else is noticed.
LEMMA ConstructCells ==
    ASSUME NEW v, Accounted(v), v.cells \in Seq(Cell), ~v.broken, NEW i, NEW x \in Nat
    PROVE  LET w == construct(v, i, x)
           IN  \/ /\ i \notin 1..Len(v.cells) /\ w.broken /\ w.cells = v.cells
               \/ /\ i \in 1..Len(v.cells) /\ ~w.broken
                  /\ w.cells \in Seq(Cell) /\ Len(w.cells) = Len(v.cells)
                  /\ w.cells[i] = x
                  /\ \A j \in 1..Len(v.cells) : j # i => w.cells[j] = v.cells[j]
<1> DEFINE w == construct(v, i, x)
           c == [v.cells EXCEPT ![i] = x]
<1>0. x # NoObject /\ x \in Cell
    BY ThreadAssumption DEF Cell
<1>1. CASE i \in DOMAIN v.cells
    <2>1. [v EXCEPT !.cells[i] = x] = [v EXCEPT !.cells = c]
        OBVIOUS
    <2>2. w = [v EXCEPT !.cells = c]
        BY <1>0, <1>1, <2>1 DEF construct
    <2>3. i \in 1..Len(v.cells)
        BY <1>1
    <2>4. c \in [1..Len(v.cells) -> Cell]
        BY <1>0, SeqCells
    <2>5. c \in Seq(Cell) /\ Len(c) = Len(v.cells)
        BY <2>4, CellsSeq, SeqCells
    <2>6. c[i] = x /\ \A j \in 1..Len(v.cells) : j # i => c[j] = v.cells[j]
        BY <2>3, SeqCells
    <2> HIDE DEF c
    <2>7. w.cells = c /\ ~w.broken
        BY <2>2, CellsField
    <2> HIDE DEF w
    <2> QED
        BY <2>3, <2>5, <2>6, <2>7 DEF w
<1>2. CASE i \notin DOMAIN v.cells
    <2>1. w = [v EXCEPT !.broken = TRUE]
        BY <1>2 DEF construct
    <2>2. w.broken /\ w.cells = v.cells
        BY <2>1 DEF Accounted, IsVector
    <2> QED
        BY <1>2, <2>2, SeqCells
<1> QED
    BY <1>1, <1>2

\* Shrinking destroys the last objects, which are there.
LEMMA ShrinkFull ==
    ASSUME NEW v, Full(v), NEW n \in Nat, n <= v.count
    PROVE  LET w == resize(v, n, Core)
           IN  /\ Full(w) /\ w.count = n /\ (Tight(v) => Tight(w))
               /\ \A i \in 1..n : w.cells[i] = v.cells[i]
<1>0. Accounted(v) /\ v.count \in Nat /\ v.capacity \in Nat /\ v.cells \in Seq(Cell)
    BY DEF Full, Accounted, IsVector
<1>1. reserve(v, n) = v
    BY <1>0 DEF reserve, Full
<1> DEFINE w == resize(v, n, Core)
           c == [i \in DOMAIN v.cells |-> IF i \in (n + 1)..v.count THEN NoObject ELSE v.cells[i]]
           d == [i \in DOMAIN v.cells |-> IF i \in DOMAIN [k \in (v.count + 1)..n |-> Core]
                                          THEN [k \in (v.count + 1)..n |-> Core][i]
                                          ELSE v.cells[i]]
<1>2. /\ DOMAIN v.cells = 1..Len(v.cells) /\ Len(v.cells) \in Nat
      /\ \A i \in 1..Len(v.cells) : v.cells[i] \in Cell
    BY <1>0, SeqCells
<1>3. c \in [1..Len(v.cells) -> Cell]
    BY <1>2 DEF Cell
<1>4. c \in Seq(Cell) /\ Len(c) = Len(v.cells)
    BY <1>2, <1>3, CellsSeq
<1>5. \A i \in 1..n : c[i] = v.cells[i]
    BY <1>0, <1>2 DEF Full
<1>6. w = [[v EXCEPT !.cells = c] EXCEPT !.count = n]
    <2>1. CASE n < v.count
        <3>1. \A i \in (n + 1)..v.count : i \in DOMAIN v.cells /\ v.cells[i] # NoObject
            BY <1>0, <1>2 DEF Full
        <3>2. destroy(v, n + 1, v.count) = [v EXCEPT !.cells = c]
            BY <3>1 DEF destroy
        <3> HIDE DEF c
        <3> QED
            BY <1>1, <2>1, <3>2 DEF resize
    <2>2. CASE ~(n < v.count)
        <3>1. (v.count + 1)..n = {} /\ (n + 1)..v.count = {}
            BY <1>0, <2>2
        <3>2. c = d
            BY <3>1
        <3>3. \A i \in DOMAIN [k \in (v.count + 1)..n |-> Core] :
                 i \in DOMAIN v.cells /\ [k \in (v.count + 1)..n |-> Core][i] # NoObject
            BY <3>1
        <3>4. constructEach(v, [k \in (v.count + 1)..n |-> Core]) = [v EXCEPT !.cells = d]
            BY <3>3 DEF constructEach
        <3> HIDE DEF c, d
        <3>5. w = [constructEach(v, [k \in (v.count + 1)..n |-> Core]) EXCEPT !.count = n]
            BY <1>1, <2>2 DEF resize
        <3> QED
            BY <3>2, <3>4, <3>5
    <2> QED
        BY <2>1, <2>2
<1> HIDE DEF c, d, w
<1>7. /\ Accounted(w) /\ w.cells = c /\ w.count = n /\ w.broken = v.broken
      /\ w.capacity = v.capacity
    <2> DEFINE u == [v EXCEPT !.cells = c]
    <2>1. Accounted(u) /\ u.cells = c /\ u.broken = v.broken /\ u.capacity = v.capacity
        BY <1>0, CellsField
    <2> HIDE DEF u
    <2> QED
        BY <1>6, <2>1, CountField DEF u
<1>8. Full(w)
    BY <1>0, <1>2, <1>4, <1>5, <1>7 DEF Full
<1> QED
    BY <1>4, <1>5, <1>7, <1>8 DEF w, Tight

\* free() leaves an empty storage, or no storage.
LEMMA FreeCells ==
    ASSUME NEW v, Full(v)
    PROVE  LET w == free_(v)
           IN  /\ ~w.broken /\ w.capacity = v.capacity
               /\ w.cells \in Seq(Cell)
               /\ Len(w.cells) \in {0, Len(v.cells)}
               /\ (v.count = 0 /\ ~OnHeap(v)) => /\ w.cells = v.cells
<1> DEFINE w == free_(v)
           u == destroy(v, 1, v.count)
           c == [i \in DOMAIN v.cells |-> IF i \in 1..v.count THEN NoObject ELSE v.cells[i]]
<1>0. Accounted(v) /\ v.count \in Nat /\ v.cells \in Seq(Cell)
    BY DEF Full, Accounted, IsVector
<1>1. /\ DOMAIN v.cells = 1..Len(v.cells) /\ Len(v.cells) \in Nat
      /\ \A i \in 1..Len(v.cells) : v.cells[i] \in Cell
    BY <1>0, SeqCells
<1>2. u = [v EXCEPT !.cells = c]
    <2>1. \A i \in 1..v.count : i \in DOMAIN v.cells /\ v.cells[i] # NoObject
        BY <1>0, <1>1 DEF Full
    <2> HIDE DEF c
    <2> QED
        BY <2>1 DEF destroy, c
<1>3. c \in [1..Len(v.cells) -> Cell]
    BY <1>1 DEF Cell
<1>4. c \in Seq(Cell) /\ Len(c) = Len(v.cells)
    BY <1>1, <1>3, CellsSeq
<1>5. v.count = 0 => c = v.cells
    <2>1. v.count = 0 => \A i \in 1..Len(v.cells) : c[i] = v.cells[i]
        BY <1>1
    <2>2. v.cells = [i \in 1..Len(v.cells) |-> v.cells[i]]
        BY <1>0
    <2>3. c = [i \in 1..Len(v.cells) |-> c[i]]
        BY <1>1
    <2> HIDE DEF c
    <2> QED
        BY <2>1, <2>2, <2>3
<1> HIDE DEF c, u, w
<1>6. /\ u.cells = c /\ u.broken = v.broken /\ u.capacity = v.capacity /\ Accounted(u)
    BY <1>0, <1>2, CellsField
<1>7. CASE ~OnHeap(v)
    <2>1. w = u
        BY <1>7 DEF free_, u, w
    <2> QED
        BY <1>4, <1>5, <1>6, <2>1 DEF Full, w
<1>8. CASE OnHeap(v)
    <2>1. w = [u EXCEPT !.ledger = uncounted(u.ledger, v.allocation),
                        !.allocation = NoAllocation, !.cells = <<>>]
        BY <1>8 DEF free_, u, w
    <2>2. w.cells = <<>> /\ w.broken = u.broken /\ w.capacity = u.capacity
        BY <1>6, <2>1 DEF Accounted, IsVector
    <2>3. <<>> \in Seq(Cell) /\ Len(<<>>) = 0
        OBVIOUS
    <2> QED
        BY <1>6, <1>8, <2>2, <2>3 DEF Full, w
<1> QED
    BY <1>7, <1>8

LEMMA ReserveCells ==
    ASSUME NEW v, Full(v), NEW n \in Nat
    PROVE  LET w == reserve(v, n)
           IN  /\ Full(w) /\ w.count = v.count
               /\ Tight(v) => Tight(w) /\ n <= Len(w.cells)
<1>0. Accounted(v) /\ v.count \in Nat /\ v.capacity \in Nat /\ v.cells \in Seq(Cell)
    BY DEF Full, Accounted, IsVector
<1>1. CASE n <= v.capacity
    BY <1>1 DEF reserve, Tight
<1>2. CASE ~(n <= v.capacity)
    <2> DEFINE capacity == IF n * 2 < MinGrowth THEN MinGrowth ELSE n * 2
               grown == [i \in 1..capacity |->
                            IF i \in DOMAIN objects(v) THEN objects(v)[i] ELSE NoObject]
               u == free_(v)
               w == reserve(v, n)
    <2>1. w = [u EXCEPT !.capacity = capacity, !.cells = grown,
                        !.allocation = Storage(capacity),
                        !.ledger = counted(u.ledger, Storage(capacity))]
        BY <1>2 DEF reserve, Storage
    <2>2. capacity \in Nat /\ n <= capacity
        BY VectorAssumption
    <2>3. v.count <= capacity
        BY <1>0, <1>2, <2>2, SeqCells DEF Full
    <2>4. Accounted(u) /\ u.count = v.count /\ ~u.broken
        BY <1>0, FreeAccounted, FreeCells
    <2>5. Accounted(w) /\ w.count = v.count
        BY <1>0, ReserveAccounted
    <2>6. /\ DOMAIN v.cells = 1..Len(v.cells) /\ Len(v.cells) \in Nat
          /\ \A i \in 1..Len(v.cells) : v.cells[i] \in Cell
        BY <1>0, SeqCells
    <2>7. \A i \in 1..v.count : i \in DOMAIN objects(v) /\ objects(v)[i] = v.cells[i]
        BY <1>0, <2>6 DEF objects, Full
    <2>8. DOMAIN objects(v) = 1..v.count
        BY DEF objects
    <2>9. grown \in [1..capacity -> Cell]
        BY <1>0, <2>6, <2>7, <2>8 DEF Cell, Full
    <2>10. grown \in Seq(Cell) /\ Len(grown) = capacity
        BY <2>2, <2>9, CellsSeq
    <2>11. \A i \in 1..v.count : grown[i] # NoObject
        BY <1>0, <2>2, <2>3, <2>7 DEF Full
    <2> HIDE DEF capacity, grown, u, w
    <2>12. w.cells = grown /\ w.capacity = capacity /\ w.broken = u.broken
        BY <2>1, <2>4 DEF Accounted, IsVector
    <2> QED
        BY <2>2, <2>3, <2>4, <2>5, <2>10, <2>11, <2>12 DEF Full, Tight, w
<1> QED
    BY <1>1, <1>2

LEMMA PushBackKeeps ==
    ASSUME NEW v, Full(v), NEW x \in Nat
    PROVE  Keeps(push_back(v, x), v)
<1> DEFINE w == reserve(v, v.count + 1)
           u == construct(w, w.count + 1, x)
           r == push_back(v, x)
<1>0. v.count + 1 \in Nat /\ Accounted(v) /\ v.count \in Nat
    BY DEF Full, Accounted, IsVector
<1>1. /\ Full(w) /\ w.count = v.count
      /\ Tight(v) => Tight(w) /\ v.count + 1 <= Len(w.cells)
    BY <1>0, ReserveCells
<1> HIDE DEF w
<1>2. Accounted(w) /\ w.cells \in Seq(Cell) /\ ~w.broken
    BY <1>1 DEF Full
<1>3. /\ Accounted(u) /\ u.count = w.count
    BY <1>2, ConstructAccounted DEF Same
<1>4. u.capacity = w.capacity
    <2> DEFINE c == [w.cells EXCEPT ![w.count + 1] = x]
    <2>1. [w EXCEPT !.cells[w.count + 1] = x] = [w EXCEPT !.cells = c]
        OBVIOUS
    <2>2. u = [w EXCEPT !.cells = c] \/ u = [w EXCEPT !.broken = TRUE]
        BY <2>1 DEF construct
    <2> HIDE DEF c, u
    <2>3. [w EXCEPT !.broken = TRUE].capacity = w.capacity
        BY <1>2 DEF Accounted, IsVector
    <2>4. [w EXCEPT !.cells = c].capacity = w.capacity
        BY <1>2, CellsField
    <2> QED
        BY <2>2, <2>3, <2>4
<1>5. r = [u EXCEPT !.count = u.count + 1]
    BY DEF push_back, w
<1>6. \/ /\ w.count + 1 \notin 1..Len(w.cells) /\ u.broken /\ u.cells = w.cells
      \/ /\ w.count + 1 \in 1..Len(w.cells) /\ ~u.broken
         /\ u.cells \in Seq(Cell) /\ Len(u.cells) = Len(w.cells)
         /\ u.cells[w.count + 1] = x
         /\ \A j \in 1..Len(w.cells) : j # w.count + 1 => u.cells[j] = w.cells[j]
    BY <1>2, ConstructCells
<1> HIDE DEF u, r
<1>7. /\ r.cells = u.cells /\ r.broken = u.broken /\ r.capacity = u.capacity
      /\ r.count = v.count + 1 /\ Accounted(r)
    BY <1>0, <1>1, <1>3, <1>5, CountField
<1>8. Len(w.cells) \in Nat
    BY <1>2, SeqCells
<1>9. Tight(v) => Tight(r) /\ ~r.broken
    BY <1>0, <1>1, <1>4, <1>6, <1>7, <1>8 DEF Tight
<1>10. Full(r) \/ r.broken
    <2> SUFFICES ASSUME ~r.broken PROVE Full(r)
        OBVIOUS
    <2>1. /\ w.count + 1 \in 1..Len(w.cells)
          /\ r.cells \in Seq(Cell) /\ Len(r.cells) = Len(w.cells)
          /\ r.cells[w.count + 1] = x
          /\ \A j \in 1..Len(w.cells) : j # w.count + 1 => r.cells[j] = w.cells[j]
        BY <1>6, <1>7
    <2>2. x # NoObject
        BY ThreadAssumption
    <2>3. \A i \in 1..r.count : r.cells[i] # NoObject
        <3> SUFFICES ASSUME NEW i \in 1..r.count PROVE r.cells[i] # NoObject
            OBVIOUS
        <3>1. CASE i = w.count + 1
            BY <2>1, <2>2, <3>1
        <3>2. CASE i # w.count + 1
            <4>1. i \in 1..w.count /\ i \in 1..Len(w.cells)
                BY <1>0, <1>1, <1>7, <1>8, <2>1, <3>2
            <4> QED
                BY <1>1, <2>1, <3>2, <4>1 DEF Full
        <3> QED
            BY <3>1, <3>2
    <2>4. r.count <= Len(r.cells) /\ Len(r.cells) <= r.capacity
        BY <1>0, <1>1, <1>4, <1>7, <1>8, <2>1 DEF Full
    <2> QED
        BY <1>7, <2>1, <2>3, <2>4 DEF Full
<1> QED
    BY <1>7, <1>9, <1>10 DEF Keeps, r

\* What is broken stays so, until the vector is gone.
LEMMA PushBackBroken ==
    ASSUME NEW v, Accounted(v), v.broken, NEW x
    PROVE  push_back(v, x).broken
<1> DEFINE w == reserve(v, v.count + 1)
           u == construct(w, w.count + 1, x)
<1>0. v.count + 1 \in Nat
    BY DEF Accounted, IsVector
<1>1. ASSUME NEW y, Accounted(y), y.broken, NEW first, NEW last
      PROVE  destroy(y, first, last).broken
    <2> DEFINE c == [i \in DOMAIN y.cells |-> IF i \in first..last THEN NoObject ELSE y.cells[i]]
    <2>1. destroy(y, first, last) = [y EXCEPT !.cells = c] \/ destroy(y, first, last) = [y EXCEPT !.broken = TRUE]
        BY DEF destroy
    <2> HIDE DEF c
    <2>2. [y EXCEPT !.cells = c].broken /\ [y EXCEPT !.broken = TRUE].broken
        BY <1>1, CellsField, BrokenField
    <2> QED
        BY <2>1, <2>2, Zenon
<1>2. free_(v).broken
    <2> DEFINE y == destroy(v, 1, v.count)
    <2>1. Accounted(y) /\ y.broken
        BY <1>1, DestroyAccounted DEF Same
    <2>2. \/ free_(v) = y
          \/ free_(v) = [y EXCEPT !.ledger = uncounted(y.ledger, v.allocation),
                                  !.allocation = NoAllocation, !.cells = <<>>]
        BY DEF free_
    <2> HIDE DEF y
    <2> QED
        BY <2>1, <2>2 DEF Accounted, IsVector
<1>3. w.broken
    <2>1. CASE w = v
        BY <2>1
    <2>2. CASE w # v
        <3> DEFINE n == v.count + 1
                   capacity == IF n * 2 < MinGrowth THEN MinGrowth ELSE n * 2
                   grown == [i \in 1..capacity |->
                                IF i \in DOMAIN objects(v) THEN objects(v)[i] ELSE NoObject]
                   y == free_(v)
        <3>1. w = [y EXCEPT !.capacity = capacity, !.cells = grown,
                            !.allocation = Storage(capacity),
                            !.ledger = counted(y.ledger, Storage(capacity))]
            BY <2>2 DEF reserve, Storage
        <3>2. Accounted(y)
            BY FreeAccounted
        <3> HIDE DEF capacity, grown, y, w
        <3>3. y.broken
            BY <1>2 DEF y
        <3> QED
            BY <3>1, <3>2, <3>3 DEF Accounted, IsVector
    <2> QED
        BY <2>1, <2>2
<1>4. Accounted(w)
    BY <1>0, ReserveAccounted
<1> HIDE DEF w
<1>5. u.broken
    <2> DEFINE c == [w.cells EXCEPT ![w.count + 1] = x]
    <2>1. [w EXCEPT !.cells[w.count + 1] = x] = [w EXCEPT !.cells = c]
        OBVIOUS
    <2>2. u = [w EXCEPT !.cells = c] \/ u = [w EXCEPT !.broken = TRUE]
        BY <2>1 DEF construct
    <2> HIDE DEF c, u
    <2>3. [w EXCEPT !.cells = c].broken /\ [w EXCEPT !.broken = TRUE].broken
        BY <1>3, <1>4, CellsField, BrokenField
    <2> QED
        BY <2>2, <2>3, Zenon
<1>6. Accounted(u)
    BY <1>4, ConstructAccounted DEF Same
<1>7. push_back(v, x) = [u EXCEPT !.count = u.count + 1]
    BY DEF push_back, w
<1> HIDE DEF u
<1> QED
    BY <1>5, <1>6, <1>7 DEF Accounted, IsVector

\* The constructors and assignments from another vector.
LEMMA AssignKeeps ==
    ASSUME NEW v, Full(v),
           NEW other, other.count \in Nat, other.cells \in Seq(Cell)
    PROVE  LET w == assign(v, other)
           IN  /\ Full(w) \/ w.broken
               /\ (/\ v.count = 0 /\ ~OnHeap(v) /\ Tight(v)
                   /\ other.count <= Len(other.cells)
                   /\ \A i \in 1..other.count : other.cells[i] # NoObject)
                  => Full(w) /\ Tight(w)
<1> DEFINE n == other.count
           a == free_(v)
           b == reserve(a, n)
           u == [b EXCEPT !.count = n]
           x == objects(other)
           c == [i \in DOMAIN u.cells |-> IF i \in DOMAIN x THEN x[i] ELSE u.cells[i]]
           w == assign(v, other)
<1>0. Accounted(v) /\ v.count \in Nat /\ v.capacity \in Nat /\ v.cells \in Seq(Cell)
    BY DEF Full, Accounted, IsVector
<1>1. /\ DOMAIN x = 1..n
      /\ \A i \in 1..n : x[i] \in Cell /\ (i <= Len(other.cells) => x[i] = other.cells[i])
    BY SeqCells DEF objects, Cell
<1>2. /\ Accounted(a) /\ ~a.broken /\ a.cells \in Seq(Cell) /\ a.count = v.count
      /\ a.capacity = v.capacity /\ Len(a.cells) <= a.capacity
      /\ (v.count = 0 /\ ~OnHeap(v)) => a.cells = v.cells
    BY <1>0, FreeAccounted, FreeCells, SeqCells DEF Full
<1> HIDE DEF a
<1>3. Accounted(b) /\ b.cells \in Seq(Cell) /\ Len(b.cells) <= b.capacity
    <2>1. CASE n <= a.capacity
        BY <1>2, <2>1 DEF reserve
    <2>2. CASE ~(n <= a.capacity)
        <3> DEFINE capacity == IF n * 2 < MinGrowth THEN MinGrowth ELSE n * 2
                   grown == [i \in 1..capacity |->
                                IF i \in DOMAIN objects(a) THEN objects(a)[i] ELSE NoObject]
                   y == free_(a)
        <3>1. b = [y EXCEPT !.capacity = capacity, !.cells = grown,
                            !.allocation = Storage(capacity),
                            !.ledger = counted(y.ledger, Storage(capacity))]
            BY <2>2 DEF reserve, Storage
        <3>2. capacity \in Nat
            BY VectorAssumption
        <3>3. \A i \in DOMAIN objects(a) : objects(a)[i] \in Cell
            BY <1>2, SeqCells DEF objects, Cell
        <3>4. grown \in [1..capacity -> Cell]
            BY <3>3 DEF Cell
        <3>5. grown \in Seq(Cell) /\ Len(grown) = capacity
            BY <3>2, <3>4, CellsSeq
        <3>6. Accounted(y) /\ Accounted(b)
            BY <1>2, FreeAccounted, ReserveAccounted
        <3> HIDE DEF capacity, grown, y, b
        <3>7. b.cells = grown /\ b.capacity = capacity
            BY <3>1, <3>6 DEF Accounted, IsVector
        <3> QED
            BY <3>2, <3>5, <3>6, <3>7
    <2> QED
        BY <2>1, <2>2
<1> HIDE DEF b
<1>4. /\ Accounted(u) /\ u.cells = b.cells /\ u.broken = b.broken
      /\ u.capacity = b.capacity /\ u.count = n
    BY <1>3, CountField
<1>5. w = constructEach(u, x)
    BY DEF assign, a, b
<1> HIDE DEF u, w
<1>6. ASSUME \A i \in 1..n : i \in DOMAIN u.cells /\ x[i] # NoObject
      PROVE  (~b.broken => Full(w)) /\ (b.broken => w.broken) /\ (Tight(b) => Tight(w))
    <2>1. w = [u EXCEPT !.cells = c]
        BY <1>1, <1>5, <1>6 DEF constructEach
    <2>2. DOMAIN u.cells = 1..Len(b.cells) /\ Len(b.cells) \in Nat
          /\ \A i \in 1..Len(b.cells) : u.cells[i] \in Cell
        BY <1>3, <1>4, SeqCells
    <2>3. c \in [1..Len(b.cells) -> Cell]
        BY <1>1, <2>2
    <2>4. c \in Seq(Cell) /\ Len(c) = Len(b.cells)
        BY <2>2, <2>3, CellsSeq
    <2>5. \A i \in 1..n : c[i] # NoObject
        BY <1>1, <1>6
    <2>6. n <= Len(b.cells)
        BY <1>6, <2>2
    <2> HIDE DEF c
    <2>7. /\ Accounted(w) /\ w.cells = c /\ w.broken = b.broken
          /\ w.capacity = b.capacity /\ w.count = n
        <3> DEFINE y == [u EXCEPT !.cells = c]
        <3>1. /\ Accounted(y) /\ y.cells = c /\ y.broken = u.broken
              /\ y.capacity = u.capacity /\ y.count = u.count
            BY <1>4, CellsField
        <3>2. w = y
            BY <2>1
        <3> HIDE DEF y
        <3> QED
            BY <1>4, <3>1, <3>2
    <2>8. ~b.broken => Full(w)
        BY <1>3, <2>4, <2>5, <2>6, <2>7 DEF Full
    <2>9. Tight(b) => Tight(w)
        BY <2>4, <2>7 DEF Tight
    <2> QED
        BY <2>7, <2>8, <2>9
<1>7. ASSUME ~(\A i \in 1..n : i \in DOMAIN u.cells /\ x[i] # NoObject)
      PROVE  w.broken
    <2>1. w = [u EXCEPT !.broken = TRUE]
        BY <1>1, <1>5, <1>7 DEF constructEach
    <2> QED
        BY <1>4, <2>1, BrokenField
<1>8. Full(w) \/ w.broken
    BY <1>6, <1>7
<1>9. ASSUME /\ v.count = 0 /\ ~OnHeap(v) /\ Tight(v)
             /\ other.count <= Len(other.cells)
             /\ \A i \in 1..other.count : other.cells[i] # NoObject
      PROVE  Full(w) /\ Tight(w)
    <2>1. a.cells = v.cells /\ Tight(a)
        BY <1>2, <1>9 DEF Tight
    <2>2. Full(a)
        BY <1>0, <1>2, <1>9, <2>1 DEF Full
    <2>3. Full(b) /\ Tight(b) /\ n <= Len(b.cells)
        BY <2>1, <2>2, ReserveCells DEF b
    <2>4. \A i \in 1..n : i \in DOMAIN u.cells /\ x[i] # NoObject
        <3>1. DOMAIN u.cells = 1..Len(b.cells) /\ Len(b.cells) \in Nat /\ Len(other.cells) \in Nat
            BY <1>3, <1>4, SeqCells
        <3>2. \A i \in 1..n : i \in 1..Len(b.cells) /\ i <= Len(other.cells)
            BY <1>9, <2>3, <3>1
        <3> QED
            BY <1>1, <1>9, <3>1, <3>2
    <2>5. ~b.broken
        BY <2>3 DEF Full
    <2> QED
        BY <1>6, <2>3, <2>4, <2>5
<1> QED
    BY <1>8, <1>9 DEF w

LEMMA EmptyFull ==
    Full(Empty) /\ Tight(Empty) /\ Empty.count = 0 /\ ~OnHeap(Empty)
<1>1. BaseCapacity \in Nat
    BY VectorAssumption
<1> DEFINE c == [i \in 1..BaseCapacity |-> NoObject]
<1>2. c \in [1..BaseCapacity -> Cell]
    BY DEF Cell
<1>3. c \in Seq(Cell) /\ Len(c) = BaseCapacity
    BY <1>1, <1>2, CellsSeq
<1>4. Empty.cells = c
    BY DEF Empty
<1> HIDE DEF c
<1>5. /\ Empty.count = 0 /\ Empty.capacity = BaseCapacity /\ ~Empty.broken
      /\ Empty.allocation = NoAllocation
    BY DEF Empty
<1> QED
    BY <1>1, <1>3, <1>4, <1>5, EmptyAccounted DEF Full, Tight, OnHeap

LEMMA CopiedFull ==
    ASSUME NEW other, Full(other)
    PROVE  Full(copied(other)) /\ Tight(copied(other))
<1>1. /\ other.count \in Nat /\ other.cells \in Seq(Cell)
      /\ other.count <= Len(other.cells)
      /\ \A i \in 1..other.count : other.cells[i] # NoObject
    BY DEF Full, Accounted, IsVector
<1> QED
    BY <1>1, EmptyFull, AssignKeeps DEF copied

LEMMA PushedKeeps ==
    ASSUME NEW v, Full(v), NEW xs \in Seq(Nat), NEW skip
    PROVE  Keeps(pushed(v, xs, skip), v)
<1>0. Len(xs) \in Nat /\ \A n \in 1..Len(xs) : xs[n] \in Nat
    BY SeqCells
<1>1. PICK f : IsPushing(f, v, xs, skip) /\ pushed(v, xs, skip) = f[Len(xs)]
    BY <1>0, PushedRecursion
<1> DEFINE S == {n \in Nat : n <= Len(xs) => Keeps(f[n], v)}
<1>2. S = Nat
    <2>1. 0 \in S
        BY <1>1 DEF IsPushing, Keeps, Full
    <2>2. ASSUME NEW n \in S PROVE n + 1 \in S
        <3> SUFFICES ASSUME n + 1 <= Len(xs) PROVE Keeps(f[n + 1], v)
            OBVIOUS
        <3>1. n + 1 \in 1..Len(xs) /\ (n + 1) - 1 = n /\ n <= Len(xs)
            BY <1>0
        <3>2. Keeps(f[n], v)
            BY <3>1
        <3>3. f[n + 1] = f[n] \/ f[n + 1] = push_back(f[n], xs[n + 1])
            BY <1>1, <3>1 DEF IsPushing
        <3>4. CASE f[n + 1] = f[n]
            BY <3>2, <3>4
        <3>5. CASE f[n + 1] = push_back(f[n], xs[n + 1]) /\ Full(f[n])
            <4>1. Keeps(f[n + 1], f[n])
                BY <1>0, <3>1, <3>5, PushBackKeeps
            <4> QED
                BY <3>2, <4>1 DEF Keeps
        <3>6. CASE f[n + 1] = push_back(f[n], xs[n + 1]) /\ ~Full(f[n])
            <4>1. Accounted(f[n]) /\ f[n].broken /\ ~Tight(v)
                BY <3>2, <3>6 DEF Keeps
            <4>2. Accounted(f[n + 1]) /\ f[n + 1].broken
                BY <3>6, <4>1, PushBackAccounted, PushBackBroken
            <4> QED
                BY <4>1, <4>2 DEF Keeps
        <3> QED
            BY <3>3, <3>4, <3>5, <3>6
    <2>3. S \subseteq Nat
        OBVIOUS
    <2> HIDE DEF S
    <2> QED
        BY <2>1, <2>2, <2>3, Induction
<1>3. Len(xs) \in S
    BY <1>0, <1>2
<1> QED
    BY <1>0, <1>1, <1>3

\* The ranks of the elements are their places: sort() loses and doubles nothing.
LEMMA Ranks ==
    ASSUME NEW n \in Nat, NEW s \in [1..n -> Nat]
    PROVE  /\ \A i, j \in 1..n : rank(s, i) = rank(s, j) => i = j
           /\ \A i \in 1..n : rank(s, i) \in 1..n
           /\ \A k \in 1..n : \E i \in 1..n : rank(s, i) = k
<1> DEFINE B(i) == {j \in 1..n : s[j] < s[i] \/ (s[j] = s[i] /\ j <= i)}
<1>1. DOMAIN s = 1..n /\ \A i \in 1..n : s[i] \in Nat
    OBVIOUS
<1>2. \A i \in 1..n : rank(s, i) = Cardinality(B(i))
    BY <1>1 DEF rank
<1>3. IsFiniteSet(1..n) /\ Cardinality(1..n) = n
    BY FS_Interval
<1>4. ASSUME NEW i \in 1..n
      PROVE  /\ IsFiniteSet(B(i)) /\ Cardinality(B(i)) \in 1..n
    <2>1. B(i) \subseteq 1..n /\ i \in B(i)
        BY <1>1
    <2> HIDE DEF B
    <2>2. IsFiniteSet(B(i)) /\ Cardinality(B(i)) <= n
        BY <1>3, <2>1, FS_Subset
    <2>3. Cardinality(B(i)) \in Nat /\ Cardinality(B(i)) # 0
        BY <2>1, <2>2, FS_CardinalityType, FS_EmptySet
    <2> QED
        BY <2>2, <2>3
<1>5. ASSUME NEW i \in 1..n, NEW j \in 1..n, s[j] < s[i] \/ (s[j] = s[i] /\ j < i)
      PROVE  Cardinality(B(j)) # Cardinality(B(i))
    <2>1. B(j) \subseteq B(i) /\ i \in B(i) /\ i \notin B(j)
        BY <1>1, <1>5
    <2> HIDE DEF B
    <2> QED
        BY <1>4, <2>1, FS_Subset
<1>6. ASSUME NEW i \in 1..n, NEW j \in 1..n, i # j
      PROVE  Cardinality(B(j)) # Cardinality(B(i))
    <2>1. \/ s[j] < s[i] \/ (s[j] = s[i] /\ j < i)
          \/ s[i] < s[j] \/ (s[i] = s[j] /\ i < j)
        BY <1>1, <1>6
    <2> HIDE DEF B
    <2> QED
        BY <1>5, <2>1
<1> DEFINE r == [i \in 1..n |-> rank(s, i)]
<1>7. r \in Injection(1..n, 1..n)
    <2> HIDE DEF B
    <2>1. \A i \in 1..n : r[i] \in 1..n
        BY <1>2, <1>4
    <2>2. \A i, j \in 1..n : i # j => r[i] # r[j]
        BY <1>2, <1>6
    <2> QED
        BY <2>1, <2>2 DEF Injection, IsInjective
<1>8. r \in Surjection(1..n, 1..n)
    BY <1>3, <1>7, FS_Injection
<1>9. \A k \in 1..n : \E i \in 1..n : r[i] = k
    BY <1>8 DEF Surjection
<1> HIDE DEF B
<1> QED
    BY <1>2, <1>4, <1>6, <1>9

LEMMA InOrder ==
    ASSUME NEW n \in Nat, NEW s \in [1..n -> Nat]
    PROVE  /\ inOrder(s) \in [1..n -> Nat]
           /\ \E q \in [1..n -> 1..n] :
                 /\ \A k \in 1..n : inOrder(s)[k] = s[q[k]] /\ rank(s, q[k]) = k
<1> DEFINE q == [k \in 1..n |-> CHOOSE i \in 1..n : rank(s, i) = k]
<1>1. DOMAIN s = 1..n
    OBVIOUS
<1>2. ASSUME NEW k \in 1..n PROVE q[k] \in 1..n /\ rank(s, q[k]) = k
    <2>1. \E i \in 1..n : rank(s, i) = k
        BY Ranks
    <2> QED
        BY <2>1
<1>3. q \in [1..n -> 1..n]
    BY <1>2
<1>4. \A k \in 1..n : inOrder(s)[k] = s[q[k]]
    BY <1>1 DEF inOrder
<1>5. inOrder(s) = [k \in 1..n |-> inOrder(s)[k]]
    BY <1>1 DEF inOrder
<1> HIDE DEF q
<1> QED
    BY <1>2, <1>3, <1>4, <1>5

LEMMA ObjectsFull ==
    ASSUME NEW v, Full(v)
    PROVE  /\ objects(v) \in [1..v.count -> Nat]
           /\ objects(v) \in Seq(Nat)
           /\ v.count \in Nat
           /\ \A i \in 1..v.count : objects(v)[i] = v.cells[i]
<1>1. v.count \in Nat
    BY DEF Full, Accounted, IsVector
<1>2. \A i \in 1..v.count : i \in DOMAIN v.cells /\ v.cells[i] \in Nat
    BY <1>1, SeqCells DEF Full, Cell
<1>3. objects(v) \in [1..v.count -> Nat]
    BY <1>2 DEF objects
<1>4. \A i \in 1..v.count : objects(v)[i] = v.cells[i]
    BY <1>2 DEF objects
<1> QED
    BY <1>1, <1>3, <1>4, CellsSeq

LEMMA SortedFull ==
    ASSUME NEW v, Full(v)
    PROVE  LET w == sorted(v)
           IN  /\ Full(w) /\ w.count = v.count /\ (Tight(v) => Tight(w))
               /\ \A i \in 1..v.count : w.cells[i] = inOrder(objects(v))[i]
<1> DEFINE s == inOrder(objects(v))
           c == [i \in DOMAIN v.cells |-> IF i \in DOMAIN s THEN s[i] ELSE v.cells[i]]
           w == sorted(v)
<1>0. Accounted(v) /\ v.count \in Nat /\ v.cells \in Seq(Cell) /\ ~v.broken
    BY DEF Full, Accounted, IsVector
<1>1. w = [v EXCEPT !.cells = c]
    BY <1>0 DEF sorted
<1>2. s \in [1..v.count -> Nat]
    BY ObjectsFull, InOrder
<1> HIDE DEF s
<1>3. /\ DOMAIN v.cells = 1..Len(v.cells) /\ Len(v.cells) \in Nat
      /\ \A i \in 1..Len(v.cells) : v.cells[i] \in Cell
    BY <1>0, SeqCells
<1>4. c \in [1..Len(v.cells) -> Cell]
    BY <1>2, <1>3 DEF Cell
<1>5. c \in Seq(Cell) /\ Len(c) = Len(v.cells)
    BY <1>3, <1>4, CellsSeq
<1>6. \A i \in 1..v.count : c[i] = s[i] /\ s[i] # NoObject
    BY <1>0, <1>2, <1>3, ThreadAssumption DEF Full
<1> HIDE DEF c, w
<1>7. /\ Accounted(w) /\ w.cells = c /\ w.count = v.count /\ ~w.broken
      /\ w.capacity = v.capacity
    BY <1>0, <1>1, CellsField
<1> QED
    BY <1>5, <1>6, <1>7 DEF Full, Tight, w, s

LEMMA SortedKeeps ==
    ASSUME NEW w, NEW v, Keeps(w, v)
    PROVE  Keeps(sorted(w), v)
<1>1. CASE w.broken
    BY <1>1 DEF sorted
<1>2. CASE Full(w)
    BY <1>2, SortedFull DEF Keeps, Full
<1> QED
    BY <1>1, <1>2 DEF Keeps

LEMMA RemovedAtFull ==
    ASSUME NEW v, Full(v), NEW i \in 1..v.count
    PROVE  LET w == removedAt(v, i)
           IN  /\ Full(w) /\ w.count = v.count - 1 /\ (Tight(v) => Tight(w))
               /\ \A j \in 1..(v.count - 1) :
                     w.cells[j] = IF j = i THEN v.cells[v.count] ELSE v.cells[j]
<1> DEFINE x == v.cells[v.count]
           u == construct(v, i, x)
<1>0. Accounted(v) /\ v.count \in Nat /\ v.cells \in Seq(Cell) /\ ~v.broken
    BY DEF Full, Accounted, IsVector
<1>1. Len(v.cells) \in Nat /\ v.count <= Len(v.cells) /\ Len(v.cells) <= v.capacity
    BY <1>0, SeqCells DEF Full
<1>2. x \in Nat
    BY <1>0, <1>1, SeqCells DEF Full, Cell
<1>3. /\ ~u.broken /\ u.cells \in Seq(Cell) /\ Len(u.cells) = Len(v.cells)
      /\ u.cells[i] = x
      /\ \A j \in 1..Len(v.cells) : j # i => u.cells[j] = v.cells[j]
    <2>1. i \in 1..Len(v.cells)
        BY <1>0, <1>1
    <2> HIDE DEF x
    <2> QED
        BY <1>0, <1>2, <2>1, ConstructCells
<1>4. Accounted(u) /\ u.count = v.count
    BY <1>0, ConstructAccounted DEF Same
<1>5. u.capacity = v.capacity
    <2> DEFINE c == [v.cells EXCEPT ![i] = x]
    <2>1. [v EXCEPT !.cells[i] = x] = [v EXCEPT !.cells = c]
        OBVIOUS
    <2>2. u = [v EXCEPT !.cells = c] \/ u = [v EXCEPT !.broken = TRUE]
        BY <2>1 DEF construct
    <2> HIDE DEF c, u
    <2>3. [v EXCEPT !.broken = TRUE].capacity = v.capacity
        BY <1>0 DEF Accounted, IsVector
    <2>4. [v EXCEPT !.cells = c].capacity = v.capacity
        BY <1>0, CellsField
    <2> QED
        BY <2>2, <2>3, <2>4
<1> HIDE DEF u
<1>6. x # NoObject
    BY <1>2, ThreadAssumption
<1> HIDE DEF x
<1>7. Full(u)
    <2>1. \A j \in 1..u.count : u.cells[j] # NoObject
        BY <1>0, <1>1, <1>3, <1>4, <1>6 DEF Full
    <2> QED
        BY <1>1, <1>3, <1>4, <1>5, <2>1 DEF Full
<1>8. v.count - 1 \in Nat /\ v.count - 1 <= u.count
    BY <1>0, <1>4
<1> DEFINE w == removedAt(v, i)
<1>9. w = resize(u, v.count - 1, Core)
    BY DEF removedAt, u, x
<1> HIDE DEF w
<1>10. /\ Full(w) /\ w.count = v.count - 1 /\ (Tight(u) => Tight(w))
       /\ \A j \in 1..(v.count - 1) : w.cells[j] = u.cells[j]
    BY <1>7, <1>8, <1>9, ShrinkFull
<1>11. Tight(v) => Tight(u)
    BY <1>3, <1>5 DEF Tight
<1>12. \A j \in 1..(v.count - 1) : w.cells[j] = IF j = i THEN x ELSE v.cells[j]
    BY <1>0, <1>1, <1>3, <1>10
<1> QED
    BY <1>10, <1>11, <1>12 DEF w, x

LEMMA RemovedFull ==
    ASSUME NEW v, Full(v), NEW other
    PROVE  LET w == removed(v, other)
           IN  Full(w) /\ (Tight(v) => Tight(w))
<1>0. v.count \in Nat
    BY DEF Full, Accounted, IsVector
<1>1. PICK f : IsRemoving(f, v, other) /\ removed(v, other) = sorted(f[v.count])
    BY <1>0, RemovedRecursion
<1> DEFINE S == {n \in Nat : n <= v.count => Full(f[n]) /\ (Tight(v) => Tight(f[n]))}
<1>2. S = Nat
    <2>1. 0 \in S
        BY <1>1 DEF IsRemoving
    <2>2. ASSUME NEW n \in S PROVE n + 1 \in S
        <3> SUFFICES ASSUME n + 1 <= v.count
                     PROVE  Full(f[n + 1]) /\ (Tight(v) => Tight(f[n + 1]))
            OBVIOUS
        <3>1. n + 1 \in 1..v.count /\ (n + 1) - 1 = n /\ n <= v.count
            BY <1>0
        <3>2. Full(f[n]) /\ (Tight(v) => Tight(f[n]))
            BY <3>1
        <3>3. f[n + 1] = IF n + 1 <= f[n].count /\ f[n].cells[n + 1] \in Range(objects(other))
                         THEN removedAt(f[n], n + 1) ELSE f[n]
            BY <1>1, <3>1 DEF IsRemoving
        <3>4. f[n].count \in Nat
            BY <3>2 DEF Full, Accounted, IsVector
        <3>5. n + 1 <= f[n].count => n + 1 \in 1..f[n].count
            BY <3>4
        <3> QED
            BY <3>2, <3>3, <3>5, RemovedAtFull
    <2>3. S \subseteq Nat
        OBVIOUS
    <2> HIDE DEF S
    <2> QED
        BY <2>1, <2>2, <2>3, Induction
<1>3. Full(f[v.count]) /\ (Tight(v) => Tight(f[v.count]))
    BY <1>0, <1>2
<1> QED
    BY <1>1, <1>3, SortedFull

LEMMA ListedFull ==
    ASSUME NEW list \in Seq(Nat)
    PROVE  Full(listed(list)) /\ Tight(listed(list))
<1>1. Len(list) \in Nat
    BY SeqCells
<1> DEFINE w == reserve(Empty, Len(list))
<1>2. Full(w) /\ Tight(w)
    BY <1>1, EmptyFull, ReserveCells
<1>3. listed(list) = pushed(w, list, {})
    BY DEF listed
<1> HIDE DEF w
<1> QED
    BY <1>2, <1>3, PushedKeeps DEF Keeps

LEMMA AllFull == Full(all) /\ Tight(all)
<1> DEFINE xs == [i \in 1..Available |-> i - 1]
<1>1. xs \in [1..Available -> Nat]
    BY ThreadAssumption
<1>2. xs \in Seq(Nat)
    BY <1>1, CellsSeq, ThreadAssumption
<1>3. all = pushed(Empty, xs, {})
    BY DEF all
<1> HIDE DEF xs
<1> QED
    BY <1>2, <1>3, EmptyFull, PushedKeeps DEF Keeps

LEMMA OneOfFull ==
    ASSUME NEW v, Full(v), NEW threadId \in Nat
    PROVE  Full(oneOf(v, threadId)) /\ Tight(oneOf(v, threadId))
<1>0. v.count \in Nat
    BY ObjectsFull
<1>1. CASE v.count = 0
    BY <1>1, CopiedFull DEF oneOf
<1>2. CASE v.count # 0
    <2> DEFINE i == (threadId % v.count) + 1
    <2>1. i \in 1..v.count
        BY <1>0, <1>2
    <2> HIDE DEF i
    <2>2. v.cells[i] \in Nat
        BY <2>1, ObjectsFull
    <2>3. <<v.cells[i]>> \in Seq(Nat)
        BY <2>2
    <2>4. oneOf(v, threadId) = listed(<<v.cells[i]>>)
        BY <1>2 DEF oneOf, i
    <2> QED
        BY <2>3, <2>4, ListedFull
<1> QED
    BY <1>1, <1>2

LEMMA AddedKeeps ==
    ASSUME NEW v, Full(v), NEW other, Full(other)
    PROVE  Keeps(added(v, other), v)
    BY ObjectsFull, PushedKeeps, SortedKeeps DEF added

-----------------------------------------------------------------------------
(* Thread: no vector breaks unless it is assigned to. *)

\* A vector a program may use is full.
UsableAreFull == \A o \in Owners : cores[o].alive => cores[o].broken \/ Full(cores[o])

LEMMA UsableFull ==
    ASSUME UsableAreFull, NEW o \in Owners, Usable(o)
    PROVE  cores[o].alive /\ Full(cores[o])
    BY DEF UsableAreFull, Usable

\* What a vector becomes in a step: what it was, gone, something new that is in
\* order, the outcome of an operation that keeps the order, or of an assignment.
Ordered(v) == Full(v) /\ Tight(v)

Outcome(o, v, w) ==
    \/ w = v
    \/ ~w.alive /\ ~w.broken
    \/ Ordered(w)
    \/ v.alive /\ Full(v) /\ Keeps(w, v)
    \/ /\ Full(w) \/ w.broken
       /\ v.count > 0 \/ OnHeap(v)
       /\ \E p \in Objects : Assign(o, p)

LEMMA BecomesOutcome ==
    ASSUME ThreadInv, NEW o \in Objects, NEW v, Becomes(o, v), Outcome(o, cores[o], v)
    PROVE  \A x \in Owners : Outcome(x, cores[x], cores'[x])
<1>1. \A x \in Owners : cores'[x] = IF x = o THEN v ELSE cores[x]
    BY OwnersApart DEF ThreadInv, VectorsAccounted, Becomes
<1> QED
    BY <1>1 DEF Outcome

LEMMA DestroyedOutcome ==
    ASSUME NEW v PROVE ~destroyed(v).alive /\ ~destroyed(v).broken
    BY DEF destroyed, Gone

LEMMA EmptiedKeeps ==
    ASSUME NEW v, Full(v) PROVE Keeps(resize(v, 0, Core), v)
<1>1. 0 \in Nat /\ 0 <= v.count
    BY ObjectsFull
<1> QED
    BY <1>1, ShrinkFull DEF Keeps, Full

LEMMA AffinityOutcomes ==
    ASSUME ThreadInv, UsableAreFull,
           NEW o \in Objects, NEW p \in Objects,
           \/ Construct(o) \/ Destroy(o) \/ Copy(o, p) \/ Move(o, p) \/ Assign(o, p)
           \/ AddCores(o, p) \/ RemoveCores(o, p)
           \/ \E threadId \in ThreadIds : GetOneOf(o, p, threadId)
    PROVE  \A x \in Owners : Outcome(x, cores[x], cores'[x])
<1>0. /\ Usable(o) => cores[o].alive /\ Full(cores[o])
      /\ Usable(p) => cores[p].alive /\ Full(cores[p])
    BY OwnersApart, UsableFull
<1>1. CASE Construct(o)
    <2>1. PICK v \in {Empty, all} \cup {listed(l) : l \in Lists} : Becomes(o, v)
        BY <1>1 DEF Construct
    <2>2. \A l \in Lists : Ordered(listed(l))
        BY ListedFull, ThreadAssumption DEF Ordered
    <2>3. Ordered(v)
        BY <2>2, EmptyFull, AllFull DEF Ordered
    <2> QED
        BY <2>1, <2>3, BecomesOutcome DEF Outcome
<1>2. CASE Destroy(o)
    BY <1>2, DestroyedOutcome, BecomesOutcome DEF Destroy, Outcome
<1>3. CASE Copy(o, p)
    BY <1>0, <1>3, CopiedFull, BecomesOutcome DEF Copy, Outcome, Ordered
<1>4. CASE Move(o, p)
    <2>1. /\ cores' = [cores EXCEPT ![o] = copied(cores[p]), ![p] = resize(cores[p], 0, Core)]
          /\ o # p /\ Usable(p)
        BY <1>4 DEF Move, Free, Usable
    <2>2. \A x \in Owners : cores'[x] = IF x = p THEN resize(cores[p], 0, Core)
                                        ELSE IF x = o THEN copied(cores[p]) ELSE cores[x]
        BY <2>1, OwnersApart DEF ThreadInv, VectorsAccounted
    <2>3. cores[p].alive /\ Full(cores[p])
        BY <1>0, <2>1
    <2>4. Ordered(copied(cores[p])) /\ Keeps(resize(cores[p], 0, Core), cores[p])
        BY <2>3, CopiedFull, EmptiedKeeps DEF Ordered
    <2> QED
        BY <2>2, <2>3, <2>4 DEF Outcome
<1>5. CASE Assign(o, p)
    <2> DEFINE source == IF o = p THEN free_(cores[o]) ELSE cores[p]
               target == assign(cores[o], source)
    <2>1. /\ cores' = IF o = p THEN [cores EXCEPT ![o] = target]
                      ELSE [cores EXCEPT ![o] = target, ![p] = resize(cores[p], 0, Core)]
          /\ Usable(o) /\ Usable(p)
        BY <1>5 DEF Assign
    <2> HIDE DEF target
    <2>2. \A x \in Owners : cores'[x] = IF x = o THEN target
                                        ELSE IF x = p THEN resize(cores[p], 0, Core)
                                        ELSE cores[x]
        BY <2>1, OwnersApart DEF ThreadInv, VectorsAccounted
    <2>3. cores[o].alive /\ Full(cores[o]) /\ cores[p].alive /\ Full(cores[p])
        BY <1>0, <2>1
    <2>4. /\ source.count \in Nat /\ source.cells \in Seq(Cell)
          /\ cores[o].count = 0 =>
                /\ source.count <= Len(source.cells)
                /\ \A i \in 1..source.count : source.cells[i] # NoObject
        <3>1. CASE o = p
            <4>1. Accounted(cores[o]) /\ cores[o].count \in Nat
                BY <2>3, ObjectsFull DEF Full
            <4>2. source = free_(cores[o])
                BY <3>1
            <4>3. source.count = cores[o].count /\ source.cells \in Seq(Cell)
                BY <2>3, <4>1, <4>2, FreeAccounted, FreeCells
            <4> HIDE DEF source
            <4> QED
                BY <4>1, <4>3, SeqCells
        <3>2. CASE o # p
            BY <2>3, <3>2, ObjectsFull DEF Full
        <3> QED
            BY <3>1, <3>2
    <2> HIDE DEF source
    <2>5. /\ Full(target) \/ target.broken
          /\ (cores[o].count = 0 /\ ~OnHeap(cores[o]) /\ Tight(cores[o])) => Ordered(target)
        BY <2>3, <2>4, AssignKeeps DEF target, Ordered
    <2>6. Keeps(resize(cores[p], 0, Core), cores[p])
        BY <2>3, EmptiedKeeps
    <2>7. cores[o].count > 0 \/ cores[o].count = 0
        BY <2>3, ObjectsFull
    <2>8. Outcome(o, cores[o], target)
        <3>1. Accounted(target)
            BY <2>3, <2>4, AssignAccounted DEF target, Full
        <3>2. CASE ~Tight(cores[o])
            BY <2>3, <2>5, <3>1, <3>2 DEF Outcome, Keeps
        <3>3. CASE Tight(cores[o]) /\ cores[o].count = 0 /\ ~OnHeap(cores[o])
            BY <2>5, <3>3 DEF Outcome
        <3>4. CASE cores[o].count > 0 \/ OnHeap(cores[o])
            BY <1>5, <2>5, <3>4 DEF Outcome
        <3> QED
            BY <2>7, <3>2, <3>3, <3>4
    <2> QED
        BY <2>2, <2>3, <2>6, <2>8 DEF Outcome
<1>6. CASE AddCores(o, p)
    BY <1>0, <1>6, AddedKeeps, BecomesOutcome DEF AddCores, Outcome
<1>7. CASE RemoveCores(o, p)
    BY <1>0, <1>7, RemovedFull, BecomesOutcome DEF RemoveCores, Outcome, Keeps, Full
<1>8. ASSUME NEW threadId \in ThreadIds, GetOneOf(o, p, threadId)
      PROVE  \A x \in Owners : Outcome(x, cores[x], cores'[x])
    <2>1. threadId \in Nat
        BY ThreadAssumption
    <2> QED
        BY <1>0, <1>8, <2>1, OneOfFull, BecomesOutcome DEF GetOneOf, Outcome, Ordered
<1> QED
    BY <1>1, <1>2, <1>3, <1>4, <1>5, <1>6, <1>7, <1>8

LEMMA StartOutcomes ==
    ASSUME ThreadInv, UsableAreFull, NEW h \in Handles, NEW i \in Impls,
           StartAll(h, i) \/ \E o \in Objects : Start(h, i, o)
    PROVE  \A x \in Owners : Outcome(x, cores[x], cores'[x])
<1>1. CASE StartAll(h, i)
    <2>1. cores' = [cores EXCEPT ![i] = copied(all)]
        BY <1>1 DEF StartAll
    <2>2. \A x \in Owners : cores'[x] = IF x = i THEN copied(all) ELSE cores[x]
        BY <2>1, OwnersApart DEF ThreadInv, VectorsAccounted
    <2>3. Ordered(copied(all))
        BY AllFull, CopiedFull DEF Ordered
    <2> QED
        BY <2>2, <2>3 DEF Outcome
<1>2. ASSUME NEW o \in Objects, Start(h, i, o)
      PROVE  \A x \in Owners : Outcome(x, cores[x], cores'[x])
    <2>1. o # i /\ Usable(o)
        BY <1>2, OwnersApart DEF Start
    <2>2. cores' = [cores EXCEPT ![i] = copied(cores[o]), ![o] = resize(cores[o], 0, Core)]
        BY <1>2, <2>1 DEF Start
    <2>3. \A x \in Owners : cores'[x] = IF x = o THEN resize(cores[o], 0, Core)
                                        ELSE IF x = i THEN copied(cores[o]) ELSE cores[x]
        BY <2>1, <2>2, OwnersApart DEF ThreadInv, VectorsAccounted
    <2>4. cores[o].alive /\ Full(cores[o])
        BY <2>1, OwnersApart, UsableFull
    <2>5. Ordered(copied(cores[o])) /\ Keeps(resize(cores[o], 0, Core), cores[o])
        BY <2>4, CopiedFull, EmptiedKeeps DEF Ordered
    <2> QED
        BY <2>3, <2>4, <2>5 DEF Outcome
<1> QED
    BY <1>1, <1>2

LEMMA Outcomes ==
    ASSUME ThreadInv, UsableAreFull, [Next]_vars
    PROVE  \A x \in Owners : Outcome(x, cores[x], cores'[x])
<1>1. ASSUME UNCHANGED cores PROVE \A x \in Owners : Outcome(x, cores[x], cores'[x])
    BY <1>1 DEF Outcome
<1>2. ASSUME NEW i \in Impls, Pin(i) \/ Finish(i) PROVE UNCHANGED cores
    BY <1>2 DEF Pin, Finish
<1>3. ASSUME NEW h \in Handles, NEW g \in Handles,
             DropHandle(h) \/ MoveHandle(h, g) \/ AssignHandle(h, g)
      PROVE  UNCHANGED cores
    BY <1>3 DEF DropHandle, MoveHandle, AssignHandle
<1>4. ASSUME NEW h \in Handles, Join(h)
      PROVE  \A x \in Owners : Outcome(x, cores[x], cores'[x])
    <2>1. cores' = [cores EXCEPT ![impl[h]] = destroyed(cores[impl[h]])]
        BY <1>4 DEF Join
    <2>2. \A x \in Owners : cores'[x] = cores[x] \/ cores'[x] = destroyed(cores[x])
        BY <2>1 DEF ThreadInv, VectorsAccounted
    <2> QED
        BY <2>2, DestroyedOutcome DEF Outcome
<1>5. CASE Next
    BY <1>1, <1>2, <1>3, <1>4, <1>5, AffinityOutcomes, StartOutcomes DEF Next
<1>6. CASE UNCHANGED vars
    BY <1>1, <1>6 DEF vars
<1> QED
    BY <1>5, <1>6

LEMMA UsableInvariant == Spec => []UsableAreFull
<1>1. Init => UsableAreFull
    BY DEF Init, UsableAreFull, Gone
<1>2. ThreadInv /\ UsableAreFull /\ [Next]_vars => UsableAreFull'
    <2> SUFFICES ASSUME ThreadInv, UsableAreFull, [Next]_vars, NEW x \in Owners, cores'[x].alive
                 PROVE  cores'[x].broken \/ Full(cores'[x])
        BY DEF UsableAreFull
    <2>1. Outcome(x, cores[x], cores'[x])
        BY Outcomes
    <2> QED
        BY <2>1 DEF Outcome, Ordered, Keeps, UsableAreFull
<1> QED
    BY <1>1, <1>2, ThreadInvariant, PTL DEF Spec

\* The only way to a vector that lost its storage or counts objects that are not
\* there is to assign to one that had elements, or storage from the heap: free()
\* does not tell reserve() (containers.hpp:316).
THEOREM VectorsBreakByAssignment == Spec => OnlyReassignmentBreaks
<1>1. ThreadInv /\ UsableAreFull /\ [Next]_vars =>
        \A o \in Owners : Sound(cores[o]) /\ ~Sound(cores'[o]) =>
            /\ cores[o].count > 0 \/ OnHeap(cores[o])
            /\ \E p \in Objects : Assign(o, p)
    <2> SUFFICES ASSUME ThreadInv, UsableAreFull, [Next]_vars, NEW o \in Owners,
                        Sound(cores[o]), ~Sound(cores'[o])
                 PROVE  /\ cores[o].count > 0 \/ OnHeap(cores[o])
                        /\ \E p \in Objects : Assign(o, p)
        OBVIOUS
    <2>1. Outcome(o, cores[o], cores'[o])
        BY Outcomes
    <2> QED
        BY <2>1 DEF Outcome, Ordered, Keeps, Full, Tight, Sound
<1> QED
    BY <1>1, ThreadInvariant, UsableInvariant, PTL DEF Spec, OnlyReassignmentBreaks

-----------------------------------------------------------------------------
(* What remove() keeps and what it removes. *)

Places(c, v) == {i \in 1..v.count : v.cells[i] = c}

LEMMA OccursPlaces ==
    ASSUME NEW v, v.count \in Nat, NEW c
    PROVE  /\ Occurs(c, v) = Cardinality(Places(c, v))
           /\ IsFiniteSet(Places(c, v))
           /\ Occurs(c, v) \in Nat
           /\ Occurs(c, v) > 0 <=> Places(c, v) # {}
<1>1. Occurs(c, v) = Cardinality(Places(c, v))
    BY Zenon DEF Occurs, Places
<1>2. IsFiniteSet(1..v.count)
    BY FS_Interval
<1>3. Places(c, v) \subseteq 1..v.count
    BY DEF Places
<1>4. IsFiniteSet(Places(c, v))
    BY <1>2, <1>3, FS_Subset
<1>5. Cardinality(Places(c, v)) \in Nat
    BY <1>4, FS_CardinalityType
<1>6. Cardinality(Places(c, v)) = 0 <=> Places(c, v) = {}
    BY <1>4, FS_EmptySet
<1> QED
    BY <1>1, <1>4, <1>5, <1>6

LEMMA OccursSorted ==
    ASSUME NEW v, Full(v), NEW c
    PROVE  Occurs(c, sorted(v)) = Occurs(c, v)
<1> DEFINE n == v.count
           s == objects(v)
           w == sorted(v)
<1>1. n \in Nat /\ s \in [1..n -> Nat] /\ \A i \in 1..n : s[i] = v.cells[i]
    BY ObjectsFull
<1>2. w.count = n /\ \A i \in 1..n : w.cells[i] = inOrder(s)[i]
    BY SortedFull
<1> HIDE DEF n, s, w
<1>3. PICK q \in [1..n -> 1..n] : \A k \in 1..n : inOrder(s)[k] = s[q[k]] /\ rank(s, q[k]) = k
    BY <1>1, InOrder
<1>4. /\ \A i, j \in 1..n : rank(s, i) = rank(s, j) => i = j
      /\ \A i \in 1..n : rank(s, i) \in 1..n
    BY <1>1, Ranks
<1> DEFINE A == Places(c, w)
           B == Places(c, v)
           g == [k \in A |-> q[k]]
<1>5. /\ A = {k \in 1..n : w.cells[k] = c}
      /\ B = {i \in 1..n : v.cells[i] = c}
    BY <1>2 DEF Places, n
<1> HIDE DEF A, B
<1>6. g \in [A -> B]
    BY <1>1, <1>2, <1>3, <1>5
<1>7. \A j, k \in A : g[j] = g[k] => j = k
    BY <1>3, <1>5
<1>8. ASSUME NEW i \in B PROVE \E k \in A : g[k] = i
    <2> DEFINE k == rank(s, i)
    <2>1. i \in 1..n /\ v.cells[i] = c
        BY <1>5
    <2>2. k \in 1..n /\ rank(s, q[k]) = k /\ q[k] \in 1..n
        BY <1>3, <1>4, <2>1
    <2>3. q[k] = i
        BY <1>4, <2>1, <2>2
    <2>4. w.cells[k] = c
        BY <1>1, <1>2, <1>3, <2>1, <2>2, <2>3
    <2>5. k \in A
        BY <1>5, <2>2, <2>4
    <2> QED
        BY <2>3, <2>5
<1>9. g \in Bijection(A, B)
    <2> HIDE DEF g
    <2>1. g \in Injection(A, B)
        BY <1>6, <1>7 DEF Injection, IsInjective
    <2>2. g \in Surjection(A, B)
        BY <1>6, <1>8 DEF Surjection
    <2> QED
        BY <2>1, <2>2 DEF Bijection
<1>10. IsFiniteSet(A)
    BY <1>1, <1>2, OccursPlaces DEF A
<1>11. Cardinality(A) = Cardinality(B)
    BY <1>9, <1>10, FS_Bijection DEF ExistsBijection
<1> QED
    BY <1>1, <1>2, <1>11, OccursPlaces DEF A, B, n, w

\* Taking out a core leaves the other cores as often as they were.
LEMMA OccursRemovedAt ==
    ASSUME NEW v, Full(v), NEW i \in 1..v.count, NEW c, v.cells[i] # c
    PROVE  Occurs(c, removedAt(v, i)) = Occurs(c, v)
<1> DEFINE w == removedAt(v, i)
           m == v.count
           A == Places(c, w)
           B == Places(c, v)
<1>1. m \in Nat
    BY ObjectsFull
<1>2. /\ w.count = m - 1
      /\ \A j \in 1..(m - 1) : w.cells[j] = IF j = i THEN v.cells[m] ELSE v.cells[j]
    BY RemovedAtFull
<1> HIDE DEF w
<1>3. m - 1 \in Nat
    BY <1>1
<1>4. /\ A = {j \in 1..(m - 1) : w.cells[j] = c}
      /\ B = {j \in 1..m : v.cells[j] = c}
    BY <1>2 DEF Places
<1>5. IsFiniteSet(A) /\ IsFiniteSet(B)
    BY <1>1, <1>2, <1>3, OccursPlaces
<1> HIDE DEF A, B
<1>6. i \notin B
    BY <1>4
<1>7. CASE v.cells[m] # c
    <2>1. A = B
        BY <1>1, <1>2, <1>4, <1>7
    <2> QED
        BY <1>1, <1>2, <1>3, <2>1, OccursPlaces DEF A, B, w
<1>8. CASE v.cells[m] = c
    <2>1. i # m /\ i \in 1..(m - 1) /\ m \in B /\ m \notin A /\ i \in A
        BY <1>1, <1>2, <1>4, <1>8
    <2>2. A = (B \ {m}) \cup {i}
        <3>1. \A j \in A : j \in (B \ {m}) \cup {i}
            BY <1>1, <1>2, <1>4
        <3>2. \A j \in B \ {m} : j \in A
            BY <1>1, <1>2, <1>4
        <3> QED
            BY <2>1, <3>1, <3>2
    <2>3. /\ IsFiniteSet(B \ {m})
          /\ Cardinality(B \ {m}) = Cardinality(B) - 1
        BY <1>5, <2>1, FS_RemoveElement
    <2>4. Cardinality((B \ {m}) \cup {i}) = Cardinality(B \ {m}) + 1
        BY <1>6, <2>3, FS_AddElement
    <2>5. Cardinality(B) \in Nat
        BY <1>5, FS_CardinalityType
    <2>6. Cardinality(A) = Cardinality(B)
        BY <2>2, <2>3, <2>4, <2>5
    <2> QED
        BY <1>1, <1>2, <1>3, <2>6, OccursPlaces DEF A, B, w
<1> QED
    BY <1>7, <1>8

\* After n rounds: the cores that are not listed are as many as before, and a single
\* listed core is still to come or gone.
Hits(v, other) == {j \in 1..v.count : v.cells[j] \in Range(objects(other))}
AtMostOne(S) == \A i, j \in S : i = j

LEMMA RemovedExactly ==
    ASSUME NEW v, Full(v), NEW other
    PROVE  LET w == removed(v, other)
           IN  /\ \A c : c \notin Range(objects(other)) \/ Occurs(c, v) = 0 =>
                      Occurs(c, w) = Occurs(c, v)
               /\ AtMostOne(Hits(v, other)) =>
                     \A c \in Range(objects(other)) : Occurs(c, w) = 0
<1> DEFINE R == Range(objects(other))
<1>0. v.count \in Nat
    BY ObjectsFull
<1>1. PICK f : IsRemoving(f, v, other) /\ removed(v, other) = sorted(f[v.count])
    BY <1>0, RemovedRecursion
<1> DEFINE Good(n) ==
        /\ Full(f[n]) /\ f[n].count <= v.count
        /\ \A c : c \notin R \/ Occurs(c, v) = 0 => Occurs(c, f[n]) = Occurs(c, v)
        /\ AtMostOne(Hits(v, other)) =>
              /\ AtMostOne(Hits(f[n], other))
              /\ \A j \in Hits(f[n], other) : j > n
<1> DEFINE S == {n \in Nat : n <= v.count => Good(n)}
<1> HIDE DEF R
<1>2. S = Nat
    <2>1. 0 \in S
        <3>1. f[0] = v
            BY <1>1 DEF IsRemoving
        <3>2. \A j \in Hits(v, other) : j > 0
            BY <1>0 DEF Hits
        <3>3. Good(0)
            BY <1>0, <3>1, <3>2
        <3> HIDE DEF Good
        <3> QED
            BY <3>3
    <2>2. ASSUME NEW n \in S PROVE n + 1 \in S
        <3> DEFINE w == f[n]
                   i == n + 1
                   u == f[n + 1]
        <3> SUFFICES ASSUME n + 1 <= v.count PROVE Good(n + 1)
            <4> HIDE DEF Good
            <4> QED
                OBVIOUS
        <3>1. n \in Nat /\ i \in 1..v.count /\ i - 1 = n /\ n <= v.count
            BY <1>0
        <3>2. Good(n)
            <4> HIDE DEF Good
            <4> QED
                BY <3>1
        <3>3. u = IF i <= w.count /\ w.cells[i] \in R THEN removedAt(w, i) ELSE w
            BY <1>1, <3>1 DEF IsRemoving, R
        <3>4. w.count \in Nat
            BY <3>2, ObjectsFull
        <3>5. \A x : Hits(x, other) = {j \in 1..x.count : x.cells[j] \in R}
            BY DEF Hits, R
        <3>6. CASE i <= w.count /\ w.cells[i] \in R
            <4>1. u = removedAt(w, i) /\ i \in 1..w.count
                BY <3>1, <3>3, <3>4, <3>6
            <4>2. /\ Full(u) /\ u.count = w.count - 1
                  /\ \A j \in 1..(w.count - 1) :
                        u.cells[j] = IF j = i THEN w.cells[w.count] ELSE w.cells[j]
                BY <3>2, <4>1, RemovedAtFull
            <4>3. u.count <= v.count
                BY <1>0, <3>2, <3>4, <4>2
            <4>4. ASSUME NEW c, c \notin R \/ Occurs(c, v) = 0 PROVE Occurs(c, u) = Occurs(c, v)
                <5>1. w.cells[i] # c
                    <6>1. CASE c \notin R
                        BY <3>6, <6>1
                    <6>2. CASE Occurs(c, v) = 0
                        <7>1. Occurs(c, w) = 0
                            BY <3>2, <6>2
                        <7>2. Places(c, w) = {}
                            BY <3>4, <7>1, OccursPlaces
                        <7> QED
                            BY <4>1, <7>2 DEF Places
                    <6> QED
                        BY <4>4, <6>1, <6>2
                <5>2. Occurs(c, u) = Occurs(c, w)
                    BY <3>2, <4>1, <5>1, OccursRemovedAt
                <5> QED
                    BY <3>2, <4>4, <5>2
            <4>5. ASSUME AtMostOne(Hits(v, other)) PROVE Hits(u, other) = {}
                <5>1. \A j \in 1..w.count : j # i => w.cells[j] \notin R
                    BY <3>2, <3>5, <3>6, <4>1, <4>5 DEF AtMostOne
                <5>2. \A j \in 1..u.count : u.cells[j] \notin R
                    BY <3>4, <4>1, <4>2, <5>1
                <5> QED
                    BY <3>5, <5>2
            <4>6. AtMostOne({})
                BY DEF AtMostOne
            <4> QED
                BY <4>2, <4>3, <4>4, <4>5, <4>6
        <3>7. CASE ~(i <= w.count /\ w.cells[i] \in R)
            <4>1. u = w
                BY <3>3, <3>7
            <4>2. \A j \in Hits(w, other) : j > n => j > n + 1
                BY <3>1, <3>4, <3>5, <3>7
            <4> QED
                BY <3>2, <4>1, <4>2
        <3> QED
            BY <3>6, <3>7
    <2>3. S \subseteq Nat
        OBVIOUS
    <2> HIDE DEF S
    <2> QED
        BY <2>1, <2>2, <2>3, Induction
<1>3. Good(v.count)
    <2> HIDE DEF Good
    <2> QED
        BY <1>0, <1>2
<1> DEFINE w == f[v.count]
<1>4. \A c : Occurs(c, removed(v, other)) = Occurs(c, w)
    BY <1>1, <1>3, OccursSorted
<1>5. ASSUME AtMostOne(Hits(v, other)), NEW c \in R PROVE Occurs(c, w) = 0
    <2>1. w.count \in Nat /\ w.count <= v.count
        BY <1>3, ObjectsFull
    <2>2. \A j \in 1..w.count : w.cells[j] \notin R
        BY <1>0, <1>3, <1>5, <2>1 DEF Hits, R
    <2>3. Places(c, w) = {}
        BY <2>2 DEF Places
    <2> QED
        BY <2>1, <2>3, OccursPlaces
<1> QED
    BY <1>3, <1>4, <1>5 DEF R

\* remove() takes every listed core out when there is one to take, and never one
\* that is not listed (thread.hpp:102).
THEOREM RemoveTakesTheListed == Spec => RemoveIsExactForOne
<1> DEFINE Exact(o, p) ==
        LET hit == {c \in Range(objects(cores[o])) : Occurs(c, cores[p]) > 0}
            one == Cardinality({i \in 1..cores[o].count : cores[o].cells[i] \in hit}) <= 1
        IN  \A c \in Nat \cap (Range(objects(cores[o])) \cup Range(objects(cores'[o]))) :
               IF c \notin hit THEN Occurs(c, cores'[o]) = Occurs(c, cores[o])
               ELSE one => Occurs(c, cores'[o]) = 0
<1>1. ASSUME ThreadInv, UsableAreFull, NEW o \in Objects, NEW p \in Objects, RemoveCores(o, p)
      PROVE  Exact(o, p)
    <2> DEFINE v == cores[o]
               other == cores[p]
               w == removed(v, other)
               R == Range(objects(other))
               hit == {c \in Range(objects(v)) : Occurs(c, other) > 0}
               H == {i \in 1..v.count : v.cells[i] \in hit}
    <2>1. Full(v) /\ Full(other)
        BY <1>1, OwnersApart, UsableFull DEF RemoveCores
    <2>2. cores'[o] = w
        BY <1>1, OwnersApart DEF RemoveCores, Becomes, ThreadInv, VectorsAccounted
    <2>3. ASSUME NEW c PROVE Occurs(c, other) > 0 <=> c \in R
        <3>1. /\ other.count \in Nat /\ DOMAIN objects(other) = 1..other.count
              /\ \A i \in 1..other.count : objects(other)[i] = other.cells[i]
            BY <2>1, ObjectsFull
        <3>2. c \in R <=> Places(c, other) # {}
            BY <3>1 DEF Range, Places
        <3> QED
            BY <3>1, <3>2, OccursPlaces
    <2>4. /\ v.count \in Nat /\ DOMAIN objects(v) = 1..v.count
          /\ \A i \in 1..v.count : objects(v)[i] = v.cells[i]
        BY <2>1, ObjectsFull
    <2>5. H = Hits(v, other)
        <3>1. \A i \in 1..v.count : v.cells[i] \in hit <=> v.cells[i] \in R
            BY <2>3, <2>4 DEF Range
        <3> HIDE DEF hit, R
        <3> QED
            BY <3>1 DEF Hits, R
    <2>6. Cardinality(H) <= 1 => AtMostOne(H)
        <3>1. IsFiniteSet(H)
            <4>1. H \subseteq 1..v.count
                OBVIOUS
            <4>2. IsFiniteSet(1..v.count)
                BY <2>4, FS_Interval
            <4> HIDE DEF H
            <4> QED
                BY <4>1, <4>2, FS_Subset
        <3> HIDE DEF H
        <3> SUFFICES ASSUME Cardinality(H) <= 1, NEW i \in H, NEW j \in H PROVE i = j
            BY DEF AtMostOne
        <3>2. Cardinality(H) \in Nat /\ Cardinality(H) # 0
            BY <3>1, FS_CardinalityType, FS_EmptySet
        <3>3. Cardinality(H) = 1
            BY <3>2
        <3> QED
            BY <3>1, <3>3, FS_Singleton
    <2>7. /\ \A c : c \notin R \/ Occurs(c, v) = 0 => Occurs(c, w) = Occurs(c, v)
          /\ AtMostOne(Hits(v, other)) => \A c \in R : Occurs(c, w) = 0
        BY <2>1, RemovedExactly
    <2> HIDE DEF w, R, H
    <2>8. ASSUME NEW c \in Nat \cap (Range(objects(v)) \cup Range(objects(cores'[o])))
          PROVE  IF c \notin hit THEN Occurs(c, cores'[o]) = Occurs(c, v)
                 ELSE Cardinality(H) <= 1 => Occurs(c, cores'[o]) = 0
        <3>1. CASE c \in hit
            <4>1. c \in R
                BY <2>3, <3>1
            <4> QED
                BY <2>2, <2>5, <2>6, <2>7, <3>1, <4>1
        <3>2. CASE c \notin R
            <4>1. c \notin hit
                BY <2>3, <3>2
            <4> QED
                BY <2>2, <2>7, <3>2, <4>1
        <3>3. CASE c \notin hit /\ c \in R
            <4>1. c \notin Range(objects(v))
                BY <2>3, <3>3
            <4>2. Places(c, v) = {}
                BY <2>4, <4>1 DEF Places, Range
            <4>3. Occurs(c, v) = 0
                BY <2>4, <4>2, OccursPlaces
            <4> QED
                BY <2>2, <2>7, <3>3, <4>3
        <3> QED
            BY <3>1, <3>2, <3>3
    <2> QED
        BY <2>8 DEF H
<1>2. ThreadInv /\ UsableAreFull /\ [Next]_vars =>
        \A o, p \in Objects : RemoveCores(o, p) => Exact(o, p)
    BY <1>1
<1> QED
    BY <1>2, ThreadInvariant, UsableInvariant, PTL DEF Spec, RemoveIsExactForOne
=============================================================================
