-------------------------------- MODULE Memory --------------------------------
(***************************************************************************)
(* Allocations (include/hfts/memory.hpp, src/memory.cpp): what the default *)
(* allocator does with the memory the system gives it, as arithmetic on    *)
(* addresses, and what TrackedAllocator counts.  A block is the memory of  *)
(* one allocation: the part [base, base + length) that comes from the      *)
(* system, the address ptr the caller gets, and the address saved at which *)
(* alignedMalloc() leaves the base for alignedFree(), or NoAddress.        *)
(***************************************************************************)
EXTENDS Integers

CONSTANTS
    PageSize,      \* pageSize()
    PointerSize,   \* sizeof(void*)
    UInt32         \* 2^32, the number of values of uint32_t

ASSUME MemoryAssumption ==
    /\ PageSize \in Nat \ {0}
    /\ PointerSize \in Nat \ {0}
    /\ UInt32 \in Nat \ {0}

NoAddress == -1

alignUp(val, alignment) == alignment * ((val + alignment - 1) \div alignment)

\* The request of create(), make_unique_n(), make_shared(), their Deleter, list,
\* vector, StlAllocator and OSFiber for n objects of a type.
request(type, n, usage) ==
    [size |-> type.size * n, alignment |-> type.alignment,
     useGuards |-> FALSE, usage |-> usage]

One(guard) == IF guard THEN 1 ELSE 0
numRequestedPages(size) == (size + PageSize - 1) \div PageSize
numTotalPages(size, guardLow, guardHigh) ==
    numRequestedPages(size) + One(guardLow) + One(guardHigh)

-----------------------------------------------------------------------------
\* Each takes the address mem of the memory that mmap() or malloc() returned.
pagedMalloc(mem, size, guardLow, guardHigh) ==
    [base   |-> mem,
     length |-> numTotalPages(size, guardLow, guardHigh) * PageSize,
     ptr    |-> mem + One(guardLow) * PageSize,
     saved  |-> NoAddress]

\* The pages protectPage() makes inaccessible, by their first address.
guardPages(mem, size, guardLow, guardHigh) ==
    LET first == mem + One(guardLow) * PageSize
    IN  (IF guardLow THEN {mem} ELSE {})
        \cup (IF guardHigh THEN {first + numRequestedPages(size) * PageSize} ELSE {})

alignedMalloc(mem, alignment, size) ==
    [base   |-> mem,
     length |-> size + alignment + PointerSize,
     ptr    |-> alignUp(mem, alignment),
     saved  |-> alignUp(mem, alignment) + size]

allocate(mem, r) ==
    IF r.useGuards THEN pagedMalloc(mem, r.size, TRUE, TRUE)
    ELSE IF r.alignment > 1 THEN alignedMalloc(mem, r.alignment, r.size)
    ELSE [base |-> mem, length |-> r.size, ptr |-> mem, saved |-> NoAddress]

\* The bytes of the pointer p at the address at, and the pointer that is read there.
savePointer(memory, at, p) ==
    [a \in DOMAIN memory |->
        IF a \in at..(at + PointerSize - 1) THEN <<p, a - at>> ELSE memory[a]]
loadPointer(memory, at) ==
    CHOOSE p \in Nat : \A k \in 0..(PointerSize - 1) : memory[at + k] = <<p, k>>

\* The memory after the allocation of b.
written(memory, b) ==
    IF b.saved = NoAddress THEN memory ELSE savePointer(memory, b.saved, b.base)

\* What is given back to the system: an address, and for pages a length.
pagedFree(ptr, size, guardLow, guardHigh) ==
    [base   |-> ptr - One(guardLow) * PageSize,
     length |-> numTotalPages(size, guardLow, guardHigh) * PageSize]

\* free() of the allocation <<ptr, r>>.
free(ptr, r, memory) ==
    IF r.useGuards THEN pagedFree(ptr, r.size, TRUE, TRUE)
    ELSE [base   |-> IF r.alignment > 1 THEN loadPointer(memory, ptr + r.size) ELSE ptr,
          length |-> NoAddress]

-----------------------------------------------------------------------------
(* The stack of a fiber (osfiberm.hpp) *)

\* hfts_fiber_set_run(): the end of the stack, rounded down.
stackPointer(stack, stack_size) == ((stack + stack_size) \div 16) * 16

\* The stack gets stackSize bytes, but its end is found with a uint32_t.
createFiber(mem, stackSize) ==
    LET stack == allocate(mem, request([size |-> stackSize, alignment |-> 16], 1, "Stack"))
    IN  [stack |-> stack, SP |-> stackPointer(stack.ptr, stackSize % UInt32)]

-----------------------------------------------------------------------------
\* TrackedAllocator: the statistics of one usage.
NoStats == [count |-> 0, bytes |-> 0]
counted(stats, r) == [count |-> stats.count + 1, bytes |-> stats.bytes + r.size]
uncounted(stats, r) == [count |-> stats.count - 1, bytes |-> stats.bytes - r.size]
=============================================================================
