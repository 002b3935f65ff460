CONSTANTS
    PageSize = 16
    PointerSize = 4
    UInt32 = 64
    BaseCapacity = 1
    MinGrowth = 3
    ElementType <- MCCore
    NoObject = NoObject
    Objects = {a, b}
    Handles = {h1, h2}
    Impls = {i1}
    Null = Null
    Available = 2
    ThreadIds = {0, 2}
    Lists <- MCLists
    MaxCount = 4
SPECIFICATION Spec
SYMMETRY Symmetry
INVARIANTS LedgerMatches ImplOutlivesThread
PROPERTIES OnlyReassignmentBreaks RemoveIsExactForOne
CHECK_DEADLOCK FALSE
