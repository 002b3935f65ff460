CONSTANTS
    Fibers = {f1, f2}
    Outside = {p1, p2}
    Nobody = Nobody
    Nowhere = Nowhere
    Group = Group
    Cvs = {Group}
    Initial = 2
    MaxAdds = 2
    MaxWaits = 3
SPECIFICATION FairSpec
CHECK_DEADLOCK FALSE
INVARIANTS TypeOK NoStuckWaiter
PROPERTIES WaitsEnd
