CONSTANTS
    Mode = "MultiThreaded"
    Tasks = {t1, t2, stop}
    FinalTask = stop
    NoTask = NoTask
    SameThread = {stop}
    Fibers = {0, 1, 2}
    Externals = {e1}
    NoThread = NoThread
    Self = Self
    TimePoints = {1, 2}
    Overloads = {"pred"}
    MaxWaits = 2
    MaxQueue = 4
    MaxTime = 2
SPECIFICATION Spec
INVARIANT QueueWithinPool
CHECK_DEADLOCK FALSE
