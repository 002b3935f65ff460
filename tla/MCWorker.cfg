CONSTANTS
    Mode = "MultiThreaded"
    Tasks = {t1, t2, stop}
    FinalTask = stop
    NoTask = NoTask
    SameThread = {stop, t2}
    Fibers = {0, 1, 2}
    Externals = {e1, e2}
    NoThread = NoThread
    Self = Self
    TimePoints = {}
    Overloads = {"pred", "bare"}
    MaxWaits = 3
    MaxQueue = 3
    MaxTime = 0
SPECIFICATION Spec
SYMMETRY Symmetry
INVARIANTS TypeOK NumConsistent BlockedCounted NoLostWakeup NoLostNotification
           FiberPlacement
PROPERTIES FibersAreReused ImplementsTaskExecutor
