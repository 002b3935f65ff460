CONSTANTS
    Mode = "MultiThreaded"
    Tasks = {t1, t2, stop}
    FinalTask = stop
    NoTask = NoTask
    SameThread = {stop}
    Fibers = {0, 1, 2}
    Externals = {e1}
    NoThread = NoThread
    Self = Self
    TimePoints = {1, 2}
    Overloads = {"pred"}
    MaxWaits = 3
    MaxQueue = 3
    MaxTime = 2
SPECIFICATION Spec
INVARIANTS NoTimerLost NoOversleep StopsClean
PROPERTY ImplementsFiberTimeouts
CHECK_DEADLOCK FALSE
