CONSTANTS
    Mode = "MultiThreaded"
    Tasks = {t1, t2, stop}
    FinalTask = stop
    NoTask = NoTask
    SameThread = {stop}
    Fibers = {0, 1, 2}
    Externals = {e1}
    NoThread = NoThread
    Self = Self
    TimePoints = {}
    Overloads = {"pred"}
    MaxWaits = 2
    MaxQueue = 3
    MaxTime = 0
SPECIFICATION FairSpec
PROPERTIES TasksEnd StopReturns
