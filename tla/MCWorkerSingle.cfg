CONSTANTS
    Mode = "SingleThreaded"
    Tasks = {t1, t2, user}
    FinalTask = user
    NoTask = NoTask
    SameThread = {t1, t2}
    Fibers = {0, 1, 2, 3}
    Externals = {e1}
    NoThread = NoThread
    Self = Self
    TimePoints = {}
    Overloads = {"pred", "bare"}
    MaxWaits = 4
    MaxQueue = 4
    MaxTime = 0
SPECIFICATION Spec
INVARIANT MainIsResumable
PROPERTY ImplementsTaskExecutor
