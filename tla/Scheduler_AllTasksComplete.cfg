CONSTANTS
    Count = 2
    Users = {u}
    Tasks = {t1, t2}
    SameThread = {}
    Stop = Stop
    NoTask = NoTask
    IndexBound = 4
SPECIFICATION Spec
INVARIANT AllTasksComplete
