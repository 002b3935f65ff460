CONSTANTS
    Count = 2
    Users = {u}
    Tasks = {t1, t2, s1}
    SameThread = {s1}
    Stop = Stop
    NoTask = NoTask
    IndexBound = 2
SPECIFICATION FairSpec
INVARIANTS TypeOK TaskInOnePlace RunsWhereScheduled OnlyOrphansLost
PROPERTIES EveryTaskRuns DestructorReturns
