CONSTANTS
    Workers = {w1, w2, w3}
    Numbers <- MCNumbers
    UInt64 = 32
    UInt32 = 5
    MaxTasks = 5
SPECIFICATION FairSpec
INVARIANTS ChecksumsAgree OnlyLastDoneOverruns
PROPERTY Returns
CHECK_DEADLOCK FALSE
