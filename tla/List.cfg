CONSTANTS
    Values = {v1, v2}
    FirstGrow = 1
    MaxEntries = 4
SPECIFICATION Spec
CHECK_DEADLOCK FALSE
INVARIANT EachInOneList
PROPERTY ImplementsStableList
