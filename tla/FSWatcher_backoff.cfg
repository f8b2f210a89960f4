SPECIFICATION Spec
CONSTANTS
    Names = {n1}
    Root = Root
    Failing = {n1}
    MaxInode = 3
    MaxChanges = 0
    MaxFaults = 0
CHECK_DEADLOCK FALSE
PROPERTIES BackoffHolds
