SPECIFICATION FairSpec
CONSTANTS
    Names = {n1}
    Root = Root
    Failing = {}
    MaxInode = 6
    MaxChanges = 3
    MaxFaults = 2
CHECK_DEADLOCK FALSE
INVARIANTS TypeOK ChangesAreSeen
PROPERTIES Rests Repaired ClosedRepairs
