SPECIFICATION FairSpec
CONSTANTS
    Files = {f1}
    Contents = {Good, Bad}
    Good = Good
    Torn = Torn
    Granularity = 1
    Racy = 2
    MaxNow = 5
    MaxInode = 1
    MaxChanges = 2
INVARIANTS TypeOK TrustedIsCurrent CompleteWasTrue
PROPERTIES TamperSeen
