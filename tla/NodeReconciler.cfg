SPECIFICATION FairSpec
CONSTANTS
    Names = {n1}
    Images = {i1, i2}
    Broken = {i2}
    Selective = {n1}
    Lists <- MCAnyList
    Resync = TRUE
    None = None
    MaxChanges = 2
    MaxFaults = 1
    MaxLag = 2
INVARIANTS TypeOK
PROPERTIES SyncedWasSeen OthersLabelsSurvive Converges
