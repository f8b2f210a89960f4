SPECIFICATION FairSpec
CONSTANTS
    Names = {n1, n2}
    Images = {i1, i2}
    Broken = {i2}
    Selective = {n1}
    Lists <- MCAnyList
    Resync = TRUE
    None = None
    MaxChanges = 1
    MaxFaults = 0
    MaxLag = 1
PROPERTIES Converges
