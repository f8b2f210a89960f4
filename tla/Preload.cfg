SPECIFICATION FairSpec
CONSTANTS
    Names = {n1, n2}
    Images = {i1, i2}
    FileNames = {f1}
    None = None
    Altered = Altered
    Root = Root
    Flat = Flat
    MaxFaults = 1
INVARIANTS TypeOK SuccessMeansLoaded
PROPERTIES StayingIsLoaded
