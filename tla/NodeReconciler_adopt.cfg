SPECIFICATION Spec
CONSTANTS
    Names = {n1}
    Images = {i1, i2}
    Broken = {}
    Selective = {}
    Lists <- MCAllClaimed
    Resync = TRUE
    None = None
    MaxChanges = 2
    MaxFaults = 0
    MaxLag = 2
PROPERTIES AdoptedIsChecked
