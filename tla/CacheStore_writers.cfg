SPECIFICATION Spec
CONSTANTS
    Agent = Agent
    Commands = {c1, c2}
    Names = {n1}
    Images = {i1}
    FileNames = {f1, f2}
    Dirs = {d1, d2, d3, d4}
    TemporaryTries = 3
    Keeps <- MCKeepAll
    Found <- MCRacing
    DamageKinds = {}
    MaxDamage = 0
    MaxFaults = 0
    None = None
    Flat = Flat
    Link = Link
    Altered = Altered
    Sentinel = Sentinel
    f1 = f1
    f2 = f2
    i1 = i1
    i2 = i2
SYMMETRY Symmetry
INVARIANTS LockedTemporaryStays SuccessSticks
