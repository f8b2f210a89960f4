SPECIFICATION Spec
CONSTANTS
    Agent = Agent
    Commands = {c1}
    Names = {n1}
    Images = {i1, i2}
    FileNames = {f1, f2}
    Dirs = {d1, d2, d3}
    TemporaryTries = 1
    Keeps <- MCAnyKeep
    Found <- MCMixed
    DamageKinds = {"unreadable", "sealed", "alter"}
    MaxDamage = 1
    MaxFaults = 1
    None = None
    Flat = Flat
    Link = Link
    Altered = Altered
    Sentinel = Sentinel
    f1 = f1
    f2 = f2
    i1 = i1
    i2 = i2
CONSTRAINT OneMishap
SYMMETRY Symmetry
INVARIANTS TypeOK CompleteIsWhole
PROPERTIES CommandSparesForeign UnreadableStays ImplementsArchives
