SPECIFICATION Spec
CONSTANTS
    Agent = Agent
    Commands = {}
    Names = {n1}
    Images = {i1}
    FileNames = {f1}
    Dirs = {d1, d2, d3}
    TemporaryTries = 2
    Keeps <- MCKeepAll
    Found <- MCUnread
    DamageKinds = {}
    MaxDamage = 0
    MaxFaults = 0
    None = None
    Flat = Flat
    Link = Link
    Altered = Altered
    Sentinel = Sentinel
    f1 = f1
    f2 = f2
    i1 = i1
    i2 = i2
PROPERTIES UnreadableIsKept
