\* The command ends: its last state has no successor.
CHECK_DEADLOCK FALSE
SPECIFICATION Spec
CONSTANTS
    Images <- MCImages
    CommandLines <- MCCommandLines
    Bases = {a, b, Sentinel}
    Sentinel = Sentinel
    Int = 2
    Term = 15
    MaxSignals = 2
    a = a
    b = b
INVARIANTS TypeOK PublishedIsTheImage ExitNamesSignal ExitTellsTheTruth RegistryAsAsked
PROPERTIES GoroutineEnds RunEnds
