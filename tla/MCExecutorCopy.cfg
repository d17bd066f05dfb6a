SPECIFICATION Spec
CONSTANTS
    i1 = i1
    i2 = i2
    i3 = i3
    w1 = w1
    w2 = w2
    f1 = f1
    None = None
    Inside <- MCInside
    Item = {i1, i2}
    Worker = {w1, w2}
    Operation = "Copy"
    Policy = {"Prompt", "ReplaceAll", "SkipAll", "KeepBoth", "KeepBothAll"}
    Planned = {i1}
    Foreign = {i1}
    Folder = {f1}
    Identified = {i1, i2}
    Outside = {}
    Touched = {}
    MaxAlternates = 1
    MaxSessions = 2
    Appends = {i2}
INVARIANTS
    NoLeftovers
    ConflictOpen
PROPERTIES
    ForeignKept
    DirectoriesTried
    SessionEnds
CHECK_DEADLOCK FALSE
