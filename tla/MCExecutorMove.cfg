SPECIFICATION Spec
CONSTANTS
    i1 = i1
    i2 = i2
    i3 = i3
    w1 = w1
    w2 = w2
    f1 = f1
    None = None
    Inside <- MCInside
    Item = {i1, i2}
    Worker = {w1, w2}
    Operation = "Move"
    Policy = {"Prompt"}
    Planned = {i1, i2}
    Foreign = {}
    Folder = {}
    Identified = {i1}
    Outside = {"SourceChanges", "SourceVanishes", "CopyChanges"}
    Touched = {i1}
    MaxAlternates = 1
    MaxSessions = 2
    Appends = {}
SYMMETRY MCWorkers
INVARIANTS
    HeldExactly
    OutcomesTrue
PROPERTIES
    SourceSafe
    LifecycleKept
CHECK_DEADLOCK FALSE
