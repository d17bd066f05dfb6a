SPECIFICATION Spec
CONSTANTS
    a = a
    b = b
    c = c
    None = None
    Job = {a, b, c}
    Kind <- MCKind
    Storage <- MCStorage
    MaxWindow = 3
    Remembers = {"destination"}
INVARIANTS
    JoinsOwnKind
    NothingAstray
    ThrottledOnlyIdle
PROPERTIES
    RequestsServed
CHECK_DEADLOCK FALSE
