SPECIFICATION Spec
CONSTANTS
    paste = paste
    drop = drop
    launch = launch
    None = None
    Request = {paste, drop, launch}
    Gesture <- MCGesture
    CacheLimit = 1
    MaxTries = 1
    MaxStarts = 2
INVARIANTS
    NotTwoEngines
    AnswerTrue
PROPERTIES
    PipeReleased
CHECK_DEADLOCK FALSE
