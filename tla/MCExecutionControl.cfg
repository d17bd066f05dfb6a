SPECIFICATION ControlSpec
CONSTANTS
    Thread = {t1, t2, t3}
    File = {f1, f2}
INVARIANTS
    NoLostWakeup
    SkipsVisible
PROPERTIES
    EndingIsFinal
    PauseHolds
    EndingWakes
