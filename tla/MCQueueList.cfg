SPECIFICATION Spec
CONSTANTS
    Data = {d1, d2}
    PageSize = 2
    MaxFiles = 3
    MaxPlans = 2
    Preview = Preview
    None = None
CHECK_DEADLOCK FALSE
INVARIANTS ListShowsSnapshot
PROPERTIES EditsHitWhatIsShown
