SPECIFICATION Spec
CONSTANTS
    j1 = j1
    j2 = j2
    j3 = j3
    None = None
    Job = {j1, j2, j3}
    Occurs = {"Late"}
    MaxResumes = 0
SYMMETRY MCJobs
INVARIANTS
    NothingLost
CHECK_DEADLOCK FALSE
