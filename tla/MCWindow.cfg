SPECIFICATION Spec
CONSTANTS
    j1 = j1
    j2 = j2
    j3 = j3
    None = None
    Job = {j1, j2, j3}
    Occurs = {"Stop", "Cancel", "Remove", "Close", "Asked", "Elevation", "LowSpace", "Unplannable", "Rejected", "Conflict", "Fatal", "Parked", "Late", "Slip"}
    MaxResumes = 1
SYMMETRY MCJobs
INVARIANTS
    GatesSound
    JobsExact
    CancelOverStop
CHECK_DEADLOCK FALSE
