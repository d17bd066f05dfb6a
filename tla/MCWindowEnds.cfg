SPECIFICATION Spec
CONSTANTS
    j1 = j1
    j2 = j2
    j3 = j3
    None = None
    Job = {j1, j2}
    Occurs = {"Stop", "Cancel", "Close", "Remove", "Asked", "Elevation", "LowSpace", "Unplannable", "Rejected", "Conflict", "Fatal", "Parked", "Late", "Slip"}
    MaxResumes = 1
PROPERTIES
    SessionFinishes
    ResumeHonoured
CHECK_DEADLOCK FALSE
