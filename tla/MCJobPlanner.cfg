SPECIFICATION Spec
CONSTANTS
    None = None
    Name <- MCName
    Fold <- MCFold
    Sensitive <- MCSensitive
    Jobs <- MCJobs
    Trees <- MCTrees
    MaxEntries = 4
INVARIANTS
    DestinationsDistinct
    NothingOverlooked
CHECK_DEADLOCK FALSE
