SPECIFICATION Spec
CONSTANTS
    k1 = k1
    k2 = k2
    k3 = k3
    Key <- MCKey
    Folder <- MCFolder
    Batch <- MCBatch
    Size = {0, 2}
    Chunk = {1, 3}
    MaxBatch = 2
    MaxFailures = 1
    MaxId = 2
    MaxU64 = 4
    MaxAttempt = 2
    MaxFolders = 1
SYMMETRY MCSymmetry
INVARIANTS
    Ledgers
    Partition
    ReservationsExact
PROPERTIES
    ProgressNeverRewinds
    AttemptsNeverReset
    ImplementsLifecycle
