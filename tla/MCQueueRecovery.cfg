SPECIFICATION Spec
SYMMETRY MCWindows
CONSTANTS
    w1 = w1
    w2 = w2
    i1 = i1
    i2 = i2
    j1 = j1
    j2 = j2
    None = None
    Window = {w1, w2}
    Item = {i1, i2}
    Job = {j1, j2}
    Content <- MCContent
    Key <- MCKey
    Fragile = {i2}
    ByHand = 2
    MaxBoots = 2
INVARIANTS
    WholeArchives
    SavedCovers
    AdoptedOnce
PROPERTIES
    IntactArchiveSurvives
CHECK_DEADLOCK FALSE
